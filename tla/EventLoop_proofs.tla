-------------------------- MODULE EventLoop_proofs --------------------------
(***************************************************************************)
(* Proofs about the worker's loop, for every number of slots, every        *)
(* timeout and every batch size: the loop uses its slots as ConnSlots      *)
(* says, each wait has its timer, and no step of the loop ends a           *)
(* connection whose kernel call is in flight.  Then, what the loop sleeps  *)
(* on: the types of its state; that a connection that waits will be woken  *)
(* up, although sockets are edge-triggered and events that nobody waits    *)
(* for are dropped; that the listening socket is looked at again; and that *)
(* no event reaches a slot that does not expect it, but for the slots with *)
(* an owner that the send timer ended.                                     *)
(***************************************************************************)
EXTENDS EventLoop, ConnSlots_proofs

Conns == [phase : Phases, attached : BOOLEAN, inq : BOOLEAN, outq : BOOLEAN, edge : BOOLEAN,
          recvTimer : {Off} \cup 0 .. RecvTicks, sendTimer : {Off} \cup 0 .. SendTicks,
          kc : {"idle", "sq", "cq"}]

\* A connection waits for one thing, and what belongs to that wait is there, and no more.
WaitFits(c) ==
    /\ c \in Conns
    /\ c.recvTimer # Off <=> c.phase = "recv"
    /\ c.sendTimer # Off <=> c.phase = "send"
    /\ c.kc # "idle" <=> c.phase = "kcall"

(***************************************************************************)
(* The inductive invariant: the bookkeeping of the slots; in every slot a  *)
(* connection whose timers and kernel call fit what it waits for; and a    *)
(* connection in exactly the slots that are owned.  The last part is what  *)
(* lets cl_destroy, called for a connection, give back a slot.             *)
(***************************************************************************)
LoopInv ==
    /\ SlotInv
    /\ conn \in [Slots -> Conns]
    /\ \A k \in Slots : WaitFits(conn[k])
    /\ \A k \in Slots : conn[k].phase # "none" <=> k \in owned

\* The events of a batch, and the event whose write part is left, are those of slots.
EventsKnown ==
    /\ \A e \in batch : e.slot \in Slots
    /\ pc = "write" => cur \in Slots
    /\ ret # "write"

\* A kernel call in flight stays in flight or completes, and keeps its connection.
CallsKept == \A k \in Slots : conn[k].kc = "sq" => conn'[k].kc # "idle" /\ k \in owned'

\* What every step must do.
StepFits == LoopInv' /\ [NextSlots]_slotVars /\ CallsKept

-----------------------------------------------------------------------------

\* The slot that holds no connection fits.
LEMMA NoConnFits == WaitFits(NoConn) /\ NoConn.phase = "none" /\ NoConn.kc = "idle"
  BY LoopAssumption DEF WaitFits, Conns, NoConn, Phases, Off

\* cl_async changes nothing that an invariant speaks of.
LEMMA AttachFits ==
    ASSUME NEW c, WaitFits(c)
    PROVE  WaitFits(Attach(c)) /\ Attach(c).phase = c.phase
  BY DEF Attach, WaitFits, Conns

\* The slots are left alone, and every connection stays one or stays away.
LEMMA ConnsChange ==
    ASSUME LoopInv, UNCHANGED slotVars,
           conn' \in [Slots -> Conns],
           \A k \in Slots : WaitFits(conn'[k]),
           \A k \in Slots : conn'[k].phase # "none" <=> conn[k].phase # "none",
           \A k \in Slots : conn[k].kc = "sq" => conn'[k].kc # "idle"
    PROVE  StepFits
<1>1. SlotInv'
  BY DEF LoopInv, SlotInv, SlotTypeOK, SlotAccounting, FreeListSound, UsedSplit, CountersAgree,
         slotVars
<1>2. owned' = owned
  BY DEF slotVars
<1>3. CallsKept
  <2> SUFFICES ASSUME NEW k \in Slots, conn[k].kc = "sq"
               PROVE  conn'[k].kc # "idle" /\ k \in owned'
    BY DEF CallsKept
  <2>1. conn[k].phase = "kcall"
    BY DEF LoopInv, WaitFits
  <2>2. QED
    BY <1>2, <2>1 DEF LoopInv
<1>4. QED
  BY <1>1, <1>2, <1>3 DEF StepFits, LoopInv

\* One connection changes, but neither comes nor goes.
LEMMA OneChanges ==
    ASSUME LoopInv, UNCHANGED slotVars, NEW k \in Slots, NEW c,
           WaitFits(c), c.phase # "none", k \in owned,
           conn[k].kc = "sq" => c.kc # "idle",
           conn' = [conn EXCEPT ![k] = c]
    PROVE  StepFits
<1>1. /\ conn'[k] = c
      /\ \A j \in Slots : j # k => conn'[j] = conn[j]
      /\ conn' \in [Slots -> Conns]
  BY DEF LoopInv, WaitFits
<1>2. \A j \in Slots : WaitFits(conn'[j])
  BY <1>1 DEF LoopInv
<1>3. \A j \in Slots : conn'[j].phase # "none" <=> conn[j].phase # "none"
  BY <1>1 DEF LoopInv
<1>4. \A j \in Slots : conn[j].kc = "sq" => conn'[j].kc # "idle"
  <2> SUFFICES ASSUME NEW j \in Slots, conn[j].kc = "sq" PROVE conn'[j].kc # "idle"
    OBVIOUS
  <2>1. QED
    BY <1>1
<1>5. QED
  BY <1>1, <1>2, <1>3, <1>4, ConnsChange

\* Nothing about connections or slots changes.
LEMMA NothingChanges ==
    ASSUME LoopInv, UNCHANGED <<slotVars, conn>>
    PROVE  StepFits
<1>1. \A k \in Slots : WaitFits(conn'[k]) /\ (conn[k].kc = "sq" => conn'[k].kc # "idle")
  BY DEF LoopInv
<1>2. QED
  BY <1>1, ConnsChange DEF LoopInv

(***************************************************************************)
(* cl_destroy of a connection without a kernel call in flight.             *)
(***************************************************************************)
LEMMA DestroyStep ==
    ASSUME LoopInv, NEW k \in Slots, k \in owned, conn[k].kc # "sq", Destroy(k)
    PROVE  StepFits
<1>1. ConnFin(k) /\ owned' = owned \ {k} /\ NextSlots
  BY DEF Destroy, ConnFin, NextSlots
<1>2. SlotInv'
  BY <1>1, ConnFinKeepsInv DEF LoopInv
<1>3. /\ conn'[k] = NoConn
      /\ \A j \in Slots : j # k => conn'[j] = conn[j]
      /\ conn' \in [Slots -> Conns]
  BY NoConnFits DEF LoopInv, WaitFits, Destroy
<1>4. \A j \in Slots : WaitFits(conn'[j])
  BY <1>3, NoConnFits DEF LoopInv
<1>5. \A j \in Slots : conn'[j].phase # "none" <=> j \in owned'
  BY <1>1, <1>3, NoConnFits DEF LoopInv
<1>6. CallsKept
  <2> SUFFICES ASSUME NEW j \in Slots, conn[j].kc = "sq"
               PROVE  conn'[j].kc # "idle" /\ j \in owned'
    BY DEF CallsKept
  <2>1. j # k /\ conn[j].phase = "kcall"
    BY DEF LoopInv, WaitFits
  <2>2. QED
    BY <1>1, <1>3, <2>1 DEF LoopInv
<1>7. QED
  BY <1>1, <1>2, <1>3, <1>4, <1>5, <1>6 DEF StepFits, LoopInv

(***************************************************************************)
(* A run of a connection that has no kernel call in flight ends in a wait  *)
(* with what belongs to it, or in cl_destroy.                              *)
(***************************************************************************)
LEMMA RunStep ==
    ASSUME LoopInv, NEW k \in Slots, k \in owned, conn[k].kc # "sq", Run(k)
    PROVE  StepFits
<1>1. conn[k] \in Conns /\ WaitFits(conn[k])
  BY DEF LoopInv
<1>t. /\ {Off, RecvTicks} \subseteq {Off} \cup 0 .. RecvTicks /\ RecvTicks # Off
      /\ {Off, SendTicks} \subseteq {Off} \cup 0 .. SendTicks /\ SendTicks # Off
  BY LoopAssumption DEF Off
<1>2. CASE RunToRecv(k)
  <2> DEFINE c == [conn[k] EXCEPT !.phase = "recv", !.inq = FALSE, !.kc = "idle",
                                  !.recvTimer = RecvTicks, !.sendTimer = Off]
  <2>1. WaitFits(c) /\ c.phase = "recv"
    BY <1>1, <1>t DEF WaitFits, Conns, Phases
  <2>2. conn' = [conn EXCEPT ![k] = Attach(c)] /\ UNCHANGED slotVars
    BY <1>2 DEF RunToRecv, LoopInv
  <2>3. QED
    BY <2>1, <2>2, AttachFits, OneChanges
<1>3. CASE RunToSend(k)
  <2>1. PICK q \in InqAfter(k) :
          conn' = [conn EXCEPT ![k] = Attach([@ EXCEPT !.phase = "send", !.inq = q, !.outq = FALSE,
                                    !.kc = "idle", !.recvTimer = Off, !.sendTimer = SendTicks])]
    BY <1>3 DEF RunToSend
  <2> DEFINE c == [conn[k] EXCEPT !.phase = "send", !.inq = q, !.outq = FALSE,
                                  !.kc = "idle", !.recvTimer = Off, !.sendTimer = SendTicks]
  <2>2. q \in BOOLEAN
    BY <1>1 DEF InqAfter, Conns
  <2>3. WaitFits(c) /\ c.phase = "send"
    BY <1>1, <1>t, <2>2 DEF WaitFits, Conns, Phases
  <2>4. conn' = [conn EXCEPT ![k] = Attach(c)] /\ UNCHANGED slotVars
    BY <1>3, <2>1 DEF RunToSend, LoopInv
  <2>5. QED
    BY <2>3, <2>4, AttachFits, OneChanges
<1>4. CASE RunToKcall(k)
  <2>1. PICK q \in InqAfter(k) :
          conn' = [conn EXCEPT ![k] = [@ EXCEPT !.phase = "kcall", !.inq = q, !.kc = "sq",
                                                !.recvTimer = Off, !.sendTimer = Off]]
    BY <1>4 DEF RunToKcall
  <2> DEFINE c == [conn[k] EXCEPT !.phase = "kcall", !.inq = q, !.kc = "sq",
                                  !.recvTimer = Off, !.sendTimer = Off]
  <2>2. q \in BOOLEAN
    BY <1>1 DEF InqAfter, Conns
  <2>3. WaitFits(c) /\ c.phase = "kcall" /\ c.kc = "sq"
    BY <1>1, <2>2 DEF WaitFits, Conns, Phases, Off
  <2>4. conn' = [conn EXCEPT ![k] = c] /\ UNCHANGED slotVars
    BY <1>4, <2>1 DEF RunToKcall, LoopInv
  <2>5. QED
    BY <2>3, <2>4, OneChanges
<1>5. CASE RunToEnd(k)
  BY <1>5, DestroyStep DEF RunToEnd
<1>6. CASE RunAttachFails(k)
  BY <1>6, DestroyStep DEF RunAttachFails
<1>7. QED
  BY <1>2, <1>3, <1>4, <1>5, <1>6 DEF Run

\* A handler called by an event: it runs, or the program does something undefined.
LEMMA ResumeStep ==
    ASSUME LoopInv, NEW k \in Slots, Resume(k)
    PROVE  StepFits
<1>1. CASE \E kind \in {"null_handler", "early_resume"} : Undefined(kind, k)
  BY <1>1, NothingChanges DEF Undefined
<1>2. CASE Live(k) /\ conn[k].kc = "idle" /\ Run(k)
  <2>1. k \in owned
    BY <1>2 DEF LoopInv, Live
  <2>2. QED
    BY <1>2, <2>1, RunStep
<1>3. QED
  BY <1>1, <1>2 DEF Resume

-----------------------------------------------------------------------------

\* Peers, kcall threads, the clock and the caller of alphahttpd_stop.
LEMMA EnvironmentStep ==
    ASSUME LoopInv, Environment
    PROVE  StepFits
<1>1. CASE PeerConnects \/ Tick \/ Stop \/ StopPost
  BY <1>1, NothingChanges DEF PeerConnects, Tick, Stop, StopPost, connVars
<1>2. ASSUME NEW k \in Slots, PeerSends(k) \/ PeerReads(k)
      PROVE  StepFits
  <2>1. conn[k] \in Conns /\ WaitFits(conn[k]) /\ conn[k].phase # "none" /\ k \in owned
    BY <1>2 DEF PeerSends, PeerReads, Live, LoopInv
  <2>2. CASE PeerSends(k)
    <3> DEFINE c == [conn[k] EXCEPT !.inq = TRUE, !.edge = conn[k].attached]
    <3>1. WaitFits(c) /\ c.phase = conn[k].phase /\ c.kc = conn[k].kc
      BY <2>1 DEF WaitFits, Conns
    <3>2. conn' = [conn EXCEPT ![k] = c] /\ UNCHANGED slotVars
      BY <2>2 DEF PeerSends, LoopInv
    <3>3. QED
      BY <2>1, <3>1, <3>2, OneChanges
  <2>3. CASE PeerReads(k)
    <3> DEFINE c == [conn[k] EXCEPT !.outq = TRUE, !.edge = conn[k].attached]
    <3>1. WaitFits(c) /\ c.phase = conn[k].phase /\ c.kc = conn[k].kc
      BY <2>1 DEF WaitFits, Conns
    <3>2. conn' = [conn EXCEPT ![k] = c] /\ UNCHANGED slotVars
      BY <2>3 DEF PeerReads, LoopInv
    <3>3. QED
      BY <2>1, <3>1, <3>2, OneChanges
  <2>4. QED
    BY <1>2, <2>2, <2>3
<1>3. ASSUME NEW k \in Slots, KcallWorker(k)
      PROVE  StepFits
  <2> DEFINE c == [conn[k] EXCEPT !.kc = "cq"]
  <2>1. conn[k] \in Conns /\ WaitFits(conn[k]) /\ conn[k].kc = "sq"
    BY <1>3 DEF KcallWorker, LoopInv
  <2>2. conn[k].phase = "kcall" /\ k \in owned
    BY <2>1 DEF WaitFits, LoopInv
  <2>3. WaitFits(c) /\ c.phase = "kcall" /\ c.kc = "cq"
    BY <2>1, <2>2 DEF WaitFits, Conns
  <2>4. conn' = [conn EXCEPT ![k] = c] /\ UNCHANGED slotVars
    BY <1>3 DEF KcallWorker, LoopInv
  <2>5. QED
    BY <2>2, <2>3, <2>4, OneChanges
<1>4. QED
  BY <1>1, <1>2, <1>3 DEF Environment

\* ffkq_wait consumes events and leaves the rest of the connections alone.
LEMMA KqWaitStep ==
    ASSUME LoopInv, KqWait
    PROVE  StepFits
<1>1. PICK b \in SUBSET Ready :
        conn' = [k \in Slots |-> [conn[k] EXCEPT !.edge = @ /\ Event("conn", k) \notin b]]
  BY DEF KqWait
<1>2. ASSUME NEW k \in Slots
      PROVE  WaitFits(conn'[k]) /\ conn'[k].phase = conn[k].phase /\ conn'[k].kc = conn[k].kc
  <2> DEFINE e == conn[k].edge /\ Event("conn", k) \notin b
  <2>1. conn'[k] = [conn[k] EXCEPT !.edge = e] /\ e \in BOOLEAN
    BY <1>1
  <2>2. WaitFits(conn[k]) /\ conn[k] \in Conns
    BY DEF LoopInv
  <2> HIDE DEF e
  <2>3. QED
    BY <2>1, <2>2 DEF WaitFits, Conns
<1>3. conn' \in [Slots -> Conns]
  <2>1. \A k \in Slots : conn'[k] \in Conns
    BY <1>2 DEF WaitFits
  <2>2. QED
    BY <1>1, <2>1
<1>4. UNCHANGED slotVars
  BY DEF KqWait
<1>5. QED
  BY <1>2, <1>3, <1>4, ConnsChange

\* A timer that runs goes on running, and one that is off stays off.
LEMMA ElapseFits ==
    ASSUME NEW n \in Nat, NEW t \in {Off} \cup 0 .. n, NEW d \in Nat \ {0}
    PROVE  Elapse(t, d) \in {Off} \cup 0 .. n /\ (Elapse(t, d) # Off <=> t # Off)
  BY DEF Elapse, Off

\* sv_ontimer moves every timer on.
LEMMA WorkerEventStep ==
    ASSUME LoopInv, NEW e, WorkerEvent(e)
    PROVE  StepFits
<1>1. UNCHANGED slotVars
  BY DEF WorkerEvent
<1>2. CASE UNCHANGED conn
  BY <1>1, <1>2, NothingChanges
<1>3. ASSUME NEW d \in 1 .. MaxElapsed,
             conn' = [k \in Slots |-> [conn[k] EXCEPT !.recvTimer = Elapse(@, d),
                                                      !.sendTimer = Elapse(@, d)]]
      PROVE  StepFits
  <2>1. ASSUME NEW k \in Slots
        PROVE  WaitFits(conn'[k]) /\ conn'[k].phase = conn[k].phase /\ conn'[k].kc = conn[k].kc
    <3> DEFINE r == Elapse(conn[k].recvTimer, d)
               s == Elapse(conn[k].sendTimer, d)
    <3>1. WaitFits(conn[k]) /\ conn[k] \in Conns
      BY DEF LoopInv
    <3>2. d \in Nat \ {0} /\ RecvTicks \in Nat /\ SendTicks \in Nat
      BY LoopAssumption
    <3>3. conn[k].recvTimer \in {Off} \cup 0 .. RecvTicks
          /\ conn[k].sendTimer \in {Off} \cup 0 .. SendTicks
      BY <3>1 DEF Conns
    <3>4. /\ r \in {Off} \cup 0 .. RecvTicks /\ (r # Off <=> conn[k].recvTimer # Off)
          /\ s \in {Off} \cup 0 .. SendTicks /\ (s # Off <=> conn[k].sendTimer # Off)
      BY <3>2, <3>3, ElapseFits
    <3>5. conn'[k] = [conn[k] EXCEPT !.recvTimer = r, !.sendTimer = s]
      BY <1>3
    <3> HIDE DEF r, s
    <3>6. QED
      BY <3>1, <3>4, <3>5 DEF WaitFits, Conns
  <2>2. conn' \in [Slots -> Conns]
    <3>1. \A k \in Slots : conn'[k] \in Conns
      BY <2>1 DEF WaitFits
    <3>2. QED
      BY <1>3, <3>1
  <2>3. QED
    BY <1>1, <2>1, <2>2, ConnsChange
<1>4. QED
  BY <1>2, <1>3 DEF WorkerEvent

\* A socket's event calls at most one handler, or finds nobody to call.
LEMMA ConnEventStep ==
    ASSUME LoopInv, NEW e \in batch, ConnEvent(e), e.slot \in Slots
    PROVE  StepFits
<1>1. CASE Resume(e.slot)
  BY <1>1, ResumeStep
<1>2. CASE UNCHANGED <<slotVars, connVars>>
  BY <1>2, NothingChanges DEF connVars
<1>3. QED
  BY <1>1, <1>2 DEF ConnEvent

\* The timers of connections that wait, of the accept path, and their end.
LEMMA TimersStep ==
    ASSUME LoopInv, Timers
    PROVE  StepFits
<1>1. ASSUME NEW k \in Slots, SendExpired(k) \/ RecvExpired(k)
      PROVE  StepFits
  <2>1. WaitFits(conn[k])
    BY DEF LoopInv
  <2>2. conn[k].sendTimer = 0 \/ conn[k].recvTimer = 0
    BY <1>1 DEF SendExpired, RecvExpired
  <2>3. conn[k].phase \in {"recv", "send"}
    BY <2>1, <2>2 DEF WaitFits, Off
  <2>4. conn[k].kc # "sq" /\ k \in owned
    BY <2>1, <2>3 DEF WaitFits, LoopInv
  <2>5. QED
    BY <1>1, <2>4, DestroyStep DEF SendExpired, RecvExpired
<1>2. CASE FdTimerExpired \/ TimersDone
  BY <1>2, NothingChanges DEF FdTimerExpired, TimersDone, connVars
<1>3. QED
  BY <1>1, <1>2 DEF Timers

\* An accepted connection takes a slot that holds none.
LEMMA AcceptStep ==
    ASSUME LoopInv, Accept
    PROVE  StepFits
<1>1. CASE AcceptLimit \/ AcceptWait \/ AcceptFdLimit \/ AcceptError
  BY <1>1, NothingChanges
     DEF AcceptLimit, AcceptWait, AcceptFdLimit, AcceptError, connVars
<1>2. CASE AcceptConn
  <2>1. TakeSlot /\ NextSlots /\ connNum # NConns /\ owned' = owned \cup {NextSlot}
    BY <1>2 DEF AcceptConn, TakeSlot, NextSlots
  <2>2. NextSlot \in Slots /\ NextSlot \notin owned /\ SlotInv'
    BY <2>1, NextSlotFree, TakeSlotKeepsInv DEF LoopInv
  <2>3. PICK q \in BOOLEAN :
          conn' = [conn EXCEPT ![NextSlot] = [NoConn EXCEPT !.phase = "starting", !.inq = q]]
    BY <1>2 DEF AcceptConn
  <2> DEFINE c == [NoConn EXCEPT !.phase = "starting", !.inq = q]
  <2>4. WaitFits(c) /\ c.phase = "starting"
    BY NoConnFits DEF WaitFits, Conns, Phases, NoConn
  <2>5. /\ conn'[NextSlot] = c
        /\ \A j \in Slots : j # NextSlot => conn'[j] = conn[j]
        /\ conn' \in [Slots -> Conns]
    BY <2>2, <2>3, <2>4 DEF LoopInv, WaitFits
  <2>6. \A j \in Slots : WaitFits(conn'[j])
    BY <2>4, <2>5 DEF LoopInv
  <2>7. \A j \in Slots : conn'[j].phase # "none" <=> j \in owned'
    BY <2>1, <2>2, <2>4, <2>5 DEF LoopInv
  <2>8. CallsKept
    <3> SUFFICES ASSUME NEW j \in Slots, conn[j].kc = "sq"
                 PROVE  conn'[j].kc # "idle" /\ j \in owned'
      BY DEF CallsKept
    <3>1. conn[j].phase = "kcall"
      BY DEF LoopInv, WaitFits
    <3>2. j \in owned /\ j # NextSlot
      BY <2>2, <3>1 DEF LoopInv
    <3>3. QED
      BY <2>1, <2>5, <3>2
  <2>9. QED
    BY <2>1, <2>2, <2>5, <2>6, <2>7, <2>8 DEF StepFits, LoopInv
<1>3. QED
  BY <1>1, <1>2 DEF Accept

\* cl_start: the first run, or the slot is lost.
LEMMA ClStartStep ==
    ASSUME LoopInv, ClStart
    PROVE  StepFits
<1>1. PICK k \in Slots : conn[k].phase = "starting" /\ (Run(k) \/ StartFails(k))
  BY DEF ClStart
<1>2. WaitFits(conn[k]) /\ k \in owned
  BY <1>1 DEF LoopInv
<1>3. conn[k].kc # "sq"
  BY <1>1, <1>2 DEF WaitFits
<1>4. CASE Run(k)
  BY <1>2, <1>3, <1>4, RunStep
<1>5. CASE StartFails(k)
  <2> DEFINE c == [NoConn EXCEPT !.phase = "lost"]
  <2>1. WaitFits(c) /\ c.phase = "lost"
    BY NoConnFits DEF WaitFits, Conns, Phases, NoConn
  <2>2. conn' = [conn EXCEPT ![k] = c] /\ UNCHANGED slotVars
    BY <1>5 DEF StartFails
  <2>3. QED
    BY <1>2, <1>3, <2>1, <2>2, OneChanges
<1>6. QED
  BY <1>1, <1>4, <1>5

\* The queue of completed calls: the call that is popped is no longer in flight.
LEMMA CqStep ==
    ASSUME LoopInv, CqEmpty \/ \E k \in Slots : CqPop(k)
    PROVE  StepFits
<1>1. CASE CqEmpty
  BY <1>1, NothingChanges DEF CqEmpty, connVars
<1>2. ASSUME NEW k \in Slots, CqPop(k)
      PROVE  StepFits
  <2>1. conn[k].kc = "cq" /\ WaitFits(conn[k]) /\ Run(k)
    BY <1>2 DEF CqPop, LoopInv
  <2>2. k \in owned
    BY <2>1 DEF WaitFits, LoopInv
  <2>3. QED
    BY <2>1, <2>2, RunStep
<1>3. QED
  BY <1>1, <1>2

(***************************************************************************)
(* Every step of the loop and of what surrounds it.                        *)
(***************************************************************************)
LEMMA StepsFit ==
    ASSUME LoopInv, EventsKnown, [Next]_vars
    PROVE  StepFits
<1>1. CASE Environment
  BY <1>1, EnvironmentStep
<1>2. CASE KqWait
  BY <1>2, KqWaitStep
<1>3. CASE HandleEvent
  <2>1. PICK e \in batch : ConnEvent(e) \/ WorkerEvent(e)
    BY <1>3 DEF HandleEvent
  <2>2. QED
    BY <2>1, ConnEventStep, WorkerEventStep DEF EventsKnown
<1>4. CASE WritePart
  <2>1. cur \in Slots
    BY <1>4 DEF WritePart, EventsKnown
  <2>2. CASE Resume(cur)
    BY <2>1, <2>2, ResumeStep
  <2>3. CASE UNCHANGED <<slotVars, connVars>>
    BY <2>3, NothingChanges DEF connVars
  <2>4. QED
    BY <1>4, <2>2, <2>3 DEF WritePart
<1>5. CASE KqWaitFails \/ BatchEnd
  BY <1>5, NothingChanges DEF KqWaitFails, BatchEnd, connVars
<1>6. CASE CqEmpty \/ \E k \in Slots : CqPop(k)
  BY <1>6, CqStep
<1>7. CASE Timers
  BY <1>7, TimersStep
<1>8. CASE Accept
  BY <1>8, AcceptStep
<1>9. CASE ClStart
  BY <1>9, ClStartStep
<1>10. CASE UNCHANGED vars
  BY <1>10, NothingChanges DEF vars, connVars
<1>11. QED
  BY <1>1, <1>2, <1>3, <1>4, <1>5, <1>6, <1>7, <1>8, <1>9, <1>10 DEF Next, Worker, Rest

-----------------------------------------------------------------------------

\* What ffkq_wait may return names slots.
LEMMA ReadyKnown == \A e \in Ready : e.slot \in Slots
<1>1. 0 \in Slots
  BY NConnsAssumption DEF Slots
<1>2. QED
  BY <1>1 DEF Ready, Event

\* Events stay in the batch or leave it; only ffkq_wait fills it, only ConnEvent sets cur.
LEMMA EventsStayKnown ==
    ASSUME EventsKnown, [Next]_vars
    PROVE  EventsKnown'
<1>1. CASE KqWait
  <2>1. batch' \subseteq Ready /\ pc' = "batch" /\ UNCHANGED <<slotVars, ret>>
    BY <1>1 DEF KqWait
  <2>2. QED
    BY <2>1, ReadyKnown DEF EventsKnown
<1>2. CASE HandleEvent
  <2>1. PICK e \in batch : ConnEvent(e) \/ WorkerEvent(e)
    BY <1>2 DEF HandleEvent
  <2>2. batch' \subseteq batch /\ ret' \in {ret, "batch"}
    BY <2>1 DEF ConnEvent, WorkerEvent
  <2>3. pc' = "write" => cur' \in Slots
    <3>1. CASE ConnEvent(e)
      <4>1. pc = "batch" /\ (pc' = pc \/ cur' = e.slot)
        BY <1>2, <3>1 DEF HandleEvent, ConnEvent
      <4>2. QED
        BY <4>1 DEF EventsKnown
    <3>2. CASE WorkerEvent(e)
      BY <1>2, <3>2 DEF HandleEvent, WorkerEvent
    <3>3. QED
      BY <2>1, <3>1, <3>2
  <2>4. QED
    BY <2>2, <2>3 DEF EventsKnown
<1>3. ASSUME UNCHANGED batch, ret' \in {ret, "wait", "timer"},
             pc' # "write" \/ UNCHANGED <<pc, cur>>
      PROVE  EventsKnown'
  BY <1>3 DEF EventsKnown
<1>4. CASE Environment
  BY <1>3, <1>4 DEF Environment, PeerConnects, Tick, Stop, StopPost, PeerSends,
                    PeerReads, KcallWorker, loopVars
<1>5. CASE KqWaitFails \/ WritePart \/ BatchEnd \/ ClStart
  BY <1>3, <1>5 DEF KqWaitFails, WritePart, BatchEnd, ClStart
<1>6. ASSUME Return PROVE EventsKnown'
  <2>1. UNCHANGED <<batch, ret, cur>> /\ pc' \in {"stopped", ret}
    BY <1>6 DEF Return
  <2>2. QED
    BY <2>1 DEF EventsKnown
<1>7. CASE CqEmpty \/ \E k \in Slots : CqPop(k)
  BY <1>3, <1>6, <1>7 DEF CqEmpty, CqPop, loopVars
<1>8. CASE Timers
  <2>1. ASSUME NEW k \in Slots, SendExpired(k) \/ RecvExpired(k) PROVE EventsKnown'
    BY <1>3, <2>1 DEF SendExpired, RecvExpired, loopVars
  <2>2. CASE FdTimerExpired \/ TimersDone
    BY <1>3, <2>2 DEF FdTimerExpired, TimersDone
  <2>3. QED
    BY <1>8, <2>1, <2>2 DEF Timers
<1>9. CASE Accept
  <2>1. CASE AcceptConn
    BY <1>3, <2>1 DEF AcceptConn
  <2>2. CASE AcceptLimit \/ AcceptWait \/ AcceptFdLimit \/ AcceptError
    BY <1>6, <2>2 DEF AcceptLimit, AcceptWait, AcceptFdLimit, AcceptError
  <2>3. QED
    BY <1>9, <2>1, <2>2 DEF Accept
<1>10. CASE UNCHANGED vars
  BY <1>3, <1>10 DEF vars, loopVars
<1>11. QED
  BY <1>1, <1>2, <1>4, <1>5, <1>7, <1>8, <1>9, <1>10 DEF Next, Worker, Rest

-----------------------------------------------------------------------------

\* alphahttpd_run starts the loop in a state that fits.
LEMMA InitFits == Init => LoopInv /\ EventsKnown
<1> SUFFICES ASSUME Init PROVE LoopInv /\ EventsKnown
  OBVIOUS
<1>1. SlotInv
  BY InitSlotInv DEF Init
<1>2. /\ conn = [k \in Slots |-> NoConn]
      /\ owned = {}
      /\ WaitFits(NoConn) /\ NoConn.phase = "none"
  BY NoConnFits DEF Init, InitSlots
<1>3. LoopInv
  BY <1>1, <1>2 DEF LoopInv, WaitFits
<1>4. QED
  BY <1>3 DEF Init, EventsKnown

(***************************************************************************)
(* The invariant holds throughout, whatever peers, failures and the order  *)
(* of events do.                                                           *)
(***************************************************************************)
THEOREM LoopInvariant == Spec => [](LoopInv /\ EventsKnown)
<1>1. LoopInv /\ EventsKnown /\ [Next]_vars => (LoopInv /\ EventsKnown)'
  BY StepsFit, EventsStayKnown DEF StepFits
<1>2. QED
  BY <1>1, InitFits, PTL DEF Spec

(***************************************************************************)
(* The loop uses its slots as ConnSlots says: cl_destroy gives back only   *)
(* slots that hold a connection, and an accepted connection gets one that  *)
(* holds none (sv_accept1, sv_conn_fin under every order of events).       *)
(***************************************************************************)
THEOREM LoopUsesSlots == Spec => SlotsSpec
<1>1. Init => InitSlots
  BY DEF Init
<1>2. LoopInv /\ EventsKnown /\ [Next]_vars => [NextSlots]_slotVars
  BY StepsFit DEF StepFits
<1>3. QED
  BY <1>1, <1>2, LoopInvariant, PTL DEF Spec, SlotsSpec

(***************************************************************************)
(* ... so what ConnSlots guarantees holds in the loop: `connections` is    *)
(* indexed inside its bounds and sv_conn_fin's assertion does not fail.    *)
(***************************************************************************)
THEOREM LoopSlotBounds == Spec => []SlotBounds
<1>1. LoopInv => SlotBounds
  BY InvImpliesBounds DEF LoopInv
<1>2. QED
  BY <1>1, LoopInvariant, PTL

(***************************************************************************)
(* A receive or send timer runs exactly while its connection waits for     *)
(* what it bounds (receive.h, send.h, cl_destroy), so an expired timer     *)
(* always finds its client alive.                                          *)
(***************************************************************************)
THEOREM TimersMatchWaits == Spec => []TimersBoundWaits
<1>1. LoopInv => TimersBoundWaits
  BY DEF LoopInv, WaitFits, TimersBoundWaits
<1>2. QED
  BY <1>1, LoopInvariant, PTL

(***************************************************************************)
(* No step of the worker frees a client whose kernel call a kcall thread   *)
(* is executing (cl_destroy against kcq_worker).                           *)
(***************************************************************************)
THEOREM KcallsOutlived == Spec => KcallOutlived
<1>1. LoopInv /\ EventsKnown /\ [Next]_vars
        => [\A k \in Slots : conn[k].kc = "sq" => conn'[k].kc # "idle" /\ k \in owned']_vars
  BY StepsFit DEF StepFits, CallsKept
<1>2. QED
  BY <1>1, LoopInvariant, PTL DEF Spec, KcallOutlived

-----------------------------------------------------------------------------
(* What the loop sleeps on *)

Acts == [r : BOOLEAN, w : BOOLEAN]
Events == [kind : {"conn", "accept", "timer", "kcq", "post"}, slot : Slots,
           side : {0, 1}, flags : SUBSET {"R", "W"}]
Undefs == [kind : {"no", "null_handler", "early_resume", "use_after_free"},
           slot : Slots \cup {Off}]

\* The types of the state, in parts: what connections have besides `conn`, the listening
\* socket, and where the loop is.
ConnTypes == act \in [Slots -> Acts] /\ undef \in Undefs /\ sendDead \subseteq Slots
ListenTypes ==
    /\ backlog \in 0 .. MaxBacklog
    /\ lEdge \in BOOLEAN /\ lAct \in BOOLEAN
    /\ fdTimer \in {Off} \cup 0 .. FdTicks
    /\ acceptErr \in BOOLEAN
PlaceTypes ==
    /\ pc \in {"wait", "batch", "write", "timer", "accept", "start", "cq", "stopped"}
    /\ ret \in {"wait", "batch", "timer"}
    /\ cur \in Slots \cup {Off}
BatchTypes == batch \subseteq Events

TypeInv ==
    /\ LoopInv /\ EventsKnown
    /\ ConnTypes /\ ListenTypes /\ SignalTypes /\ PlaceTypes /\ BatchTypes

(***************************************************************************)
(* An event that will reach the reading (f = "R") or writing (f = "W")     *)
(* side of connection k is in the batch, or its write part is next.        *)
(***************************************************************************)
Pending(k, f) ==
    \/ \E e \in batch : e.kind = "conn" /\ e.slot = k /\ e.side = side[k] /\ f \in e.flags
    \/ f = "W" /\ pc = "write" /\ cur = k

\* A connection that waits is told of what it waits for, now or by an event to come.
Waits(k) ==
    /\ conn[k].phase = "recv" =>
         act[k].r /\ conn[k].attached /\ (conn[k].inq => conn[k].edge \/ Pending(k, "R"))
    /\ conn[k].phase = "send" =>
         act[k].w /\ conn[k].attached /\ (conn[k].outq => conn[k].edge \/ Pending(k, "W"))

\* Nothing is left of the batch when the loop is past it.
BatchOver ==
    pc = "wait" \/ (pc \in {"cq", "accept", "start"} /\ ret = "wait") => batch = {}

\* A call that completes after the completion queue was found empty leaves its signal.
CallsSignal ==
    pc = "wait" \/ (pc \in {"accept", "start"} /\ ret = "wait") =>
        \A k \in Slots : conn[k].kc = "cq" => sig \/ Polling

WakeInv == BatchOver /\ (~Halted => CallsSignal /\ \A k \in Slots : Waits(k))

\* The listening socket's event is expected and will come, or a timer runs in its place.
ListenInv ==
    pc \notin {"accept", "start"} /\ ~Halted =>
        \/ fdTimer # Off \/ acceptErr
        \/ lAct /\ (backlog > 0 => lEdge \/ \E e \in batch : e.kind = "accept")

-----------------------------------------------------------------------------
(* The types *)

\* What a run of a connection does to the rest of the connections' state.
LEMMA RunTypes ==
    ASSUME LoopInv, ConnTypes, NEW k \in Slots, Run(k)
    PROVE  ConnTypes'
<1>1. RAfter(k) \in BOOLEAN /\ WAfter(k) \subseteq BOOLEAN
  BY DEF ConnTypes, Acts, RAfter, WAfter
<1>2. act' \in [Slots -> Acts]
  <2>1. \/ act' = act
        \/ \E r \in BOOLEAN, w \in BOOLEAN : act' = [act EXCEPT ![k] = [r |-> r, w |-> w]]
    BY <1>1 DEF Run, RunToRecv, RunToSend, RunToKcall, RunToEnd, RunAttachFails
  <2>2. QED
    BY <2>1 DEF ConnTypes, Acts
<1>3. undef' \in Undefs /\ sendDead' = sendDead
  <2>1. CASE RunAttachFails(k)
    BY <2>1 DEF RunAttachFails, Undefs
  <2>2. CASE UNCHANGED <<undef, sendDead>>
    BY <2>2 DEF ConnTypes
  <2>3. QED
    BY <2>1, <2>2 DEF Run, RunToRecv, RunToSend, RunToKcall, RunToEnd
<1>4. QED
  BY <1>2, <1>3 DEF ConnTypes

\* A handler that an event calls runs its connection, or only `undef` changes.
LEMMA ResumeTypes ==
    ASSUME LoopInv, ConnTypes, NEW k \in Slots, Resume(k)
    PROVE  ConnTypes'
<1>1. CASE Run(k)
  BY <1>1, RunTypes
<1>2. CASE \E kind \in {"null_handler", "early_resume"} : Undefined(kind, k)
  BY <1>2 DEF Undefined, ConnTypes, Undefs
<1>3. QED
  BY <1>1, <1>2 DEF Resume

\* Of all steps, those that run a connection are the ones that matter here.
LEMMA ConnTypesKept ==
    ASSUME LoopInv, EventsKnown, ConnTypes, [Next]_vars
    PROVE  ConnTypes'
<1>1. CASE UNCHANGED <<act, undef, sendDead>>
  BY <1>1 DEF ConnTypes
<1>2. ASSUME NEW e \in batch, ConnEvent(e) PROVE ConnTypes'
  <2>1. e.slot \in Slots
    BY DEF EventsKnown
  <2>2. CASE Resume(e.slot)
    BY <2>1, <2>2, ResumeTypes
  <2>3. QED
    BY <1>1, <1>2, <2>2 DEF ConnEvent, connVars
<1>3. CASE WritePart
  <2>1. cur \in Slots
    BY <1>3 DEF WritePart, EventsKnown
  <2>2. CASE Resume(cur)
    BY <2>1, <2>2, ResumeTypes
  <2>3. QED
    BY <1>1, <1>3, <2>2 DEF WritePart, connVars
<1>4. ASSUME NEW k \in Slots, CqPop(k) PROVE ConnTypes'
  BY <1>4, RunTypes DEF CqPop
<1>5. CASE ClStart
  <2>1. PICK k \in Slots : Run(k) \/ StartFails(k)
    BY <1>5 DEF ClStart
  <2>2. QED
    BY <1>1, <2>1, RunTypes DEF StartFails
<1>6. CASE Timers
  <2>1. ASSUME NEW k \in Slots, SendExpired(k) PROVE ConnTypes'
    BY <2>1 DEF SendExpired, ConnTypes
  <2>2. QED
    BY <1>1, <1>6, <2>1 DEF Timers, RecvExpired, FdTimerExpired, TimersDone, connVars
<1>7. CASE Environment
  BY <1>1, <1>7 DEF Environment, PeerConnects, Tick, Stop, StopPost, PeerSends,
                    PeerReads, KcallWorker, connVars
<1>8. CASE KqWait \/ KqWaitFails \/ BatchEnd \/ CqEmpty
  BY <1>1, <1>8 DEF KqWait, KqWaitFails, BatchEnd, CqEmpty, connVars
<1>9. ASSUME NEW e, WorkerEvent(e) PROVE ConnTypes'
  BY <1>1, <1>9 DEF WorkerEvent
<1>10. CASE Accept
  BY <1>1, <1>10 DEF Accept, AcceptLimit, AcceptWait, AcceptFdLimit, AcceptError, AcceptConn,
                     connVars
<1>11. CASE UNCHANGED vars
  BY <1>1, <1>11 DEF vars, connVars
<1>12. QED
  BY <1>2, <1>3, <1>4, <1>5, <1>6, <1>7, <1>8, <1>9, <1>10, <1>11 DEF Next, Worker, HandleEvent,
                                                                      Rest

\* Three of the steps call Return.
LEMMA ReturnTypes ==
    ASSUME PlaceTypes, Return
    PROVE  PlaceTypes'
  BY DEF PlaceTypes, Return

\* Where the loop is.
LEMMA PlaceTypesKept ==
    ASSUME EventsKnown, PlaceTypes, [Next]_vars
    PROVE  PlaceTypes'
<1>1. CASE UNCHANGED loopVars
  BY <1>1 DEF loopVars, PlaceTypes
<1>2. ASSUME NEW e \in batch, pc = "batch", ConnEvent(e) PROVE PlaceTypes'
  <2>1. e.slot \in Slots
    BY DEF EventsKnown
  <2>2. pc' \in {"write", pc} /\ cur' \in {e.slot, cur} /\ ret' = ret
    BY <1>2 DEF ConnEvent
  <2>3. QED
    BY <2>1, <2>2 DEF PlaceTypes
<1>3. ASSUME NEW e, WorkerEvent(e) PROVE PlaceTypes'
  BY <1>3 DEF WorkerEvent, PlaceTypes
<1>4. CASE Timers
  BY <1>1, <1>4 DEF Timers, SendExpired, RecvExpired, FdTimerExpired, TimersDone, PlaceTypes
<1>5. CASE Environment
  BY <1>1, <1>5 DEF Environment, PeerConnects, Tick, Stop, StopPost, PeerSends,
                    PeerReads, KcallWorker
<1>6. CASE KqWait \/ KqWaitFails \/ BatchEnd \/ WritePart \/ ClStart
  BY <1>6 DEF KqWait, KqWaitFails, BatchEnd, WritePart, ClStart, PlaceTypes
<1>7. CASE CqEmpty
  BY <1>7, ReturnTypes DEF CqEmpty
<1>8. CASE Accept
  BY <1>8, ReturnTypes DEF Accept, AcceptLimit, AcceptWait, AcceptFdLimit, AcceptError,
                           AcceptConn, PlaceTypes
<1>9. CASE (\E k \in Slots : CqPop(k)) \/ UNCHANGED vars
  BY <1>1, <1>9 DEF CqPop, vars
<1>10. QED
  BY <1>2, <1>3, <1>4, <1>5, <1>6, <1>7, <1>8, <1>9 DEF Next, Worker, HandleEvent, Rest

\* The flags of the process and of the listening socket.
LEMMA SignalTypesKept ==
    ASSUME SignalTypes, [Next]_vars
    PROVE  SignalTypes'
<1>1. CASE UNCHANGED kernVars
  BY <1>1 DEF kernVars, SignalTypes
<1>2. CASE Environment
  BY <1>1, <1>2, LoopAssumption
     DEF Environment, PeerConnects, Tick, Stop, StopPost, PeerSends,
         PeerReads, KcallWorker, SignalTypes, kernVars
<1>3. CASE KqWait
  BY <1>3 DEF KqWait, SignalTypes
<1>4. CASE Timers
  BY <1>1, <1>4 DEF Timers, SendExpired, RecvExpired, FdTimerExpired, TimersDone, SignalTypes
<1>5. CASE KqWaitFails \/ BatchEnd \/ WritePart \/ ClStart \/ CqEmpty \/ HandleEvent
  BY <1>1, <1>5 DEF KqWaitFails, BatchEnd, WritePart, ClStart, CqEmpty, HandleEvent, ConnEvent,
                    WorkerEvent
<1>6. CASE Accept
  BY <1>1, <1>6 DEF Accept, AcceptLimit, AcceptWait, AcceptFdLimit, AcceptError, AcceptConn
<1>7. CASE (\E k \in Slots : CqPop(k)) \/ UNCHANGED vars
  BY <1>1, <1>7 DEF CqPop, vars
<1>8. QED
  BY <1>2, <1>3, <1>4, <1>5, <1>6, <1>7 DEF Next, Worker, Rest

\* The listening socket: its backlog is counted within its bound, its timer within its timeout.
LEMMA ListenTypesKept ==
    ASSUME ListenTypes, [Next]_vars
    PROVE  ListenTypes'
<1>1. CASE UNCHANGED lsockVars
  BY <1>1 DEF lsockVars, ListenTypes
<1>t. FdTicks \in {Off} \cup 0 .. FdTicks /\ Off \in {Off} \cup 0 .. FdTicks
  BY LoopAssumption
<1>2. CASE Environment
  <2>1. CASE PeerConnects
    <3>1. backlog' \in 0 .. MaxBacklog
      BY <2>1, LoopAssumption DEF PeerConnects, ListenTypes
    <3>2. QED
      BY <2>1, <3>1 DEF PeerConnects, ListenTypes
  <2>2. QED
    BY <1>1, <1>2, <2>1 DEF Environment, Tick, Stop, StopPost, PeerSends, PeerReads, KcallWorker
<1>3. CASE KqWait
  BY <1>3 DEF KqWait, ListenTypes
<1>4. CASE Timers
  BY <1>1, <1>t, <1>4 DEF Timers, SendExpired, RecvExpired, FdTimerExpired, TimersDone,
                          ListenTypes
<1>5. CASE \/ KqWaitFails \/ BatchEnd \/ WritePart \/ ClStart \/ CqEmpty
           \/ \E e \in batch : ConnEvent(e)
  BY <1>1, <1>5 DEF KqWaitFails, BatchEnd, WritePart, ClStart, CqEmpty, ConnEvent
<1>6. ASSUME NEW e, WorkerEvent(e) PROVE ListenTypes'
  <2>1. UNCHANGED fdTimer \/ \E d \in 1 .. MaxElapsed : fdTimer' = Elapse(fdTimer, d)
    BY <1>6 DEF WorkerEvent
  <2>2. \A d \in 1 .. MaxElapsed : d \in Nat \ {0}
    BY LoopAssumption
  <2>3. fdTimer' \in {Off} \cup 0 .. FdTicks
    BY <2>1, <2>2, ElapseFits, LoopAssumption DEF ListenTypes
  <2>4. QED
    BY <1>6, <2>3 DEF WorkerEvent, ListenTypes
<1>7. CASE Accept
  <2>1. CASE AcceptLimit \/ AcceptWait \/ AcceptFdLimit
    BY <1>t, <2>1 DEF AcceptLimit, AcceptWait, AcceptFdLimit, ListenTypes
  <2>2. CASE AcceptError \/ AcceptConn
    <3>1. backlog > 0 /\ backlog' = backlog - 1
      BY <2>2 DEF AcceptError, AcceptConn
    <3>2. backlog' \in 0 .. MaxBacklog
      BY <3>1, LoopAssumption DEF ListenTypes
    <3>3. QED
      BY <2>2, <3>2 DEF AcceptError, AcceptConn, ListenTypes
  <2>3. QED
    BY <1>7, <2>1, <2>2 DEF Accept
<1>8. CASE (\E k \in Slots : CqPop(k)) \/ UNCHANGED vars
  BY <1>1, <1>8 DEF CqPop, vars
<1>9. QED
  BY <1>2, <1>3, <1>4, <1>5, <1>6, <1>7, <1>8 DEF Next, Worker, HandleEvent, Rest

\* What ffkq_wait returns is typed; the batch only shrinks after that.
LEMMA BatchTypesKept ==
    ASSUME LoopInv, BatchTypes, [Next]_vars
    PROVE  BatchTypes'
<1>1. CASE batch' \subseteq batch
  BY <1>1 DEF BatchTypes
<1>2. CASE KqWait
  <2>1. 0 \in Slots /\ side \in [Slots -> {0, 1}]
    BY NConnsAssumption DEF Slots, LoopInv, SlotInv, SlotTypeOK
  <2>2. \A k \in Slots : Event("conn", k) \in Events
    BY <2>1 DEF Event, Events, Flags
  <2>3. \A kind \in {"accept", "timer", "kcq", "post"} : Event(kind, 0) \in Events
    BY <2>1 DEF Event, Events
  <2>4. Ready \subseteq Events
    BY <2>2, <2>3 DEF Ready
  <2>5. QED
    BY <1>2, <2>4 DEF KqWait, BatchTypes
<1>3. CASE HandleEvent
  BY <1>1, <1>3 DEF HandleEvent, ConnEvent, WorkerEvent
<1>4. CASE Environment
  BY <1>1, <1>4 DEF Environment, PeerConnects, Tick, Stop, StopPost, PeerSends,
                    PeerReads, KcallWorker, loopVars
<1>5. CASE KqWaitFails \/ BatchEnd \/ WritePart \/ ClStart
  BY <1>1, <1>5 DEF KqWaitFails, BatchEnd, WritePart, ClStart
<1>6. CASE Timers
  BY <1>1, <1>6 DEF Timers, SendExpired, RecvExpired, FdTimerExpired, TimersDone, loopVars
<1>7. CASE Accept
  BY <1>1, <1>7 DEF Accept, AcceptLimit, AcceptWait, AcceptFdLimit, AcceptError, AcceptConn,
                    Return
<1>8. CASE CqEmpty \/ (\E k \in Slots : CqPop(k)) \/ UNCHANGED vars
  BY <1>1, <1>8 DEF CqEmpty, CqPop, Return, vars, loopVars
<1>9. QED
  BY <1>2, <1>3, <1>4, <1>5, <1>6, <1>7, <1>8 DEF Next, Worker, Rest

(***************************************************************************)
(* All types of the loop's state are kept.                                 *)
(***************************************************************************)
LEMMA TypesKept ==
    ASSUME TypeInv, [Next]_vars
    PROVE  TypeInv'
  BY StepsFit, EventsStayKnown, ConnTypesKept, ListenTypesKept, SignalTypesKept, PlaceTypesKept,
     BatchTypesKept
     DEF TypeInv, StepFits

-----------------------------------------------------------------------------
(* The wakeups of connections *)

(***************************************************************************)
(* A run of connection k leaves the others alone.  When it ends in a wait, *)
(* the task is active and the socket attached, and what it waits for is    *)
(* not there; a call that it has queued is not complete.                   *)
(***************************************************************************)
LEMMA RunWaits ==
    ASSUME TypeInv, NEW k \in Slots, Run(k)
    PROVE  /\ \A j \in Slots : j # k =>
                conn'[j] = conn[j] /\ act'[j] = act[j] /\ side'[j] = side[j]
           /\ Waits(k)'
           /\ conn'[k].kc # "cq"
<1>1. conn[k] \in Conns /\ conn \in [Slots -> Conns] /\ act \in [Slots -> Acts]
      /\ side \in [Slots -> {0, 1}]
  BY DEF TypeInv, LoopInv, ConnTypes, SlotInv, SlotTypeOK
<1>2. CASE RunToRecv(k)
  <2> DEFINE c == [conn[k] EXCEPT !.phase = "recv", !.inq = FALSE, !.kc = "idle",
                                  !.recvTimer = RecvTicks, !.sendTimer = Off]
  <2>1. /\ Attach(c).phase = "recv" /\ Attach(c).attached /\ ~Attach(c).inq
        /\ Attach(c).kc = "idle"
    BY <1>1 DEF Attach, Conns
  <2>2. conn' = [conn EXCEPT ![k] = Attach(c)] /\ UNCHANGED side
    BY <1>2, <1>1 DEF RunToRecv, slotVars
  <2>3. PICK w \in WAfter(k) : act' = [act EXCEPT ![k] = [r |-> TRUE, w |-> w]]
    BY <1>2 DEF RunToRecv
  <2>4. conn'[k] = Attach(c) /\ act'[k].r /\ UNCHANGED side
    BY <1>1, <2>2, <2>3
  <2>5. \A j \in Slots : j # k => conn'[j] = conn[j] /\ act'[j] = act[j]
    BY <1>1, <2>2, <2>3
  <2> HIDE DEF c
  <2>6. QED
    BY <2>1, <2>4, <2>5 DEF Waits
<1>3. CASE RunToSend(k)
  <2>1. PICK q \in InqAfter(k) :
          conn' = [conn EXCEPT ![k] = Attach([@ EXCEPT !.phase = "send", !.inq = q,
          !.outq = FALSE,
                                    !.kc = "idle", !.recvTimer = Off, !.sendTimer = SendTicks])]
    BY <1>3 DEF RunToSend
  <2> DEFINE c == [conn[k] EXCEPT !.phase = "send", !.inq = q, !.outq = FALSE,
                                  !.kc = "idle", !.recvTimer = Off, !.sendTimer = SendTicks]
  <2>2. /\ Attach(c).phase = "send" /\ Attach(c).attached /\ ~Attach(c).outq
        /\ Attach(c).kc = "idle"
    BY <1>1 DEF Attach, Conns
  <2>3. conn' = [conn EXCEPT ![k] = Attach(c)] /\ UNCHANGED side
    BY <1>1, <1>3, <2>1 DEF RunToSend, slotVars
  <2>4. act' = [act EXCEPT ![k] = [r |-> RAfter(k), w |-> TRUE]]
    BY <1>3 DEF RunToSend
  <2>5. conn'[k] = Attach(c) /\ act'[k].w
    BY <1>1, <2>3, <2>4
  <2>6. \A j \in Slots : j # k => conn'[j] = conn[j] /\ act'[j] = act[j]
    BY <1>1, <2>3, <2>4
  <2> HIDE DEF c
  <2>7. QED
    BY <2>2, <2>3, <2>5, <2>6 DEF Waits
<1>4. CASE RunToKcall(k)
  <2>1. PICK q \in InqAfter(k), w \in WAfter(k) :
          /\ conn' = [conn EXCEPT ![k] = [@ EXCEPT !.phase = "kcall", !.inq = q, !.kc = "sq",
                                                   !.recvTimer = Off, !.sendTimer = Off]]
          /\ act' = [act EXCEPT ![k] = [r |-> RAfter(k), w |-> w]]
    BY <1>4 DEF RunToKcall
  <2>2. conn'[k].phase = "kcall" /\ conn'[k].kc = "sq"
    BY <1>1, <2>1 DEF Conns
  <2>3. \A j \in Slots : j # k => conn'[j] = conn[j] /\ act'[j] = act[j]
    BY <1>1, <2>1
  <2>4. UNCHANGED side
    BY <1>4 DEF RunToKcall, slotVars
  <2>5. QED
    BY <2>2, <2>3, <2>4 DEF Waits
<1>5. CASE RunToEnd(k) \/ RunAttachFails(k)
  <2>1. Destroy(k)
    BY <1>5 DEF RunToEnd, RunAttachFails
  <2>2. conn'[k] = NoConn /\ \A j \in Slots : j # k => conn'[j] = conn[j] /\ side'[j] = side[j]
    BY <1>1, <2>1 DEF Destroy, ConnFin
  <2>3. \A j \in Slots : j # k => act'[j] = act[j]
    BY <1>1, <1>5 DEF RunToEnd, RunAttachFails
  <2>4. QED
    BY <2>2, <2>3, NoConnFits DEF Waits
<1>6. QED
  BY <1>2, <1>3, <1>4, <1>5 DEF Run

\* A connection that nothing happened to waits as before, while its events are still to come.
LEMMA OthersWait ==
    ASSUME NEW j \in Slots, Waits(j), conn'[j] = conn[j], act'[j] = act[j],
           \A f \in {"R", "W"} : Pending(j, f) => Pending(j, f)'
    PROVE  Waits(j)'
  BY DEF Waits

\* Events to come are still to come when the batch loses events of other slots only.
LEMMA OthersPending ==
    ASSUME NEW j \in Slots, NEW e, side'[j] = side[j], batch' = batch \ {e},
           e.kind # "conn" \/ e.slot # j, pc # "write" \/ cur # j
    PROVE  \A f \in {"R", "W"} : Pending(j, f) => Pending(j, f)'
  BY DEF Pending

\* A run of k, when no event to come of another connection is lost.
LEMMA RunKeepsWaits ==
    ASSUME TypeInv, WakeInv, ~Halted, NEW k \in Slots, Run(k),
           \A j \in Slots : j # k => \A f \in {"R", "W"} : Pending(j, f) => Pending(j, f)'
    PROVE  \A j \in Slots : Waits(j)'
<1> SUFFICES ASSUME NEW j \in Slots PROVE Waits(j)'
  OBVIOUS
<1>1. CASE j = k
  BY <1>1, RunWaits
<1>2. CASE j # k
  <2>1. conn'[j] = conn[j] /\ act'[j] = act[j]
    BY <1>2, RunWaits
  <2>2. Waits(j)
    BY DEF WakeInv
  <2>3. QED
    BY <1>2, <2>1, <2>2, OthersWait
<1>3. QED
  BY <1>1, <1>2

\* Nothing of connections changes, and no event to come is lost.
LEMMA StillWaits ==
    ASSUME WakeInv, ~Halted, UNCHANGED <<conn, act>>,
           \A j \in Slots : \A f \in {"R", "W"} : Pending(j, f) => Pending(j, f)'
    PROVE  \A j \in Slots : Waits(j)'
  BY OthersWait DEF WakeInv

\* Where the batch, the side bits and the place of the loop are as before, so is what is to come.
LEMMA SamePending ==
    ASSUME UNCHANGED <<batch, side>>, pc # "write"
    PROVE  \A j \in Slots : \A f \in {"R", "W"} : Pending(j, f) => Pending(j, f)'
  BY DEF Pending

\* In the middle of a batch, or after the program's end, there is little to show.
LEMMA MidBatch ==
    ASSUME pc' \in {"batch", "write", "timer", "stopped"},
           ~Halted' => \A j \in Slots : Waits(j)'
    PROVE  WakeInv'
  BY DEF WakeInv, BatchOver, CallsSignal

\* An undefined step ends what the model says.
LEMMA UndefinedHalts ==
    ASSUME NEW kind \in {"null_handler", "early_resume"}, NEW k, Undefined(kind, k)
    PROVE  Halted'
<1>1. undef'.kind # NoUndef.kind
  BY DEF Undefined, NoUndef
<1>2. QED
  BY <1>1 DEF Halted

(***************************************************************************)
(* The event that a connection waits for calls its handler: it is current, *)
(* has the flag, and the task is active.  An event that calls no handler   *)
(* is one that its connection does not wait for.                           *)
(***************************************************************************)
LEMMA ConnEventWakes ==
    ASSUME TypeInv, WakeInv, ~Halted, pc = "batch", NEW e \in batch, ConnEvent(e)
    PROVE  WakeInv'
<1>1. e.slot \in Slots /\ e.kind = "conn" /\ batch' = batch \ {e}
  BY DEF TypeInv, EventsKnown, ConnEvent
<1>2. pc' \in {"batch", "write"}
  BY DEF ConnEvent
<1>3. ASSUME NEW j \in Slots, j # e.slot, side'[j] = side[j]
      PROVE  \A f \in {"R", "W"} : Pending(j, f) => Pending(j, f)'
  BY <1>1, <1>3, OthersPending
<1>4. CASE Run(e.slot)
  <2>1. \A j \in Slots : j # e.slot => side'[j] = side[j]
    BY <1>1, <1>4, RunWaits
  <2>2. \A j \in Slots : Waits(j)'
    BY <1>1, <1>3, <1>4, <2>1, RunKeepsWaits
  <2>3. QED
    BY <1>2, <2>2, MidBatch
<1>5. CASE \E kind \in {"null_handler", "early_resume"} : Undefined(kind, e.slot)
  BY <1>2, <1>5, UndefinedHalts, MidBatch
<1>6. CASE UNCHANGED <<slotVars, connVars>> /\ ~Resume(e.slot)
  <2>1. /\ ~(~StaleEvent(e) /\ "R" \in e.flags /\ act[e.slot].r)
        /\ ~(~StaleEvent(e) /\ "W" \in e.flags /\ act[e.slot].w)
    BY <1>6 DEF ConnEvent
  <2>2. UNCHANGED <<conn, act, side>>
    BY <1>6 DEF slotVars, connVars
  <2>3. Waits(e.slot)'
    <3>1. Waits(e.slot)
      BY <1>1 DEF WakeInv
    <3>2. act[e.slot].r /\ Pending(e.slot, "R") => Pending(e.slot, "R")'
      BY <1>1, <2>1, <2>2 DEF Pending, StaleEvent
    <3>3. act[e.slot].w /\ Pending(e.slot, "W") => Pending(e.slot, "W")'
      BY <1>1, <2>1, <2>2 DEF Pending, StaleEvent
    <3>4. QED
      BY <2>2, <3>1, <3>2, <3>3 DEF Waits
  <2>4. ASSUME NEW j \in Slots, j # e.slot PROVE Waits(j)'
    <3>1. Waits(j)
      BY DEF WakeInv
    <3>2. QED
      BY <1>3, <2>2, <2>4, <3>1, OthersWait
  <2>5. QED
    BY <1>2, <2>3, <2>4, MidBatch
<1>7. QED
  BY <1>4, <1>5, <1>6 DEF ConnEvent, Resume

\* The write part of an event runs its connection, or finds that it waits for no room.
LEMMA WritePartWakes ==
    ASSUME TypeInv, WakeInv, ~Halted, WritePart
    PROVE  WakeInv'
<1>1. PICK k \in Slots :
        k = cur /\ pc = "write" /\ pc' = "batch" /\ UNCHANGED batch
  BY DEF WritePart, TypeInv, EventsKnown
<1>2. ASSUME NEW j \in Slots, j # k, side'[j] = side[j]
      PROVE  \A f \in {"R", "W"} : Pending(j, f) => Pending(j, f)'
  BY <1>1, <1>2 DEF Pending
<1>3. CASE Run(k)
  <2>1. \A j \in Slots : j # k => side'[j] = side[j]
    BY <1>1, <1>3, RunWaits
  <2>2. \A j \in Slots : Waits(j)'
    BY <1>1, <1>2, <1>3, <2>1, RunKeepsWaits
  <2>3. QED
    BY <1>1, <2>2, MidBatch
<1>4. CASE \E kind \in {"null_handler", "early_resume"} : Undefined(kind, k)
  BY <1>1, <1>4, UndefinedHalts, MidBatch
<1>5. CASE UNCHANGED <<slotVars, connVars>> /\ ~act[k].w
  <2>1. UNCHANGED <<conn, act, side>>
    BY <1>5 DEF slotVars, connVars
  <2>2. Waits(k)'
    <3>1. Waits(k)
      BY <1>1 DEF WakeInv
    <3>2. Pending(k, "R") => Pending(k, "R")'
      BY <1>1, <2>1 DEF Pending
    <3>3. QED
      BY <1>5, <2>1, <3>1, <3>2 DEF Waits
  <2>3. ASSUME NEW j \in Slots, j # k PROVE Waits(j)'
    <3>1. Waits(j)
      BY DEF WakeInv
    <3>2. QED
      BY <1>2, <2>1, <2>3, <3>1, OthersWait
  <2>4. QED
    BY <1>1, <2>2, <2>3, MidBatch
<1>6. QED
  BY <1>1, <1>3, <1>4, <1>5 DEF WritePart, Resume

\* ffkq_wait moves edges into the batch, with the flags of what is ready and the current side bit.
LEMMA KqWaitWakes ==
    ASSUME TypeInv, WakeInv, ~Halted, KqWait
    PROVE  WakeInv'
<1>1. PICK b \in SUBSET Ready :
        /\ batch' = b
        /\ conn' = [k \in Slots |-> [conn[k] EXCEPT !.edge = @ /\ Event("conn", k) \notin b]]
  BY DEF KqWait
<1>2. pc = "wait" /\ pc' = "batch" /\ UNCHANGED <<act, side>> /\ batch = {}
  BY DEF KqWait, slotVars, WakeInv, BatchOver
<1>3. ASSUME NEW k \in Slots PROVE Waits(k)'
  <2> DEFINE e == Event("conn", k)
  <2>1. conn[k] \in Conns /\ Waits(k)
    BY DEF TypeInv, LoopInv, WakeInv
  <2>2. conn'[k] = [conn[k] EXCEPT !.edge = @ /\ e \notin b]
    BY <1>1
  <2>3. /\ conn'[k].phase = conn[k].phase /\ conn'[k].attached = conn[k].attached
        /\ conn'[k].inq = conn[k].inq /\ conn'[k].outq = conn[k].outq
        /\ conn'[k].edge = (conn[k].edge /\ e \notin b)
    BY <2>1, <2>2 DEF Conns
  <2>4. e.kind = "conn" /\ e.slot = k /\ e.side = side[k]
        /\ (conn[k].inq => "R" \in e.flags) /\ (conn[k].outq => "W" \in e.flags)
    BY DEF Event, Flags
  <2>5. ~Pending(k, "R") /\ ~Pending(k, "W")
    BY <1>2 DEF Pending
  <2>6. e \in b /\ conn[k].inq => Pending(k, "R")'
    BY <1>1, <1>2, <2>4 DEF Pending
  <2>7. e \in b /\ conn[k].outq => Pending(k, "W")'
    BY <1>1, <1>2, <2>4 DEF Pending
  <2> HIDE DEF e
  <2>8. QED
    BY <1>2, <2>1, <2>3, <2>5, <2>6, <2>7 DEF Waits
<1>4. QED
  BY <1>2, <1>3, MidBatch

\* The moving timers are the only part of a connection that sv_ontimer changes.
LEMMA OntimerKeeps ==
    ASSUME TypeInv, NEW e, WorkerEvent(e), NEW j \in Slots
    PROVE  /\ conn'[j].phase = conn[j].phase /\ conn'[j].attached = conn[j].attached
           /\ conn'[j].inq = conn[j].inq /\ conn'[j].outq = conn[j].outq
           /\ conn'[j].edge = conn[j].edge
<1>1. CASE UNCHANGED conn
  BY <1>1
<1>2. ASSUME NEW d \in 1 .. MaxElapsed,
             conn' = [k \in Slots |-> [conn[k] EXCEPT !.recvTimer = Elapse(@, d),
                                                      !.sendTimer = Elapse(@, d)]]
      PROVE  /\ conn'[j].phase = conn[j].phase /\ conn'[j].attached = conn[j].attached
             /\ conn'[j].inq = conn[j].inq /\ conn'[j].outq = conn[j].outq
             /\ conn'[j].edge = conn[j].edge
  <2> DEFINE r == Elapse(conn[j].recvTimer, d)
             s == Elapse(conn[j].sendTimer, d)
  <2>1. conn'[j] = [conn[j] EXCEPT !.recvTimer = r, !.sendTimer = s] /\ conn[j] \in Conns
    BY <1>2 DEF TypeInv, LoopInv
  <2> HIDE DEF r, s
  <2>2. QED
    BY <2>1 DEF Conns
<1>3. QED
  BY <1>1, <1>2 DEF WorkerEvent

\* No event of the worker itself is one that a connection waits for.
LEMMA WorkerEventWakes ==
    ASSUME TypeInv, WakeInv, ~Halted, pc = "batch", NEW e, WorkerEvent(e)
    PROVE  WakeInv'
<1>1. /\ e.kind # "conn" /\ batch' = batch \ {e} /\ UNCHANGED <<act, side>>
      /\ pc' \in {"batch", "timer"} \/ (pc' \in {"accept", "cq"} /\ ret' = "batch")
  BY DEF WorkerEvent, slotVars
<1>2. \A j \in Slots : \A f \in {"R", "W"} : Pending(j, f) => Pending(j, f)'
  BY <1>1, OthersPending
<1>3. ASSUME NEW j \in Slots PROVE Waits(j)'
  BY <1>1, <1>2, OntimerKeeps DEF WakeInv, Waits
<1>4. QED
  BY <1>1, <1>3 DEF WakeInv, BatchOver, CallsSignal

\* What peers bring is an edge on a socket that is attached; a completed call leaves its signal.
LEMMA EnvironmentWakes ==
    ASSUME TypeInv, WakeInv, Environment
    PROVE  WakeInv'
<1>1. /\ ~Halted /\ UNCHANGED <<loopVars, side, act>>
      /\ UNCHANGED <<batch, pc, ret, cur>>
  BY DEF Environment, PeerConnects, Tick, Stop, StopPost, PeerSends,
         PeerReads, KcallWorker, slotVars, loopVars,
         connVars
<1>2. \A j \in Slots : \A f \in {"R", "W"} : Pending(j, f) => Pending(j, f)'
  BY <1>1 DEF Pending
<1>3. conn \in [Slots -> Conns]
  BY DEF TypeInv, LoopInv
<1>4. CASE PeerConnects \/ Tick \/ Stop \/ StopPost
  <2>1. UNCHANGED <<conn, sig>>
    BY <1>4 DEF PeerConnects, Tick, Stop, StopPost, connVars, kernVars
  <2>2. \A j \in Slots : Waits(j)'
    BY <1>1, <1>2, <2>1, StillWaits
  <2>3. QED
    BY <1>1, <2>1, <2>2 DEF WakeInv, BatchOver, CallsSignal
<1>5. ASSUME NEW k \in Slots, PeerSends(k) \/ PeerReads(k) PROVE WakeInv'
  <2>1. \A j \in Slots : j # k => conn'[j] = conn[j]
    BY <1>3, <1>5 DEF PeerSends, PeerReads
  <2>2. /\ conn'[k].phase = conn[k].phase /\ conn'[k].attached = conn[k].attached
        /\ conn'[k].kc = conn[k].kc /\ conn'[k].edge = conn[k].attached
    BY <1>3, <1>5 DEF PeerSends, PeerReads, Conns
  <2>3. Waits(k)'
    BY <1>1, <2>2 DEF WakeInv, Waits
  <2>4. ASSUME NEW j \in Slots, j # k PROVE Waits(j)'
    <3>1. Waits(j)
      BY <1>1 DEF WakeInv
    <3>2. QED
      BY <1>1, <1>2, <2>1, <2>4, <3>1, OthersWait
  <2>5. UNCHANGED sig /\ \A j \in Slots : conn'[j].kc = conn[j].kc
    BY <1>5, <2>1, <2>2 DEF PeerSends, PeerReads, kernVars
  <2>6. QED
    BY <1>1, <2>3, <2>4, <2>5 DEF WakeInv, BatchOver, CallsSignal
<1>6. ASSUME NEW k \in Slots, KcallWorker(k) PROVE WakeInv'
  <2>1. \A j \in Slots : j # k => conn'[j] = conn[j]
    BY <1>3, <1>6 DEF KcallWorker
  <2>2. conn'[k].phase = conn[k].phase /\ conn[k].kc = "sq"
    BY <1>3, <1>6 DEF KcallWorker, Conns
  <2>3. conn[k].phase = "kcall"
    BY <2>2 DEF TypeInv, LoopInv, WaitFits
  <2>4. Waits(k)'
    BY <2>2, <2>3 DEF Waits
  <2>5. ASSUME NEW j \in Slots, j # k PROVE Waits(j)'
    <3>1. Waits(j)
      BY <1>1 DEF WakeInv
    <3>2. QED
      BY <1>1, <1>2, <2>1, <2>5, <3>1, OthersWait
  <2>6. sig' \/ Polling
    BY <1>6, LoopAssumption DEF KcallWorker
  <2>7. QED
    BY <1>1, <2>4, <2>5, <2>6 DEF WakeInv, BatchOver, CallsSignal
<1>7. QED
  BY <1>4, <1>5, <1>6 DEF Environment

\* Return, from a queue or from sv_accept: the loop sleeps only when the batch is over.
LEMMA ReturnWakes ==
    ASSUME TypeInv, WakeInv, ~Halted, Return, UNCHANGED <<conn, act, side, sig>>,
           \/ pc = "cq" /\ \A k \in Slots : conn[k].kc # "cq"
           \/ pc = "accept"
    PROVE  WakeInv'
<1>1. /\ UNCHANGED <<batch, ret>> /\ pc' \in {ret, "stopped"}
      /\ ret \in {"wait", "batch", "timer"}
  BY DEF Return, TypeInv, PlaceTypes
<1>2. \A j \in Slots : \A f \in {"R", "W"} : Pending(j, f) => Pending(j, f)'
  BY <1>1, SamePending
<1>3. \A j \in Slots : Waits(j)'
  BY <1>2, StillWaits
<1>4. QED
  BY <1>1, <1>3 DEF WakeInv, BatchOver, CallsSignal

\* The queue of completed calls: the loop leaves it when it is empty.
LEMMA CqWakes ==
    ASSUME TypeInv, WakeInv, ~Halted, BatchEnd \/ CqEmpty \/ \E k \in Slots : CqPop(k)
    PROVE  WakeInv'
<1>1. CASE BatchEnd
  <2>1. /\ UNCHANGED <<conn, act, batch, side>> /\ pc = "batch" /\ pc' = "cq" /\ batch = {}
    BY <1>1 DEF BatchEnd, connVars, slotVars
  <2>2. \A j \in Slots : Waits(j)'
    BY <2>1, SamePending, StillWaits
  <2>3. QED
    BY <2>1, <2>2 DEF WakeInv, BatchOver, CallsSignal
<1>2. CASE CqEmpty
  BY <1>2, ReturnWakes DEF CqEmpty, connVars, slotVars, kernVars
<1>3. ASSUME NEW k \in Slots, CqPop(k) PROVE WakeInv'
  <2>1. pc = "cq" /\ UNCHANGED <<pc, ret, batch, cur>> /\ Run(k)
    BY <1>3 DEF CqPop, loopVars
  <2>2. \A j \in Slots : j # k => \A f \in {"R", "W"} : Pending(j, f) => Pending(j, f)'
    BY <2>1, RunWaits DEF Pending
  <2>3. \A j \in Slots : Waits(j)'
    BY <2>1, <2>2, RunKeepsWaits
  <2>4. QED
    BY <2>1, <2>3 DEF WakeInv, BatchOver, CallsSignal
<1>4. QED
  BY <1>1, <1>2, <1>3

\* One slot gets a connection that waits for nothing yet, or none; the others are left alone.
LEMMA OneSlotWakes ==
    ASSUME TypeInv, WakeInv, ~Halted, pc # "write", NEW k \in Slots, NEW c, UNCHANGED <<act,
    batch>>,
           c.phase \notin {"recv", "send"}, conn' = [conn EXCEPT ![k] = c],
           \A j \in Slots : j # k => side'[j] = side[j]
    PROVE  \A j \in Slots : Waits(j)'
<1> SUFFICES ASSUME NEW j \in Slots PROVE Waits(j)'
  OBVIOUS
<1>1. conn \in [Slots -> Conns] /\ Waits(j)
  BY DEF TypeInv, LoopInv, WakeInv
<1>2. CASE j = k
  <2>1. conn'[j] = c
    BY <1>1, <1>2
  <2>2. QED
    BY <2>1 DEF Waits
<1>3. CASE j # k
  <2>1. conn'[j] = conn[j]
    BY <1>1, <1>3
  <2>2. \A f \in {"R", "W"} : Pending(j, f) => Pending(j, f)'
    BY <1>3 DEF Pending
  <2>3. QED
    BY <1>1, <2>1, <2>2, OthersWait
<1>4. QED
  BY <1>2, <1>3

\* An expired timer ends a connection; the others wait on.
LEMMA TimersWakes ==
    ASSUME TypeInv, WakeInv, ~Halted, Timers
    PROVE  WakeInv'
<1>1. pc = "timer"
  BY DEF Timers
<1>2. ASSUME NEW k \in Slots, SendExpired(k) \/ RecvExpired(k) PROVE WakeInv'
  <2>1. Destroy(k) /\ UNCHANGED <<act, pc, batch>>
    BY <1>2 DEF SendExpired, RecvExpired, loopVars
  <2>2. \A j \in Slots : j # k => side'[j] = side[j]
    BY <2>1 DEF Destroy, ConnFin, TypeInv, LoopInv, SlotInv, SlotTypeOK
  <2>3. conn' = [conn EXCEPT ![k] = NoConn]
    BY <2>1 DEF Destroy
  <2>4. \A j \in Slots : Waits(j)'
    BY <1>1, <2>1, <2>2, <2>3, NoConnFits, OneSlotWakes
  <2>5. QED
    BY <1>1, <2>1, <2>4, MidBatch
<1>3. CASE FdTimerExpired \/ TimersDone
  <2>1. /\ UNCHANGED <<conn, act, batch, side>>
        /\ pc' = "batch" \/ (pc' = "accept" /\ ret' = "timer")
    BY <1>3 DEF FdTimerExpired, TimersDone, connVars, slotVars
  <2>2. \A j \in Slots : Waits(j)'
    BY <1>1, <2>1, SamePending, StillWaits
  <2>3. QED
    BY <2>1, <2>2 DEF WakeInv, BatchOver, CallsSignal
<1>4. QED
  BY <1>2, <1>3 DEF Timers

\* sv_accept: a new connection waits for nothing before it has run.
LEMMA AcceptWakes ==
    ASSUME TypeInv, WakeInv, ~Halted, Accept
    PROVE  WakeInv'
<1>1. pc = "accept"
  BY DEF Accept
<1>2. CASE AcceptLimit \/ AcceptWait \/ AcceptFdLimit \/ AcceptError
  <2>1. Return /\ UNCHANGED <<conn, act, side, sig>>
    BY <1>2 DEF AcceptLimit, AcceptWait, AcceptFdLimit, AcceptError, connVars, slotVars, kernVars
  <2>2. QED
    BY <1>1, <2>1, ReturnWakes
<1>3. CASE AcceptConn
  <2>1. PICK q \in BOOLEAN :
          conn' = [conn EXCEPT ![NextSlot] = [NoConn EXCEPT !.phase = "starting", !.inq = q]]
    BY <1>3 DEF AcceptConn
  <2> DEFINE c == [NoConn EXCEPT !.phase = "starting", !.inq = q]
  <2>2. c.phase = "starting" /\ c.kc = "idle"
    BY DEF NoConn
  <2>3. NextSlot \in Slots
    BY <1>3, NextSlotFree DEF AcceptConn, TakeSlot, TypeInv, LoopInv
  <2>4. /\ UNCHANGED <<act, batch, side, sig, ret>> /\ pc' = "start"
    BY <1>3 DEF AcceptConn, TakeSlot, kernVars
  <2>5. conn' = [conn EXCEPT ![NextSlot] = c] /\ conn \in [Slots -> Conns]
    BY <2>1 DEF TypeInv, LoopInv
  <2> HIDE DEF c
  <2>6. \A j \in Slots : Waits(j)'
    BY <1>1, <2>2, <2>3, <2>4, <2>5, OneSlotWakes
  <2>7. \A j \in Slots : conn'[j].kc = "cq" => conn[j].kc = "cq"
    BY <2>2, <2>3, <2>5
  <2>8. QED
    BY <1>1, <2>4, <2>6, <2>7 DEF WakeInv, BatchOver, CallsSignal
<1>4. QED
  BY <1>2, <1>3 DEF Accept

\* cl_start: the first run of a connection, or a slot that is lost.
LEMMA ClStartWakes ==
    ASSUME TypeInv, WakeInv, ~Halted, ClStart
    PROVE  WakeInv'
<1>1. pc = "start" /\ pc' = "accept" /\ UNCHANGED <<batch, ret, sig, cur>>
  BY DEF ClStart, kernVars
<1>2. PICK k \in Slots : Run(k) \/ StartFails(k)
  BY DEF ClStart
<1>3. /\ \A j \in Slots : Waits(j)'
      /\ \A j \in Slots : conn'[j].kc = "cq" => conn[j].kc = "cq"
  <2>1. CASE Run(k)
    <3>1. \A j \in Slots : j # k => \A f \in {"R", "W"} : Pending(j, f) => Pending(j, f)'
      BY <1>1, <2>1, RunWaits DEF Pending
    <3>2. QED
      BY <2>1, <3>1, RunWaits, RunKeepsWaits
  <2>2. CASE StartFails(k)
    <3> DEFINE c == [NoConn EXCEPT !.phase = "lost"]
    <3>1. c.phase = "lost" /\ c.kc = "idle"
      BY DEF NoConn
    <3>2. UNCHANGED <<act, side>> /\ conn' = [conn EXCEPT ![k] = c] /\ conn \in [Slots -> Conns]
      BY <2>2 DEF StartFails, slotVars, TypeInv, LoopInv
    <3> HIDE DEF c
    <3>3. \A j \in Slots : Waits(j)'
      BY <1>1, <3>1, <3>2, OneSlotWakes
    <3>4. QED
      BY <3>1, <3>2, <3>3
  <2>3. QED
    BY <1>2, <2>1, <2>2
<1>4. QED
  BY <1>1, <1>3 DEF WakeInv, BatchOver, CallsSignal

\* When the program has come to its end, nothing changes any more.
LEMMA RestWakes ==
    ASSUME WakeInv, UNCHANGED vars
    PROVE  WakeInv'
  BY DEF vars, connVars, loopVars, kernVars, slotVars, WakeInv, BatchOver, CallsSignal, Waits,
         Pending,
         Halted

(***************************************************************************)
(* Every step keeps the wakeups.                                           *)
(***************************************************************************)
LEMMA WakesKept ==
    ASSUME TypeInv, WakeInv, [Next]_vars
    PROVE  WakeInv'
<1>1. CASE ~Halted /\ KqWaitFails
  <2>1. pc' = "stopped"
    BY <1>1 DEF KqWaitFails
  <2>2. QED
    BY <2>1 DEF WakeInv, BatchOver, Halted
<1>2. CASE ~Halted /\ HandleEvent
  BY <1>2, ConnEventWakes, WorkerEventWakes DEF HandleEvent
<1>3. QED
  BY <1>1, <1>2, EnvironmentWakes, KqWaitWakes, WritePartWakes, CqWakes, TimersWakes, AcceptWakes,
     ClStartWakes, RestWakes
     DEF Next, Worker, Rest

-----------------------------------------------------------------------------
(* The backlog *)

\* A step that leaves the listening socket and the batch's events of it alone.
LEMMA ListenSame ==
    ASSUME ListenInv, ~Halted, pc \notin {"accept", "start"}, UNCHANGED lsockVars,
           \A e \in batch : e.kind = "accept" => e \in batch'
    PROVE  ListenInv'
  BY DEF ListenInv, lsockVars

(***************************************************************************)
(* The event of the listening socket goes from the edge into the batch and *)
(* from there to sv_accept, which leaves only when nothing is left, when a *)
(* timer will call it again, or with the error that BacklogServed excuses. *)
(***************************************************************************)
LEMMA ListenKept ==
    ASSUME TypeInv, WakeInv, ListenInv, [Next]_vars
    PROVE  ListenInv'
<1>1. CASE Environment
  <2>1. ~Halted /\ UNCHANGED loopVars
    BY <1>1 DEF Environment, PeerConnects, Tick, Stop, StopPost, PeerSends, PeerReads, KcallWorker
  <2>2. UNCHANGED <<lAct, fdTimer, acceptErr>> /\ (lEdge' \/ UNCHANGED <<lEdge, backlog>>)
    BY <1>1 DEF Environment, PeerConnects, Tick, Stop, StopPost, PeerSends, PeerReads, KcallWorker,
                lsockVars
  <2>3. QED
    BY <2>1, <2>2 DEF ListenInv, loopVars
<1>2. CASE ~Halted /\ KqWait
  <2>1. PICK b \in SUBSET Ready :
          batch' = b /\ lEdge' = (lEdge /\ Event("accept", 0) \notin b)
    BY <1>2 DEF KqWait
  <2>2. /\ pc = "wait" /\ batch = {}
        /\ UNCHANGED <<backlog, lAct, fdTimer, acceptErr>>
    BY <1>2 DEF KqWait, WakeInv, BatchOver
  <2>3. Event("accept", 0).kind = "accept"
    BY DEF Event
  <2>4. QED
    BY <1>2, <2>1, <2>2, <2>3 DEF ListenInv
<1>3. ASSUME ~Halted, pc = "batch", NEW e \in batch, ConnEvent(e) PROVE ListenInv'
  <2>1. e.kind = "conn" /\ batch' = batch \ {e} /\ UNCHANGED lsockVars
    BY <1>3 DEF ConnEvent
  <2>2. QED
    BY <1>3, <2>1, ListenSame
<1>4. ASSUME ~Halted, pc = "batch", NEW e \in batch, WorkerEvent(e) PROVE ListenInv'
  <2>1. batch' = batch \ {e} /\ UNCHANGED <<backlog, lEdge, lAct, acceptErr>>
    BY <1>4 DEF WorkerEvent
  <2>2. CASE e.kind = "accept"
    BY <1>4, <2>1, <2>2 DEF WorkerEvent, ListenInv
  <2>3. CASE e.kind # "accept"
    <3>1. UNCHANGED fdTimer \/ \E d \in 1 .. MaxElapsed : fdTimer' = Elapse(fdTimer, d)
      BY <1>4 DEF WorkerEvent
    <3>2. \A d \in 1 .. MaxElapsed : d \in Nat \ {0}
      BY LoopAssumption
    <3>3. fdTimer # Off => fdTimer' # Off
      BY <3>1, <3>2, ElapseFits, LoopAssumption DEF TypeInv, ListenTypes
    <3>4. QED
      BY <1>4, <2>1, <2>3, <3>3 DEF ListenInv
  <2>4. QED
    BY <2>2, <2>3
<1>5. CASE /\ ~Halted
           /\ \/ WritePart \/ BatchEnd \/ KqWaitFails \/ CqEmpty
              \/ \E k \in Slots : CqPop(k)
  <2>1. UNCHANGED <<lsockVars, batch>> /\ pc \notin {"accept", "start"}
    BY <1>5 DEF WritePart, BatchEnd, KqWaitFails, CqEmpty, CqPop, Return, loopVars
  <2>2. QED
    BY <1>5, <2>1, ListenSame
<1>6. CASE ~Halted /\ Timers
  <2>1. CASE FdTimerExpired
    BY <2>1 DEF FdTimerExpired, ListenInv
  <2>2. CASE TimersDone \/ \E k \in Slots : SendExpired(k) \/ RecvExpired(k)
    <3>1. UNCHANGED <<lsockVars, batch>> /\ pc = "timer"
      BY <1>6, <2>2 DEF Timers, TimersDone, SendExpired, RecvExpired, loopVars
    <3>2. QED
      BY <1>6, <3>1, ListenSame
  <2>3. QED
    BY <1>6, <2>1, <2>2 DEF Timers
<1>7. CASE Accept
  <2>1. FdTicks # Off
    BY LoopAssumption DEF Off
  <2>2. CASE AcceptLimit \/ AcceptFdLimit \/ AcceptError
    BY <2>1, <2>2 DEF AcceptLimit, AcceptFdLimit, AcceptError, ListenInv
  <2>3. CASE AcceptWait
    BY <2>3 DEF AcceptWait, ListenInv
  <2>4. CASE AcceptConn
    BY <2>4 DEF AcceptConn, ListenInv
  <2>5. QED
    BY <1>7, <2>2, <2>3, <2>4 DEF Accept
<1>8. CASE ClStart
  BY <1>8 DEF ClStart, ListenInv
<1>9. CASE UNCHANGED vars
  BY <1>9 DEF vars, lsockVars, loopVars, connVars, ListenInv, Halted
<1>10. QED
  BY <1>1, <1>2, <1>3, <1>4, <1>5, <1>6, <1>7, <1>8, <1>9 DEF Next, Worker, HandleEvent, Rest

-----------------------------------------------------------------------------

\* alphahttpd_run: the loop starts in sv_accept, with no connection and an empty batch.
LEMMA InitWakes == Init => TypeInv /\ WakeInv /\ ListenInv
<1> SUFFICES ASSUME Init PROVE TypeInv /\ WakeInv /\ ListenInv
  OBVIOUS
<1>1. ConnTypes
  BY DEF Init, ConnTypes, Acts, Undefs, NoUndef, Off
<1>2. ListenTypes
  <2>1. 0 \in 0 .. MaxBacklog
    BY LoopAssumption
  <2>2. QED
    BY <2>1 DEF Init, ListenTypes
<1>3. TypeInv
  BY <1>1, <1>2, InitFits DEF Init, TypeInv, SignalTypes, PlaceTypes, BatchTypes
<1>4. \A k \in Slots : conn[k].phase = "none" /\ conn[k].kc = "idle"
  BY NoConnFits DEF Init
<1>5. WakeInv /\ ListenInv
  BY <1>4 DEF Init, WakeInv, BatchOver, CallsSignal, Waits, ListenInv
<1>6. QED
  BY <1>3, <1>5

(***************************************************************************)
(* The invariant holds throughout, in whatever order events are reported,  *)
(* dropped and handled.                                                    *)
(***************************************************************************)
THEOREM WakeInvariant == Spec => [](TypeInv /\ WakeInv /\ ListenInv)
<1>1. TypeInv /\ WakeInv /\ ListenInv /\ [Next]_vars => (TypeInv /\ WakeInv /\ ListenInv)'
  BY TypesKept, WakesKept, ListenKept
<1>2. QED
  BY <1>1, InitWakes, PTL DEF Spec

(***************************************************************************)
(* The state of the loop has its types: timers stay below their timeouts,  *)
(* and events and places of the loop name slots.                           *)
(***************************************************************************)
THEOREM LoopTypes == Spec => []LoopTypeOK
<1>1. TypeInv => LoopTypeOK
  BY DEF TypeInv, LoopInv, Conns, SlotInv, ConnTypes, Acts, Undefs, ListenTypes, PlaceTypes,
         BatchTypes,
         Events, LoopTypeOK
<1>2. QED
  BY <1>1, WakeInvariant, PTL

(***************************************************************************)
(* When the loop goes to sleep in ffkq_wait, every connection that waits   *)
(* for data, room or a kernel call has the event pending that will reach   *)
(* it, for every number of connections, batch size and order of events.    *)
(***************************************************************************)
THEOREM NoWakeupIsLost == Spec => []NoLostWakeup
<1>1. TypeInv /\ WakeInv => NoLostWakeup
  <2> SUFFICES ASSUME TypeInv, WakeInv, pc = "wait", ~Halted, NEW k \in Slots PROVE Wakeable(k)
    BY DEF NoLostWakeup
  <2>1. conn[k] \in Conns /\ WaitFits(conn[k]) /\ Waits(k)
    BY DEF TypeInv, LoopInv, WakeInv
  <2>2. ~Pending(k, "R") /\ ~Pending(k, "W")
    BY DEF WakeInv, BatchOver, Pending
  <2>3. conn[k].kc = "cq" => sig \/ Polling
    BY DEF WakeInv, CallsSignal
  <2>4. QED
    BY <2>1, <2>2, <2>3 DEF Wakeable, Waits, WaitFits, Conns
<1>2. QED
  BY <1>1, WakeInvariant, PTL

(***************************************************************************)
(* When the loop goes to sleep, connections in the backlog will be looked  *)
(* at again, also those that came while the limit was reached and nobody   *)
(* listened, unless an accept has failed with an unexpected error.         *)
(***************************************************************************)
THEOREM BacklogIsServed == Spec => []BacklogServed
<1>1. WakeInv /\ ListenInv => BacklogServed
  BY DEF WakeInv, BatchOver, ListenInv, BacklogServed
<1>2. QED
  BY <1>1, WakeInvariant, PTL

-----------------------------------------------------------------------------
(***************************************************************************)
(* No event reaches a slot that does not expect it, although the side bit  *)
(* has one bit and the task flags of a slot outlive its owners.            *)
(***************************************************************************)

\* The events of slot k in the batch: those with the slot's side bit and the others.
ToConn(k) == {e \in batch : e.kind = "conn" /\ e.slot = k}
Current(k) == {e \in ToConn(k) : e.side = side[k]}
Stale(k) == {e \in ToConn(k) : e.side # side[k]}

\* By how much the timers may still move before the batch is over.
ToElapse == IF Event("timer", 0) \in batch THEN MaxElapsed ELSE 0

(***************************************************************************)
(* What the task flags of slot k allow an event to call is expected.  A    *)
(* read flag outlives its owner when the receive timer ends that: then no  *)
(* event in the batch has the slot's side bit.  This follows from the last *)
(* conjunct: while events of an earlier owner are in the batch, the        *)
(* receive timer of the owner is too far from its end to run out with it,  *)
(* so the side bit does not flip back.                                     *)
(***************************************************************************)
Expects(k) ==
    /\ conn[k].edge => Live(k)
    /\ k \notin sendDead =>
          /\ act[k].w => conn[k].phase = "send"
          /\ act[k].r => conn[k].phase \notin {"send", "kcall"}
          /\ act[k].r /\ Current(k) # {} => conn[k].phase = "recv"
          /\ conn[k].phase = "recv" /\ Stale(k) # {} => conn[k].recvTimer > ToElapse

\* The timer's event is in a batch once at most.
OneTimerEvent == \A e \in batch : e.kind = "timer" => e = Event("timer", 0)

AllExpect ==
    /\ MisfireOnlyAfterSendTimeout
    /\ MaxElapsed < RecvTicks /\ undef = NoUndef => \A k \in Slots : Expects(k)

MisfireInv == OneTimerEvent /\ AllExpect

-----------------------------------------------------------------------------

\* Sets of events, in the next state and in this.
LEMMA FewerEvents ==
    ASSUME batch' \subseteq batch, NEW k \in Slots, side'[k] = side[k]
    PROVE  Current(k)' \subseteq Current(k) /\ Stale(k)' \subseteq Stale(k) /\ ToElapse' <= ToElapse
<1>1. MaxElapsed \in Nat
  BY LoopAssumption
<1>2. ToElapse' <= ToElapse
  BY <1>1 DEF ToElapse, Event
<1>. QED  BY <1>2 DEF Current, Stale, ToConn

\* Steps that leave what a slot expects alone, or make it less.
LEMMA SlotLeft ==
    ASSUME NEW k \in Slots, Expects(k), TypeInv, TypeInv',
           batch' \subseteq batch, side'[k] = side[k], act'[k] = act[k],
           sendDead \subseteq sendDead',
           conn'[k].phase = conn[k].phase, conn'[k].recvTimer = conn[k].recvTimer,
           conn'[k].edge => conn[k].edge \/ Live(k)
    PROVE  Expects(k)'
<1>1. Current(k)' \subseteq Current(k) /\ Stale(k)' \subseteq Stale(k) /\ ToElapse' <= ToElapse
  BY FewerEvents
<1>2. conn[k].recvTimer \in Int /\ ToElapse \in Int /\ ToElapse' \in Int
  BY LoopAssumption DEF TypeInv, LoopInv, Conns, Off, ToElapse
<1>3. Live(k)' <=> Live(k)
  BY DEF Live
<1>. QED  BY <1>1, <1>2, <1>3 DEF Expects

\* A slot whose task flags are both cleared expects nothing.
LEMMA NothingExpected ==
    ASSUME NEW k \in Slots,
           conn'[k].edge => Live(k)',
           k \notin sendDead' => ~act'[k].w /\ ~act'[k].r /\ conn'[k].phase # "recv"
    PROVE  Expects(k)'
BY DEF Expects

(***************************************************************************)
(* A run of a connection clears the flags that it has no use for: they are *)
(* those of the wait in which it ends.                                     *)
(***************************************************************************)
LEMMA RunExpects ==
    ASSUME TypeInv, MaxElapsed < RecvTicks, NEW k \in Slots, Expects(k), Run(k),
           conn[k].phase = "starting" \/ Live(k), undef' = NoUndef
    PROVE  Expects(k)'
<1>1. /\ conn[k] \in Conns /\ conn \in [Slots -> Conns] /\ act \in [Slots -> Acts]
      /\ k \notin sendDead => (act[k].w => conn[k].phase = "send")
      /\ k \notin sendDead => (act[k].r => conn[k].phase \notin {"send", "kcall"})
      /\ conn[k].edge => Live(k)
      /\ conn[k].phase \in {"starting", "recv", "send", "kcall"}
  BY DEF TypeInv, LoopInv, ConnTypes, Expects, Live
<1>2. sendDead' = sendDead
  BY DEF Run, RunToRecv, RunToSend, RunToKcall, RunToEnd, RunAttachFails
<1>3. k \notin sendDead => ~RAfter(k)
  BY <1>1 DEF RAfter, Acts
<1>4. k \notin sendDead => WAfter(k) \subseteq {FALSE} \/ conn[k].phase = "send"
  BY <1>1 DEF WAfter, Acts
<1>5. WAfter(k) \subseteq {act[k].w, FALSE} /\ (conn[k].phase = "send" => WAfter(k) = {FALSE})
  BY DEF WAfter
<1>6. \A w \in WAfter(k) : k \notin sendDead => ~w
  BY <1>4, <1>5
<1>7. CASE RunToRecv(k)
  <2> DEFINE c == [conn[k] EXCEPT !.phase = "recv", !.inq = FALSE, !.kc = "idle",
                                  !.recvTimer = RecvTicks, !.sendTimer = Off]
  <2>1. conn' = [conn EXCEPT ![k] = Attach(c)]
    BY <1>7, <1>1 DEF RunToRecv
  <2>2. Attach(c).phase = "recv" /\ Attach(c).recvTimer = RecvTicks
    BY <1>1 DEF Attach, Conns
  <2>3. conn'[k].phase = "recv" /\ conn'[k].recvTimer = RecvTicks
    BY <2>1, <2>2, <1>1
  <2>4. PICK w \in WAfter(k) : act' = [act EXCEPT ![k] = [r |-> TRUE, w |-> w]]
    BY <1>7 DEF RunToRecv
  <2>5. act'[k] = [r |-> TRUE, w |-> w]
    BY <2>4, <1>1
  <2>6. k \notin sendDead => ~act'[k].w
    BY <2>5, <1>6
  <2>7. RecvTicks > ToElapse'
    BY LoopAssumption DEF ToElapse
  <2>. QED  BY <1>2, <2>3, <2>6, <2>7 DEF Expects, Live
<1>8. CASE RunToSend(k)
  <2>1. PICK q \in InqAfter(k) :
          conn' = [conn EXCEPT ![k] = Attach([@ EXCEPT !.phase = "send", !.inq = q, !.outq = FALSE,
                                    !.kc = "idle", !.recvTimer = Off, !.sendTimer = SendTicks])]
    BY <1>8 DEF RunToSend
  <2> DEFINE c == [conn[k] EXCEPT !.phase = "send", !.inq = q, !.outq = FALSE,
                                  !.kc = "idle", !.recvTimer = Off, !.sendTimer = SendTicks]
  <2>2. conn' = [conn EXCEPT ![k] = Attach(c)]
    BY <2>1, <1>1
  <2>3. Attach(c).phase = "send"
    BY <1>1 DEF Attach, Conns
  <2>4. conn'[k].phase = "send"
    BY <2>2, <2>3, <1>1
  <2>5. act'[k] = [r |-> RAfter(k), w |-> TRUE]
    BY <1>8, <1>1 DEF RunToSend
  <2>6. k \notin sendDead => ~act'[k].r
    BY <2>5, <1>3
  <2>. QED  BY <1>2, <2>4, <2>6 DEF Expects, Live
<1>9. CASE RunToKcall(k)
  <2>1. PICK q \in InqAfter(k), w \in WAfter(k) :
          /\ conn' = [conn EXCEPT ![k] = [@ EXCEPT !.phase = "kcall", !.inq = q, !.kc = "sq",
                                                   !.recvTimer = Off, !.sendTimer = Off]]
          /\ act' = [act EXCEPT ![k] = [r |-> RAfter(k), w |-> w]]
    BY <1>9 DEF RunToKcall
  <2>2. conn'[k].phase = "kcall" /\ act'[k] = [r |-> RAfter(k), w |-> w]
    BY <2>1, <1>1 DEF Conns
  <2>3. k \notin sendDead => ~act'[k].w /\ ~act'[k].r
    BY <2>2, <1>3, <1>6
  <2>. QED  BY <1>2, <2>2, <2>3, NothingExpected DEF Live
<1>10. CASE RunToEnd(k)
  <2>1. PICK w \in WAfter(k) : act' = [act EXCEPT ![k] = [r |-> RAfter(k), w |-> w]]
    BY <1>10 DEF RunToEnd
  <2>2. act'[k] = [r |-> RAfter(k), w |-> w]
    BY <2>1, <1>1
  <2>3. conn'[k].phase = "none" /\ ~conn'[k].edge
    BY <1>10, <1>1 DEF RunToEnd, Destroy, NoConn
  <2>4. k \notin sendDead => ~act'[k].w /\ ~act'[k].r
    BY <2>2, <1>3, <1>6
  <2>. QED  BY <1>2, <2>3, <2>4, NothingExpected
<1>11. ~RunAttachFails(k)
  BY DEF RunAttachFails, NoUndef
<1>. QED  BY <1>7, <1>8, <1>9, <1>10, <1>11 DEF Run

\* A run of one connection, with the batch as it is or with an event less.
LEMMA RunsExpect ==
    ASSUME TypeInv, TypeInv', MaxElapsed < RecvTicks, \A j \in Slots : Expects(j),
           NEW k \in Slots, Run(k), conn[k].phase = "starting" \/ Live(k), undef' = NoUndef,
           batch' \subseteq batch
    PROVE  \A j \in Slots : Expects(j)'
<1>1. Expects(k)'
  BY RunExpects
<1>2. sendDead' = sendDead
  BY DEF Run, RunToRecv, RunToSend, RunToKcall, RunToEnd, RunAttachFails
<1>3. ASSUME NEW j \in Slots, j # k PROVE Expects(j)'
  <2>1. conn'[j] = conn[j] /\ act'[j] = act[j] /\ side'[j] = side[j]
    BY <1>3, RunWaits
  <2>. QED  BY <1>2, <2>1, SlotLeft
<1>. QED  BY <1>1, <1>3

-----------------------------------------------------------------------------
(* The steps of the worker *)

\* Steps that leave every slot alone, or make less of what it expects.
LEMMA SlotsLeft ==
    ASSUME TypeInv, TypeInv', AllExpect, undef = NoUndef, undef' = NoUndef,
           batch' \subseteq batch, UNCHANGED <<side, act, sendDead>>,
           \A k \in Slots : /\ conn'[k].phase = conn[k].phase
                            /\ conn'[k].recvTimer = conn[k].recvTimer
                            /\ conn'[k].edge => conn[k].edge \/ Live(k)
    PROVE  AllExpect'
<1>1. MisfireOnlyAfterSendTimeout'
  BY DEF MisfireOnlyAfterSendTimeout, NoUndef
<1>2. ASSUME MaxElapsed < RecvTicks, NEW k \in Slots PROVE Expects(k)'
  BY <1>2, SlotLeft DEF AllExpect
<1>. QED  BY <1>1, <1>2 DEF AllExpect

\* A run of a connection is no misfire.
LEMMA RunKeepsExpect ==
    ASSUME TypeInv, TypeInv', AllExpect, undef = NoUndef, NEW k \in Slots, Run(k),
           conn[k].phase = "starting" \/ Live(k), batch' \subseteq batch
    PROVE  AllExpect'
<1>1. undef' = undef \/ undef' = [kind |-> "use_after_free", slot |-> k]
  BY DEF Run, RunToRecv, RunToSend, RunToKcall, RunToEnd, RunAttachFails
<1>2. MisfireOnlyAfterSendTimeout'
  BY <1>1 DEF MisfireOnlyAfterSendTimeout, NoUndef
<1>3. ASSUME MaxElapsed < RecvTicks, undef' = NoUndef PROVE \A j \in Slots : Expects(j)'
  BY <1>3, RunsExpect DEF AllExpect
<1>. QED  BY <1>2, <1>3 DEF AllExpect

(***************************************************************************)
(* A handler that an event calls: unless the send timer ended an owner of  *)
(* the slot, somebody waits there for a socket, and is resumed.            *)
(***************************************************************************)
LEMMA ResumeExpects ==
    ASSUME TypeInv, TypeInv', WakeInv, AllExpect, ~Halted, NEW k \in Slots, Resume(k),
           MaxElapsed < RecvTicks => k \in sendDead \/ conn[k].phase \in {"recv", "send"},
           batch' \subseteq batch
    PROVE  AllExpect'
<1>1. undef = NoUndef /\ Waits(k) /\ WaitFits(conn[k])
  BY DEF Halted, WakeInv, TypeInv, LoopInv
<1>2. CASE Run(k) /\ Live(k)
  BY <1>1, <1>2, RunKeepsExpect
<1>3. ASSUME NEW kind \in {"null_handler", "early_resume"}, Undefined(kind, k),
             ~(Live(k) /\ conn[k].attached /\ conn[k].kc = "idle")
      PROVE  AllExpect'
  <2>1. MaxElapsed < RecvTicks => k \in sendDead
    BY <1>1, <1>3 DEF Waits, WaitFits, Live
  <2>2. undef' = [kind |-> kind, slot |-> k] /\ sendDead' = sendDead
    BY <1>3 DEF Undefined
  <2>3. undef' # NoUndef
    BY <2>2 DEF NoUndef
  <2>. QED  BY <2>1, <2>2, <2>3 DEF AllExpect, MisfireOnlyAfterSendTimeout
<1>. QED  BY <1>2, <1>3 DEF Resume

(***************************************************************************)
(* One event of a socket: it has the slot's side bit when it calls a       *)
(* handler.                                                                *)
(***************************************************************************)
LEMMA ConnEventExpects ==
    ASSUME TypeInv, TypeInv', WakeInv, AllExpect, ~Halted, NEW e \in batch, ConnEvent(e)
    PROVE  AllExpect'
<1>1. e.slot \in Slots /\ batch' \subseteq batch /\ undef = NoUndef
  BY DEF TypeInv, EventsKnown, ConnEvent, Halted
<1>2. CASE UNCHANGED <<slotVars, connVars>>
  BY <1>1, <1>2, SlotsLeft DEF slotVars, connVars
<1>3. ASSUME ~StaleEvent(e), act[e.slot].r \/ act[e.slot].w, Resume(e.slot) PROVE AllExpect'
  <2>1. e \in Current(e.slot)
    BY <1>3 DEF Current, ToConn, StaleEvent, ConnEvent
  <2>2. MaxElapsed < RecvTicks => e.slot \in sendDead \/ conn[e.slot].phase \in {"recv", "send"}
    BY <1>1, <1>3, <2>1 DEF AllExpect, Expects
  <2>. QED  BY <1>1, <1>3, <2>2, ResumeExpects
<1>. QED  BY <1>2, <1>3 DEF ConnEvent

\* The write part of an event: the flag says that its owner waits for room.
LEMMA WritePartExpects ==
    ASSUME TypeInv, TypeInv', WakeInv, AllExpect, ~Halted, WritePart
    PROVE  AllExpect'
<1>1. cur \in Slots /\ batch' = batch /\ undef = NoUndef
  BY DEF TypeInv, EventsKnown, WritePart, Halted
<1>2. CASE UNCHANGED <<slotVars, connVars>>
  BY <1>1, <1>2, SlotsLeft DEF slotVars, connVars
<1>3. CASE act[cur].w /\ Resume(cur)
  <2>1. MaxElapsed < RecvTicks => cur \in sendDead \/ conn[cur].phase \in {"recv", "send"}
    BY <1>1, <1>3 DEF AllExpect, Expects
  <2>. QED  BY <1>1, <1>3, <2>1, ResumeExpects
<1>. QED  BY <1>2, <1>3 DEF WritePart

(***************************************************************************)
(* ffkq_wait: an event of a socket is recorded with the side bit its slot  *)
(* has now, and because its edge is set somebody lives there.              *)
(***************************************************************************)
LEMMA KqWaitExpects ==
    ASSUME TypeInv, TypeInv', MisfireInv, WakeInv, ~Halted, KqWait
    PROVE  MisfireInv'
<1>1. PICK b \in SUBSET Ready :
        /\ batch' = b
        /\ conn' = [k \in Slots |-> [conn[k] EXCEPT !.edge = @ /\ Event("conn", k) \notin b]]
  BY DEF KqWait
<1>2. UNCHANGED <<side, act, undef, sendDead>> /\ undef = NoUndef
  BY DEF KqWait, slotVars, Halted
<1>3. OneTimerEvent'
  BY <1>1 DEF OneTimerEvent, Ready, Event
<1>4. MisfireOnlyAfterSendTimeout'
  BY <1>2 DEF MisfireOnlyAfterSendTimeout, NoUndef
<1>5. ASSUME MaxElapsed < RecvTicks, NEW k \in Slots PROVE Expects(k)'
  <2>1. Expects(k) /\ conn[k] \in Conns
    BY <1>2, <1>5 DEF MisfireInv, AllExpect, TypeInv, LoopInv
  <2>2. /\ conn'[k].phase = conn[k].phase /\ conn'[k].recvTimer = conn[k].recvTimer
        /\ conn'[k].edge => conn[k].edge
    BY <1>1, <2>1 DEF Conns
  <2>3. \A e \in ToConn(k)' : conn[k].edge /\ e.side = side[k]
    BY <1>1 DEF ToConn, Ready, Event
  <2>4. Stale(k)' = {}
    BY <1>2, <2>3 DEF Stale
  <2>5. Current(k)' # {} => Live(k)
    BY <2>1, <2>3 DEF Current, Expects
  <2>. QED  BY <1>2, <2>1, <2>2, <2>4, <2>5 DEF Expects, Live
<1>. QED  BY <1>3, <1>4, <1>5 DEF MisfireInv, AllExpect

(***************************************************************************)
(* The worker's own events.  sv_ontimer moves the timers on by MaxElapsed  *)
(* at most, and its event leaves the batch with that.                      *)
(***************************************************************************)
LEMMA WorkerEventExpects ==
    ASSUME TypeInv, TypeInv', MisfireInv, ~Halted, NEW e \in batch, WorkerEvent(e)
    PROVE  AllExpect'
<1>1. /\ batch' = batch \ {e} /\ UNCHANGED <<side, act, undef, sendDead>> /\ undef = NoUndef
      /\ AllExpect
  BY DEF WorkerEvent, slotVars, Halted, MisfireInv
<1>2. CASE UNCHANGED conn
  BY <1>1, <1>2, SlotsLeft
<1>3. ASSUME e.kind = "timer", NEW d \in 1 .. MaxElapsed,
             conn' = [k \in Slots |-> [conn[k] EXCEPT !.recvTimer = Elapse(@, d),
                                                     !.sendTimer = Elapse(@, d)]]
      PROVE  AllExpect'
  <2>1. d \in Nat \ {0} /\ MaxElapsed \in Nat /\ d <= MaxElapsed
    BY LoopAssumption
  <2>2. e = Event("timer", 0)
    BY <1>3 DEF MisfireInv, OneTimerEvent
  <2>3. ToElapse = MaxElapsed /\ ToElapse' = 0
    BY <1>1, <2>2 DEF ToElapse, Event
  <2>4. MisfireOnlyAfterSendTimeout'
    BY <1>1 DEF MisfireOnlyAfterSendTimeout, NoUndef
  <2>5. ASSUME MaxElapsed < RecvTicks, NEW k \in Slots PROVE Expects(k)'
    <3>1. Expects(k) /\ conn[k] \in Conns
      BY <1>1, <2>5 DEF AllExpect, TypeInv, LoopInv
    <3>2. /\ conn'[k].phase = conn[k].phase /\ conn'[k].edge = conn[k].edge
          /\ conn'[k].recvTimer = Elapse(conn[k].recvTimer, d)
      BY <1>3, <3>1 DEF Conns
    <3>3. conn[k].recvTimer \in Int
      BY <3>1, LoopAssumption DEF Conns, Off
    <3>4. conn[k].recvTimer > MaxElapsed => conn'[k].recvTimer > 0
      BY <2>1, <3>2, <3>3 DEF Elapse, Off
    <3>5. Current(k)' \subseteq Current(k) /\ Stale(k)' \subseteq Stale(k)
      BY <1>1, FewerEvents
    <3>. QED  BY <1>1, <2>3, <3>1, <3>2, <3>4, <3>5 DEF Expects, Live
  <2>. QED  BY <2>4, <2>5 DEF AllExpect
<1>. QED  BY <1>2, <1>3 DEF WorkerEvent

(***************************************************************************)
(* A timer ends a connection.  The events that now have the slot's side    *)
(* bit are those of earlier owners, and if the receive timer ran out there *)
(* are none of them.                                                       *)
(***************************************************************************)
LEMMA ExpiredExpects ==
    ASSUME TypeInv, TypeInv', AllExpect, ~Halted, NEW k \in Slots, SendExpired(k) \/ RecvExpired(k)
    PROVE  AllExpect'
<1>1. /\ Destroy(k) /\ UNCHANGED <<act, undef, batch>> /\ sendDead \subseteq sendDead'
      /\ undef = NoUndef
  BY DEF SendExpired, RecvExpired, loopVars, Halted
<1>2. side' = [side EXCEPT ![k] = 1 - @] /\ side \in [Slots -> {0, 1}]
  BY <1>1 DEF Destroy, ConnFin, TypeInv, LoopInv, SlotInv, SlotTypeOK
<1>3. conn' = [conn EXCEPT ![k] = NoConn] /\ conn \in [Slots -> Conns]
  BY <1>1 DEF Destroy, TypeInv, LoopInv
<1>4. conn'[k].phase = "none" /\ ~conn'[k].edge
  BY <1>3 DEF NoConn
<1>5. MisfireOnlyAfterSendTimeout'
  BY <1>1 DEF MisfireOnlyAfterSendTimeout, NoUndef
<1>6. ASSUME MaxElapsed < RecvTicks PROVE Expects(k)'
  <2>1. CASE SendExpired(k)
    BY <1>4, <2>1, NothingExpected DEF SendExpired
  <2>2. CASE RecvExpired(k)
    <3>1. Expects(k) /\ WaitFits(conn[k]) /\ conn[k].recvTimer = 0
      BY <1>1, <1>6, <2>2 DEF AllExpect, TypeInv, LoopInv, RecvExpired
    <3>2. conn[k].phase = "recv" /\ UNCHANGED sendDead
      BY <2>2, <3>1 DEF WaitFits, Off, RecvExpired
    <3>3. ToElapse \in Nat
      BY LoopAssumption DEF ToElapse
    <3>4. k \notin sendDead => Stale(k) = {}
      BY <3>1, <3>2, <3>3 DEF Expects
    <3>5. Current(k)' \subseteq Stale(k)
      BY <1>1, <1>2 DEF Current, Stale, ToConn
    <3>. QED  BY <1>1, <1>4, <3>1, <3>2, <3>4, <3>5 DEF Expects
  <2>. QED  BY <2>1, <2>2
<1>7. ASSUME MaxElapsed < RecvTicks, NEW j \in Slots, j # k PROVE Expects(j)'
  <2>1. conn'[j] = conn[j] /\ side'[j] = side[j] /\ act'[j] = act[j] /\ Expects(j)
    BY <1>1, <1>2, <1>3, <1>7 DEF AllExpect
  <2>. QED  BY <1>1, <2>1, SlotLeft
<1>. QED  BY <1>5, <1>6, <1>7 DEF AllExpect

\* A connection comes into a slot: it waits for nothing yet.
LEMMA AcceptExpects ==
    ASSUME TypeInv, TypeInv', AllExpect, ~Halted, Accept
    PROVE  AllExpect'
<1>1. UNCHANGED <<side, act, undef, sendDead, batch>> /\ undef = NoUndef
  BY DEF Accept, AcceptLimit, AcceptWait, AcceptFdLimit, AcceptError, AcceptConn, TakeSlot,
         Return, slotVars, connVars, Halted
<1>2. CASE UNCHANGED conn
  BY <1>1, <1>2, SlotsLeft
<1>3. ASSUME NEW c, c.phase = "starting", ~c.edge, conn' = [conn EXCEPT ![NextSlot] = c],
             NextSlot \in Slots, NextSlot \notin owned
      PROVE  AllExpect'
  <2>1. conn \in [Slots -> Conns] /\ conn[NextSlot].phase = "none"
    BY <1>3 DEF TypeInv, LoopInv
  <2>2. conn'[NextSlot].phase = "starting" /\ ~conn'[NextSlot].edge
    BY <1>3, <2>1
  <2>3. MisfireOnlyAfterSendTimeout'
    BY <1>1 DEF MisfireOnlyAfterSendTimeout, NoUndef
  <2>4. ASSUME MaxElapsed < RecvTicks, NEW j \in Slots PROVE Expects(j)'
    <3>1. Expects(j)
      BY <1>1, <2>4 DEF AllExpect
    <3>2. CASE j = NextSlot
      <4>1. Current(j)' = Current(j)
        BY <1>1 DEF Current, ToConn
      <4>. QED  BY <1>1, <2>1, <2>2, <3>1, <3>2, <4>1 DEF Expects
    <3>3. CASE j # NextSlot
      BY <1>1, <1>3, <2>1, <3>1, <3>3, SlotLeft
    <3>. QED  BY <3>2, <3>3
  <2>. QED  BY <2>3, <2>4 DEF AllExpect
<1>4. CASE AcceptConn
  <2>1. PICK q \in BOOLEAN :
          conn' = [conn EXCEPT ![NextSlot] = [NoConn EXCEPT !.phase = "starting", !.inq = q]]
    BY <1>4 DEF AcceptConn
  <2>2. NextSlot \in Slots /\ NextSlot \notin owned
    BY <1>4, InvImpliesBounds DEF AcceptConn, TakeSlot, TypeInv, LoopInv, SlotBounds
  <2>3. [NoConn EXCEPT !.phase = "starting", !.inq = q].phase = "starting"
    BY DEF NoConn
  <2>4. ~[NoConn EXCEPT !.phase = "starting", !.inq = q].edge
    BY DEF NoConn
  <2>. QED  BY <1>3, <2>1, <2>2, <2>3, <2>4
<1>. QED
  BY <1>2, <1>4 DEF Accept, AcceptLimit, AcceptWait, AcceptFdLimit, AcceptError, connVars

\* The first run of a connection, or cl_start without memory.
LEMMA ClStartExpects ==
    ASSUME TypeInv, TypeInv', AllExpect, ~Halted, ClStart
    PROVE  AllExpect'
<1>1. PICK k \in Slots : conn[k].phase = "starting" /\ (Run(k) \/ StartFails(k))
  BY DEF ClStart
<1>2. batch' = batch /\ undef = NoUndef
  BY DEF ClStart, Halted
<1>3. CASE Run(k)
  BY <1>1, <1>2, <1>3, RunKeepsExpect
<1>4. CASE StartFails(k)
  <2>1. /\ conn' = [conn EXCEPT ![k] = [NoConn EXCEPT !.phase = "lost"]]
        /\ UNCHANGED <<side, act, undef, sendDead>>
    BY <1>4 DEF StartFails, slotVars
  <2>2. conn \in [Slots -> Conns]
    BY DEF TypeInv, LoopInv
  <2>3. conn'[k].phase = "lost" /\ ~conn'[k].edge
    BY <2>1, <2>2 DEF NoConn
  <2>4. MisfireOnlyAfterSendTimeout'
    BY <1>2, <2>1 DEF MisfireOnlyAfterSendTimeout, NoUndef
  <2>5. ASSUME MaxElapsed < RecvTicks, NEW j \in Slots PROVE Expects(j)'
    <3>1. Expects(j)
      BY <1>2, <2>5 DEF AllExpect
    <3>2. CASE j = k
      <4>1. Current(j)' = Current(j)
        BY <1>2, <2>1 DEF Current, ToConn
      <4>. QED  BY <1>1, <2>1, <2>3, <3>1, <3>2, <4>1 DEF Expects
    <3>3. CASE j # k
      BY <1>2, <2>1, <2>2, <3>1, <3>3, SlotLeft
    <3>. QED  BY <3>2, <3>3
  <2>. QED  BY <2>4, <2>5 DEF AllExpect
<1>. QED  BY <1>1, <1>3, <1>4

\* What happens around the worker: an edge is set for a connection that lives.
LEMMA EnvironmentExpects ==
    ASSUME TypeInv, TypeInv', AllExpect, Environment
    PROVE  AllExpect'
<1>1. UNCHANGED <<side, act, undef, sendDead, batch>> /\ undef = NoUndef
  BY DEF Environment, PeerConnects, Tick, Stop, StopPost, PeerSends,
         PeerReads, KcallWorker, slotVars, connVars, loopVars, Halted
<1>2. conn \in [Slots -> Conns]
  BY DEF TypeInv, LoopInv
<1>3. CASE UNCHANGED conn
  BY <1>1, <1>3, SlotsLeft
<1>4. ASSUME NEW k \in Slots, PeerSends(k) \/ PeerReads(k) \/ KcallWorker(k),
             NEW j \in Slots
      PROVE  /\ conn'[j].phase = conn[j].phase
             /\ conn'[j].recvTimer = conn[j].recvTimer
             /\ conn'[j].edge => conn[j].edge \/ Live(j)
  <2>1. conn[j] \in Conns /\ conn[k] \in Conns
    BY <1>2
  <2>2. CASE PeerSends(k)
    BY <1>2, <2>1, <2>2 DEF PeerSends, Conns
  <2>3. CASE PeerReads(k)
    BY <1>2, <2>1, <2>3 DEF PeerReads, Conns
  <2>4. CASE KcallWorker(k)
    BY <1>2, <2>1, <2>4 DEF KcallWorker, Conns
  <2>. QED  BY <1>4, <2>2, <2>3, <2>4
<1>5. ASSUME NEW k \in Slots, PeerSends(k) \/ PeerReads(k) \/ KcallWorker(k) PROVE AllExpect'
  BY <1>1, <1>4, <1>5, SlotsLeft
<1>. QED  BY <1>3, <1>5 DEF Environment, PeerConnects, Tick, Stop, StopPost, connVars

-----------------------------------------------------------------------------
(* Every step *)

\* Only ffkq_wait puts events in the batch.
LEMMA BatchShrinks ==
    ASSUME [Next]_vars, ~KqWait
    PROVE  batch' \subseteq batch
<1>1. CASE HandleEvent \/ KqWaitFails \/ WritePart \/ BatchEnd \/ CqEmpty
  BY <1>1 DEF HandleEvent, ConnEvent, WorkerEvent, KqWaitFails, WritePart, BatchEnd, CqEmpty,
              Return
<1>2. CASE Timers \/ ClStart \/ \E k \in Slots : CqPop(k)
  BY <1>2 DEF Timers, SendExpired, RecvExpired, FdTimerExpired, TimersDone, ClStart, CqPop,
              loopVars
<1>3. CASE Accept
  BY <1>3 DEF Accept, AcceptLimit, AcceptWait, AcceptFdLimit, AcceptError, AcceptConn, Return
<1>4. CASE Environment \/ UNCHANGED vars
  BY <1>4 DEF Environment, PeerConnects, Tick, Stop, StopPost, PeerSends,
              PeerReads, KcallWorker, loopVars, vars
<1>. QED  BY <1>1, <1>2, <1>3, <1>4 DEF Next, Worker, Rest

\* No step makes an event reach a slot that does not expect it.
LEMMA MisfireKept ==
    ASSUME TypeInv, TypeInv', WakeInv, MisfireInv, [Next]_vars
    PROVE  MisfireInv'
<1>1. CASE ~Halted /\ KqWait
  BY <1>1, KqWaitExpects
<1>2. ASSUME ~KqWait PROVE OneTimerEvent'
  BY <1>2, BatchShrinks DEF MisfireInv, OneTimerEvent, Event
<1>3. AllExpect
  BY DEF MisfireInv
<1>4. ASSUME ~Halted /\ HandleEvent PROVE AllExpect'
  BY <1>3, <1>4, ConnEventExpects, WorkerEventExpects DEF HandleEvent
<1>5. ASSUME ~Halted /\ (WritePart \/ Accept \/ ClStart) PROVE AllExpect'
  BY <1>3, <1>5, WritePartExpects, AcceptExpects, ClStartExpects
<1>6. ASSUME ~Halted /\ (KqWaitFails \/ BatchEnd \/ CqEmpty) PROVE AllExpect'
  <2>1. undef = NoUndef /\ UNCHANGED <<conn, side, act, undef, sendDead, batch>>
    BY <1>6 DEF KqWaitFails, BatchEnd, CqEmpty, Return, slotVars, connVars, Halted
  <2>. QED  BY <1>3, <2>1, SlotsLeft
<1>7. ASSUME ~Halted /\ Timers PROVE AllExpect'
  <2>1. CASE FdTimerExpired \/ TimersDone
    <3>1. undef = NoUndef /\ UNCHANGED <<conn, side, act, undef, sendDead, batch>>
      BY <1>7, <2>1 DEF FdTimerExpired, TimersDone, slotVars, connVars, Halted
    <3>. QED  BY <1>3, <3>1, SlotsLeft
  <2>. QED  BY <1>3, <1>7, <2>1, ExpiredExpects DEF Timers
<1>8. ASSUME ~Halted, NEW k \in Slots, CqPop(k) PROVE AllExpect'
  <2>1. Run(k) /\ conn[k].kc = "cq" /\ batch' = batch /\ undef = NoUndef
    BY <1>8 DEF CqPop, loopVars, Halted
  <2>2. Live(k)
    BY <2>1 DEF TypeInv, LoopInv, WaitFits, Live
  <2>. QED  BY <1>3, <2>1, <2>2, RunKeepsExpect
<1>9. ASSUME Environment PROVE AllExpect'
  BY <1>3, <1>9, EnvironmentExpects
<1>10. ASSUME UNCHANGED vars PROVE AllExpect'
  <2>1. UNCHANGED <<conn, side, act, undef, sendDead, batch>>
    BY <1>10 DEF vars, slotVars, connVars, loopVars
  <2>2. ASSUME NEW k \in Slots, Expects(k) PROVE Expects(k)'
    BY <2>1, <2>2, SlotLeft
  <2>. QED  BY <1>3, <2>1, <2>2 DEF AllExpect, MisfireOnlyAfterSendTimeout
<1>11. CASE ~KqWait
  BY <1>2, <1>4, <1>5, <1>6, <1>7, <1>8, <1>9, <1>10, <1>11 DEF Next, Worker, Rest, MisfireInv
<1>12. CASE KqWait /\ ~(~Halted /\ KqWait)
  <2>1. CASE Environment
    BY <1>12, <2>1 DEF Environment
  <2>2. CASE UNCHANGED vars
    BY <1>12, <2>2 DEF KqWait, vars, loopVars
  <2>. QED  BY <1>12, <2>1, <2>2 DEF Next, Worker, Rest
<1>. QED  BY <1>1, <1>11, <1>12

LEMMA InitMisfire == Init => MisfireInv
<1> SUFFICES ASSUME Init PROVE MisfireInv
  OBVIOUS
<1>1. conn = [k \in Slots |-> NoConn] /\ act = [k \in Slots |-> [r |-> FALSE, w |-> FALSE]]
      /\ batch = {} /\ undef = NoUndef
  BY DEF Init
<1>2. \A k \in Slots : Expects(k)
  BY <1>1 DEF Expects, NoConn
<1>. QED  BY <1>1, <1>2 DEF MisfireInv, AllExpect, OneTimerEvent, MisfireOnlyAfterSendTimeout,
                           NoUndef

(***************************************************************************)
(* An event calls a handler of a slot where nobody waits for it, or before *)
(* the kernel call of its owner is complete, only in a slot that the send  *)
(* timer took from an owner (ahsend_expired leaves wtask.active set): for  *)
(* every number of slots and every batch size, in whatever order events,   *)
(* timeouts and new connections come, when fewer timer intervals pass      *)
(* between two calls of sv_ontimer than the receive timeout has.           *)
(***************************************************************************)
THEOREM MisfiresOnlyThere == Spec => []MisfireOnlyAfterSendTimeout
<1>1. Init => MisfireInv
  BY InitMisfire
<1>2. TypeInv /\ TypeInv' /\ WakeInv /\ MisfireInv /\ [Next]_vars => MisfireInv'
  BY MisfireKept
<1>3. MisfireInv => MisfireOnlyAfterSendTimeout
  BY DEF MisfireInv, AllExpect
<1>. QED  BY <1>1, <1>2, <1>3, WakeInvariant, PTL DEF Spec

=============================================================================
