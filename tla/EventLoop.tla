----------------------------- MODULE EventLoop -----------------------------
(***************************************************************************)
(* One worker of alphahttpd: the kernel-queue loop of server.c, the accept *)
(* path, the timers, the queue of completed kernel calls, and the          *)
(* connections the loop resumes.                                           *)
(*                                                                         *)
(* The loop is one thread: ffkq_wait returns a batch of events, each event *)
(* calls a handler that runs to the end, and then the completed kernel     *)
(* calls are processed.  Peers, the kcall threads, the timer and the       *)
(* caller of alphahttpd_stop act between any two steps of it.              *)
(*                                                                         *)
(* A handler of a connection is cl_filters_process: it runs the filters    *)
(* until one of them waits.  Only where it stops is visible here: waiting  *)
(* for input (receive.h), for room to send (send.h), for a kernel call     *)
(* (file.h, access-log.h), or ended (cl_destroy).                          *)
(***************************************************************************)
EXTENDS ConnSlots

CONSTANTS
    EventsNum,              \* events_num: the most events one ffkq_wait returns
    RecvTicks, SendTicks,   \* receive/send timeouts in timer intervals
    FdTicks,                \* fdlimit_timeout in timer intervals
    MaxElapsed,             \* bound: intervals that pass between two sv_ontimer
    MaxBacklog,             \* bound: connections the kernel holds for accept
    Polling,                \* polling_mode
    MayHappen               \* bound: the failures and the stop that may happen

ASSUME LoopAssumption ==
    /\ EventsNum \in Nat \ {0}
    /\ RecvTicks \in Nat \ {0}
    /\ SendTicks \in Nat \ {0}
    /\ FdTicks \in Nat \ {0}
    /\ MaxElapsed \in Nat \ {0}
    /\ MaxBacklog \in Nat \ {0}
    /\ Polling \in BOOLEAN
    /\ MayHappen \subseteq {"stop", "oom", "attach", "fdlimit", "accept", "eintr", "kqwait"}

VARIABLES
    conn,                   \* the connection in every slot, and its socket
    act,                    \* rtask.active and wtask.active of every slot
    backlog,                \* connections waiting to be accepted
    lEdge, lAct,            \* event pending on lsock; lsock_kev.rtask.active
    fdTimer,                \* tmr_fdlimit
    tick, sig, post,        \* events pending: timer, kcq_kev, post_kev
    stop,                   \* worker_stop
    stopping,               \* alphahttpd_stop has set worker_stop and not posted yet
    pc, ret,                \* what the loop does, and what it returns to
    batch, cur,             \* events still to handle; slot with a write part left
    undef,                  \* where the program did something undefined
    sendDead,               \* history: slots with an owner ended by the send timer
    acceptErr               \* history: an accept failed with another error

connVars == <<conn, act, undef, sendDead>>
lsockVars == <<backlog, lEdge, lAct, fdTimer, acceptErr>>
kernVars == <<tick, sig, post, stop, stopping>>
loopVars == <<pc, ret, batch, cur>>
vars == <<slotVars, connVars, lsockVars, kernVars, loopVars>>

Off == -1                   \* a timer that is not in the queue
Phases == {"none", "starting", "recv", "send", "kcall", "lost"}

\* A slot without a connection.
NoConn == [phase |-> "none", attached |-> FALSE, inq |-> FALSE, outq |-> TRUE,
           edge |-> FALSE, recvTimer |-> Off, sendTimer |-> Off, kc |-> "idle"]

NoUndef == [kind |-> "no", slot |-> Off]

Live(k) == conn[k].phase \in {"recv", "send", "kcall"}
Halted == pc = "stopped" \/ undef # NoUndef

\* alphahttpd_run: everything is attached, then sv_accept is called.
Init ==
    /\ InitSlots
    /\ conn = [k \in Slots |-> NoConn]
    /\ act = [k \in Slots |-> [r |-> FALSE, w |-> FALSE]]
    /\ backlog = 0 /\ lEdge = FALSE /\ lAct = FALSE /\ fdTimer = Off
    /\ tick = FALSE /\ sig = FALSE /\ post = FALSE
    /\ stop = FALSE /\ stopping = FALSE
    /\ pc = "accept" /\ ret = "wait" /\ batch = {} /\ cur = Off
    /\ undef = NoUndef /\ sendDead = {} /\ acceptErr = FALSE

-----------------------------------------------------------------------------
(* What the rest of the machine does. *)

\* A peer connects: the kernel queues it and signals the listening socket.
PeerConnects ==
    /\ backlog < MaxBacklog
    /\ backlog' = backlog + 1
    /\ lEdge' = TRUE
    /\ UNCHANGED <<slotVars, connVars, lAct, fdTimer, acceptErr, kernVars, loopVars>>

\* Data, the end of the stream or an error reaches a socket: each arrival is an
\* event of its own, also when earlier data is still unread.
PeerSends(k) ==
    /\ Live(k)
    /\ conn' = [conn EXCEPT ![k].inq = TRUE, ![k].edge = conn[k].attached]
    /\ UNCHANGED <<slotVars, act, undef, sendDead, lsockVars, kernVars, loopVars>>

\* The peer takes data, or breaks the connection: a send no longer waits.
PeerReads(k) ==
    /\ Live(k) /\ ~conn[k].outq
    /\ conn' = [conn EXCEPT ![k].outq = TRUE, ![k].edge = conn[k].attached]
    /\ UNCHANGED <<slotVars, act, undef, sendDead, lsockVars, kernVars, loopVars>>

\* Mutant: the worker thread completes a call without signalling the loop.
KcallWorkerNoSignal(k) ==
    /\ conn[k].kc = "sq"
    /\ conn' = [conn EXCEPT ![k].kc = "cq"]
    /\ UNCHANGED <<slotVars, act, undef, sendDead, lsockVars, kernVars, loopVars>>

(***************************************************************************)
(* A kcall thread executes a queued call, puts it on the completion queue  *)
(* and posts the signal; in polling mode there is nothing to post to.      *)
(***************************************************************************)
KcallWorker(k) ==
    /\ conn[k].kc = "sq"
    /\ conn' = [conn EXCEPT ![k].kc = "cq"]
    /\ sig' = ~Polling
    /\ UNCHANGED <<slotVars, act, undef, sendDead, lsockVars, tick, post, stop, stopping, loopVars>>

\* The timer's interval ends.
Tick ==
    /\ ~tick
    /\ tick' = TRUE
    /\ UNCHANGED <<slotVars, connVars, lsockVars, sig, post, stop, stopping, loopVars>>

\* alphahttpd_stop, from another thread or from the signal handler: the flag.
Stop ==
    /\ "stop" \in MayHappen /\ ~stop
    /\ stop' = TRUE
    /\ stopping' = TRUE
    /\ UNCHANGED <<slotVars, connVars, lsockVars, tick, sig, post, loopVars>>

\* Mutant: alphahttpd_stop only sets the flag.
StopPostNothing ==
    /\ stopping
    /\ stopping' = FALSE
    /\ UNCHANGED <<slotVars, connVars, lsockVars, tick, sig, post, stop, loopVars>>

\* alphahttpd_stop: the event that wakes the worker.
StopPost ==
    /\ stopping
    /\ stopping' = FALSE
    /\ post' = TRUE
    /\ UNCHANGED <<slotVars, connVars, lsockVars, tick, sig, stop, loopVars>>

Environment ==
    /\ ~Halted
    /\ \/ PeerConnects \/ Tick \/ Stop \/ StopPost
       \/ \E k \in Slots : PeerSends(k) \/ PeerReads(k) \/ KcallWorker(k)

-----------------------------------------------------------------------------
(* A connection runs: cl_filters_process, seen from the loop. *)

\* What the connection waits for has come, so its run can take it any distance.
CanProceed(k) ==
    CASE conn[k].phase \in {"starting", "recv"} -> conn[k].inq
      [] conn[k].phase = "send"                 -> conn[k].outq
      [] OTHER                                  -> TRUE

\* rtask.active after the run: a receive that returned at once clears it.
RAfter(k) == IF conn[k].phase \in {"starting", "recv"} THEN FALSE ELSE act[k].r

\* wtask.active after the run: a send that returned at once clears it, and only
\* a run that reached the send filter has called it.
WAfter(k) ==
    CASE conn[k].phase = "send" -> {FALSE}
      [] OTHER                  -> IF CanProceed(k) THEN {act[k].w, FALSE} ELSE {act[k].w}

\* The input left in the socket: a run that can proceed may have taken it.
InqAfter(k) == IF CanProceed(k) THEN {conn[k].inq, FALSE} ELSE {conn[k].inq}

\* cl_async: the socket is attached once; attaching reports what is ready already.
Attach(c) ==
    IF c.attached THEN c ELSE [c EXCEPT !.attached = TRUE, !.edge = c.inq \/ c.outq]

\* The run ends in ahrecv_read: nothing to receive, the timer is (re)started.
RunToRecv(k) ==
    /\ conn[k].phase \in {"starting", "recv"} \/ CanProceed(k)
    /\ conn' = [conn EXCEPT ![k] = Attach([@ EXCEPT !.phase = "recv", !.inq = FALSE, !.kc = "idle",
                                           !.recvTimer = RecvTicks, !.sendTimer = Off])]
    /\ \E w \in WAfter(k) : act' = [act EXCEPT ![k] = [r |-> TRUE, w |-> w]]
    /\ UNCHANGED <<slotVars, undef, sendDead>>

\* Mutant: ahsend_process leaves the timer alone after the first wait.
RunToSendNoTimer(k) ==
    /\ conn[k].phase = "send" \/ CanProceed(k)
    /\ \E q \in InqAfter(k) :
         conn' = [conn EXCEPT ![k] = Attach([@ EXCEPT !.phase = "send", !.inq = q, !.outq = FALSE,
                                             !.kc = "idle", !.recvTimer = Off])]
    /\ act' = [act EXCEPT ![k] = [r |-> RAfter(k), w |-> TRUE]]
    /\ UNCHANGED <<slotVars, undef, sendDead>>

\* The run ends in ahsend_process: no room to send, the timer is (re)started.
RunToSend(k) ==
    /\ conn[k].phase = "send" \/ CanProceed(k)
    /\ \E q \in InqAfter(k) :
         conn' = [conn EXCEPT ![k] = Attach([@ EXCEPT !.phase = "send", !.inq = q, !.outq = FALSE,
                                             !.kc = "idle", !.recvTimer = Off, !.sendTimer = SendTicks])]
    /\ act' = [act EXCEPT ![k] = [r |-> RAfter(k), w |-> TRUE]]
    /\ UNCHANGED <<slotVars, undef, sendDead>>

\* Mutant: the receive filter does not stop its timer when data has come.
RunToKcallTimerOn(k) ==
    /\ CanProceed(k)
    /\ \E q \in InqAfter(k), w \in WAfter(k) :
         /\ conn' = [conn EXCEPT ![k] = [@ EXCEPT !.phase = "kcall", !.inq = q, !.kc = "sq",
                                         !.sendTimer = Off]]
         /\ act' = [act EXCEPT ![k] = [r |-> RAfter(k), w |-> w]]
    /\ UNCHANGED <<slotVars, undef, sendDead>>

\* The run ends in a filter that queues a kernel call; no timer is running.
RunToKcall(k) ==
    /\ CanProceed(k)
    /\ \E q \in InqAfter(k), w \in WAfter(k) :
         /\ conn' = [conn EXCEPT ![k] = [@ EXCEPT !.phase = "kcall", !.inq = q, !.kc = "sq",
                                         !.recvTimer = Off, !.sendTimer = Off]]
         /\ act' = [act EXCEPT ![k] = [r |-> RAfter(k), w |-> w]]
    /\ UNCHANGED <<slotVars, undef, sendDead>>

\* Mutant: cl_destroy leaves the receive timer in the queue.
DestroyTimerOn(k) ==
    /\ conn' = [conn EXCEPT ![k] = [NoConn EXCEPT !.recvTimer = conn[k].recvTimer]]
    /\ ConnFin(k)

\* Mutant: the slot's handlers are cleared, but it is not given back.
DestroySlotKept(k) ==
    /\ conn' = [conn EXCEPT ![k] = NoConn]
    /\ UNCHANGED slotVars

(***************************************************************************)
(* cl_destroy: the socket is closed (which ends its registration), both    *)
(* timers are removed by the filters' close functions, and the slot is     *)
(* given back.  The task flags of the slot are not touched.                *)
(***************************************************************************)
Destroy(k) ==
    /\ conn' = [conn EXCEPT ![k] = NoConn]
    /\ ConnFin(k)

RunToEnd(k) ==
    /\ CanProceed(k)
    /\ Destroy(k)
    /\ \E w \in WAfter(k) : act' = [act EXCEPT ![k] = [r |-> RAfter(k), w |-> w]]
    /\ UNCHANGED <<undef, sendDead>>

\* cl_async cannot attach the socket: it destroys the client, and the chain,
\* which ignores that, stores into it (`c->imod = i`).
RunAttachFails(k) ==
    /\ "attach" \in MayHappen
    /\ ~conn[k].attached
    /\ Destroy(k)
    /\ undef' = [kind |-> "use_after_free", slot |-> k]
    /\ UNCHANGED <<act, sendDead>>

Run(k) ==
    \/ RunToRecv(k) \/ RunToSend(k) \/ RunToKcall(k) \/ RunToEnd(k)
    \/ RunAttachFails(k)

\* The program does something the language does not define: nothing after it counts.
Undefined(kind, k) ==
    /\ undef' = [kind |-> kind, slot |-> k]
    /\ UNCHANGED <<slotVars, conn, act, sendDead>>

(***************************************************************************)
(* sv_worker calls c->rhandler(c->obj) or c->whandler(c->obj).  A slot     *)
(* whose owner ended has NULL handlers, one whose owner is not attached    *)
(* yet has a NULL obj.  A client that has a kernel call in flight takes    *)
(* the resumption for the completion of the call.                          *)
(***************************************************************************)
Resume(k) ==
    IF ~Live(k) \/ ~conn[k].attached THEN Undefined("null_handler", k)
    ELSE IF conn[k].kc # "idle" THEN Undefined("early_resume", k)
    ELSE Run(k)

-----------------------------------------------------------------------------
(* The loop. *)

\* The flags an event of this socket carries.
Flags(k) == (IF conn[k].inq THEN {"R"} ELSE {}) \cup (IF conn[k].outq THEN {"W"} ELSE {})

Event(kind, k) ==
    [kind |-> kind, slot |-> k, side |-> IF kind = "conn" THEN side[k] ELSE 0,
     flags |-> IF kind = "conn" THEN Flags(k) ELSE {"R"}]

\* Everything ffkq_wait could return now.
Ready ==
    {Event("conn", k) : k \in {s \in Slots : conn[s].edge /\ Flags(s) # {}}}
    \cup {Event("accept", 0) : x \in {y \in {0} : lEdge}}
    \cup {Event("timer", 0) : x \in {y \in {0} : tick}}
    \cup {Event("kcq", 0) : x \in {y \in {0} : sig}}
    \cup {Event("post", 0) : x \in {y \in {0} : post}}

(***************************************************************************)
(* ffkq_wait returns as many events as are ready and fit; reporting an     *)
(* event consumes it (the sockets are registered edge-triggered).  The     *)
(* timer's event stays until fftimer_consume.  In polling mode, or when a  *)
(* signal interrupts the call, the batch may be empty.                     *)
(***************************************************************************)
KqWait ==
    /\ pc = "wait"
    /\ \E b \in SUBSET Ready :
         /\ \/ Cardinality(b) = IF Cardinality(Ready) < EventsNum THEN Cardinality(Ready)
                                                                  ELSE EventsNum
            \/ b = {} /\ "eintr" \in MayHappen
         /\ b # {} \/ Polling \/ "eintr" \in MayHappen
         /\ batch' = b
         /\ conn' = [k \in Slots |->
                       [conn[k] EXCEPT !.edge = @ /\ Event("conn", k) \notin b]]
         /\ lEdge' = (lEdge /\ Event("accept", 0) \notin b)
         /\ sig' = (sig /\ Event("kcq", 0) \notin b)
         /\ post' = (post /\ Event("post", 0) \notin b)
    /\ pc' = "batch"
    /\ UNCHANGED <<slotVars, act, undef, sendDead, backlog, lAct, fdTimer, acceptErr,
                   tick, stop, stopping, ret, cur>>

\* ffkq_wait fails with another error: the loop is left.
KqWaitFails ==
    /\ pc = "wait" /\ "kqwait" \in MayHappen
    /\ pc' = "stopped"
    /\ UNCHANGED <<slotVars, connVars, lsockVars, kernVars, ret, batch, cur>>

\* Mutant: the side bit of the tag is not compared with the slot's.
StaleNever(e) == FALSE

\* The event was recorded for an earlier owner of the slot.
StaleEvent(e) == e.side # side[e.slot]

\* One event of a connection's socket: the read handler, then the write handler.
ConnEvent(e) ==
    /\ e.kind = "conn"
    /\ batch' = batch \ {e}
    /\ IF ~StaleEvent(e) /\ "R" \in e.flags /\ act[e.slot].r
       THEN /\ Resume(e.slot)
            /\ IF "W" \in e.flags THEN pc' = "write" /\ cur' = e.slot
                                  ELSE UNCHANGED <<pc, cur>>
       ELSE /\ UNCHANGED <<pc, cur>>
            /\ IF ~StaleEvent(e) /\ "W" \in e.flags /\ act[e.slot].w
               THEN Resume(e.slot)
               ELSE UNCHANGED <<slotVars, connVars>>
    /\ UNCHANGED <<lsockVars, kernVars, ret>>

\* The write part of an event whose read part has run.
WritePart ==
    /\ pc = "write"
    /\ IF act[cur].w THEN Resume(cur) ELSE UNCHANGED <<slotVars, connVars>>
    /\ pc' = "batch" /\ cur' = Off
    /\ UNCHANGED <<lsockVars, kernVars, ret, batch>>

\* Time left of a timer after `d` intervals; 0 is due.
Elapse(t, d) == IF t = Off THEN Off ELSE IF t > d THEN t - d ELSE 0

\* The events of the worker itself: the listening socket, the timer (sv_ontimer
\* reads the clock and so moves every timer on), the kcall and the stop signal.
WorkerEvent(e) ==
    /\ batch' = batch \ {e}
    /\ \/ /\ e.kind = "accept"
          /\ IF lAct THEN pc' = "accept" /\ ret' = "batch" ELSE UNCHANGED <<pc, ret>>
          /\ UNCHANGED <<conn, fdTimer>>
       \/ /\ e.kind = "timer"
          /\ \E d \in 1 .. MaxElapsed :
               /\ conn' = [k \in Slots |->
                             [conn[k] EXCEPT !.recvTimer = Elapse(@, d),
                                             !.sendTimer = Elapse(@, d)]]
               /\ fdTimer' = Elapse(fdTimer, d)
          /\ pc' = "timer" /\ UNCHANGED ret
       \/ /\ e.kind = "kcq"
          /\ pc' = "cq" /\ ret' = "batch"
          /\ UNCHANGED <<conn, fdTimer>>
       \/ /\ e.kind = "post"
          /\ UNCHANGED <<conn, fdTimer, pc, ret>>
    /\ UNCHANGED <<slotVars, act, undef, sendDead, backlog, lEdge, lAct, acceptErr, kernVars,
                   cur>>

HandleEvent == pc = "batch" /\ \E e \in batch : ConnEvent(e) \/ WorkerEvent(e)

\* After the batch, ffkcallq_process_cq is called.
BatchEnd ==
    /\ pc = "batch" /\ batch = {}
    /\ pc' = "cq" /\ ret' = "wait"
    /\ UNCHANGED <<slotVars, connVars, lsockVars, kernVars, batch, cur>>

\* Return from a handler; back in the loop's head, worker_stop is looked at.
Return ==
    /\ pc' = IF ret = "wait" /\ stop THEN "stopped" ELSE ret
    /\ UNCHANGED <<ret, batch, cur>>

\* ffkcallq_process_cq: a completed call resumes its connection through
\* kcall.handler, which takes the client and not the slot's obj.
CqPop(k) ==
    /\ pc = "cq" /\ conn[k].kc = "cq"
    /\ Run(k)
    /\ UNCHANGED <<lsockVars, kernVars, loopVars>>

CqEmpty ==
    /\ pc = "cq" /\ \A k \in Slots : conn[k].kc # "cq"
    /\ Return
    /\ UNCHANGED <<slotVars, connVars, lsockVars, kernVars>>

\* ahsend_expired: the client is destroyed; wtask.active of its slot stays set.
SendExpired(k) ==
    /\ conn[k].sendTimer = 0
    /\ Destroy(k)
    /\ sendDead' = sendDead \cup {k}
    /\ UNCHANGED <<act, undef, lsockVars, kernVars, loopVars>>

\* ahreq_read_expired.
RecvExpired(k) ==
    /\ conn[k].recvTimer = 0
    /\ Destroy(k)
    /\ UNCHANGED <<act, undef, sendDead, lsockVars, kernVars, loopVars>>

\* tmr_fdlimit, a one-shot timer, calls sv_accept.
FdTimerExpired ==
    /\ fdTimer = 0
    /\ fdTimer' = Off
    /\ pc' = "accept" /\ ret' = "timer"
    /\ UNCHANGED <<slotVars, connVars, backlog, lEdge, lAct, acceptErr, kernVars, batch, cur>>

\* No timer is due any more: fftimer_consume.
TimersDone ==
    /\ fdTimer # 0
    /\ \A k \in Slots : conn[k].recvTimer # 0 /\ conn[k].sendTimer # 0
    /\ tick' = FALSE
    /\ pc' = "batch"
    /\ UNCHANGED <<slotVars, connVars, lsockVars, sig, post, stop, stopping, ret, batch, cur>>

\* fftimerqueue_process, one expired timer a step.
Timers ==
    /\ pc = "timer"
    /\ \/ \E k \in Slots : SendExpired(k) \/ RecvExpired(k)
       \/ FdTimerExpired
       \/ TimersDone

\* Mutant: at the limit, accepting stops without the timer that starts it again.
AcceptLimitNoTimer ==
    /\ connNum = NConns
    /\ Return
    /\ UNCHANGED <<slotVars, connVars, lsockVars, kernVars>>

\* Mutant: the loop of sv_accept goes on at the limit.
AcceptLimitLoops ==
    /\ connNum = NConns
    /\ fdTimer' = FdTicks
    /\ UNCHANGED <<slotVars, connVars, backlog, lEdge, lAct, acceptErr, kernVars, loopVars>>

\* sv_accept1 at the connection limit: try again when the timer fires.
AcceptLimit ==
    /\ connNum = NConns
    /\ fdTimer' = FdTicks
    /\ Return
    /\ UNCHANGED <<slotVars, connVars, backlog, lEdge, lAct, acceptErr, kernVars>>

\* Nothing to accept: lsock_kev waits for the next event.
AcceptWait ==
    /\ connNum # NConns /\ backlog = 0
    /\ lAct' = TRUE
    /\ Return
    /\ UNCHANGED <<slotVars, connVars, backlog, lEdge, fdTimer, acceptErr, kernVars>>

\* Out of descriptors: the connection stays in the backlog, try again by timer.
AcceptFdLimit ==
    /\ "fdlimit" \in MayHappen
    /\ connNum # NConns /\ backlog > 0
    /\ lAct' = FALSE
    /\ fdTimer' = FdTicks
    /\ Return
    /\ UNCHANGED <<slotVars, connVars, backlog, lEdge, acceptErr, kernVars>>

\* Any other error: the loop of sv_accept ends, and nothing is armed.
AcceptError ==
    /\ "accept" \in MayHappen
    /\ connNum # NConns /\ backlog > 0
    /\ backlog' = backlog - 1
    /\ lAct' = FALSE
    /\ acceptErr' = TRUE
    /\ Return
    /\ UNCHANGED <<slotVars, connVars, lEdge, fdTimer, kernVars>>

\* A connection is accepted into a slot; its socket may hold input already.
AcceptConn ==
    /\ backlog > 0
    /\ backlog' = backlog - 1
    /\ lAct' = FALSE
    /\ TakeSlot
    /\ \E q \in BOOLEAN :
         conn' = [conn EXCEPT ![NextSlot] = [NoConn EXCEPT !.phase = "starting", !.inq = q]]
    /\ pc' = "start"
    /\ UNCHANGED <<act, undef, sendDead, lEdge, fdTimer, acceptErr, kernVars, ret, batch, cur>>

Accept ==
    /\ pc = "accept"
    /\ AcceptLimit \/ AcceptWait \/ AcceptFdLimit \/ AcceptError \/ AcceptConn

\* cl_start without memory: neither the socket nor the slot is ever given back.
StartFails(k) ==
    /\ "oom" \in MayHappen
    /\ conn' = [conn EXCEPT ![k] = [NoConn EXCEPT !.phase = "lost"]]
    /\ UNCHANGED <<slotVars, act, undef, sendDead>>

\* cl_start: the handlers are set and the chain runs for the first time.
ClStart ==
    /\ pc = "start"
    /\ \E k \in Slots : conn[k].phase = "starting" /\ (Run(k) \/ StartFails(k))
    /\ pc' = "accept"
    /\ UNCHANGED <<lsockVars, kernVars, ret, batch, cur>>

Worker ==
    /\ ~Halted
    /\ \/ KqWait \/ KqWaitFails \/ HandleEvent \/ WritePart \/ BatchEnd
       \/ (\E k \in Slots : CqPop(k)) \/ CqEmpty
       \/ Timers \/ Accept \/ ClStart

\* The worker has left its loop (or did something undefined) and stays so.
Rest == Halted /\ UNCHANGED vars

Next == Environment \/ Worker \/ Rest

Spec == Init /\ [][Next]_vars

(***************************************************************************)
(* Fairness: the worker thread runs, kcall threads finish what is queued,  *)
(* and a call of alphahttpd_stop returns.  Nothing is assumed of peers,    *)
(* and the clock is left to the properties that need it (ClockTicks).      *)
(***************************************************************************)
FairSpec ==
    /\ Spec
    /\ WF_vars(Worker)
    /\ WF_vars(~Halted /\ StopPost)
    /\ \A k \in Slots : WF_vars(~Halted /\ KcallWorker(k))

-----------------------------------------------------------------------------

SignalTypes ==
    /\ tick \in BOOLEAN /\ sig \in BOOLEAN /\ post \in BOOLEAN
    /\ stop \in BOOLEAN /\ stopping \in BOOLEAN

LoopTypeOK ==
    /\ SlotTypeOK
    /\ conn \in [Slots -> [phase : Phases, attached : BOOLEAN, inq : BOOLEAN, outq : BOOLEAN,
                           edge : BOOLEAN, recvTimer : {Off} \cup 0 .. RecvTicks,
                           sendTimer : {Off} \cup 0 .. SendTicks, kc : {"idle", "sq", "cq"}]]
    /\ act \in [Slots -> [r : BOOLEAN, w : BOOLEAN]]
    /\ backlog \in 0 .. MaxBacklog
    /\ lEdge \in BOOLEAN /\ lAct \in BOOLEAN
    /\ fdTimer \in {Off} \cup 0 .. FdTicks
    /\ SignalTypes
    /\ pc \in {"wait", "batch", "write", "timer", "accept", "start", "cq", "stopped"}
    /\ ret \in {"wait", "batch", "timer"}
    /\ batch \subseteq [kind : {"conn", "accept", "timer", "kcq", "post"}, slot : Slots,
                        side : {0, 1}, flags : SUBSET {"R", "W"}]
    /\ cur \in Slots \cup {Off}
    /\ undef \in [kind : {"no", "null_handler", "early_resume", "use_after_free"},
                  slot : Slots \cup {Off}]
    /\ sendDead \subseteq Slots
    /\ acceptErr \in BOOLEAN

(***************************************************************************)
(* The slot bookkeeping used by the loop is that of ConnSlots: the loop    *)
(* never gives back a slot that has no owner, nor takes one that has       *)
(* (cl_destroy runs once for every accepted connection at most).           *)
(***************************************************************************)
SlotsSpec == InitSlots /\ [][NextSlots]_slotVars

(***************************************************************************)
(* Only the slot of a connection that the send timer ended (whose          *)
(* wtask.active nobody cleared) can see its handlers called when there is  *)
(* nobody to call, or before the kernel call of its owner is complete:     *)
(* everywhere else the side bit and the task flags keep an event from      *)
(* reaching a slot that does not wait for it.                              *)
(***************************************************************************)
MisfireOnlyAfterSendTimeout ==
    MaxElapsed < RecvTicks /\ undef.kind \in {"null_handler", "early_resume"} => undef.slot \in sendDead

\* file.h: a resumed file_process finds its kernel call completed.
ResumedWhenCompleted == undef.kind # "early_resume"

\* Everything connection k waits for will wake the loop up.
Wakeable(k) ==
    CASE conn[k].phase = "recv" ->
           act[k].r /\ conn[k].attached /\ (conn[k].inq => conn[k].edge)
      [] conn[k].phase = "send" ->
           act[k].w /\ conn[k].attached /\ (conn[k].outq => conn[k].edge)
      [] conn[k].phase = "kcall" ->
           conn[k].kc = "sq" \/ (conn[k].kc = "cq" /\ (sig \/ Polling))
      [] OTHER -> TRUE

(***************************************************************************)
(* When the loop goes to sleep, no wakeup is lost: input for a waiting     *)
(* receive, room for a waiting send, and a completed kernel call all have  *)
(* an event pending that reaches their connection, although the sockets    *)
(* are edge-triggered and events that nobody waited for are dropped.       *)
(***************************************************************************)
NoLostWakeup == pc = "wait" /\ ~Halted => \A k \in Slots : Wakeable(k)

(***************************************************************************)
(* When the loop goes to sleep, connections in the backlog will be looked  *)
(* at again: an event is pending and expected, or the retry timer runs --  *)
(* unless an accept has failed with an error that is no descriptor limit.  *)
(***************************************************************************)
BacklogServed ==
    pc = "wait" /\ ~Halted /\ backlog > 0 => (lEdge /\ lAct) \/ fdTimer # Off \/ acceptErr

(***************************************************************************)
(* A timer runs exactly while its connection waits for what it bounds, so  *)
(* no timer can fire for a freed client, and no wait goes without one.     *)
(***************************************************************************)
TimersBoundWaits ==
    \A k \in Slots :
        /\ conn[k].recvTimer # Off <=> conn[k].phase = "recv"
        /\ conn[k].sendTimer # Off <=> conn[k].phase = "send"

(***************************************************************************)
(* A client is not freed while a kcall thread works for it (the thread     *)
(* would write the result into freed memory): a kernel call in flight      *)
(* always belongs to the connection that waits for it, and no step of the  *)
(* worker ends such a connection.                                          *)
(***************************************************************************)
KcallOutlived ==
    [][\A k \in Slots : conn[k].kc = "sq" => conn'[k].kc # "idle" /\ k \in owned']_vars

-----------------------------------------------------------------------------
(* Liveness.  One handler can keep the loop busy for ever: sv_accept while *)
(* connections keep coming, ffkcallq_process_cq while calls keep           *)
(* completing.  The properties are about runs where the loop gets back to  *)
(* ffkq_wait again and again.                                              *)

LoopReturns == []<>(pc = "wait" \/ Halted)

\* The worker's timer goes on as long as the worker does.
ClockTicks == WF_vars(~Halted /\ Tick)

\* A connection comes, or a kernel call completes.
MoreWork == backlog' > backlog \/ \E k \in Slots : conn[k].kc = "sq" /\ conn'[k].kc = "cq"

(***************************************************************************)
(* Nothing else keeps it from there: when no more connections come and no  *)
(* more calls complete, every handler's loop comes to an end, whatever the *)
(* connections it starts and resumes do.                                   *)
(***************************************************************************)
LoopGetsBack == <>[][~MoreWork]_vars => LoopReturns

(***************************************************************************)
(* A peer that sends nothing, or takes nothing, does not hold its slot for *)
(* ever: the timers see to it.                                             *)
(***************************************************************************)
SilentPeerReaped ==
    LoopReturns /\ ClockTicks =>
        \A k \in Slots :
            /\ []<>(conn[k].phase # "recv" \/ conn[k].inq \/ Halted)
            /\ []<>(conn[k].phase # "send" \/ conn[k].outq \/ Halted)

(***************************************************************************)
(* A waiting connection is accepted in the end, or the slots are all       *)
(* taken, also when it came while the limit was reached or while there     *)
(* were no descriptors (which there are again some day), and nobody was    *)
(* listening to the socket's events.                                       *)
(***************************************************************************)
BacklogDrained ==
    LoopReturns /\ ClockTicks /\ <>[][~AcceptFdLimit]_vars =>
        []<>(backlog = 0 \/ connNum = NConns \/ pc = "start" \/ acceptErr \/ Halted)

\* A peer does something, or a kernel call completes.
PeersOrCalls == MoreWork \/ \E k \in Slots : PeerSends(k) \/ PeerReads(k)

(***************************************************************************)
(* No slot is lost: once the peers are silent and the file calls done, all *)
(* slots are free again, however their connections ended, except those     *)
(* that cl_start lost when it had no memory.                               *)
(***************************************************************************)
SlotsComeBack ==
    LoopReturns /\ ClockTicks /\ <>[][~PeersOrCalls]_vars =>
        []<>(owned = {k \in Slots : conn[k].phase = "lost"} \/ Halted)

(***************************************************************************)
(* alphahttpd_stop ends the loop, also when it sleeps in ffkq_wait and no  *)
(* timer, peer or call wakes it, and wherever the loop is between the flag *)
(* and the post.                                                           *)
(***************************************************************************)
StopHonoured == LoopReturns => (stop ~> Halted)

=============================================================================
