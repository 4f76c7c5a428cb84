----------------------------- MODULE Boss_proofs -----------------------------
(***************************************************************************)
(* Proofs about the threads of the process, for every number of workers,   *)
(* kcall threads and kernel calls, every number of signals, and with       *)
(* failures of start-up at any place: a worker's memory is freed only when *)
(* its thread is over, nobody but the known ones uses it then, and no      *)
(* queued kernel call is left to sleeping threads.                         *)
(***************************************************************************)
EXTENDS Boss, FiniteSetTheorems, TLAPS

-----------------------------------------------------------------------------
(* The inductive invariant of the shutdown *)

\* Where the main thread is in its lists, and what it knows of the workers there.
MainFits ==
    /\ main = "kcq_start" => \A w \in Workers : wrk[w].pc = "none"
    /\ main = "wrk_start" => at # 1 /\ \A w \in Workers : w = 1 \/ w >= at => wrk[w].pc = "none"
    /\ main = "free" => wrk[at].pc \in {"none", "returned"}

\* A worker's memory is freed during shutdown only, in its turn, and when its thread is over.
FreedFits ==
    \A w \in Workers : wrk[w].freed =>
        /\ main \notin {"kcq_start", "wrk_start", "run"} /\ wrk[w].pc \in {"none", "returned"}
        /\ main \in {"stop", "join", "free"} => w < at

\* The handler runs when the workers do, or else there was a late signal.
HandlerFits == sigAt # 0 => main = "run" \/ lateSignal

\* A worker has no calls before its loop, and leaves only orphans behind.
CallsFit ==
    \A w \in Workers, c \in Calls :
        /\ wrk[w].pc \in {"none", "start"} => call[w][c] = "idle"
        /\ wrk[w].pc = "returned" /\ call[w][c] # "idle" => <<w, c>> \in orphans

\* A call that a kcall thread executes is no other thread's.
ExecFits ==
    /\ \A t \in KThreads : kt[t].pc = "exec" =>
           kt[t].x \in AllCalls /\ call[kt[t].x[1]][kt[t].x[2]] = "exec"
    /\ \A s, t \in KThreads : kt[s].pc = "exec" /\ kt[t].pc = "exec" /\ kt[s].x = kt[t].x => s = t

\* What FreedMemory says of those who used freed memory.
Known == orphans \cup (IF lateSignal THEN {Handler} ELSE {}) \cup {Logger(w) : w \in Workers \ {1}}

ShutdownInv ==
    /\ BossTypeOK
    /\ MainFits /\ FreedFits /\ HandlerFits
    /\ CallsFit /\ ExecFits
    /\ touched \subseteq Known

(***************************************************************************)
(* The inductive invariant of the semaphore: in polling mode nobody sleeps *)
(* and after kcq_stop there is a post for each thread that may still wait. *)
(***************************************************************************)
MayWait == {t \in KThreads : kt[t].pc \in {"drain", "exec", "wait"}}

WakeInv ==
    /\ BossTypeOK
    /\ NoCallForgotten
    /\ Polling => \A t \in KThreads : kt[t].pc # "wait"
    /\ kstop /\ ~Polling => sem >= Cardinality(MayWait)

-----------------------------------------------------------------------------
(* The types, step by step *)

\* No step at all.
LEMMA TypeStutters == ASSUME BossTypeOK, UNCHANGED vars PROVE BossTypeOK'
  BY DEF BossTypeOK, MainTypeOK, WrkTypeOK, CallTypeOK, KtTypeOK, SemTypeOK, SigTypeOK,
     PastTypeOK,
     vars, mainVars, kcqVars, sigVars, pastVars

\* kcq_init: a kcall thread is created, or its creation fails.
LEMMA TypeKcqStart == ASSUME BossTypeOK, KcqStart PROVE BossTypeOK'
<1>1. MainTypeOK'
  BY BossAssumption DEF BossTypeOK, KcqStart, MainTypeOK, Destroying, mainVars
<1>2. KtTypeOK'
  BY DEF BossTypeOK, KcqStart, KtTypeOK, mainVars
<1>3. QED
  BY <1>1, <1>2
     DEF BossTypeOK, KcqStart, WrkTypeOK, CallTypeOK, SemTypeOK, SigTypeOK, PastTypeOK, kcqVars,
         pastVars, sigVars

\* wrk_start: a worker thread is created, or its creation fails.
LEMMA TypeWrkStart == ASSUME BossTypeOK, WrkStart PROVE BossTypeOK'
<1>1. MainTypeOK'
  BY BossAssumption DEF BossTypeOK, WrkStart, MainTypeOK, OnMain, Destroying
<1>2. WrkTypeOK'
  BY DEF BossTypeOK, WrkStart, WrkTypeOK, Records
<1>3. QED
  BY <1>1, <1>2
     DEF BossTypeOK, WrkStart, CallTypeOK, KtTypeOK, SemTypeOK, SigTypeOK, PastTypeOK, kcqVars,
         pastVars, sigVars

\* The main thread's own worker ends.
LEMMA TypeRunEnds == ASSUME BossTypeOK, RunEnds PROVE BossTypeOK'
<1>1. MainTypeOK'
  BY BossAssumption DEF BossTypeOK, RunEnds, MainTypeOK, Destroying
<1>2. QED
  BY <1>1
     DEF BossTypeOK, RunEnds, WrkTypeOK, CallTypeOK, KtTypeOK, SemTypeOK, SigTypeOK, PastTypeOK,
         kcqVars, pastVars, sigVars

\* boss_destroy stops a worker,
LEMMA TypeDestroyStop == ASSUME BossTypeOK, DestroyStop PROVE BossTypeOK'
<1>1. MainTypeOK'
  BY BossAssumption DEF BossTypeOK, DestroyStop, OnMain, MainTypeOK
<1>2. WrkTypeOK'
  <2>1. wrk \in [Workers -> Records]
    BY DEF BossTypeOK, WrkTypeOK
  <2> DEFINE r == [wrk[at] EXCEPT !.stop = TRUE,
                                  !.post = wrk[at].post \/ (wrk[at].kq /\ ~wrk[at].stop)]
  <2>2. ASSUME at \in Workers PROVE r \in Records
    <3>1. wrk[at] \in Records
      BY <2>1, <2>2
    <3>2. QED
      BY <3>1 DEF Records
  <2>3. wrk' = [wrk EXCEPT ![at] = r]
    BY DEF DestroyStop
  <2> HIDE DEF r
  <2>4. QED
    BY <2>1, <2>2, <2>3 DEF WrkTypeOK
<1>3. PastTypeOK'
  <2>1. at \in Workers
    BY BossAssumption DEF BossTypeOK, DestroyStop, OnMain, MainTypeOK, Workers
  <2>2. touched' \subseteq touched \cup {Logger(at)} /\ orphans' = orphans
    BY DEF DestroyStop
  <2>3. QED
    BY <2>1, <2>2 DEF BossTypeOK, PastTypeOK
<1>4. QED
  BY <1>1, <1>2, <1>3
     DEF BossTypeOK, DestroyStop, CallTypeOK, KtTypeOK, SemTypeOK, SigTypeOK, kcqVars, sigVars

\* ... waits for its thread,
LEMMA TypeDestroyJoin == ASSUME BossTypeOK, DestroyJoin PROVE BossTypeOK'
<1>1. MainTypeOK'
  BY BossAssumption DEF BossTypeOK, DestroyJoin, OnMain, MainTypeOK
<1>2. QED
  BY <1>1
     DEF BossTypeOK, DestroyJoin, WrkTypeOK, CallTypeOK, KtTypeOK, SemTypeOK, SigTypeOK,
         PastTypeOK, kcqVars, pastVars, sigVars

\* ... and frees it.
LEMMA TypeDestroyFree == ASSUME BossTypeOK, DestroyFree PROVE BossTypeOK'
<1>1. MainTypeOK'
  BY BossAssumption DEF BossTypeOK, DestroyFree, OnMain, MainTypeOK
<1>2. WrkTypeOK'
  BY DEF BossTypeOK, DestroyFree, WrkTypeOK, Records
<1>3. QED
  BY <1>1, <1>2
     DEF BossTypeOK, DestroyFree, CallTypeOK, KtTypeOK, SemTypeOK, SigTypeOK, PastTypeOK,
         kcqVars, pastVars, sigVars

\* kcq_destroy sets the flag and posts,
LEMMA TypeKcqStop == ASSUME BossTypeOK, KcqStop PROVE BossTypeOK'
<1>1. MainTypeOK'
  BY BossAssumption DEF BossTypeOK, KcqStop, OnMain, MainTypeOK
<1>2. SemTypeOK'
  BY FS_CardinalityType, BossAssumption DEF BossTypeOK, KcqStop, SemTypeOK
<1>3. QED
  BY <1>1, <1>2
     DEF BossTypeOK, KcqStop, WrkTypeOK, CallTypeOK, KtTypeOK, SigTypeOK, PastTypeOK, kcqVars,
         pastVars, sigVars

\* ... and waits for the threads.
LEMMA TypeKcqJoin == ASSUME BossTypeOK, KcqJoin PROVE BossTypeOK'
<1>1. MainTypeOK'
  BY BossAssumption DEF BossTypeOK, KcqJoin, OnMain, MainTypeOK
<1>2. QED
  BY <1>1
     DEF BossTypeOK, KcqJoin, WrkTypeOK, CallTypeOK, KtTypeOK, SemTypeOK, SigTypeOK, PastTypeOK,
         kcqVars, pastVars, sigVars

\* A signal arrives; its handler goes through the workers,
LEMMA TypeSignal == ASSUME BossTypeOK, Signal PROVE BossTypeOK'
<1>1. SigTypeOK'
  BY BossAssumption DEF BossTypeOK, Signal, SigTypeOK
<1>2. QED
  BY <1>1
     DEF BossTypeOK, Signal, MainTypeOK, WrkTypeOK, CallTypeOK, KtTypeOK, SemTypeOK, PastTypeOK,
         kcqVars, mainVars, pastVars

\* ... sets the flag of each,
LEMMA TypeSignalFlag == ASSUME BossTypeOK, SignalFlag PROVE BossTypeOK'
<1>1. SigTypeOK'
  <2>1. sigAt' \in 0 .. N
    BY BossAssumption DEF BossTypeOK, SignalFlag, SigTypeOK
  <2>2. QED
    BY <2>1 DEF BossTypeOK, SignalFlag, SigTypeOK
<1>2. WrkTypeOK'
  <2>1. wrk' = wrk \/ wrk' = [wrk EXCEPT ![sigAt].stop = TRUE]
    BY DEF SignalFlag
  <2>2. wrk \in [Workers -> Records]
    BY DEF BossTypeOK, WrkTypeOK
  <2>3. [wrk EXCEPT ![sigAt].stop = TRUE] \in [Workers -> Records]
    BY <2>2 DEF Records
  <2>4. QED
    BY <2>1, <2>2, <2>3 DEF WrkTypeOK
<1>3. PastTypeOK'
  BY DEF BossTypeOK, SignalFlag, PastTypeOK
<1>4. QED
  BY <1>1, <1>2, <1>3
     DEF BossTypeOK, SignalFlag, MainTypeOK, CallTypeOK, KtTypeOK, SemTypeOK, kcqVars, mainVars

\* ... and posts its event.
LEMMA TypeSignalPost == ASSUME BossTypeOK, SignalPost PROVE BossTypeOK'
<1>1. SigTypeOK'
  <2>1. sigAt' \in 0 .. N
    BY BossAssumption DEF BossTypeOK, SignalPost, SigTypeOK
  <2>2. QED
    BY <2>1 DEF BossTypeOK, SignalPost, SigTypeOK
<1>2. WrkTypeOK'
  BY DEF BossTypeOK, SignalPost, WrkTypeOK, Records
<1>3. QED
  BY <1>1, <1>2
     DEF BossTypeOK, SignalPost, MainTypeOK, CallTypeOK, KtTypeOK, SemTypeOK, PastTypeOK,
         kcqVars, mainVars, pastVars

\* A worker gets to its loop,
LEMMA TypeWorkerStart == ASSUME BossTypeOK, NEW w \in Workers, WorkerStart(w) PROVE BossTypeOK'
<1>1. WrkTypeOK'
  BY DEF BossTypeOK, WorkerStart, WrkTypeOK, Records
<1>2. QED
  BY <1>1
     DEF BossTypeOK, WorkerStart, MainTypeOK, CallTypeOK, KtTypeOK, SemTypeOK, SigTypeOK,
         PastTypeOK, kcqVars, mainVars, pastVars, sigVars

\* ... or does not,
LEMMA TypeWorkerFails == ASSUME BossTypeOK, NEW w \in Workers, WorkerFails(w) PROVE BossTypeOK'
<1>1. WrkTypeOK'
  <2>1. PICK q \in BOOLEAN : wrk' = [wrk EXCEPT ![w] = [@ EXCEPT !.kq = q, !.pc = "returned"]]
    BY DEF WorkerFails
  <2>2. wrk \in [Workers -> Records]
    BY DEF BossTypeOK, WrkTypeOK
  <2>3. [wrk[w] EXCEPT !.kq = q, !.pc = "returned"] \in Records
    BY <2>2 DEF Records
  <2>4. QED
    BY <2>1, <2>2, <2>3 DEF WrkTypeOK
<1>2. QED
  BY <1>1
     DEF BossTypeOK, WorkerFails, MainTypeOK, CallTypeOK, KtTypeOK, SemTypeOK, SigTypeOK,
         PastTypeOK, kcqVars, mainVars, pastVars, sigVars

\* ... looks at its flag,
LEMMA TypeWorkerHead == ASSUME BossTypeOK, NEW w \in Workers, WorkerHead(w) PROVE BossTypeOK'
<1>1. WrkTypeOK'
  BY DEF BossTypeOK, WorkerHead, WrkTypeOK, Records
<1>2. PastTypeOK'
  BY DEF BossTypeOK, WorkerHead, PastTypeOK
<1>3. QED
  BY <1>1, <1>2
     DEF BossTypeOK, WorkerHead, MainTypeOK, CallTypeOK, KtTypeOK, SemTypeOK, SigTypeOK, kcqVars,
         mainVars, sigVars

\* ... is woken up,
LEMMA TypeWorkerWake == ASSUME BossTypeOK, NEW w \in Workers, WorkerWake(w) PROVE BossTypeOK'
<1>1. WrkTypeOK'
  BY DEF BossTypeOK, WorkerWake, WrkTypeOK, Records
<1>2. QED
  BY <1>1
     DEF BossTypeOK, WorkerWake, MainTypeOK, CallTypeOK, KtTypeOK, SemTypeOK, SigTypeOK,
         PastTypeOK, kcqVars, mainVars, pastVars, sigVars

\* ... takes a completed call,
LEMMA TypeWorkerDone == ASSUME BossTypeOK, NEW w \in Workers, WorkerDone(w) PROVE BossTypeOK'
<1>1. WrkTypeOK'
  BY DEF BossTypeOK, WorkerDone, WrkTypeOK, Records
<1>2. CallTypeOK'
  BY DEF BossTypeOK, WorkerDone, CallTypeOK
<1>3. QED
  BY <1>1, <1>2
     DEF BossTypeOK, WorkerDone, MainTypeOK, KtTypeOK, SemTypeOK, SigTypeOK, PastTypeOK, kcqVars,
         mainVars, pastVars, sigVars

\* ... handles an event of its own,
LEMMA TypeWorkerEvent == ASSUME BossTypeOK, NEW w \in Workers, WorkerEvent(w) PROVE BossTypeOK'
<1>1. WrkTypeOK'
  BY DEF BossTypeOK, WorkerEvent, WrkTypeOK, Records
<1>2. QED
  BY <1>1
     DEF BossTypeOK, WorkerEvent, MainTypeOK, CallTypeOK, KtTypeOK, SemTypeOK, SigTypeOK,
         PastTypeOK, kcqVars, mainVars, pastVars, sigVars

\* ... queues a call,
LEMMA TypeWorkerCall == ASSUME BossTypeOK, NEW w \in Workers, WorkerCall(w) PROVE BossTypeOK'
<1>1. CallTypeOK'
  BY DEF BossTypeOK, WorkerCall, CallTypeOK
<1>2. SemTypeOK'
  BY DEF BossTypeOK, WorkerCall, SemTypeOK
<1>3. QED
  BY <1>1, <1>2
     DEF BossTypeOK, WorkerCall, MainTypeOK, WrkTypeOK, KtTypeOK, SigTypeOK, PastTypeOK, kcqVars,
         mainVars, pastVars, sigVars

\* ... and writes a log line.
LEMMA TypeWorkerLog == ASSUME BossTypeOK, NEW w \in Workers, WorkerLog(w) PROVE BossTypeOK'
<1>1. PastTypeOK'
  BY DEF BossTypeOK, WorkerLog, PastTypeOK
<1>2. QED
  BY <1>1
     DEF BossTypeOK, WorkerLog, MainTypeOK, WrkTypeOK, CallTypeOK, KtTypeOK, SemTypeOK,
         SigTypeOK, kcqVars, mainVars, sigVars

\* A kcall thread looks at its flag,
LEMMA TypeKcqHead == ASSUME BossTypeOK, NEW t \in KThreads, KcqHead(t) PROVE BossTypeOK'
<1>1. KtTypeOK'
  BY DEF BossTypeOK, KcqHead, KtTypeOK
<1>2. QED
  BY <1>1
     DEF BossTypeOK, KcqHead, MainTypeOK, WrkTypeOK, CallTypeOK, SemTypeOK, SigTypeOK,
         PastTypeOK, kcqVars, mainVars, pastVars, sigVars

\* ... takes a call,
LEMMA TypeKcqTake == ASSUME BossTypeOK, NEW t \in KThreads, KcqTake(t) PROVE BossTypeOK'
<1>1. KtTypeOK'
  BY DEF BossTypeOK, KcqTake, KtTypeOK, InSq, Executing
<1>2. CallTypeOK'
  <2>1. PICK x \in AllCalls : call' = [call EXCEPT ![x[1]][x[2]] = "exec"]
    BY DEF KcqTake, InSq
  <2>2. x[1] \in Workers
    BY DEF AllCalls
  <2>3. QED
    BY <2>1, <2>2 DEF BossTypeOK, CallTypeOK
<1>3. QED
  BY <1>1, <1>2
     DEF BossTypeOK, KcqTake, MainTypeOK, WrkTypeOK, SemTypeOK, SigTypeOK, PastTypeOK, kcqVars,
         mainVars, pastVars, sigVars

\* ... completes it,
LEMMA TypeKcqDone == ASSUME BossTypeOK, NEW t \in KThreads, KcqDone(t) PROVE BossTypeOK'
<1>1. KtTypeOK'
  BY DEF BossTypeOK, KcqDone, KtTypeOK, NotThere
<1>2. CallTypeOK'
  BY DEF BossTypeOK, KcqDone, CallTypeOK
<1>3. WrkTypeOK'
  <2>1. wrk \in [Workers -> Records]
    BY DEF BossTypeOK, WrkTypeOK
  <2>2. PICK v : wrk' = [wrk EXCEPT ![v].sig = ~Polling]
    BY DEF KcqDone
  <2>3. \A u \in Workers : [wrk[u] EXCEPT !.sig = ~Polling] \in Records
    BY <2>1 DEF Records
  <2>4. QED
    BY <2>1, <2>2, <2>3 DEF WrkTypeOK
<1>4. PastTypeOK'
  BY DEF BossTypeOK, KcqDone, PastTypeOK, KtTypeOK, Handler
<1>5. QED
  BY <1>1, <1>2, <1>3, <1>4
     DEF BossTypeOK, KcqDone, MainTypeOK, SemTypeOK, SigTypeOK, kcqVars, mainVars, sigVars

\* ... finds the queue empty,
LEMMA TypeKcqEmpty == ASSUME BossTypeOK, NEW t \in KThreads, KcqEmpty(t) PROVE BossTypeOK'
<1>1. KtTypeOK'
  BY DEF BossTypeOK, KcqEmpty, KtTypeOK
<1>2. QED
  BY <1>1
     DEF BossTypeOK, KcqEmpty, MainTypeOK, WrkTypeOK, CallTypeOK, SemTypeOK, SigTypeOK,
         PastTypeOK, kcqVars, mainVars, pastVars, sigVars

\* ... and is woken up.
LEMMA TypeKcqWoken == ASSUME BossTypeOK, NEW t \in KThreads, KcqWoken(t) PROVE BossTypeOK'
<1>1. KtTypeOK'
  BY DEF BossTypeOK, KcqWoken, KtTypeOK
<1>2. SemTypeOK'
  BY DEF BossTypeOK, KcqWoken, SemTypeOK
<1>3. QED
  BY <1>1, <1>2
     DEF BossTypeOK, KcqWoken, MainTypeOK, WrkTypeOK, CallTypeOK, SigTypeOK, PastTypeOK,
         mainVars, pastVars, sigVars

-----------------------------------------------------------------------------
(* The parts of ShutdownInv, step by step *)

\* The worker `w` gets to `p`; no memory is freed.
Goes(w, p) ==
    \A v \in Workers : /\ wrk'[v].freed = wrk[v].freed
                       /\ wrk'[v].pc = IF v = w THEN p ELSE wrk[v].pc

\* No worker moves, and no memory is freed.
Stays == \A v \in Workers : wrk'[v].freed = wrk[v].freed /\ wrk'[v].pc = wrk[v].pc

\* A worker thread that goes on does not disturb where the main thread is, nor what is freed.
LEMMA GoesFits ==
    ASSUME ShutdownInv, NEW w \in Workers, NEW p \in {"head", "wait", "handle", "returned"},
           wrk[w].pc \notin {"none", "returned"}, Goes(w, p), UNCHANGED mainVars
    PROVE  MainFits' /\ FreedFits'
<1>1. MainFits'
  <2>1. main = "free" => at \in Workers
    BY DEF ShutdownInv, BossTypeOK, MainTypeOK, MainFits, Workers
  <2>2. QED
    BY <2>1 DEF ShutdownInv, MainFits, Goes, mainVars
<1>2. FreedFits'
  BY DEF ShutdownInv, FreedFits, Goes, mainVars
<1>3. QED
  BY <1>1, <1>2

\* Neither does a step in which every worker thread stays where it is.
LEMMA StaysFits ==
    ASSUME ShutdownInv, Stays, UNCHANGED mainVars
    PROVE  MainFits' /\ FreedFits'
<1>1. MainFits'
  <2>1. main = "free" => at \in Workers
    BY DEF ShutdownInv, BossTypeOK, MainTypeOK, MainFits, Workers
  <2>2. QED
    BY <2>1 DEF ShutdownInv, MainFits, Stays, mainVars
<1>2. FreedFits'
  BY DEF ShutdownInv, FreedFits, Stays, mainVars
<1>3. QED
  BY <1>1, <1>2

\* The known ones stay known.
LEMMA KnownKept ==
    ASSUME BossTypeOK, BossTypeOK', orphans \subseteq orphans', lateSignal => lateSignal'
    PROVE  Known \subseteq Known'
  BY DEF Known, BossTypeOK, SigTypeOK

\* Steps of the main thread that change only where it is.
LEMMA OnlyMainMoves ==
    ASSUME ShutdownInv, BossTypeOK', sigAt = 0, MainFits',
           UNCHANGED <<wrk, call, kt, sigVars, pastVars>>,
           main' \in {"kcq_start", "wrk_start", "run"} =>
               main \in {"kcq_start", "wrk_start", "run"},
           main' \in {"stop", "join", "free"} =>
               main \in {"wrk_start", "run"} \/ (main = "join" /\ at' = at)
    PROVE  ShutdownInv'
<1>1. FreedFits'
  BY DEF ShutdownInv, FreedFits
<1>2. HandlerFits' /\ CallsFit' /\ ExecFits'
  BY DEF ShutdownInv, HandlerFits, CallsFit, ExecFits, sigVars, pastVars
<1>3. touched' \subseteq Known'
  BY DEF ShutdownInv, Known, sigVars, pastVars
<1>4. QED
  BY <1>1, <1>2, <1>3 DEF ShutdownInv

\* While kcall threads are created there is no worker.
LEMMA ShutKcqStart == ASSUME ShutdownInv, KcqStart PROVE ShutdownInv'
<1>1. BossTypeOK'
  BY TypeKcqStart DEF ShutdownInv
<1>2. MainFits' /\ sigAt = 0 /\ main = "kcq_start" /\ UNCHANGED <<wrk, call, sigVars, pastVars>>
  BY BossAssumption DEF ShutdownInv, MainFits, KcqStart, OnMain, Destroying, mainVars
<1>3. FreedFits'
  BY <1>2 DEF ShutdownInv, FreedFits
<1>4. ExecFits'
  BY <1>2 DEF ShutdownInv, ExecFits, KcqStart, mainVars, BossTypeOK, KtTypeOK
<1>5. HandlerFits' /\ CallsFit'
  BY <1>2 DEF ShutdownInv, HandlerFits, CallsFit, sigVars, pastVars
<1>6. touched' \subseteq Known'
  BY <1>2 DEF ShutdownInv, Known, sigVars, pastVars
<1>7. QED
  BY <1>1, <1>2, <1>3, <1>4, <1>5, <1>6 DEF ShutdownInv

\* While workers are created, those that follow are not there yet.
LEMMA ShutWrkStart == ASSUME ShutdownInv, WrkStart PROVE ShutdownInv'
<1>1. BossTypeOK' /\ sigAt = 0 /\ main = "wrk_start"
      /\ UNCHANGED <<call, kcqVars, sigVars, pastVars>>
  BY TypeWrkStart DEF ShutdownInv, WrkStart, OnMain
<1>2. CASE at <= N /\ wrk' = [wrk EXCEPT ![at].pc = "start"] /\ at' = at + 1 /\ main' = main
  <2>1. at \in Workers /\ at # 1 /\ wrk[at].pc = "none"
    BY <1>1, <1>2 DEF ShutdownInv, BossTypeOK, MainTypeOK, MainFits, Workers
  <2>2. Goes(at, "start")
    BY <1>2, <2>1 DEF ShutdownInv, BossTypeOK, WrkTypeOK, Records, Goes
  <2>3. MainFits'
    <3>1. \A w \in Workers : w = 1 \/ w >= at + 1 => w # at
      BY <2>1 DEF Workers
    <3>2. \A w \in Workers : w = 1 \/ w >= at + 1 => wrk'[w].pc = "none"
      <4> SUFFICES ASSUME NEW w \in Workers, w = 1 \/ w >= at + 1 PROVE wrk'[w].pc = "none"
        OBVIOUS
      <4>1. w = 1 \/ w >= at
        BY <2>1 DEF Workers
      <4>2. QED
        BY <1>1, <2>2, <3>1, <4>1 DEF ShutdownInv, MainFits, Goes
    <3>3. at + 1 # 1
      BY <2>1 DEF Workers
    <3>4. QED
      BY <1>1, <1>2, <3>2, <3>3 DEF MainFits
  <2>4. CallsFit'
    BY <1>1, <2>1, <2>2 DEF ShutdownInv, CallsFit, Goes, pastVars
  <2>5. FreedFits'
    BY <1>1, <2>2 DEF ShutdownInv, FreedFits, Goes
  <2>6. QED
    BY <1>1, <1>2, <2>3, <2>4, <2>5
       DEF ShutdownInv, HandlerFits, ExecFits, Known, kcqVars, sigVars, pastVars
<1>3. CASE Destroying /\ UNCHANGED wrk
  <2>1. MainFits'
    BY <1>3, BossAssumption DEF Destroying, MainFits
  <2>2. QED
    BY <1>1, <1>3, <2>1, OnlyMainMoves DEF Destroying, kcqVars
<1>4. CASE at > N /\ main' = "run" /\ at' = 1 /\ wrk' = [wrk EXCEPT ![1].pc = "start"]
  <2>1. 1 \in Workers /\ wrk[1].pc = "none"
    BY <1>1, BossAssumption DEF ShutdownInv, MainFits, Workers
  <2>2. Goes(1, "start")
    BY <1>4, <2>1 DEF ShutdownInv, BossTypeOK, WrkTypeOK, Records, Goes
  <2>3. MainFits'
    BY <1>4 DEF MainFits
  <2>4. CallsFit'
    <3> SUFFICES ASSUME NEW v \in Workers, NEW c \in Calls
                 PROVE  /\ wrk'[v].pc \in {"none", "start"} => call[v][c] = "idle"
                        /\ wrk'[v].pc = "returned" /\ call[v][c] # "idle" => <<v, c>> \in orphans
      BY <1>1 DEF CallsFit, pastVars
    <3>1. CASE v = 1
      BY <2>1, <2>2, <3>1 DEF ShutdownInv, CallsFit, Goes
    <3>2. CASE v # 1
      BY <2>2, <3>2 DEF ShutdownInv, CallsFit, Goes
    <3>3. QED
      BY <3>1, <3>2
  <2>5. FreedFits'
    BY <1>1, <2>2 DEF ShutdownInv, FreedFits, Goes
  <2>6. QED
    BY <1>1, <1>4, <2>3, <2>4, <2>5
       DEF ShutdownInv, HandlerFits, ExecFits, Known, kcqVars, sigVars, pastVars
<1>5. QED
  BY <1>2, <1>3, <1>4 DEF WrkStart

\* The shutdown begins when worker 1 has left its loop.
LEMMA ShutRunEnds == ASSUME ShutdownInv, RunEnds PROVE ShutdownInv'
<1>1. BossTypeOK' /\ sigAt = 0 /\ main = "run" /\ main' = "stop" /\ at' = 1
      /\ UNCHANGED <<wrk, call, kt, sigVars, pastVars>>
  BY TypeRunEnds DEF ShutdownInv, RunEnds, OnMain, Destroying, kcqVars
<1>2. MainFits'
  BY <1>1, BossAssumption DEF MainFits
<1>3. QED
  BY <1>1, <1>2, OnlyMainMoves

\* A worker that is told to stop is not freed by that.
LEMMA ShutDestroyStop == ASSUME ShutdownInv, DestroyStop PROVE ShutdownInv'
<1>1. BossTypeOK' /\ sigAt = 0 /\ main = "stop" /\ main' = "join" /\ at' = at
      /\ UNCHANGED <<call, kt, sigVars, orphans>>
  BY TypeDestroyStop DEF ShutdownInv, DestroyStop, OnMain, kcqVars
<1>2. at \in Workers
  BY <1>1 DEF ShutdownInv, BossTypeOK, MainTypeOK, MainFits, Workers
<1>3. Stays
  BY <1>2 DEF ShutdownInv, BossTypeOK, WrkTypeOK, Records, DestroyStop, Stays
<1>4. MainFits' /\ FreedFits'
  BY <1>1, <1>3 DEF ShutdownInv, MainFits, FreedFits, Stays
<1>5. CallsFit'
  BY <1>1, <1>3 DEF ShutdownInv, CallsFit, Stays
<1>6. touched' \subseteq Known'
  <2>1. wrk[1].freed => at # 1
    BY <1>1, BossAssumption DEF ShutdownInv, FreedFits, Workers
  <2>2. wrk[1].freed => Logger(at) \in Known
    BY <1>2, <2>1 DEF Known
  <2>3. touched' \subseteq touched \cup {Logger(at)} /\ (~wrk[1].freed => touched' = touched)
    BY DEF DestroyStop
  <2>4. touched' \subseteq Known
    BY <2>2, <2>3 DEF ShutdownInv
  <2>5. QED
    BY <1>1, <2>4 DEF Known, sigVars
<1>7. QED
  BY <1>1, <1>4, <1>5, <1>6 DEF ShutdownInv, HandlerFits, ExecFits, sigVars

\* What boss_destroy waits for is that the thread is over.
LEMMA ShutDestroyJoin == ASSUME ShutdownInv, DestroyJoin PROVE ShutdownInv'
<1>1. BossTypeOK' /\ sigAt = 0 /\ main = "join" /\ main' = "free" /\ at' = at
      /\ wrk[at].pc \in {"none", "returned"} /\ UNCHANGED <<wrk, call, kt, sigVars, pastVars>>
  BY TypeDestroyJoin DEF ShutdownInv, DestroyJoin, OnMain, kcqVars
<1>2. MainFits'
  BY <1>1 DEF ShutdownInv, MainFits
<1>3. QED
  BY <1>1, <1>2, OnlyMainMoves

\* So it frees a worker whose thread is over.
LEMMA ShutDestroyFree == ASSUME ShutdownInv, DestroyFree PROVE ShutdownInv'
<1>1. BossTypeOK' /\ sigAt = 0 /\ main = "free" /\ wrk' = [wrk EXCEPT ![at].freed = TRUE]
      /\ UNCHANGED <<call, kt, sigVars, pastVars>>
  BY TypeDestroyFree DEF ShutdownInv, DestroyFree, OnMain, kcqVars
<1>2. at \in Workers /\ wrk[at].pc \in {"none", "returned"}
  BY <1>1 DEF ShutdownInv, BossTypeOK, MainTypeOK, MainFits, Workers
<1>3. \A v \in Workers : /\ wrk'[v].pc = wrk[v].pc
                         /\ v # at => wrk'[v].freed = wrk[v].freed
  BY <1>1 DEF ShutdownInv, BossTypeOK, WrkTypeOK, Records
<1>4. main' \in {"stop", "kcq_stop"} /\ (main' = "stop" => at < N /\ at' = at + 1)
  BY DEF DestroyFree
<1>5. MainFits'
  BY <1>2, <1>4, BossAssumption DEF MainFits, Workers
<1>6. FreedFits'
  <2>1. \A v \in Workers : wrk[v].freed => v < at
    BY <1>1 DEF ShutdownInv, FreedFits
  <2>2. \A v \in Workers : wrk'[v].freed => v <= at
    BY <1>2, <1>3, <2>1 DEF Workers
  <2>3. main' \in {"stop", "join", "free"} => \A v \in Workers : wrk'[v].freed => v < at'
    BY <1>2, <1>4, <2>2, BossAssumption DEF Workers
  <2>4. QED
    BY <1>2, <1>3, <1>4, <2>3 DEF ShutdownInv, FreedFits
<1>7. CallsFit'
  <2>1. call' = call /\ orphans' = orphans
    BY <1>1 DEF pastVars
  <2>2. CallsFit
    BY DEF ShutdownInv
  <2>3. QED
    BY <1>3, <2>1, <2>2 DEF CallsFit
<1>8. QED
  BY <1>1, <1>5, <1>6, <1>7 DEF ShutdownInv, HandlerFits, ExecFits, Known, sigVars, pastVars

\* The kcall threads are stopped after that.
LEMMA ShutKcqEnds == ASSUME ShutdownInv, KcqStop \/ KcqJoin PROVE ShutdownInv'
<1>1. BossTypeOK' /\ sigAt = 0 /\ main' \in {"kcq_join", "exit"}
      /\ UNCHANGED <<wrk, call, kt, sigVars, pastVars>>
  BY TypeKcqStop, TypeKcqJoin DEF ShutdownInv, KcqStop, KcqJoin, OnMain, kcqVars
<1>2. MainFits'
  BY <1>1 DEF MainFits
<1>3. QED
  BY <1>1, <1>2, OnlyMainMoves

\* A signal after the loops is a late one.
LEMMA ShutSignal == ASSUME ShutdownInv, Signal PROVE ShutdownInv'
<1>1. BossTypeOK' /\ UNCHANGED <<mainVars, wrk, call, kcqVars, pastVars>>
  BY TypeSignal DEF ShutdownInv, Signal
<1>2. lateSignal' = (lateSignal \/ main # "run")
  BY DEF Signal
<1>3. HandlerFits'
  BY <1>1, <1>2 DEF HandlerFits, BossTypeOK, SigTypeOK, mainVars
<1>4. touched' \subseteq Known'
  BY <1>1, <1>2, KnownKept DEF ShutdownInv, pastVars
<1>5. QED
  BY <1>1, <1>3, <1>4
     DEF ShutdownInv, MainFits, FreedFits, CallsFit, ExecFits, mainVars, kcqVars, pastVars

\* The handler writes to freed workers only if it is late.
LEMMA ShutSignalFlag == ASSUME ShutdownInv, SignalFlag PROVE ShutdownInv'
<1>1. BossTypeOK' /\ sigAt # 0 /\ UNCHANGED <<mainVars, call, kcqVars, lateSignal, orphans>>
  BY TypeSignalFlag DEF ShutdownInv, SignalFlag
<1>2. sigAt \in Workers
  BY <1>1, BossAssumption DEF ShutdownInv, BossTypeOK, SigTypeOK, Workers
<1>3. Stays
  BY <1>2 DEF ShutdownInv, BossTypeOK, WrkTypeOK, Records, SignalFlag, Stays
<1>4. MainFits' /\ FreedFits'
  BY <1>1, <1>3, StaysFits
<1>5. CallsFit'
  BY <1>1, <1>3 DEF ShutdownInv, CallsFit, Stays
<1>6. HandlerFits'
  BY <1>1 DEF ShutdownInv, HandlerFits, BossTypeOK, SigTypeOK, mainVars
<1>7. touched' \subseteq Known'
  <2>1. wrk[sigAt].freed \/ wrk[1].freed => lateSignal
    BY <1>1, <1>2, BossAssumption DEF ShutdownInv, FreedFits, HandlerFits, Workers
  <2>2. /\ touched' \subseteq touched \cup {Handler}
        /\ ~wrk[sigAt].freed /\ ~wrk[1].freed => touched' = touched
    BY DEF SignalFlag
  <2>3. QED
    BY <1>1, <2>1, <2>2 DEF ShutdownInv, Known
<1>8. QED
  BY <1>1, <1>4, <1>5, <1>6, <1>7 DEF ShutdownInv, ExecFits, kcqVars

\* So does its post.
LEMMA ShutSignalPost == ASSUME ShutdownInv, SignalPost PROVE ShutdownInv'
<1>1. BossTypeOK' /\ sigAt # 0 /\ UNCHANGED <<mainVars, call, kcqVars, lateSignal, pastVars>>
  BY TypeSignalPost DEF ShutdownInv, SignalPost
<1>2. sigAt \in Workers
  BY <1>1, BossAssumption DEF ShutdownInv, BossTypeOK, SigTypeOK, Workers
<1>3. Stays
  BY <1>2 DEF ShutdownInv, BossTypeOK, WrkTypeOK, Records, SignalPost, Stays
<1>4. MainFits' /\ FreedFits'
  BY <1>1, <1>3, StaysFits
<1>5. CallsFit'
  BY <1>1, <1>3 DEF ShutdownInv, CallsFit, Stays, pastVars
<1>6. HandlerFits'
  BY <1>1 DEF ShutdownInv, HandlerFits, BossTypeOK, SigTypeOK, mainVars
<1>7. QED
  BY <1>1, <1>4, <1>5, <1>6 DEF ShutdownInv, ExecFits, Known, kcqVars, pastVars

\* Steps of a worker that leave the history and the other threads alone.
LEMMA WorkerGoes ==
    ASSUME ShutdownInv, BossTypeOK', NEW w \in Workers,
           NEW p \in {"head", "wait", "handle", "returned"},
           wrk[w].pc \notin {"none", "returned"}, Goes(w, p),
           UNCHANGED <<mainVars, kcqVars, sigVars, touched>>,
           CallsFit', ExecFits', orphans \subseteq orphans'
    PROVE  ShutdownInv'
<1>1. MainFits' /\ FreedFits'
  BY GoesFits
<1>2. HandlerFits'
  BY DEF ShutdownInv, HandlerFits, mainVars, sigVars
<1>3. touched' \subseteq Known'
  BY KnownKept DEF ShutdownInv, sigVars
<1>4. QED
  BY <1>1, <1>2, <1>3 DEF ShutdownInv

\* ... and that keep the calls, too.
LEMMA WorkerGoesOn ==
    ASSUME ShutdownInv, BossTypeOK', NEW w \in Workers, NEW p \in {"head", "wait", "handle"},
           wrk[w].pc \notin {"none", "returned"}, Goes(w, p),
           UNCHANGED <<mainVars, call, kcqVars, sigVars, pastVars>>
    PROVE  ShutdownInv'
<1>1. CallsFit'
  BY DEF ShutdownInv, CallsFit, Goes, pastVars
<1>2. ExecFits'
  BY DEF ShutdownInv, ExecFits, kcqVars
<1>3. QED
  BY <1>1, <1>2, WorkerGoes DEF pastVars

\* A worker that starts, is woken up or handles an event.
LEMMA ShutWorkerMoves ==
    ASSUME ShutdownInv, NEW w \in Workers, WorkerStart(w) \/ WorkerWake(w) \/ WorkerEvent(w)
    PROVE  ShutdownInv'
<1>1. CASE WorkerStart(w)
  <2>1. Goes(w, "head") /\ wrk[w].pc = "start"
    BY <1>1 DEF ShutdownInv, BossTypeOK, WrkTypeOK, Records, WorkerStart, Runs, Goes
  <2>2. QED
    BY <1>1, <2>1, TypeWorkerStart, WorkerGoesOn DEF ShutdownInv, WorkerStart
<1>2. CASE WorkerWake(w)
  <2>1. Goes(w, "handle") /\ wrk[w].pc = "wait"
    BY <1>2 DEF ShutdownInv, BossTypeOK, WrkTypeOK, Records, WorkerWake, Runs, Goes
  <2>2. QED
    BY <1>2, <2>1, TypeWorkerWake, WorkerGoesOn DEF ShutdownInv, WorkerWake
<1>3. CASE WorkerEvent(w)
  <2>1. Goes(w, "handle") /\ wrk[w].pc = "wait"
    BY <1>3 DEF ShutdownInv, BossTypeOK, WrkTypeOK, Records, WorkerEvent, Runs, Goes
  <2>2. QED
    BY <1>3, <2>1, TypeWorkerEvent, WorkerGoesOn DEF ShutdownInv, WorkerEvent
<1>4. QED
  BY <1>1, <1>2, <1>3

\* A worker that fails returns without calls.
LEMMA ShutWorkerFails == ASSUME ShutdownInv, NEW w \in Workers, WorkerFails(w) PROVE ShutdownInv'
<1>1. BossTypeOK' /\ wrk[w].pc = "start" /\ UNCHANGED <<mainVars, call, kcqVars, sigVars, pastVars>>
  BY TypeWorkerFails DEF ShutdownInv, WorkerFails, Runs
<1>2. Goes(w, "returned")
  BY DEF ShutdownInv, BossTypeOK, WrkTypeOK, Records, WorkerFails, Goes
<1>3. CallsFit'
  BY <1>1, <1>2 DEF ShutdownInv, CallsFit, Goes, pastVars
<1>4. ExecFits'
  BY <1>1 DEF ShutdownInv, ExecFits, kcqVars
<1>5. QED
  BY <1>1, <1>2, <1>3, <1>4, WorkerGoes DEF pastVars

\* A worker that leaves its loop leaves its calls in flight behind as orphans.
LEMMA ShutWorkerHead == ASSUME ShutdownInv, NEW w \in Workers, WorkerHead(w) PROVE ShutdownInv'
<1>1. BossTypeOK' /\ wrk[w].pc = "head" /\ UNCHANGED <<mainVars, call, kcqVars, sigVars, touched>>
  BY TypeWorkerHead DEF ShutdownInv, WorkerHead, Runs
<1>2. ExecFits'
  BY <1>1 DEF ShutdownInv, ExecFits, kcqVars
<1>3. CASE wrk[w].stop
  <2>1. Goes(w, "returned")
    BY <1>3 DEF ShutdownInv, BossTypeOK, WrkTypeOK, Records, WorkerHead, Goes
  <2>2. orphans' = orphans \cup {x \in AllCalls : x[1] = w /\ call[w][x[2]] # "idle"}
    BY <1>3 DEF WorkerHead
  <2>3. \A c \in Calls : call[w][c] # "idle" => <<w, c>> \in orphans'
    BY <2>2 DEF AllCalls
  <2>4. CallsFit'
    BY <1>1, <2>1, <2>2, <2>3 DEF ShutdownInv, CallsFit, Goes
  <2>5. QED
    BY <1>1, <1>2, <2>1, <2>2, <2>4, WorkerGoes
<1>4. CASE ~wrk[w].stop
  <2>1. Goes(w, "wait") /\ orphans' = orphans
    BY <1>4 DEF ShutdownInv, BossTypeOK, WrkTypeOK, Records, WorkerHead, Goes
  <2>2. QED
    BY <1>1, <2>1, WorkerGoesOn DEF pastVars
<1>5. QED
  BY <1>3, <1>4

\* A call that is taken is idle again.
LEMMA ShutWorkerDone == ASSUME ShutdownInv, NEW w \in Workers, WorkerDone(w) PROVE ShutdownInv'
<1>1. BossTypeOK' /\ wrk[w].pc = "handle" /\ UNCHANGED <<mainVars, kcqVars, sigVars, pastVars>>
  BY TypeWorkerDone DEF ShutdownInv, WorkerDone, Runs
<1>2. Goes(w, "head")
  BY DEF ShutdownInv, BossTypeOK, WrkTypeOK, Records, WorkerDone, Goes
<1>3. \A v \in Workers, c \in Calls :
         call'[v][c] = IF v = w /\ call[v][c] = "cq" THEN "idle" ELSE call[v][c]
  BY DEF ShutdownInv, BossTypeOK, CallTypeOK, WorkerDone
<1>4. CallsFit'
  <2> SUFFICES ASSUME NEW v \in Workers, NEW c \in Calls
               PROVE  /\ wrk'[v].pc \in {"none", "start"} => call'[v][c] = "idle"
                      /\ wrk'[v].pc = "returned" /\ call'[v][c] # "idle" => <<v, c>> \in orphans'
    BY DEF CallsFit
  <2>1. orphans' = orphans /\ wrk'[v].pc \in {wrk[v].pc, "head"}
    BY <1>1, <1>2 DEF Goes, pastVars
  <2>2. call'[v][c] \in {call[v][c], "idle"}
    BY <1>3
  <2>3. QED
    BY <2>1, <2>2 DEF ShutdownInv, CallsFit
<1>5. ExecFits'
  <2>1. \A x \in AllCalls : call[x[1]][x[2]] = "exec" => call'[x[1]][x[2]] = "exec"
    BY <1>3 DEF AllCalls
  <2>2. QED
    BY <1>1, <2>1 DEF ShutdownInv, ExecFits, kcqVars
<1>6. QED
  BY <1>1, <1>2, <1>4, <1>5, WorkerGoes DEF pastVars

\* Steps that move nobody and add to a call or to the history.
LEMMA ShutWorkerCall == ASSUME ShutdownInv, NEW w \in Workers, WorkerCall(w) PROVE ShutdownInv'
<1>1. BossTypeOK' /\ wrk[w].pc = "handle" /\ UNCHANGED <<mainVars, wrk, kt, sigVars, pastVars>>
  BY TypeWorkerCall DEF ShutdownInv, WorkerCall, Runs
<1>2. PICK d \in Calls : call[w][d] = "idle" /\ call' = [call EXCEPT ![w][d] = "sq"]
  BY DEF WorkerCall
<1>3. \A v \in Workers, c \in Calls :
         call'[v][c] = IF v = w /\ c = d THEN "sq" ELSE call[v][c]
  BY <1>2 DEF ShutdownInv, BossTypeOK, CallTypeOK
<1>4. CallsFit'
  <2>1. wrk' = wrk /\ orphans' = orphans /\ wrk[w].pc \notin {"none", "start", "returned"}
    BY <1>1 DEF pastVars
  <2>2. CallsFit
    BY DEF ShutdownInv
  <2>3. \A v \in Workers, c \in Calls : v # w => call'[v][c] = call[v][c]
    BY <1>3
  <2>4. QED
    BY <2>1, <2>2, <2>3 DEF CallsFit
<1>5. ExecFits'
  <2>1. \A x \in AllCalls : call[x[1]][x[2]] = "exec" => call'[x[1]][x[2]] = "exec"
    BY <1>2, <1>3 DEF AllCalls
  <2>2. QED
    BY <1>1, <2>1 DEF ShutdownInv, ExecFits
<1>6. QED
  BY <1>1, <1>4, <1>5
     DEF ShutdownInv, MainFits, FreedFits, HandlerFits, Known, mainVars, sigVars, pastVars

\* A log line reads the memory of worker 1, which only others can outlive.
LEMMA ShutWorkerLog == ASSUME ShutdownInv, NEW w \in Workers, WorkerLog(w) PROVE ShutdownInv'
<1>1. BossTypeOK' /\ UNCHANGED <<mainVars, wrk, call, kcqVars, sigVars, orphans>>
  BY TypeWorkerLog DEF ShutdownInv, WorkerLog
<1>2. touched' \subseteq Known'
  <2>1. 1 \in Workers
    BY BossAssumption DEF Workers
  <2>2. wrk[1].freed => w # 1
    BY <2>1 DEF ShutdownInv, FreedFits, WorkerLog
  <2>3. wrk[1].freed => Logger(w) \in Known
    BY <2>2 DEF Known
  <2>4. touched' \subseteq touched \cup {Logger(w)} /\ (~wrk[1].freed => touched' = touched)
    BY DEF WorkerLog
  <2>5. touched' \subseteq Known
    BY <2>3, <2>4 DEF ShutdownInv
  <2>6. QED
    BY <1>1, <2>5 DEF Known, sigVars
<1>3. QED
  BY <1>1, <1>2
     DEF ShutdownInv, MainFits, FreedFits, HandlerFits, CallsFit, ExecFits, mainVars, kcqVars,
         sigVars

\* A kcall thread that neither takes nor ends a call.
LEMMA ShutKcqMoves ==
    ASSUME ShutdownInv, NEW t \in KThreads, KcqHead(t) \/ KcqEmpty(t) \/ KcqWoken(t)
    PROVE  ShutdownInv'
<1>1. BossTypeOK' /\ UNCHANGED <<mainVars, wrk, call, sigVars, pastVars>>
  BY TypeKcqHead, TypeKcqEmpty, TypeKcqWoken DEF ShutdownInv, KcqHead, KcqEmpty, KcqWoken
<1>2. \A s \in KThreads : kt'[s].pc = "exec" => kt'[s] = kt[s]
  BY DEF ShutdownInv, BossTypeOK, KtTypeOK, KcqHead, KcqEmpty, KcqWoken
<1>3. ExecFits'
  BY <1>1, <1>2 DEF ShutdownInv, ExecFits
<1>4. QED
  BY <1>1, <1>3
     DEF ShutdownInv, MainFits, FreedFits, HandlerFits, CallsFit, Known, mainVars, sigVars,
         pastVars

\* A call that a thread takes was queued, and so no other thread's.
LEMMA ShutKcqTake == ASSUME ShutdownInv, NEW t \in KThreads, KcqTake(t) PROVE ShutdownInv'
<1>1. BossTypeOK' /\ UNCHANGED <<mainVars, wrk, sigVars, pastVars>>
  BY TypeKcqTake DEF ShutdownInv, KcqTake
<1>2. PICK x \in InSq : /\ kt' = [kt EXCEPT ![t] = Executing(x)]
                        /\ call' = [call EXCEPT ![x[1]][x[2]] = "exec"]
  BY DEF KcqTake
<1>3. x \in AllCalls /\ x[1] \in Workers /\ x[2] \in Calls /\ x = <<x[1], x[2]>>
      /\ call[x[1]][x[2]] = "sq"
  BY DEF InSq, AllCalls
<1>4. \A v \in Workers, c \in Calls :
         call'[v][c] = IF v = x[1] /\ c = x[2] THEN "exec" ELSE call[v][c]
  BY <1>2, <1>3 DEF ShutdownInv, BossTypeOK, CallTypeOK
<1>5. CallsFit'
  <2> SUFFICES ASSUME NEW v \in Workers, NEW c \in Calls
               PROVE  /\ wrk'[v].pc \in {"none", "start"} => call'[v][c] = "idle"
                      /\ wrk'[v].pc = "returned" /\ call'[v][c] # "idle" => <<v, c>> \in orphans
    BY <1>1 DEF CallsFit, pastVars
  <2>1. wrk'[v].pc = wrk[v].pc
    BY <1>1
  <2>2. call[v][c] = "idle" <=> call'[v][c] = "idle"
    BY <1>3, <1>4
  <2>3. QED
    BY <2>1, <2>2 DEF ShutdownInv, CallsFit
<1>6. /\ kt'[t].pc = "exec" /\ kt'[t].x = x
      /\ \A s \in KThreads : s # t => kt'[s] = kt[s]
  BY <1>2 DEF ShutdownInv, BossTypeOK, KtTypeOK, Executing
<1>7. ExecFits'
  <2>1. \A y \in AllCalls : call[y[1]][y[2]] = "exec" => call'[y[1]][y[2]] = "exec" /\ y # x
    BY <1>3, <1>4 DEF AllCalls
  <2>2. call'[x[1]][x[2]] = "exec"
    BY <1>3, <1>4
  <2>3. \A s \in KThreads : kt'[s].pc = "exec" =>
            kt'[s].x \in AllCalls /\ call'[kt'[s].x[1]][kt'[s].x[2]] = "exec"
    BY <1>3, <1>6, <2>1, <2>2 DEF ShutdownInv, ExecFits
  <2>4. \A s \in KThreads : s # t /\ kt'[s].pc = "exec" => kt'[s].x # x
    BY <1>6, <2>1 DEF ShutdownInv, ExecFits
  <2>5. QED
    BY <1>6, <2>3, <2>4 DEF ShutdownInv, ExecFits
<1>8. QED
  BY <1>1, <1>5, <1>7
     DEF ShutdownInv, MainFits, FreedFits, HandlerFits, Known, mainVars, sigVars, pastVars

\* What a completed call writes to is freed only if the call is an orphan.
LEMMA ShutKcqDone == ASSUME ShutdownInv, NEW t \in KThreads, KcqDone(t) PROVE ShutdownInv'
<1> DEFINE x == kt[t].x
<1>1. BossTypeOK' /\ kt[t].pc = "exec" /\ UNCHANGED <<mainVars, sigVars, orphans>>
  BY TypeKcqDone DEF ShutdownInv, KcqDone
<1>2. x \in AllCalls /\ x[1] \in Workers /\ x[2] \in Calls /\ x = <<x[1], x[2]>>
      /\ call[x[1]][x[2]] = "exec"
  BY <1>1 DEF ShutdownInv, ExecFits, AllCalls
<1>3. Stays
  BY <1>2 DEF ShutdownInv, BossTypeOK, WrkTypeOK, Records, KcqDone, Stays
<1>4. \A v \in Workers, c \in Calls :
         call'[v][c] = IF v = x[1] /\ c = x[2] THEN "cq" ELSE call[v][c]
  BY <1>2 DEF ShutdownInv, BossTypeOK, CallTypeOK, KcqDone
<1>5. CallsFit'
  <2> SUFFICES ASSUME NEW v \in Workers, NEW c \in Calls
               PROVE  /\ wrk'[v].pc \in {"none", "start"} => call'[v][c] = "idle"
                      /\ wrk'[v].pc = "returned" /\ call'[v][c] # "idle" => <<v, c>> \in orphans
    BY <1>1 DEF CallsFit
  <2>1. wrk'[v].pc = wrk[v].pc
    BY <1>3 DEF Stays
  <2>2. call[v][c] = "idle" <=> call'[v][c] = "idle"
    BY <1>2, <1>3, <1>4
  <2>3. QED
    BY <2>1, <2>2 DEF ShutdownInv, CallsFit
<1>6. /\ kt'[t].pc = "drain"
      /\ \A s \in KThreads : s # t => kt'[s] = kt[s]
  BY DEF ShutdownInv, BossTypeOK, KtTypeOK, KcqDone, NotThere
<1>7. ExecFits'
  <2>1. \A y \in AllCalls : call[y[1]][y[2]] = "exec" /\ y # x => call'[y[1]][y[2]] = "exec"
    BY <1>2, <1>4 DEF AllCalls
  <2>2. \A s \in KThreads : s # t /\ kt[s].pc = "exec" => kt[s].x # x
    BY <1>1 DEF ShutdownInv, ExecFits
  <2>3. QED
    BY <1>6, <2>1, <2>2 DEF ShutdownInv, ExecFits
<1>8. touched' \subseteq Known'
  <2>1. wrk[x[1]].freed => x \in orphans
    BY <1>2 DEF ShutdownInv, FreedFits, CallsFit
  <2>2. touched' \subseteq touched \cup {x} /\ (~wrk[x[1]].freed => touched' = touched)
    BY DEF KcqDone
  <2>3. touched' \subseteq Known
    BY <2>1, <2>2 DEF ShutdownInv, Known
  <2>4. QED
    BY <1>1, <2>3 DEF Known, sigVars
<1>9. MainFits' /\ FreedFits'
  BY <1>1, <1>3, StaysFits
<1>10. QED
  BY <1>1, <1>5, <1>7, <1>8, <1>9 DEF ShutdownInv, HandlerFits, mainVars, sigVars

\* No step at all.
LEMMA ShutStutters == ASSUME ShutdownInv, UNCHANGED vars PROVE ShutdownInv'
<1>1. BossTypeOK'
  BY TypeStutters DEF ShutdownInv
<1>2. QED
  BY <1>1 DEF ShutdownInv, MainFits, FreedFits, HandlerFits, CallsFit, ExecFits, Known,
              vars, mainVars, kcqVars, sigVars, pastVars

\* The process starts in a state that fits.
LEMMA ShutInit == Init => ShutdownInv
<1> SUFFICES ASSUME Init PROVE ShutdownInv
  OBVIOUS
<1>1. BossTypeOK
  <2>1. MainTypeOK
    BY BossAssumption DEF Init, MainTypeOK
  <2>2. WrkTypeOK /\ CallTypeOK
    BY DEF Init, WrkTypeOK, Records, CallTypeOK
  <2>3. KtTypeOK /\ SemTypeOK /\ PastTypeOK
    BY DEF Init, KtTypeOK, NotThere, SemTypeOK, PastTypeOK
  <2>4. SigTypeOK
    <3>1. sigAt \in 0 .. N /\ signals \in 0 .. MaxSignals
      BY BossAssumption DEF Init
    <3>2. sigPost \in BOOLEAN /\ lateSignal \in BOOLEAN
      BY DEF Init
    <3>3. QED
      BY <3>1, <3>2 DEF SigTypeOK
  <2>5. QED
    BY <2>1, <2>2, <2>3, <2>4 DEF BossTypeOK
<1>2. QED
  BY <1>1 DEF Init, ShutdownInv, MainFits, FreedFits, HandlerFits, CallsFit, ExecFits, Known,
     NotThere

\* Every step keeps the invariant of the shutdown.
LEMMA ShutNext == ShutdownInv /\ [Next]_vars => ShutdownInv'
<1> SUFFICES ASSUME ShutdownInv, [Next]_vars PROVE ShutdownInv'
  OBVIOUS
<1>1. CASE Main
  BY <1>1, ShutKcqStart, ShutWrkStart, ShutRunEnds, ShutDestroyStop, ShutDestroyJoin,
     ShutDestroyFree, ShutKcqEnds DEF Main
<1>2. CASE Signal \/ SigHandler
  BY <1>2, ShutSignal, ShutSignalFlag, ShutSignalPost DEF SigHandler
<1>3. ASSUME NEW w \in Workers, Worker(w) \/ WorkerEvent(w) \/ WorkerCall(w) \/ WorkerLog(w)
      PROVE  ShutdownInv'
  BY <1>3, ShutWorkerMoves, ShutWorkerFails, ShutWorkerHead, ShutWorkerDone, ShutWorkerCall,
     ShutWorkerLog DEF Worker
<1>4. ASSUME NEW t \in KThreads, KcqThread(t) PROVE ShutdownInv'
  BY <1>4, ShutKcqMoves, ShutKcqTake, ShutKcqDone DEF KcqThread
<1>5. CASE Rest \/ UNCHANGED vars
  BY <1>5, ShutStutters DEF Rest
<1>6. QED
  BY <1>1, <1>2, <1>3, <1>4, <1>5 DEF Next

(***************************************************************************)
(* The state has its types, for every number of workers, kcall threads,    *)
(* calls and signals: the counters of the threads stay in their ranges.    *)
(***************************************************************************)
THEOREM BossTypes == Spec => []BossTypeOK
<1>1. ShutdownInv => BossTypeOK
  BY DEF ShutdownInv
<1>2. QED
  BY ShutInit, ShutNext, <1>1, PTL DEF Spec

(***************************************************************************)
(* A worker's memory is freed when its thread is over, and used after that *)
(* only by calls that were in flight when their worker left its loop, by   *)
(* the handler of a late SIGINT and by log lines of workers 2 to N.        *)
(***************************************************************************)
THEOREM FreedMemoryKept == Spec => []FreedMemory
<1>1. ShutdownInv => FreedMemory
  BY DEF ShutdownInv, FreedFits, Known, FreedMemory
<1>2. QED
  BY ShutInit, ShutNext, <1>1, PTL DEF Spec

-----------------------------------------------------------------------------
(* The semaphore *)

\* The threads that may wait are finitely many.
LEMMA MayWaitFinite ==
    /\ IsFiniteSet(MayWait) /\ Cardinality(MayWait) \in Nat
    /\ Cardinality(MayWait) <= Cardinality(KThreads)
<1>1. MayWait \subseteq KThreads /\ IsFiniteSet(KThreads)
  BY BossAssumption DEF MayWait
<1>2. QED
  BY <1>1, FS_Subset, FS_CardinalityType

\* There is a post for a thread that waits when the threads are told to stop.
LEMMA StopReaches ==
    ASSUME WakeInv, kstop, NEW t \in KThreads, kt[t].pc = "wait"
    PROVE  sem > 0
<1>1. ~Polling /\ t \in MayWait
  BY DEF WakeInv, MayWait
<1>2. Cardinality(MayWait) > 0
  BY <1>1, MayWaitFinite, FS_EmptySet
<1>3. QED
  BY <1>1, <1>2, MayWaitFinite DEF WakeInv, BossTypeOK, SemTypeOK

\* Steps that leave the kcall threads alone and only add posts.
LEMMA WakeKept ==
    ASSUME WakeInv, BossTypeOK', UNCHANGED <<kt, kstop>>, sem' >= sem,
           InSq' # {} => InSq # {} \/ sem' > 0
    PROVE  WakeInv'
<1>1. NoCallForgotten'
  <2>1. CASE InSq # {}
    BY <2>1 DEF WakeInv, NoCallForgotten, BossTypeOK, SemTypeOK
  <2>2. CASE InSq = {}
    BY <2>2 DEF NoCallForgotten
  <2>3. QED
    BY <2>1, <2>2
<1>2. kstop' /\ ~Polling => sem' >= Cardinality(MayWait')
  BY MayWaitFinite DEF WakeInv, BossTypeOK, SemTypeOK, MayWait
<1>3. QED
  BY <1>1, <1>2 DEF WakeInv

\* Steps of a kcall thread after which another one, or itself, is at work, and that no
\* thread enters that may wait.
LEMMA WakeStep ==
    ASSUME WakeInv, BossTypeOK', UNCHANGED kstop,
           NoCallForgotten',
           Polling => \A t \in KThreads : kt'[t].pc # "wait",
           MayWait' = MayWait, sem' = sem
    PROVE  WakeInv'
  BY DEF WakeInv

\* A thread that goes on to the queue, or ends, needs no post.
LEMMA WakeKcqHead == ASSUME WakeInv, NEW t \in KThreads, KcqHead(t) PROVE WakeInv'
<1>1. BossTypeOK' /\ kt[t].pc = "check" /\ UNCHANGED <<sem, kstop, call>>
  BY TypeKcqHead DEF WakeInv, KcqHead
<1>2. /\ kt'[t].pc = IF kstop THEN "done" ELSE "drain"
      /\ \A s \in KThreads : s # t => kt'[s] = kt[s]
  BY DEF WakeInv, BossTypeOK, KtTypeOK, KcqHead
<1>3. Polling => \A s \in KThreads : kt'[s].pc # "wait"
  BY <1>2 DEF WakeInv
<1>4. CASE kstop
  <2>1. MayWait' = MayWait
    BY <1>1, <1>2, <1>4 DEF MayWait
  <2>2. NoCallForgotten'
    BY <1>1, <1>2, <1>4, StopReaches DEF NoCallForgotten
  <2>3. QED
    BY <1>1, <1>3, <2>1, <2>2, WakeStep
<1>5. CASE ~kstop
  <2>1. NoCallForgotten'
    BY <1>2, <1>5 DEF NoCallForgotten
  <2>2. QED
    BY <1>1, <1>3, <1>5, <2>1 DEF WakeInv
<1>6. QED
  BY <1>4, <1>5

\* A thread at work may go to sleep later only after it has found the queue empty.
LEMMA WakeKcqWork == ASSUME WakeInv, NEW t \in KThreads, KcqTake(t) \/ KcqDone(t) PROVE WakeInv'
<1>1. BossTypeOK' /\ kt[t].pc \in {"drain", "exec"} /\ UNCHANGED <<sem, kstop>>
  BY TypeKcqTake, TypeKcqDone DEF WakeInv, KcqTake, KcqDone
<1>2. /\ kt'[t].pc \in {"drain", "exec"}
      /\ \A s \in KThreads : s # t => kt'[s] = kt[s]
  <2>1. CASE KcqTake(t)
    <3>1. PICK x \in InSq : kt' = [kt EXCEPT ![t] = Executing(x)]
      BY <2>1 DEF KcqTake
    <3>2. QED
      BY <3>1 DEF WakeInv, BossTypeOK, KtTypeOK, Executing
  <2>2. CASE KcqDone(t)
    BY <2>2 DEF WakeInv, BossTypeOK, KtTypeOK, KcqDone, NotThere
  <2>3. QED
    BY <2>1, <2>2
<1>3. MayWait' = MayWait /\ NoCallForgotten' /\ (Polling => \A s \in KThreads : kt'[s].pc # "wait")
  BY <1>1, <1>2 DEF MayWait, NoCallForgotten, WakeInv
<1>4. QED
  BY <1>1, <1>3, WakeStep

\* A thread goes to sleep when no call is queued; in polling mode it does not sleep.
LEMMA WakeKcqEmpty == ASSUME WakeInv, NEW t \in KThreads, KcqEmpty(t) PROVE WakeInv'
<1>1. BossTypeOK' /\ kt[t].pc = "drain" /\ InSq' = {} /\ UNCHANGED <<sem, kstop>>
  BY TypeKcqEmpty DEF WakeInv, KcqEmpty, InSq
<1>2. /\ kt'[t].pc = IF Polling THEN "check" ELSE "wait"
      /\ \A s \in KThreads : s # t => kt'[s] = kt[s]
  BY DEF WakeInv, BossTypeOK, KtTypeOK, KcqEmpty
<1>3. NoCallForgotten' /\ (Polling => \A s \in KThreads : kt'[s].pc # "wait")
  BY <1>1, <1>2 DEF NoCallForgotten, WakeInv
<1>4. ~Polling => MayWait' = MayWait
  BY <1>1, <1>2 DEF MayWait
<1>5. QED
  BY <1>1, <1>3, <1>4 DEF WakeInv

\* A thread that takes a post is at work after it.
LEMMA WakeKcqWoken == ASSUME WakeInv, NEW t \in KThreads, KcqWoken(t) PROVE WakeInv'
<1>1. BossTypeOK' /\ kt[t].pc = "wait" /\ sem' = sem - 1 /\ UNCHANGED kstop
  BY TypeKcqWoken DEF WakeInv, KcqWoken
<1>2. /\ kt'[t].pc = "check"
      /\ \A s \in KThreads : s # t => kt'[s] = kt[s]
  BY DEF WakeInv, BossTypeOK, KtTypeOK, KcqWoken
<1>3. NoCallForgotten' /\ (Polling => \A s \in KThreads : kt'[s].pc # "wait")
  BY <1>2 DEF NoCallForgotten, WakeInv
<1>4. MayWait' = MayWait \ {t} /\ t \in MayWait
  BY <1>1, <1>2 DEF MayWait
<1>5. Cardinality(MayWait') = Cardinality(MayWait) - 1
  BY <1>4, MayWaitFinite, FS_RemoveElement
<1>6. kstop' /\ ~Polling => sem' >= Cardinality(MayWait')
  BY <1>1, <1>5, MayWaitFinite DEF WakeInv, BossTypeOK, SemTypeOK
<1>7. QED
  BY <1>1, <1>3, <1>6 DEF WakeInv

\* A new thread is at work.
LEMMA WakeKcqStart == ASSUME WakeInv, KcqStart, ~kstop PROVE WakeInv'
<1>1. BossTypeOK' /\ UNCHANGED <<sem, kstop, call>>
  BY TypeKcqStart DEF WakeInv, KcqStart
<1>2. CASE UNCHANGED kt
  BY <1>1, <1>2, WakeKept DEF InSq, BossTypeOK, SemTypeOK, WakeInv
<1>3. CASE \E t \in KThreads : kt[t].pc = "none" /\ kt' = [kt EXCEPT ![t].pc = "check"]
  <2>1. PICK t \in KThreads : kt[t].pc = "none" /\ kt' = [kt EXCEPT ![t].pc = "check"]
    BY <1>3
  <2>2. kt'[t].pc = "check" /\ \A s \in KThreads : s # t => kt'[s] = kt[s]
    BY <2>1 DEF WakeInv, BossTypeOK, KtTypeOK
  <2>3. NoCallForgotten' /\ (Polling => \A s \in KThreads : kt'[s].pc # "wait")
    BY <2>2 DEF NoCallForgotten, WakeInv
  <2>4. QED
    BY <1>1, <2>3 DEF WakeInv
<1>4. QED
  BY <1>2, <1>3 DEF KcqStart

\* kcq_destroy posts once for each thread.
LEMMA WakeKcqStop == ASSUME WakeInv, KcqStop PROVE WakeInv'
<1>1. BossTypeOK' /\ UNCHANGED <<kt, call>>
      /\ sem' = IF Polling THEN sem ELSE sem + Cardinality(KThreads)
  BY TypeKcqStop DEF WakeInv, KcqStop
<1>2. Cardinality(KThreads) \in Nat
  BY FS_CardinalityType, BossAssumption
<1>3. ~Polling => sem' >= sem /\ sem' >= Cardinality(MayWait)
  BY <1>1, <1>2, MayWaitFinite DEF WakeInv, BossTypeOK, SemTypeOK
<1>4. NoCallForgotten'
  <2>1. CASE Polling
    BY <1>1, <2>1 DEF WakeInv, NoCallForgotten
  <2>2. CASE ~Polling
    BY <1>1, <1>3, <2>2 DEF WakeInv, NoCallForgotten, InSq, BossTypeOK, SemTypeOK
  <2>3. QED
    BY <2>1, <2>2
<1>5. MayWait' = MayWait
  BY <1>1 DEF MayWait
<1>6. QED
  BY <1>1, <1>3, <1>4, <1>5 DEF WakeInv

\* Nobody stops the threads before they are all created.
StartsRunning == main = "kcq_start" => ~kstop

\* At first nobody sleeps and nothing is queued.
LEMMA WakeInit == Init => WakeInv /\ StartsRunning
<1> SUFFICES ASSUME Init PROVE WakeInv /\ StartsRunning
  OBVIOUS
<1>1. BossTypeOK /\ InSq = {} /\ ~kstop /\ \A t \in KThreads : kt[t].pc = "none"
  BY ShutInit DEF Init, ShutdownInv, InSq, NotThere, AllCalls
<1>2. QED
  BY <1>1 DEF WakeInv, NoCallForgotten, StartsRunning

\* kcall threads are created before anything stops them.
LEMMA StartsNext ==
    ASSUME BossTypeOK, StartsRunning, [Next]_vars
    PROVE  StartsRunning'
<1>1. main' = "kcq_start" => main = "kcq_start" /\ kstop' = kstop
  BY DEF Next, Main, KcqStart, WrkStart, RunEnds, DestroyStop, DestroyJoin, DestroyFree, KcqStop,
     KcqJoin, Destroying, OnMain, Signal, SigHandler, SignalFlag, SignalPost, Rest, Worker,
     WorkerStart, WorkerFails, WorkerHead, WorkerWake, WorkerEvent, WorkerCall, WorkerDone,
     WorkerLog, KcqThread, KcqHead, KcqTake, KcqDone, KcqEmpty, KcqWoken,
     vars, mainVars, kcqVars
<1>2. QED
  BY <1>1 DEF StartsRunning

\* The other threads, as far as the kcall threads see them.
LEMMA WakeOthers ==
    ASSUME WakeInv, BossTypeOK', UNCHANGED kcqVars, InSq' \subseteq InSq
    PROVE  WakeInv'
  BY WakeKept DEF WakeInv, BossTypeOK, SemTypeOK, kcqVars

\* Of the main thread only kcq_destroy matters.
LEMMA WakeMain == ASSUME WakeInv, StartsRunning, Main PROVE WakeInv'
<1>1. CASE KcqStart
  <2>1. ~kstop
    BY <1>1 DEF StartsRunning, KcqStart, OnMain
  <2>2. QED
    BY <1>1, <2>1, WakeKcqStart
<1>2. CASE WrkStart \/ RunEnds \/ DestroyStop \/ DestroyJoin \/ DestroyFree \/ KcqJoin
  <2>1. UNCHANGED kcqVars /\ UNCHANGED call
    BY <1>2 DEF WrkStart, RunEnds, DestroyStop, DestroyJoin, DestroyFree, KcqJoin
  <2>2. BossTypeOK'
    BY <1>2, TypeWrkStart, TypeRunEnds, TypeDestroyStop, TypeDestroyJoin, TypeDestroyFree,
       TypeKcqJoin DEF WakeInv
  <2>3. QED
    BY <2>1, <2>2, WakeOthers DEF InSq
<1>3. CASE KcqStop
  BY <1>3, WakeKcqStop
<1>4. QED
  BY <1>1, <1>2, <1>3 DEF Main

\* A worker that queues a call posts once; its other steps touch neither queue nor semaphore.
LEMMA WakeWorker ==
    ASSUME WakeInv, NEW w \in Workers, Worker(w) \/ WorkerEvent(w) \/ WorkerCall(w) \/ WorkerLog(w)
    PROVE  WakeInv'
<1>1. CASE WorkerStart(w) \/ WorkerFails(w) \/ WorkerHead(w) \/ WorkerWake(w) \/ WorkerEvent(w)
           \/ WorkerLog(w)
  <2>1. UNCHANGED kcqVars /\ UNCHANGED call
    BY <1>1 DEF WorkerStart, WorkerFails, WorkerHead, WorkerWake, WorkerEvent, WorkerLog
  <2>2. BossTypeOK'
    BY <1>1, TypeWorkerStart, TypeWorkerFails, TypeWorkerHead, TypeWorkerWake, TypeWorkerEvent,
       TypeWorkerLog DEF WakeInv
  <2>3. QED
    BY <2>1, <2>2, WakeOthers DEF InSq
<1>2. CASE WorkerDone(w)
  <2>1. UNCHANGED kcqVars /\ BossTypeOK'
    BY <1>2, TypeWorkerDone DEF WakeInv, WorkerDone
  <2>2. InSq' \subseteq InSq
    BY <1>2 DEF WorkerDone, InSq, AllCalls, WakeInv, BossTypeOK, CallTypeOK
  <2>3. QED
    BY <2>1, <2>2, WakeOthers
<1>3. CASE WorkerCall(w)
  <2>1. UNCHANGED <<kt, kstop>> /\ BossTypeOK' /\ sem' = IF Polling THEN sem ELSE sem + 1
    BY <1>3, TypeWorkerCall DEF WakeInv, WorkerCall
  <2>2. CASE Polling
    BY <2>1, <2>2 DEF WakeInv, NoCallForgotten
  <2>3. CASE ~Polling
    BY <2>1, <2>3, WakeKept DEF WakeInv, BossTypeOK, SemTypeOK
  <2>4. QED
    BY <2>2, <2>3
<1>4. QED
  BY <1>1, <1>2, <1>3 DEF Worker

\* Every step keeps the invariant of the semaphore.
LEMMA WakeNext == WakeInv /\ StartsRunning /\ [Next]_vars => WakeInv' /\ StartsRunning'
<1> SUFFICES ASSUME WakeInv, StartsRunning, [Next]_vars PROVE WakeInv' /\ StartsRunning'
  OBVIOUS
<1>1. StartsRunning'
  BY StartsNext DEF WakeInv
<1>0. SUFFICES WakeInv'
  BY <1>1
<1>2. CASE Main
  BY <1>2, WakeMain
<1>3. CASE Signal \/ SigHandler
  <2>1. UNCHANGED kcqVars /\ UNCHANGED call
    BY <1>3 DEF Signal, SigHandler, SignalFlag, SignalPost
  <2>2. BossTypeOK'
    BY <1>3, TypeSignal, TypeSignalFlag, TypeSignalPost DEF SigHandler, WakeInv
  <2>3. QED
    BY <2>1, <2>2, WakeOthers DEF InSq
<1>4. ASSUME NEW w \in Workers, Worker(w) \/ WorkerEvent(w) \/ WorkerCall(w) \/ WorkerLog(w)
      PROVE  WakeInv'
  BY <1>4, WakeWorker
<1>5. ASSUME NEW t \in KThreads, KcqThread(t) PROVE WakeInv'
  BY <1>5, WakeKcqHead, WakeKcqWork, WakeKcqEmpty, WakeKcqWoken DEF KcqThread
<1>6. CASE Rest \/ UNCHANGED vars
  <2>1. UNCHANGED vars
    BY <1>6 DEF Rest
  <2>2. BossTypeOK' /\ UNCHANGED kcqVars /\ UNCHANGED call
    BY <2>1, TypeStutters DEF vars, WakeInv
  <2>3. QED
    BY <2>2, WakeOthers DEF InSq
<1>7. QED
  BY <1>2, <1>3, <1>4, <1>5, <1>6 DEF Next

(***************************************************************************)
(* However the posts of the workers and the emptying of the queue by any   *)
(* number of kcall threads interleave, also while they are being stopped:  *)
(* when a call is queued and a thread sleeps, some thread is at work or    *)
(* the semaphore will wake one.                                            *)
(***************************************************************************)
THEOREM NoCallIsForgotten == Spec => []NoCallForgotten
<1>1. WakeInv => NoCallForgotten
  BY DEF WakeInv
<1>2. QED
  BY WakeInit, WakeNext, <1>1, PTL DEF Spec

=============================================================================
