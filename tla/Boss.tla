-------------------------------- MODULE Boss --------------------------------
(***************************************************************************)
(* The process around the workers (main.c, kcq.h): the main thread starts  *)
(* the kcall threads and the workers, becomes worker 1 itself, and takes   *)
(* everything down again; the signal handler stops the workers; the kcall  *)
(* threads share one submission queue and one semaphore.                   *)
(*                                                                         *)
(* A worker is here what these threads see of it (EventLoop has the rest): *)
(* its stop flag and kqpost, whether it sleeps, and its kernel calls.      *)
(* SIGINT is handled on the main thread, which worker 1 shares.            *)
(***************************************************************************)
EXTENDS Naturals, FiniteSets

CONSTANTS
    N,                      \* workers_n
    KThreads,               \* the kcall threads
    Calls,                  \* bound: kernel calls one worker can have in flight
    Polling,                \* polling_mode
    MaxSignals,             \* bound: SIGINTs
    MaxSem,                 \* bound: value of the semaphore at which no more calls are made
    MayHappen               \* bound: "thread" (creating one fails), "run" (alphahttpd_run fails)

ASSUME BossAssumption ==
    /\ N \in Nat \ {0}
    /\ IsFiniteSet(KThreads)
    /\ Polling \in BOOLEAN
    /\ MaxSignals \in Nat /\ MaxSem \in Nat
    /\ MayHappen \subseteq {"thread", "run"}

Workers == 1 .. N

VARIABLES
    main, at,               \* where the main thread is, and at which element of a list
    wrk,                    \* every worker: its thread, and the fields others touch
    call,                   \* the kernel calls: "idle", "sq", "exec" or "cq"
    sem, kstop,             \* kcq_sem, kcq_stop
    kt,                     \* every kcall thread: where it is
    sigAt, sigPost,         \* worker the signal handler is at (0: none); flag set, post to do
    signals,                \* SIGINTs so far
    orphans,                \* history: calls in flight when their worker left its loop
    touched,                \* history: who used a worker's memory after it was freed
    lateSignal              \* history: a SIGINT came when boss_destroy had begun

mainVars == <<main, at>>
kcqVars == <<sem, kstop, kt>>
sigVars == <<sigAt, sigPost, signals, lateSignal>>
pastVars == <<orphans, touched>>
vars == <<mainVars, wrk, call, kcqVars, sigVars, pastVars>>

Handler == <<0, 0>>
Logger(w) == <<w, 0>>       \* a log line of worker w, whoever's thread writes it
AllCalls == Workers \X Calls
InSq == {x \in AllCalls : call[x[1]][x[2]] = "sq"}

\* A kcall thread that executes x.
Executing(x) == [pc |-> "exec", x |-> x]
NotThere(pc) == [pc |-> pc, x |-> <<0, 0>>]

\* The state of `main` when boss and the semaphore exist and nothing is started.
Init ==
    /\ main = "kcq_start" /\ at = 1
    /\ wrk = [w \in Workers |-> [pc |-> "none", stop |-> FALSE, post |-> FALSE, sig |-> FALSE,
                                 kq |-> FALSE, freed |-> FALSE]]
    /\ call = [w \in Workers |-> [c \in Calls |-> "idle"]]
    /\ sem = 0 /\ kstop = FALSE
    /\ kt = [t \in KThreads |-> NotThere("none")]
    /\ sigAt = 0 /\ sigPost = FALSE /\ signals = 0 /\ lateSignal = FALSE
    /\ orphans = {} /\ touched = {}

\* The main thread runs its own code: neither worker 1 nor the handler.
OnMain(pc) == main = pc /\ sigAt = 0

-----------------------------------------------------------------------------
(* Start-up. *)

Destroying == main' = "stop" /\ at' = 1

\* kcq_start: the threads are created one after the other.
KcqStart ==
    /\ OnMain("kcq_start")
    /\ IF \A t \in KThreads : kt[t].pc # "none"
       THEN main' = "wrk_start" /\ at' = 2 /\ UNCHANGED kt
       ELSE \/ /\ \E t \in KThreads : kt[t].pc = "none" /\ kt' = [kt EXCEPT ![t].pc = "check"]
               /\ UNCHANGED mainVars
            \/ "thread" \in MayHappen /\ Destroying /\ UNCHANGED kt
    /\ UNCHANGED <<wrk, call, sem, kstop, sigVars, pastVars>>

\* Mutant: one worker too many is started.
WrkStartOneMore ==
    /\ OnMain("wrk_start")
    /\ \/ /\ at <= N + 1
          /\ wrk' = [w \in Workers |-> IF w = at THEN [wrk[w] EXCEPT !.pc = "start"] ELSE wrk[w]]
          /\ at' = at + 1 /\ UNCHANGED main
       \/ /\ at > N
          /\ main' = "run" /\ at' = 1
          /\ wrk' = [wrk EXCEPT ![1].pc = "start"]
    /\ UNCHANGED <<call, kcqVars, sigVars, pastVars>>

\* Workers 2 to N get threads; then SIGINT is subscribed to, and main is worker 1.
WrkStart ==
    /\ OnMain("wrk_start")
    /\ \/ /\ at <= N
          /\ wrk' = [wrk EXCEPT ![at].pc = "start"]
          /\ at' = at + 1 /\ UNCHANGED main
       \/ /\ at <= N /\ "thread" \in MayHappen
          /\ Destroying /\ UNCHANGED wrk
       \/ /\ at > N
          /\ main' = "run" /\ at' = 1
          /\ wrk' = [wrk EXCEPT ![1].pc = "start"]
    /\ UNCHANGED <<call, kcqVars, sigVars, pastVars>>

\* Worker 1 has returned, whether it failed or was stopped.
RunEnds ==
    /\ OnMain("run") /\ wrk[1].pc = "returned"
    /\ Destroying
    /\ UNCHANGED <<wrk, call, kcqVars, sigVars, pastVars>>

-----------------------------------------------------------------------------
(* A worker: alphahttpd_run, seen from the other threads. *)

\* Worker 1 does not run while the handler does.
Runs(w, pc) == wrk[w].pc = pc /\ (w = 1 => sigAt = 0)

\* The worker's queue and kqpost are created.
WorkerStart(w) ==
    /\ Runs(w, "start")
    /\ wrk' = [wrk EXCEPT ![w] = [@ EXCEPT !.kq = TRUE, !.pc = "head"]]
    /\ UNCHANGED <<mainVars, call, kcqVars, sigVars, pastVars>>

\* alphahttpd_run fails before its loop, with kqpost created or not; of the workers only
\* the first is missed.
WorkerFails(w) ==
    /\ "run" \in MayHappen /\ Runs(w, "start")
    /\ \E q \in BOOLEAN : wrk' = [wrk EXCEPT ![w] = [@ EXCEPT !.kq = q, !.pc = "returned"]]
    /\ UNCHANGED <<mainVars, call, kcqVars, sigVars, pastVars>>

\* The head of sv_worker's loop.  A worker that leaves closes no connection.
WorkerHead(w) ==
    /\ Runs(w, "head")
    /\ IF wrk[w].stop
       THEN /\ wrk' = [wrk EXCEPT ![w].pc = "returned"]
            /\ orphans' = orphans \cup {x \in AllCalls : x[1] = w /\ call[w][x[2]] # "idle"}
       ELSE /\ wrk' = [wrk EXCEPT ![w].pc = "wait"]
            /\ UNCHANGED orphans
    /\ UNCHANGED <<mainVars, call, kcqVars, sigVars, touched>>

\* ffkq_wait returns: for a stop or a completed call; at once in polling mode.
WorkerWake(w) ==
    /\ Runs(w, "wait") /\ (wrk[w].post \/ wrk[w].sig \/ Polling)
    /\ wrk' = [wrk EXCEPT ![w] = [@ EXCEPT !.post = FALSE, !.sig = FALSE, !.pc = "handle"]]
    /\ UNCHANGED <<mainVars, call, kcqVars, sigVars, pastVars>>

\* ... or for anything else: a timer, a peer.
WorkerEvent(w) ==
    /\ Runs(w, "wait")
    /\ wrk' = [wrk EXCEPT ![w].pc = "handle"]
    /\ UNCHANGED <<mainVars, call, kcqVars, sigVars, pastVars>>

\* Mutant: the call is queued and no kcall thread is woken.
WorkerCallNoPost(w) ==
    /\ Runs(w, "handle") /\ sem < MaxSem
    /\ \E c \in Calls : call[w][c] = "idle" /\ call' = [call EXCEPT ![w][c] = "sq"]
    /\ UNCHANGED <<mainVars, wrk, sem, kstop, kt, sigVars, pastVars>>

\* A handler queues a call, and posts the semaphore if there is one.
WorkerCall(w) ==
    /\ Runs(w, "handle") /\ sem < MaxSem
    /\ \E c \in Calls : call[w][c] = "idle" /\ call' = [call EXCEPT ![w][c] = "sq"]
    /\ sem' = IF Polling THEN sem ELSE sem + 1
    /\ UNCHANGED <<mainVars, wrk, kstop, kt, sigVars, pastVars>>

\* Every completed call is taken from the worker's queue; back to the loop's head.
WorkerDone(w) ==
    /\ Runs(w, "handle")
    /\ call' = [call EXCEPT ![w] = [c \in Calls |-> IF @[c] = "cq" THEN "idle" ELSE @[c]]]
    /\ wrk' = [wrk EXCEPT ![w].pc = "head"]
    /\ UNCHANGED <<mainVars, kcqVars, sigVars, pastVars>>

(***************************************************************************)
(* ahd_logv: a line of any worker takes its date from worker 1, whose      *)
(* server is `opaque` in the configuration that all of them share.         *)
(***************************************************************************)
WorkerLog(w) ==
    /\ wrk[w].pc \in {"start", "head", "handle"} /\ (w = 1 => sigAt = 0)
    /\ touched' = IF wrk[1].freed THEN touched \cup {Logger(w)} ELSE touched
    /\ UNCHANGED <<mainVars, wrk, call, kcqVars, sigVars, orphans>>

Worker(w) == WorkerStart(w) \/ WorkerFails(w) \/ WorkerHead(w) \/ WorkerWake(w) \/ WorkerDone(w)

-----------------------------------------------------------------------------
(* The kcall threads. *)

KcqHead(t) ==
    /\ kt[t].pc = "check"
    /\ kt' = [kt EXCEPT ![t].pc = IF kstop THEN "done" ELSE "drain"]
    /\ UNCHANGED <<mainVars, wrk, call, sem, kstop, sigVars, pastVars>>

\* ffkcallq_process_sq takes the calls one by one.
KcqTake(t) ==
    /\ kt[t].pc = "drain"
    /\ \E x \in InSq :
         /\ kt' = [kt EXCEPT ![t] = Executing(x)]
         /\ call' = [call EXCEPT ![x[1]][x[2]] = "exec"]
    /\ UNCHANGED <<mainVars, wrk, sem, kstop, sigVars, pastVars>>

\* Mutant: the worker whose call it was is not signalled.
KcqDoneNoSignal(t) ==
    /\ kt[t].pc = "exec"
    /\ LET w == kt[t].x[1] IN
         /\ call' = [call EXCEPT ![w][kt[t].x[2]] = "cq"]
         /\ touched' = IF wrk[w].freed THEN touched \cup {kt[t].x} ELSE touched
    /\ kt' = [kt EXCEPT ![t] = NotThere("drain")]
    /\ UNCHANGED <<mainVars, wrk, sem, kstop, sigVars, orphans>>

\* The result goes into the worker's memory and queue, and the worker is signalled.
KcqDone(t) ==
    /\ kt[t].pc = "exec"
    /\ LET w == kt[t].x[1] IN
         /\ call' = [call EXCEPT ![w][kt[t].x[2]] = "cq"]
         /\ wrk' = [wrk EXCEPT ![w].sig = ~Polling]
         /\ touched' = IF wrk[w].freed THEN touched \cup {kt[t].x} ELSE touched
    /\ kt' = [kt EXCEPT ![t] = NotThere("drain")]
    /\ UNCHANGED <<mainVars, sem, kstop, sigVars, orphans>>

\* The queue is empty: wait for the semaphore, or look again in polling mode.
KcqEmpty(t) ==
    /\ kt[t].pc = "drain" /\ InSq = {}
    /\ kt' = [kt EXCEPT ![t].pc = IF Polling THEN "check" ELSE "wait"]
    /\ UNCHANGED <<mainVars, wrk, call, sem, kstop, sigVars, pastVars>>

KcqWoken(t) ==
    /\ kt[t].pc = "wait" /\ sem > 0
    /\ sem' = sem - 1
    /\ kt' = [kt EXCEPT ![t].pc = "check"]
    /\ UNCHANGED <<mainVars, wrk, call, kstop, sigVars, pastVars>>

KcqThread(t) == KcqHead(t) \/ KcqTake(t) \/ KcqDone(t) \/ KcqEmpty(t) \/ KcqWoken(t)

-----------------------------------------------------------------------------
(* SIGINT. *)

\* The handler starts; only from then on, boss_stop walks the workers.
Signal ==
    /\ signals < MaxSignals /\ sigAt = 0
    /\ main \in {"run", "stop", "join", "free", "kcq_stop", "kcq_join"}
    /\ wrk[1].pc # "none"                       \* subscribed
    /\ signals' = signals + 1
    /\ sigAt' = 1
    /\ lateSignal' = (lateSignal \/ main # "run")
    /\ UNCHANGED <<mainVars, wrk, call, kcqVars, sigPost, pastVars>>

(***************************************************************************)
(* alphahttpd_stop: nothing to do for a worker that is stopped already.    *)
(* For another it may write a log line first, whose date is worker 1's.    *)
(***************************************************************************)
SignalFlag ==
    /\ sigAt # 0 /\ ~sigPost
    /\ touched' \in IF wrk[sigAt].freed THEN {touched \cup {Handler}}
                   ELSE IF wrk[1].freed /\ ~wrk[sigAt].stop THEN {touched, touched \cup {Handler}}
                   ELSE {touched}
    /\ IF wrk[sigAt].stop
       THEN sigAt' = (sigAt + 1) % (N + 1) /\ UNCHANGED <<wrk, sigPost>>
       ELSE wrk' = [wrk EXCEPT ![sigAt].stop = TRUE] /\ sigPost' = TRUE /\ UNCHANGED sigAt
    /\ UNCHANGED <<mainVars, call, kcqVars, signals, lateSignal, orphans>>

\* Mutant: the flag is set and nobody is woken.
SignalPostNone ==
    /\ sigAt # 0 /\ sigPost
    /\ sigPost' = FALSE
    /\ sigAt' = (sigAt + 1) % (N + 1)
    /\ UNCHANGED <<mainVars, wrk, call, kcqVars, signals, lateSignal, pastVars>>

\* ffkq_post: it reaches nobody while the worker's queue does not exist.
SignalPost ==
    /\ sigAt # 0 /\ sigPost
    /\ wrk' = [wrk EXCEPT ![sigAt].post = wrk[sigAt].kq]
    /\ sigPost' = FALSE
    /\ sigAt' = (sigAt + 1) % (N + 1)
    /\ UNCHANGED <<mainVars, call, kcqVars, signals, lateSignal, pastVars>>

-----------------------------------------------------------------------------
(* Shutdown: boss_destroy. *)

(***************************************************************************)
(* wrk_destroy: alphahttpd_stop of worker `at`, with its log line (written *)
(* at the debug level) if the worker was not told to stop before.          *)
(***************************************************************************)
DestroyStop ==
    /\ OnMain("stop")
    /\ touched' \in IF wrk[1].freed /\ ~wrk[at].stop THEN {touched, touched \cup {Logger(at)}}
                   ELSE {touched}
    /\ wrk' = [wrk EXCEPT ![at] =
                   [@ EXCEPT !.stop = TRUE, !.post = wrk[at].post \/ (wrk[at].kq /\ ~wrk[at].stop)]]
    /\ main' = "join" /\ UNCHANGED at
    /\ UNCHANGED <<call, kcqVars, sigVars, orphans>>

\* Mutant: the thread is not waited for.
DestroyJoinNot ==
    /\ OnMain("join")
    /\ main' = "free" /\ UNCHANGED at
    /\ UNCHANGED <<wrk, call, kcqVars, sigVars, pastVars>>

\* Its thread, if it has one, is joined; worker 1 has none and has returned.
DestroyJoin ==
    /\ OnMain("join") /\ wrk[at].pc \in {"none", "returned"}
    /\ main' = "free" /\ UNCHANGED at
    /\ UNCHANGED <<wrk, call, kcqVars, sigVars, pastVars>>

\* alphahttpd_free, with the connections and the completion queue.
DestroyFree ==
    /\ OnMain("free")
    /\ wrk' = [wrk EXCEPT ![at].freed = TRUE]
    /\ IF at < N THEN main' = "stop" /\ at' = at + 1
                 ELSE main' = "kcq_stop" /\ UNCHANGED at
    /\ UNCHANGED <<call, kcqVars, sigVars, pastVars>>

\* kcq_destroy: the flag, and one post for each thread.
KcqStop ==
    /\ OnMain("kcq_stop")
    /\ kstop' = TRUE
    /\ sem' = IF Polling THEN sem ELSE sem + Cardinality(KThreads)
    /\ main' = "kcq_join" /\ UNCHANGED at
    /\ UNCHANGED <<wrk, call, kt, sigVars, pastVars>>

KcqJoin ==
    /\ OnMain("kcq_join") /\ \A t \in KThreads : kt[t].pc \in {"none", "done"}
    /\ main' = "exit" /\ UNCHANGED at
    /\ UNCHANGED <<wrk, call, kcqVars, sigVars, pastVars>>

Main ==
    \/ KcqStart \/ WrkStart \/ RunEnds
    \/ DestroyStop \/ DestroyJoin \/ DestroyFree \/ KcqStop \/ KcqJoin

SigHandler == SignalFlag \/ SignalPost

Rest == main = "exit" /\ UNCHANGED vars

Next ==
    \/ Main \/ Signal \/ SigHandler \/ Rest
    \/ \E w \in Workers : Worker(w) \/ WorkerEvent(w) \/ WorkerCall(w) \/ WorkerLog(w)
    \/ \E t \in KThreads : KcqThread(t)

Spec == Init /\ [][Next]_vars

(***************************************************************************)
(* Fairness: every thread that can go on does.  Nothing is assumed of      *)
(* signals, nor of the events that wake a worker besides those of this     *)
(* module.                                                                 *)
(***************************************************************************)
FairSpec ==
    /\ Spec
    /\ WF_vars(Main) /\ WF_vars(SigHandler)
    /\ \A w \in Workers : WF_vars(Worker(w))
    /\ \A t \in KThreads : WF_vars(KcqThread(t))

-----------------------------------------------------------------------------

Records == [pc : {"none", "start", "head", "wait", "handle", "returned"},
            stop : BOOLEAN, post : BOOLEAN, sig : BOOLEAN, kq : BOOLEAN, freed : BOOLEAN]

MainTypeOK ==
    /\ main \in {"kcq_start", "wrk_start", "run", "stop", "join", "free", "kcq_stop", "kcq_join",
                 "exit"}
    /\ at \in 1 .. N + 1 /\ (at <= N \/ main = "wrk_start")
WrkTypeOK == wrk \in [Workers -> Records]
CallTypeOK == call \in [Workers -> [Calls -> {"idle", "sq", "exec", "cq"}]]
KtTypeOK == kt \in [KThreads -> [pc : {"none", "check", "drain", "exec", "wait", "done"},
                                x : AllCalls \cup {<<0, 0>>}]]
SemTypeOK == sem \in Nat /\ kstop \in BOOLEAN
SigTypeOK ==
    /\ sigAt \in 0 .. N /\ sigPost \in BOOLEAN
    /\ signals \in 0 .. MaxSignals /\ lateSignal \in BOOLEAN
PastTypeOK ==
    /\ orphans \subseteq AllCalls
    /\ touched \subseteq AllCalls \cup {Handler} \cup {Logger(w) : w \in Workers}

\* Types of the main thread's state, of the workers and kcall threads and what they share.
BossTypeOK ==
    /\ MainTypeOK /\ WrkTypeOK /\ CallTypeOK /\ KtTypeOK
    /\ SemTypeOK /\ SigTypeOK /\ PastTypeOK

(***************************************************************************)
(* A worker's memory is freed when its thread no longer runs, and after    *)
(* that it is used only by what shutdown is known not to wait for: a       *)
(* kernel call that was in flight when its worker left the loop (the kcall *)
(* threads are stopped last), the handler of a second SIGINT, and log      *)
(* lines of other workers, also those that boss_destroy writes when it     *)
(* stops them (worker 1, whose date they use, is freed first).             *)
(***************************************************************************)
FreedMemory ==
    /\ \A w \in Workers : wrk[w].freed => wrk[w].pc \in {"none", "returned"}
    /\ touched \subseteq orphans \cup (IF lateSignal THEN {Handler} ELSE {})
                          \cup {Logger(w) : w \in Workers \ {1}}

(***************************************************************************)
(* The semaphore loses no call: when a call is queued and a kcall thread   *)
(* sleeps, another is still at work on the queue or the semaphore will     *)
(* wake one, however posts and the emptying of the queue interleave.       *)
(***************************************************************************)
NoCallForgotten ==
    InSq # {} /\ (\E t \in KThreads : kt[t].pc = "wait") =>
        sem > 0 \/ \E t \in KThreads : kt[t].pc \in {"check", "drain", "exec"}

(***************************************************************************)
(* A queued call completes, and its worker takes the result unless it is   *)
(* told to stop.                                                           *)
(***************************************************************************)
CallCompletes ==
    \A x \in AllCalls :
        call[x[1]][x[2]] = "sq" ~> call[x[1]][x[2]] = "idle" \/ wrk[x[1]].stop

(***************************************************************************)
(* SIGINT ends the process, at whatever point of their start the workers   *)
(* are when it comes: nobody sleeps on, and the joins come to an end.      *)
(***************************************************************************)
SignalEndsProcess == signals > 0 ~> main = "exit"

=============================================================================
