---------------------------- MODULE HttpService ----------------------------
(***************************************************************************)
(* What one connection promises, without filters, buffers or suspensions:  *)
(* requests are taken one at a time, each is answered once, in the order   *)
(* they came and with a status that fits the request, and each is written  *)
(* to the access log at most once, after its answer.                       *)
(***************************************************************************)
EXTENDS Naturals, Sequences

CONSTANTS
    Requests,               \* the requests a peer may make
    Allowed(_)              \* the statuses that fit a request

VARIABLES
    taken,                  \* requests taken, in order
    answers,                \* statuses sent, in order
    logged                  \* lines in the access log

vars == <<taken, answers, logged>>

Init == taken = <<>> /\ answers = <<>> /\ logged = 0

\* The next request is taken when the one before it has its answer.
Take ==
    /\ Len(answers) = Len(taken)
    /\ \E r \in Requests : taken' = Append(taken, r)
    /\ UNCHANGED <<answers, logged>>

Answer ==
    /\ Len(answers) < Len(taken)
    /\ \E code \in Allowed(taken[Len(taken)]) : answers' = Append(answers, code)
    /\ UNCHANGED <<taken, logged>>

Log ==
    /\ logged < Len(answers)
    /\ logged' = logged + 1
    /\ UNCHANGED <<taken, answers>>

Next == Take \/ Answer \/ Log

Spec == Init /\ [][Next]_vars

=============================================================================
