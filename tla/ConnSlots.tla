----------------------------- MODULE ConnSlots -----------------------------
(***************************************************************************)
(* The connection slots of one worker (server.c): the array `connections`  *)
(* whose first `iconn` elements have been used at least once, the LIFO of  *)
(* slots given back (`reusable_connections_lifo`, linked by next_kev and   *)
(* written here as a sequence whose head is the top), the connection       *)
(* counter `conn_num`, and in every slot the `side` bit that is part of    *)
(* the tag a socket is registered with, so that an event of an earlier     *)
(* owner can be told from one of the present owner.                        *)
(*                                                                         *)
(* `owned` is the set of slots that hold a connection.  The code has no    *)
(* such set: it is what rhandler/whandler/obj of the slots say together.   *)
(***************************************************************************)
EXTENDS Integers, Sequences, FiniteSets

CONSTANT NConns             \* connections_n (server.max_connections)

ASSUME NConnsAssumption == NConns \in Nat \ {0}

VARIABLES
    reusable,               \* reusable_connections_lifo
    iconn,                  \* slots of the array used so far
    connNum,                \* conn_num
    side,                   \* ahd_kev.side of every slot
    owned                   \* slots that hold a connection

slotVars == <<reusable, iconn, connNum, side, owned>>

Slots == 0 .. NConns - 1

InitSlots ==
    /\ reusable = <<>>
    /\ iconn = 0
    /\ connNum = 0
    /\ side = [k \in Slots |-> 0]
    /\ owned = {}

\* The slot that the next accepted connection gets.
NextSlot == IF reusable # <<>> THEN Head(reusable) ELSE iconn

\* Mutant: the slot is used but not unlinked from the list.
TakeSlotNotPopped ==
    /\ connNum # NConns
    /\ iconn' = IF reusable # <<>> THEN iconn ELSE iconn + 1
    /\ owned' = owned \cup {NextSlot}
    /\ connNum' = connNum + 1
    /\ UNCHANGED <<reusable, side>>

\* Mutant: the check of conn_num against the limit is missing.
TakeSlotNoLimit ==
    /\ IF reusable # <<>>
       THEN reusable' = Tail(reusable) /\ UNCHANGED iconn
       ELSE iconn' = iconn + 1 /\ UNCHANGED reusable
    /\ owned' = owned \cup {NextSlot}
    /\ connNum' = connNum + 1
    /\ UNCHANGED side

(***************************************************************************)
(* A connection was accepted: it takes the top of the LIFO, or the next    *)
(* element of the array when the LIFO is empty.                            *)
(***************************************************************************)
TakeSlot ==
    /\ connNum # NConns
    /\ IF reusable # <<>>
       THEN reusable' = Tail(reusable) /\ UNCHANGED iconn
       ELSE iconn' = iconn + 1 /\ UNCHANGED reusable
    /\ owned' = owned \cup {NextSlot}
    /\ connNum' = connNum + 1
    /\ UNCHANGED side

\* Mutant: a slot goes back to the list without the counter going down.
ConnFinNoCount(k) ==
    /\ side' = [side EXCEPT ![k] = 1 - @]
    /\ reusable' = <<k>> \o reusable
    /\ owned' = owned \ {k}
    /\ UNCHANGED <<iconn, connNum>>

(***************************************************************************)
(* sv_conn_fin: the owner of slot k ends.  The handlers are cleared (k     *)
(* leaves `owned`), the side bit flips, the slot goes on top of the LIFO,  *)
(* and the counter, asserted not to be zero, goes down.                    *)
(***************************************************************************)
ConnFin(k) ==
    /\ side' = [side EXCEPT ![k] = 1 - @]
    /\ reusable' = <<k>> \o reusable
    /\ connNum' = connNum - 1
    /\ owned' = owned \ {k}
    /\ UNCHANGED iconn

NextSlots == TakeSlot \/ \E k \in owned : ConnFin(k)

SpecSlots == InitSlots /\ [][NextSlots]_slotVars

-----------------------------------------------------------------------------

SlotTypeOK ==
    /\ reusable \in Seq(Slots)
    /\ iconn \in 0 .. NConns
    /\ connNum \in 0 .. NConns
    /\ side \in [Slots -> {0, 1}]
    /\ owned \subseteq Slots

\* A slot is in the LIFO at most once, and never while a connection owns it.
FreeListSound ==
    /\ \A i, j \in 1 .. Len(reusable) : reusable[i] = reusable[j] => i = j
    /\ \A i \in 1 .. Len(reusable) : reusable[i] \notin owned

\* The slots used so far are those that are owned and those in the LIFO.
UsedSplit ==
    0 .. iconn - 1 = owned \cup {reusable[i] : i \in 1 .. Len(reusable)}

\* conn_num counts the connections, and no slot is lost between the counters.
CountersAgree ==
    /\ connNum = Cardinality(owned)
    /\ iconn = connNum + Len(reusable)

(***************************************************************************)
(* The slot bookkeeping of sv_accept1 and sv_conn_fin: no slot is owned    *)
(* twice or lost, and conn_num is exact however accepts and closes are     *)
(* interleaved.                                                            *)
(***************************************************************************)
SlotAccounting == FreeListSound /\ UsedSplit /\ CountersAgree

(***************************************************************************)
(* sv_accept1 never indexes `connections` past its end, although it        *)
(* compares with the limit only conn_num and never iconn, and the          *)
(* FF_ASSERT of sv_conn_fin holds whenever a connection can end.           *)
(***************************************************************************)
SlotBounds ==
    /\ connNum # NConns => NextSlot \in Slots \ owned
    /\ owned # {} => connNum # 0

=============================================================================
