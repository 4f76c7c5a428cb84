-------------------------- MODULE ConnSlots_proofs --------------------------
(***************************************************************************)
(* Proofs about ConnSlots for every number of slots: the bookkeeping of    *)
(* the slots is sound and stays inside the array.                          *)
(***************************************************************************)
EXTENDS ConnSlots, FiniteSetTheorems, TLAPS

\* The inductive invariant: types and bookkeeping together.
SlotInv == SlotTypeOK /\ SlotAccounting

-----------------------------------------------------------------------------

\* The slots that one list element adds to the image of a sequence.
LEMMA ImageOfCons ==
    ASSUME NEW S, NEW q \in Seq(S), NEW k \in S
    PROVE  /\ <<k>> \o q \in Seq(S)
           /\ Len(<<k>> \o q) = Len(q) + 1
           /\ (<<k>> \o q)[1] = k
           /\ \A i \in 1 .. Len(q) : (<<k>> \o q)[i + 1] = q[i]
  OBVIOUS

\* What unlinking the top of the LIFO leaves of it: its elements, in order.
LEMMA TailFacts ==
    ASSUME NEW S, NEW q \in Seq(S), q # <<>>
    PROVE  /\ Tail(q) \in Seq(S)
           /\ Len(Tail(q)) = Len(q) - 1
           /\ Len(q) \in Nat \ {0}
           /\ Head(q) = q[1]
           /\ Head(q) \in S
           /\ \A i \in 1 .. Len(q) - 1 : Tail(q)[i] = q[i + 1]
  OBVIOUS

\* Every owned slot set is finite: it is a part of the array.
LEMMA OwnedFinite ==
    ASSUME SlotTypeOK
    PROVE  IsFiniteSet(owned) /\ Cardinality(owned) \in Nat
<1>1. IsFiniteSet(Slots)
  BY FS_Interval, NConnsAssumption DEF Slots
<1>2. QED
  BY <1>1, FS_Subset, FS_CardinalityType DEF SlotTypeOK

\* A finite set gains one element, or loses one.
LEMMA CountAdd ==
    ASSUME NEW k, SlotTypeOK, k \notin owned
    PROVE  Cardinality(owned \cup {k}) = Cardinality(owned) + 1
  BY OwnedFinite, FS_AddElement

\* The counterpart for a slot that is given back.
LEMMA CountRemove ==
    ASSUME NEW k \in owned, SlotTypeOK
    PROVE  Cardinality(owned \ {k}) = Cardinality(owned) - 1
  BY OwnedFinite, FS_RemoveElement

(***************************************************************************)
(* While the limit is not reached, the slot that comes next is a free      *)
(* element of the array: this is why sv_accept1 may compare conn_num, and  *)
(* not iconn, with connections_n.                                          *)
(***************************************************************************)
LEMMA NextSlotFree ==
    ASSUME SlotInv, connNum # NConns
    PROVE  NextSlot \in Slots /\ NextSlot \notin owned
<1> USE NConnsAssumption DEF SlotInv, SlotTypeOK, SlotAccounting
<1>1. CASE reusable # <<>>
  <2>1. Head(reusable) = reusable[1] /\ Head(reusable) \in Slots /\ 1 \in 1 .. Len(reusable)
    BY <1>1, TailFacts
  <2>2. QED
    BY <1>1, <2>1 DEF NextSlot, FreeListSound
<1>2. CASE reusable = <<>>
  <2>1. Len(reusable) = 0
    BY <1>2
  <2>2. iconn = connNum /\ iconn # NConns
    BY <2>1 DEF CountersAgree
  <2>3. iconn \in Slots
    BY <2>2 DEF Slots
  <2>4. iconn \notin owned
    BY <2>2 DEF UsedSplit
  <2>5. QED
    BY <1>2, <2>3, <2>4 DEF NextSlot
<1>3. QED
  BY <1>1, <1>2

(***************************************************************************)
(* An accepted connection keeps the invariant: the slot it gets leaves the *)
(* LIFO, or the unused part of the array, exactly when it becomes owned.   *)
(***************************************************************************)
LEMMA TakeSlotKeepsInv ==
    ASSUME SlotInv, TakeSlot
    PROVE  SlotInv'
<1> USE NConnsAssumption DEF SlotInv, SlotTypeOK, SlotAccounting
<1>1. /\ NextSlot \in Slots \ owned
      /\ owned' = owned \cup {NextSlot}
      /\ connNum' = connNum + 1
      /\ connNum # NConns
      /\ side' = side
  BY NextSlotFree DEF TakeSlot
<1>2. Cardinality(owned') = Cardinality(owned) + 1
  BY <1>1, CountAdd
<1>3. CASE reusable # <<>>
  <2>1. /\ reusable' = Tail(reusable)
        /\ iconn' = iconn
        /\ NextSlot = reusable[1]
    BY <1>3, TailFacts DEF TakeSlot, NextSlot
  <2>2. /\ reusable' \in Seq(Slots)
        /\ Len(reusable') = Len(reusable) - 1
        /\ Len(reusable) \in Nat \ {0}
        /\ \A i \in 1 .. Len(reusable) - 1 : reusable'[i] = reusable[i + 1]
    BY <1>3, <2>1, TailFacts
  <2>3. FreeListSound'
    BY <1>1, <2>1, <2>2 DEF FreeListSound
  <2>4. {reusable[i] : i \in 1 .. Len(reusable)}
          = {reusable[1]} \cup {reusable'[i] : i \in 1 .. Len(reusable')}
    <3>1. ASSUME NEW i \in 1 .. Len(reusable), i # 1
          PROVE  i - 1 \in 1 .. Len(reusable') /\ reusable'[i - 1] = reusable[i]
      BY <2>2, <3>1
    <3>2. ASSUME NEW i \in 1 .. Len(reusable')
          PROVE  i + 1 \in 1 .. Len(reusable) /\ reusable'[i] = reusable[i + 1]
      BY <2>2
    <3>3. 1 \in 1 .. Len(reusable)
      BY <2>2
    <3>4. ASSUME NEW x \in {reusable[i] : i \in 1 .. Len(reusable)}
          PROVE  x \in {reusable[1]} \cup {reusable'[i] : i \in 1 .. Len(reusable')}
      <4>1. PICK i \in 1 .. Len(reusable) : x = reusable[i]
        OBVIOUS
      <4>2. CASE i = 1
        BY <4>1, <4>2
      <4>3. CASE i # 1
        BY <3>1, <4>1, <4>3
      <4>4. QED
        BY <4>2, <4>3
    <3>5. ASSUME NEW x \in {reusable[1]} \cup {reusable'[i] : i \in 1 .. Len(reusable')}
          PROVE  x \in {reusable[i] : i \in 1 .. Len(reusable)}
      <4>1. CASE x = reusable[1]
        BY <3>3, <4>1
      <4>2. CASE x # reusable[1]
        BY <3>2, <3>5, <4>2
      <4>3. QED
        BY <4>1, <4>2
    <3>6. QED
      BY <3>4, <3>5
  <2>5. UsedSplit'
    BY <1>1, <2>1, <2>4 DEF UsedSplit
  <2>6. CountersAgree'
    BY <1>1, <1>2, <2>1, <2>2 DEF CountersAgree
  <2>7. SlotTypeOK'
    BY <1>1, <2>1, <2>2
  <2>8. QED
    BY <2>3, <2>5, <2>6, <2>7
<1>4. CASE reusable = <<>>
  <2>1. reusable' = <<>> /\ iconn' = iconn + 1 /\ NextSlot = iconn /\ Len(reusable) = 0
    BY <1>4 DEF TakeSlot, NextSlot
  <2>2. iconn = connNum
    BY <2>1 DEF CountersAgree
  <2>3. FreeListSound'
    BY <2>1, <1>4 DEF FreeListSound
  <2>4. UsedSplit'
    BY <1>1, <1>4, <2>1 DEF UsedSplit
  <2>5. CountersAgree'
    BY <1>1, <1>2, <2>1, <1>4 DEF CountersAgree
  <2>6. SlotTypeOK'
    BY <1>1, <2>1, <2>2
  <2>7. QED
    BY <2>3, <2>4, <2>5, <2>6
<1>5. QED
  BY <1>3, <1>4

(***************************************************************************)
(* The end of a connection keeps the invariant: its slot was owned, so it  *)
(* is not in the LIFO yet, and the counter is not zero.                    *)
(***************************************************************************)
LEMMA ConnFinKeepsInv ==
    ASSUME SlotInv, NEW k \in owned, ConnFin(k)
    PROVE  SlotInv'
<1> USE NConnsAssumption DEF SlotInv, SlotTypeOK, SlotAccounting
<1>1. /\ reusable' = <<k>> \o reusable
      /\ connNum' = connNum - 1
      /\ owned' = owned \ {k}
      /\ iconn' = iconn
      /\ k \in Slots
      /\ side' = [side EXCEPT ![k] = 1 - @]
  BY DEF ConnFin
<1>2. Cardinality(owned') = Cardinality(owned) - 1
  BY <1>1, CountRemove
<1>3. Cardinality(owned) \in Nat /\ Cardinality(owned') \in Nat
  <2>1. IsFiniteSet(owned) /\ Cardinality(owned) \in Nat
    BY OwnedFinite
  <2>2. IsFiniteSet(owned')
    BY <1>1, <2>1, FS_Subset
  <2>3. QED
    BY <2>1, <2>2, FS_CardinalityType
<1>4. /\ reusable' \in Seq(Slots)
      /\ Len(reusable') = Len(reusable) + 1
      /\ reusable'[1] = k
      /\ \A i \in 1 .. Len(reusable) : reusable'[i + 1] = reusable[i]
      /\ Len(reusable) \in Nat
  BY <1>1, ImageOfCons
<1>5. ASSUME NEW i \in 1 .. Len(reusable'), i # 1
      PROVE  i - 1 \in 1 .. Len(reusable) /\ reusable'[i] = reusable[i - 1]
  BY <1>4, <1>5
<1>6. FreeListSound'
  <2>1. ASSUME NEW i \in 1 .. Len(reusable')
        PROVE  reusable'[i] \notin owned'
    <3>1. CASE i = 1
      BY <1>1, <1>4, <3>1
    <3>2. CASE i # 1
      BY <1>1, <1>5, <3>2 DEF FreeListSound
    <3>3. QED
      BY <3>1, <3>2
  <2>2. ASSUME NEW i \in 1 .. Len(reusable'), NEW j \in 1 .. Len(reusable'),
               reusable'[i] = reusable'[j]
        PROVE  i = j
    <3>1. CASE i = 1 /\ j # 1
      BY <1>4, <1>5, <2>2, <3>1 DEF FreeListSound
    <3>2. CASE i # 1 /\ j = 1
      BY <1>4, <1>5, <2>2, <3>2 DEF FreeListSound
    <3>3. CASE i # 1 /\ j # 1
      BY <1>5, <2>2, <3>3 DEF FreeListSound
    <3>4. QED
      BY <3>1, <3>2, <3>3
  <2>3. QED
    BY <2>1, <2>2 DEF FreeListSound
<1>7. UsedSplit'
  <2>1. {reusable'[i] : i \in 1 .. Len(reusable')}
          = {k} \cup {reusable[i] : i \in 1 .. Len(reusable)}
    <3>1. ASSUME NEW i \in 1 .. Len(reusable)
          PROVE  i + 1 \in 1 .. Len(reusable') /\ reusable'[i + 1] = reusable[i]
      BY <1>4
    <3>2. 1 \in 1 .. Len(reusable')
      BY <1>4
    <3>3. ASSUME NEW x \in {reusable'[i] : i \in 1 .. Len(reusable')}
          PROVE  x \in {k} \cup {reusable[i] : i \in 1 .. Len(reusable)}
      <4>1. PICK i \in 1 .. Len(reusable') : x = reusable'[i]
        OBVIOUS
      <4>2. QED
        BY <1>4, <1>5, <4>1
    <3>4. ASSUME NEW x \in {k} \cup {reusable[i] : i \in 1 .. Len(reusable)}
          PROVE  x \in {reusable'[i] : i \in 1 .. Len(reusable')}
      <4>1. CASE x = k
        BY <1>4, <3>2, <4>1
      <4>2. CASE x # k
        BY <3>1, <3>4, <4>2
      <4>3. QED
        BY <4>1, <4>2
    <3>5. QED
      BY <3>3, <3>4
  <2>2. QED
    BY <1>1, <2>1 DEF UsedSplit
<1>8. CountersAgree'
  BY <1>1, <1>2, <1>4 DEF CountersAgree
<1>9. SlotTypeOK'
  <2>1. connNum' \in 0 .. NConns
    BY <1>1, <1>2, <1>3 DEF CountersAgree
  <2>2. side' \in [Slots -> {0, 1}]
    <3>1. side[k] \in {0, 1} /\ 1 - side[k] \in {0, 1}
      BY <1>1
    <3>2. QED
      BY <1>1, <3>1
  <2>3. QED
    BY <1>1, <1>4, <2>1, <2>2
<1>10. QED
  BY <1>6, <1>7, <1>8, <1>9

\* alphahttpd_run starts with every slot unused.
LEMMA InitSlotInv == InitSlots => SlotInv
<1> SUFFICES ASSUME InitSlots PROVE SlotInv
  OBVIOUS
<1>1. Cardinality(owned) = 0
  BY FS_EmptySet DEF InitSlots
<1>2. SlotTypeOK
  BY NConnsAssumption DEF InitSlots, SlotTypeOK, Slots
<1>3. SlotAccounting
  BY <1>1 DEF InitSlots, SlotAccounting, FreeListSound, UsedSplit, CountersAgree
<1>4. QED
  BY <1>2, <1>3 DEF SlotInv

(***************************************************************************)
(* SlotInv is inductive: it holds in every state the bookkeeping reaches.  *)
(***************************************************************************)
THEOREM SlotInvariant == SpecSlots => []SlotInv
<1>1. InitSlots => SlotInv
  BY InitSlotInv
<1>2. SlotInv /\ [NextSlots]_slotVars => SlotInv'
  <2> SUFFICES ASSUME SlotInv, [NextSlots]_slotVars PROVE SlotInv'
    OBVIOUS
  <2>1. CASE TakeSlot
    BY <2>1, TakeSlotKeepsInv
  <2>2. ASSUME NEW k \in owned, ConnFin(k) PROVE SlotInv'
    BY <2>2, ConnFinKeepsInv
  <2>3. CASE UNCHANGED slotVars
    BY <2>3 DEF slotVars, SlotInv, SlotTypeOK, SlotAccounting, FreeListSound, UsedSplit,
                CountersAgree
  <2>4. QED
    BY <2>1, <2>2, <2>3 DEF NextSlots
<1>3. QED
  BY <1>1, <1>2, PTL DEF SpecSlots

-----------------------------------------------------------------------------

(***************************************************************************)
(* Type correctness of the slot bookkeeping.                               *)
(***************************************************************************)
THEOREM SlotTypes == SpecSlots => []SlotTypeOK
<1>1. SlotInv => SlotTypeOK
  BY DEF SlotInv
<1>2. QED
  BY <1>1, SlotInvariant, PTL

(***************************************************************************)
(* No slot is owned twice, lost or counted wrongly, whatever the order of  *)
(* accepts and closes and however many slots the worker has.               *)
(***************************************************************************)
THEOREM SlotAccountingHolds == SpecSlots => []SlotAccounting
<1>1. SlotInv => SlotAccounting
  BY DEF SlotInv
<1>2. QED
  BY <1>1, SlotInvariant, PTL

\* The invariant leaves a free slot inside the array whenever conn_num allows one.
LEMMA InvImpliesBounds == SlotInv => SlotBounds
<1> SUFFICES ASSUME SlotInv PROVE SlotBounds
  OBVIOUS
<1>1. connNum # NConns => NextSlot \in Slots \ owned
  BY NextSlotFree
<1>2. ASSUME owned # {} PROVE connNum # 0
  <2>1. IsFiniteSet(owned)
    BY OwnedFinite DEF SlotInv
  <2>2. Cardinality(owned) # 0
    BY <1>2, <2>1, FS_EmptySet
  <2>3. QED
    BY <2>2 DEF SlotInv, SlotAccounting, CountersAgree
<1>3. QED
  BY <1>1, <1>2 DEF SlotBounds

(***************************************************************************)
(* sv_accept1 stays inside `connections`, and the FF_ASSERT(conn_num != 0) *)
(* of sv_conn_fin cannot fail for a slot that has an owner.                *)
(***************************************************************************)
THEOREM SlotBoundsHold == SpecSlots => []SlotBounds
  BY SlotInvariant, InvImpliesBounds, PTL

=============================================================================
