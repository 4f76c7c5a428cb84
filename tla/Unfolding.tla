------------------------------ MODULE Unfolding ------------------------------
(***************************************************************************)
(* Folds over a sequence and recursive functions, step by step, for one    *)
(* operator Op, whose first argument stays the same.  An instance of this  *)
(* module states it for an operator of a parser, which gives it induction: *)
(* what a fold or a recursive function is, for inputs of any length.       *)
(***************************************************************************)
EXTENDS SequencesExt, TLAPS, WellFoundedInduction

CONSTANT Op(_, _, _)

(***************************************************************************)
(* What holds of 0 and goes from each position to the next holds up to n.  *)
(***************************************************************************)
LEMMA UpTo ==
    ASSUME NEW n \in Nat, NEW S, 0 \in S, \A k \in 0 .. n - 1 : k \in S => k + 1 \in S
    PROVE  \A k \in 0 .. n : k \in S
<1> DEFINE T == {k \in 0 .. n : k \notin S}
<1>1. SUFFICES ASSUME T # {} PROVE FALSE
    OBVIOUS
<1>2. T \subseteq Nat
    OBVIOUS
<1>3. PICK t \in T : \A y \in T : ~(<<y, t>> \in OpToRel(<, Nat))
    BY <1>1, <1>2, NatLessThanWellFounded, WFMin, Zenon
<1>4. t # 0 /\ t - 1 \in 0 .. n - 1 /\ t - 1 \in Nat /\ t \in Nat /\ t - 1 < t
    OBVIOUS
<1>5. <<t - 1, t>> \in OpToRel(<, Nat)
    BY <1>4, Zenon DEF OpToRel
<1>6. t - 1 \in T
    BY <1>4
<1>7. QED
    BY <1>3, <1>5, <1>6

(***************************************************************************)
(* The greatest of the positions up to m that are in T.                    *)
(***************************************************************************)
LEMMA MaxIs ==
    ASSUME NEW m \in Nat, NEW T \in SUBSET (1 .. m), T # {}
    PROVE  Max(T) \in T /\ \A y \in T : y <= Max(T)
<1> DEFINE S == {k \in 0 .. m : \A U \in SUBSET (1 .. k) : U # {} => \E x \in U : \A y \in U : x >= y}
<1>1. 0 \in S
    <2>1. \A U \in SUBSET (1 .. 0) : U # {} => \E x \in U : \A y \in U : x >= y
        <3>1. 1 .. 0 = {}
            OBVIOUS
        <3>2. QED
            BY <3>1, Zenon
    <2>2. 0 \in 0 .. m
        OBVIOUS
    <2>3. QED
        BY <2>1, <2>2, Zenon
<1>2. ASSUME NEW k \in 0 .. m - 1, k \in S PROVE k + 1 \in S
    <2>1. SUFFICES ASSUME NEW U \in SUBSET (1 .. k + 1), U # {} PROVE \E x \in U : \A y \in U : x >= y
        OBVIOUS
    <2>2. CASE k + 1 \in U
        BY <2>1, <2>2
    <2>3. CASE k + 1 \notin U
        <3>1. U \in SUBSET (1 .. k)
            BY <2>3
        <3>2. QED
            BY <2>1, <1>2, <3>1
    <2>4. QED
        BY <2>2, <2>3
<1>3. \A k \in 0 .. m : k \in S
    <2> HIDE DEF S
    <2> QED BY <1>1, <1>2, UpTo
<1>4. m \in S
    <2> HIDE DEF S
    <2> QED BY <1>3
<1>5. \E x \in T : \A y \in T : x >= y
    BY <1>4
<1>6. QED
    BY <1>5 DEF Max

LEMMA MaxTop ==
    ASSUME NEW m \in Nat, NEW T \in SUBSET (1 .. m), m \in T
    PROVE  Max(T) = m
<1>1. Max(T) \in T /\ m <= Max(T)
    BY MaxIs
<1>2. \A x \in T : m <= x => x = m
    OBVIOUS
<1>3. QED
    BY <1>1, <1>2, Zenon

\* The equation of a fold over sets of positions, as MapThenFoldSet has it.
Iterates(J, ctx, base, d, m) ==
    J = [T \in SUBSET (1 .. m) |-> IF T = {} THEN base ELSE Op(ctx, J[T \ {Max(T)}], d[Max(T)])]

(***************************************************************************)
(* There is a function that satisfies the equation.                        *)
(***************************************************************************)
LEMMA IterExists ==
    ASSUME NEW ctx, NEW base, NEW d, NEW n \in Nat
    PROVE  \E J : Iterates(J, ctx, base, d, n)
<1> DEFINE S == {m \in 0 .. n : \E J : Iterates(J, ctx, base, d, m)}
<1>1. 0 \in S
    <2> DEFINE J == [T \in SUBSET (1 .. 0) |-> base]
    <2>1. Iterates(J, ctx, base, d, 0)
        BY DEF Iterates
    <2>2. QED
        BY <2>1
<1>2. ASSUME NEW m \in 0 .. n - 1, m \in S PROVE m + 1 \in S
    <2>1. PICK J : Iterates(J, ctx, base, d, m)
        BY <1>2
    <2> DEFINE K == [T \in SUBSET (1 .. m + 1) |->
                        IF m + 1 \in T THEN Op(ctx, J[T \ {m + 1}], d[m + 1]) ELSE J[T]]
    <2>2. ASSUME NEW T \in SUBSET (1 .. m + 1)
          PROVE  K[T] = IF T = {} THEN base ELSE Op(ctx, K[T \ {Max(T)}], d[Max(T)])
        <3>1. CASE m + 1 \in T
            <4>2. Max(T) = m + 1
                <5>1. m + 1 \in Nat
                    OBVIOUS
                <5>2. QED
                    BY <3>1, <5>1, MaxTop
            <4>3. T \ {m + 1} \in SUBSET (1 .. m)
                OBVIOUS
            <4>4. K[T \ {m + 1}] = J[T \ {m + 1}]
                BY <4>3
            <4>5. QED
                BY <3>1, <4>2, <4>4
        <3>2. CASE m + 1 \notin T
            <4>1. T \in SUBSET (1 .. m)
                BY <3>2
            <4>2. J[T] = IF T = {} THEN base ELSE Op(ctx, J[T \ {Max(T)}], d[Max(T)])
                BY <2>1, <4>1 DEF Iterates
            <4>3. K[T] = J[T] /\ K[T \ {Max(T)}] = J[T \ {Max(T)}]
                BY <3>2
            <4>4. QED
                BY <4>2, <4>3
        <3>3. QED
            BY <3>1, <3>2
    <2>3. Iterates(K, ctx, base, d, m + 1)
        BY <2>2 DEF Iterates
    <2>4. QED
        BY <2>3
<1>3. \A m \in 0 .. n : m \in S
    <2> HIDE DEF S
    <2> QED BY <1>1, <1>2, UpTo
<1>4. QED
    BY <1>3

\* The values of a fold after each position.
Steps(acc, ctx, base, d, n) ==
    acc[0] = base /\ \A k \in 1 .. n : acc[k] = Op(ctx, acc[k - 1], d[k])

(***************************************************************************)
(* Such a function has the steps of the fold as its values on 1 .. k.      *)
(***************************************************************************)
LEMMA IterSteps ==
    ASSUME NEW ctx, NEW base, NEW d, NEW n \in Nat, NEW J, Iterates(J, ctx, base, d, n)
    PROVE  \E acc : Steps(acc, ctx, base, d, n) /\ acc[n] = J[1 .. n]
<1> DEFINE acc == [k \in 0 .. n |-> J[1 .. k]]
<1>1. acc[0] = base
    <2>1. 1 .. 0 = {} /\ {} \in SUBSET (1 .. n)
        OBVIOUS
    <2>2. QED
        BY <2>1 DEF Iterates
<1>2. ASSUME NEW k \in 1 .. n PROVE acc[k] = Op(ctx, acc[k - 1], d[k])
    <2>1. Max(1 .. k) = k
        <3>1. k \in Nat /\ 1 .. k \in SUBSET (1 .. k) /\ k \in 1 .. k
            OBVIOUS
        <3>2. QED
            BY <3>1, MaxTop
    <2>2. (1 .. k) \ {k} = 1 .. k - 1
        OBVIOUS
    <2>3. J[1 .. k] = Op(ctx, J[(1 .. k) \ {k}], d[k])
        <3>1. 1 .. k \in SUBSET (1 .. n) /\ 1 .. k # {}
            OBVIOUS
        <3>2. QED
            BY <2>1, <3>1 DEF Iterates
    <2>4. acc[k] = J[1 .. k] /\ acc[k - 1] = J[1 .. k - 1]
        OBVIOUS
    <2>5. QED
        <3> HIDE DEF acc
        <3> QED BY <2>2, <2>3, <2>4
<1>3. QED
    <2> HIDE DEF acc
    <2>1. acc[n] = J[1 .. n]
        BY DEF acc
    <2>2. QED
        BY <1>1, <1>2, <2>1 DEF Steps

\* The folds of Op over a sequence, and over its positions.
Folded(ctx, base, d) == FoldLeft(LAMBDA v, x : Op(ctx, v, x), base, d)
FoldedAt(ctx, base, s) == FoldLeftDomain(LAMBDA v, k : Op(ctx, v, k), base, s)

(***************************************************************************)
(* FoldLeft is the last of the steps.                                      *)
(***************************************************************************)
LEMMA StepsOfSeq ==
    ASSUME NEW ctx, NEW base, NEW d, NEW n \in Nat, DOMAIN d = 1 .. n
    PROVE  \E acc : Steps(acc, ctx, base, d, n) /\ Folded(ctx, base, d) = acc[n]
<1> DEFINE Eq(J) == J = [T \in SUBSET (DOMAIN d) |->
                           IF T = {} THEN base ELSE Op(ctx, J[T \ {Max(T)}], d[Max(T)])]
           I == CHOOSE J : Eq(J)
<1>1. Folded(ctx, base, d) = I[DOMAIN d]
    BY Zenon DEF Folded, FoldLeft, MapThenFoldSet
<1>2. ASSUME NEW J PROVE Eq(J) <=> Iterates(J, ctx, base, d, n)
    BY Zenon DEF Iterates
<1>3. Iterates(I, ctx, base, d, n)
    <2> HIDE DEF Eq
    <2> QED BY <1>2, IterExists
<1> HIDE DEF Eq, I
<1>4. PICK acc : Steps(acc, ctx, base, d, n) /\ acc[n] = I[1 .. n]
    BY <1>3, IterSteps
<1>5. acc[n] = I[DOMAIN d]
    BY <1>4, Zenon
<1>6. QED
    BY <1>1, <1>4, <1>5, Zenon

(***************************************************************************)
(* FoldLeftDomain takes the positions of a sequence.                       *)
(***************************************************************************)
LEMMA StepsOfDomain ==
    ASSUME NEW ctx, NEW base, NEW n \in Nat, NEW s, DOMAIN s = 1 .. n
    PROVE  \E acc : /\ acc[0] = base
                    /\ \A k \in 1 .. n : acc[k] = Op(ctx, acc[k - 1], k)
                    /\ FoldedAt(ctx, base, s) = acc[n]
<1> DEFINE d == [i \in DOMAIN s |-> i]
<1>1. DOMAIN d = 1 .. n /\ \A k \in 1 .. n : d[k] = k
    OBVIOUS
<1>2. FoldedAt(ctx, base, s) = Folded(ctx, base, d)
    BY Zenon DEF FoldedAt, Folded, FoldLeftDomain
<1> HIDE DEF d
<1>3. PICK acc : Steps(acc, ctx, base, d, n) /\ Folded(ctx, base, d) = acc[n]
    BY <1>1, StepsOfSeq
<1>4. acc[0] = base /\ \A k \in 1 .. n : acc[k] = Op(ctx, acc[k - 1], k)
    <2>1. Steps(acc, ctx, base, d, n)
        BY <1>3, Zenon
    <2>2. QED
        BY <1>1, <2>1 DEF Steps
<1>5. QED
    BY <1>2, <1>3, <1>4, Zenon

(***************************************************************************)
(* The steps of a fold are determined.                                     *)
(***************************************************************************)
LEMMA SameSteps ==
    ASSUME NEW ctx, NEW base, NEW n \in Nat, NEW d, NEW e, \A k \in 1 .. n : d[k] = e[k],
           NEW acc, Steps(acc, ctx, base, d, n), NEW bcc, Steps(bcc, ctx, base, e, n)
    PROVE  \A k \in 0 .. n : acc[k] = bcc[k]
<1> DEFINE S == {k \in 0 .. n : acc[k] = bcc[k]}
<1>1. 0 \in S
    BY DEF Steps
<1>2. ASSUME NEW k \in 0 .. n - 1, k \in S PROVE k + 1 \in S
    <2>1. /\ acc[k + 1] = Op(ctx, acc[k], d[k + 1])
          /\ bcc[k + 1] = Op(ctx, bcc[k], e[k + 1])
          /\ d[k + 1] = e[k + 1]
        <3>1. k + 1 \in 1 .. n /\ (k + 1) - 1 = k
            OBVIOUS
        <3>2. QED
            BY <3>1 DEF Steps
    <2>2. QED
        BY <1>2, <2>1
<1>3. \A k \in 0 .. n : k \in S
    <2> HIDE DEF S
    <2> QED BY <1>1, <1>2, UpTo
<1>4. QED
    BY <1>3

(***************************************************************************)
(* A fold over the first n elements is the n-th of the steps.              *)
(***************************************************************************)
LEMMA FoldedTo ==
    ASSUME NEW ctx, NEW base, NEW S, NEW d \in Seq(S), NEW acc, Steps(acc, ctx, base, d, Len(d)),
           NEW n \in 0 .. Len(d)
    PROVE  Folded(ctx, base, SubSeq(d, 1, n)) = acc[n]
<1> DEFINE e == SubSeq(d, 1, n)
<1>1. DOMAIN e = 1 .. n /\ \A k \in 1 .. n : d[k] = e[k]
    OBVIOUS
<1>2. n \in Nat
    OBVIOUS
<1> HIDE DEF e
<1>3. PICK bcc : Steps(bcc, ctx, base, e, n) /\ Folded(ctx, base, e) = bcc[n]
    BY <1>1, <1>2, StepsOfSeq
<1>4. Steps(acc, ctx, base, d, n)
    BY DEF Steps
<1>5. acc[n] = bcc[n]
    BY <1>1, <1>2, <1>3, <1>4, SameSteps
<1>6. QED
    BY <1>3, <1>5 DEF e

(***************************************************************************)
(* A fold over nothing.                                                    *)
(***************************************************************************)
LEMMA FoldedNone ==
    ASSUME NEW ctx, NEW base
    PROVE  Folded(ctx, base, <<>>) = base
<1>1. DOMAIN <<>> = 1 .. 0 /\ 0 \in Nat
    OBVIOUS
<1>2. PICK acc : Steps(acc, ctx, base, <<>>, 0) /\ Folded(ctx, base, <<>>) = acc[0]
    BY <1>1, StepsOfSeq
<1>3. QED
    BY <1>2 DEF Steps

(***************************************************************************)
(* A fold over one more element.                                           *)
(***************************************************************************)
LEMMA FoldedNext ==
    ASSUME NEW ctx, NEW base, NEW S, NEW d \in Seq(S)
    PROVE  \A n \in 1 .. Len(d) : Folded(ctx, base, SubSeq(d, 1, n))
                                    = Op(ctx, Folded(ctx, base, SubSeq(d, 1, n - 1)), d[n])
<1>1. PICK acc : Steps(acc, ctx, base, d, Len(d))
    <2>1. Len(d) \in Nat /\ DOMAIN d = 1 .. Len(d)
        OBVIOUS
    <2>2. QED
        BY <2>1, StepsOfSeq
<1>2. \A n \in 0 .. Len(d) : Folded(ctx, base, SubSeq(d, 1, n)) = acc[n]
    BY <1>1, FoldedTo
<1>3. \A n \in 1 .. Len(d) : n \in 0 .. Len(d) /\ n - 1 \in 0 .. Len(d)
    OBVIOUS
<1>4. QED
    BY <1>1, <1>2, <1>3 DEF Steps

(***************************************************************************)
(* A fold over two sequences, one after the other.                         *)
(***************************************************************************)
LEMMA FoldedBoth ==
    ASSUME NEW ctx, NEW base, NEW S, NEW d \in Seq(S), NEW e \in Seq(S)
    PROVE  Folded(ctx, base, d \o e) = Folded(ctx, Folded(ctx, base, d), e)
<1> DEFINE f == d \o e
           n == Len(d)
           m == Len(e)
<1>1. f \in Seq(S) /\ Len(f) = n + m /\ n \in Nat /\ m \in Nat
    OBVIOUS
<1>2. /\ SubSeq(f, 1, n + m) = f /\ SubSeq(f, 1, n) = d /\ SubSeq(e, 1, m) = e
      /\ \A k \in 1 .. m : f[n + k] = e[k]
      /\ SubSeq(e, 1, 0) = <<>>
    OBVIOUS
<1> HIDE DEF f, n, m
<1> DEFINE Q == {k \in 0 .. m : Folded(ctx, base, SubSeq(f, 1, n + k))
                                 = Folded(ctx, Folded(ctx, base, d), SubSeq(e, 1, k))}
<1>3. 0 \in Q
    <2>1. n + 0 = n /\ 0 \in 0 .. m
        BY <1>1
    <2>2. Folded(ctx, Folded(ctx, base, d), SubSeq(e, 1, 0)) = Folded(ctx, base, d)
        BY <1>2, FoldedNone
    <2>3. QED
        BY <1>2, <2>1, <2>2
<1>4. ASSUME NEW k \in 0 .. m - 1, k \in Q PROVE k + 1 \in Q
    <2>1. /\ n + (k + 1) \in 1 .. Len(f) /\ (n + (k + 1)) - 1 = n + k
          /\ k + 1 \in 1 .. Len(e) /\ (k + 1) - 1 = k
        BY <1>1 DEF m
    <2>2. \A i \in 1 .. Len(f) : Folded(ctx, base, SubSeq(f, 1, i))
                                    = Op(ctx, Folded(ctx, base, SubSeq(f, 1, i - 1)), f[i])
        BY <1>1, FoldedNext, Zenon
    <2>3. \A b, i : i \in 1 .. Len(e) => Folded(ctx, b, SubSeq(e, 1, i))
                                          = Op(ctx, Folded(ctx, b, SubSeq(e, 1, i - 1)), e[i])
        BY FoldedNext, Zenon
    <2>4. Folded(ctx, base, SubSeq(f, 1, n + (k + 1)))
          = Op(ctx, Folded(ctx, base, SubSeq(f, 1, n + k)), f[n + (k + 1)])
        BY <2>1, <2>2, Zenon
    <2>5. \A b : Folded(ctx, b, SubSeq(e, 1, k + 1))
                  = Op(ctx, Folded(ctx, b, SubSeq(e, 1, k)), e[k + 1])
        BY <2>1, <2>3, Zenon
    <2>6. f[n + (k + 1)] = e[k + 1] /\ k + 1 \in 0 .. m
        BY <1>1, <1>2
    <2>7. QED
        BY <1>4, <2>4, <2>5, <2>6
<1>5. \A k \in 0 .. m : k \in Q
    <2> HIDE DEF Q
    <2> QED BY <1>1, <1>3, <1>4, UpTo
<1>6. m \in Q
    <2> HIDE DEF Q
    <2> QED BY <1>1, <1>5
<1>7. QED
    BY <1>2, <1>6 DEF f

\* A recursive function: its value at d depends on its value at nx[d] ...
Unfolds(f, ctx, D, nx) == f = [d \in D |-> Op(ctx, f[nx[d]], d)]

\* ... where the measure mu is less, or on no other value.
Descends(ctx, D, mu, nx) ==
    \A d \in D : \/ nx[d] \in D /\ mu[nx[d]] < mu[d]
                 \/ \A v, w : Op(ctx, v, d) = Op(ctx, w, d)

(***************************************************************************)
(* There is such a function.                                               *)
(***************************************************************************)
LEMMA RecursionExists ==
    ASSUME NEW ctx, NEW D, NEW N \in Nat, NEW mu \in [D -> 0 .. N], NEW nx,
           Descends(ctx, D, mu, nx)
    PROVE  \E f : Unfolds(f, ctx, D, nx)
<1> DEFINE To(m) == {d \in D : mu[d] < m}
           S == {m \in 0 .. N + 1 : \E f : f = [d \in To(m) |-> Op(ctx, f[nx[d]], d)]}
<1>1. 0 \in S
    <2> DEFINE f == [d \in To(0) |-> 0]
    <2>1. To(0) = {}
        OBVIOUS
    <2>2. f = [d \in To(0) |-> Op(ctx, f[nx[d]], d)] /\ 0 \in 0 .. N + 1
        BY <2>1
    <2>3. QED
        <3> HIDE DEF f, To
        <3> QED BY <2>2
<1>2. ASSUME NEW m \in 0 .. (N + 1) - 1, m \in S PROVE m + 1 \in S
    <2>1. PICK f : f = [d \in To(m) |-> Op(ctx, f[nx[d]], d)]
        BY <1>2
    <2> DEFINE g == [d \in To(m + 1) |-> Op(ctx, f[nx[d]], d)]
    <2>2. \A d \in To(m) : d \in To(m + 1) /\ g[d] = f[d]
        BY <2>1
    <2>3. ASSUME NEW d \in To(m + 1) PROVE Op(ctx, g[nx[d]], d) = Op(ctx, f[nx[d]], d)
        <3>1. CASE nx[d] \in D /\ mu[nx[d]] < mu[d]
            <4>1. nx[d] \in To(m)
                BY <3>1
            <4>2. QED
                BY <2>2, <4>1
        <3>2. CASE \A v, w : Op(ctx, v, d) = Op(ctx, w, d)
            BY <3>2
        <3>3. QED
            BY <3>1, <3>2 DEF Descends
    <2>4. g = [d \in To(m + 1) |-> Op(ctx, g[nx[d]], d)]
        BY <2>3
    <2>5. m + 1 \in 0 .. N + 1
        OBVIOUS
    <2>6. QED
        <3> HIDE DEF g, To
        <3> QED BY <2>4, <2>5
<1>3. \A m \in 0 .. N + 1 : m \in S
    <2> HIDE DEF S
    <2> QED BY <1>1, <1>2, UpTo
<1>4. To(N + 1) = D
    OBVIOUS
<1>5. N + 1 \in S
    <2> HIDE DEF S
    <2> QED BY <1>3
<1>6. PICK f : f = [d \in To(N + 1) |-> Op(ctx, f[nx[d]], d)]
    BY <1>5
<1>7. QED
    <2> HIDE DEF To
    <2> QED BY <1>4, <1>6 DEF Unfolds

=============================================================================
