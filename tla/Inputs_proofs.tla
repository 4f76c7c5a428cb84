---------------------------- MODULE Inputs_proofs ----------------------------
(***************************************************************************)
(* The line parsers of http1.h read their language and nothing else, and   *)
(* what they have decided stays decided; cmdarg-scheme.h reads the command *)
(* lines that are well-formed: for every text and every number of          *)
(* arguments, not only for the short ones of the run `syntax`.             *)
(***************************************************************************)
EXTENDS Reading, TLAPS, FiniteSetTheorems, SequenceTheorems, WellFoundedInduction

\* The texts of the symbols of http1.h, of any length.
Symbol == Printable \cup {"SP", "CR", "LF", "c"}
Text == Seq(Symbol)

(***************************************************************************)
(* A set of positions that is not empty has a first one.                   *)
(***************************************************************************)
LEMMA FirstOf ==
    ASSUME NEW k \in Int, NEW M \in Int, NEW Q \in SUBSET (k .. M), Q # {}
    PROVE  \E j \in Q : \A m \in k .. j - 1 : m \notin Q
<1> DEFINE T == {q - k : q \in Q}
<1>1. T \subseteq Nat /\ T # {}
    OBVIOUS
<1>2. PICK t \in T : \A y \in T : ~(<<y, t>> \in OpToRel(<, Nat))
    BY <1>1, NatLessThanWellFounded, WFMin, Zenon
<1>3. PICK j \in Q : t = j - k
    OBVIOUS
<1>4. \A m \in k .. j - 1 : m \notin Q
    <2>1. SUFFICES ASSUME NEW m \in k .. j - 1, m \in Q PROVE FALSE
        OBVIOUS
    <2>2. m - k \in T /\ m - k \in Nat /\ t \in Nat /\ m - k < t
        BY <1>3, <2>1
    <2>3. <<m - k, t>> \in OpToRel(<, Nat)
        BY <2>2, Zenon DEF OpToRel
    <2>4. QED
        BY <1>2, <2>2, <2>3
<1>5. QED
    BY <1>4

(***************************************************************************)
(* Where the text from position k on leaves S.                             *)
(***************************************************************************)
Leaves(s, k, S, j) ==
    /\ j \in k .. Len(s) + 1
    /\ j <= Len(s) => s[j] \notin S
    /\ \A m \in k .. j - 1 : s[m] \in S

\* Past is where the symbols of S, from `k` on, end.
LEMMA PastIs ==
    ASSUME NEW s \in Text, NEW S, NEW k \in 1 .. Len(s) + 1
    PROVE  Leaves(s, k, S, Past(s, k, S))
<1> DEFINE Q == {j \in k .. Len(s) + 1 : j <= Len(s) => s[j] \notin S}
<1>1. Q \in SUBSET (k .. Len(s) + 1) /\ Len(s) + 1 \in Q /\ k \in Int /\ Len(s) + 1 \in Int
    BY DEF Text
<1>2. PICK j \in Q : \A m \in k .. j - 1 : m \notin Q
    <2> HIDE DEF Q
    <2> QED BY <1>1, FirstOf
<1>3. \E i \in k .. Len(s) + 1 : (i <= Len(s) => s[i] \notin S) /\ \A m \in k .. i - 1 : s[m] \in S
    BY <1>1, <1>2
<1>4. QED
    BY <1>3 DEF Past, Leaves

\* No other position is Past.
LEMMA PastUnique ==
    ASSUME NEW s \in Text, NEW S, NEW k \in 1 .. Len(s) + 1, NEW j, Leaves(s, k, S, j)
    PROVE  Past(s, k, S) = j
<1>1. Leaves(s, k, S, Past(s, k, S))
    BY PastIs
<1> DEFINE i == Past(s, k, S)
<1>2. ~(i < j) /\ ~(j < i)
    BY <1>1 DEF Leaves, Text
<1>3. QED
    BY <1>1, <1>2 DEF Leaves, Text

\* Where the text from position k on comes to S.
Meets(s, k, S, j) ==
    /\ j \in k .. Len(s) + 1
    /\ j <= Len(s) => s[j] \in S
    /\ \A m \in k .. j - 1 : s[m] \notin S

\* Find is where the first symbol of S is, from `k` on.
LEMMA FindIs ==
    ASSUME NEW s \in Text, NEW S, NEW k \in 1 .. Len(s) + 1
    PROVE  Meets(s, k, S, Find(s, k, S))
<1> DEFINE Q == {j \in k .. Len(s) + 1 : j <= Len(s) => s[j] \in S}
<1>1. Q \in SUBSET (k .. Len(s) + 1) /\ Len(s) + 1 \in Q /\ k \in Int /\ Len(s) + 1 \in Int
    BY DEF Text
<1>2. PICK j \in Q : \A m \in k .. j - 1 : m \notin Q
    <2> HIDE DEF Q
    <2> QED BY <1>1, FirstOf
<1>3. \E i \in k .. Len(s) + 1 : (i <= Len(s) => s[i] \in S) /\ \A m \in k .. i - 1 : s[m] \notin S
    BY <1>1, <1>2
<1>4. QED
    BY <1>3 DEF Find, Meets

-----------------------------------------------------------------------------
(* Parts of a text *)

\* The first m symbols of a text.
LEMMA CutIs ==
    ASSUME NEW s \in Text, NEW m \in 0 .. Len(s)
    PROVE  /\ SubSeq(s, 1, m) \in Text /\ Len(SubSeq(s, 1, m)) = m
           /\ \A i \in 1 .. m : SubSeq(s, 1, m)[i] = s[i]
           /\ \A a \in 1 .. m + 1, b \in 0 .. m :
                SubSeq(SubSeq(s, 1, m), a, b) = SubSeq(s, a, b)
<1>1. \A i \in 1 .. m : s[i] \in Symbol
    BY DEF Text
<1>2. /\ SubSeq(s, 1, m) \in Text /\ Len(SubSeq(s, 1, m)) = m
      /\ \A i \in 1 .. m : SubSeq(s, 1, m)[i] = s[i]
    BY <1>1, SubSeqProperties DEF Text
<1>3. ASSUME NEW a \in 1 .. m + 1, NEW b \in 0 .. m
      PROVE  SubSeq(SubSeq(s, 1, m), a, b) = SubSeq(s, a, b)
    BY <1>2 DEF Text
<1>4. QED
    BY <1>2, <1>3

\* Texts of one and of two symbols.
LEMMA OneOrTwo ==
    ASSUME NEW S, NEW r \in Seq(S)
    PROVE  /\ \A x : r = <<x>> <=> Len(r) = 1 /\ r[1] = x
           /\ \A x, y : r = <<x, y>> <=> Len(r) = 2 /\ r[1] = x /\ r[2] = y
<1>1. ASSUME Len(r) = 1 PROVE r = <<r[1]>>
    <2>1. r[1] \in S
        BY <1>1, ElementOfSeq
    <2>2. <<r[1]>> \in Seq(S) /\ Len(<<r[1]>>) = 1 /\ <<r[1]>>[1] = r[1]
        BY <2>1
    <2>3. QED
        BY <1>1, <2>2, SeqEqual
<1>2. ASSUME Len(r) = 2 PROVE r = <<r[1], r[2]>>
    <2>1. <<r[1], r[2]>> \in Seq(S)
        BY <1>2
    <2>2. QED
        BY <1>2, <2>1, SeqEqual
<1>3. QED
    BY <1>1, <1>2

\* A line's end is LF, or CR LF, and nothing after it.
LEMMA EndsAtIs ==
    ASSUME NEW s \in Text, NEW k \in 1 .. Len(s) + 1
    PROVE  EndsAt(s, k) <=> \/ k = Len(s) /\ s[k] = "LF"
                            \/ k + 1 = Len(s) /\ s[k] = "CR" /\ s[k + 1] = "LF"
<1> DEFINE r == SubSeq(s, k, Len(s))
<1>1. \A i \in k .. Len(s) : s[i] \in Symbol
    BY DEF Text
<1>2. r \in Text /\ Len(r) = Len(s) - k + 1 /\ \A i \in 1 .. Len(s) - k + 1 : r[i] = s[k + i - 1]
    <2>1. k \in Int /\ Len(s) \in Int
        BY DEF Text
    <2>2. /\ r \in Seq(Symbol) /\ Len(r) = (IF k <= Len(s) THEN Len(s) - k + 1 ELSE 0)
          /\ \A i \in 1 .. Len(s) - k + 1 : r[i] = s[k + i - 1]
        BY <1>1, <2>1, SubSeqProperties
    <2> HIDE DEF r
    <2>3. QED
        BY <2>1, <2>2 DEF Text
<1> HIDE DEF r
<1>3. r = <<"LF">> <=> Len(r) = 1 /\ r[1] = "LF"
    <2>1. r \in Seq(Symbol)
        BY <1>2 DEF Text
    <2>2. \A x : r = <<x>> <=> Len(r) = 1 /\ r[1] = x
        BY <2>1, OneOrTwo
    <2>3. QED
        BY <2>2, Zenon
<1>4. r = <<"CR", "LF">> <=> Len(r) = 2 /\ r[1] = "CR" /\ r[2] = "LF"
    <2>1. r \in Seq(Symbol)
        BY <1>2 DEF Text
    <2>2. \A x, y : r = <<x, y>> <=> Len(r) = 2 /\ r[1] = x /\ r[2] = y
        BY <2>1, OneOrTwo
    <2>3. QED
        BY <2>2, Zenon
<1>5. QED
    BY <1>2, <1>3, <1>4 DEF EndsAt, Text, r

\* What LineEnd gives.
Ended(s, k, part, p) ==
    /\ p.n \in {-1, 0} \/ (p.n \in k .. Len(s) /\ p = [n |-> p.n, part |-> part])
    /\ \A n \in k .. Len(s) : p.n = n <=> \/ n = k /\ s[k] = "LF"
                                          \/ n = k + 1 /\ s[k] = "CR" /\ s[n] = "LF"
    /\ p.n = 0 <=> k = Len(s) + 1 \/ (k = Len(s) /\ s[k] = "CR")

\* LineEnd accepts CR LF and LF, refuses other text, and waits for what may still come.
LEMMA LineEndIs ==
    ASSUME NEW s \in Text, NEW k \in 1 .. Len(s) + 1, NEW part
    PROVE  Ended(s, k, part, LineEnd(s, k, part))
    BY DEF LineEnd, Ended, More, Bad, Text

\* `t` is `s` and more.
Extends(t, s) ==
    /\ s \in Text /\ t \in Text /\ Len(s) <= Len(t)
    /\ \A i \in 1 .. Len(s) : t[i] = s[i]

\* More data does not move a position that was found.
LEMMA PastKept ==
    ASSUME NEW s, NEW t, Extends(t, s), NEW S, NEW k \in 1 .. Len(s) + 1, Past(s, k, S) <= Len(s)
    PROVE  Past(t, k, S) = Past(s, k, S)
<1>1. s \in Text /\ t \in Text /\ k \in 1 .. Len(t) + 1
    BY DEF Extends, Text
<1>2. Leaves(s, k, S, Past(s, k, S))
    BY <1>1, PastIs
<1>3. Leaves(t, k, S, Past(s, k, S))
    BY <1>2 DEF Leaves, Extends, Text
<1>4. QED
    BY <1>1, <1>3, PastUnique

\* What a parser went over is a part of the line.
LEMMA LeavesCut ==
    ASSUME NEW s \in Text, NEW S, NEW k \in 1 .. Len(s) + 1, NEW j, Leaves(s, k, S, j),
           NEW n \in 0 .. Len(s), j - 1 <= n
    PROVE  In(SubSeq(s, 1, n), k, j - 1, S)
<1>1. /\ SubSeq(s, 1, n) \in Text /\ Len(SubSeq(s, 1, n)) = n
      /\ \A i \in 1 .. n : SubSeq(s, 1, n)[i] = s[i]
    BY CutIs
<1>2. DOMAIN SubSeq(s, 1, n) = 1 .. n
    BY <1>1 DEF Text
<1>3. \A i \in k .. j - 1 : i \in 1 .. n /\ s[i] \in S
    BY DEF Leaves, Text
<1>4. QED
    BY <1>1, <1>2, <1>3 DEF In

\* The end of the line.
LEMMA EndsCut ==
    ASSUME NEW s \in Text, NEW k \in 1 .. Len(s), NEW n \in k .. Len(s),
           \/ n = k /\ s[k] = "LF"
           \/ n = k + 1 /\ s[k] = "CR" /\ s[n] = "LF"
    PROVE  EndsAt(SubSeq(s, 1, n), k)
<1>1. n \in 0 .. Len(s) /\ k \in 1 .. n + 1 /\ k \in 1 .. n /\ n \in 1 .. n
    BY DEF Text
<1>2. /\ SubSeq(s, 1, n) \in Text /\ Len(SubSeq(s, 1, n)) = n
      /\ \A i \in 1 .. n : SubSeq(s, 1, n)[i] = s[i]
    BY <1>1, CutIs
<1>3. SubSeq(s, 1, n)[k] = s[k] /\ SubSeq(s, 1, n)[n] = s[n]
    BY <1>1, <1>2
<1> DEFINE r == SubSeq(s, 1, n)
<1>4. /\ r \in Text /\ Len(r) = n /\ k \in 1 .. Len(r) + 1
      /\ \/ k = Len(r) /\ r[k] = "LF"
         \/ k + 1 = Len(r) /\ r[k] = "CR" /\ r[k + 1] = "LF"
    BY <1>1, <1>2, <1>3
<1> HIDE DEF r
<1>5. EndsAt(r, k)
    BY <1>4, EndsAtIs
<1>6. QED
    BY <1>5 DEF r

\* And a part of the line is one of the text.
LEMMA InText ==
    ASSUME NEW s \in Text, NEW n \in 0 .. Len(s)
    PROVE  \A S : \A a, b \in Int : In(SubSeq(s, 1, n), a, b, S) =>
              \A k \in a .. b : k \in 1 .. n /\ s[k] \in S
<1>1. /\ SubSeq(s, 1, n) \in Text /\ Len(SubSeq(s, 1, n)) = n
      /\ \A i \in 1 .. n : SubSeq(s, 1, n)[i] = s[i]
    BY CutIs
<1>2. DOMAIN SubSeq(s, 1, n) = 1 .. n
    BY <1>1 DEF Text
<1>3. QED
    BY <1>1, <1>2 DEF In

\* The end of a line that is cut from a text, in the text.
LEMMA EndsInText ==
    ASSUME NEW s \in Text, NEW n \in 1 .. Len(s), NEW k \in 1 .. n, EndsAt(SubSeq(s, 1, n), k)
    PROVE  \/ n = k /\ s[k] = "LF"
           \/ n = k + 1 /\ s[k] = "CR" /\ s[n] = "LF"
<1> DEFINE line == SubSeq(s, 1, n)
<1>1. n \in 0 .. Len(s) /\ k \in 1 .. n + 1 /\ k \in 1 .. n /\ n \in 1 .. n /\ n \in Int
    BY DEF Text
<1>2. line \in Text /\ Len(line) = n /\ \A i \in 1 .. n : line[i] = s[i]
    BY <1>1, CutIs
<1>3. EndsAt(line, k)
    OBVIOUS
<1> HIDE DEF line
<1>4. line[k] = s[k] /\ line[n] = s[n]
    BY <1>1, <1>2
<1>5. \/ k = n /\ line[k] = "LF"
      \/ k + 1 = n /\ line[k] = "CR" /\ line[k + 1] = "LF"
    BY <1>1, <1>2, <1>3, EndsAtIs
<1>6. QED
    BY <1>1, <1>4, <1>5

-----------------------------------------------------------------------------
(* The bytes of symbols *)

Hs(s, a, b) == {k \in a .. b : s[k] = "H"}

\* Bytes is a length: the symbols, and six more for each "HTTP/1.".
LEMMA BytesIs ==
    ASSUME NEW s \in Text, NEW a \in 1 .. Len(s) + 1, NEW b \in a - 1 .. Len(s)
    PROVE  /\ IsFiniteSet(Hs(s, a, b)) /\ Cardinality(Hs(s, a, b)) \in 0 .. b - a + 1
           /\ Bytes(s, a, b) = b - a + 1 + 6 * Cardinality(Hs(s, a, b))
           /\ Bytes(s, a, b) \in Int
<1>1. a \in Int /\ b \in Int /\ Hs(s, a, b) \in SUBSET (a .. b)
    BY DEF Hs, Text
<1>2. IsFiniteSet(a .. b) /\ Cardinality(a .. b) = b - a + 1
    <2>1. IsFiniteSet(a .. b) /\ Cardinality(a .. b) = IF a > b THEN 0 ELSE b - a + 1
        BY <1>1, FS_Interval, Zenon
    <2>2. QED
        BY <1>1, <2>1
<1>3. /\ IsFiniteSet(Hs(s, a, b)) /\ Cardinality(Hs(s, a, b)) <= b - a + 1
      /\ Cardinality(Hs(s, a, b)) \in Nat
    BY <1>1, <1>2, FS_Subset, FS_CardinalityType
<1>4. Bytes(s, a, b) = b - a + 1 + 6 * Cardinality(Hs(s, a, b))
    BY DEF Bytes, Hs
<1>5. QED
    BY <1>1, <1>3, <1>4

\* Eight bytes are two symbols at least; "HTTP/1." and another symbol are eight.
LEMMA BytesOfVersion ==
    ASSUME NEW s \in Text, NEW a \in 1 .. Len(s) + 1, NEW b \in a - 1 .. Len(s)
    PROVE  /\ Bytes(s, a, b) >= 8 => a + 1 <= b
           /\ a + 1 <= b /\ s[a] = "H" => Bytes(s, a, b) >= 8
           /\ a + 1 = b /\ s[a] = "H" /\ s[b] # "H" => Bytes(s, a, b) = 8
<1> DEFINE c == Cardinality(Hs(s, a, b))
<1>1. c \in 0 .. b - a + 1 /\ Bytes(s, a, b) = b - a + 1 + 6 * c /\ a \in Int /\ b \in Int
    BY BytesIs DEF Text
<1>2. ASSUME a <= b, s[a] = "H" PROVE c >= 1
    <2>1. {a} \in SUBSET Hs(s, a, b)
        BY <1>1, <1>2 DEF Hs
    <2>2. IsFiniteSet(Hs(s, a, b))
        BY BytesIs
    <2>3. Cardinality({a}) = 1 /\ Cardinality({a}) <= c
        BY <2>1, <2>2, FS_Subset, FS_Singleton, Zenon
    <2>4. QED
        BY <1>1, <2>3
<1>3. ASSUME a + 1 = b, s[a] = "H", s[b] # "H" PROVE c = 1
    <2>1. {a} = Hs(s, a, b)
        BY <1>1, <1>3 DEF Hs
    <2>2. QED
        BY <2>1, FS_Singleton
<1> HIDE DEF c
<1>4. QED
    BY <1>1, <1>2, <1>3

\* More symbols are more bytes.
LEMMA BytesGrow ==
    ASSUME NEW s, NEW t, Extends(t, s), NEW a \in 1 .. Len(s) + 1, NEW b \in a - 1 .. Len(s),
           NEW c \in b .. Len(t)
    PROVE  Bytes(s, a, b) <= Bytes(t, a, c) /\ Bytes(s, a, b) = Bytes(t, a, b)
<1>1. a \in Int /\ b \in Int /\ c \in Int /\ a \in 1 .. Len(t) + 1 /\ c \in a - 1 .. Len(t)
    BY DEF Extends, Text
<1>2. Hs(s, a, b) = Hs(t, a, b) /\ Hs(s, a, b) \in SUBSET Hs(t, a, c)
    BY <1>1 DEF Hs, Extends, Text
<1>3. s \in Text /\ t \in Text /\ b \in a - 1 .. Len(t)
    BY <1>1 DEF Extends, Text
<1>4. /\ Bytes(s, a, b) = b - a + 1 + 6 * Cardinality(Hs(s, a, b))
      /\ Bytes(t, a, c) = c - a + 1 + 6 * Cardinality(Hs(t, a, c))
      /\ Bytes(t, a, b) = b - a + 1 + 6 * Cardinality(Hs(t, a, b))
      /\ Cardinality(Hs(s, a, b)) \in Int /\ Cardinality(Hs(t, a, c)) \in Int
      /\ IsFiniteSet(Hs(t, a, c))
    <2>1. IsFiniteSet(Hs(t, a, c)) /\ Cardinality(Hs(t, a, c)) \in Int
          /\ Bytes(t, a, c) = c - a + 1 + 6 * Cardinality(Hs(t, a, c))
        BY <1>1, <1>3, BytesIs
    <2>2. Cardinality(Hs(s, a, b)) \in Int
          /\ Bytes(s, a, b) = b - a + 1 + 6 * Cardinality(Hs(s, a, b))
        BY <1>3, BytesIs
    <2>3. Bytes(t, a, b) = b - a + 1 + 6 * Cardinality(Hs(t, a, b))
        BY <1>1, <1>3, BytesIs
    <2>4. QED
        BY <2>1, <2>2, <2>3
<1>5. Cardinality(Hs(s, a, b)) <= Cardinality(Hs(t, a, c))
    BY <1>2, <1>4, FS_Subset
<1>6. QED
    BY <1>1, <1>2, <1>4, <1>5

-----------------------------------------------------------------------------
(* The request line *)

\* Where the parts of a request line end, as ReqParse looks for it.
ReqPlaces(s, m, u, e, v, w, x) ==
    /\ m = Past(s, 1, {"U"})
    /\ u = Past(s, m + 1, {"SP"})
    /\ e = Past(s, u, Printable)
    /\ v = Past(s, e + 1, {"SP"})
    /\ w = Past(s, v, Printable)
    /\ x = Past(s, w, {"SP"})

ReqSpans(s, m, u, e, v, w, x) ==
    /\ Leaves(s, 1, {"U"}, m) /\ m \in 1 .. Len(s) + 1
    /\ m <= Len(s) => /\ Leaves(s, m + 1, {"SP"}, u) /\ u \in m + 1 .. Len(s) + 1
                      /\ Leaves(s, u, Printable, e) /\ e \in u .. Len(s) + 1
    /\ m <= Len(s) /\ e <= Len(s) =>
         /\ Leaves(s, e + 1, {"SP"}, v) /\ v \in e + 1 .. Len(s) + 1
         /\ Leaves(s, v, Printable, w) /\ w \in v .. Len(s) + 1
         /\ Leaves(s, w, {"SP"}, x) /\ x \in w .. Len(s) + 1

\* What it makes of them.
ReqAt(s, m, u, e, v, w, x) ==
    IF m > Len(s) THEN More
    ELSE IF m = 1 \/ s[m] # "SP" THEN Bad(-1)
    ELSE IF u > Len(s) \/ e > Len(s) THEN More
    ELSE IF e = u \/ s[e] # "SP" THEN Bad(-1)
    ELSE IF v > Len(s) THEN More
    ELSE IF Bytes(s, v, Len(s)) >= 8 /\ SubSeq(s, v, v + 1) \notin Versions THEN Bad(-1)
    ELSE IF w > Len(s) THEN IF VersionUnfinished(s, v) THEN More ELSE Bad(-1)
    ELSE IF Bytes(s, v, w - 1) < 8 THEN Bad(-1)
    ELSE IF x > Len(s) THEN More
    ELSE LineEnd(s, x, <<SubSeq(s, 1, m - 1), SubSeq(s, u, e - 1), SubSeq(s, v, w - 1)>>)

\* http_req_parse, by the places that it finds.
LEMMA ReqParseIs ==
    ASSUME NEW s, NEW m, NEW u, NEW e, NEW v, NEW w, NEW x, ReqPlaces(s, m, u, e, v, w, x)
    PROVE  ReqParse(s) = ReqAt(s, m, u, e, v, w, x)
    BY DEF ReqParse, ReqAt, ReqPlaces

\* Those places are where the parts end, as far as there are any.
LEMMA ReqPlacesAre ==
    ASSUME NEW s \in Text, NEW m, NEW u, NEW e, NEW v, NEW w, NEW x,
           ReqPlaces(s, m, u, e, v, w, x)
    PROVE  ReqSpans(s, m, u, e, v, w, x)
<1>1. Len(s) \in Nat
    BY DEF Text
<1>2. ASSUME NEW S, NEW k \in 1 .. Len(s) + 1, NEW j, j = Past(s, k, S)
      PROVE  Leaves(s, k, S, j) /\ j \in k .. Len(s) + 1
    BY <1>2, PastIs DEF Leaves
<1>3. Leaves(s, 1, {"U"}, m) /\ m \in 1 .. Len(s) + 1
    BY <1>1, <1>2 DEF ReqPlaces
<1>4. ASSUME m <= Len(s)
      PROVE  /\ Leaves(s, m + 1, {"SP"}, u) /\ u \in m + 1 .. Len(s) + 1
             /\ Leaves(s, u, Printable, e) /\ e \in u .. Len(s) + 1
    <2>1. m + 1 \in 1 .. Len(s) + 1 /\ u = Past(s, m + 1, {"SP"}) /\ e = Past(s, u, Printable)
        BY <1>1, <1>3, <1>4 DEF ReqPlaces
    <2>2. Leaves(s, m + 1, {"SP"}, u) /\ u \in m + 1 .. Len(s) + 1
        BY <1>2, <2>1
    <2>3. u \in 1 .. Len(s) + 1
        BY <1>1, <1>3, <2>2
    <2>4. Leaves(s, u, Printable, e) /\ e \in u .. Len(s) + 1
        BY <1>2, <2>1, <2>3
    <2>5. QED
        BY <2>2, <2>4
<1>5. ASSUME m <= Len(s), e <= Len(s)
      PROVE  /\ Leaves(s, e + 1, {"SP"}, v) /\ v \in e + 1 .. Len(s) + 1
             /\ Leaves(s, v, Printable, w) /\ w \in v .. Len(s) + 1
             /\ Leaves(s, w, {"SP"}, x) /\ x \in w .. Len(s) + 1
    <2>1. /\ e + 1 \in 1 .. Len(s) + 1 /\ v = Past(s, e + 1, {"SP"}) /\ w = Past(s, v, Printable)
          /\ x = Past(s, w, {"SP"})
        BY <1>1, <1>3, <1>4, <1>5 DEF ReqPlaces
    <2>2. Leaves(s, e + 1, {"SP"}, v) /\ v \in e + 1 .. Len(s) + 1
        BY <1>2, <2>1
    <2>3. v \in 1 .. Len(s) + 1
        BY <1>1, <2>1, <2>2
    <2>4. Leaves(s, v, Printable, w) /\ w \in v .. Len(s) + 1
        BY <1>2, <2>1, <2>3
    <2>5. w \in 1 .. Len(s) + 1
        BY <1>1, <2>3, <2>4
    <2>6. Leaves(s, w, {"SP"}, x) /\ x \in w .. Len(s) + 1
        BY <1>2, <2>1, <2>5
    <2>7. QED
        BY <2>2, <2>4, <2>6
<1>6. QED
    BY <1>3, <1>4, <1>5 DEF ReqSpans

(***************************************************************************)
(* The text up to n is a line, with the parts `part`: its first LF is      *)
(* there.                                                                  *)
(***************************************************************************)
FirstLine(s, n) ==
    n \in 1 .. Len(s) /\ s[n] = "LF" /\ \A k \in 1 .. n - 1 : s[k] # "LF"

\* Spaces and line ends are not printable.
LEMMA SymbolsDiffer ==
    /\ "SP" \notin Printable /\ "CR" \notin Printable /\ "LF" \notin Printable
    /\ "U" \in Printable /\ "H" \in Printable
    BY DEF Printable, Name, Digit

RequestOf(s, part) == IsRequest(s, LAMBDA f : f = part)

\* What http_req_parse accepts is a request line.
LEMMA ReqAccepts ==
    ASSUME NEW s \in Text, NEW p, p = ReqParse(s), p.n \notin {-1, 0}
    PROVE  /\ FirstLine(s, p.n)
           /\ RequestOf(SubSeq(s, 1, p.n), p.part)
<1>1. PICK m, u, e, v, w, x : ReqPlaces(s, m, u, e, v, w, x)
    BY DEF ReqPlaces
<1> DEFINE part == <<SubSeq(s, 1, m - 1), SubSeq(s, u, e - 1), SubSeq(s, v, w - 1)>>
           n == p.n
           line == SubSeq(s, 1, n)
<1>2. Len(s) \in Nat /\ p = ReqAt(s, m, u, e, v, w, x)
    BY <1>1, ReqParseIs DEF Text
<1>3. ReqSpans(s, m, u, e, v, w, x)
    BY <1>1, ReqPlacesAre
<1>4. /\ m <= Len(s) /\ m # 1 /\ s[m] = "SP" /\ u <= Len(s) /\ e <= Len(s) /\ e # u /\ s[e] = "SP"
      /\ v <= Len(s) /\ (Bytes(s, v, Len(s)) >= 8 => SubSeq(s, v, v + 1) \in Versions)
      /\ w <= Len(s) /\ ~(Bytes(s, v, w - 1) < 8) /\ x <= Len(s)
      /\ p = LineEnd(s, x, part)
    <2>1. More.n = 0 /\ Bad(-1).n = -1
        BY DEF More, Bad
    <2>2. /\ ~(m > Len(s)) /\ ~(m = 1) /\ s[m] = "SP" /\ ~(u > Len(s)) /\ ~(e > Len(s)) /\ e # u
          /\ s[e] = "SP" /\ ~(v > Len(s))
          /\ (Bytes(s, v, Len(s)) >= 8 => SubSeq(s, v, v + 1) \in Versions)
          /\ ~(w > Len(s)) /\ ~(Bytes(s, v, w - 1) < 8) /\ ~(x > Len(s))
          /\ p = LineEnd(s, x, part)
        BY <1>2, <2>1 DEF ReqAt
    <2>3. m \in Int /\ (m <= Len(s) => u \in Int /\ e \in Int)
          /\ (m <= Len(s) /\ e <= Len(s) => v \in Int /\ w \in Int /\ x \in Int)
        BY <1>2, <1>3 DEF ReqSpans
    <2> HIDE DEF part
    <2>4. QED
        BY <1>2, <2>2, <2>3
<1>5. /\ Leaves(s, 1, {"U"}, m) /\ Leaves(s, m + 1, {"SP"}, u) /\ Leaves(s, u, Printable, e)
      /\ Leaves(s, e + 1, {"SP"}, v) /\ Leaves(s, v, Printable, w) /\ Leaves(s, w, {"SP"}, x)
      /\ m \in 2 .. Len(s) /\ u \in m + 1 .. Len(s) /\ e \in u + 1 .. Len(s)
      /\ v \in e + 1 .. Len(s) /\ w \in v .. Len(s) /\ x \in w .. Len(s)
    <2>1. /\ m \in 1 .. Len(s) + 1 /\ u \in m + 1 .. Len(s) + 1 /\ e \in u .. Len(s) + 1
          /\ v \in e + 1 .. Len(s) + 1 /\ w \in v .. Len(s) + 1 /\ x \in w .. Len(s) + 1
        BY <1>4, <1>3, Zenon DEF ReqSpans
    <2>2. /\ Leaves(s, 1, {"U"}, m) /\ Leaves(s, m + 1, {"SP"}, u) /\ Leaves(s, u, Printable, e)
          /\ Leaves(s, e + 1, {"SP"}, v) /\ Leaves(s, v, Printable, w) /\ Leaves(s, w, {"SP"}, x)
        BY <1>4, <1>3, Zenon DEF ReqSpans
    <2> HIDE DEF part
    <2>3. QED
        BY <1>2, <1>4, <2>1, <2>2
<1> HIDE DEF part
<1>6. Ended(s, x, part, p)
    <2>1. x \in 1 .. Len(s) + 1
        BY <1>2, <1>5
    <2>2. QED
        BY <1>4, <2>1, LineEndIs
<1>7. n \in x .. Len(s) /\ p = [n |-> n, part |-> part]
    BY <1>6 DEF Ended
<1>8. (n = x /\ s[x] = "LF") \/ (n = x + 1 /\ s[x] = "CR" /\ s[n] = "LF")
    BY <1>7, <1>6 DEF Ended
<1>9. v + 1 <= w - 1 /\ Bytes(s, v, Len(s)) >= 8
    <2>1. v \in 1 .. Len(s) + 1 /\ w - 1 \in v - 1 .. Len(s) /\ Len(s) \in w - 1 .. Len(s)
        BY <1>2, <1>5
    <2>2. Extends(s, s) /\ Bytes(s, v, w - 1) \in Int /\ Bytes(s, v, Len(s)) \in Int
        BY <1>2, <2>1, BytesIs DEF Extends
    <2>3. Bytes(s, v, w - 1) <= Bytes(s, v, Len(s))
        BY <2>1, <2>2, BytesGrow
    <2>4. QED
        BY <1>4, <2>1, <2>2, <2>3, BytesOfVersion
<1>10. FirstLine(s, n)
    <2>1. s[m] # "LF" /\ s[e] # "LF"
        BY <1>4
    <2>2. \A k \in 1 .. x - 1 : s[k] # "LF"
        <3>1. \A k \in 1 .. m - 1 : s[k] # "LF"
            BY <1>5 DEF Leaves
        <3>2. \A k \in m + 1 .. u - 1 : s[k] # "LF"
            BY <1>5 DEF Leaves
        <3>3. \A k \in u .. e - 1 : s[k] # "LF"
            BY <1>5, SymbolsDiffer DEF Leaves
        <3>4. \A k \in e + 1 .. v - 1 : s[k] # "LF"
            BY <1>5 DEF Leaves
        <3>5. \A k \in v .. w - 1 : s[k] # "LF"
            BY <1>5, SymbolsDiffer DEF Leaves
        <3>6. \A k \in w .. x - 1 : s[k] # "LF"
            BY <1>5 DEF Leaves
        <3>7. QED
            BY <1>2, <1>5, <2>1, <3>1, <3>2, <3>3, <3>4, <3>5, <3>6
    <2> HIDE DEF n
    <2>3. n \in 1 .. Len(s) /\ \A k \in 1 .. n - 1 : s[k] # "LF"
        BY <1>2, <1>5, <1>7, <1>8, <2>2
    <2>4. QED
        BY <1>8, <2>3 DEF FirstLine
<1> HIDE DEF n
<1>11. n \in 0 .. Len(s) /\ n \in Int
    BY <1>2, <1>5, <1>7
<1>12. /\ line \in Text /\ Len(line) = n
      /\ \A a \in 1 .. n + 1, b \in 0 .. n : SubSeq(line, a, b) = SubSeq(s, a, b)
    BY <1>11, CutIs
<1>13. RequestOf(line, p.part)
    <2> DEFINE c == m - 1
               d == e - 1
               z == w - 1
    <2>1. /\ c \in 1 .. n /\ u \in c + 2 .. n /\ d \in u .. n /\ v \in d + 2 .. n
             /\ z \in v + 1 .. n
          /\ x \in z + 1 .. n /\ c + 1 = m /\ d + 1 = e /\ z + 1 = w
        BY <1>2, <1>5, <1>7, <1>9
    <2>2. \A S : \A k \in 1 .. Len(s) + 1 : \A j :
            Leaves(s, k, S, j) /\ j - 1 <= n => In(line, k, j - 1, S)
        BY <1>11, LeavesCut
    <2>3. /\ 1 \in 1 .. Len(s) + 1 /\ m \in 1 .. Len(s) + 1 /\ u \in 1 .. Len(s) + 1
          /\ e \in 1 .. Len(s) + 1 /\ v \in 1 .. Len(s) + 1 /\ w \in 1 .. Len(s) + 1
          /\ m - 1 <= n /\ u - 1 <= n /\ e - 1 <= n /\ v - 1 <= n /\ w - 1 <= n /\ x - 1 <= n
        BY <1>2, <1>5, <1>7
    <2>4. Leaves(s, m, {"SP"}, u) /\ Leaves(s, e, {"SP"}, v)
        BY <1>2, <1>4, <1>5 DEF Leaves
    <2> HIDE DEF line
    <2>5. /\ In(line, 1, m - 1, {"U"}) /\ In(line, m, u - 1, {"SP"})
             /\ In(line, u, e - 1, Printable)
          /\ In(line, e, v - 1, {"SP"}) /\ In(line, v, w - 1, Printable)
             /\ In(line, w, x - 1, {"SP"})
        BY <1>5, <2>2, <2>3, <2>4
    <2>6. SubSeq(line, v, v + 1) \in Versions
        <3>1. v \in 1 .. n + 1 /\ v + 1 \in 0 .. n
            BY <1>2, <1>5, <1>11, <2>1
        <3>2. QED
            BY <1>4, <1>9, <1>12, <3>1
    <2>7. EndsAt(line, x)
        <3>1. x \in 1 .. Len(s) /\ n \in x .. Len(s)
            BY <1>2, <1>5, <1>7
        <3>2. QED
            BY <1>8, <3>1, EndsCut DEF line
    <2>8. p.part = <<SubSeq(line, 1, c), SubSeq(line, u, d), SubSeq(line, v, z)>>
        <3>1. /\ 1 \in 1 .. n + 1 /\ u \in 1 .. n + 1 /\ v \in 1 .. n + 1
              /\ c \in 0 .. n /\ d \in 0 .. n /\ z \in 0 .. n
            BY <1>2, <1>5, <1>11, <2>1
        <3>2. /\ SubSeq(line, 1, c) = SubSeq(s, 1, c) /\ SubSeq(line, u, d) = SubSeq(s, u, d)
              /\ SubSeq(line, v, z) = SubSeq(s, v, z)
            BY <1>12, <3>1
        <3>3. p.part = part
            BY <1>7
        <3>4. QED
            BY <3>2, <3>3 DEF part
    <2>9. /\ In(line, 1, c, {"U"}) /\ In(line, c + 1, u - 1, {"SP"}) /\ In(line, u, d, Printable)
           /\ In(line, d + 1, v - 1, {"SP"}) /\ In(line, v, z, Printable)
           /\ In(line, z + 1, x - 1, {"SP"})
        BY <2>1, <2>5
    <2> HIDE DEF c, d, z
    <2>10. QED
        BY <1>12, <2>1, <2>6, <2>7, <2>8, <2>9 DEF RequestOf, IsRequest
<1>14. QED
    BY <1>10, <1>13 DEF n

\* A version is "HTTP/1." and 0 or 1.
LEMMA VersionIs ==
    ASSUME NEW s \in Text, NEW v \in 1 .. Len(s), v + 1 <= Len(s)
    PROVE  SubSeq(s, v, v + 1) \in Versions <=> s[v] = "H" /\ s[v + 1] \in {"0", "1"}
<1> DEFINE r == SubSeq(s, v, v + 1)
<1>1. r \in Text /\ Len(r) = 2 /\ r[1] = s[v] /\ r[2] = s[v + 1]
    <2>1. v \in Int /\ v + 1 \in Int /\ \A i \in v .. v + 1 : s[i] \in Symbol
        BY DEF Text
    <2>2. /\ r \in Seq(Symbol) /\ Len(r) = (IF v <= v + 1 THEN v + 1 - v + 1 ELSE 0)
          /\ \A i \in 1 .. v + 1 - v + 1 : r[i] = s[v + i - 1]
        BY <2>1, SubSeqProperties
    <2>3. 1 \in 1 .. v + 1 - v + 1 /\ 2 \in 1 .. v + 1 - v + 1
        BY <2>1
    <2>4. r[1] = s[v + 1 - 1] /\ r[2] = s[v + 2 - 1]
        BY <2>2, <2>3
    <2>5. v + 1 - 1 = v /\ v + 2 - 1 = v + 1
        BY <2>1
    <2> HIDE DEF r
    <2>6. QED
        BY <2>1, <2>2, <2>4, <2>5 DEF Text
<1> HIDE DEF r
<1>2. \A y, z : r = <<y, z>> <=> r[1] = y /\ r[2] = z
    BY <1>1, OneOrTwo DEF Text
<1>3. r \in Versions <=> r = <<"H", "0">> \/ r = <<"H", "1">>
    BY DEF Versions, Version
<1>4. QED
    BY <1>1, <1>2, <1>3 DEF r

RequestLine(s) == IsRequest(s, LAMBDA f : TRUE)

(***************************************************************************)
(* http_req_parse accepts every request line.                              *)
(***************************************************************************)
LEMMA ReqReads ==
    ASSUME NEW s \in Text, NEW n, FirstLine(s, n), RequestLine(SubSeq(s, 1, n))
    PROVE  ReqParse(s).n = n
<1> DEFINE line == SubSeq(s, 1, n)
<1>1. /\ Len(s) \in Int /\ n \in Int /\ 1 <= n /\ n <= Len(s) /\ s[n] = "LF"
      /\ n \in 1 .. Len(s) /\ n \in 0 .. Len(s)
    BY DEF FirstLine, Text
<1>2. line \in Text /\ Len(line) = n
      /\ \A a \in 1 .. n + 1, b \in 0 .. n : SubSeq(line, a, b) = SubSeq(s, a, b)
    BY <1>1, CutIs
<1>3. PICK c \in Int, u \in Int, d \in Int, v \in Int, z \in Int, x \in Int :
         /\ 1 <= c /\ c + 2 <= u /\ u <= d /\ d + 2 <= v /\ v + 1 <= z /\ z + 1 <= x /\ x <= n
         /\ In(line, 1, c, {"U"}) /\ In(line, c + 1, u - 1, {"SP"}) /\ In(line, u, d, Printable)
         /\ In(line, d + 1, v - 1, {"SP"}) /\ In(line, v, z, Printable)
         /\ SubSeq(line, v, v + 1) \in Versions /\ In(line, z + 1, x - 1, {"SP"}) /\ EndsAt(line, x)
    <2> HIDE DEF line
    <2>1. Len(line) \in Int
        BY <1>1, <1>2
    <2>2. RequestLine(line)
        BY DEF line
    <2>3. PICK c \in 1 .. Len(line) : In(line, 1, c, {"U"}) /\
          \E u \in c + 2 .. Len(line) : In(line, c + 1, u - 1, {"SP"}) /\
          \E d \in u .. Len(line) : In(line, u, d, Printable) /\
          \E v \in d + 2 .. Len(line) : In(line, d + 1, v - 1, {"SP"}) /\
          \E z \in v + 1 .. Len(line) : In(line, v, z, Printable)
            /\ SubSeq(line, v, v + 1) \in Versions /\
          \E x \in z + 1 .. Len(line) : In(line, z + 1, x - 1, {"SP"}) /\ EndsAt(line, x)
        BY <2>2, Zenon DEF IsRequest, RequestLine
    <2>4. c \in Int /\ 1 <= c
        BY <2>1, <2>3
    <2>5. PICK u \in Int : c + 2 <= u /\ u <= Len(line) /\ In(line, c + 1, u - 1, {"SP"}) /\
          \E d \in u .. Len(line) : In(line, u, d, Printable) /\
          \E v \in d + 2 .. Len(line) : In(line, d + 1, v - 1, {"SP"}) /\
          \E z \in v + 1 .. Len(line) : In(line, v, z, Printable)
            /\ SubSeq(line, v, v + 1) \in Versions /\
          \E x \in z + 1 .. Len(line) : In(line, z + 1, x - 1, {"SP"}) /\ EndsAt(line, x)
        BY <2>1, <2>3, <2>4
    <2>6. PICK d \in Int : u <= d /\ d <= Len(line) /\ In(line, u, d, Printable) /\
          \E v \in d + 2 .. Len(line) : In(line, d + 1, v - 1, {"SP"}) /\
          \E z \in v + 1 .. Len(line) : In(line, v, z, Printable)
            /\ SubSeq(line, v, v + 1) \in Versions /\
          \E x \in z + 1 .. Len(line) : In(line, z + 1, x - 1, {"SP"}) /\ EndsAt(line, x)
        BY <2>1, <2>5
    <2>7. PICK v \in Int : d + 2 <= v /\ v <= Len(line) /\ In(line, d + 1, v - 1, {"SP"}) /\
          \E z \in v + 1 .. Len(line) : In(line, v, z, Printable)
            /\ SubSeq(line, v, v + 1) \in Versions /\
          \E x \in z + 1 .. Len(line) : In(line, z + 1, x - 1, {"SP"}) /\ EndsAt(line, x)
        BY <2>1, <2>6
    <2>8. PICK z \in Int : v + 1 <= z /\ z <= Len(line) /\ In(line, v, z, Printable) /\
          SubSeq(line, v, v + 1) \in Versions /\
          \E x \in z + 1 .. Len(line) : In(line, z + 1, x - 1, {"SP"}) /\ EndsAt(line, x)
        BY <2>1, <2>7
    <2>9. PICK x \in Int : z + 1 <= x /\ x <= Len(line) /\ In(line, z + 1, x - 1, {"SP"})
                 /\ EndsAt(line, x)
        BY <2>1, <2>8
    <2>10. QED
        BY <1>2, <2>3, <2>5, <2>6, <2>7, <2>8, <2>9, <2>4
<1>4. \A S : \A a, b \in Int : In(line, a, b, S) => \A k \in a .. b : k \in 1 .. n /\ s[k] \in S
    BY <1>1, InText
<1>5. /\ \A k \in 1 .. c : s[k] \in {"U"}
      /\ \A k \in c + 1 .. u - 1 : s[k] \in {"SP"}
      /\ \A k \in u .. d : s[k] \in Printable
      /\ \A k \in d + 1 .. v - 1 : s[k] \in {"SP"}
      /\ \A k \in v .. z : s[k] \in Printable
      /\ \A k \in z + 1 .. x - 1 : s[k] \in {"SP"}
    <2> HIDE DEF line
    <2>1. 1 \in Int /\ c \in Int /\ u \in Int /\ d \in Int /\ v \in Int /\ z \in Int /\ x \in Int
          /\ c + 1 \in Int /\ u - 1 \in Int /\ d + 1 \in Int /\ v - 1 \in Int /\ z + 1 \in Int
          /\ x - 1 \in Int
        BY <1>1, <1>3
    <2>2. QED
        BY <1>3, <1>4, <2>1
<1>6. (n = x /\ s[x] = "LF") \/ (n = x + 1 /\ s[x] = "CR" /\ s[n] = "LF")
    <2>1. x \in 1 .. n
        BY <1>1, <1>3
    <2>2. QED
        BY <1>1, <1>3, <2>1, EndsInText
<1> HIDE DEF line
<1>7. SubSeq(s, v, v + 1) \in Versions /\ s[v] = "H"
    <2>1. v \in 1 .. n + 1 /\ v + 1 \in 0 .. n /\ v \in 1 .. Len(s) /\ v + 1 <= Len(s)
        BY <1>1, <1>3
    <2>2. QED
        BY <1>2, <1>3, <2>1, VersionIs
<1>8. /\ Leaves(s, 1, {"U"}, c + 1) /\ Leaves(s, c + 2, {"SP"}, u) /\ Leaves(s, u, Printable, d + 1)
      /\ Leaves(s, d + 2, {"SP"}, v) /\ Leaves(s, v, Printable, z + 1)
         /\ Leaves(s, z + 1, {"SP"}, x)
    <2>1. s[c + 1] = "SP" /\ s[d + 1] = "SP" /\ s[u] \in Printable /\ s[v] \in Printable
        BY <1>1, <1>3, <1>5
    <2>2. s[z + 1] \in {"SP", "CR", "LF"} /\ s[x] \in {"CR", "LF"}
        BY <1>1, <1>3, <1>5, <1>6
    <2>3. /\ c + 1 - 1 = c /\ d + 1 - 1 = d /\ z + 1 - 1 = z /\ c + 1 \in 1 .. Len(s) + 1
           /\ d + 1 \in u .. Len(s) + 1 /\ v \in d + 2 .. Len(s) + 1 /\ u \in c + 2 .. Len(s) + 1
        BY <1>1, <1>3
    <2>4. Leaves(s, 1, {"U"}, c + 1)
        <3>1. s[c + 1] \notin {"U"}
            BY <2>1
        <3>2. \A k \in 1 .. (c + 1) - 1 : s[k] \in {"U"}
            BY <1>5, <2>3
        <3>3. QED
            BY <2>3, <3>1, <3>2 DEF Leaves
    <2>5. Leaves(s, c + 2, {"SP"}, u)
        BY <1>1, <1>3, <1>5, <2>1, SymbolsDiffer DEF Leaves
    <2>6. Leaves(s, u, Printable, d + 1)
        BY <1>5, <2>1, <2>3, SymbolsDiffer DEF Leaves
    <2>7. Leaves(s, d + 2, {"SP"}, v)
        <3>1. \A k \in d + 2 .. v - 1 : k \in d + 1 .. v - 1
            BY <1>3
        <3>2. QED
            BY <1>5, <2>1, <2>3, <3>1, SymbolsDiffer DEF Leaves
    <2>8. Leaves(s, v, Printable, z + 1)
        <3>1. z + 1 \in v .. Len(s) + 1
            BY <1>1, <1>3
        <3>2. QED
            BY <1>5, <2>2, <2>3, <3>1, SymbolsDiffer DEF Leaves
    <2>9. Leaves(s, z + 1, {"SP"}, x)
        BY <1>1, <1>3, <1>5, <2>2 DEF Leaves
    <2>10. QED
        BY <2>4, <2>5, <2>6, <2>7, <2>8, <2>9
<1>9. ReqPlaces(s, c + 1, u, d + 1, v, z + 1, x)
    <2>1. /\ 1 \in 1 .. Len(s) + 1 /\ c + 2 \in 1 .. Len(s) + 1 /\ u \in 1 .. Len(s) + 1
          /\ d + 2 \in 1 .. Len(s) + 1 /\ v \in 1 .. Len(s) + 1 /\ z + 1 \in 1 .. Len(s) + 1
          /\ c + 1 + 1 = c + 2 /\ d + 1 + 1 = d + 2
        BY <1>1, <1>3
    <2>2. /\ Past(s, 1, {"U"}) = c + 1 /\ Past(s, c + 2, {"SP"}) = u
             /\ Past(s, u, Printable) = d + 1
          /\ Past(s, d + 2, {"SP"}) = v /\ Past(s, v, Printable) = z + 1
             /\ Past(s, z + 1, {"SP"}) = x
        BY <1>8, <2>1, PastUnique
    <2>3. QED
        BY <2>1, <2>2 DEF ReqPlaces
<1>10. Bytes(s, v, z) >= 8 /\ Bytes(s, v, z) \in Int /\ z + 1 - 1 = z
    <2>1. v \in 1 .. Len(s) + 1 /\ z \in v - 1 .. Len(s) /\ v + 1 <= z
        BY <1>1, <1>3
    <2>2. QED
        BY <1>7, <2>1, BytesOfVersion, BytesIs
<1>11. ReqParse(s) = LineEnd(s, x, <<SubSeq(s, 1, c), SubSeq(s, u, d), SubSeq(s, v, z)>>)
    <2>1. ReqParse(s) = ReqAt(s, c + 1, u, d + 1, v, z + 1, x)
        BY <1>9, ReqParseIs
    <2>2. /\ ~(c + 1 > Len(s)) /\ c + 1 # 1 /\ ~(u > Len(s)) /\ ~(d + 1 > Len(s)) /\ d + 1 # u
          /\ ~(v > Len(s)) /\ ~(z + 1 > Len(s)) /\ ~(Bytes(s, v, z) < 8) /\ ~(x > Len(s))
          /\ c + 1 - 1 = c /\ d + 1 - 1 = d
        <3>1. /\ ~(c + 1 > Len(s)) /\ c + 1 # 1 /\ ~(u > Len(s)) /\ ~(d + 1 > Len(s))
              /\ d + 1 # u /\ ~(v > Len(s)) /\ ~(z + 1 > Len(s)) /\ ~(x > Len(s))
              /\ c + 1 - 1 = c /\ d + 1 - 1 = d
            BY <1>1, <1>3
        <3>2. ~(Bytes(s, v, z) < 8)
            BY <1>10
        <3>3. QED
            BY <3>1, <3>2
    <2>3. s[c + 1] = "SP" /\ s[d + 1] = "SP"
        <3>1. c + 1 \in c + 1 .. u - 1 /\ d + 1 \in d + 1 .. v - 1
            BY <1>3
        <3>2. QED
            BY <1>5, <3>1
    <2>4. ReqAt(s, c + 1, u, d + 1, v, z + 1, x) =
            LineEnd(s, x, <<SubSeq(s, 1, c + 1 - 1), SubSeq(s, u, d + 1 - 1),
              SubSeq(s, v, z + 1 - 1)>>)
        <3>1. /\ ~(c + 1 > Len(s)) /\ ~(c + 1 = 1 \/ s[c + 1] # "SP")
              /\ ~(u > Len(s) \/ d + 1 > Len(s)) /\ ~(d + 1 = u \/ s[d + 1] # "SP")
              /\ ~(v > Len(s)) /\ ~(z + 1 > Len(s)) /\ ~(Bytes(s, v, z + 1 - 1) < 8)
              /\ ~(x > Len(s))
              /\ ~(Bytes(s, v, Len(s)) >= 8 /\ SubSeq(s, v, v + 1) \notin Versions)
            BY <1>7, <1>10, <2>2, <2>3
        <3>2. QED
            BY <3>1 DEF ReqAt
    <2>5. QED
        BY <1>10, <2>1, <2>2, <2>4
<1>12. QED
    <2>1. x \in 1 .. Len(s) + 1 /\ n \in x .. Len(s)
        BY <1>1, <1>3
    <2> DEFINE part == <<SubSeq(s, 1, c), SubSeq(s, u, d), SubSeq(s, v, z)>>
    <2>2. ReqParse(s) = LineEnd(s, x, part)
        BY <1>11
    <2> HIDE DEF part
    <2>3. Ended(s, x, part, ReqParse(s))
        BY <2>1, <2>2, LineEndIs
    <2>4. QED
        BY <1>6, <2>1, <2>3 DEF Ended

(***************************************************************************)
(* When the line's end has come, http_req_parse needs no more.             *)
(***************************************************************************)
LEMMA ReqDecides ==
    ASSUME NEW s \in Text, NEW n, FirstLine(s, n)
    PROVE  ReqParse(s).n # 0
<1>1. PICK m, u, e, v, w, x : ReqPlaces(s, m, u, e, v, w, x)
    BY DEF ReqPlaces
<1>2. /\ Len(s) \in Nat /\ ReqParse(s) = ReqAt(s, m, u, e, v, w, x)
      /\ ReqSpans(s, m, u, e, v, w, x) /\ n \in 1 .. Len(s) /\ s[n] = "LF"
    BY <1>1, ReqParseIs, ReqPlacesAre DEF Text, FirstLine
<1>3. SUFFICES ASSUME ReqParse(s).n = 0 PROVE FALSE
    OBVIOUS
<1>4. \A S, k, j : Leaves(s, k, S, j) /\ "LF" \notin S /\ k \in 1 .. n => j \in k .. n
    BY <1>2 DEF Leaves
<1>5. Bad(-1).n # 0
    BY DEF Bad
<1>6. m \in 1 .. n
    BY <1>2, <1>4 DEF ReqSpans
<1>7. m # 1 /\ s[m] = "SP" /\ m + 1 \in 1 .. n
    <2>1. ~(m > Len(s))
        BY <1>2, <1>6
    <2>2. m # 1 /\ s[m] = "SP"
        BY <1>2, <1>3, <1>5, <2>1, Zenon DEF ReqAt
    <2>3. QED
        BY <1>2, <1>6, <2>2
<1>8. u \in m + 1 .. n /\ e \in u .. n
    <2>1. m <= Len(s)
        BY <1>2, <1>6
    <2>2. Leaves(s, m + 1, {"SP"}, u) /\ Leaves(s, u, Printable, e)
        BY <1>2, <2>1, Zenon DEF ReqSpans
    <2>3. u \in m + 1 .. n
        BY <1>4, <1>7, <2>2
    <2>4. u \in 1 .. n
        BY <1>2, <1>6, <2>3
    <2>5. QED
        BY <1>4, <2>2, <2>3, <2>4, SymbolsDiffer
<1>9. e # u /\ s[e] = "SP" /\ e + 1 \in 1 .. n
    <2>1. ~(m > Len(s)) /\ ~(u > Len(s) \/ e > Len(s))
        BY <1>2, <1>6, <1>8
    <2>2. e # u /\ s[e] = "SP"
        BY <1>2, <1>3, <1>5, <1>7, <2>1, Zenon DEF ReqAt
    <2>3. QED
        BY <1>2, <1>6, <1>8, <2>2
<1>10. v \in e + 1 .. n /\ w \in v .. n /\ x \in w .. n
    <2>1. m <= Len(s) /\ e <= Len(s)
        BY <1>2, <1>6, <1>8
    <2>2. Leaves(s, e + 1, {"SP"}, v) /\ Leaves(s, v, Printable, w) /\ Leaves(s, w, {"SP"}, x)
        BY <1>2, <2>1, Zenon DEF ReqSpans
    <2>3. v \in e + 1 .. n
        BY <1>4, <1>9, <2>2
    <2>4. v \in 1 .. n
        BY <1>2, <1>6, <1>8, <2>3
    <2>5. w \in v .. n
        BY <1>4, <2>2, <2>4, SymbolsDiffer
    <2>6. w \in 1 .. n
        BY <1>2, <2>4, <2>5
    <2>7. QED
        BY <1>4, <2>2, <2>3, <2>5, <2>6
<1>11. ReqParse(s) = LineEnd(s, x, <<SubSeq(s, 1, m - 1), SubSeq(s, u, e - 1),
         SubSeq(s, v, w - 1)>>)
    <2>1. /\ ~(m > Len(s)) /\ ~(m = 1 \/ s[m] # "SP") /\ ~(u > Len(s) \/ e > Len(s))
          /\ ~(e = u \/ s[e] # "SP")
        BY <1>2, <1>6, <1>7, <1>8, <1>9
    <2>2. ~(v > Len(s)) /\ ~(w > Len(s)) /\ ~(x > Len(s))
        BY <1>2, <1>6, <1>8, <1>10
    <2>3. QED
        BY <1>2, <1>3, <1>5, <2>1, <2>2, Zenon DEF ReqAt
<1>12. x \in 1 .. Len(s) + 1
    BY <1>2, <1>6, <1>8, <1>10
<1>13. x = Len(s) + 1 \/ (x = Len(s) /\ s[x] = "CR")
    BY <1>3, <1>11, <1>12, LineEndIs DEF Ended
<1>14. QED
    BY <1>2, <1>10, <1>13

\* More data does not change a part.
LEMMA PartKept ==
    ASSUME NEW s, NEW t, Extends(t, s), NEW a \in Nat \ {0}, NEW b \in Int, b <= Len(s)
    PROVE  SubSeq(t, a, b) = SubSeq(s, a, b)
<1>1. \A i \in a .. b : t[i] = s[i] /\ s[i] \in Symbol
    BY DEF Extends, Text
<1>2. /\ SubSeq(s, a, b) \in Seq(Symbol) /\ SubSeq(t, a, b) \in Seq(Symbol)
      /\ Len(SubSeq(s, a, b)) = IF a <= b THEN b - a + 1 ELSE 0
      /\ Len(SubSeq(t, a, b)) = IF a <= b THEN b - a + 1 ELSE 0
      /\ \A i \in 1 .. b - a + 1 : SubSeq(s, a, b)[i] = s[a + i - 1]
         /\ SubSeq(t, a, b)[i] = t[a + i - 1]
    BY <1>1, SubSeqProperties
<1>3. \A i \in 1 .. Len(SubSeq(s, a, b)) : SubSeq(s, a, b)[i] = SubSeq(t, a, b)[i]
    BY <1>1, <1>2
<1>4. QED
    BY <1>2, <1>3, SeqEqual

\* More data does not change how a line ends.
LEMMA LineEndKept ==
    ASSUME NEW s, NEW t, Extends(t, s), NEW k \in 1 .. Len(s) + 1, NEW part,
           LineEnd(s, k, part).n # 0
    PROVE  LineEnd(t, k, part) = LineEnd(s, k, part)
<1>1. /\ Len(s) \in Nat /\ Len(t) \in Nat /\ Len(s) <= Len(t) /\ More.n = 0
      /\ \A i \in 1 .. Len(s) : t[i] = s[i]
    BY DEF Extends, Text, More
<1>2. k \in 1 .. Len(s) /\ (s[k] = "CR" => k + 1 \in 1 .. Len(s))
    BY <1>1 DEF LineEnd
<1>3. CASE s[k] = "CR"
    BY <1>1, <1>2, <1>3 DEF LineEnd
<1>4. CASE s[k] # "CR"
    BY <1>1, <1>2, <1>4 DEF LineEnd
<1>5. QED
    BY <1>3, <1>4

(***************************************************************************)
(* What http_req_parse has decided stays, whatever comes after it, but for *)
(* the text that runs on behind the version.                               *)
(***************************************************************************)
LEMMA ReqKept ==
    ASSUME NEW s, NEW t, Extends(t, s), ReqParse(s).n # 0, ~VersionRunsOn(s)
    PROVE  ReqParse(t) = ReqParse(s)
<1>1. PICK m, u, e, v, w, x : ReqPlaces(s, m, u, e, v, w, x)
    BY DEF ReqPlaces
<1>2. PICK mm, uu, ee, vv, ww, xx : ReqPlaces(t, mm, uu, ee, vv, ww, xx)
    BY DEF ReqPlaces
<1>3. /\ s \in Text /\ t \in Text /\ Len(s) \in Nat /\ Len(t) \in Nat /\ Len(s) <= Len(t)
      /\ \A i \in 1 .. Len(s) : t[i] = s[i]
    BY DEF Extends, Text
<1>4. /\ ReqParse(s) = ReqAt(s, m, u, e, v, w, x) /\ ReqSpans(s, m, u, e, v, w, x)
      /\ ReqParse(t) = ReqAt(t, mm, uu, ee, vv, ww, xx)
    BY <1>1, <1>2, <1>3, ReqParseIs, ReqPlacesAre
<1>5. More.n = 0
    BY DEF More
<1>6. m \in 1 .. Len(s) /\ m <= Len(t) /\ mm = m /\ t[m] = s[m] /\ m \in Int
    <2>1. m \in 1 .. Len(s)
        BY <1>3, <1>4, <1>5 DEF ReqAt, ReqSpans
    <2>2. Past(t, 1, {"U"}) = Past(s, 1, {"U"})
        BY <1>1, <1>3, <2>1, PastKept DEF ReqPlaces
    <2>3. QED
        BY <1>1, <1>2, <1>3, <2>1, <2>2 DEF ReqPlaces
<1>7. CASE m = 1 \/ s[m] # "SP"
    BY <1>3, <1>4, <1>6, <1>7 DEF ReqAt
<1>8. CASE ~(m = 1 \/ s[m] # "SP")
    <2>1. u \in m + 1 .. Len(s) /\ e \in u .. Len(s) /\ e \in Int /\ u \in Int
        BY <1>3, <1>4, <1>5, <1>6, <1>8 DEF ReqAt, ReqSpans
    <2>2. uu = u /\ ee = e /\ e <= Len(t) /\ u <= Len(t) /\ t[e] = s[e]
        <3>1. m + 1 \in 1 .. Len(s) + 1 /\ u \in 1 .. Len(s) + 1 /\ u <= Len(s) /\ e <= Len(s)
            BY <1>3, <1>6, <2>1
        <3>2. Past(t, m + 1, {"SP"}) = u /\ Past(t, u, Printable) = e
            BY <1>1, <3>1, PastKept DEF ReqPlaces
        <3>3. uu = Past(t, mm + 1, {"SP"}) /\ ee = Past(t, uu, Printable)
            BY <1>2 DEF ReqPlaces
        <3>4. uu = u /\ ee = e
            BY <1>6, <3>2, <3>3
        <3>5. QED
            BY <1>3, <2>1, <3>1, <3>4
    <2>3. CASE e = u \/ s[e] # "SP"
        <3>1. /\ ~(m > Len(s)) /\ ~(u > Len(s) \/ e > Len(s))
              /\ ~(mm > Len(t)) /\ ~(mm = 1 \/ t[mm] # "SP") /\ ~(uu > Len(t) \/ ee > Len(t))
              /\ (ee = uu \/ t[ee] # "SP")
            BY <1>3, <1>6, <1>8, <2>1, <2>2, <2>3
        <3>2. ReqParse(s) = Bad(-1) /\ ReqParse(t) = Bad(-1)
            BY <1>4, <1>8, <2>3, <3>1, Zenon DEF ReqAt
        <3>3. QED
            BY <3>2
    <2>4. CASE ~(e = u \/ s[e] # "SP")
        <3>1. v \in e + 1 .. Len(s) /\ v \in Int /\ w \in v .. Len(s) + 1 /\ x \in w .. Len(s) + 1
            <4>1. /\ m <= Len(s) /\ e <= Len(s) /\ ~(m > Len(s)) /\ ~(u > Len(s) \/ e > Len(s))
                BY <1>3, <1>6, <2>1
            <4>2. ~(v > Len(s))
                BY <1>4, <1>5, <1>8, <2>4, <4>1, Zenon DEF ReqAt
            <4>3. v \in e + 1 .. Len(s) + 1 /\ w \in v .. Len(s) + 1 /\ x \in w .. Len(s) + 1
                BY <1>4, <4>1, Zenon DEF ReqSpans
            <4>4. QED
                BY <1>3, <2>1, <4>2, <4>3
        <3>2. vv = v /\ v <= Len(t)
            <4>1. e + 1 \in 1 .. Len(s) + 1 /\ v <= Len(s)
                BY <1>3, <1>6, <2>1, <3>1
            <4>2. Past(t, e + 1, {"SP"}) = v
                BY <1>1, <4>1, PastKept DEF ReqPlaces
            <4>3. QED
                BY <1>2, <1>3, <2>2, <3>1, <4>2 DEF ReqPlaces
        <3>3. /\ ~(m > Len(s)) /\ ~(m = 1 \/ s[m] # "SP") /\ ~(u > Len(s) \/ e > Len(s))
               /\ ~(e = u \/ s[e] # "SP") /\ ~(v > Len(s))
            BY <1>3, <1>6, <1>8, <2>1, <2>4, <3>1
        <3>4. /\ ~(mm > Len(t)) /\ ~(mm = 1 \/ t[mm] # "SP") /\ ~(uu > Len(t) \/ ee > Len(t))
               /\ ~(ee = uu \/ t[ee] # "SP") /\ ~(vv > Len(t))
            BY <1>3, <1>6, <1>8, <2>1, <2>2, <2>4, <3>1, <3>2
        <3>5. /\ v \in 1 .. Len(s) + 1 /\ Len(s) \in v - 1 .. Len(s) /\ Len(t) \in Len(s) .. Len(t)
              /\ v \in Nat \ {0} /\ v \in 1 .. Len(s)
            BY <1>3, <1>6, <2>1, <3>1
        <3>6. /\ Bytes(s, v, Len(s)) \in Int /\ Bytes(t, v, Len(t)) \in Int
              /\ Bytes(s, v, Len(s)) <= Bytes(t, v, Len(t))
            <4>1. v \in 1 .. Len(t) + 1 /\ Len(t) \in v - 1 .. Len(t)
                BY <1>3, <3>5
            <4>2. QED
                BY <1>3, <3>5, <4>1, BytesIs, BytesGrow
        <3>7. Bytes(s, v, Len(s)) >= 8 => v + 1 <= Len(s)
                /\ SubSeq(t, v, v + 1) = SubSeq(s, v, v + 1)
            <4>1. Bytes(s, v, Len(s)) >= 8 => v + 1 <= Len(s)
                BY <1>3, <3>5, BytesOfVersion
            <4>2. v + 1 \in Int
                BY <3>1
            <4>3. QED
                BY <3>5, <4>1, <4>2, PartKept
        <3>8. CASE Bytes(s, v, Len(s)) >= 8 /\ SubSeq(s, v, v + 1) \notin Versions
            <4>1. Bytes(t, vv, Len(t)) >= 8 /\ SubSeq(t, vv, vv + 1) \notin Versions
                <5>1. SubSeq(t, v, v + 1) = SubSeq(s, v, v + 1)
                    BY <3>7, <3>8
                <5>2. Bytes(t, v, Len(t)) >= 8
                    BY <3>6, <3>8
                <5>3. QED
                    BY <3>2, <3>8, <5>1, <5>2
            <4>2. ReqParse(s) = Bad(-1)
                BY <1>4, <3>8, <3>3 DEF ReqAt
            <4>3. ReqParse(t) = Bad(-1)
                BY <1>4, <3>4, <4>1 DEF ReqAt
            <4>4. QED
                BY <4>2, <4>3
        <3>9. CASE ~(Bytes(s, v, Len(s)) >= 8 /\ SubSeq(s, v, v + 1) \notin Versions) /\ w > Len(s)
            <4>1. ~VersionUnfinished(s, v)
                BY <1>4, <1>5, <3>9, <3>3 DEF ReqAt
            <4>2. Bytes(s, v, Len(s)) > 8
                BY <3>6, <4>1 DEF VersionUnfinished
            <4>3. v + 1 <= Len(s) /\ SubSeq(s, v, v + 1) \in Versions
                BY <3>6, <3>7, <3>9, <4>2
            <4>4. v + 2 <= Len(s)
                <5>1. s[v] = "H" /\ s[v + 1] # "H"
                    BY <1>3, <3>5, <4>3, VersionIs
                <5>2. v + 1 # Len(s)
                    BY <1>3, <3>5, <4>2, <5>1, BytesOfVersion
                <5>3. QED
                    BY <1>3, <3>1, <4>3, <5>2
            <4>5. s[v - 1] = "SP"
                BY <1>3, <1>4, <1>6, <2>1, <2>4, <3>1 DEF ReqSpans, Leaves
            <4>6. In(s, v, Len(s), Printable)
                <5>1. \A k \in v .. w - 1 : s[k] \in Printable
                    BY <1>4, <1>6, <2>1 DEF ReqSpans, Leaves
                <5>2. \A k \in v .. Len(s) : k \in v .. w - 1 /\ k \in DOMAIN s
                    BY <1>3, <3>1, <3>5, <3>9 DEF Text
                <5>3. QED
                    BY <5>1, <5>2 DEF In
            <4>7. v \in 2 .. Len(s) - 2
                BY <1>3, <1>6, <2>1, <3>1, <4>4
            <4>8. QED
                BY <4>3, <4>5, <4>6, <4>7 DEF VersionRunsOn
        <3>10. CASE ~(Bytes(s, v, Len(s)) >= 8 /\ SubSeq(s, v, v + 1) \notin Versions)
                      /\ w <= Len(s)
            <4>1. ww = w /\ w <= Len(t) /\ w \in Int
                <5>1. Past(t, v, Printable) = w
                    BY <1>1, <3>5, <3>10, PastKept DEF ReqPlaces
                <5>2. QED
                    BY <1>2, <1>3, <3>1, <3>2, <3>10, <5>1 DEF ReqPlaces
            <4>2. /\ Bytes(s, v, w - 1) = Bytes(t, v, w - 1) /\ Bytes(s, v, w - 1) \in Int
                  /\ Bytes(s, v, w - 1) <= Bytes(s, v, Len(s))
                <5>1. w - 1 \in v - 1 .. Len(s) /\ Len(s) \in w - 1 .. Len(s)
                        /\ w - 1 \in w - 1 .. Len(t)
                    BY <1>3, <3>1, <3>10
                <5>2. Extends(s, s)
                    BY <1>3 DEF Extends
                <5>3. QED
                    BY <1>3, <3>5, <5>1, <5>2, BytesIs, BytesGrow
            <4>3. ~(w > Len(s)) /\ ~(ww > Len(t))
                BY <1>3, <3>10, <4>1
            <4>4. CASE Bytes(s, v, w - 1) < 8
                <5>1. ReqParse(s) = Bad(-1)
                    BY <1>4, <3>10, <3>3, <4>4, <4>3 DEF ReqAt
                <5>2. ReqParse(t) = Bad(-1)
                    <6>1. Bytes(t, vv, ww - 1) < 8
                        BY <3>2, <4>1, <4>2, <4>4
                    <6>2. QED
                        BY <1>4, <3>4, <4>3, <6>1 DEF ReqAt
                <5>3. QED
                    BY <5>1, <5>2
            <4>5. CASE ~(Bytes(s, v, w - 1) < 8)
                <5>1. SubSeq(t, v, v + 1) \in Versions
                    <6>1. Bytes(s, v, Len(s)) >= 8
                        BY <3>6, <4>2, <4>5
                    <6>2. SubSeq(t, v, v + 1) = SubSeq(s, v, v + 1)
                        BY <3>7, <6>1
                    <6>3. QED
                        BY <3>10, <6>1, <6>2
                <5>2. x \in w .. Len(s) /\ x \in Int /\ x \in 1 .. Len(s) + 1
                    <6>1. ~(x > Len(s))
                        BY <1>4, <1>5, <3>10, <3>3, <4>5, <4>3 DEF ReqAt
                    <6>2. QED
                        BY <1>3, <3>1, <3>5, <3>10, <6>1
                <5>3. xx = x /\ x <= Len(t)
                    <6>1. w \in 1 .. Len(s) + 1 /\ x <= Len(s)
                        BY <1>3, <3>1, <3>5, <3>10, <5>2
                    <6>2. Past(t, w, {"SP"}) = x
                        BY <1>1, <6>1, PastKept DEF ReqPlaces
                    <6>3. QED
                        BY <1>2, <1>3, <4>1, <5>2, <6>2 DEF ReqPlaces
                <5>4. /\ SubSeq(t, 1, m - 1) = SubSeq(s, 1, m - 1)
                      /\ SubSeq(t, u, e - 1) = SubSeq(s, u, e - 1)
                      /\ SubSeq(t, v, w - 1) = SubSeq(s, v, w - 1)
                    <6>1. /\ 1 \in Nat \ {0} /\ u \in Nat \ {0} /\ v \in Nat \ {0} /\ m - 1 \in Int
                          /\ e - 1 \in Int /\ w - 1 \in Int
                          /\ m - 1 <= Len(s) /\ e - 1 <= Len(s) /\ w - 1 <= Len(s)
                        BY <1>3, <1>6, <2>1, <3>1, <3>10, <4>1
                    <6>2. \A a \in Nat \ {0} : \A b \in Int :
                            b <= Len(s) => SubSeq(t, a, b) = SubSeq(s, a, b)
                        BY PartKept
                    <6>3. QED
                        BY <6>1, <6>2
                <5> DEFINE part == <<SubSeq(s, 1, m - 1), SubSeq(s, u, e - 1), SubSeq(s, v, w - 1)>>
                <5>5. part = <<SubSeq(t, 1, m - 1), SubSeq(t, u, e - 1), SubSeq(t, v, w - 1)>>
                    BY <5>4
                <5>6. ReqParse(s) = LineEnd(s, x, part)
                    <6> HIDE DEF part
                    <6>1. QED
                        <7>1. ~(x > Len(s))
                            BY <1>3, <5>2
                        <7>2. QED
                            BY <1>4, <3>10, <3>3, <4>5, <4>3, <7>1 DEF ReqAt, part
                <5>7. ReqParse(t) = LineEnd(t, x, part)
                    <6>1. ReqParse(t) = LineEnd(t, x, <<SubSeq(t, 1, m - 1), SubSeq(t, u, e - 1),
                            SubSeq(t, v, w - 1)>>)
                        <7>1. ~(xx > Len(t)) /\ ~(Bytes(t, vv, ww - 1) < 8)
                                /\ SubSeq(t, vv, vv + 1) \in Versions
                            BY <1>3, <3>2, <4>1, <4>2, <4>5, <5>1, <5>2, <5>3
                        <7>2. ReqParse(t) = LineEnd(t, xx, <<SubSeq(t, 1, mm - 1),
                                SubSeq(t, uu, ee - 1), SubSeq(t, vv, ww - 1)>>)
                            BY <1>4, <3>4, <4>3, <7>1 DEF ReqAt
                        <7>3. QED
                            BY <1>6, <2>2, <3>2, <4>1, <5>3, <7>2
                    <6>2. QED
                        BY <5>5, <6>1
                <5> HIDE DEF part
                <5>8. QED
                    BY <5>2, <5>6, <5>7, LineEndKept
            <4>6. QED
                BY <4>4, <4>5
        <3>11. QED
            BY <1>3, <3>1, <3>8, <3>9, <3>10
    <2>5. QED
        BY <2>3, <2>4
<1>9. QED
    BY <1>7, <1>8

-----------------------------------------------------------------------------
(* The status line *)

Words == Printable \cup {"SP"}

\* Where the parts of a status line end, as RespParse looks for it.
RespPlaces(s, h, c, b) ==
    h = Past(s, 1, Printable) /\ c = Past(s, h + 1, Digit) /\ b = Past(s, c + 1, Words)

RespSpans(s, h, c, b) ==
    /\ Leaves(s, 1, Printable, h) /\ h \in 1 .. Len(s) + 1
    /\ h <= Len(s) => Leaves(s, h + 1, Digit, c) /\ c \in h + 1 .. Len(s) + 1
    /\ h <= Len(s) /\ c <= Len(s) => Leaves(s, c + 1, Words, b) /\ b \in c + 1 .. Len(s) + 1

RespAt(s, h, c, b) ==
    IF h > Len(s) THEN More
    ELSE IF h = 1 \/ s[h] # "SP" THEN Bad(-1)
    ELSE IF c > Len(s) THEN More
    ELSE IF c - h - 1 # 3 \/ s[c] # "SP" THEN Bad(-1)
    ELSE IF b > Len(s) THEN More
    ELSE LineEnd(s, b, <<SubSeq(s, 1, h - 1), SubSeq(s, h + 1, c - 1), SubSeq(s, c + 1, b - 1)>>)

\* http_resp_parse, by the places that it finds.
LEMMA RespParseIs ==
    ASSUME NEW s, NEW h, NEW c, NEW b, RespPlaces(s, h, c, b)
    PROVE  RespParse(s) = RespAt(s, h, c, b)
    BY DEF RespParse, RespAt, RespPlaces, Words

\* Those places are where the parts end, as far as there are any.
LEMMA RespPlacesAre ==
    ASSUME NEW s \in Text, NEW h, NEW c, NEW b, RespPlaces(s, h, c, b)
    PROVE  RespSpans(s, h, c, b)
<1>1. Len(s) \in Nat
    BY DEF Text
<1>2. ASSUME NEW S, NEW k \in 1 .. Len(s) + 1, NEW j, j = Past(s, k, S)
      PROVE  Leaves(s, k, S, j) /\ j \in k .. Len(s) + 1
    BY <1>2, PastIs DEF Leaves
<1>3. Leaves(s, 1, Printable, h) /\ h \in 1 .. Len(s) + 1
    BY <1>1, <1>2 DEF RespPlaces
<1>4. ASSUME h <= Len(s) PROVE Leaves(s, h + 1, Digit, c) /\ c \in h + 1 .. Len(s) + 1
    <2>1. h + 1 \in 1 .. Len(s) + 1 /\ c = Past(s, h + 1, Digit)
        BY <1>1, <1>3, <1>4 DEF RespPlaces
    <2>2. QED
        BY <1>2, <2>1
<1>5. ASSUME h <= Len(s), c <= Len(s)
      PROVE  Leaves(s, c + 1, Words, b) /\ b \in c + 1 .. Len(s) + 1
    <2>1. c + 1 \in 1 .. Len(s) + 1 /\ b = Past(s, c + 1, Words)
        BY <1>1, <1>3, <1>4, <1>5 DEF RespPlaces
    <2>2. QED
        BY <1>2, <2>1
<1>6. QED
    BY <1>3, <1>4, <1>5 DEF RespSpans

\* Spaces and line ends are neither digits nor words.
LEMMA DigitsDiffer ==
    /\ "SP" \notin Digit /\ "CR" \notin Digit /\ "LF" \notin Digit
    /\ "CR" \notin Words /\ "LF" \notin Words
    BY DEF Words, Printable, Name, Digit

StatusOf(s, part) == IsResponse(s, LAMBDA f : f = part)

\* What http_resp_parse accepts is a status line.
LEMMA RespAccepts ==
    ASSUME NEW s \in Text, NEW p, p = RespParse(s), p.n \notin {-1, 0}
    PROVE  /\ FirstLine(s, p.n)
           /\ StatusOf(SubSeq(s, 1, p.n), p.part)
<1>1. PICK h, c, b : RespPlaces(s, h, c, b)
    BY DEF RespPlaces
<1> DEFINE part == <<SubSeq(s, 1, h - 1), SubSeq(s, h + 1, c - 1), SubSeq(s, c + 1, b - 1)>>
           n == p.n
           line == SubSeq(s, 1, n)
<1>2. Len(s) \in Int /\ p = RespAt(s, h, c, b) /\ RespSpans(s, h, c, b)
    BY <1>1, RespParseIs, RespPlacesAre DEF Text
<1>3. /\ ~(h > Len(s)) /\ ~(h = 1) /\ s[h] = "SP" /\ ~(c > Len(s)) /\ c - h - 1 = 3 /\ s[c] = "SP"
      /\ ~(b > Len(s)) /\ p = LineEnd(s, b, part)
    <2>1. More.n = 0 /\ Bad(-1).n = -1
        BY DEF More, Bad
    <2>2. QED
        BY <1>2, <2>1 DEF RespAt
<1> HIDE DEF part
<1>4. /\ h \in Int /\ c \in Int /\ b \in Int /\ 2 <= h /\ c = h + 4 /\ c + 1 <= b /\ b <= Len(s)
      /\ Leaves(s, 1, Printable, h) /\ Leaves(s, h + 1, Digit, c) /\ Leaves(s, c + 1, Words, b)
    BY <1>2, <1>3 DEF RespSpans
<1>5. Ended(s, b, part, p)
    <2>1. b \in 1 .. Len(s) + 1
        BY <1>2, <1>4
    <2>2. QED
        BY <1>3, <2>1, LineEndIs
<1>6. n \in b .. Len(s) /\ p = [n |-> n, part |-> part]
    BY <1>5 DEF Ended
<1>7. (n = b /\ s[b] = "LF") \/ (n = b + 1 /\ s[b] = "CR" /\ s[n] = "LF")
    BY <1>5, <1>6 DEF Ended
<1> HIDE DEF n
<1>8. n \in Int /\ b <= n /\ n <= Len(s) /\ n \in 0 .. Len(s)
    BY <1>2, <1>4, <1>6
<1>9. FirstLine(s, n)
    <2>1. \A k \in 1 .. h - 1 : s[k] # "LF"
        BY <1>4, SymbolsDiffer DEF Leaves
    <2>2. \A k \in h + 1 .. c - 1 : s[k] # "LF"
        BY <1>4, DigitsDiffer DEF Leaves
    <2>3. \A k \in c + 1 .. b - 1 : s[k] # "LF"
        BY <1>4, DigitsDiffer DEF Leaves
    <2>4. s[h] # "LF" /\ s[c] # "LF"
        BY <1>3
    <2>5. \A k \in 1 .. b - 1 : s[k] # "LF"
        BY <1>2, <1>4, <2>1, <2>2, <2>3, <2>4
    <2>6. n \in 1 .. Len(s) /\ \A k \in 1 .. n - 1 : s[k] # "LF"
        BY <1>2, <1>4, <1>7, <1>8, <2>5
    <2>7. QED
        BY <1>7, <2>6 DEF FirstLine
<1>10. /\ line \in Text /\ Len(line) = n
       /\ \A a \in 1 .. n + 1, z \in 0 .. n : SubSeq(line, a, z) = SubSeq(s, a, z)
    BY <1>8, CutIs
<1>11. StatusOf(line, p.part)
    <2> DEFINE d == h - 1
    <2>1. /\ d \in 1 .. n /\ b \in d + 6 .. n /\ d + 1 = h /\ d + 5 = c /\ d + 2 = h + 1
          /\ d + 4 = c - 1 /\ d + 6 = c + 1
        BY <1>4, <1>8
    <2>2. \A S : \A k \in 1 .. Len(s) + 1 : \A j :
            Leaves(s, k, S, j) /\ j - 1 <= n => In(line, k, j - 1, S)
        BY <1>8, LeavesCut
    <2>3. /\ 1 \in 1 .. Len(s) + 1 /\ h \in 1 .. Len(s) + 1 /\ h + 1 \in 1 .. Len(s) + 1
          /\ c \in 1 .. Len(s) + 1 /\ c + 1 \in 1 .. Len(s) + 1
          /\ h - 1 <= n /\ c - 1 <= n /\ b - 1 <= n /\ h + 1 - 1 <= n /\ c + 1 - 1 <= n
          /\ h + 1 - 1 = h /\ c + 1 - 1 = c
        BY <1>2, <1>4, <1>8
    <2>4. In(line, h, h, {"SP"}) /\ In(line, c, c, {"SP"})
        <3>1. /\ \A i \in 1 .. n : line[i] = s[i]
              /\ DOMAIN line = 1 .. n
            BY <1>8, CutIs DEF Text
        <3>2. h \in 1 .. n /\ c \in 1 .. n /\ h .. h = {h} /\ c .. c = {c}
            BY <1>4, <1>8
        <3>3. line[h] = "SP" /\ line[c] = "SP"
            BY <1>3, <3>1, <3>2
        <3>4. QED
            BY <3>1, <3>2, <3>3 DEF In
    <2>5. /\ In(line, 1, h - 1, Printable) /\ In(line, h + 1, c - 1, Digit)
          /\ In(line, c + 1, b - 1, Words)
        BY <1>4, <2>2, <2>3
    <2>6. EndsAt(line, b)
        <3>1. b \in 1 .. Len(s) /\ n \in b .. Len(s)
            BY <1>2, <1>4, <1>8
        <3>2. QED
            BY <1>7, <3>1, EndsCut
    <2>7. p.part = <<SubSeq(line, 1, d), SubSeq(line, d + 2, d + 4), SubSeq(line, d + 6, b - 1)>>
        <3>1. /\ 1 \in 1 .. n + 1 /\ h + 1 \in 1 .. n + 1 /\ c + 1 \in 1 .. n + 1
              /\ h - 1 \in 0 .. n /\ c - 1 \in 0 .. n /\ b - 1 \in 0 .. n
            BY <1>4, <1>8
        <3>2. /\ SubSeq(line, 1, h - 1) = SubSeq(s, 1, h - 1)
              /\ SubSeq(line, h + 1, c - 1) = SubSeq(s, h + 1, c - 1)
              /\ SubSeq(line, c + 1, b - 1) = SubSeq(s, c + 1, b - 1)
            BY <1>10, <3>1
        <3>3. p.part = part
            BY <1>6
        <3>4. QED
            BY <2>1, <3>2, <3>3 DEF part
    <2>8. /\ In(line, 1, d, Printable) /\ In(line, d + 1, d + 1, {"SP"})
          /\ In(line, d + 2, d + 4, Digit) /\ In(line, d + 5, d + 5, {"SP"})
          /\ In(line, d + 6, b - 1, Printable \cup {"SP"})
        BY <2>1, <2>4, <2>5 DEF Words
    <2> HIDE DEF d, line
    <2>9. QED
        BY <1>10, <2>1, <2>6, <2>7, <2>8 DEF StatusOf, IsResponse
<1>12. QED
    BY <1>9, <1>11 DEF n

StatusLine(s) == IsResponse(s, LAMBDA f : TRUE)

(***************************************************************************)
(* http_resp_parse accepts every status line, and needs no more when the   *)
(* line's end has come.                                                    *)
(***************************************************************************)
LEMMA RespReads ==
    ASSUME NEW s \in Text, NEW n, FirstLine(s, n), StatusLine(SubSeq(s, 1, n))
    PROVE  RespParse(s).n = n
<1> DEFINE line == SubSeq(s, 1, n)
<1>1. /\ Len(s) \in Int /\ n \in Int /\ 1 <= n /\ n <= Len(s) /\ s[n] = "LF"
      /\ n \in 1 .. Len(s) /\ n \in 0 .. Len(s)
    BY DEF FirstLine, Text
<1>2. line \in Text /\ Len(line) = n
    BY <1>1, CutIs
<1>3. PICK d \in Int, b \in Int :
         /\ 1 <= d /\ d + 6 <= b /\ b <= n
         /\ In(line, 1, d, Printable) /\ In(line, d + 1, d + 1, {"SP"})
            /\ In(line, d + 2, d + 4, Digit)
         /\ In(line, d + 5, d + 5, {"SP"}) /\ In(line, d + 6, b - 1, Words) /\ EndsAt(line, b)
    <2> HIDE DEF line
    <2>1. StatusLine(line)
        BY DEF line
    <2>2. PICK d \in 1 .. Len(line) : In(line, 1, d, Printable) /\ In(line, d + 1, d + 1, {"SP"}) /\
          In(line, d + 2, d + 4, Digit) /\ In(line, d + 5, d + 5, {"SP"}) /\
          \E b \in d + 6 .. Len(line) : In(line, d + 6, b - 1, Printable \cup {"SP"})
            /\ EndsAt(line, b)
        BY <2>1, Zenon DEF IsResponse, StatusLine
    <2>3. d \in Int /\ 1 <= d /\ Len(line) \in Int
        BY <1>1, <1>2, <2>2
    <2>4. PICK b \in Int : d + 6 <= b /\ b <= Len(line) /\ In(line, d + 6, b - 1, Words)
                 /\ EndsAt(line, b)
        BY <2>2, <2>3 DEF Words
    <2>5. QED
        BY <1>2, <2>2, <2>3, <2>4
<1>4. \A S : \A i, j \in Int : In(line, i, j, S) => \A k \in i .. j : k \in 1 .. n /\ s[k] \in S
    BY <1>1, InText
<1>5. (n = b /\ s[b] = "LF") \/ (n = b + 1 /\ s[b] = "CR" /\ s[n] = "LF")
    <2>1. b \in 1 .. n
        BY <1>1, <1>3
    <2>2. QED
        BY <1>1, <1>3, <2>1, EndsInText
<1> HIDE DEF line
<1>6. /\ \A k \in 1 .. d : s[k] \in Printable
      /\ s[d + 1] = "SP"
      /\ \A k \in d + 2 .. d + 4 : s[k] \in Digit
      /\ s[d + 5] = "SP"
      /\ \A k \in d + 6 .. b - 1 : s[k] \in Words
    <2>1. /\ 1 \in Int /\ d + 1 \in Int /\ d + 2 \in Int /\ d + 4 \in Int /\ d + 5 \in Int
             /\ d + 6 \in Int
          /\ b - 1 \in Int /\ d + 1 \in d + 1 .. d + 1 /\ d + 5 \in d + 5 .. d + 5
        BY <1>3
    <2>2. QED
        BY <1>3, <1>4, <2>1
<1>7. Leaves(s, 1, Printable, d + 1) /\ Leaves(s, d + 2, Digit, d + 5) /\ Leaves(s, d + 6, Words, b)
    <2>1. Leaves(s, 1, Printable, d + 1)
        BY <1>1, <1>3, <1>6, SymbolsDiffer DEF Leaves
    <2>2. Leaves(s, d + 2, Digit, d + 5)
        BY <1>1, <1>3, <1>6, DigitsDiffer DEF Leaves
    <2>3. Leaves(s, d + 6, Words, b)
        BY <1>1, <1>3, <1>5, <1>6, DigitsDiffer DEF Leaves
    <2>4. QED
        BY <2>1, <2>2, <2>3
<1>8. RespPlaces(s, d + 1, d + 5, b)
    <2>1. /\ 1 \in 1 .. Len(s) + 1 /\ d + 2 \in 1 .. Len(s) + 1 /\ d + 6 \in 1 .. Len(s) + 1
          /\ d + 1 + 1 = d + 2 /\ d + 5 + 1 = d + 6
        BY <1>1, <1>3
    <2>2. /\ Past(s, 1, Printable) = d + 1 /\ Past(s, d + 2, Digit) = d + 5
             /\ Past(s, d + 6, Words) = b
        BY <1>7, <2>1, PastUnique
    <2>3. QED
        BY <2>1, <2>2 DEF RespPlaces
<1> DEFINE part == <<SubSeq(s, 1, d + 1 - 1), SubSeq(s, d + 1 + 1, d + 5 - 1),
                     SubSeq(s, d + 5 + 1, b - 1)>>
<1>9. RespParse(s) = LineEnd(s, b, part)
    <2>1. RespParse(s) = RespAt(s, d + 1, d + 5, b)
        BY <1>8, RespParseIs
    <2>2. ~(d + 1 > Len(s)) /\ d + 1 # 1 /\ ~(d + 5 > Len(s)) /\ d + 5 - (d + 1) - 1 = 3
            /\ ~(b > Len(s))
        BY <1>1, <1>3
    <2>3. QED
        BY <1>6, <2>1, <2>2 DEF RespAt
<1> HIDE DEF part
<1>10. b \in 1 .. Len(s) + 1 /\ n \in b .. Len(s)
    BY <1>1, <1>3
<1>11. QED
    BY <1>5, <1>9, <1>10, LineEndIs DEF Ended

\* When the line's end has come, http_resp_parse needs no more.
LEMMA RespDecides ==
    ASSUME NEW s \in Text, NEW n, FirstLine(s, n)
    PROVE  RespParse(s).n # 0
<1>1. PICK h, c, b : RespPlaces(s, h, c, b)
    BY DEF RespPlaces
<1>2. /\ Len(s) \in Nat /\ RespParse(s) = RespAt(s, h, c, b)
      /\ RespSpans(s, h, c, b) /\ n \in 1 .. Len(s) /\ s[n] = "LF"
    BY <1>1, RespParseIs, RespPlacesAre DEF Text, FirstLine
<1>3. SUFFICES ASSUME RespParse(s).n = 0 PROVE FALSE
    OBVIOUS
<1>4. \A S, k, j : Leaves(s, k, S, j) /\ "LF" \notin S /\ k \in 1 .. n => j \in k .. n
    BY <1>2 DEF Leaves
<1>5. Bad(-1).n # 0
    BY DEF Bad
<1>6. h \in 1 .. n
    BY <1>2, <1>4, SymbolsDiffer DEF RespSpans
<1>7. h # 1 /\ s[h] = "SP" /\ h + 1 \in 1 .. n
    BY <1>2, <1>3, <1>5, <1>6 DEF RespAt
<1>8. c \in h + 1 .. n
    BY <1>2, <1>4, <1>6, <1>7, DigitsDiffer DEF RespSpans
<1>9. c - h - 1 = 3 /\ s[c] = "SP" /\ c + 1 \in 1 .. n
    BY <1>2, <1>3, <1>5, <1>6, <1>7, <1>8 DEF RespAt
<1>10. b \in c + 1 .. n
    BY <1>2, <1>4, <1>6, <1>8, <1>9, DigitsDiffer DEF RespSpans
<1> DEFINE part == <<SubSeq(s, 1, h - 1), SubSeq(s, h + 1, c - 1), SubSeq(s, c + 1, b - 1)>>
<1>11. RespParse(s) = LineEnd(s, b, part)
    BY <1>2, <1>3, <1>5, <1>6, <1>7, <1>8, <1>9, <1>10 DEF RespAt
<1> HIDE DEF part
<1>12. b \in 1 .. Len(s) + 1
    BY <1>2, <1>6, <1>8, <1>10
<1>13. b = Len(s) + 1 \/ (b = Len(s) /\ s[b] = "CR")
    BY <1>3, <1>11, <1>12, LineEndIs DEF Ended
<1>14. QED
    BY <1>2, <1>10, <1>13

(***************************************************************************)
(* What http_resp_parse has decided stays, whatever comes after it.        *)
(***************************************************************************)
LEMMA RespKept ==
    ASSUME NEW s, NEW t, Extends(t, s), RespParse(s).n # 0
    PROVE  RespParse(t) = RespParse(s)
<1>1. PICK h, c, b : RespPlaces(s, h, c, b)
    BY DEF RespPlaces
<1>2. PICK hh, cc, bb : RespPlaces(t, hh, cc, bb)
    BY DEF RespPlaces
<1>3. /\ s \in Text /\ t \in Text /\ Len(s) \in Nat /\ Len(t) \in Nat /\ Len(s) <= Len(t)
      /\ \A i \in 1 .. Len(s) : t[i] = s[i]
    BY DEF Extends, Text
<1>4. /\ RespParse(s) = RespAt(s, h, c, b) /\ RespSpans(s, h, c, b)
      /\ RespParse(t) = RespAt(t, hh, cc, bb)
    BY <1>1, <1>2, <1>3, RespParseIs, RespPlacesAre
<1>5. More.n = 0
    BY DEF More
<1>6. h \in 1 .. Len(s) /\ h <= Len(t) /\ hh = h /\ t[h] = s[h] /\ h \in Int
    <2>1. h \in 1 .. Len(s)
        BY <1>3, <1>4, <1>5 DEF RespAt, RespSpans
    <2>2. Past(t, 1, Printable) = Past(s, 1, Printable)
        BY <1>1, <1>3, <2>1, PastKept DEF RespPlaces
    <2>3. QED
        BY <1>1, <1>2, <1>3, <2>1, <2>2 DEF RespPlaces
<1>7. CASE h = 1 \/ s[h] # "SP"
    BY <1>3, <1>4, <1>6, <1>7 DEF RespAt
<1>8. CASE ~(h = 1 \/ s[h] # "SP")
    <2>1. c \in h + 1 .. Len(s) /\ c \in Int
        BY <1>3, <1>4, <1>5, <1>6, <1>8 DEF RespAt, RespSpans
    <2>2. cc = c /\ c <= Len(t) /\ t[c] = s[c]
        <3>1. h + 1 \in 1 .. Len(s) + 1 /\ c <= Len(s)
            BY <1>3, <1>6, <2>1
        <3>2. Past(t, h + 1, Digit) = c
            BY <1>1, <3>1, PastKept DEF RespPlaces
        <3>3. QED
            BY <1>2, <1>3, <1>6, <2>1, <3>2 DEF RespPlaces
    <2>3. CASE c - h - 1 # 3 \/ s[c] # "SP"
        <3>1. /\ ~(h > Len(s)) /\ ~(c > Len(s))
              /\ ~(hh > Len(t)) /\ ~(hh = 1 \/ t[hh] # "SP") /\ ~(cc > Len(t))
              /\ (cc - hh - 1 # 3 \/ t[cc] # "SP")
            BY <1>3, <1>6, <1>8, <2>1, <2>2, <2>3
        <3>2. RespParse(s) = Bad(-1) /\ RespParse(t) = Bad(-1)
            BY <1>4, <1>8, <2>3, <3>1, Zenon DEF RespAt
        <3>3. QED
            BY <3>2
    <2>4. CASE ~(c - h - 1 # 3 \/ s[c] # "SP")
        <3>1. b \in c + 1 .. Len(s) /\ b \in Int
            <4>1. h <= Len(s) /\ c <= Len(s) /\ ~(h > Len(s)) /\ ~(c > Len(s))
                BY <1>3, <1>6, <2>1
            <4>2. ~(b > Len(s))
                BY <1>4, <1>5, <1>8, <2>4, <4>1, Zenon DEF RespAt
            <4>3. b \in c + 1 .. Len(s) + 1
                BY <1>4, <4>1, Zenon DEF RespSpans
            <4>4. QED
                BY <1>3, <2>1, <4>2, <4>3
        <3>2. bb = b /\ b <= Len(t)
            <4>1. c + 1 \in 1 .. Len(s) + 1 /\ b <= Len(s)
                BY <1>3, <1>6, <2>1, <3>1
            <4>2. Past(t, c + 1, Words) = b
                BY <1>1, <4>1, PastKept DEF RespPlaces
            <4>3. QED
                BY <1>2, <1>3, <2>2, <3>1, <4>2 DEF RespPlaces
        <3> DEFINE part == <<SubSeq(s, 1, h - 1), SubSeq(s, h + 1, c - 1), SubSeq(s, c + 1, b - 1)>>
        <3>3. part = <<SubSeq(t, 1, h - 1), SubSeq(t, h + 1, c - 1), SubSeq(t, c + 1, b - 1)>>
            <4>1. /\ 1 \in Nat \ {0} /\ h + 1 \in Nat \ {0} /\ c + 1 \in Nat \ {0} /\ h - 1 \in Int
                  /\ c - 1 \in Int /\ b - 1 \in Int
                  /\ h - 1 <= Len(s) /\ c - 1 <= Len(s) /\ b - 1 <= Len(s)
                BY <1>3, <1>6, <2>1, <3>1
            <4>2. \A i \in Nat \ {0} : \A j \in Int : j <= Len(s) =>
                    SubSeq(t, i, j) = SubSeq(s, i, j)
                BY PartKept
            <4>3. QED
                BY <4>1, <4>2
        <3>4. RespParse(s) = LineEnd(s, b, part)
            BY <1>3, <1>4, <1>6, <1>8, <2>1, <2>4, <3>1 DEF RespAt
        <3>5. RespParse(t) = LineEnd(t, b, part)
            <4>1. /\ ~(hh > Len(t)) /\ ~(hh = 1 \/ t[hh] # "SP") /\ ~(cc > Len(t))
                  /\ ~(cc - hh - 1 # 3 \/ t[cc] # "SP") /\ ~(bb > Len(t))
                BY <1>3, <1>6, <1>8, <2>1, <2>2, <2>4, <3>1, <3>2
            <4>2. RespParse(t) = LineEnd(t, bb, <<SubSeq(t, 1, hh - 1), SubSeq(t, hh + 1, cc - 1),
                                                  SubSeq(t, cc + 1, bb - 1)>>)
                BY <1>4, <4>1 DEF RespAt
            <4>3. QED
                BY <1>6, <2>2, <3>2, <3>3, <4>2
        <3>6. b \in 1 .. Len(s) + 1
            BY <1>3, <1>6, <2>1, <3>1
        <3> HIDE DEF part
        <3>7. QED
            BY <3>4, <3>5, <3>6, LineEndKept
    <2>5. QED
        BY <2>3, <2>4
<1>9. QED
    BY <1>7, <1>8

-----------------------------------------------------------------------------
(* The header line *)

Ends == {"CR", "LF"}

\* No other position is Find.
LEMMA FindUnique ==
    ASSUME NEW s \in Text, NEW S, NEW k \in 1 .. Len(s) + 1, NEW j, Meets(s, k, S, j)
    PROVE  Find(s, k, S) = j
<1>1. Meets(s, k, S, Find(s, k, S))
    BY FindIs
<1> DEFINE i == Find(s, k, S)
<1>2. ~(i < j) /\ ~(j < i)
    BY <1>1 DEF Meets, Text
<1>3. QED
    BY <1>1, <1>2 DEF Meets, Text

\* More data does not move a line end that was found.
LEMMA FindKept ==
    ASSUME NEW s, NEW t, Extends(t, s), NEW S, NEW k \in 1 .. Len(s) + 1, Find(s, k, S) <= Len(s)
    PROVE  Find(t, k, S) = Find(s, k, S)
<1>1. s \in Text /\ t \in Text /\ k \in 1 .. Len(t) + 1
    BY DEF Extends, Text
<1>2. Meets(s, k, S, Find(s, k, S))
    BY <1>1, FindIs
<1>3. Meets(t, k, S, Find(s, k, S))
    BY <1>2 DEF Meets, Extends, Text
<1>4. QED
    BY <1>1, <1>3, FindUnique

\* Where the spaces at the end start.
LEMMA TrimIs ==
    ASSUME NEW r \in Text
    PROVE  \E k \in 0 .. Len(r) :
             /\ TrimRight(r) = SubSeq(r, 1, k)
             /\ k > 0 => r[k] # "SP"
             /\ \A m \in k + 1 .. Len(r) : r[m] = "SP"
<1> DEFINE Good(k) == /\ k > 0 => r[k] # "SP"
                      /\ \A m \in k + 1 .. Len(r) : r[m] = "SP"
           Q == {q \in 0 .. Len(r) : q = Len(r) \/ r[Len(r) - q] # "SP"}
<1>1. Len(r) \in Nat
    BY DEF Text
<1>2. Q \in SUBSET (0 .. Len(r)) /\ Len(r) \in Q /\ 0 \in Int /\ Len(r) \in Int
    BY <1>1
<1>3. PICK q \in Q : \A m \in 0 .. q - 1 : m \notin Q
    <2> HIDE DEF Q
    <2> QED BY <1>2, FirstOf
<1>4. Len(r) - q \in 0 .. Len(r) /\ Good(Len(r) - q)
    <2>1. q \in Int /\ 0 <= q /\ q <= Len(r)
        BY <1>1
    <2>2. Len(r) - q > 0 => r[Len(r) - q] # "SP"
        BY <1>1, <2>1
    <2>3. ASSUME NEW m \in Len(r) - q + 1 .. Len(r) PROVE r[m] = "SP"
        <3>1. Len(r) - m \in 0 .. q - 1 /\ Len(r) - (Len(r) - m) = m /\ Len(r) - m \in 0 .. Len(r)
              /\ Len(r) - m # Len(r)
            BY <1>1, <2>1
        <3>2. Len(r) - m \notin Q
            BY <1>3, <3>1
        <3>3. QED
            BY <3>1, <3>2
    <2>4. QED
        BY <1>1, <2>1, <2>2, <2>3
<1>5. \E k \in 0 .. Len(r) : Good(k)
    BY <1>4
<1> DEFINE k == CHOOSE i \in 0 .. Len(r) : Good(i)
<1>6. k \in 0 .. Len(r) /\ Good(k)
    BY <1>5
<1>7. TrimRight(r) = SubSeq(r, 1, k)
    BY DEF TrimRight
<1>8. QED
    BY <1>6, <1>7

\* Where the parts of a header line end, as HdrParse looks for it.
HdrPlaces(s, c, v, e) ==
    c = Past(s, 1, Name) /\ v = Past(s, c + 1, {"SP"}) /\ e = Find(s, v, Ends)

HdrSpans(s, c, v, e) ==
    /\ Leaves(s, 1, Name, c) /\ c \in 1 .. Len(s) + 1
    /\ c <= Len(s) => /\ Leaves(s, c + 1, {"SP"}, v) /\ v \in c + 1 .. Len(s) + 1
                      /\ Meets(s, v, Ends, e) /\ e \in v .. Len(s) + 1

HdrAt(s, c, v, e) ==
    IF c > Len(s) THEN More
    ELSE IF c = 1 THEN LineEnd(s, 1, <<>>)
    ELSE IF s[c] # ":" \/ s[1] = "-" THEN Bad(-1)
    ELSE IF v > Len(s) \/ e > Len(s) THEN More
    ELSE LineEnd(s, e, <<SubSeq(s, 1, c - 1), TrimRight(SubSeq(s, v, e - 1))>>)

\* http_hdr_parse, by the places that it finds.
LEMMA HdrParseIs ==
    ASSUME NEW s, NEW c, NEW v, NEW e, HdrPlaces(s, c, v, e)
    PROVE  HdrParse(s) = HdrAt(s, c, v, e)
    BY DEF HdrParse, HdrAt, HdrPlaces, Ends

\* Those places are where the parts end, as far as there are any.
LEMMA HdrPlacesAre ==
    ASSUME NEW s \in Text, NEW c, NEW v, NEW e, HdrPlaces(s, c, v, e)
    PROVE  HdrSpans(s, c, v, e)
<1>1. Len(s) \in Nat
    BY DEF Text
<1>2. ASSUME NEW S, NEW k \in 1 .. Len(s) + 1, NEW j, j = Past(s, k, S)
      PROVE  Leaves(s, k, S, j) /\ j \in k .. Len(s) + 1
    BY <1>2, PastIs DEF Leaves
<1>3. Leaves(s, 1, Name, c) /\ c \in 1 .. Len(s) + 1
    BY <1>1, <1>2 DEF HdrPlaces
<1>4. ASSUME c <= Len(s)
      PROVE  /\ Leaves(s, c + 1, {"SP"}, v) /\ v \in c + 1 .. Len(s) + 1
             /\ Meets(s, v, Ends, e) /\ e \in v .. Len(s) + 1
    <2>1. c + 1 \in 1 .. Len(s) + 1 /\ v = Past(s, c + 1, {"SP"}) /\ e = Find(s, v, Ends)
        BY <1>1, <1>3, <1>4 DEF HdrPlaces
    <2>2. Leaves(s, c + 1, {"SP"}, v) /\ v \in c + 1 .. Len(s) + 1
        BY <1>2, <2>1
    <2>3. v \in 1 .. Len(s) + 1
        BY <1>1, <1>3, <2>2
    <2>4. Meets(s, v, Ends, e)
        BY <2>1, <2>3, FindIs
    <2>5. QED
        BY <2>2, <2>4 DEF Meets
<1>5. QED
    BY <1>3, <1>4 DEF HdrSpans

\* What follows a name is not of a name.
LEMMA NamesDiffer ==
    ":" \notin Name /\ "SP" \notin Name /\ "CR" \notin Name /\ "LF" \notin Name
    BY DEF Name, Digit

\* When the line's end has come, http_hdr_parse needs no more.
LEMMA HdrDecides ==
    ASSUME NEW s \in Text, NEW n, FirstLine(s, n)
    PROVE  HdrParse(s).n # 0
<1>1. PICK c, v, e : HdrPlaces(s, c, v, e)
    BY DEF HdrPlaces
<1>2. /\ Len(s) \in Nat /\ HdrParse(s) = HdrAt(s, c, v, e)
      /\ HdrSpans(s, c, v, e) /\ n \in 1 .. Len(s) /\ s[n] = "LF"
    BY <1>1, HdrParseIs, HdrPlacesAre DEF Text, FirstLine
<1>3. SUFFICES ASSUME HdrParse(s).n = 0 PROVE FALSE
    OBVIOUS
<1>4. \A S, k, j : Leaves(s, k, S, j) /\ "LF" \notin S /\ k \in 1 .. n => j \in k .. n
    BY <1>2 DEF Leaves
<1>5. Bad(-1).n # 0
    BY DEF Bad
<1>6. c \in 1 .. n
    BY <1>2, <1>4, NamesDiffer DEF HdrSpans
<1>7. CASE c = 1
    <2>1. HdrParse(s) = LineEnd(s, 1, <<>>)
        BY <1>2, <1>6, <1>7 DEF HdrAt
    <2>2. 1 \in 1 .. Len(s) + 1
        BY <1>2
    <2>3. 1 = Len(s) + 1 \/ (1 = Len(s) /\ s[1] = "CR")
        <3>1. Ended(s, 1, <<>>, LineEnd(s, 1, <<>>))
            BY <2>2, LineEndIs
        <3>2. LineEnd(s, 1, <<>>).n = 0
            BY <1>3, <2>1
        <3>3. QED
            BY <3>1, <3>2 DEF Ended
    <2>4. QED
        BY <1>2, <2>3
<1>8. CASE c # 1
    <2>1. s[c] = ":" /\ s[1] # "-" /\ c + 1 \in 1 .. n
        BY <1>2, <1>3, <1>5, <1>6, <1>8 DEF HdrAt
    <2>2. v \in c + 1 .. n
        BY <1>2, <1>4, <1>6, <2>1 DEF HdrSpans
    <2>3. e \in v .. n
        BY <1>2, <1>6, <2>1, <2>2 DEF HdrSpans, Meets, Ends
    <2> DEFINE part == <<SubSeq(s, 1, c - 1), TrimRight(SubSeq(s, v, e - 1))>>
    <2>4. HdrParse(s) = LineEnd(s, e, part)
        BY <1>2, <1>6, <1>8, <2>1, <2>2, <2>3 DEF HdrAt
    <2> HIDE DEF part
    <2>5. e \in 1 .. Len(s) + 1
        BY <1>2, <1>6, <2>2, <2>3
    <2>6. e = Len(s) + 1 \/ (e = Len(s) /\ s[e] = "CR")
        BY <1>3, <2>4, <2>5, LineEndIs DEF Ended
    <2>7. QED
        BY <1>2, <2>3, <2>6
<1>9. QED
    BY <1>7, <1>8

HeaderLine(s) == IsHeader(s, LAMBDA f : TRUE)

(***************************************************************************)
(* http_hdr_parse accepts every header line, and the blank one.            *)
(***************************************************************************)
LEMMA HdrReadsBlank ==
    ASSUME NEW s \in Text, NEW n, FirstLine(s, n), EndsAt(SubSeq(s, 1, n), 1)
    PROVE  HdrParse(s).n = n /\ n \in {1, 2}
<1>1. Len(s) \in Int /\ n \in Int /\ 1 <= n /\ n <= Len(s) /\ n \in 1 .. Len(s) /\ s[n] = "LF"
    BY DEF FirstLine, Text
<1>2. 1 \in 1 .. n /\ 1 \in 1 .. Len(s) + 1 /\ n \in 1 .. Len(s)
    BY <1>1
<1>3. \/ n = 1 /\ s[1] = "LF"
      \/ n = 1 + 1 /\ s[1] = "CR" /\ s[n] = "LF"
    BY <1>1, <1>2, EndsInText
<1>4. Leaves(s, 1, Name, 1)
    BY <1>1, <1>3, NamesDiffer DEF Leaves
<1>5. Past(s, 1, Name) = 1
    BY <1>2, <1>4, PastUnique
<1>6. HdrParse(s) = LineEnd(s, 1, <<>>)
    <2>1. PICK c, v, e : HdrPlaces(s, c, v, e)
        BY DEF HdrPlaces
    <2>2. c = 1 /\ HdrParse(s) = HdrAt(s, c, v, e)
        BY <1>5, <2>1, HdrParseIs DEF HdrPlaces
    <2>3. QED
        BY <1>1, <2>2 DEF HdrAt
<1>7. QED
    BY <1>1, <1>2, <1>3, <1>6, LineEndIs DEF Ended

\* http_hdr_parse accepts every header line, which has three symbols at least.
LEMMA HdrReads ==
    ASSUME NEW s \in Text, NEW n, FirstLine(s, n), HeaderLine(SubSeq(s, 1, n))
    PROVE  HdrParse(s).n = n /\ n >= 3
<1> DEFINE line == SubSeq(s, 1, n)
<1>1. /\ Len(s) \in Int /\ n \in Int /\ 1 <= n /\ n <= Len(s) /\ s[n] = "LF"
      /\ n \in 1 .. Len(s) /\ n \in 0 .. Len(s)
    BY DEF FirstLine, Text
<1>2. line \in Text /\ Len(line) = n /\ \A k \in 1 .. n : line[k] = s[k]
    BY <1>1, CutIs
<1>3. PICK d \in Int, e \in Int :
         /\ 1 <= d /\ d + 2 <= e /\ e <= n
         /\ In(line, 1, d, Name) /\ line[1] # "-" /\ In(line, d + 1, d + 1, {":"})
         /\ EndsAt(line, e) /\ \A k \in d + 2 .. e - 1 : line[k] \notin Ends
    <2> HIDE DEF line
    <2>1. HeaderLine(line)
        BY DEF line
    <2>2. PICK d \in 1 .. Len(line) : In(line, 1, d, Name) /\ line[1] # "-"
                 /\ In(line, d + 1, d + 1, {":"}) /\
          \E e \in d + 2 .. Len(line) : EndsAt(line, e) /\
            (\A k \in d + 2 .. e - 1 : line[k] \notin {"CR", "LF"}) /\
            \E a, b \in d + 2 .. e :
                /\ In(line, d + 2, a - 1, {"SP"}) /\ In(line, b, e - 1, {"SP"})
                /\ a <= b /\ (a < b => line[a] # "SP" /\ line[b - 1] # "SP")
        BY <2>1, Zenon DEF IsHeader, HeaderLine
    <2>3. d \in Int /\ 1 <= d /\ Len(line) \in Int
        BY <1>1, <1>2, <2>2
    <2>4. PICK e \in Int : d + 2 <= e /\ e <= Len(line) /\ EndsAt(line, e) /\
            \A k \in d + 2 .. e - 1 : line[k] \notin Ends
        BY <2>2, <2>3 DEF Ends
    <2>5. QED
        BY <1>2, <2>2, <2>3, <2>4
<1>4. \A S : \A i, j \in Int : In(line, i, j, S) => \A k \in i .. j : k \in 1 .. n /\ s[k] \in S
    BY <1>1, InText
<1>5. (n = e /\ s[e] = "LF") \/ (n = e + 1 /\ s[e] = "CR" /\ s[n] = "LF")
    <2>1. e \in 1 .. n
        BY <1>1, <1>3
    <2>2. QED
        BY <1>1, <1>3, <2>1, EndsInText
<1> HIDE DEF line
<1>6. /\ \A k \in 1 .. d : s[k] \in Name
      /\ s[1] # "-" /\ s[d + 1] = ":" /\ \A k \in d + 2 .. e - 1 : s[k] \notin Ends
    <2>1. 1 \in Int /\ d + 1 \in Int /\ d + 1 \in d + 1 .. d + 1
        BY <1>3
    <2>2. (\A k \in 1 .. d : s[k] \in Name) /\ s[d + 1] = ":"
        BY <1>3, <1>4, <2>1
    <2>3. 1 \in 1 .. n /\ \A k \in d + 2 .. e - 1 : k \in 1 .. n
        BY <1>1, <1>3
    <2>4. QED
        BY <1>2, <1>3, <2>2, <2>3
<1>7. PICK c, v, i : HdrPlaces(s, c, v, i)
    BY DEF HdrPlaces
<1>8. c = d + 1 /\ c \in Int
    <2>1. Leaves(s, 1, Name, d + 1) /\ 1 \in 1 .. Len(s) + 1
        BY <1>1, <1>3, <1>6, NamesDiffer DEF Leaves
    <2>2. QED
        BY <1>3, <1>7, <2>1, PastUnique DEF HdrPlaces
<1>9. HdrSpans(s, c, v, i)
    BY <1>7, HdrPlacesAre
<1>10. v \in Int /\ d + 2 <= v /\ v <= e
    BY <1>1, <1>3, <1>5, <1>8, <1>9 DEF HdrSpans, Leaves
<1>11. i = e
    <2>1. Meets(s, v, Ends, e) /\ v \in 1 .. Len(s) + 1
        BY <1>1, <1>3, <1>5, <1>6, <1>10 DEF Meets, Ends
    <2>2. QED
        BY <1>7, <2>1, FindUnique DEF HdrPlaces
<1> DEFINE part == <<SubSeq(s, 1, c - 1), TrimRight(SubSeq(s, v, e - 1))>>
<1>12. HdrParse(s) = LineEnd(s, e, part)
    <2>1. HdrParse(s) = HdrAt(s, c, v, e)
        BY <1>7, <1>11, HdrParseIs
    <2>2. ~(c > Len(s)) /\ c # 1 /\ ~(v > Len(s) \/ e > Len(s)) /\ ~(s[c] # ":" \/ s[1] = "-")
        BY <1>1, <1>3, <1>6, <1>8, <1>10
    <2>3. QED
        BY <2>1, <2>2 DEF HdrAt
<1> HIDE DEF part
<1>13. e \in 1 .. Len(s) + 1 /\ n \in e .. Len(s)
    BY <1>1, <1>3
<1>14. HdrParse(s).n = n
    BY <1>5, <1>12, <1>13, LineEndIs DEF Ended
<1>15. QED
    BY <1>1, <1>3, <1>14

\* The beginning of a part is a part.
LEMMA PartOfPart ==
    ASSUME NEW s \in Text, NEW v \in Nat \ {0}, NEW e \in Int, v <= e, e - 1 <= Len(s),
           NEW k \in 0 .. e - v
    PROVE  /\ SubSeq(s, v, e - 1) \in Text /\ Len(SubSeq(s, v, e - 1)) = e - v
           /\ \A i \in 1 .. e - v : SubSeq(s, v, e - 1)[i] = s[v + i - 1]
           /\ SubSeq(SubSeq(s, v, e - 1), 1, k) = SubSeq(s, v, v + k - 1)
<1> DEFINE r == SubSeq(s, v, e - 1)
<1>1. \A i \in v .. e - 1 : s[i] \in Symbol
    BY DEF Text
<1>2. /\ r \in Seq(Symbol) /\ Len(r) = (IF v <= e - 1 THEN e - 1 - v + 1 ELSE 0)
      /\ \A i \in 1 .. e - 1 - v + 1 : r[i] = s[v + i - 1]
    BY <1>1, SubSeqProperties
<1>3. Len(r) = e - v /\ e - 1 - v + 1 = e - v
    BY <1>2
<1> HIDE DEF r
<1>4. \A i \in 1 .. e - v : r[i] = s[v + i - 1]
    BY <1>2, <1>3
<1>5. /\ SubSeq(r, 1, k) \in Seq(Symbol) /\ Len(SubSeq(r, 1, k)) = k
      /\ \A i \in 1 .. k : SubSeq(r, 1, k)[i] = r[i]
    <2>1. r \in Text /\ k \in 0 .. Len(r)
        BY <1>2, <1>3 DEF Text
    <2>2. QED
        BY <2>1, CutIs DEF Text
<1>6. /\ SubSeq(s, v, v + k - 1) \in Seq(Symbol) /\ Len(SubSeq(s, v, v + k - 1)) = k
      /\ \A i \in 1 .. k : SubSeq(s, v, v + k - 1)[i] = s[v + i - 1]
    <2>1. v \in Int /\ v + k - 1 \in Int /\ \A i \in v .. v + k - 1 : s[i] \in Symbol
        BY DEF Text
    <2>2. /\ SubSeq(s, v, v + k - 1) \in Seq(Symbol)
          /\ Len(SubSeq(s, v, v + k - 1)) = (IF v <= v + k - 1 THEN v + k - 1 - v + 1 ELSE 0)
          /\ \A i \in 1 .. v + k - 1 - v + 1 : SubSeq(s, v, v + k - 1)[i] = s[v + i - 1]
        BY <2>1, SubSeqProperties
    <2>3. v + k - 1 - v + 1 = k
        OBVIOUS
    <2>4. QED
        BY <2>2, <2>3
<1>7. \A i \in 1 .. k : SubSeq(r, 1, k)[i] = SubSeq(s, v, v + k - 1)[i]
    BY <1>4, <1>5, <1>6
<1>8. SubSeq(r, 1, k) = SubSeq(s, v, v + k - 1)
    BY <1>5, <1>6, <1>7, SeqEqual
<1>9. QED
    BY <1>2, <1>3, <1>4, <1>8 DEF r, Text

HeaderOf(s, part) == IsHeader(s, LAMBDA f : f = part)

\* What http_hdr_parse accepts is the blank line, in two symbols at most, or a header line.
LEMMA HdrAccepts ==
    ASSUME NEW s \in Text, NEW p, p = HdrParse(s), p.n \notin {-1, 0}
    PROVE  /\ FirstLine(s, p.n)
           /\ \/ EndsAt(SubSeq(s, 1, p.n), 1) /\ p.part = <<>> /\ p.n \in {1, 2}
              \/ HeaderOf(SubSeq(s, 1, p.n), p.part)
<1>1. PICK c, v, e : HdrPlaces(s, c, v, e)
    BY DEF HdrPlaces
<1> DEFINE value == TrimRight(SubSeq(s, v, e - 1))
           n == p.n
           line == SubSeq(s, 1, n)
<1>2. Len(s) \in Int /\ p = HdrAt(s, c, v, e) /\ HdrSpans(s, c, v, e)
    BY <1>1, HdrParseIs, HdrPlacesAre DEF Text
<1>3. More.n = 0 /\ Bad(-1).n = -1
    BY DEF More, Bad
<1>4. c \in Int /\ 1 <= c /\ c <= Len(s)
    BY <1>2, <1>3 DEF HdrAt, HdrSpans
<1>5. CASE c = 1
    <2> DEFINE none == <<>>
    <2>1. p = LineEnd(s, 1, none) /\ 1 \in 1 .. Len(s) + 1 /\ 1 \in 1 .. Len(s)
        BY <1>2, <1>4, <1>5 DEF HdrAt
    <2> HIDE DEF none
    <2>2. Ended(s, 1, none, p)
        BY <2>1, LineEndIs
    <2>3. n \in 1 .. Len(s) /\ p = [n |-> n, part |-> none]
        BY <2>2 DEF Ended
    <2>4. (n = 1 /\ s[1] = "LF") \/ (n = 1 + 1 /\ s[1] = "CR" /\ s[n] = "LF")
        BY <2>2, <2>3 DEF Ended
    <2>5. EndsAt(line, 1)
        BY <2>1, <2>3, <2>4, EndsCut
    <2> HIDE DEF n
    <2>6. FirstLine(s, n) /\ n \in {1, 2}
        BY <2>3, <2>4 DEF FirstLine
    <2>7. p.part = <<>>
        BY <2>3 DEF none
    <2>8. QED
        BY <2>5, <2>6, <2>7 DEF n
<1>6. CASE c # 1
    <2> DEFINE part == <<SubSeq(s, 1, c - 1), value>>
    <2>1. s[c] = ":" /\ s[1] # "-" /\ ~(v > Len(s)) /\ ~(e > Len(s)) /\ p = LineEnd(s, e, part)
        BY <1>2, <1>3, <1>4, <1>6 DEF HdrAt
    <2> HIDE DEF part, value
    <2>2. /\ v \in Int /\ e \in Int /\ c + 1 <= v /\ v <= e /\ e <= Len(s) /\ s[e] \in Ends
          /\ Leaves(s, 1, Name, c) /\ Leaves(s, c + 1, {"SP"}, v) /\ s[v] # "SP"
          /\ \A k \in v .. e - 1 : s[k] \notin Ends
        BY <1>2, <1>4, <2>1 DEF HdrSpans, Meets, Leaves
    <2>3. Ended(s, e, part, p)
        <3>1. e \in 1 .. Len(s) + 1
            BY <1>2, <1>4, <2>2
        <3>2. QED
            BY <2>1, <3>1, LineEndIs
    <2>4. n \in e .. Len(s) /\ p = [n |-> n, part |-> part]
        BY <2>3 DEF Ended
    <2>5. (n = e /\ s[e] = "LF") \/ (n = e + 1 /\ s[e] = "CR" /\ s[n] = "LF")
        BY <2>3, <2>4 DEF Ended
    <2> HIDE DEF n
    <2>6. n \in Int /\ e <= n /\ n <= Len(s) /\ n \in 0 .. Len(s)
        BY <1>2, <1>4, <2>2, <2>4
    <2>7. FirstLine(s, n)
        <3>1. \A k \in 1 .. c - 1 : s[k] # "LF"
            BY <2>2, NamesDiffer DEF Leaves
        <3>2. \A k \in c + 1 .. v - 1 : s[k] # "LF"
            BY <2>2 DEF Leaves
        <3>3. \A k \in v .. e - 1 : s[k] # "LF"
            BY <2>2 DEF Ends
        <3>4. \A k \in 1 .. e - 1 : s[k] # "LF"
            BY <1>2, <1>4, <2>1, <2>2, <3>1, <3>2, <3>3
        <3>5. n \in 1 .. Len(s) /\ \A k \in 1 .. n - 1 : s[k] # "LF"
            BY <1>2, <1>4, <2>2, <2>5, <2>6, <3>4
        <3>6. QED
            BY <2>5, <3>5 DEF FirstLine
    <2>8. /\ line \in Text /\ Len(line) = n /\ DOMAIN line = 1 .. n
          /\ \A i \in 1 .. n : line[i] = s[i]
          /\ \A i \in 1 .. n + 1, j \in 0 .. n : SubSeq(line, i, j) = SubSeq(s, i, j)
        BY <2>6, CutIs DEF Text
    <2>9. PICK k \in 0 .. e - v :
            /\ value = SubSeq(s, v, v + k - 1)
            /\ k > 0 => s[v + k - 1] # "SP"
            /\ \A m \in v + k .. e - 1 : s[m] = "SP"
        <3> DEFINE r == SubSeq(s, v, e - 1)
        <3>1. v \in Nat \ {0} /\ e - 1 <= Len(s)
            BY <1>2, <1>4, <2>2
        <3>2. /\ r \in Text /\ Len(r) = e - v /\ \A i \in 1 .. e - v : r[i] = s[v + i - 1]
              /\ \A k \in 0 .. e - v : SubSeq(r, 1, k) = SubSeq(s, v, v + k - 1)
            <4>1. v <= e /\ v \in Nat \ {0} /\ e \in Int /\ e - 1 <= Len(s) /\ 0 \in 0 .. e - v
                BY <2>2, <3>1
            <4>2. ASSUME NEW k \in 0 .. e - v
                  PROVE  /\ r \in Text /\ Len(r) = e - v
                         /\ \A i \in 1 .. e - v : r[i] = s[v + i - 1]
                         /\ SubSeq(r, 1, k) = SubSeq(s, v, v + k - 1)
                BY <4>1, PartOfPart, Zenon
            <4>3. QED
                BY <4>1, <4>2, Zenon
        <3> HIDE DEF r
        <3>3. PICK k \in 0 .. e - v : TrimRight(r) = SubSeq(r, 1, k) /\ (k > 0 => r[k] # "SP") /\
                                      \A m \in k + 1 .. e - v : r[m] = "SP"
            BY <3>2, TrimIs
        <3>4. k > 0 => s[v + k - 1] # "SP"
            BY <2>2, <3>2, <3>3
        <3>5. ASSUME NEW m \in v + k .. e - 1 PROVE s[m] = "SP"
            <4>1. m - v + 1 \in k + 1 .. e - v /\ m - v + 1 \in 1 .. e - v
                    /\ v + (m - v + 1) - 1 = m
                BY <2>2, <3>3
            <4>2. QED
                BY <3>2, <3>3, <4>1
        <3>6. value = SubSeq(s, v, v + k - 1)
            BY <3>2, <3>3 DEF value, r
        <3>7. QED
            BY <3>4, <3>5, <3>6
    <2>10. HeaderOf(line, p.part)
        <3> DEFINE d == c - 1
                   b == v + k
        <3>1. /\ d \in 1 .. n /\ d + 1 = c /\ d + 2 = c + 1 /\ e \in d + 2 .. n /\ v \in d + 2 .. e
              /\ b \in d + 2 .. e /\ v <= b /\ 1 \in 1 .. n /\ c \in 1 .. n
            BY <1>2, <1>4, <1>6, <2>2, <2>6, <2>9
        <3>2. In(line, 1, d, Name) /\ In(line, c + 1, v - 1, {"SP"})
            <4>1. /\ 1 \in 1 .. Len(s) + 1 /\ c + 1 \in 1 .. Len(s) + 1 /\ c - 1 <= n /\ v - 1 <= n
                BY <1>2, <1>4, <2>2, <2>6
            <4>2. \A S : \A i \in 1 .. Len(s) + 1 : \A j :
                    Leaves(s, i, S, j) /\ j - 1 <= n => In(line, i, j - 1, S)
                BY <2>6, LeavesCut
            <4>3. QED
                BY <2>2, <4>1, <4>2
        <3>3. line[1] # "-" /\ In(line, c, c, {":"})
            <4>1. c .. c = {c}
                BY <1>4
            <4>2. QED
                BY <2>1, <2>8, <3>1, <4>1 DEF In
        <3>4. EndsAt(line, e)
            <4>1. e \in 1 .. Len(s) /\ n \in e .. Len(s)
                BY <1>2, <1>4, <2>2, <2>6
            <4>2. QED
                BY <2>5, <4>1, EndsCut
        <3>5. \A i \in c + 1 .. e - 1 : line[i] \notin {"CR", "LF"}
            <4>1. \A i \in c + 1 .. v - 1 : s[i] = "SP"
                BY <2>2 DEF Leaves
            <4>2. \A i \in c + 1 .. e - 1 : s[i] \notin {"CR", "LF"}
                BY <1>4, <2>2, <4>1 DEF Ends
            <4>3. \A i \in c + 1 .. e - 1 : i \in 1 .. n
                BY <1>4, <2>2, <2>6
            <4>4. QED
                BY <2>8, <4>2, <4>3
        <3>6. In(line, b, e - 1, {"SP"})
            <4>1. \A i \in b .. e - 1 : i \in 1 .. n
                BY <1>4, <2>2, <2>6, <2>9
            <4>2. QED
                BY <2>8, <2>9, <4>1 DEF In
        <3>7. v < b => line[v] # "SP" /\ line[b - 1] # "SP"
            <4>1. v < b => k > 0 /\ v \in 1 .. n /\ b - 1 \in 1 .. n
                BY <1>4, <2>2, <2>6, <2>9
            <4>2. b - 1 = v + k - 1 /\ s[v] # "SP" /\ (k > 0 => s[b - 1] # "SP")
                BY <2>2, <2>9
            <4>3. \A i \in 1 .. n : line[i] = s[i]
                BY <2>8
            <4> HIDE DEF b, line
            <4>4. QED
                BY <4>1, <4>2, <4>3
        <3>8. p.part = <<SubSeq(line, 1, d), SubSeq(line, v, b - 1)>>
            <4>1. 1 \in 1 .. n + 1 /\ v \in 1 .. n + 1 /\ d \in 0 .. n /\ b - 1 \in 0 .. n
                BY <1>4, <2>2, <2>6, <2>9
            <4>2. SubSeq(line, 1, d) = SubSeq(s, 1, d)
                BY <2>8, <4>1, Zenon
            <4>3. SubSeq(line, v, b - 1) = SubSeq(s, v, b - 1)
                BY <2>8, <4>1, Zenon
            <4>4. b - 1 = v + k - 1
                BY <2>2
            <4>5. value = SubSeq(s, v, b - 1)
                BY <2>9, <4>4, Zenon
            <4>6. p.part = part
                BY <2>4
            <4>7. QED
                BY <4>2, <4>3, <4>5, <4>6, Zenon DEF part
        <3>9. /\ In(line, d + 1, d + 1, {":"}) /\ In(line, d + 2, v - 1, {"SP"})
              /\ \A i \in d + 2 .. e - 1 : line[i] \notin {"CR", "LF"}
            BY <3>1, <3>2, <3>3, <3>5
        <3> HIDE DEF d, b, line
        <3>10. QED
            BY <2>8, <3>1, <3>2, <3>3, <3>4, <3>6, <3>7, <3>8, <3>9 DEF HeaderOf, IsHeader
    <2>11. QED
        BY <2>7, <2>10 DEF n
<1>7. QED
    BY <1>5, <1>6

(***************************************************************************)
(* What http_hdr_parse has decided stays, whatever comes after it.         *)
(***************************************************************************)
LEMMA HdrKept ==
    ASSUME NEW s, NEW t, Extends(t, s), HdrParse(s).n # 0
    PROVE  HdrParse(t) = HdrParse(s)
<1>1. PICK c, v, e : HdrPlaces(s, c, v, e)
    BY DEF HdrPlaces
<1>2. PICK cc, vv, ee : HdrPlaces(t, cc, vv, ee)
    BY DEF HdrPlaces
<1>3. /\ s \in Text /\ t \in Text /\ Len(s) \in Nat /\ Len(t) \in Nat /\ Len(s) <= Len(t)
      /\ \A i \in 1 .. Len(s) : t[i] = s[i]
    BY DEF Extends, Text
<1>4. /\ HdrParse(s) = HdrAt(s, c, v, e) /\ HdrSpans(s, c, v, e)
      /\ HdrParse(t) = HdrAt(t, cc, vv, ee)
    BY <1>1, <1>2, <1>3, HdrParseIs, HdrPlacesAre
<1>5. More.n = 0
    BY DEF More
<1>6. c \in 1 .. Len(s) /\ c <= Len(t) /\ cc = c /\ t[c] = s[c] /\ c \in Int /\ t[1] = s[1]
    <2>1. c \in 1 .. Len(s)
        BY <1>3, <1>4, <1>5 DEF HdrAt, HdrSpans
    <2>2. Past(t, 1, Name) = Past(s, 1, Name)
        BY <1>1, <1>3, <2>1, PastKept DEF HdrPlaces
    <2>3. QED
        BY <1>1, <1>2, <1>3, <2>1, <2>2 DEF HdrPlaces
<1>7. CASE c = 1
    <2>1. /\ HdrParse(s) = LineEnd(s, 1, <<>>) /\ HdrParse(t) = LineEnd(t, 1, <<>>)
          /\ 1 \in 1 .. Len(s) + 1
        BY <1>3, <1>4, <1>6, <1>7 DEF HdrAt
    <2>2. LineEnd(s, 1, <<>>).n # 0
        BY <2>1
    <2>3. LineEnd(t, 1, <<>>) = LineEnd(s, 1, <<>>)
        BY <2>1, <2>2, LineEndKept
    <2>4. QED
        BY <2>1, <2>3
<1>8. CASE c # 1 /\ (s[c] # ":" \/ s[1] = "-")
    BY <1>3, <1>4, <1>6, <1>8 DEF HdrAt
<1>9. CASE c # 1 /\ ~(s[c] # ":" \/ s[1] = "-")
    <2>1. ~(v > Len(s) \/ e > Len(s))
            /\ HdrParse(s) = LineEnd(s, e, <<SubSeq(s, 1, c - 1), TrimRight(SubSeq(s, v, e - 1))>>)
        BY <1>3, <1>4, <1>5, <1>6, <1>9 DEF HdrAt
    <2>2. v \in c + 1 .. Len(s) /\ e \in v .. Len(s) /\ v \in Int /\ e \in Int
        BY <1>3, <1>4, <1>6, <2>1 DEF HdrSpans
    <2>3. vv = v /\ ee = e
        <3>1. c + 1 \in 1 .. Len(s) + 1 /\ v \in 1 .. Len(s) + 1 /\ v <= Len(s) /\ e <= Len(s)
            BY <1>3, <1>6, <2>2
        <3>2. Past(t, c + 1, {"SP"}) = v /\ Find(t, v, Ends) = e
            BY <1>1, <3>1, PastKept, FindKept DEF HdrPlaces
        <3>3. QED
            BY <1>2, <1>6, <3>2 DEF HdrPlaces
    <2>4. SubSeq(t, 1, c - 1) = SubSeq(s, 1, c - 1) /\ SubSeq(t, v, e - 1) = SubSeq(s, v, e - 1)
        <3>1. /\ 1 \in Nat \ {0} /\ v \in Nat \ {0} /\ c - 1 \in Int /\ e - 1 \in Int
              /\ c - 1 <= Len(s) /\ e - 1 <= Len(s)
            BY <1>3, <1>6, <2>2
        <3>2. \A i \in Nat \ {0} : \A j \in Int : j <= Len(s) => SubSeq(t, i, j) = SubSeq(s, i, j)
            BY PartKept
        <3>3. QED
            BY <3>1, <3>2
    <2> DEFINE part == <<SubSeq(s, 1, c - 1), TrimRight(SubSeq(s, v, e - 1))>>
    <2>5. HdrParse(t) = LineEnd(t, e, part)
        <3>1. /\ ~(cc > Len(t)) /\ cc # 1 /\ ~(t[cc] # ":" \/ t[1] = "-")
                 /\ ~(vv > Len(t) \/ ee > Len(t))
            BY <1>3, <1>6, <1>9, <2>2, <2>3
        <3>2. HdrParse(t) = LineEnd(t, ee, <<SubSeq(t, 1, cc - 1),
                TrimRight(SubSeq(t, vv, ee - 1))>>)
            BY <1>4, <3>1 DEF HdrAt
        <3>3. QED
            BY <1>6, <2>3, <2>4, <3>2
    <2>6. HdrParse(s) = LineEnd(s, e, part) /\ e \in 1 .. Len(s) + 1
        BY <1>3, <1>6, <2>1, <2>2
    <2> HIDE DEF part
    <2>7. QED
        BY <2>5, <2>6, LineEndKept
<1>10. QED
    BY <1>7, <1>8, <1>9

-----------------------------------------------------------------------------
(* The properties of the run, for every input *)

\* The formats by their names.
LEMMA FormatIs ==
    ASSUME NEW s
    PROVE  /\ InFormat("request", s) <=> RequestLine(s)
           /\ InFormat("response", s) <=> StatusLine(s)
           /\ InFormat("header", s) <=> HeaderLine(s) \/ EndsAt(s, 1)
<1>1. InFormat("request", s) <=> RequestLine(s)
    BY Zenon DEF InFormat, IsLine, RequestLine, IsRequest
<1>2. InFormat("response", s) <=> StatusLine(s)
    BY DEF InFormat, IsLine, StatusLine, IsResponse
<1>3. InFormat("header", s) <=> HeaderLine(s) \/ EndsAt(s, 1)
    BY DEF InFormat, IsLine, HeaderLine, IsHeader
<1>4. QED
    BY <1>1, <1>2, <1>3

\* The formats with their parts, by their names.
LEMMA PartsAre ==
    ASSUME NEW s, NEW part
    PROVE  /\ HasParts("request", s, part) <=> RequestOf(s, part)
           /\ HasParts("response", s, part) <=> StatusOf(s, part)
           /\ HasParts("header", s, part) <=>
                HeaderOf(s, part) \/ (EndsAt(s, 1) /\ <<>> = part)
<1>1. HasParts("request", s, part) <=> RequestOf(s, part)
    BY DEF HasParts, IsLine, RequestOf, IsRequest
<1>2. HasParts("response", s, part) <=> StatusOf(s, part)
    BY DEF HasParts, IsLine, StatusOf, IsResponse
<1>3. HasParts("header", s, part) <=> HeaderOf(s, part) \/ (EndsAt(s, 1) /\ <<>> = part)
    BY DEF HasParts, IsLine, HeaderOf, IsHeader
<1>4. QED
    BY <1>1, <1>2, <1>3

\* What is a line with certain parts is a line, in each format.
LEMMA LineOfLine ==
    ASSUME NEW s, NEW part
    PROVE  /\ RequestOf(s, part) => RequestLine(s)
           /\ StatusOf(s, part) => StatusLine(s)
           /\ HeaderOf(s, part) => HeaderLine(s)
<1>1. RequestOf(s, part) => RequestLine(s)
    <2> DEFINE
          Till(w) == \E x \in w + 1 .. Len(s) : In(s, w + 1, x - 1, {"SP"}) /\ EndsAt(s, x)
          TillOf(m, u, e, v, w) ==
              \E x \in w + 1 .. Len(s) : In(s, w + 1, x - 1, {"SP"}) /\ EndsAt(s, x) /\
                  <<SubSeq(s, 1, m), SubSeq(s, u, e), SubSeq(s, v, w)>> = part
          Vers(v) == \E w \in v + 1 .. Len(s) :
              In(s, v, w, Printable) /\ SubSeq(s, v, v + 1) \in Versions /\ Till(w)
          VersOf(m, u, e, v) == \E w \in v + 1 .. Len(s) :
              In(s, v, w, Printable) /\ SubSeq(s, v, v + 1) \in Versions /\ TillOf(m, u, e, v, w)
          Url(u) == \E e \in u .. Len(s) : In(s, u, e, Printable) /\
              \E v \in e + 2 .. Len(s) : In(s, e + 1, v - 1, {"SP"}) /\ Vers(v)
          UrlOf(m, u) == \E e \in u .. Len(s) : In(s, u, e, Printable) /\
              \E v \in e + 2 .. Len(s) : In(s, e + 1, v - 1, {"SP"}) /\ VersOf(m, u, e, v)
    <2>1. RequestLine(s) <=> \E m \in 1 .. Len(s) : In(s, 1, m, {"U"}) /\
              \E u \in m + 2 .. Len(s) : In(s, m + 1, u - 1, {"SP"}) /\ Url(u)
        BY DEF RequestLine, IsRequest
    <2>2. RequestOf(s, part) <=> \E m \in 1 .. Len(s) : In(s, 1, m, {"U"}) /\
              \E u \in m + 2 .. Len(s) : In(s, m + 1, u - 1, {"SP"}) /\ UrlOf(m, u)
        BY DEF RequestOf, IsRequest
    <2>3. \A m, u, e, v, w : TillOf(m, u, e, v, w) => Till(w)
        BY Zenon
    <2> HIDE DEF Till, TillOf
    <2>4. \A m, u, e, v : VersOf(m, u, e, v) => Vers(v)
        BY <2>3, Zenon
    <2> HIDE DEF Vers, VersOf
    <2>5. \A m, u : UrlOf(m, u) => Url(u)
        BY <2>4, Zenon
    <2> HIDE DEF Url, UrlOf
    <2>6. QED
        BY <2>1, <2>2, <2>5, Zenon
<1>2. StatusOf(s, part) => StatusLine(s)
    BY Zenon DEF StatusOf, StatusLine, IsResponse
<1>3. HeaderOf(s, part) => HeaderLine(s)
    BY Zenon DEF HeaderOf, HeaderLine, IsHeader
<1>4. QED
    BY <1>1, <1>2, <1>3

\* What a parser accepts, in the names above.
LEMMA Accepts ==
    ASSUME NEW k \in Lines, NEW s \in Text, NEW p, p = LineParse(k, s), p.n \notin {-1, 0}
    PROVE  FirstLine(s, p.n) /\ HasParts(k, SubSeq(s, 1, p.n), p.part)
<1>1. CASE k = "request"
    <2>1. p = ReqParse(s)
        BY <1>1, Zenon DEF LineParse
    <2>2. FirstLine(s, p.n) /\ RequestOf(SubSeq(s, 1, p.n), p.part)
        BY <2>1, ReqAccepts
    <2>3. QED
        BY <1>1, <2>2, PartsAre
<1>2. CASE k = "response"
    <2>1. p = RespParse(s)
        BY <1>2, Zenon DEF LineParse
    <2>2. FirstLine(s, p.n) /\ StatusOf(SubSeq(s, 1, p.n), p.part)
        BY <2>1, RespAccepts
    <2>3. QED
        BY <1>2, <2>2, PartsAre
<1>3. CASE k = "header"
    <2>1. p = HdrParse(s)
        BY <1>3, Zenon DEF LineParse
    <2>2. /\ FirstLine(s, p.n)
          /\ \/ EndsAt(SubSeq(s, 1, p.n), 1) /\ p.part = <<>>
             \/ HeaderOf(SubSeq(s, 1, p.n), p.part)
        BY <2>1, HdrAccepts
    <2>3. QED
        BY <1>3, <2>2, PartsAre
<1>4. QED
    BY <1>1, <1>2, <1>3 DEF Lines

\* A parser accepts every line, and has decided when its LF has come.
LEMMA Reads ==
    ASSUME NEW k \in Lines, NEW s \in Text, NEW n, FirstLine(s, n)
    PROVE  /\ LineParse(k, s).n # 0
           /\ InFormat(k, SubSeq(s, 1, n)) => LineParse(k, s).n = n
<1>1. CASE k = "request"
    <2>1. LineParse(k, s) = ReqParse(s)
        BY <1>1, Zenon DEF LineParse
    <2>2. QED
        BY <1>1, <2>1, FormatIs, ReqReads, ReqDecides
<1>2. CASE k = "response"
    <2>1. LineParse(k, s) = RespParse(s)
        BY <1>2, Zenon DEF LineParse
    <2>2. QED
        BY <1>2, <2>1, FormatIs, RespReads, RespDecides
<1>3. CASE k = "header"
    <2>1. LineParse(k, s) = HdrParse(s)
        BY <1>3, Zenon DEF LineParse
    <2>2. QED
        BY <1>3, <2>1, FormatIs, HdrReads, HdrReadsBlank, HdrDecides
<1>4. QED
    BY <1>1, <1>2, <1>3 DEF Lines

\* The same, for the kinds of lines.
LEMMA LineHasParts ==
    ASSUME NEW k \in Lines, NEW s, NEW part, HasParts(k, s, part)
    PROVE  InFormat(k, s)
BY FormatIs, PartsAre, LineOfLine DEF Lines

\* A header line has a name, a colon and an end.
LEMMA HeaderLength ==
    ASSUME NEW s \in Text, HeaderLine(s)
    PROVE  Len(s) >= 3
<1>1. PICK c \in 1 .. Len(s) : \E e \in c + 2 .. Len(s) : TRUE
    BY Zenon DEF HeaderLine, IsHeader
<1>2. QED
    BY <1>1 DEF Text

(***************************************************************************)
(* LineExact, for any text.                                                *)
(***************************************************************************)
LEMMA Exact ==
    ASSUME NEW k \in Lines, NEW s \in Text, NEW m, m = Find(s, 1, {"LF"}),
           NEW p, p = LineParse(k, s), NEW line, line = SubSeq(s, 1, m)
    PROVE  /\ m > Len(s) => p.n <= 0
           /\ ~(m > Len(s)) =>
                /\ IF InFormat(k, line) THEN p.n = m /\ HasParts(k, line, p.part) ELSE p.n = -1
                /\ k = "header" => (p.n \in {1, 2} <=> EndsAt(line, 1))
<1>1. /\ Len(s) \in Nat /\ m \in 1 .. Len(s) + 1 /\ (m <= Len(s) => s[m] = "LF")
      /\ \A i \in 1 .. m - 1 : s[i] # "LF"
    <2>1. Len(s) \in Nat /\ 1 \in 1 .. Len(s) + 1
        BY DEF Text
    <2>2. QED
        BY <2>1, FindIs DEF Meets
<1>2. ASSUME p.n \notin {-1, 0}
      PROVE  p.n \in 1 .. Len(s) /\ p.n = m /\ HasParts(k, line, p.part)
    <2>1. FirstLine(s, p.n) /\ HasParts(k, SubSeq(s, 1, p.n), p.part)
        BY <1>2, Accepts
    <2>2. p.n = m /\ p.n \in 1 .. Len(s)
        BY <1>1, <2>1 DEF FirstLine
    <2>3. QED
        BY <2>1, <2>2
<1>3. m > Len(s) => p.n <= 0
    <2>1. p.n \in 1 .. Len(s) /\ p.n = m => ~(m > Len(s))
        BY <1>1
    <2>2. p.n \in {-1, 0} => p.n <= 0
        OBVIOUS
    <2>3. QED
        BY <1>2, <2>1, <2>2
<1>4. ASSUME ~(m > Len(s))
      PROVE  /\ IF InFormat(k, line) THEN p.n = m /\ HasParts(k, line, p.part) ELSE p.n = -1
             /\ k = "header" => (p.n \in {1, 2} <=> EndsAt(line, 1))
    <2>1. FirstLine(s, m) /\ m \in 1 .. Len(s) /\ m \notin {-1, 0}
        BY <1>1, <1>4 DEF FirstLine
    <2>2. p.n # 0 /\ (InFormat(k, line) => p.n = m)
        BY <2>1, Reads
    <2>3. InFormat(k, line) => p.n = m /\ HasParts(k, line, p.part)
        BY <1>2, <2>1, <2>2
    <2>4. ~InFormat(k, line) => p.n = -1
        BY <1>2, <2>2, LineHasParts
    <2>5. ASSUME k = "header" PROVE p.n \in {1, 2} <=> EndsAt(line, 1)
        <3>1. p = HdrParse(s)
            BY <2>5, Zenon DEF LineParse
        <3>2. EndsAt(line, 1) => p.n \in {1, 2}
            BY <2>1, <3>1, HdrReadsBlank
        <3>3. ASSUME p.n \in {1, 2}, HeaderLine(line) PROVE FALSE
            <4>1. p.n = m /\ m \in 0 .. Len(s)
                BY <1>2, <2>1, <3>3
            <4>2. line \in Text /\ Len(line) = m
                BY <4>1, CutIs
            <4>3. Len(line) >= 3
                BY <3>3, <4>2, HeaderLength
            <4>4. QED
                BY <3>3, <4>1, <4>2, <4>3
        <3>4. p.n \in {1, 2} => InFormat(k, line)
            BY <1>2, LineHasParts
        <3>5. QED
            BY <2>5, <3>2, <3>3, <3>4, FormatIs
    <2>6. QED
        BY <2>3, <2>4, <2>5
<1>5. QED
    BY <1>3, <1>4

(***************************************************************************)
(* Text for the line parsers is a sequence of symbols, however much comes. *)
(***************************************************************************)
LinesAreText == job \in Lines => got \in Text

\* What comes for the line parsers is text.
LEMMA PiecesAreText ==
    ASSUME NEW k \in Lines, NEW n, NEW p \in Pieces(k, n)
    PROVE  p \in Text
<1>1. k \in DOMAIN Symbols
    BY DEF Symbols, Lines
<1>2. Symbols[k] \subseteq Symbol
    <2>1. CASE k = "request"
        <3>1. Symbols[k] = {"U", "H", "1", "x", "SP", "CR", "LF"}
            BY <2>1 DEF Symbols
        <3>2. QED
            BY <3>1 DEF Symbol, Printable, Name, Digit
    <2>2. CASE k = "response"
        <3>1. Symbols[k] = {"1", "x", "SP", "CR", "LF", "c"}
            BY <2>2 DEF Symbols
        <3>2. QED
            BY <3>1 DEF Symbol, Printable, Name, Digit
    <2>3. CASE k = "header"
        <3>1. Symbols[k] = {"U", "-", ":", "x", "SP", "CR", "LF"}
            BY <2>3 DEF Symbols
        <3>2. QED
            BY <3>1 DEF Symbol, Printable, Name, Digit
    <2>4. QED
        BY <2>1, <2>2, <2>3 DEF Lines
<1>3. Pieces(k, n) = Single(Symbols[k])
    BY <1>1 DEF Pieces
<1>4. PICK x \in Symbols[k] : p = <<x>>
    BY <1>3 DEF Single
<1>5. x \in Symbol
    BY <1>2
<1>6. ASSUME NEW S, NEW y \in S PROVE <<y>> \in Seq(S)
    OBVIOUS
<1>7. QED
    BY <1>4, <1>5, <1>6 DEF Text

\* A text with more behind it is a longer text.
LEMMA Extended ==
    ASSUME NEW s \in Text, NEW p \in Text
    PROVE  s \o p \in Text /\ Extends(s \o p, s)
<1>1. /\ s \o p \in Text /\ Len(s \o p) = Len(s) + Len(p) /\ Len(s) \in Nat /\ Len(p) \in Nat
      /\ \A i \in 1 .. Len(s) : (s \o p)[i] = s[i]
    BY DEF Text
<1>2. QED
    BY <1>1 DEF Extends

\* So it is always, at any length.
LEMMA TextAlways == Spec => []LinesAreText
<1>1. Init => LinesAreText
    BY DEF Init, LinesAreText, Text
<1>2. LinesAreText /\ [Grow]_vars => LinesAreText'
    <2> SUFFICES ASSUME LinesAreText, [Grow]_vars, job' \in Lines
                 PROVE  got' \in Text
        BY DEF LinesAreText
    <2>1. CASE Grow
        <3>1. job' = job /\ got \in Text
            BY <2>1 DEF Grow, LinesAreText
        <3>2. PICK p \in Pieces(job, Len(input)) : got' = got \o p
            BY <2>1 DEF Grow
        <3>3. QED
            BY <3>1, <3>2, PiecesAreText, Extended
    <2>2. CASE UNCHANGED vars
        BY <2>2 DEF LinesAreText, vars
    <2>3. QED
        BY <2>1, <2>2
<1>3. QED
    BY <1>1, <1>2, PTL DEF Spec

(***************************************************************************)
(* http_req_parse, http_resp_parse and http_hdr_parse accept the lines of  *)
(* their format and nothing else, with its parts, and have decided when    *)
(* the line's LF has come: for a text of any length, and any bounds.       *)
(***************************************************************************)
THEOREM LinesExact == Spec => []LineExact
<1>1. LinesAreText => LineExact
    BY Exact DEF LinesAreText, LineExact
<1>2. QED
    BY <1>1, TextAlways, PTL

(***************************************************************************)
(* Once http_req_parse, http_resp_parse or http_hdr_parse has accepted or  *)
(* refused a line, more data does not change that, but for text that runs  *)
(* on behind "HTTP/1.1".                                                   *)
(***************************************************************************)
THEOREM LinesStable == Spec => LineStable
<1> DEFINE Stays == (job \in Lines /\ Decided(job, got) /\ ~VersionRunsOn(got)) =>
                       LineParse(job, got') = LineParse(job, got)
<1>1. LinesAreText /\ [Grow]_vars => [Stays]_vars
    <2> SUFFICES ASSUME LinesAreText, Grow, job \in Lines, Decided(job, got), ~VersionRunsOn(got)
                 PROVE  LineParse(job, got') = LineParse(job, got)
        OBVIOUS
    <2>1. got \in Text
        BY DEF LinesAreText
    <2>2. PICK p \in Pieces(job, Len(input)) : got' = got \o p
        BY DEF Grow
    <2>3. Extends(got', got)
        BY <2>1, <2>2, PiecesAreText, Extended
    <2>4. LineParse(job, got).n # 0
        BY DEF Decided, Lines
    <2>5. CASE job = "request"
        <3>1. LineParse(job, got) = ReqParse(got) /\ LineParse(job, got') = ReqParse(got')
            BY <2>5, Zenon DEF LineParse
        <3>2. QED
            BY <2>3, <2>4, <3>1, ReqKept
    <2>6. CASE job = "response"
        <3>1. LineParse(job, got) = RespParse(got) /\ LineParse(job, got') = RespParse(got')
            BY <2>6, Zenon DEF LineParse
        <3>2. QED
            BY <2>3, <2>4, <3>1, RespKept
    <2>7. CASE job = "header"
        <3>1. LineParse(job, got) = HdrParse(got) /\ LineParse(job, got') = HdrParse(got')
            BY <2>7, Zenon DEF LineParse
        <3>2. QED
            BY <2>3, <2>4, <3>1, HdrKept
    <2>8. QED
        BY <2>5, <2>6, <2>7 DEF Lines
<1>2. QED
    BY <1>1, TextAlways, PTL DEF Spec, LineStable

-----------------------------------------------------------------------------
(* Command lines: what comes *)

\* The arguments that come.
Nil == ""
KeyOf(form, opt) == Key(form, opt, "")
ValueOf(val) == Key("val", "", val)
Dash == Key("dash", "", "")
Arguments ==
    [form : {"short", "long"}, opt : {"threads", "cpumask", "debug", "help", "other"}, val : {Nil}]
    \cup [form : {"pair"}, opt : {"threads", "debug"}, val : {"1", "x"}]
    \cup [form : {"val"}, opt : {Nil}, val : Values]
    \cup [form : {"dash"}, opt : {Nil}, val : {Nil}]

\* What `ReadMore` can add to a command line: one of these, which are the pieces of one argument.
LEMMA LongerIs ==
    ASSUME NEW n \in Nat
    PROVE  Longer("argv", n) =
               {KeyOf(f, o) : f \in {"short", "long"},
                              o \in {"threads", "cpumask", "debug", "help", "other"}}
               \cup {Key("pair", o, v) : o \in {"threads", "debug"}, v \in {"1", "x"}}
               \cup {ValueOf(v) : v \in Values} \cup {Dash}
<1>1. "argv" # "message" /\ "argv" # "quoted" /\ "argv" # "ip4" /\ "argv" # "ip6"
    OBVIOUS
<1>2. QED
    BY <1>1 DEF Longer, KeyForms, KeyOf, ValueOf, Dash

\* Each of them is an argument.
LEMMA ArgumentIs ==
    ASSUME NEW n \in Nat, NEW p \in Longer("argv", n)
    PROVE  \E a \in Arguments : p = <<a>>
<1>1. \A a \in Arguments : p = <<a>> => \E b \in Arguments : p = <<b>>
    OBVIOUS
<1>2. \A f, o, v : /\ KeyOf(f, o) = <<[form |-> f, opt |-> o, val |-> Nil]>>
                   /\ Key(f, o, v) = <<[form |-> f, opt |-> o, val |-> v]>>
                   /\ ValueOf(v) = <<[form |-> "val", opt |-> Nil, val |-> v]>>
                   /\ Dash = <<[form |-> "dash", opt |-> Nil, val |-> Nil]>>
    BY Zenon DEF Key, KeyOf, ValueOf, Dash, Nil
<1>3. ASSUME NEW f \in {"short", "long"},
             NEW o \in {"threads", "cpumask", "debug", "help", "other"}, p = KeyOf(f, o)
      PROVE  \E a \in Arguments : p = <<a>>
    <2>1. [form |-> f, opt |-> o, val |-> Nil] \in Arguments
        BY DEF Arguments
    <2>2. QED
        BY <1>1, <1>2, <1>3, <2>1, Zenon
<1>4. ASSUME NEW o \in {"threads", "debug"}, NEW v \in {"1", "x"}, p = Key("pair", o, v)
      PROVE  \E a \in Arguments : p = <<a>>
    <2>1. [form |-> "pair", opt |-> o, val |-> v] \in Arguments
        BY DEF Arguments
    <2>2. QED
        BY <1>1, <1>2, <1>4, <2>1, Zenon
<1>5. ASSUME NEW v \in Values, p = ValueOf(v) PROVE \E a \in Arguments : p = <<a>>
    <2>1. [form |-> "val", opt |-> Nil, val |-> v] \in Arguments
        BY DEF Arguments
    <2>2. QED
        BY <1>1, <1>2, <1>5, <2>1, Zenon
<1>6. ASSUME p = Dash PROVE \E a \in Arguments : p = <<a>>
    <2>1. [form |-> "dash", opt |-> Nil, val |-> Nil] \in Arguments
        BY DEF Arguments
    <2>2. QED
        BY <1>1, <1>2, <1>6, <2>1, Zenon
<1>7. \/ \E f \in {"short", "long"}, o \in {"threads", "cpumask", "debug", "help", "other"} :
             p = KeyOf(f, o)
      \/ \E o \in {"threads", "debug"}, v \in {"1", "x"} : p = Key("pair", o, v)
      \/ \E v \in Values : p = ValueOf(v)
      \/ p = Dash
    BY LongerIs
<1>8. QED
    BY <1>3, <1>4, <1>5, <1>6, <1>7

ArgumentsCome == job = "argv" => got \in Seq(Arguments)

\* A command line, however long it gets, is a sequence of arguments.
LEMMA ArgumentsAlways == Spec => []ArgumentsCome
<1>1. Init => ArgumentsCome
    BY DEF Init, ArgumentsCome
<1>2. ArgumentsCome /\ [Grow]_vars => ArgumentsCome'
    <2> SUFFICES ASSUME ArgumentsCome, [Grow]_vars, job' = "argv" PROVE got' \in Seq(Arguments)
        BY DEF ArgumentsCome
    <2>1. CASE Grow
        <3>1. job = "argv" /\ got \in Seq(Arguments)
            BY <2>1 DEF Grow, ArgumentsCome
        <3>2. PICK p \in Pieces(job, Len(input)) : got' = got \o p
            BY <2>1 DEF Grow
        <3>3. Pieces(job, Len(input)) = Longer("argv", Len(input))
            BY <3>1 DEF Pieces, Symbols
        <3>4. p \in Longer("argv", Len(input))
            BY <3>2, <3>3
        <3>5. \E a \in Arguments : p = <<a>>
            <4>1. Len(input) \in Nat
                OBVIOUS
            <4>2. QED
                BY <3>4, <4>1, ArgumentIs
        <3>6. \A S : \A x \in Seq(S) : \A y \in S : x \o <<y>> \in Seq(S)
            OBVIOUS
        <3>7. QED
            BY <3>1, <3>2, <3>5, <3>6
    <2>2. CASE UNCHANGED vars
        BY <2>2 DEF ArgumentsCome, vars
    <2>3. QED
        BY <2>1, <2>2
<1>3. QED
    BY <1>1, <1>2, PTL DEF Spec

-----------------------------------------------------------------------------
(* Command lines: the tokens *)

\* The tokens of the arguments, one after the other, by their first ones.
JoinStep(ts, v, k) == IF k = 1 THEN ts[k] ELSE v \o ts[k]
Joins == INSTANCE Unfolding WITH Op <- JoinStep

\* f[k] is the first k of ts, one after the other.
Joined(f, ts, n) == f[0] = <<>> /\ \A k \in 1 .. n : f[k] = f[k - 1] \o ts[k]

\* Sequences joined one after the other have the elements that they had.
LEMMA JoinedIn ==
    ASSUME NEW A, NEW ts, NEW n \in Nat, \A i \in 1 .. n : ts[i] \in Seq(A),
           NEW f, Joined(f, ts, n)
    PROVE  \A i \in 0 .. n : f[i] \in Seq(A)
<1> DEFINE S == {k \in 0 .. n : f[k] \in Seq(A)}
<1>1. 0 \in S
    <2>1. f[0] = <<>>
        BY Zenon DEF Joined
    <2>2. \A B : <<>> \in Seq(B)
        OBVIOUS
    <2>3. 0 \in 0 .. n
        OBVIOUS
    <2>4. QED
        BY <2>1, <2>2, <2>3, Zenon
<1>2. ASSUME NEW k \in 0 .. n - 1, k \in S PROVE k + 1 \in S
    <2>1. k + 1 \in 1 .. n /\ (k + 1) - 1 = k /\ k + 1 \in 0 .. n
        OBVIOUS
    <2>2. f[k + 1] = f[(k + 1) - 1] \o ts[k + 1]
        BY <2>1, Zenon DEF Joined
    <2>3. \A x, y \in Seq(A) : x \o y \in Seq(A)
        OBVIOUS
    <2>4. f[k] \in Seq(A) /\ ts[k + 1] \in Seq(A)
        BY <1>2, <2>1
    <2>5. f[k] \o ts[k + 1] \in Seq(A)
        BY <2>3, <2>4, Zenon
    <2>6. f[k + 1] \in Seq(A)
        BY <2>1, <2>2, <2>5, Zenon
    <2>7. QED
        BY <2>1, <2>6, Zenon
<1>3. \A k \in 0 .. n : k \in S
    <2> HIDE DEF S
    <2> QED BY <1>1, <1>2, Joins!UpTo
<1>4. QED
    BY <1>3

\* FlattenSeq joins them one after the other.
LEMMA FlatIs ==
    ASSUME NEW A, NEW ts, NEW n \in Nat, DOMAIN ts = 1 .. n, Len(ts) = n, ts = <<>> <=> n = 0,
           \A i \in 1 .. n : ts[i] \in Seq(A)
    PROVE  \E f : /\ Joined(f, ts, n) /\ f[n] = FlattenSeq(ts)
                  /\ \A i \in 0 .. n : f[i] \in Seq(A)
<1>1. CASE n = 0
    <2> DEFINE f == [k \in {0} |-> <<>>]
    <2>1. FlattenSeq(ts) = <<>>
        BY <1>1, Zenon DEF FlattenSeq
    <2>2. Joined(f, ts, n) /\ \A k \in 0 .. n : f[k] \in Seq(A)
        BY <1>1 DEF Joined
    <2>3. QED
        <3> HIDE DEF f
        <3>1. f[0] = <<>>
            BY <2>2, Zenon DEF Joined
        <3>2. QED
            BY <1>1, <2>1, <2>2, <3>1, Zenon
<1>2. CASE n # 0
    <2> DEFINE D == 1 .. n
               mu == [k \in D |-> k]
               nx == [k \in D |-> k - 1]
               Is(g) == g = [i \in D |-> IF i = 1 THEN ts[i] ELSE g[i - 1] \o ts[i]]
    <2>1. mu \in [D -> 0 .. n]
        OBVIOUS
    <2>2. Joins!Descends(ts, D, mu, nx)
        <3>1. SUFFICES ASSUME NEW d \in D
                       PROVE  \/ nx[d] \in D /\ mu[nx[d]] < mu[d]
                              \/ \A v, w : JoinStep(ts, v, d) = JoinStep(ts, w, d)
            BY DEF Joins!Descends
        <3>2. QED
            BY DEF JoinStep
    <2>3. PICK g0 : Joins!Unfolds(g0, ts, D, nx)
        <3> HIDE DEF D, mu, nx, Is
        <3> QED BY <2>1, <2>2, Joins!RecursionExists
    <2>4. Is(g0)
        BY <2>3 DEF Joins!Unfolds, JoinStep
    <2> DEFINE g == CHOOSE h : Is(h)
    <2>5. Is(g)
        <3> HIDE DEF Is
        <3> QED BY <2>4, Zenon
    <2>6. FlattenSeq(ts) = g[n]
        BY <1>2, Zenon DEF FlattenSeq
    <2>7. g[1] = ts[1] /\ \A k \in 2 .. n : g[k] = g[k - 1] \o ts[k]
        <3>1. \A k \in D : g[k] = IF k = 1 THEN ts[k] ELSE g[k - 1] \o ts[k]
            <4> HIDE DEF g, D
            <4> QED BY <2>5, Zenon
        <3> HIDE DEF g, Is
        <3>2. 1 \in D /\ \A k \in 2 .. n : k \in D /\ k # 1
            BY <1>2
        <3>3. g[1] = ts[1]
            <4> HIDE DEF D
            <4> QED BY <3>1, <3>2, Zenon
        <3>4. ASSUME NEW k \in 2 .. n PROVE g[k] = g[k - 1] \o ts[k]
            <4> HIDE DEF D
            <4> QED BY <3>1, <3>2, Zenon
        <3>5. QED
            BY <3>3, <3>4, Zenon
    <2> HIDE DEF g, Is
    <2> DEFINE f == [k \in 0 .. n |-> IF k = 0 THEN <<>> ELSE g[k]]
    <2>8. f[0] = <<>> /\ f[n] = FlattenSeq(ts)
        BY <1>2, <2>6
    <2>9. \A k \in 1 .. n : f[k] = f[k - 1] \o ts[k]
        <3>1. \A x \in Seq(A) : <<>> \o x = x
            OBVIOUS
        <3>2. f[1] = <<>> \o ts[1]
            BY <1>2, <2>7, <3>1
        <3>3. \A k \in 2 .. n : f[k] = g[k] /\ f[k - 1] = g[k - 1]
            OBVIOUS
        <3>4. f[0] = <<>>
            OBVIOUS
        <3>5. ASSUME NEW k \in 1 .. n PROVE f[k] = f[k - 1] \o ts[k]
            <4>1. k = 1 \/ k \in 2 .. n
                OBVIOUS
            <4>2. 1 - 1 = 0
                OBVIOUS
            <4> HIDE DEF f
            <4>3. QED
                BY <2>7, <3>2, <3>3, <3>4, <4>1, <4>2, Zenon
        <3>6. QED
            BY <3>5, Zenon
    <2> HIDE DEF f
    <2>10. Joined(f, ts, n)
        BY <2>8, <2>9, Zenon DEF Joined
    <2>11. \A k \in 0 .. n : f[k] \in Seq(A)
        BY <2>10, JoinedIn
    <2>12. QED
        BY <2>8, <2>10, <2>11, Zenon
<1>3. QED
    BY <1>1, <1>2

-----------------------------------------------------------------------------
(* Command lines: what one argument does *)

SchemeStep(z, as, t) == SchemeProcess(as, t)
Parses == INSTANCE Unfolding WITH Op <- SchemeStep

Token(r, s) == [r |-> r, s |-> s]

\* What one argument makes of a scheme.
Taken(c, a) ==
    IF a.form = "val" THEN SchemeProcess(c, Token("VAL", a.val))
    ELSE IF a.form = "dash" THEN SchemeProcess(c, Token("ESHORT", Nil))
    ELSE IF a.form = "pair"
         THEN SchemeProcess(SchemeProcess(c, Token("KEY", a.opt)), Token("KEYVAL", a.val))
    ELSE SchemeProcess(c, Token("KEY", a.opt))

Forms == {"val", "dash", "pair", "short", "long"}

\* The tokens of an argument, by its form.
LEMMA TokensAre ==
    ASSUME NEW a, a.form \in Forms
    PROVE  Tokens(a) = IF a.form = "val" THEN <<Token("VAL", a.val)>>
                       ELSE IF a.form = "dash" THEN <<Token("ESHORT", Nil)>>
                       ELSE IF a.form = "pair" THEN <<Token("KEY", a.opt), Token("KEYVAL", a.val)>>
                       ELSE <<Token("KEY", a.opt)>>
<1>1. /\ "val" # "dash" /\ "val" # "short" /\ "val" # "long" /\ "val" # "pair"
      /\ "dash" # "short" /\ "dash" # "long" /\ "dash" # "pair"
      /\ "pair" # "short" /\ "pair" # "long"
    OBVIOUS
<1> DEFINE f == a.form
           T1 == <<Token("VAL", a.val)>>
           T2 == <<Token("ESHORT", Nil)>>
           T3 == <<Token("KEY", a.opt)>>
           T4 == <<Token("KEY", a.opt), Token("KEYVAL", a.val)>>
<1>2. Tokens(a) = CASE f = "val" -> T1 [] f = "dash" -> T2 [] f \in {"short", "long"} -> T3
                    [] f = "pair" -> T4
    BY Zenon DEF Tokens, Token, Nil
<1>3. \/ f = "val" \/ f = "dash" \/ f = "pair" \/ f = "short" \/ f = "long"
    BY DEF Forms
<1> HIDE DEF f, T1, T2, T3, T4
<1>4. CASE f = "val"
    BY <1>1, <1>2, <1>4, Zenon DEF f, T1, T2, T3, T4
<1>5. CASE f = "dash"
    BY <1>1, <1>2, <1>5, Zenon DEF f, T1, T2, T3, T4
<1>6. CASE f = "pair"
    BY <1>1, <1>2, <1>6, Zenon DEF f, T1, T2, T3, T4
<1>7. CASE f = "short"
    BY <1>1, <1>2, <1>7, Zenon DEF f, T1, T2, T3, T4
<1>8. CASE f = "long"
    BY <1>1, <1>2, <1>8, Zenon DEF f, T1, T2, T3, T4
<1>9. QED
    BY <1>3, <1>4, <1>5, <1>6, <1>7, <1>8, Zenon

\* To process the tokens of an argument is to take the argument.
LEMMA TakenIs ==
    ASSUME NEW c, NEW a, a.form \in Forms
    PROVE  Parses!Folded(0, c, Tokens(a)) = Taken(c, a)
<1>1. ASSUME NEW t PROVE Parses!Folded(0, c, <<t>>) = SchemeProcess(c, t)
    <2>1. DOMAIN <<t>> = 1 .. 1 /\ 1 \in Nat /\ <<t>>[1] = t /\ 1 - 1 = 0 /\ 1 \in 1 .. 1
        OBVIOUS
    <2>2. PICK acc : Parses!Steps(acc, 0, c, <<t>>, 1) /\ Parses!Folded(0, c, <<t>>) = acc[1]
        <3> DEFINE d == <<t>>
                   n == 1
        <3>1. DOMAIN d = 1 .. n /\ n \in Nat
            BY <2>1
        <3> HIDE DEF d, n
        <3>2. \E acc : Parses!Steps(acc, 0, c, d, n) /\ Parses!Folded(0, c, d) = acc[n]
            BY <3>1, Parses!StepsOfSeq
        <3>3. QED
            BY <3>2, Zenon DEF d, n
    <2>3. acc[0] = c /\ \A k \in 1 .. 1 : acc[k] = SchemeProcess(acc[k - 1], <<t>>[k])
        BY <2>2, Zenon DEF Parses!Steps, SchemeStep
    <2>4. acc[1] = SchemeProcess(acc[1 - 1], <<t>>[1])
        BY <2>1, <2>3, Zenon
    <2>5. QED
        BY <2>1, <2>2, <2>3, <2>4, Zenon
<1>2. ASSUME NEW t, NEW u
      PROVE  Parses!Folded(0, c, <<t, u>>) = SchemeProcess(SchemeProcess(c, t), u)
    <2>1. /\ DOMAIN <<t, u>> = 1 .. 2 /\ 2 \in Nat /\ <<t, u>>[1] = t /\ <<t, u>>[2] = u
          /\ 1 - 1 = 0 /\ 2 - 1 = 1 /\ 1 \in 1 .. 2 /\ 2 \in 1 .. 2
        OBVIOUS
    <2>2. PICK acc : /\ Parses!Steps(acc, 0, c, <<t, u>>, 2)
                     /\ Parses!Folded(0, c, <<t, u>>) = acc[2]
        <3> DEFINE d == <<t, u>>
                   n == 2
        <3>1. DOMAIN d = 1 .. n /\ n \in Nat
            BY <2>1
        <3> HIDE DEF d, n
        <3>2. \E acc : Parses!Steps(acc, 0, c, d, n) /\ Parses!Folded(0, c, d) = acc[n]
            BY <3>1, Parses!StepsOfSeq
        <3>3. QED
            BY <3>2, Zenon DEF d, n
    <2>3. acc[0] = c /\ \A k \in 1 .. 2 : acc[k] = SchemeProcess(acc[k - 1], <<t, u>>[k])
        BY <2>2, Zenon DEF Parses!Steps, SchemeStep
    <2>4. acc[1] = SchemeProcess(acc[1 - 1], <<t, u>>[1])
            /\ acc[2] = SchemeProcess(acc[2 - 1], <<t, u>>[2])
        BY <2>1, <2>3, Zenon
    <2>5. QED
        BY <2>1, <2>2, <2>3, <2>4, Zenon
<1>3. QED
    BY <1>1, <1>2, TokensAre, Zenon DEF Taken

\* What the scheme is after each argument.
Schemes(c, s) == c[0] = NewScheme /\ \A k \in 1 .. Len(s) : c[k] = Taken(c[k - 1], s[k])

\* A scheme has taken one argument after the other.
LEMMA SchemeIs ==
    ASSUME NEW S, NEW s \in Seq(S), \A k \in 1 .. Len(s) : s[k].form \in Forms
    PROVE  \E c : Schemes(c, s) /\ Scheme(s) = c[Len(s)]
<1> DEFINE n == Len(s)
           ts == [k \in DOMAIN s |-> Tokens(s[k])]
           R == {"VAL", "ESHORT", "KEY", "KEYVAL"}
           T == [r : R, s : {s[k].opt : k \in 1 .. n} \cup {s[k].val : k \in 1 .. n} \cup {Nil}]
<1>1. n \in Nat /\ DOMAIN s = 1 .. n /\ DOMAIN ts = 1 .. n /\ Len(ts) = n /\ (ts = <<>> <=> n = 0)
    OBVIOUS
<1>2. \A k \in 1 .. n : ts[k] = Tokens(s[k])
    OBVIOUS
<1>3. ASSUME NEW k \in 1 .. n PROVE Tokens(s[k]) \in Seq(T)
    <2>1. Token("VAL", s[k].val) \in T /\ Token("ESHORT", Nil) \in T
          /\ Token("KEY", s[k].opt) \in T /\ Token("KEYVAL", s[k].val) \in T
        BY DEF Token
    <2>2. \A U : \A x, y \in U : <<x>> \in Seq(U) /\ <<x, y>> \in Seq(U)
        OBVIOUS
    <2> HIDE DEF T
    <2>3. s[k].form \in Forms
        OBVIOUS
    <2>4. QED
        BY <2>1, <2>2, <2>3, TokensAre, Zenon
<1> HIDE DEF ts, T
<1>4. PICK f : /\ Joined(f, ts, n) /\ f[n] = FlattenSeq(ts)
               /\ \A i \in 0 .. n : f[i] \in Seq(T)
    <2>1. \A i \in 1 .. n : ts[i] \in Seq(T)
        BY <1>2, <1>3
    <2> HIDE DEF n
    <2>2. QED
        BY <1>1, <2>1, FlatIs
<1> DEFINE c == [k \in 0 .. n |-> Parses!Folded(0, NewScheme, f[k])]
<1>5. c[0] = NewScheme
    <2>1. 0 \in 0 .. n
        BY <1>1
    <2>2. f[0] = <<>>
        BY <1>4, Zenon DEF Joined
    <2>3. Parses!Folded(0, NewScheme, <<>>) = NewScheme
        BY Parses!FoldedNone
    <2>4. QED
        BY <2>1, <2>2, <2>3
<1>6. ASSUME NEW k \in 1 .. n PROVE c[k] = Taken(c[k - 1], s[k])
    <2>1. k \in 0 .. n /\ k - 1 \in 0 .. n
        BY <1>1
    <2>2. f[k] = f[k - 1] \o Tokens(s[k])
        BY <1>2, <1>4, Zenon DEF Joined
    <2>3. f[k - 1] \in Seq(T) /\ Tokens(s[k]) \in Seq(T)
        BY <1>3, <1>4, <2>1
    <2>4. Parses!Folded(0, NewScheme, f[k - 1] \o Tokens(s[k]))
            = Parses!Folded(0, Parses!Folded(0, NewScheme, f[k - 1]), Tokens(s[k]))
        BY <2>3, Parses!FoldedBoth
    <2>5. s[k].form \in Forms
        BY <1>1
    <2>6. Parses!Folded(0, Parses!Folded(0, NewScheme, f[k - 1]), Tokens(s[k]))
            = Taken(Parses!Folded(0, NewScheme, f[k - 1]), s[k])
        BY <2>5, TakenIs
    <2>7. c[k] = Parses!Folded(0, NewScheme, f[k])
            /\ c[k - 1] = Parses!Folded(0, NewScheme, f[k - 1])
        BY <2>1
    <2> HIDE DEF c
    <2>8. QED
        BY <2>2, <2>4, <2>6, <2>7, Zenon
<1>7. Scheme(s) = c[n]
    <2>1. Scheme(s) = Parses!Folded(0, NewScheme, FlattenSeq(ts))
        BY Zenon DEF Scheme, ts, Parses!Folded, SchemeStep, FoldLeft, MapThenFoldSet,
            Parses!FoldLeft, Parses!MapThenFoldSet, Max, Parses!Max
    <2>2. c[n] = Parses!Folded(0, NewScheme, f[n])
        BY <1>1
    <2> HIDE DEF c
    <2>3. QED
        BY <1>4, <2>1, <2>2, Zenon
<1> HIDE DEF c
<1>8. Schemes(c, s)
    BY <1>5, <1>6 DEF Schemes
<1>9. QED
    BY <1>7, <1>8

\* A scheme by its parts.
Sch(arg, used, conf, ret) == [arg |-> arg, used |-> used, conf |-> conf, ret |-> ret]
IsScheme(c) == c = Sch(c.arg, c.used, c.conf, c.ret)

\* The fields of a scheme, and a scheme with one field changed.
LEMMA SchParts ==
    ASSUME NEW arg, NEW used, NEW conf, NEW ret
    PROVE  /\ Sch(arg, used, conf, ret).arg = arg /\ Sch(arg, used, conf, ret).used = used
           /\ Sch(arg, used, conf, ret).conf = conf /\ Sch(arg, used, conf, ret).ret = ret
           /\ IsScheme(Sch(arg, used, conf, ret))
BY DEF Sch, IsScheme

\* One with one field changed.
WithArg(c, v) == [c EXCEPT !.arg = v]
WithUsed(c, v) == [c EXCEPT !.used = v]

LEMMA SchSet ==
    ASSUME NEW c, IsScheme(c), NEW v
    PROVE  /\ [c EXCEPT !.arg = v] = Sch(v, c.used, c.conf, c.ret)
           /\ [c EXCEPT !.used = v] = Sch(c.arg, v, c.conf, c.ret)
           /\ [c EXCEPT !.conf = v] = Sch(c.arg, c.used, v, c.ret)
           /\ [c EXCEPT !.ret = v] = Sch(c.arg, c.used, c.conf, v)
BY DEF Sch, IsScheme

LEMMA SchWith ==
    ASSUME NEW arg, NEW used, NEW conf, NEW ret, NEW v
    PROVE  /\ WithArg(Sch(arg, used, conf, ret), v) = Sch(v, used, conf, ret)
           /\ WithUsed(Sch(arg, used, conf, ret), v) = Sch(arg, v, conf, ret)
BY DEF Sch, WithArg, WithUsed

\* What a key, and a value, makes of one that is fine so far.
KeyMakes(c, o) ==
    IF c.arg # None \/ o \notin Options \/ o \in c.used THEN Sch(c.arg, c.used, c.conf, "error")
    ELSE IF o = "help" THEN Sch(c.arg, c.used, c.conf, "done")
    ELSE IF o \in Switches THEN Sch(c.arg, c.used \cup {o}, [c.conf EXCEPT ![o] = "1"], c.ret)
    ELSE Sch(o, c.used \cup {o}, c.conf, c.ret)

ValueMakes(c, v) ==
    IF c.arg = None THEN Sch(c.arg, c.used, c.conf, "error")
    ELSE IF Verdict(c.arg, v) # "0" THEN Sch(c.arg, c.used, c.conf, Verdict(c.arg, v))
    ELSE Sch(None, c.used, [c.conf EXCEPT ![c.arg] = v], c.ret)

\* SchemeKey, SchemeValue and SchemeProcess without CASE and EXCEPT.
LEMMA KeyIs ==
    ASSUME NEW c, IsScheme(c), NEW o
    PROVE  SchemeKey(c, o) = KeyMakes(c, o)
<1>1. \A r : [c EXCEPT !.ret = r] = Sch(c.arg, c.used, c.conf, r)
    BY SchSet
<1>2. [c EXCEPT !.arg = o, !.used = @ \cup {o}] = Sch(o, c.used \cup {o}, c.conf, c.ret)
    <2>1. [c EXCEPT !.arg = o] = Sch(o, c.used, c.conf, c.ret)
        BY SchSet, Zenon
    <2>2. \A u : WithUsed(Sch(o, c.used, c.conf, c.ret), u) = Sch(o, u, c.conf, c.ret)
        BY SchWith
    <2>3. QED
        BY <2>1, <2>2, Zenon DEF WithUsed
<1>3. [c EXCEPT !.conf[o] = "1", !.used = @ \cup {o}]
        = Sch(c.arg, c.used \cup {o}, [c.conf EXCEPT ![o] = "1"], c.ret)
    <2> DEFINE f == [c.conf EXCEPT ![o] = "1"]
    <2>1. [c EXCEPT !.conf = f] = Sch(c.arg, c.used, f, c.ret)
        BY SchSet, Zenon
    <2>2. \A u : WithUsed(Sch(c.arg, c.used, f, c.ret), u) = Sch(c.arg, u, f, c.ret)
        <3> HIDE DEF f
        <3> QED BY SchWith
    <2>3. QED
        BY <2>1, <2>2, Zenon DEF WithUsed
<1>4. CASE c.arg # None \/ o \notin Options \/ o \in c.used
    <2>1. /\ ~(c.arg = None /\ o = "help" /\ o \notin c.used)
          /\ ~(c.arg = None /\ o \in Options \ (c.used \cup {"help"}))
        BY <1>4 DEF Options, Switches
    <2>2. SchemeKey(c, o) = [c EXCEPT !.ret = "error"]
        BY <1>4, <2>1, Zenon DEF SchemeKey
    <2>3. QED
        BY <1>1, <1>4, <2>2, Zenon DEF KeyMakes
<1>5. CASE c.arg = None /\ o \in Options /\ o \notin c.used /\ o = "help"
    <2>1. SchemeKey(c, o) = [c EXCEPT !.ret = "done"]
        BY <1>5, Zenon DEF SchemeKey
    <2>2. QED
        BY <1>1, <1>5, <2>1, Zenon DEF KeyMakes
<1>6. CASE c.arg = None /\ o \in Options /\ o \notin c.used /\ o # "help"
    <2>1. SchemeKey(c, o) = IF o \in Switches THEN [c EXCEPT !.conf[o] = "1", !.used = @ \cup {o}]
                            ELSE [c EXCEPT !.arg = o, !.used = @ \cup {o}]
        BY <1>6, Zenon DEF SchemeKey
    <2>2. QED
        BY <1>2, <1>3, <1>6, <2>1, Zenon DEF KeyMakes
<1>7. QED
    BY <1>4, <1>5, <1>6, Zenon

LEMMA ValueIs ==
    ASSUME NEW c, IsScheme(c), NEW v
    PROVE  SchemeValue(c, v) = ValueMakes(c, v)
<1>1. \A r : [c EXCEPT !.ret = r] = Sch(c.arg, c.used, c.conf, r)
    BY SchSet
<1>2. [c EXCEPT !.conf[c.arg] = v, !.arg = None]
        = Sch(None, c.used, [c.conf EXCEPT ![c.arg] = v], c.ret)
    <2> DEFINE f == [c.conf EXCEPT ![c.arg] = v]
    <2>1. [c EXCEPT !.conf = f] = Sch(c.arg, c.used, f, c.ret)
        BY SchSet, Zenon
    <2>2. \A u : WithArg(Sch(c.arg, c.used, f, c.ret), u) = Sch(u, c.used, f, c.ret)
        <3> HIDE DEF f
        <3> QED BY SchWith
    <2>3. QED
        BY <2>1, <2>2, Zenon DEF WithArg
<1>3. QED
    BY <1>1, <1>2, Zenon DEF SchemeValue, ValueMakes

LEMMA ProcessIs ==
    ASSUME NEW c, IsScheme(c), NEW x
    PROVE  /\ c.ret # "0" => \A t : SchemeProcess(c, t) = c
           /\ c.ret = "0" =>
                /\ SchemeProcess(c, Token("KEY", x)) = KeyMakes(c, x)
                /\ SchemeProcess(c, Token("VAL", x)) = ValueMakes(c, x)
                /\ SchemeProcess(c, Token("KEYVAL", x)) = ValueMakes(c, x)
                /\ SchemeProcess(c, Token("ESHORT", x)) = Sch(c.arg, c.used, c.conf, "error")
                /\ SchemeProcess(c, Token("DONE", x)) =
                       IF c.arg # None THEN Sch(c.arg, c.used, c.conf, "error") ELSE c
<1>1. /\ "KEY" # "VAL" /\ "KEY" # "KEYVAL" /\ "KEY" # "ESHORT" /\ "KEY" # "DONE"
      /\ "VAL" # "KEYVAL" /\ "VAL" # "ESHORT" /\ "VAL" # "DONE"
      /\ "KEYVAL" # "ESHORT" /\ "KEYVAL" # "DONE" /\ "ESHORT" # "DONE"
    OBVIOUS
<1>2. [c EXCEPT !.ret = "error"] = Sch(c.arg, c.used, c.conf, "error")
    BY DEF IsScheme, Sch
<1>3. \A r, y : Token(r, y).r = r /\ Token(r, y).s = y
    BY DEF Token
<1>4. ASSUME c.ret # "0", NEW t PROVE SchemeProcess(c, t) = c
    BY <1>4, Zenon DEF SchemeProcess
<1>5. ASSUME c.ret = "0" PROVE SchemeProcess(c, Token("KEY", x)) = KeyMakes(c, x)
    <2>1. SchemeProcess(c, Token("KEY", x)) = SchemeKey(c, x)
        BY <1>1, <1>3, <1>5, Zenon DEF SchemeProcess
    <2>2. QED
        BY <2>1, KeyIs
<1>6. ASSUME c.ret = "0", NEW r \in {"VAL", "KEYVAL"}
      PROVE  SchemeProcess(c, Token(r, x)) = ValueMakes(c, x)
    <2>1. r # "KEY"
        BY <1>1, <1>6
    <2>2. SchemeProcess(c, Token(r, x)) = SchemeValue(c, x)
        BY <1>3, <1>6, <2>1, Zenon DEF SchemeProcess
    <2>3. QED
        BY <2>2, ValueIs
<1>7. ASSUME c.ret = "0"
      PROVE  SchemeProcess(c, Token("ESHORT", x)) = Sch(c.arg, c.used, c.conf, "error")
    <2> DEFINE t == Token("ESHORT", x)
    <2>1. t.r = "ESHORT"
        BY <1>3, Zenon
    <2> HIDE DEF t
    <2>2. t.r # "KEY" /\ t.r \notin {"VAL", "KEYVAL"} /\ t.r # "DONE"
        BY <1>1, <2>1, Zenon
    <2>3. SchemeProcess(c, t) = [c EXCEPT !.ret = "error"]
        BY <1>7, <2>1, <2>2, Zenon DEF SchemeProcess
    <2>4. QED
        BY <1>2, <2>3, Zenon DEF t
<1>8. ASSUME c.ret = "0"
      PROVE  SchemeProcess(c, Token("DONE", x)) =
                 IF c.arg # None THEN Sch(c.arg, c.used, c.conf, "error") ELSE c
    BY <1>1, <1>2, <1>3, <1>8, Zenon DEF SchemeProcess
<1>9. QED
    BY <1>4, <1>5, <1>6, <1>7, <1>8

\* A value that neither the threads nor the mask refuse.
IsGood(v) == v \notin {"", "x"}

\* The values that an option with a value accepts.
LEMMA VerdictIs ==
    ASSUME NEW o \in {"threads", "cpumask"}, NEW v
    PROVE  /\ IsGood(v) => Verdict(o, v) = "0"
           /\ ~IsGood(v) => Verdict(o, v) \in {"error", "badval"}
<1>1. /\ "threads" \notin {"listen", "www"} /\ "threads" \notin {"listen", "cpumask"}
      /\ "threads" \in Ints /\ "cpumask" \notin {"listen", "www"} /\ "cpumask" \notin Ints
      /\ "cpumask" \in {"listen", "cpumask"}
    BY DEF Ints
<1>2. "error" \in {"error", "badval"} /\ "badval" \in {"error", "badval"}
    OBVIOUS
<1>3. CASE o = "threads"
    <2>1. CASE ~IsGood(v)
        <3>1. Verdict("threads", v) = "error"
            BY <1>1, <2>1, Zenon DEF Verdict, IsGood
        <3>2. QED
            BY <1>2, <1>3, <2>1, <3>1, Zenon
    <2>2. CASE IsGood(v)
        <3>1. Verdict("threads", v) = "0"
            BY <1>1, <2>2, Zenon DEF Verdict, IsGood
        <3>2. QED
            BY <1>3, <2>2, <3>1, Zenon
    <2>3. QED
        BY <2>1, <2>2, Zenon
<1>4. CASE o = "cpumask"
    <2>1. CASE ~IsGood(v)
        <3>1. Verdict("cpumask", v) = "badval"
            BY <1>1, <2>1, Zenon DEF Verdict, IsGood
        <3>2. QED
            BY <1>2, <1>4, <2>1, <3>1, Zenon
    <2>2. CASE IsGood(v)
        <3>1. Verdict("cpumask", v) = "0"
            BY <1>1, <2>2, Zenon DEF Verdict, IsGood
        <3>2. QED
            BY <1>4, <2>2, <3>1, Zenon
    <2>3. QED
        BY <2>1, <2>2, Zenon
<1>5. QED
    BY <1>3, <1>4, Zenon

-----------------------------------------------------------------------------
(* Command lines: what is fine *)

\* An argument that waits for its value; one whose option is not given before it; the help.
Awaits(s, j) == j \in DOMAIN s /\ Keyed(s[j]) /\ s[j].opt \in Valued
IsFirst(s, j) == \A i \in 1 .. j - 1 : s[i].form # "val" => s[i].opt # s[j].opt
HelpAt(s, j) == Keyed(s[j]) /\ s[j].opt = "help"

\* The argument is fine after those before it.
Fits(s, j) ==
    \/ s[j].form = "val" /\ Awaits(s, j - 1) /\ IsGood(s[j].val)
    \/ /\ s[j].form = "pair" /\ ~Awaits(s, j - 1) /\ IsFirst(s, j)
       /\ s[j].opt \in Valued /\ IsGood(s[j].val)
    \/ Keyed(s[j]) /\ ~Awaits(s, j - 1) /\ IsFirst(s, j) /\ s[j].opt \in Options \ {"help"}

Fine(s, k) == \A j \in 1 .. k : Fits(s, j)

\* The options that the first k arguments name.
NamedIn(s, k) == {s[i].opt : i \in {j \in 1 .. k : s[j].form # "val"}}

\* Each of them has its value in `conf`, the last one if it does not wait for it.
ConfFits(s, k, conf) ==
    /\ conf = [o \in Options |-> conf[o]]
    /\ \A i \in 1 .. k : s[i].form = "pair" => conf[s[i].opt] = s[i].val
    /\ \A i \in 1 .. k : Keyed(s[i]) /\ s[i].opt \in Switches => conf[s[i].opt] = "1"
    /\ \A i \in 1 .. k - 1 : Keyed(s[i]) /\ s[i].opt \in Valued => conf[s[i].opt] = s[i + 1].val
    /\ \A o \in Options \ NamedIn(s, k) : conf[o] = None

Holding(s, k, c) ==
    /\ c.arg = IF Awaits(s, k) THEN s[k].opt ELSE None
    /\ c.used = NamedIn(s, k)
    /\ ConfFits(s, k, c.conf)

\* What the scheme is after the k-th argument, when it was fine before it.
Follows(s, k, d) ==
    /\ IsScheme(d)
    /\ d.ret = "0" <=> Fits(s, k)
    /\ d.ret = "0" => Holding(s, k, d)
    /\ d.ret = "done" <=> HelpAt(s, k) /\ ~Awaits(s, k - 1)

\* Where the names of the options of command lines belong.
LEMMA NamesAre ==
    /\ "threads" \in Valued /\ "threads" \in Options /\ "threads" \notin Switches
    /\ "cpumask" \in Valued /\ "cpumask" \in Options /\ "cpumask" \notin Switches
    /\ "debug" \in Switches /\ "debug" \in Options /\ "debug" \notin Valued
    /\ "help" \in Switches /\ "help" \in Options /\ "help" \notin Valued
    /\ "other" \notin Options /\ "other" \notin Valued /\ "other" \notin Switches
    /\ Valued \subseteq Options /\ Switches \subseteq Options /\ Valued \cap Switches = {}
    /\ None \notin Options
BY DEF Valued, Options, Strings, Ints, Switches, None

\* What forms of arguments there are, with what options.
LEMMA ArgumentsAre ==
    ASSUME NEW a \in Arguments
    PROVE  /\ a.form \in Forms
           /\ a.form \notin {"val", "dash", "pair"} <=> Keyed(a)
           /\ Keyed(a) => a.opt \in {"threads", "cpumask", "debug", "help", "other"}
           /\ a.form = "pair" => a.opt \in {"threads", "debug"}
BY DEF Arguments, Forms, Keyed

\* An argument of s.
LEMMA ArgumentOf ==
    ASSUME NEW s \in Seq(Arguments), NEW k \in 1 .. Len(s)
    PROVE  s[k] \in Arguments
OBVIOUS

\* Only an argument of the command line, with an option that has a value, waits.
LEMMA AwaitsOne ==
    ASSUME NEW s \in Seq(Arguments), NEW k, Awaits(s, k)
    PROVE  s[k].opt \in {"threads", "cpumask"} /\ k \in 1 .. Len(s)
<1>1. k \in 1 .. Len(s)
    BY DEF Awaits
<1>2. s[k] \in Arguments
    BY <1>1
<1>3. QED
    BY <1>1, <1>2, ArgumentsAre, NamesAre DEF Awaits

\* An argument is taken, if it fits, as it should be, by its form.
LEMMA DashTaken ==
    ASSUME NEW s, NEW k, s[k].form = "dash",
           NEW c, IsScheme(c), c.ret = "0"
    PROVE  Follows(s, k, Taken(c, s[k]))
<1>1. Taken(c, s[k]) = Sch(c.arg, c.used, c.conf, "error")
    <2>1. "dash" # "val"
        OBVIOUS
    <2>2. QED
        BY <2>1, ProcessIs, Zenon DEF Taken
<1>2. ~Fits(s, k) /\ ~HelpAt(s, k)
    BY DEF Fits, HelpAt, Keyed
<1>3. QED
    BY <1>1, <1>2, SchParts DEF Follows

\* An argument names its option, a value none.
LEMMA NamedNext ==
    ASSUME NEW s, NEW k \in Nat, k # 0
    PROVE  /\ s[k].form = "val" => NamedIn(s, k) = NamedIn(s, k - 1)
           /\ s[k].form # "val" => NamedIn(s, k) = NamedIn(s, k - 1) \cup {s[k].opt}
           /\ s[k].opt \notin NamedIn(s, k - 1) <=> IsFirst(s, k)
BY DEF NamedIn, IsFirst

LEMMA ValueTaken ==
    ASSUME NEW s \in Seq(Arguments), NEW k \in 1 .. Len(s), s[k].form = "val",
           NEW c, IsScheme(c), c.ret = "0", Fine(s, k - 1), Holding(s, k - 1, c)
    PROVE  Follows(s, k, Taken(c, s[k]))
<1>1. Taken(c, s[k]) = ValueMakes(c, s[k].val)
    BY ProcessIs, Zenon DEF Taken
<1>2. ~HelpAt(s, k) /\ ~Awaits(s, k) /\ (Fits(s, k) <=> Awaits(s, k - 1) /\ IsGood(s[k].val))
    BY DEF HelpAt, Keyed, Awaits, Fits
<1>3. CASE ~Awaits(s, k - 1)
    <2>1. c.arg = None
        BY <1>3 DEF Holding
    <2>2. Taken(c, s[k]) = Sch(c.arg, c.used, c.conf, "error")
        BY <1>1, <2>1, Zenon DEF ValueMakes
    <2>3. QED
        BY <1>2, <1>3, <2>2, SchParts DEF Follows
<1>4. CASE Awaits(s, k - 1)
    <2> DEFINE o == s[k - 1].opt
               v == s[k].val
    <2>1. o \in {"threads", "cpumask"} /\ k - 1 \in 1 .. Len(s) /\ c.arg = o
        BY <1>4, AwaitsOne DEF Holding
    <2>2. o # None /\ o \in Options /\ o \notin Switches
        BY <2>1, NamesAre
    <2>3. CASE ~IsGood(v)
        <3>1. Verdict(o, v) \in {"error", "badval"}
            BY <2>1, <2>3, VerdictIs, Zenon
        <3>2. Verdict(o, v) # "0" /\ Verdict(o, v) # "done"
            BY <3>1
        <3>3. Taken(c, s[k]) = Sch(c.arg, c.used, c.conf, Verdict(o, v))
            BY <1>1, <2>1, <2>2, <3>2, Zenon DEF ValueMakes
        <3>4. QED
            BY <1>2, <2>3, <3>2, <3>3, SchParts DEF Follows
    <2>4. CASE IsGood(v)
        <3> DEFINE f == [c.conf EXCEPT ![o] = v]
        <3>1. Verdict(o, v) = "0"
            BY <2>1, <2>4, VerdictIs, Zenon
        <3>2. Taken(c, s[k]) = Sch(None, c.used, f, "0")
            BY <1>1, <2>1, <2>2, <3>1, Zenon DEF ValueMakes
        <3>3. IsFirst(s, k - 1) /\ s[k - 1].form # "val"
            BY <1>4, <2>1 DEF Fine, Fits, Awaits, Keyed
        <3>4. ConfFits(s, k - 1, c.conf)
            BY DEF Holding
        <3>5. f = [p \in Options |-> f[p]] /\ f[o] = v
                /\ \A p \in Options : p # o => f[p] = c.conf[p]
            <4>1. c.conf = [p \in Options |-> c.conf[p]]
                BY <3>4 DEF ConfFits
            <4>2. QED
                BY <2>2, <4>1
        <3> HIDE DEF f
        <3>6. ConfFits(s, k, f)
            <4>1. ASSUME NEW i \in 1 .. k, s[i].form = "pair" PROVE f[s[i].opt] = s[i].val
                <5>1. i \in 1 .. k - 1 /\ i # k - 1
                    BY <4>1, <1>4 DEF Awaits, Keyed
                <5>2. s[i].opt # o /\ s[i].opt \in Options
                    BY <3>3, <4>1, <5>1, ArgumentsAre, NamesAre DEF IsFirst
                <5>3. QED
                    BY <3>4, <3>5, <4>1, <5>1, <5>2 DEF ConfFits
            <4>2. ASSUME NEW i \in 1 .. k, Keyed(s[i]), s[i].opt \in Switches
                  PROVE  f[s[i].opt] = "1"
                <5>1. i \in 1 .. k - 1 /\ s[i].opt # o /\ s[i].opt \in Options
                    BY <2>2, <4>2, NamesAre DEF Keyed
                <5>2. QED
                    BY <3>4, <3>5, <4>2, <5>1 DEF ConfFits
            <4>3. ASSUME NEW i \in 1 .. k - 1, Keyed(s[i]), s[i].opt \in Valued
                  PROVE  f[s[i].opt] = s[i + 1].val
                <5>1. CASE i = k - 1
                    BY <3>5, <5>1
                <5>2. CASE i # k - 1
                    <6>1. i \in 1 .. (k - 1) - 1 /\ s[i].form # "val"
                        BY <4>3, <5>2 DEF Keyed
                    <6>2. s[i].opt # o /\ s[i].opt \in Options
                        BY <3>3, <4>3, <6>1, NamesAre DEF IsFirst
                    <6>3. QED
                        BY <3>4, <3>5, <4>3, <6>1, <6>2 DEF ConfFits
                <5>3. QED
                    BY <5>1, <5>2
            <4>4. ASSUME NEW p \in Options \ NamedIn(s, k) PROVE f[p] = None
                <5>1. p \in Options \ NamedIn(s, k - 1) /\ p # o
                    <6>1. o \in NamedIn(s, k - 1)
                        BY <2>1, <3>3 DEF NamedIn
                    <6>2. QED
                        BY <6>1, NamedNext
                <5>2. QED
                    BY <3>4, <3>5, <5>1 DEF ConfFits
            <4>5. QED
                BY <3>5, <4>1, <4>2, <4>3, <4>4 DEF ConfFits
        <3>7. Holding(s, k, Sch(None, c.used, f, "0"))
            <4>1. c.used = NamedIn(s, k)
                BY NamedNext DEF Holding
            <4>2. QED
                BY <1>2, <3>6, <4>1, SchParts DEF Holding
        <3>8. QED
            BY <1>2, <1>4, <2>4, <3>2, <3>7, SchParts DEF Follows
    <2>5. QED
        BY <2>3, <2>4
<1>5. QED
    BY <1>3, <1>4

\* The help is not among the options of arguments that are fine.
LEMMA HelpIsFirst ==
    ASSUME NEW s \in Seq(Arguments), NEW k \in 1 .. Len(s), Fine(s, k - 1), s[k].opt = "help"
    PROVE  IsFirst(s, k)
<1>1. SUFFICES ASSUME NEW i \in 1 .. k - 1, s[i].form # "val" PROVE s[i].opt # "help"
    BY DEF IsFirst
<1>2. Fits(s, i)
    BY DEF Fine
<1>3. QED
    BY <1>1, <1>2, NamesAre DEF Fits

\* A value set in `conf` of an option that was not given before, and of no other.
LEMMA ConfNext ==
    ASSUME NEW s \in Seq(Arguments), NEW k \in 1 .. Len(s), NEW conf, ConfFits(s, k - 1, conf),
           s[k].form # "val", IsFirst(s, k), ~Awaits(s, k - 1),
           NEW f, f = [p \in Options |-> f[p]], \A p \in Options : p # s[k].opt => f[p] = conf[p],
           s[k].form = "pair" => f[s[k].opt] = s[k].val,
           Keyed(s[k]) /\ s[k].opt \in Switches => f[s[k].opt] = "1"
    PROVE  ConfFits(s, k, f)
<1>1. ASSUME NEW i \in 1 .. k - 1, s[i].form # "val", s[i].opt \in Options
      PROVE  f[s[i].opt] = conf[s[i].opt]
    BY <1>1 DEF IsFirst
<1>2. ASSUME NEW i \in 1 .. k, s[i].form = "pair" PROVE f[s[i].opt] = s[i].val
    <2>1. CASE i = k
        BY <1>2, <2>1
    <2>2. CASE i # k
        <3>1. i \in 1 .. k - 1 /\ s[i].form # "val" /\ s[i].opt \in Options
            BY <1>2, <2>2, ArgumentsAre, NamesAre
        <3>2. QED
            BY <1>1, <1>2, <3>1 DEF ConfFits
    <2>3. QED
        BY <2>1, <2>2
<1>3. ASSUME NEW i \in 1 .. k, Keyed(s[i]), s[i].opt \in Switches PROVE f[s[i].opt] = "1"
    <2>1. CASE i = k
        BY <1>3, <2>1
    <2>2. CASE i # k
        <3>1. i \in 1 .. k - 1 /\ s[i].form # "val" /\ s[i].opt \in Options
            BY <1>3, <2>2, NamesAre DEF Keyed
        <3>2. QED
            BY <1>1, <1>3, <3>1 DEF ConfFits
    <2>3. QED
        BY <2>1, <2>2
<1>4. ASSUME NEW i \in 1 .. k - 1, Keyed(s[i]), s[i].opt \in Valued
      PROVE  f[s[i].opt] = s[i + 1].val
    <2>1. i # k - 1
        BY <1>4 DEF Awaits
    <2>2. i \in 1 .. (k - 1) - 1 /\ s[i].form # "val" /\ s[i].opt \in Options
        BY <1>4, <2>1, NamesAre DEF Keyed
    <2>3. QED
        BY <1>1, <1>4, <2>2 DEF ConfFits
<1>5. ASSUME NEW p \in Options \ NamedIn(s, k) PROVE f[p] = None
    <2>1. p \in Options \ NamedIn(s, k - 1) /\ p # s[k].opt
        BY NamedNext
    <2>2. QED
        BY <2>1 DEF ConfFits
<1>6. QED
    BY <1>2, <1>3, <1>4, <1>5 DEF ConfFits

\* What a key makes of a scheme, said of the arguments and not of the scheme.
LEMMA KeyMade ==
    ASSUME NEW s \in Seq(Arguments), NEW k \in 1 .. Len(s), s[k].form # "val",
           NEW c, IsScheme(c), c.ret = "0", Fine(s, k - 1), Holding(s, k - 1, c)
    PROVE  KeyMakes(c, s[k].opt) =
               IF Awaits(s, k - 1) \/ s[k].opt \notin Options \/ ~IsFirst(s, k)
               THEN Sch(c.arg, c.used, c.conf, "error")
               ELSE IF s[k].opt = "help" THEN Sch(c.arg, c.used, c.conf, "done")
               ELSE IF s[k].opt \in Switches
               THEN Sch(None, NamedIn(s, k), [c.conf EXCEPT ![s[k].opt] = "1"], "0")
               ELSE Sch(s[k].opt, NamedIn(s, k), c.conf, "0")
<1> DEFINE o == s[k].opt
<1>1. c.arg # None <=> Awaits(s, k - 1)
    <2>1. CASE Awaits(s, k - 1)
        <3>1. s[k - 1].opt \in {"threads", "cpumask"}
            BY <2>1, AwaitsOne
        <3>2. QED
            BY <2>1, <3>1, NamesAre DEF Holding
    <2>2. CASE ~Awaits(s, k - 1)
        BY <2>2 DEF Holding
    <2>3. QED
        BY <2>1, <2>2
<1>2. /\ o \in c.used <=> ~IsFirst(s, k)
      /\ c.used \cup {o} = NamedIn(s, k)
    <2>1. k \in Nat /\ k # 0 /\ c.used = NamedIn(s, k - 1)
        BY DEF Holding
    <2>2. QED
        BY <2>1, NamedNext
<1> HIDE DEF o
<1>3. QED
    BY <1>1, <1>2, Zenon DEF KeyMakes, o

LEMMA KeyTaken ==
    ASSUME NEW s \in Seq(Arguments), NEW k \in 1 .. Len(s), Keyed(s[k]),
           NEW c, IsScheme(c), c.ret = "0", Fine(s, k - 1), Holding(s, k - 1, c)
    PROVE  Follows(s, k, Taken(c, s[k]))
<1> DEFINE o == s[k].opt
<1>1. Taken(c, s[k]) = KeyMakes(c, o)
    <2>1. s[k].form # "val" /\ s[k].form # "dash" /\ s[k].form # "pair"
        BY DEF Keyed
    <2>2. QED
        BY <2>1, ProcessIs, Zenon DEF Taken
<1>2. s[k].form # "val" /\ s[k].form # "pair"
    BY DEF Keyed
<1>3. Fits(s, k) <=> ~Awaits(s, k - 1) /\ IsFirst(s, k) /\ o \in Options \ {"help"}
    BY <1>2 DEF Fits
<1>4. HelpAt(s, k) <=> o = "help"
    BY DEF HelpAt
<1>5. o = "help" => IsFirst(s, k) /\ o \in Options
    BY HelpIsFirst, NamesAre
<1>6. CASE Awaits(s, k - 1) \/ o \notin Options \/ ~IsFirst(s, k)
    <2>1. Taken(c, s[k]) = Sch(c.arg, c.used, c.conf, "error")
        BY <1>1, <1>2, <1>6, KeyMade, Zenon
    <2>2. QED
        BY <1>3, <1>4, <1>5, <1>6, <2>1, SchParts DEF Follows
<1>7. CASE ~Awaits(s, k - 1) /\ o \in Options /\ IsFirst(s, k) /\ o = "help"
    <2>1. Taken(c, s[k]) = Sch(c.arg, c.used, c.conf, "done")
        BY <1>1, <1>2, <1>7, KeyMade, Zenon
    <2>2. QED
        BY <1>3, <1>4, <1>7, <2>1, SchParts DEF Follows
<1>8. CASE ~Awaits(s, k - 1) /\ o \in Options /\ IsFirst(s, k) /\ o # "help" /\ o \in Switches
    <2> DEFINE f == [c.conf EXCEPT ![o] = "1"]
    <2>1. Taken(c, s[k]) = Sch(None, NamedIn(s, k), f, "0")
        BY <1>1, <1>2, <1>8, KeyMade, Zenon
    <2>2. ConfFits(s, k - 1, c.conf)
        BY DEF Holding
    <2>3. f = [p \in Options |-> f[p]] /\ f[o] = "1" /\ \A p \in Options : p # o => f[p] = c.conf[p]
        <3>1. c.conf = [p \in Options |-> c.conf[p]]
            BY <2>2 DEF ConfFits
        <3>2. QED
            BY <1>8, <3>1
    <2> HIDE DEF f
    <2>4. ConfFits(s, k, f)
        BY <1>2, <1>8, <2>2, <2>3, ConfNext
    <2>5. ~Awaits(s, k)
        BY <1>8, NamesAre DEF Awaits
    <2>6. Holding(s, k, Sch(None, NamedIn(s, k), f, "0"))
        BY <2>4, <2>5, SchParts DEF Holding
    <2>7. QED
        BY <1>3, <1>4, <1>8, <2>1, <2>6, SchParts DEF Follows
<1>9. CASE ~Awaits(s, k - 1) /\ o \in Options /\ IsFirst(s, k) /\ o # "help" /\ o \notin Switches
    <2>1. Taken(c, s[k]) = Sch(o, NamedIn(s, k), c.conf, "0")
        BY <1>1, <1>2, <1>9, KeyMade, Zenon
    <2>2. ConfFits(s, k - 1, c.conf)
        BY DEF Holding
    <2>3. ConfFits(s, k, c.conf)
        <3>1. c.conf = [p \in Options |-> c.conf[p]]
            BY <2>2 DEF ConfFits
        <3>2. \A f : f = c.conf => ConfFits(s, k, f)
            BY <1>2, <1>9, <2>2, <3>1, ConfNext
        <3>3. QED
            BY <3>2
    <2>4. Awaits(s, k)
        BY <1>9 DEF Awaits, Options, Valued
    <2>5. Holding(s, k, Sch(o, NamedIn(s, k), c.conf, "0"))
        BY <2>3, <2>4, SchParts DEF Holding
    <2>6. QED
        BY <1>3, <1>4, <1>9, <2>1, <2>5, SchParts DEF Follows
<1>10. QED
    BY <1>6, <1>7, <1>8, <1>9

LEMMA PairTaken ==
    ASSUME NEW s \in Seq(Arguments), NEW k \in 1 .. Len(s), s[k].form = "pair",
           NEW c, IsScheme(c), c.ret = "0", Fine(s, k - 1), Holding(s, k - 1, c)
    PROVE  Follows(s, k, Taken(c, s[k]))
<1> DEFINE o == s[k].opt
           v == s[k].val
           e == KeyMakes(c, o)
<1>1. Taken(c, s[k]) = SchemeProcess(e, Token("KEYVAL", v))
    <2>1. "pair" # "val" /\ "pair" # "dash"
        OBVIOUS
    <2>2. SchemeProcess(c, Token("KEY", o)) = e
        BY ProcessIs, Zenon
    <2>3. QED
        BY <2>1, <2>2, Zenon DEF Taken
<1>2. /\ Fits(s, k) <=> ~Awaits(s, k - 1) /\ IsFirst(s, k) /\ o \in Valued /\ IsGood(v)
      /\ ~HelpAt(s, k) /\ ~Awaits(s, k) /\ s[k].form # "val"
    BY DEF Fits, HelpAt, Awaits, Keyed
<1>3. o = "threads" \/ o = "debug"
    BY ArgumentOf, ArgumentsAre
<1>4. o \in Options /\ o # "help" /\ o # None
    BY <1>3, NamesAre
<1>5. CASE Awaits(s, k - 1) \/ ~IsFirst(s, k)
    <2>1. e = Sch(c.arg, c.used, c.conf, "error")
        BY <1>2, <1>5, KeyMade, Zenon
    <2>2. IsScheme(e) /\ e.ret # "0"
        BY <2>1, SchParts
    <2>3. Taken(c, s[k]) = e
        BY <1>1, <2>2, ProcessIs, Zenon
    <2>4. QED
        BY <1>2, <1>5, <2>1, <2>3, SchParts DEF Follows
<1>6. CASE ~Awaits(s, k - 1) /\ IsFirst(s, k) /\ o = "debug"
    <2> DEFINE f == [c.conf EXCEPT ![o] = "1"]
    <2>1. o \in Switches /\ o \notin Valued
        BY <1>6, NamesAre
    <2>2. e = Sch(None, NamedIn(s, k), f, "0")
        BY <1>2, <1>4, <1>6, <2>1, KeyMade, Zenon
    <2> HIDE DEF f
    <2>3. IsScheme(e) /\ e.ret = "0" /\ e.arg = None
        BY <2>2, SchParts
    <2>4. Taken(c, s[k]) = Sch(e.arg, e.used, e.conf, "error")
        BY <1>1, <2>3, ProcessIs, Zenon DEF ValueMakes
    <2>5. QED
        <3> HIDE DEF e
        <3> QED BY <1>2, <2>1, <2>4, SchParts DEF Follows
<1>7. CASE ~Awaits(s, k - 1) /\ IsFirst(s, k) /\ o = "threads"
    <2>1. o \notin Switches /\ o \in Valued /\ o \in {"threads", "cpumask"}
        BY <1>7, NamesAre
    <2>2. e = Sch(o, NamedIn(s, k), c.conf, "0")
        BY <1>2, <1>4, <1>7, <2>1, KeyMade, Zenon
    <2>3. /\ IsScheme(e) /\ e.ret = "0" /\ e.arg = o /\ e.used = NamedIn(s, k)
          /\ e.conf = c.conf
        BY <2>2, SchParts
    <2> HIDE DEF e
    <2>4. Taken(c, s[k]) = ValueMakes(e, v)
        BY <1>1, <2>3, ProcessIs, Zenon
    <2>5. CASE ~IsGood(v)
        <3>1. Verdict(o, v) \in {"error", "badval"}
            BY <2>1, <2>5, VerdictIs, Zenon
        <3>2. Verdict(o, v) # "0" /\ Verdict(o, v) # "done"
            BY <3>1
        <3>3. Taken(c, s[k]) = Sch(o, NamedIn(s, k), c.conf, Verdict(o, v))
            BY <1>4, <2>3, <2>4, <3>2, Zenon DEF ValueMakes
        <3>4. QED
            BY <1>2, <2>5, <3>2, <3>3, SchParts DEF Follows
    <2>6. CASE IsGood(v)
        <3> DEFINE f == [c.conf EXCEPT ![o] = v]
        <3>1. Verdict(o, v) = "0"
            BY <2>1, <2>6, VerdictIs, Zenon
        <3>2. Taken(c, s[k]) = Sch(None, NamedIn(s, k), f, "0")
            BY <1>4, <2>3, <2>4, <3>1, Zenon DEF ValueMakes
        <3>3. ConfFits(s, k - 1, c.conf)
            BY DEF Holding
        <3>4. f = [p \in Options |-> f[p]] /\ f[o] = v
                /\ \A p \in Options : p # o => f[p] = c.conf[p]
            <4>1. c.conf = [p \in Options |-> c.conf[p]]
                BY <3>3 DEF ConfFits
            <4>2. QED
                BY <1>4, <4>1
        <3> HIDE DEF f
        <3>5. ConfFits(s, k, f)
            <4>1. ~Keyed(s[k])
                BY DEF Keyed
            <4>2. QED
                BY <1>2, <1>7, <3>3, <3>4, <4>1, ConfNext
        <3>6. Holding(s, k, Sch(None, NamedIn(s, k), f, "0"))
            BY <1>2, <3>5, SchParts DEF Holding
        <3>7. QED
            BY <1>2, <1>7, <2>1, <2>6, <3>2, <3>6, SchParts DEF Follows
    <2>7. QED
        BY <2>5, <2>6
<1>8. QED
    BY <1>3, <1>5, <1>6, <1>7

\* An argument of any form is taken as it should be; so are all, up to the last one.
LEMMA OneTaken ==
    ASSUME NEW s \in Seq(Arguments), NEW k \in 1 .. Len(s),
           NEW c, IsScheme(c), c.ret = "0", Fine(s, k - 1), Holding(s, k - 1, c)
    PROVE  Follows(s, k, Taken(c, s[k]))
<1>1. s[k].form \in {"val", "dash", "pair"} \/ Keyed(s[k])
    BY ArgumentOf, ArgumentsAre
<1>2. QED
    BY <1>1, ValueTaken, DashTaken, PairTaken, KeyTaken

\* What the scheme is after the k-th argument.
After(s, k, d) ==
    /\ IsScheme(d)
    /\ d.ret = "0" <=> Fine(s, k)
    /\ d.ret = "0" => Holding(s, k, d)
    /\ d.ret = "done" <=> \E m \in 1 .. k : HelpAt(s, m) /\ Fine(s, m - 1) /\ ~Awaits(s, m - 1)

LEMMA AfterNext ==
    ASSUME NEW s \in Seq(Arguments), NEW k \in 1 .. Len(s), NEW c, After(s, k - 1, c)
    PROVE  After(s, k, Taken(c, s[k]))
<1> DEFINE d == Taken(c, s[k])
           Helps(m) == HelpAt(s, m) /\ Fine(s, m - 1) /\ ~Awaits(s, m - 1)
<1>1. Fine(s, k) <=> Fine(s, k - 1) /\ Fits(s, k)
    BY DEF Fine
<1>2. CASE c.ret # "0"
    <2>1. s[k].form \in Forms /\ IsScheme(c)
        BY ArgumentOf, ArgumentsAre DEF After
    <2>2. d = c
        BY <1>2, <2>1, ProcessIs, Zenon DEF Taken
    <2>3. ~Fine(s, k - 1)
        BY <1>2 DEF After
    <2>4. (\E m \in 1 .. k : Helps(m)) <=> \E m \in 1 .. k - 1 : Helps(m)
        <3>1. ~Helps(k)
            BY <2>3
        <3> HIDE DEF Helps
        <3>2. QED
            BY <3>1
    <2> HIDE DEF d
    <2>5. QED
        BY <1>1, <1>2, <2>2, <2>3, <2>4 DEF After, d
<1>3. CASE c.ret = "0"
    <2>1. IsScheme(c) /\ Fine(s, k - 1) /\ Holding(s, k - 1, c)
        BY <1>3 DEF After
    <2>2. Follows(s, k, d)
        BY <1>3, <2>1, OneTaken
    <2>3. (\E m \in 1 .. k : Helps(m)) <=> HelpAt(s, k) /\ ~Awaits(s, k - 1)
        <3>1. ASSUME NEW m \in 1 .. k - 1 PROVE ~HelpAt(s, m)
            <4>1. Fits(s, m)
                BY <2>1 DEF Fine
            <4>2. QED
                BY <4>1 DEF Fits, HelpAt, Keyed
        <3>2. QED
            BY <2>1, <3>1
    <2> HIDE DEF d
    <2>4. QED
        BY <1>1, <2>1, <2>2, <2>3 DEF After, Follows, d
<1>4. QED
    BY <1>2, <1>3

LEMMA SchemeAfter ==
    ASSUME NEW s \in Seq(Arguments)
    PROVE  After(s, Len(s), Scheme(s))
<1>1. PICK c : Schemes(c, s) /\ Scheme(s) = c[Len(s)]
    <2>1. \A k \in 1 .. Len(s) : s[k].form \in Forms
        BY ArgumentOf, ArgumentsAre
    <2>2. QED
        BY <2>1, SchemeIs
<1> DEFINE n == Len(s)
           S == {k \in 0 .. n : After(s, k, c[k])}
<1>2. n \in Nat
    OBVIOUS
<1>3. 0 \in S
    <2>1. c[0] = Sch(None, {}, NoConf, "0")
        BY <1>1, Zenon DEF Schemes, NewScheme, Sch
    <2>2. Fine(s, 0) /\ NamedIn(s, 0) = {} /\ ~Awaits(s, 0)
        BY DEF Fine, NamedIn, Awaits
    <2>3. ConfFits(s, 0, NoConf)
        BY <2>2 DEF ConfFits, NoConf
    <2>4. After(s, 0, Sch(None, {}, NoConf, "0"))
        <3> DEFINE d == Sch(None, {}, NoConf, "0")
        <3>1. IsScheme(d) /\ d.arg = None /\ d.used = {} /\ d.conf = NoConf /\ d.ret = "0"
            BY SchParts
        <3> HIDE DEF d
        <3>2. Holding(s, 0, d)
            BY <2>2, <2>3, <3>1 DEF Holding
        <3>3. 1 .. 0 = {} /\ "0" # "done"
            OBVIOUS
        <3>4. After(s, 0, d)
            BY <2>2, <3>1, <3>2, <3>3 DEF After
        <3>5. QED
            BY <3>4 DEF d
    <2>5. QED
        BY <1>2, <2>1, <2>4
<1>4. ASSUME NEW k \in 0 .. n - 1, k \in S PROVE k + 1 \in S
    <2>1. k + 1 \in 1 .. Len(s) /\ (k + 1) - 1 = k
        BY <1>2
    <2>2. c[k + 1] = Taken(c[k], s[k + 1])
        BY <1>1, <2>1 DEF Schemes
    <2>3. After(s, k + 1, Taken(c[k], s[k + 1]))
        BY <1>4, <2>1, AfterNext
    <2>4. QED
        BY <2>1, <2>2, <2>3
<1>5. \A k \in 0 .. n : k \in S
    <2> HIDE DEF S
    <2> QED BY <1>2, <1>3, <1>4, Parses!UpTo
<1>6. QED
    BY <1>1, <1>2, <1>5

-----------------------------------------------------------------------------
(* Command lines: those that are fine are the well-formed ones *)

\* The k-th argument is in its place; no option is named twice.
InPlace(s, k) ==
    /\ s[k].form # "dash"
    /\ s[k].form = "val" => Awaits(s, k - 1)
    /\ s[k].form = "pair" => s[k].opt \in Valued
    /\ Keyed(s[k]) => s[k].opt \in Options
    /\ Awaits(s, k) => k < Len(s) /\ s[k + 1].form = "val"

NamedOnce(s) ==
    \A j, k \in 1 .. Len(s) :
        j # k /\ s[j].form # "val" /\ s[k].form # "val" => s[j].opt # s[k].opt

\* A command line is well-formed when each argument is in its place and none is named twice.
LEMMA WellFormedIs ==
    ASSUME NEW s \in Seq(Arguments)
    PROVE  WellFormed(s) <=> (\A k \in 1 .. Len(s) : InPlace(s, k)) /\ NamedOnce(s)
<1>1. DOMAIN s = 1 .. Len(s)
    OBVIOUS
<1> DEFINE Placed(k) ==
               LET a == s[k]
                   Waits(j) == j \in DOMAIN s /\ Keyed(s[j]) /\ s[j].opt \in Valued
               IN  CASE a.form = "dash" -> FALSE
                     [] a.form = "val"  -> Waits(k - 1)
                     [] a.form = "pair" -> a.opt \in Valued
                     [] Keyed(a) -> a.opt \in Options /\
                          (a.opt \in Valued => k < Len(s) /\ s[k + 1].form = "val")
           Once == \A j, k \in DOMAIN s :
                      j # k /\ "val" \notin {s[j].form, s[k].form} => s[j].opt # s[k].opt
<1>2. WellFormed(s) <=> (\A k \in DOMAIN s : Placed(k)) /\ Once
    BY Zenon DEF WellFormed
<1>3. Once <=> NamedOnce(s)
    BY <1>1 DEF NamedOnce
<1>4. ASSUME NEW k \in 1 .. Len(s) PROVE Placed(k) <=> InPlace(s, k)
    <2>1. k \in DOMAIN s /\ s[k] \in Arguments
        BY <1>1
    <2>2. s[k].form \in {"val", "dash", "pair"} \/ Keyed(s[k])
        BY <2>1, ArgumentsAre
    <2>3. "dash" # "val" /\ "dash" # "pair" /\ "val" # "pair"
        OBVIOUS
    <2>4. Keyed(s[k]) => s[k].form # "val" /\ s[k].form # "dash" /\ s[k].form # "pair"
        BY DEF Keyed
    <2>5. CASE s[k].form = "dash"
        <3>1. ~Placed(k)
            BY <2>3, <2>4, <2>5, Zenon
        <3>2. QED
            <4> HIDE DEF Placed
            <4> QED BY <2>5, <3>1 DEF InPlace
    <2>6. CASE s[k].form = "val"
        <3>1. Placed(k) <=> Awaits(s, k - 1)
            BY <2>3, <2>4, <2>6, Zenon DEF Awaits
        <3>2. QED
            <4> HIDE DEF Placed
            <4> QED BY <2>4, <2>6, <3>1 DEF InPlace, Awaits
    <2>7. CASE s[k].form = "pair"
        <3>1. Placed(k) <=> s[k].opt \in Valued
            BY <2>3, <2>4, <2>7, Zenon
        <3>2. QED
            <4> HIDE DEF Placed
            <4> QED BY <2>4, <2>7, <3>1 DEF InPlace, Awaits
    <2>8. CASE Keyed(s[k])
        <3>1. Placed(k) <=> /\ s[k].opt \in Options
                            /\ s[k].opt \in Valued => k < Len(s) /\ s[k + 1].form = "val"
            BY <2>4, <2>8, Zenon
        <3>2. QED
            <4> HIDE DEF Placed
            <4> QED BY <2>1, <2>4, <2>8, <3>1 DEF InPlace, Awaits
    <2>9. QED
        BY <2>2, <2>5, <2>6, <2>7, <2>8
<1>5. QED
    <2> HIDE DEF Placed, Once
    <2> QED BY <1>1, <1>2, <1>3, <1>4

\* What is given to an option, by the form of the argument that names it.
LEMMA GivenIs ==
    ASSUME NEW s \in Seq(Arguments), NamedOnce(s)
    PROVE  /\ \A i \in 1 .. Len(s) : s[i].form = "pair" => Given(s, s[i].opt) = s[i].val
           /\ \A i \in 1 .. Len(s) : Keyed(s[i]) =>
                 Given(s, s[i].opt) = IF s[i].opt \in Switches THEN "1" ELSE s[i + 1].val
           /\ \A o : (\A i \in 1 .. Len(s) : s[i].form # "val" => s[i].opt # o) => Given(s, o) =
              None
<1>1. DOMAIN s = 1 .. Len(s) /\ \A i \in 1 .. Len(s) : s[i] \in ToSet(s)
    BY DEF ToSet
<1>2. \A a : Keyed(a) => a.form # "val" /\ a.form # "pair"
    BY DEF Keyed
<1>3. ASSUME NEW i \in 1 .. Len(s), s[i].form = "pair" PROVE Given(s, s[i].opt) = s[i].val
    <2> DEFINE o == s[i].opt
               a == CHOOSE b \in ToSet(s) : b.form = "pair" /\ b.opt = o
    <2>1. Given(s, o) = a.val
        <3>1. ASSUME NEW k \in DOMAIN s, Keyed(s[k]), s[k].opt = o PROVE FALSE
            <4>1. k # i /\ s[k].form # "val" /\ s[i].form # "val"
                BY <1>2, <1>3, <3>1
            <4>2. QED
                BY <1>1, <3>1, <4>1 DEF NamedOnce
        <3>2. QED
            BY <1>1, <1>3, <3>1, Zenon DEF Given
    <2>2. a \in ToSet(s) /\ a.form = "pair" /\ a.opt = o
        BY <1>1, <1>3, Zenon
    <2> HIDE DEF a
    <2>3. PICK j \in 1 .. Len(s) : a = s[j]
        BY <1>1, <2>2 DEF ToSet
    <2>4. j = i
        BY <1>3, <2>2, <2>3 DEF NamedOnce
    <2>5. QED
        BY <2>1, <2>3, <2>4
<1>4. ASSUME NEW i \in 1 .. Len(s), Keyed(s[i])
      PROVE  Given(s, s[i].opt) = IF s[i].opt \in Switches THEN "1" ELSE s[i + 1].val
    <2> DEFINE o == s[i].opt
               j == CHOOSE k \in DOMAIN s : Keyed(s[k]) /\ s[k].opt = o
    <2>1. ASSUME NEW k \in DOMAIN s, s[k].form = "pair", s[k].opt = o PROVE FALSE
        <3>1. k # i /\ s[k].form # "val" /\ s[i].form # "val"
            BY <1>2, <1>4, <2>1
        <3>2. QED
            BY <1>1, <2>1, <3>1 DEF NamedOnce
    <2>2. i \in DOMAIN s /\ Keyed(s[i]) /\ s[i].opt = o
        BY <1>1, <1>4
    <2>3. Given(s, o) = IF o \in Switches THEN "1" ELSE s[j + 1].val
        BY <2>1, <2>2, Zenon DEF Given
    <2>4. j \in DOMAIN s /\ Keyed(s[j]) /\ s[j].opt = o
        BY <2>2, Zenon
    <2> HIDE DEF j
    <2>5. j = i
        BY <1>1, <1>2, <2>2, <2>4 DEF NamedOnce
    <2>6. QED
        BY <2>3, <2>5
<1>5. ASSUME NEW o, \A i \in 1 .. Len(s) : s[i].form # "val" => s[i].opt # o
      PROVE  Given(s, o) = None
    <2>1. \A k \in DOMAIN s : ~(s[k].form = "pair" /\ s[k].opt = o)
        BY <1>1, <1>5
    <2>2. \A k \in DOMAIN s : ~(Keyed(s[k]) /\ s[k].opt = o)
        BY <1>1, <1>2, <1>5
    <2>3. QED
        BY <2>1, <2>2, Zenon DEF Given
<1>6. QED
    BY <1>3, <1>4, <1>5

\* Arguments that fit and await nothing are in their places.
LEMMA FineInPlace ==
    ASSUME NEW s \in Seq(Arguments), Fine(s, Len(s)), ~Awaits(s, Len(s))
    PROVE  (\A k \in 1 .. Len(s) : InPlace(s, k)) /\ NamedOnce(s)
<1>1. \A k \in 1 .. Len(s) : Fits(s, k)
    BY DEF Fine
<1>2. ASSUME NEW k \in 1 .. Len(s) PROVE InPlace(s, k)
    <2>1. Fits(s, k)
        BY <1>1
    <2>2. ASSUME Awaits(s, k) PROVE k < Len(s) /\ s[k + 1].form = "val"
        <3>1. k < Len(s)
            BY <2>2
        <3>2. k + 1 \in 1 .. Len(s) /\ (k + 1) - 1 = k
            BY <3>1
        <3>3. Fits(s, k + 1)
            BY <1>1, <3>2
        <3>4. QED
            BY <2>2, <3>1, <3>2, <3>3 DEF Fits
    <2>3. QED
        BY <2>1, <2>2 DEF InPlace, Fits, Keyed
<1>3. ASSUME NEW j \in 1 .. Len(s), NEW k \in 1 .. Len(s), j < k, s[j].form # "val",
             s[k].form # "val"
      PROVE  s[j].opt # s[k].opt
    BY <1>1, <1>3 DEF Fits, IsFirst
<1>4. NamedOnce(s)
    BY <1>3 DEF NamedOnce
<1>5. QED
    BY <1>2, <1>4

\* An option's value stands in it or after it.
LEMMA ValueGiven ==
    ASSUME NEW s \in Seq(Arguments), NamedOnce(s), NEW o \in Valued
    PROVE  \/ \E i \in 1 .. Len(s) : /\ s[i].form = "pair" /\ s[i].opt = o
                                     /\ Given(s, o) = s[i].val
           \/ \E i \in 1 .. Len(s) : Awaits(s, i) /\ s[i].opt = o /\ Given(s, o) = s[i + 1].val
           \/ \E i \in 1 .. Len(s) : s[i].form = "dash"
           \/ Given(s, o) = None
<1>1. o \notin Switches
    BY NamesAre
<1>2. CASE \E i \in 1 .. Len(s) : s[i].form # "val" /\ s[i].opt = o
    <2>1. PICK i \in 1 .. Len(s) : s[i].form # "val" /\ s[i].opt = o
        BY <1>2
    <2>2. s[i].form = "dash" \/ s[i].form = "pair" \/ Keyed(s[i])
        BY <2>1, ArgumentOf, ArgumentsAre
    <2>3. s[i].form = "pair" => Given(s, o) = s[i].val
        BY <2>1, GivenIs
    <2>4. Keyed(s[i]) => Given(s, o) = s[i + 1].val /\ Awaits(s, i)
        BY <1>1, <2>1, GivenIs DEF Awaits
    <2>5. QED
        BY <2>1, <2>2, <2>3, <2>4
<1>3. CASE \A i \in 1 .. Len(s) : s[i].form # "val" => s[i].opt # o
    BY <1>3, GivenIs
<1>4. QED
    BY <1>2, <1>3

\* Without help, the command lines that can be read are those whose arguments all fit.
LEMMA ReadableIs ==
    ASSUME NEW s \in Seq(Arguments), \A k \in 1 .. Len(s) : ~HelpAt(s, k)
    PROVE  Readable(s) <=> Fine(s, Len(s)) /\ ~Awaits(s, Len(s))
<1>1. Readable(s) <=> WellFormed(s) /\ \A o \in {"threads", "cpumask"} : IsGood(Given(s, o))
    BY Zenon DEF Readable, IsGood
<1>2. ASSUME Fine(s, Len(s)), ~Awaits(s, Len(s)) PROVE Readable(s)
    <2>1. (\A k \in 1 .. Len(s) : InPlace(s, k)) /\ NamedOnce(s)
        BY <1>2, FineInPlace
    <2>2. ASSUME NEW o \in {"threads", "cpumask"} PROVE IsGood(Given(s, o))
        <3>1. o \in Valued
            BY NamesAre
        <3>2. CASE \E i \in 1 .. Len(s) : /\ s[i].form = "pair" /\ s[i].opt = o
                                          /\ Given(s, o) = s[i].val
            BY <1>2, <3>2 DEF Fine, Fits, Keyed
        <3>3. CASE \E i \in 1 .. Len(s) : /\ Awaits(s, i) /\ s[i].opt = o
                                          /\ Given(s, o) = s[i + 1].val
            <4>1. PICK i \in 1 .. Len(s) : Awaits(s, i) /\ Given(s, o) = s[i + 1].val
                BY <3>3
            <4>2. i + 1 \in 1 .. Len(s) /\ s[i + 1].form = "val"
                BY <2>1, <4>1 DEF InPlace
            <4>3. QED
                BY <1>2, <4>1, <4>2 DEF Fine, Fits, Keyed
        <3>4. CASE Given(s, o) = None
            <4>1. "none" # "" /\ "none" # "x"
                BY Zenon
            <4>2. IsGood(None)
                BY <4>1, Zenon DEF IsGood, None
            <4>3. QED
                BY <3>4, <4>2, Zenon
        <3>5. \A i \in 1 .. Len(s) : s[i].form # "dash"
            BY <2>1 DEF InPlace
        <3>6. QED
            BY <2>1, <3>1, <3>2, <3>3, <3>4, <3>5, ValueGiven
    <2>3. QED
        BY <1>1, <2>1, <2>2, WellFormedIs
<1>3. ASSUME Readable(s) PROVE Fine(s, Len(s)) /\ ~Awaits(s, Len(s))
    <2>1. (\A k \in 1 .. Len(s) : InPlace(s, k)) /\ NamedOnce(s)
        BY <1>1, <1>3, WellFormedIs
    <2>2. ASSUME NEW k \in 1 .. Len(s) PROVE Fits(s, k)
        <3>1. InPlace(s, k) /\ ~HelpAt(s, k)
            BY <2>1
        <3>2. s[k].form # "val" => IsFirst(s, k)
            BY <2>1 DEF NamedOnce, IsFirst
        <3>3. s[k].form # "val" => ~Awaits(s, k - 1)
            <4>1. ASSUME Awaits(s, k - 1) PROVE s[k].form = "val"
                <5>1. k - 1 \in 1 .. Len(s) /\ (k - 1) + 1 = k
                    BY <4>1, AwaitsOne
                <5>2. InPlace(s, k - 1)
                    BY <2>1, <5>1
                <5>3. QED
                    BY <4>1, <5>1, <5>2 DEF InPlace
            <4>2. QED
                BY <4>1
        <3>4. CASE s[k].form = "val"
            <4>1. Awaits(s, k - 1)
                BY <3>1, <3>4 DEF InPlace
            <4>2. s[k - 1].opt \in {"threads", "cpumask"} /\ k - 1 \in 1 .. Len(s)
                    /\ (k - 1) + 1 = k
                BY <4>1, AwaitsOne
            <4>3. s[k - 1].opt \notin Switches /\ Keyed(s[k - 1])
                BY <4>1, <4>2, NamesAre DEF Awaits
            <4>4. Given(s, s[k - 1].opt) = s[k].val
                BY <2>1, <4>2, <4>3, GivenIs
            <4>5. IsGood(s[k].val)
                BY <1>1, <1>3, <4>2, <4>4
            <4>6. QED
                BY <3>4, <4>1, <4>5 DEF Fits
        <3>5. CASE s[k].form = "pair"
            <4>1. s[k].opt \in {"threads", "cpumask"}
                BY <3>1, <3>5, ArgumentOf, ArgumentsAre, NamesAre DEF InPlace
            <4>2. IsGood(s[k].val)
                BY <1>1, <1>3, <2>1, <3>5, <4>1, GivenIs
            <4>3. QED
                BY <3>1, <3>2, <3>3, <3>5, <4>2 DEF Fits, InPlace
        <3>6. CASE Keyed(s[k])
            BY <3>1, <3>2, <3>3, <3>6 DEF Fits, InPlace, HelpAt, Keyed
        <3>7. QED
            BY <3>1, <3>4, <3>5, <3>6, ArgumentOf, ArgumentsAre DEF InPlace
    <2>3. ~Awaits(s, Len(s))
        <3>1. ASSUME Awaits(s, Len(s)) PROVE FALSE
            <4>1. Len(s) \in 1 .. Len(s)
                BY <3>1, AwaitsOne
            <4>2. QED
                BY <2>1, <3>1, <4>1 DEF InPlace
        <3>2. QED
            BY <3>1
    <2>4. QED
        BY <2>2, <2>3 DEF Fine
<1>4. QED
    BY <1>2, <1>3

\* Each option of such a command line has the value that is given to it.
LEMMA ConfIs ==
    ASSUME NEW s \in Seq(Arguments), Fine(s, Len(s)), ~Awaits(s, Len(s)),
           NEW conf, ConfFits(s, Len(s), conf), NEW o \in Options
    PROVE  conf[o] = Given(s, o)
<1>1. NamedOnce(s) /\ \A k \in 1 .. Len(s) : InPlace(s, k)
    BY FineInPlace
<1>2. CASE \E i \in 1 .. Len(s) : s[i].form # "val" /\ s[i].opt = o
    <2>1. PICK i \in 1 .. Len(s) : s[i].form # "val" /\ s[i].opt = o
        BY <1>2
    <2>2. s[i].form = "pair" \/ Keyed(s[i])
        BY <1>1, <2>1, ArgumentOf, ArgumentsAre DEF InPlace
    <2>3. CASE s[i].form = "pair"
        BY <1>1, <2>1, <2>3, GivenIs DEF ConfFits
    <2>4. CASE Keyed(s[i]) /\ o \in Switches
        BY <1>1, <2>1, <2>4, GivenIs DEF ConfFits
    <2>5. CASE Keyed(s[i]) /\ o \notin Switches
        <3>1. o \in Valued
            BY <2>5 DEF Options, Valued
        <3>2. Awaits(s, i)
            BY <2>1, <2>5, <3>1 DEF Awaits
        <3>3. i \in 1 .. Len(s) - 1
            BY <1>1, <3>2 DEF InPlace
        <3>4. conf[o] = s[i + 1].val
            BY <2>1, <2>5, <3>1, <3>3 DEF ConfFits
        <3>5. QED
            BY <1>1, <2>1, <2>5, <3>4, GivenIs
    <2>6. QED
        BY <2>2, <2>3, <2>4, <2>5
<1>3. CASE \A i \in 1 .. Len(s) : s[i].form # "val" => s[i].opt # o
    <2>1. Given(s, o) = None
        BY <1>1, <1>3, GivenIs
    <2>2. o \notin NamedIn(s, Len(s))
        BY <1>3 DEF NamedIn
    <2>3. QED
        BY <2>1, <2>2 DEF ConfFits
<1>4. QED
    BY <1>2, <1>3

-----------------------------------------------------------------------------
(* CPUs of workers *)

TakeStep(z, p, w) ==
    IF p.mask = {} THEN p
    ELSE [mask |-> p.mask \ {Min(p.mask)}, cpus |-> Append(p.cpus, Min(p.mask))]
Takes == INSTANCE Unfolding WITH Op <- TakeStep

\* The CPUs that the first k workers have, and those that are left.
Apart(p, k) ==
    /\ p.mask \in SUBSET (0 .. 31)
    /\ p.cpus \in Seq(0 .. 31) /\ Len(p.cpus) <= k
    /\ \A i \in 1 .. Len(p.cpus) : p.cpus[i] \notin p.mask
    /\ \A i, j \in 1 .. Len(p.cpus) : p.cpus[i] = p.cpus[j] => i = j

\* Min of a set of numbers that has a bound below.
LEMMA LeastIs ==
    ASSUME NEW k \in Int, NEW m \in Int, NEW S \in SUBSET (k .. m), S # {}
    PROVE  Min(S) \in S /\ \A x \in k .. Min(S) - 1 : x \notin S
<1>1. PICK j \in S : \A x \in k .. j - 1 : x \notin S
    BY FirstOf
<1>2. \A y \in S : j <= y
    BY <1>1
<1>3. Min(S) \in S /\ \A y \in S : Min(S) <= y
    BY <1>2 DEF Min
<1> DEFINE z == Min(S)
<1>4. z \in S /\ \A y \in S : z <= y
    BY <1>3
<1> HIDE DEF z
<1>5. z \in S /\ \A x \in k .. z - 1 : x \notin S
    <2>1. z \in Int
        BY <1>4
    <2>2. ASSUME NEW x \in k .. z - 1 PROVE x \notin S
        <3>1. x \in Int /\ x < z
            BY <2>1
        <3>2. QED
            BY <1>4, <2>1, <3>1
    <2>3. QED
        BY <1>4, <2>2
<1>6. QED
    BY <1>5 DEF z

LEMMA LeastFromOne ==
    ASSUME NEW m \in Int, NEW S \in SUBSET (1 .. m), S # {}
    PROVE  Min(S) \in S /\ \A x \in 1 .. Min(S) - 1 : x \notin S
<1>1. 1 \in Int
    OBVIOUS
<1>2. QED
    BY <1>1, LeastIs

\* The next worker gets a CPU that no other has.
LEMMA TakenApart ==
    ASSUME NEW k \in Nat, NEW p, Apart(p, k), NEW w
    PROVE  Apart(TakeStep(0, p, w), k + 1)
<1>1. CASE p.mask = {}
    <2>1. TakeStep(0, p, w) = p
        BY <1>1, Zenon DEF TakeStep
    <2>2. Len(p.cpus) \in Nat /\ Len(p.cpus) <= k
        BY DEF Apart
    <2>3. Len(p.cpus) <= k + 1
        BY <2>2
    <2>4. Apart(p, k + 1)
        BY <2>3 DEF Apart
    <2>5. QED
        BY <2>1, <2>4
<1>2. CASE p.mask # {}
    <2> DEFINE x == Min(p.mask)
               q == [mask |-> p.mask \ {x}, cpus |-> Append(p.cpus, x)]
    <2>1. TakeStep(0, p, w) = q
        BY <1>2, Zenon DEF TakeStep
    <2>2. x \in p.mask /\ x \in 0 .. 31
        <3>1. p.mask \in SUBSET (0 .. 31) /\ 0 \in Int /\ 31 \in Int
            BY DEF Apart
        <3>2. Min(p.mask) \in p.mask
            BY <1>2, <3>1, LeastIs
        <3>3. QED
            BY <3>1, <3>2
    <2> HIDE DEF x
    <2>3. q.mask = p.mask \ {x} /\ q.cpus = Append(p.cpus, x)
        OBVIOUS
    <2> HIDE DEF q
    <2>4. /\ q.cpus \in Seq(0 .. 31) /\ Len(q.cpus) = Len(p.cpus) + 1 /\ q.cpus[Len(p.cpus) + 1] = x
          /\ \A i \in 1 .. Len(p.cpus) : q.cpus[i] = p.cpus[i]
        BY <2>2, <2>3 DEF Apart
    <2>5. \A i \in 1 .. Len(q.cpus) : i = Len(p.cpus) + 1 \/ i \in 1 .. Len(p.cpus)
        BY <2>4 DEF Apart
    <2>6. \A i \in 1 .. Len(q.cpus) : q.cpus[i] \notin q.mask
        BY <2>3, <2>4, <2>5 DEF Apart
    <2>7. \A i, j \in 1 .. Len(q.cpus) : q.cpus[i] = q.cpus[j] => i = j
        BY <2>2, <2>4, <2>5 DEF Apart
    <2>8. q.mask \in SUBSET (0 .. 31) /\ Len(q.cpus) <= k + 1
        <3>1. Len(p.cpus) \in Nat /\ Len(p.cpus) <= k
            BY DEF Apart
        <3>2. p.mask \in SUBSET (0 .. 31)
            BY DEF Apart
        <3>3. q.mask \in SUBSET (0 .. 31)
            BY <2>3, <3>2
        <3>4. Len(q.cpus) <= k + 1
            BY <2>4, <3>1
        <3>5. QED
            BY <3>3, <3>4
    <2>9. QED
        BY <2>1, <2>4, <2>6, <2>7, <2>8 DEF Apart
<1>3. QED
    BY <1>1, <1>2

\* No CPU is given to two workers, and no more are given than there are workers.
LEMMA AffinityIs ==
    ASSUME NEW c, c.workers \in Nat, c.cpumask \in SUBSET (0 .. 31)
    PROVE  IsInjective(Affinity(c)) /\ Len(Affinity(c)) <= c.workers
<1> DEFINE n == c.workers
           d == [w \in 1 .. c.workers |-> w]
           base == [mask |-> c.cpumask, cpus |-> <<>>]
           e == Takes!Folded(0, base, d)
<1>1. Affinity(c) = e.cpus
    BY Zenon DEF Affinity, Takes!Folded, TakeStep, FoldLeft, MapThenFoldSet,
        Takes!FoldLeft, Takes!MapThenFoldSet, Max, Takes!Max, Min
<1>2. DOMAIN d = 1 .. n /\ n \in Nat
    OBVIOUS
<1>3. base.mask = c.cpumask /\ base.cpus = <<>>
    OBVIOUS
<1> HIDE DEF d, base
<1>4. PICK acc : Takes!Steps(acc, 0, base, d, n) /\ e = acc[n]
    <2>1. \E acc : Takes!Steps(acc, 0, base, d, n) /\ Takes!Folded(0, base, d) = acc[n]
        <3> HIDE DEF n
        <3> QED BY <1>2, Takes!StepsOfSeq
    <2>2. QED
        BY <2>1
<1> HIDE DEF e, n
<1> DEFINE S == {k \in 0 .. n : Apart(acc[k], k)}
<1>5. 0 \in S
    <2>1. Apart(base, 0)
        BY <1>3 DEF Apart
    <2>2. QED
        BY <1>2, <1>4, <2>1 DEF Takes!Steps
<1>6. ASSUME NEW k \in 0 .. n - 1, k \in S PROVE k + 1 \in S
    <2>1. k + 1 \in 1 .. n /\ (k + 1) - 1 = k /\ k \in Nat
        BY <1>2
    <2>2. acc[k + 1] = TakeStep(0, acc[k], d[k + 1])
        BY <1>4, <2>1 DEF Takes!Steps
    <2>3. Apart(TakeStep(0, acc[k], d[k + 1]), k + 1)
        BY <1>6, <2>1, TakenApart
    <2>4. QED
        BY <1>2, <2>1, <2>2, <2>3
<1>7. \A k \in 0 .. n : k \in S
    <2> HIDE DEF S
    <2> QED BY <1>2, <1>5, <1>6, Takes!UpTo
<1>8. Apart(e, n)
    BY <1>2, <1>4, <1>7
<1>9. DOMAIN e.cpus = 1 .. Len(e.cpus)
    BY <1>8 DEF Apart
<1>10. QED
    BY <1>1, <1>8, <1>9 DEF Apart, IsInjective, n

\* There are workers and kcall threads, and the mask has CPUs only.
LEMMA FinIs ==
    ASSUME NEW conf
    PROVE  /\ CmdFin(conf).workers \in Nat /\ CmdFin(conf).workers >= 1 /\ CmdFin(conf).kcalls >= 1
           /\ CmdFin(conf).cpumask \in SUBSET (0 .. 31)
<1>1. \A v : Num(v) \in {0, 1, 3}
    <2>1. SUFFICES ASSUME NEW v PROVE Num(v) \in {0, 1, 3}
        OBVIOUS
    <2>2. "1" # "3"
        OBVIOUS
    <2>3. Num(v) = 1 \/ Num(v) = 3 \/ Num(v) = 0
        <3>1. CASE v = "1"
            BY <2>2, <3>1, Zenon DEF Num
        <3>2. CASE v = "3"
            BY <2>2, <3>2, Zenon DEF Num
        <3>3. CASE v # "1" /\ v # "3"
            BY <3>3, Zenon DEF Num
        <3>4. QED
            BY <3>1, <3>2, <3>3, Zenon
    <2>4. QED
        BY <2>3
<1>2. \A v : Mask(v) \in SUBSET (0 .. 31)
    <2>1. SUFFICES ASSUME NEW v PROVE Mask(v) \in SUBSET (0 .. 31)
        OBVIOUS
    <2>2. "1" # "3"
        OBVIOUS
    <2>3. Mask(v) = {0} \/ Mask(v) = {0, 1} \/ Mask(v) = {}
        <3>1. CASE v = "1"
            BY <2>2, <3>1, Zenon DEF Mask
        <3>2. CASE v = "3"
            BY <2>2, <3>2, Zenon DEF Mask
        <3>3. CASE v # "1" /\ v # "3"
            BY <3>3, Zenon DEF Mask
        <3>4. QED
            BY <3>1, <3>2, <3>3, Zenon
    <2>4. QED
        BY <2>3
<1> DEFINE t == Num(conf["threads"])
           m == Mask(conf["cpumask"])
           k == Num(conf["kcall-threads"])
<1>3. t \in {0, 1, 3} /\ k \in {0, 1, 3} /\ m \in SUBSET (0 .. 31)
    BY <1>1, <1>2, Zenon
<1> DEFINE n == IF t = 0 THEN Nprocs ELSE t
<1>4. CmdFin(conf) = [workers |-> n, kcalls |-> IF k = 0 THEN n ELSE k,
                      cpumask |-> IF t = 0 /\ m = {} THEN 0 .. 31 ELSE m]
    BY Zenon DEF CmdFin
<1> HIDE DEF t, m, k
<1>5. QED
    BY <1>3, <1>4, NprocsAssumption

-----------------------------------------------------------------------------
(* Command lines that are read *)

\* What comes of a command line: 0 when all arguments fit, "done" at help when all before fit.
LEMMA ParsedIs ==
    ASSUME NEW s \in Seq(Arguments)
    PROVE  LET p == ParseObject(s)
               n == Len(s)
           IN  /\ p.ret = "0" <=> Fine(s, n) /\ ~Awaits(s, n)
               /\ p.ret = "0" => ConfFits(s, n, p.conf)
               /\ p.ret = "done" <=>
                    \E m \in 1 .. n : HelpAt(s, m) /\ Fine(s, m - 1) /\ ~Awaits(s, m - 1)
<1> DEFINE c == Scheme(s)
           n == Len(s)
           p == ParseObject(s)
<1>1. After(s, n, c)
    BY SchemeAfter
<1>2. p = SchemeProcess(c, Token("DONE", Nil))
    BY Zenon DEF ParseObject, Token, Nil
<1> HIDE DEF c, p
<1>3. IsScheme(c)
    BY <1>1 DEF After
<1>4. CASE c.ret # "0"
    <2>1. p = c
        BY <1>2, <1>3, <1>4, ProcessIs, Zenon
    <2>2. QED
        BY <1>1, <1>4, <2>1 DEF After, p
<1>5. CASE c.ret = "0"
    <2>1. p = IF c.arg # None THEN Sch(c.arg, c.used, c.conf, "error") ELSE c
        BY <1>2, <1>3, <1>5, ProcessIs, Zenon
    <2>2. Fine(s, n) /\ Holding(s, n, c) /\ c.ret # "done"
        BY <1>1, <1>5 DEF After
    <2>3. c.arg # None <=> Awaits(s, n)
        <3>1. Awaits(s, n) => s[n].opt # None
            BY AwaitsOne, NamesAre
        <3>2. QED
            BY <2>2, <3>1 DEF Holding
    <2>4. p.ret # "done" /\ (p.ret = "0" <=> ~Awaits(s, n)) /\ (p.ret = "0" => p.conf = c.conf)
        BY <1>5, <2>1, <2>2, <2>3, SchParts
    <2>5. QED
        <3>1. ~\E m \in 1 .. n : HelpAt(s, m) /\ Fine(s, m - 1) /\ ~Awaits(s, m - 1)
            BY <1>1, <2>2 DEF After
        <3>2. ConfFits(s, n, c.conf)
            BY <2>2 DEF Holding
        <3>3. QED
            BY <2>2, <2>4, <3>1, <3>2 DEF p
<1>6. QED
    BY <1>4, <1>5

\* The arguments before the m-th one.
LEMMA BeforeIt ==
    ASSUME NEW s \in Seq(Arguments), NEW m \in 1 .. Len(s)
    PROVE  LET q == SubSeq(s, 1, m - 1)
           IN  /\ q \in Seq(Arguments) /\ Len(q) = m - 1
               /\ \A i \in 1 .. m - 1 : HelpAt(q, i) <=> HelpAt(s, i)
               /\ Fine(q, m - 1) <=> Fine(s, m - 1)
               /\ Awaits(q, m - 1) <=> Awaits(s, m - 1)
<1> DEFINE q == SubSeq(s, 1, m - 1)
<1>1. q \in Seq(Arguments) /\ Len(q) = m - 1 /\ \A i \in 1 .. m - 1 : q[i] = s[i]
    OBVIOUS
<1>2. DOMAIN q = 1 .. m - 1 /\ DOMAIN s = 1 .. Len(s)
    BY <1>1
<1> HIDE DEF q
<1>3. \A i \in 0 .. m - 1 : Awaits(q, i) <=> Awaits(s, i)
    BY <1>1, <1>2 DEF Awaits
<1>4. ASSUME NEW i \in 1 .. m - 1 PROVE Fits(q, i) <=> Fits(s, i)
    <2>1. q[i] = s[i] /\ (Awaits(q, i - 1) <=> Awaits(s, i - 1))
        BY <1>1, <1>3
    <2>2. IsFirst(q, i) <=> IsFirst(s, i)
        BY <1>1 DEF IsFirst
    <2>3. QED
        BY <2>1, <2>2 DEF Fits
<1>5. Fine(q, m - 1) <=> Fine(s, m - 1)
    BY <1>4 DEF Fine
<1>6. \A i \in 1 .. m - 1 : HelpAt(q, i) <=> HelpAt(s, i)
    BY <1>1 DEF HelpAt
<1>7. QED
    BY <1>1, <1>3, <1>5, <1>6 DEF q

\* The first help.
LEMMA HelpShown ==
    ASSUME NEW s \in Seq(Arguments), NEW H, H = {k \in 1 .. Len(s) : HelpAt(s, k)}
    PROVE  (\E m \in 1 .. Len(s) : HelpAt(s, m) /\ Fine(s, m - 1) /\ ~Awaits(s, m - 1))
             <=> H # {} /\ Readable(SubSeq(s, 1, Min(H) - 1))
<1>1. CASE H = {}
    BY <1>1
<1>2. CASE H # {}
    <2> DEFINE h == Min(H)
               q == SubSeq(s, 1, h - 1)
    <2>1. h \in H /\ h \in 1 .. Len(s) /\ \A i \in 1 .. h - 1 : ~HelpAt(s, i)
        <3> DEFINE n == Len(s)
        <3>1. H \in SUBSET (1 .. n) /\ n \in Int
            OBVIOUS
        <3> HIDE DEF n, q, h
        <3>2. Min(H) \in H /\ \A i \in 1 .. Min(H) - 1 : i \notin H
            <4>1. \A S \in SUBSET (1 .. n) :
                      S # {} => Min(S) \in S /\ \A i \in 1 .. Min(S) - 1 : i \notin S
                BY <3>1, LeastFromOne
            <4>2. QED
                BY <1>2, <3>1, <4>1, Zenon
        <3>3. h \in H /\ \A i \in 1 .. h - 1 : i \notin H
            BY <3>2, Zenon DEF h
        <3>4. h \in 1 .. n
            BY <3>1, <3>3
        <3>5. ASSUME NEW i \in 1 .. h - 1 PROVE ~HelpAt(s, i)
            <4>1. i \in 1 .. n /\ i \notin H
                BY <3>1, <3>3, <3>4
            <4>2. QED
                BY <4>1 DEF n
        <3>6. QED
            BY <3>3, <3>4, <3>5 DEF n
    <2> HIDE DEF h
    <2>2. /\ q \in Seq(Arguments) /\ Len(q) = h - 1
          /\ \A i \in 1 .. h - 1 : HelpAt(q, i) <=> HelpAt(s, i)
          /\ Fine(q, h - 1) <=> Fine(s, h - 1)
          /\ Awaits(q, h - 1) <=> Awaits(s, h - 1)
        BY <2>1, BeforeIt
    <2> HIDE DEF q
    <2>3. Readable(q) <=> Fine(s, h - 1) /\ ~Awaits(s, h - 1)
        BY <2>1, <2>2, ReadableIs
    <2>4. ASSUME NEW m \in 1 .. Len(s), HelpAt(s, m), Fine(s, m - 1) PROVE m = h
        <3>1. ASSUME h < m PROVE FALSE
            <4>1. Fits(s, h) /\ HelpAt(s, h)
                BY <2>1, <2>4, <3>1 DEF Fine
            <4>2. QED
                BY <4>1 DEF Fits, HelpAt, Keyed
        <3>2. QED
            BY <2>1, <2>4, <3>1
    <2>5. HelpAt(s, h)
        BY <2>1
    <2>6. QED
        BY <1>2, <2>1, <2>3, <2>4, <2>5 DEF q, h
<1>3. QED
    BY <1>1, <1>2

(***************************************************************************)
(* The command line is read when every argument of it is fine, and then    *)
(* each option has the value that was given; the help is shown when all    *)
(* before it is fine: for any number of arguments.  There are workers and  *)
(* kcall threads, and no CPU is given to two workers.                      *)
(***************************************************************************)
THEOREM OptionsAlwaysRead == Spec => []OptionsRead
<1>1. ArgumentsCome => OptionsRead
    <2>1. SUFFICES ASSUME ArgumentsCome, job = "argv" PROVE OptionsRead
        BY Zenon DEF OptionsRead
    <2>2. got \in Seq(Arguments) /\ DOMAIN got = 1 .. Len(got)
        BY <2>1 DEF ArgumentsCome
    <2> DEFINE p == ParseObject(got)
               H == {k \in DOMAIN got : Keyed(got[k]) /\ got[k].opt = "help"}
               n == Len(got)
    <2>3. H = {k \in 1 .. Len(got) : HelpAt(got, k)}
        BY <2>2 DEF HelpAt
    <2>4. /\ p.ret = "0" <=> Fine(got, n) /\ ~Awaits(got, n)
          /\ p.ret = "0" => ConfFits(got, n, p.conf)
          /\ p.ret = "done" <=>
               \E m \in 1 .. n : HelpAt(got, m) /\ Fine(got, m - 1) /\ ~Awaits(got, m - 1)
        BY <2>2, ParsedIs
    <2> HIDE DEF H, p
    <2>5. p.ret = "0" <=> H = {} /\ Readable(got)
        <3>1. Fine(got, n) => H = {}
            <4>1. ASSUME Fine(got, n), NEW k \in 1 .. Len(got), HelpAt(got, k) PROVE FALSE
                BY <4>1 DEF Fine, Fits, HelpAt, Keyed
            <4>2. QED
                BY <2>3, <4>1
        <3>2. H = {} => \A k \in 1 .. Len(got) : ~HelpAt(got, k)
            BY <2>3
        <3>3. H = {} => (Readable(got) <=> Fine(got, n) /\ ~Awaits(got, n))
            BY <2>2, <3>2, ReadableIs
        <3>4. QED
            BY <2>4, <3>1, <3>3
    <2>6. p.ret = "done" <=> H # {} /\ Readable(SubSeq(got, 1, Min(H) - 1))
        BY <2>2, <2>3, <2>4, HelpShown
    <2>7. p.ret = "0" => \A o \in Options : p.conf[o] = Given(got, o)
        BY <2>2, <2>4, ConfIs
    <2> DEFINE fin == CmdFin(p.conf)
    <2>8. /\ fin.workers \in Nat /\ fin.workers >= 1 /\ fin.kcalls >= 1
          /\ fin.cpumask \in SUBSET (0 .. 31)
        BY FinIs
    <2> HIDE DEF fin
    <2>9. IsInjective(Affinity(fin)) /\ Len(Affinity(fin)) <= fin.workers
        BY <2>8, AffinityIs
    <2>10. CmdRead(got) = [ret |-> p.ret, conf |-> p.conf, fin |-> fin]
        BY Zenon DEF CmdRead, p, fin
    <2> DEFINE r == CmdRead(got)
    <2>11. r.ret = p.ret /\ r.conf = p.conf /\ r.fin = fin
        BY <2>10
    <2> HIDE DEF r
    <2>12. QED
        BY <2>5, <2>6, <2>7, <2>8, <2>9, <2>11, Zenon DEF OptionsRead, H, r
<1>2. QED
    BY <1>1, ArgumentsAlways, PTL
=============================================================================
