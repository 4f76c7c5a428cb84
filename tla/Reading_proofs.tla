--------------------------- MODULE Reading_proofs ---------------------------
(***************************************************************************)
(* What the parsers make of chunked data, URLs and paths, and of what the  *)
(* writers write, for inputs of any length.                                *)
(***************************************************************************)
EXTENDS Reading, Inputs_proofs

-----------------------------------------------------------------------------
(* Parts of a sequence *)

\* Two parts of a sequence, one after the other, are one.
LEMMA PartsJoin ==
    ASSUME NEW A, NEW s \in Seq(A), NEW a \in 1 .. Len(s) + 1, NEW b \in a - 1 .. Len(s),
           NEW c \in b .. Len(s)
    PROVE  SubSeq(s, a, b) \o SubSeq(s, b + 1, c) = SubSeq(s, a, c)
<1>1. /\ SubSeq(s, a, b) \in Seq(A) /\ Len(SubSeq(s, a, b)) = b - a + 1
      /\ SubSeq(s, b + 1, c) \in Seq(A) /\ Len(SubSeq(s, b + 1, c)) = c - b
      /\ SubSeq(s, a, c) \in Seq(A) /\ Len(SubSeq(s, a, c)) = c - a + 1
    OBVIOUS
<1>2. \A i \in 1 .. c - a + 1 :
          (SubSeq(s, a, b) \o SubSeq(s, b + 1, c))[i] = SubSeq(s, a, c)[i]
    OBVIOUS
<1>3. QED
    BY <1>1, <1>2, SeqEqual

\* A sequence `o` is `w`, then `x`, then `z`.
Around(A, o, w, x, z) ==
    /\ o \in Seq(A) /\ Len(o) = Len(w) + 1 + Len(z)
    /\ \A i \in 1 .. Len(w) : o[i] = w[i]
    /\ o[Len(w) + 1] = x
    /\ \A i \in 1 .. Len(z) : o[Len(w) + 1 + i] = z[i]

LEMMA AroundOne ==
    ASSUME NEW A, NEW w \in Seq(A), NEW x \in A, NEW z \in Seq(A)
    PROVE  Around(A, w \o <<x>> \o z, w, x, z)
<1>1. /\ w \o <<x>> \in Seq(A) /\ Len(w \o <<x>>) = Len(w) + 1
      /\ \A i \in 1 .. Len(w) : (w \o <<x>>)[i] = w[i]
      /\ (w \o <<x>>)[Len(w) + 1] = x
    OBVIOUS
<1> DEFINE v == w \o <<x>>
<1> HIDE DEF v
<1>2. v \in Seq(A) /\ Len(v) = Len(w) + 1 /\ Len(w) \in Nat
    BY <1>1 DEF v
<1>3. /\ v \o z \in Seq(A) /\ Len(v \o z) = Len(v) + Len(z)
      /\ \A i \in 1 .. Len(v) : (v \o z)[i] = v[i]
      /\ \A i \in 1 .. Len(z) : (v \o z)[Len(v) + i] = z[i]
    BY <1>2
<1>4. /\ \A i \in 1 .. Len(w) : (v \o z)[i] = w[i]
      /\ (v \o z)[Len(w) + 1] = x
    BY <1>1, <1>2, <1>3 DEF v
<1>5. QED
    BY <1>2, <1>3, <1>4 DEF v, Around

\* Find, in a sequence of any symbols.
LEMMA FindMeets ==
    ASSUME NEW A, NEW s \in Seq(A), NEW S, NEW k \in 1 .. Len(s) + 1
    PROVE  Meets(s, k, S, Find(s, k, S))
<1> DEFINE Q == {j \in k .. Len(s) + 1 : j <= Len(s) => s[j] \in S}
<1>1. Q \in SUBSET (k .. Len(s) + 1) /\ Len(s) + 1 \in Q /\ k \in Int /\ Len(s) + 1 \in Int
    OBVIOUS
<1>2. PICK j \in Q : \A m \in k .. j - 1 : m \notin Q
    <2> HIDE DEF Q
    <2> QED BY <1>1, FirstOf
<1>3. \E i \in k .. Len(s) + 1 : (i <= Len(s) => s[i] \in S) /\ \A m \in k .. i - 1 : s[m] \notin S
    BY <1>1, <1>2
<1>4. QED
    BY <1>3 DEF Find, Meets

\* Past, in a sequence of any symbols, and no other position is it.
LEMMA PastLeaves ==
    ASSUME NEW A, NEW s \in Seq(A), NEW S, NEW k \in 1 .. Len(s) + 1
    PROVE  /\ Leaves(s, k, S, Past(s, k, S))
           /\ \A j : Leaves(s, k, S, j) => Past(s, k, S) = j
<1> DEFINE Q == {j \in k .. Len(s) + 1 : j <= Len(s) => s[j] \notin S}
<1>1. Q \in SUBSET (k .. Len(s) + 1) /\ Len(s) + 1 \in Q /\ k \in Int /\ Len(s) + 1 \in Int
    OBVIOUS
<1>2. PICK j \in Q : \A m \in k .. j - 1 : m \notin Q
    <2> HIDE DEF Q
    <2> QED BY <1>1, FirstOf
<1>3. \E i \in k .. Len(s) + 1 : (i <= Len(s) => s[i] \notin S) /\ \A m \in k .. i - 1 : s[m] \in S
    BY <1>1, <1>2
<1>4. Leaves(s, k, S, Past(s, k, S))
    BY <1>3 DEF Past, Leaves
<1>5. ASSUME NEW i, Leaves(s, k, S, i) PROVE Past(s, k, S) = i
    <2>1. ~(Past(s, k, S) < i) /\ ~(i < Past(s, k, S))
        BY <1>4, <1>5 DEF Leaves
    <2>2. QED
        BY <1>4, <1>5, <2>1 DEF Leaves
<1>6. QED
    BY <1>4, <1>5

-----------------------------------------------------------------------------
(* URLs *)

UrlSymbol == {":", "/", "[", "]", "?", "#", "x"}

\* The cut of a URL: the host is from `a` to `p`, the port from there to `q`, the path from
\* there to `t`, the query from there to `h` and the hash from there to `z`.
UrlRecord(ret, u, a, p, q, t, h, z) ==
    [ret |-> ret, scheme |-> SubSeq(u, 1, a - 1), host |-> SubSeq(u, a, p - 1),
     port |-> SubSeq(u, p, q - 1), path |-> SubSeq(u, q, t - 1),
     query |-> SubSeq(u, t, h - 1), hash |-> SubSeq(u, h, z - 1)]

LEMMA HostStartIs ==
    ASSUME NEW A, NEW u \in Seq(A), u # <<>>
    PROVE  HostStart(u) \in 1 .. Len(u) /\ (u[1] = "/" => HostStart(u) = 1)
<1> DEFINE r == Find(u, 1, {":", "[", "/"})
<1>1. Meets(u, 1, {":", "[", "/"}, r)
    <2>1. 1 \in 1 .. Len(u) + 1
        OBVIOUS
    <2>2. QED
        BY <2>1, FindMeets
<1>2. HostStart(u) = IF r + 3 <= Len(u) /\ SubSeq(u, r, r + 2) = <<":", "/", "/">> THEN r + 3 ELSE 1
    BY DEF HostStart
<1> HIDE DEF r
<1>3. Len(u) >= 1 /\ r \in 1 .. Len(u) + 1
    BY <1>1 DEF Meets
<1>4. ASSUME u[1] = "/" PROVE SubSeq(u, r, r + 2) # <<":", "/", "/">> \/ ~(r + 3 <= Len(u))
    <2>1. r = 1
        BY <1>1, <1>3, <1>4 DEF Meets
    <2>2. ASSUME r + 3 <= Len(u) PROVE SubSeq(u, r, r + 2)[1] = u[1]
        BY <2>1, <2>2
    <2>3. <<":", "/", "/">>[1] # "/"
        OBVIOUS
    <2>4. QED
        BY <1>4, <2>2, <2>3, Zenon
<1>5. QED
    BY <1>2, <1>3, <1>4

\* What follows the path.
LEMMA AfterPathIs ==
    ASSUME NEW A, NEW u \in Seq(A), NEW t \in 1 .. Len(u) + 1,
           t <= Len(u) => u[t] \in {"?", "#"}
    PROVE  \E h \in t .. Len(u) + 1 :
              /\ AfterPath(u, t) = [query |-> SubSeq(u, t, h - 1), hash |-> SubSeq(u, h, Len(u))]
              /\ h <= Len(u) => u[h] = "#"
              /\ t < h => u[t] = "?" /\ \A k \in t .. h - 1 : u[k] # "#"
<1>1. CASE t > Len(u)
    <2>1. t = Len(u) + 1 /\ SubSeq(u, t, t - 1) = <<>> /\ SubSeq(u, t, Len(u)) = <<>>
        BY <1>1
    <2>2. AfterPath(u, t) = [query |-> <<>>, hash |-> <<>>]
        BY <1>1 DEF AfterPath
    <2>3. QED
        BY <2>1, <2>2
<1>2. CASE t <= Len(u) /\ u[t] = "?"
    <2> DEFINE h == Find(u, t, {"#"})
    <2>1. Meets(u, t, {"#"}, h)
        BY FindMeets
    <2>2. AfterPath(u, t) = [query |-> SubSeq(u, t, h - 1), hash |-> SubSeq(u, h, Len(u))]
        BY <1>2 DEF AfterPath
    <2> HIDE DEF h
    <2>3. QED
        BY <1>2, <2>1, <2>2 DEF Meets
<1>3. CASE t <= Len(u) /\ u[t] = "#"
    <2>1. AfterPath(u, t) = [query |-> SubSeq(u, t, t - 1), hash |-> SubSeq(u, t, Len(u))]
        BY <1>3 DEF AfterPath
    <2>2. t \in t .. Len(u) + 1 /\ ~(t < t)
        OBVIOUS
    <2>3. QED
        BY <1>3, <2>1, <2>2, Zenon
<1>4. t > Len(u) \/ (t <= Len(u) /\ u[t] = "?") \/ (t <= Len(u) /\ u[t] = "#")
    OBVIOUS
<1>5. QED
    BY <1>1, <1>2, <1>3, <1>4, Zenon

\* Where httpurl_split cuts.
UrlCuts(u, ret, a, p, q, t, h, z) ==
    /\ a \in Int /\ p \in Int /\ q \in Int /\ t \in Int /\ h \in Int /\ z \in Int
    /\ 1 <= a /\ a <= p /\ p <= q /\ q <= t /\ t <= h /\ h <= z /\ z <= Len(u) + 1
    /\ (ret = 0 /\ z = Len(u) + 1) \/ (ret = -1 /\ q = z)
    /\ q < t => u[q] = "/" /\ \A k \in q .. t - 1 : u[k] \notin {"?", "#"}
    /\ t < h => u[t] = "?" /\ \A k \in t .. h - 1 : u[k] # "#"
    /\ h < z => u[h] = "#"
    /\ u[1] = "/" => ret = 0 /\ a = 1 /\ q = 1 /\ 1 < t

LEMMA UrlSplitIs ==
    ASSUME NEW A, NEW u \in Seq(A), u # <<>>
    PROVE  \E ret, a, p, q, t, h, z : /\ UrlCuts(u, ret, a, p, q, t, h, z)
                                      /\ UrlSplit(u) = UrlRecord(ret, u, a, p, q, t, h, z)
<1> DEFINE a == HostStart(u)
           r == Find(u, a, {":", "[", "/"})
           b == Find(u, r, {"]"})
           p == IF r <= Len(u) /\ u[r] = "[" THEN b + 1 ELSE r
           c == Find(u, p, {"/"})
           q == IF u[p] = ":" THEN c ELSE p
           t == Find(u, q, {"?", "#"})
           n == Len(u)
           Parts(ret, host, port, path, rest) ==
               [ret |-> ret, scheme |-> SubSeq(u, 1, a - 1), host |-> host, port |-> port,
                path |-> path, query |-> rest.query, hash |-> rest.hash]
           none == [query |-> <<>>, hash |-> <<>>]
<1>1. n \in Nat /\ n >= 1 /\ n = Len(u)
    OBVIOUS
<1>2. UrlSplit(u) =
        IF p > n THEN Parts(0, SubSeq(u, a, n), <<>>, <<>>, none)
        ELSE IF q > n THEN Parts(0, SubSeq(u, a, p - 1), SubSeq(u, p, n), <<>>, none)
        ELSE IF u[q] # "/" THEN Parts(-1, SubSeq(u, a, p - 1), SubSeq(u, p, q - 1), <<>>, none)
        ELSE Parts(0, SubSeq(u, a, p - 1), SubSeq(u, p, q - 1), SubSeq(u, q, t - 1), AfterPath(u,
          t))
    <2>1. AfterPath(<<>>, 1) = none
        BY DEF AfterPath
    <2>2. QED
        BY <2>1, Zenon DEF UrlSplit
<1>3. a \in 1 .. n /\ (u[1] = "/" => a = 1)
    BY HostStartIs
<1> HIDE DEF a
<1>4. Meets(u, a, {":", "[", "/"}, r)
    BY <1>1, <1>3, FindMeets
<1> HIDE DEF r
<1>5. r \in a .. n + 1 /\ (r <= n => u[r] \in {":", "[", "/"})
      /\ (u[1] = "/" => r = 1)
    BY <1>1, <1>3, <1>4 DEF Meets
<1>6. Meets(u, r, {"]"}, b)
    BY <1>1, <1>3, <1>5, FindMeets
<1> HIDE DEF b
<1>7. p \in Int /\ r <= p /\ p <= n + 2 /\ (u[1] = "/" => p = 1)
    BY <1>1, <1>3, <1>5, <1>6 DEF Meets
<1> HIDE DEF p
<1>8. ASSUME p <= n PROVE q \in p .. n + 1 /\ (u[1] = "/" => q = 1)
    <2>1. Meets(u, p, {"/"}, c)
        BY <1>1, <1>3, <1>5, <1>7, <1>8, FindMeets
    <2> HIDE DEF c
    <2>2. QED
        BY <1>1, <1>7, <1>8, <2>1 DEF Meets
<1> HIDE DEF q, c
<1>9. (n + 1) - 1 = n /\ \A i \in Int : SubSeq(u, i, i - 1) = <<>>
    OBVIOUS
<1>10. SubSeq(u, n + 1, n) = <<>>
    BY <1>1, <1>9
<1>11. CASE p > n
    <2>1. UrlSplit(u) = Parts(0, SubSeq(u, a, n), <<>>, <<>>, none)
        BY <1>2, <1>11, Zenon
    <2>2. UrlSplit(u) = UrlRecord(0, u, a, n + 1, n + 1, n + 1, n + 1, n + 1)
        BY <1>9, <1>10, <2>1 DEF UrlRecord
    <2>3. UrlCuts(u, 0, a, n + 1, n + 1, n + 1, n + 1, n + 1)
        BY <1>1, <1>3, <1>7, <1>11 DEF UrlCuts
    <2>4. QED
        BY <2>2, <2>3
<1>12. CASE p <= n /\ q > n
    <2>1. UrlSplit(u) = Parts(0, SubSeq(u, a, p - 1), SubSeq(u, p, n), <<>>, none)
        BY <1>1, <1>2, <1>7, <1>8, <1>12
    <2>2. UrlSplit(u) = UrlRecord(0, u, a, p, n + 1, n + 1, n + 1, n + 1)
        BY <1>9, <1>10, <2>1 DEF UrlRecord
    <2>3. UrlCuts(u, 0, a, p, n + 1, n + 1, n + 1, n + 1)
        BY <1>1, <1>3, <1>5, <1>7, <1>8, <1>12 DEF UrlCuts
    <2>4. QED
        BY <2>2, <2>3
<1>13. CASE p <= n /\ q <= n /\ u[q] # "/"
    <2>1. UrlSplit(u) = Parts(-1, SubSeq(u, a, p - 1), SubSeq(u, p, q - 1), <<>>, none)
        BY <1>1, <1>2, <1>7, <1>8, <1>13
    <2>2. UrlSplit(u) = UrlRecord(-1, u, a, p, q, q, q, q)
        <3>1. SubSeq(u, q, q - 1) = <<>>
            BY <1>1, <1>7, <1>8, <1>9, <1>13
        <3>2. QED
            BY <2>1, <3>1 DEF UrlRecord
    <2>3. UrlCuts(u, -1, a, p, q, q, q, q)
        BY <1>1, <1>3, <1>5, <1>7, <1>8, <1>13 DEF UrlCuts
    <2>4. QED
        BY <2>2, <2>3
<1>14. CASE p <= n /\ q <= n /\ u[q] = "/"
    <2>1. UrlSplit(u) = Parts(0, SubSeq(u, a, p - 1), SubSeq(u, p, q - 1), SubSeq(u, q, t - 1),
                              AfterPath(u, t))
        BY <1>1, <1>2, <1>7, <1>8, <1>14
    <2>2. Meets(u, q, {"?", "#"}, t)
        BY <1>1, <1>3, <1>5, <1>7, <1>8, <1>14, FindMeets
    <2> HIDE DEF t
    <2>3. t \in q + 1 .. n + 1 /\ (t <= n => u[t] \in {"?", "#"})
          /\ \A k \in q .. t - 1 : u[k] \notin {"?", "#"}
        BY <1>1, <1>3, <1>5, <1>7, <1>8, <1>14, <2>2 DEF Meets
    <2>4. t \in 1 .. n + 1
        BY <1>1, <1>3, <1>5, <1>7, <1>8, <1>14, <2>3
    <2>5. PICK h \in t .. n + 1 :
              /\ AfterPath(u, t) = [query |-> SubSeq(u, t, h - 1), hash |-> SubSeq(u, h, n)]
              /\ h <= n => u[h] = "#"
              /\ t < h => u[t] = "?" /\ \A k \in t .. h - 1 : u[k] # "#"
        BY <2>3, <2>4, AfterPathIs
    <2>6. UrlSplit(u) = UrlRecord(0, u, a, p, q, t, h, n + 1)
        BY <1>1, <2>1, <2>4, <2>5 DEF UrlRecord
    <2>7. UrlCuts(u, 0, a, p, q, t, h, n + 1)
        <3>1. /\ a \in Int /\ p \in Int /\ q \in Int /\ t \in Int /\ h \in Int /\ n + 1 \in Int
              /\ 1 <= a /\ a <= p /\ p <= q /\ q < t /\ t <= h /\ h <= n + 1 /\ n = Len(u)
            BY <1>1, <1>3, <1>5, <1>7, <1>8, <1>14, <2>3, <2>5
        <3>2. u[q] = "/" /\ \A k \in q .. t - 1 : u[k] \notin {"?", "#"}
            BY <1>14, <2>3
        <3>3. /\ t < h => u[t] = "?" /\ \A k \in t .. h - 1 : u[k] # "#"
              /\ h < n + 1 => u[h] = "#"
            BY <2>5, <3>1
        <3>4. u[1] = "/" => a = 1 /\ q = 1
            BY <1>1, <1>3, <1>5, <1>7, <1>8, <1>14
        <3>5. QED
            BY <3>1, <3>2, <3>3, <3>4 DEF UrlCuts
    <2>8. QED
        BY <2>6, <2>7
<1>15. QED
    BY <1>1, <1>7, <1>8, <1>11, <1>12, <1>13, <1>14

-----------------------------------------------------------------------------
(* Escape sequences *)

\* The recursive functions of httpurl_unescape, by one step.
SizeStep(u, v, k) ==
    IF k > Len(u) THEN 0
    ELSE IF Past(u, k, Plain) > Len(u) THEN Past(u, k, Plain) - k
    ELSE Past(u, k, Plain) - k + 1 + v
Sizes == INSTANCE Unfolding WITH Op <- SizeStep

\* Without a buffer.
LEMMA SizeIs ==
    ASSUME NEW A, NEW u \in Seq(A)
    PROVE  \E f : /\ UnescapedSize(u) = f[1]
                 /\ \A k \in 1 .. Len(u) + 3 : f[k] = SizeStep(u, f[Past(u, k, Plain) + 3], k)
<1> DEFINE D == 1 .. Len(u) + 3
           P(k) == Past(u, k, Plain)
           mu == [k \in D |-> Len(u) + 3 - k]
           nx == [k \in D |-> IF k <= Len(u) /\ P(k) <= Len(u) THEN P(k) + 3 ELSE 1]
           Is(f) == f = [k \in D |-> IF k > Len(u) THEN 0
                                    ELSE IF P(k) > Len(u) THEN P(k) - k
                                    ELSE P(k) - k + 1 + f[P(k) + 3]]
<1>1. Len(u) \in Nat /\ Len(u) + 3 \in Nat /\ mu \in [D -> 0 .. Len(u) + 3]
    OBVIOUS
<1>2. \A k \in 1 .. Len(u) : P(k) \in k .. Len(u) + 1
    <2>1. \A k \in 1 .. Len(u) : Leaves(u, k, Plain, P(k))
        BY PastLeaves
    <2>2. QED
        BY <2>1 DEF Leaves
<1> HIDE DEF P
<1>3. Sizes!Descends(u, D, mu, nx)
    <2>1. SUFFICES ASSUME NEW k \in D
                   PROVE  \/ nx[k] \in D /\ mu[nx[k]] < mu[k]
                          \/ \A v, w : SizeStep(u, v, k) = SizeStep(u, w, k)
        BY DEF Sizes!Descends
    <2>2. CASE k <= Len(u) /\ P(k) <= Len(u)
        BY <1>1, <1>2, <2>2
    <2>3. CASE k > Len(u)
        BY <2>3 DEF SizeStep
    <2>4. CASE P(k) > Len(u)
        BY <2>4 DEF SizeStep, P
    <2>5. QED
        BY <1>1, <1>2, <2>2, <2>3, <2>4
<1>4. PICK f : Sizes!Unfolds(f, u, D, nx)
    <2> HIDE DEF D, mu, nx, Is
    <2> QED BY <1>1, <1>3, Sizes!RecursionExists
<1>5. Is(f)
    <2>1. ASSUME NEW k \in D PROVE f[k] = IF k > Len(u) THEN 0
                                         ELSE IF P(k) > Len(u) THEN P(k) - k
                                         ELSE P(k) - k + 1 + f[P(k) + 3]
        <3>1. f[k] = SizeStep(u, f[nx[k]], k)
            <4> HIDE DEF nx
            <4> QED BY <1>4 DEF Sizes!Unfolds
        <3>2. k <= Len(u) /\ P(k) <= Len(u) => nx[k] = P(k) + 3
            OBVIOUS
        <3>3. QED
            <4> HIDE DEF nx
            <4> QED BY <1>1, <1>2, <3>1, <3>2 DEF SizeStep, P
    <2>2. QED
        <3> HIDE DEF nx
        <3> QED BY <1>4, <2>1 DEF Sizes!Unfolds
<1>6. UnescapedSize(u) = (CHOOSE g : Is(g))[1]
    BY Zenon DEF UnescapedSize, P
<1>7. Is(CHOOSE g : Is(g))
    <2> HIDE DEF Is
    <2> QED BY <1>5, Zenon
<1>8. \A g : Is(g) => \A k \in D : g[k] = SizeStep(u, g[P(k) + 3], k)
    BY DEF SizeStep, P
<1>9. QED
    <2> DEFINE g == CHOOSE g : Is(g)
    <2>1. Is(g)
        BY <1>7
    <2>2. UnescapedSize(u) = g[1]
        BY <1>6
    <2> HIDE DEF g, Is
    <2>3. QED
        BY <1>8, <2>1, <2>2 DEF P

UnescapeStep(u, v, p) ==
    IF Past(u, p[1], Plain) - p[1] > p[2] THEN [ok |-> FALSE, out |-> <<>>]
    ELSE IF Past(u, p[1], Plain) > Len(u) THEN [ok |-> TRUE, out |-> SubSeq(u, p[1], Len(u))]
    ELSE IF ~EscapeAt(u, Past(u, p[1], Plain)) \/ Past(u, p[1], Plain) - p[1] = p[2]
         THEN [ok |-> FALSE, out |-> <<>>]
    ELSE [ok |-> v.ok,
          out |-> SubSeq(u, p[1], Past(u, p[1], Plain) - 1)
                  \o <<u[Past(u, p[1], Plain) + 1] \o u[Past(u, p[1], Plain) + 2]>> \o v.out]
Unescapes == INSTANCE Unfolding WITH Op <- UnescapeStep

\* Into a buffer.
LEMMA UnescapeIs ==
    ASSUME NEW A, NEW u \in Seq(A), NEW cap \in Nat
    PROVE  \E f : /\ UrlUnescape(u, cap) = f[<<1, cap>>]
                 /\ \A k \in 1 .. Len(u) + 1, room \in 0 .. cap :
                        LET r == Past(u, k, Plain)
                        IN  f[<<k, room>>] = UnescapeStep(u, f[<<r + 3, room - (r - k) - 1>>],
                                                          <<k, room>>)
<1> DEFINE D == (1 .. Len(u) + 1) \X (0 .. cap)
           P(k) == Past(u, k, Plain)
           goes(p) == /\ P(p[1]) - p[1] < p[2] /\ P(p[1]) <= Len(u)
                      /\ EscapeAt(u, P(p[1]))
           to(p) == <<P(p[1]) + 3, p[2] - (P(p[1]) - p[1]) - 1>>
           mu == [p \in D |-> Len(u) + 1 - p[1]]
           nx == [p \in D |-> IF goes(p) THEN to(p) ELSE p]
           Is(f) == f = [p \in D |-> UnescapeStep(u, f[to(p)], p)]
<1>1. Len(u) \in Nat /\ Len(u) + 1 \in Nat /\ mu \in [D -> 0 .. Len(u) + 1]
    OBVIOUS
<1>2. \A k \in 1 .. Len(u) + 1 : P(k) \in k .. Len(u) + 1
    <2>1. \A k \in 1 .. Len(u) + 1 : Leaves(u, k, Plain, P(k))
        BY PastLeaves
    <2>2. QED
        BY <2>1 DEF Leaves
<1>3. \A v : \A p \in D : ~goes(p) => UnescapeStep(u, v, p) =
          IF P(p[1]) - p[1] > p[2] THEN [ok |-> FALSE, out |-> <<>>]
          ELSE IF P(p[1]) > Len(u) THEN [ok |-> TRUE, out |-> SubSeq(u, p[1], Len(u))]
          ELSE [ok |-> FALSE, out |-> <<>>]
    <2>1. SUFFICES ASSUME NEW v, NEW p \in D, ~goes(p)
                   PROVE  UnescapeStep(u, v, p) =
                              IF P(p[1]) - p[1] > p[2] THEN [ok |-> FALSE, out |-> <<>>]
                              ELSE IF P(p[1]) > Len(u) THEN [ok |-> TRUE, out |-> SubSeq(u, p[1],
                                Len(u))]
                              ELSE [ok |-> FALSE, out |-> <<>>]
        BY Zenon
    <2>2. p[1] \in 1 .. Len(u) + 1 /\ p[2] \in 0 .. cap
        OBVIOUS
    <2>3. P(p[1]) \in p[1] .. Len(u) + 1
        BY <1>2, <2>2
    <2>4. \/ P(p[1]) - p[1] > p[2]
          \/ P(p[1]) > Len(u)
          \/ ~EscapeAt(u, P(p[1])) \/ P(p[1]) - p[1] = p[2]
        <3> HIDE DEF P
        <3> QED BY <1>1, <2>1, <2>2, <2>3
    <2>5. QED
        BY <2>4, Zenon DEF UnescapeStep
<1> HIDE DEF P
<1>4. Unescapes!Descends(u, D, mu, nx)
    <2>1. SUFFICES ASSUME NEW p \in D
                   PROVE  \/ nx[p] \in D /\ mu[nx[p]] < mu[p]
                          \/ \A v, w : UnescapeStep(u, v, p) = UnescapeStep(u, w, p)
        BY DEF Unescapes!Descends
    <2>2. CASE goes(p)
        <3>1. p[1] \in 1 .. Len(u) + 1 /\ p[2] \in 0 .. cap
            OBVIOUS
        <3>2. P(p[1]) \in p[1] .. Len(u) + 1
            BY <1>2, <3>1
        <3>3. P(p[1]) + 2 <= Len(u)
            BY <2>2 DEF EscapeAt
        <3>4. P(p[1]) + 3 \in p[1] + 1 .. Len(u) + 1 /\ p[2] - (P(p[1]) - p[1]) - 1 \in 0 .. cap
            BY <1>1, <2>2, <3>1, <3>2, <3>3
        <3>5. to(p) \in D /\ to(p)[1] > p[1]
            BY <1>1, <3>1, <3>4
        <3>6. nx[p] = to(p)
            BY <2>2
        <3> HIDE DEF nx, to
        <3>7. mu[to(p)] < mu[p]
            BY <1>1, <3>5
        <3>8. QED
            BY <3>5, <3>6, <3>7
    <2>3. CASE ~goes(p)
        <3> HIDE DEF goes, D
        <3> QED BY <1>3, <2>3
    <2>4. QED
        BY <2>2, <2>3
<1>5. PICK f : Unescapes!Unfolds(f, u, D, nx)
    <2> HIDE DEF D, mu, nx, Is, goes, to
    <2> QED BY <1>1, <1>4, Unescapes!RecursionExists
<1>6. Is(f)
    <2>1. ASSUME NEW p \in D PROVE f[p] = UnescapeStep(u, f[to(p)], p)
        <3>1. f[p] = UnescapeStep(u, f[nx[p]], p)
            <4> HIDE DEF nx, goes, to, D, Is
            <4> QED BY <1>5 DEF Unescapes!Unfolds
        <3>2. goes(p) => nx[p] = to(p)
            OBVIOUS
        <3> HIDE DEF nx, goes, to, D, Is
        <3>3. ~goes(p) => UnescapeStep(u, f[nx[p]], p) = UnescapeStep(u, f[to(p)], p)
            BY <1>3
        <3>4. QED
            BY <3>1, <3>2, <3>3
    <2>2. QED
        <3> HIDE DEF nx, to, D
        <3> QED BY <1>5, <2>1 DEF Unescapes!Unfolds
<1>7. UrlUnescape(u, cap) = (CHOOSE g : Is(g))[<<1, cap>>]
    BY Zenon DEF UrlUnescape, P, UnescapeStep
<1>8. Is(CHOOSE g : Is(g))
    <2> HIDE DEF Is
    <2> QED BY <1>6, Zenon
<1>9. QED
    <2> DEFINE g == CHOOSE g : Is(g)
    <2>1. Is(g)
        BY <1>8
    <2>2. UrlUnescape(u, cap) = g[<<1, cap>>]
        BY <1>7
    <2> HIDE DEF g
    <2>3. ASSUME NEW k \in 1 .. Len(u) + 1, NEW room \in 0 .. cap
          PROVE  g[<<k, room>>] = UnescapeStep(u, g[<<P(k) + 3, room - (P(k) - k) - 1>>], <<k,
                  room>>)
        <3>1. <<k, room>> \in D /\ <<k, room>>[1] = k /\ <<k, room>>[2] = room
            OBVIOUS
        <3>2. g[<<k, room>>] = UnescapeStep(u, g[to(<<k, room>>)], <<k, room>>)
            <4> HIDE DEF D, to
            <4> QED BY <2>1, <3>1
        <3>3. QED
            BY <3>1, <3>2
    <2>4. QED
        BY <2>2, <2>3 DEF P

\* A text without an escape sequence is its own.
LEMMA PlainKept ==
    ASSUME NEW u \in Seq(Plain)
    PROVE  /\ UnescapedSize(u) = Len(u)
           /\ UrlUnescape(u, Len(u)) = [ok |-> TRUE, out |-> u]
<1>1. Len(u) \in Nat /\ 1 \in 1 .. Len(u) + 1 /\ 1 \in 1 .. Len(u) + 3 /\ Len(u) \in 0 .. Len(u)
      /\ \A i \in 1 .. Len(u) : u[i] \in Plain
    OBVIOUS
<1>2. Leaves(u, 1, Plain, Len(u) + 1)
    BY <1>1 DEF Leaves
<1>3. Past(u, 1, Plain) = Len(u) + 1
    BY <1>1, <1>2, PastLeaves
<1>4. UnescapedSize(u) = Len(u)
    <2>1. PICK f : UnescapedSize(u) = f[1]
                   /\ \A k \in 1 .. Len(u) + 3 : f[k] = SizeStep(u, f[Past(u, k, Plain) + 3], k)
        BY SizeIs
    <2>2. UnescapedSize(u) = SizeStep(u, f[Past(u, 1, Plain) + 3], 1)
        BY <1>1, <2>1
    <2>3. QED
        BY <1>1, <1>3, <2>2 DEF SizeStep
<1>5. UrlUnescape(u, Len(u)) = [ok |-> TRUE, out |-> u]
    <2>1. PICK f : /\ UrlUnescape(u, Len(u)) = f[<<1, Len(u)>>]
                   /\ \A k \in 1 .. Len(u) + 1, room \in 0 .. Len(u) :
                        LET r == Past(u, k, Plain)
                        IN  f[<<k, room>>] = UnescapeStep(u, f[<<r + 3, room - (r - k) - 1>>],
                                                          <<k, room>>)
        BY <1>1, UnescapeIs
    <2>2. \E v : UrlUnescape(u, Len(u)) = UnescapeStep(u, v, <<1, Len(u)>>)
        BY <1>1, <2>1
    <2>3. SubSeq(u, 1, Len(u)) = u /\ <<1, Len(u)>>[1] = 1 /\ <<1, Len(u)>>[2] = Len(u)
        OBVIOUS
    <2>4. Past(u, 1, Plain) > Len(u) /\ ~(Past(u, 1, Plain) - 1 > Len(u))
        BY <1>1, <1>3
    <2>5. QED
        BY <2>2, <2>3, <2>4, Zenon DEF UnescapeStep
<1>6. QED
    BY <1>4, <1>5

(***************************************************************************)
(* UrlPartsFit, for any URL.                                               *)
(***************************************************************************)
UrlFits(u) ==
    LET p == UrlSplit(u)
    IN  /\ p.ret = 0 => p.scheme \o p.host \o p.port \o p.path \o p.query \o p.hash = u
        /\ p.path # <<>> => p.path[1] = "/" /\ ToSet(p.path) \cap {"?", "#"} = {}
        /\ p.query # <<>> => p.query[1] = "?" /\ "#" \notin ToSet(p.query)
        /\ p.hash # <<>> => p.hash[1] = "#"
        /\ p.ret = -1 => p.path = <<>>
        /\ u[1] = "/" => p.scheme \o p.host \o p.port = <<>> /\ p.path # <<>>
        /\ UnescapedPath(u).code = 400 <=> p.path = <<>>

LEMMA UrlsFit ==
    ASSUME NEW u \in Seq(UrlSymbol), u # <<>>
    PROVE  UrlFits(u)
<1>1. PICK ret, a, p, q, t, h, z : UrlCuts(u, ret, a, p, q, t, h, z)
                                   /\ UrlSplit(u) = UrlRecord(ret, u, a, p, q, t, h, z)
    BY UrlSplitIs
<1> DEFINE r == UrlSplit(u)
<1>2. /\ r.ret = ret /\ r.scheme = SubSeq(u, 1, a - 1) /\ r.host = SubSeq(u, a, p - 1)
      /\ r.port = SubSeq(u, p, q - 1) /\ r.path = SubSeq(u, q, t - 1)
      /\ r.query = SubSeq(u, t, h - 1) /\ r.hash = SubSeq(u, h, z - 1)
    <2>1. r = UrlRecord(ret, u, a, p, q, t, h, z)
        BY <1>1
    <2> HIDE DEF r
    <2>2. QED
        BY <2>1 DEF UrlRecord
<1>3. /\ Len(u) \in Nat /\ Len(u) >= 1
      /\ a \in 1 .. Len(u) + 1 /\ p \in a .. Len(u) + 1 /\ q \in p .. Len(u) + 1
      /\ t \in q .. Len(u) + 1 /\ h \in t .. Len(u) + 1 /\ z \in h .. Len(u) + 1
      /\ (ret = 0 /\ z = Len(u) + 1) \/ (ret = -1 /\ q = z)
    BY <1>1 DEF UrlCuts
<1>4. /\ q < t => u[q] = "/" /\ \A k \in q .. t - 1 : u[k] \notin {"?", "#"}
      /\ t < h => u[t] = "?" /\ \A k \in t .. h - 1 : u[k] # "#"
      /\ h < z => u[h] = "#"
      /\ u[1] = "/" => ret = 0 /\ a = 1 /\ q = 1 /\ 1 < t
    BY <1>1, Zenon DEF UrlCuts
<1> HIDE DEF r
<1>5. \A i \in 1 .. Len(u) + 1 : \A j \in i .. Len(u) + 1 :
         /\ SubSeq(u, i, j - 1) \in Seq(UrlSymbol) /\ Len(SubSeq(u, i, j - 1)) = j - i
         /\ SubSeq(u, i, j - 1) = <<>> <=> i = j
         /\ i < j => SubSeq(u, i, j - 1)[1] = u[i]
         /\ \A k \in 1 .. j - i : SubSeq(u, i, j - 1)[k] = u[k + i - 1]
    OBVIOUS
<1>6. \A i \in 1 .. Len(u) + 1 : \A j \in i .. Len(u) + 1 : \A S :
         (\A k \in i .. j - 1 : u[k] \notin S) => ToSet(SubSeq(u, i, j - 1)) \cap S = {}
    <2>1. SUFFICES ASSUME NEW i \in 1 .. Len(u) + 1, NEW j \in i .. Len(u) + 1, NEW S,
                          \A k \in i .. j - 1 : u[k] \notin S,
                          NEW k \in 1 .. j - i
                   PROVE  SubSeq(u, i, j - 1)[k] \notin S
        <3>1. \A i \in 1 .. Len(u) + 1 : \A j \in i .. Len(u) + 1 :
                 DOMAIN SubSeq(u, i, j - 1) = 1 .. j - i
            BY <1>5
        <3>2. QED
            BY <3>1 DEF ToSet
    <2>2. k + i - 1 \in i .. j - 1
        OBVIOUS
    <2>3. SubSeq(u, i, j - 1)[k] = u[k + i - 1]
        BY <1>5
    <2>4. QED
        BY <2>1, <2>2, <2>3
<1>7. \A i \in 1 .. Len(u) + 1 : \A j \in i .. Len(u) + 1 : \A k \in j .. Len(u) + 1 :
         SubSeq(u, i, j - 1) \o SubSeq(u, j, k - 1) = SubSeq(u, i, k - 1)
    <2>1. SUFFICES ASSUME NEW i \in 1 .. Len(u) + 1, NEW j \in i .. Len(u) + 1,
                          NEW k \in j .. Len(u) + 1
                   PROVE  SubSeq(u, i, j - 1) \o SubSeq(u, j, k - 1) = SubSeq(u, i, k - 1)
        OBVIOUS
    <2>2. j - 1 \in i - 1 .. Len(u) /\ k - 1 \in j - 1 .. Len(u) /\ (j - 1) + 1 = j
        OBVIOUS
    <2>3. SubSeq(u, i, j - 1) \o SubSeq(u, (j - 1) + 1, k - 1) = SubSeq(u, i, k - 1)
        BY <2>2, PartsJoin
    <2>4. QED
        BY <2>2, <2>3
<1>8. r.ret = 0 => r.scheme \o r.host \o r.port \o r.path \o r.query \o r.hash = u
    <2>1. SUFFICES ASSUME ret = 0
                   PROVE  r.scheme \o r.host \o r.port \o r.path \o r.query \o r.hash = u
        BY <1>2
    <2>2. z = Len(u) + 1 /\ 1 \in 1 .. Len(u) + 1 /\ a \in 1 .. Len(u) + 1
          /\ p \in 1 .. Len(u) + 1 /\ q \in 1 .. Len(u) + 1 /\ t \in 1 .. Len(u) + 1
          /\ h \in 1 .. Len(u) + 1 /\ Len(u) + 1 \in h .. Len(u) + 1
        BY <1>3, <2>1
    <2>3. r.scheme \o r.host = SubSeq(u, 1, p - 1)
        BY <1>2, <1>3, <1>7, <2>2
    <2>4. SubSeq(u, 1, p - 1) \o r.port = SubSeq(u, 1, q - 1)
        BY <1>2, <1>3, <1>7, <2>2
    <2>5. SubSeq(u, 1, q - 1) \o r.path = SubSeq(u, 1, t - 1)
        BY <1>2, <1>3, <1>7, <2>2
    <2>6. SubSeq(u, 1, t - 1) \o r.query = SubSeq(u, 1, h - 1)
        BY <1>2, <1>3, <1>7, <2>2
    <2>7. SubSeq(u, 1, h - 1) \o r.hash = SubSeq(u, 1, z - 1)
        BY <1>2, <1>3, <1>7, <2>2
    <2>8. SubSeq(u, 1, z - 1) = u
        BY <2>2
    <2>9. QED
        BY <2>3, <2>4, <2>5, <2>6, <2>7, <2>8, Zenon
<1>9. r.path # <<>> => r.path[1] = "/" /\ ToSet(r.path) \cap {"?", "#"} = {}
    <2>1. q \in 1 .. Len(u) + 1 /\ t \in q .. Len(u) + 1 /\ q \in Int /\ t \in Int
        BY <1>3
    <2>2. r.path # <<>> => q < t
        BY <1>2, <1>5, <2>1
    <2>3. q < t => SubSeq(u, q, t - 1)[1] = "/"
        BY <1>4, <1>5, <2>1
    <2>4. q < t => ToSet(SubSeq(u, q, t - 1)) \cap {"?", "#"} = {}
        BY <1>4, <1>6, <2>1
    <2>5. QED
        BY <1>2, <2>2, <2>3, <2>4
<1>10. r.query # <<>> => r.query[1] = "?" /\ "#" \notin ToSet(r.query)
    <2>1. t \in 1 .. Len(u) + 1 /\ h \in t .. Len(u) + 1 /\ t \in Int /\ h \in Int
        BY <1>3
    <2>2. t < h => ToSet(SubSeq(u, t, h - 1)) \cap {"#"} = {}
        BY <1>4, <1>6, <2>1
    <2>3. QED
        BY <1>2, <1>4, <1>5, <2>1, <2>2
<1>11. r.hash # <<>> => r.hash[1] = "#"
    <2>1. h \in 1 .. Len(u) + 1 /\ z \in h .. Len(u) + 1 /\ h \in Int /\ z \in Int
        BY <1>3
    <2>2. QED
        BY <1>2, <1>4, <1>5, <2>1
<1>12. r.ret = -1 => r.path = <<>>
    <2>1. ret = -1 => q = t
        BY <1>3
    <2>2. QED
        BY <1>2, <1>3, <1>5, <2>1
<1>13. u[1] = "/" => r.scheme \o r.host \o r.port = <<>> /\ r.path # <<>>
    <2>1. SUFFICES ASSUME u[1] = "/"
                   PROVE  r.scheme \o r.host \o r.port = <<>> /\ r.path # <<>>
        OBVIOUS
    <2>2. a = 1 /\ p = 1 /\ q = 1 /\ 1 < t
        BY <1>3, <1>4, <2>1
    <2>3. r.scheme = <<>> /\ r.host = <<>> /\ r.port = <<>>
        BY <1>2, <1>3, <1>5, <2>2
    <2>4. r.path # <<>>
        <3>1. 1 \in 1 .. Len(u) + 1 /\ t \in 1 .. Len(u) + 1 /\ q = 1 /\ 1 # t
            BY <1>3, <2>2
        <3>2. SubSeq(u, 1, t - 1) # <<>>
            BY <1>5, <3>1
        <3>3. QED
            BY <1>2, <3>1, <3>2
    <2>5. QED
        BY <2>3, <2>4
<1>14. UnescapedPath(u).code = 400 <=> r.path = <<>>
    <2>1. r.path \in Seq(UrlSymbol)
        BY <1>2, <1>3, <1>5
    <2>2. r.path \in Seq(Plain)
        <3>1. \A k \in 1 .. Len(r.path) : r.path[k] \in Plain
            BY <2>1 DEF UrlSymbol, Plain
        <3>2. QED
            BY <2>1, <3>1
    <2>3. UrlUnescape(r.path, UnescapedSize(r.path)) = [ok |-> TRUE, out |-> r.path]
        BY <2>2, PlainKept
    <2>4. UnescapedPath(u) = IF Len(r.path) > 0 THEN [code |-> 0, path |-> r.path]
                             ELSE [code |-> 400, path |-> <<>>]
        BY <2>3 DEF UnescapedPath, Status, r
    <2>5. Len(r.path) > 0 <=> r.path # <<>>
        BY <2>1
    <2>6. QED
        BY <2>4, <2>5
<1>15. QED
    BY <1>8, <1>9, <1>10, <1>11, <1>12, <1>13, <1>14, Zenon DEF UrlFits, r

-----------------------------------------------------------------------------
(* What comes *)

\* What comes symbol by symbol is a sequence of its symbols.
SymbolsCome == job \in DOMAIN Symbols => got \in Seq(Symbols[job])

LEMMA SymbolsAlways == Spec => []SymbolsCome
<1>1. Init => SymbolsCome
    BY DEF Init, SymbolsCome
<1>2. SymbolsCome /\ [Grow]_vars => SymbolsCome'
    <2> SUFFICES ASSUME SymbolsCome, [Grow]_vars, job' \in DOMAIN Symbols
                 PROVE  got' \in Seq(Symbols[job'])
        BY DEF SymbolsCome
    <2>1. CASE Grow
        <3>1. job' = job /\ got \in Seq(Symbols[job])
            BY <2>1 DEF Grow, SymbolsCome
        <3>2. PICK p \in Pieces(job, Len(input)) : got' = got \o p
            BY <2>1 DEF Grow
        <3>3. Pieces(job, Len(input)) = Single(Symbols[job])
            BY <3>1 DEF Pieces
        <3>4. p \in Seq(Symbols[job])
            <4>1. PICK x \in Symbols[job] : p = <<x>>
                BY <3>2, <3>3 DEF Single
            <4>2. \A S : \A y \in S : <<y>> \in Seq(S)
                OBVIOUS
            <4>3. QED
                BY <4>1, <4>2
        <3>5. \A S : \A x, y \in Seq(S) : x \o y \in Seq(S)
            OBVIOUS
        <3>6. QED
            BY <3>1, <3>2, <3>4, <3>5
    <2>2. CASE UNCHANGED vars
        BY <2>2 DEF SymbolsCome, vars
    <2>3. QED
        BY <2>1, <2>2
<1>3. QED
    BY <1>1, <1>2, PTL DEF Spec

(***************************************************************************)
(* httpurl_split cuts a URL of any length and loses nothing of it; each    *)
(* part starts with its own mark; and only a URL without a path is refused *)
(* by ahreq_parse.                                                         *)
(***************************************************************************)
THEOREM UrlPartsAlways == Spec => []UrlPartsFit
<1>1. SymbolsCome => UrlPartsFit
    <2>1. SUFFICES ASSUME SymbolsCome, job = "url", got # <<>> PROVE UrlFits(got)
        BY Zenon DEF UrlPartsFit, UrlFits
    <2>2. "url" \in DOMAIN Symbols /\ Symbols["url"] = UrlSymbol
        BY DEF Symbols, UrlSymbol
    <2>3. got \in Seq(UrlSymbol)
        BY <2>1, <2>2 DEF SymbolsCome
    <2>4. QED
        BY <2>1, <2>3, UrlsFit
<1>2. QED
    BY <1>1, SymbolsAlways, PTL

-----------------------------------------------------------------------------
(* Paths with escape sequences *)

\* A set of positions that is not empty has a last one.
LEMMA LastOf ==
    ASSUME NEW n \in Nat, NEW T \in SUBSET (1 .. n), T # {}
    PROVE  \E x \in T : \A y \in T : y <= x
BY Sizes!MaxIs

\* How many positions from `a` to `b` are left.
Count(s, a, b) == Cardinality({k \in a .. b : k \notin Escaped(s)})

LEMMA CountJoins ==
    ASSUME NEW s, NEW a \in Int, NEW b \in Int, NEW c \in Int, a - 1 <= b, b <= c
    PROVE  /\ Count(s, a, b) \in Nat /\ Count(s, b + 1, c) \in Nat /\ Count(s, a, c) \in Nat
           /\ Count(s, a, c) = Count(s, a, b) + Count(s, b + 1, c)
<1> DEFINE C(x, y) == {k \in x .. y : k \notin Escaped(s)}
<1>1. \A x, y \in Int : IsFiniteSet(C(x, y)) /\ Cardinality(C(x, y)) \in Nat
    <2>1. SUFFICES ASSUME NEW x \in Int, NEW y \in Int
                   PROVE  IsFiniteSet(C(x, y)) /\ Cardinality(C(x, y)) \in Nat
        OBVIOUS
    <2>2. C(x, y) \in SUBSET (x .. y) /\ IsFiniteSet(x .. y)
        BY FS_Interval
    <2>3. QED
        BY <2>2, FS_Subset, FS_CardinalityType
<1>2. C(a, c) = C(a, b) \cup C(b + 1, c) /\ C(a, b) \cap C(b + 1, c) = {}
    OBVIOUS
<1>3. b + 1 \in Int
    OBVIOUS
<1> HIDE DEF C
<1>4. Cardinality(C(a, c)) = Cardinality(C(a, b)) + Cardinality(C(b + 1, c)) - Cardinality({})
    BY <1>1, <1>2, <1>3, FS_Union
<1>5. Cardinality({}) = 0
    BY FS_EmptySet
<1>6. \A x, y : Count(s, x, y) = Cardinality(C(x, y))
    BY DEF Count, C
<1>7. QED
    BY <1>1, <1>3, <1>4, <1>5, <1>6

LEMMA CountAll ==
    ASSUME NEW s, NEW a \in Int, NEW b \in Int, a - 1 <= b
    PROVE  /\ (\A k \in a .. b : k \notin Escaped(s)) => Count(s, a, b) = b - a + 1
           /\ (\A k \in a .. b : k \in Escaped(s)) => Count(s, a, b) = 0
<1>1. ASSUME \A k \in a .. b : k \notin Escaped(s) PROVE Count(s, a, b) = b - a + 1
    <2>1. {k \in a .. b : k \notin Escaped(s)} = a .. b
        BY <1>1
    <2>2. Cardinality(a .. b) = IF a > b THEN 0 ELSE b - a + 1
        BY FS_Interval
    <2>3. ~(a > b) \/ b - a + 1 = 0
        OBVIOUS
    <2>4. Count(s, a, b) = Cardinality(a .. b)
        BY <2>1, Zenon DEF Count
    <2>5. QED
        BY <2>2, <2>3, <2>4
<1>2. ASSUME \A k \in a .. b : k \in Escaped(s) PROVE Count(s, a, b) = 0
    <2>1. {k \in a .. b : k \notin Escaped(s)} = {}
        BY <1>2
    <2>2. QED
        BY <2>1, FS_EmptySet DEF Count
<1>3. QED
    BY <1>1, <1>2

\* The symbols of a path.
PathSymbol == {"/", "%", "2", "F", "x", "c"}

\* From a position that is not in an escape sequence: the text up to the next "%", and the
\* sequence there.
LEMMA NextEscape ==
    ASSUME NEW s \in Seq(PathSymbol), WellEscaped(s),
           NEW k \in 1 .. Len(s) + 1, k \notin Escaped(s), NEW r, r = Past(s, k, Plain)
    PROVE  /\ r \in k .. Len(s) + 1
           /\ \A j \in k .. r - 1 : j \notin Escaped(s) /\ s[j] # "%" /\ s[j] # "c"
           /\ r <= Len(s) => /\ s[r] = "%" /\ r \notin Escaped(s) /\ EscapeAt(s, r)
                             /\ r + 1 \in Escaped(s) /\ r + 2 \in Escaped(s)
                             /\ r + 3 \notin Escaped(s) /\ r + 3 \in 1 .. Len(s) + 1
<1>1. Len(s) \in Nat /\ DOMAIN s = 1 .. Len(s) /\ \A j \in 1 .. Len(s) : s[j] \in PathSymbol
    OBVIOUS
<1>2. r \in k .. Len(s) + 1 /\ (r <= Len(s) => s[r] \notin Plain)
      /\ \A j \in k .. r - 1 : s[j] \in Plain
    BY PastLeaves DEF Leaves
<1>3. \A j \in Escaped(s) : \E i \in 1 .. Len(s) : s[i] = "%" /\ (j = i + 1 \/ j = i + 2)
    BY <1>1 DEF Escaped
<1>4. \A i \in 1 .. Len(s) : s[i] = "%" => i + 1 \in Escaped(s) /\ i + 2 \in Escaped(s)
    BY <1>1 DEF Escaped
<1>5. \A j \in Escaped(s) : j \in 1 .. Len(s) /\ s[j] \in Digits
    BY <1>1 DEF WellEscaped
<1>6. \A j \in 1 .. Len(s) : s[j] # "c"
    BY <1>1 DEF WellEscaped, ToSet
<1>7. "%" \notin Plain /\ "%" \notin Digits /\ Digits \subseteq Plain
    BY DEF Plain, Digits
<1>8. ASSUME NEW j \in k .. r - 1 PROVE j \notin Escaped(s) /\ s[j] # "%" /\ s[j] # "c"
    <2>1. j \in 1 .. Len(s) /\ s[j] # "%" /\ s[j] # "c"
        BY <1>1, <1>2, <1>6, <1>7
    <2>2. ASSUME j \in Escaped(s) PROVE FALSE
        <3>1. PICK i \in 1 .. Len(s) : s[i] = "%" /\ (j = i + 1 \/ j = i + 2)
            BY <1>3, <2>2
        <3>2. ~(i \in k .. r - 1)
            BY <1>2, <1>7, <3>1
        <3>3. i < k
            BY <1>1, <1>2, <3>1, <3>2
        <3>4. k = i + 1 \/ k = i + 2
            BY <1>1, <1>2, <3>1, <3>3
        <3>5. QED
            BY <1>4, <3>1, <3>4
    <2>3. QED
        BY <2>1, <2>2
<1>9. ASSUME r <= Len(s)
      PROVE  /\ s[r] = "%" /\ r \notin Escaped(s) /\ EscapeAt(s, r)
             /\ r + 1 \in Escaped(s) /\ r + 2 \in Escaped(s)
             /\ r + 3 \notin Escaped(s) /\ r + 3 \in 1 .. Len(s) + 1
    <2>1. r \in 1 .. Len(s) /\ s[r] \in PathSymbol /\ s[r] \notin Plain /\ s[r] # "c"
        BY <1>1, <1>2, <1>6, <1>9
    <2>2. s[r] = "%"
        BY <2>1 DEF PathSymbol, Plain, Digits
    <2>3. r \notin Escaped(s)
        BY <1>5, <1>7, <2>2
    <2>4. r + 1 \in Escaped(s) /\ r + 2 \in Escaped(s)
        BY <1>4, <2>1, <2>2
    <2>5. r + 1 \in 1 .. Len(s) /\ s[r + 1] \in Digits /\ r + 2 \in 1 .. Len(s)
            /\ s[r + 2] \in Digits
        BY <1>5, <2>4
    <2>6. EscapeAt(s, r)
        BY <1>1, <2>1, <2>2, <2>5 DEF EscapeAt
    <2>7. ASSUME r + 3 \in Escaped(s) PROVE FALSE
        <3>1. PICK i \in 1 .. Len(s) : s[i] = "%" /\ (r + 3 = i + 1 \/ r + 3 = i + 2)
            BY <1>3, <2>7
        <3>2. i = r + 1 \/ i = r + 2
            BY <2>1, <3>1
        <3>3. QED
            BY <1>7, <2>5, <3>1, <3>2
    <2>8. QED
        BY <1>1, <2>1, <2>2, <2>3, <2>4, <2>5, <2>6, <2>7
<1>10. QED
    BY <1>2, <1>8, <1>9

\* What is left of the text up to an escape sequence, of the sequence, and behind it.
LEMMA CountNext ==
    ASSUME NEW s, NEW k \in Int, NEW r \in Int, k <= r,
           \A j \in k .. r : j \notin Escaped(s),
           r + 1 \in Escaped(s), r + 2 \in Escaped(s),
           NEW m \in Int, r + 2 <= m
    PROVE  /\ Count(s, r + 3, m) \in Nat
           /\ Count(s, k, m) = r - k + 1 + Count(s, r + 3, m)
<1>1. r + 1 \in Int /\ r + 2 \in Int /\ (r + 2) + 1 = r + 3 /\ k - 1 <= r /\ r <= m
      /\ (r + 1) - 1 <= r + 2
    OBVIOUS
<1>2. Count(s, k, r) = r - k + 1
    BY <1>1, CountAll
<1>3. Count(s, r + 1, r + 2) = 0
    <2>1. \A j \in r + 1 .. r + 2 : j = r + 1 \/ j = r + 2
        BY <1>1
    <2>2. \A j \in r + 1 .. r + 2 : j \in Escaped(s)
        BY <2>1
    <2>3. QED
        BY <1>1, <2>2, CountAll
<1>4. Count(s, k, m) = Count(s, k, r) + Count(s, r + 1, m)
    BY <1>1, CountJoins
<1>5. /\ Count(s, (r + 2) + 1, m) \in Nat
      /\ Count(s, r + 1, m) = Count(s, r + 1, r + 2) + Count(s, (r + 2) + 1, m)
    BY <1>1, CountJoins
<1>6. QED
    BY <1>1, <1>2, <1>3, <1>4, <1>5

\* The room that is needed from a position on.
LEMMA RoomNeeded ==
    ASSUME NEW s \in Seq(PathSymbol), WellEscaped(s), NEW f,
           \A k \in 1 .. Len(s) + 3 : f[k] = SizeStep(s, f[Past(s, k, Plain) + 3], k)
    PROVE  \A k \in 1 .. Len(s) + 1 : k \notin Escaped(s) => f[k] = Count(s, k, Len(s))
<1> DEFINE T == {k \in 1 .. Len(s) + 1 : ~(k \notin Escaped(s) => f[k] = Count(s, k, Len(s)))}
<1>1. SUFFICES ASSUME T # {} PROVE FALSE
    OBVIOUS
<1>2. T \in SUBSET (1 .. Len(s) + 1) /\ Len(s) \in Nat /\ Len(s) + 1 \in Nat
    OBVIOUS
<1>3. PICK k \in T : \A y \in T : y <= k
    <2> HIDE DEF T
    <2> QED BY <1>1, <1>2, LastOf
<1>4. /\ k \in 1 .. Len(s) + 1 /\ k \in 1 .. Len(s) + 3 /\ k \notin Escaped(s)
      /\ f[k] # Count(s, k, Len(s))
    BY <1>2
<1>5. \A j \in 1 .. Len(s) + 1 : k < j => (j \notin Escaped(s) => f[j] = Count(s, j, Len(s)))
    BY <1>2, <1>3, <1>4
<1> HIDE DEF T
<1> DEFINE r == Past(s, k, Plain)
<1>6. f[k] = SizeStep(s, f[r + 3], k)
    BY <1>4
<1>7. /\ r \in k .. Len(s) + 1
      /\ \A j \in k .. r - 1 : j \notin Escaped(s)
      /\ r <= Len(s) => /\ r \notin Escaped(s)
                        /\ r + 1 \in Escaped(s) /\ r + 2 \in Escaped(s)
                        /\ r + 3 \notin Escaped(s) /\ r + 3 \in 1 .. Len(s) + 1
    BY <1>4, NextEscape
<1>8. f[k] = IF k > Len(s) THEN 0 ELSE IF r > Len(s) THEN r - k ELSE r - k + 1 + f[r + 3]
    BY <1>6 DEF SizeStep
<1> HIDE DEF r
<1>9. k \in Int /\ r \in Int /\ k <= r /\ Len(s) \in Int
    BY <1>2, <1>4, <1>7
<1>10. CASE r > Len(s)
    <2>1. r - 1 = Len(s) /\ k - 1 <= Len(s)
        BY <1>2, <1>7, <1>9, <1>10
    <2>2. Count(s, k, Len(s)) = Len(s) - k + 1
        BY <1>7, <1>9, <2>1, CountAll
    <2>3. k > Len(s) => k = Len(s) + 1
        BY <1>2, <1>4
    <2>4. QED
        BY <1>4, <1>8, <1>9, <1>10, <2>1, <2>2, <2>3
<1>11. CASE r <= Len(s)
    <2>1. r + 2 <= Len(s) /\ \A j \in k .. r : j \notin Escaped(s)
        BY <1>2, <1>7, <1>9, <1>11
    <2>2. /\ Count(s, r + 3, Len(s)) \in Nat
          /\ Count(s, k, Len(s)) = r - k + 1 + Count(s, r + 3, Len(s))
        BY <1>7, <1>9, <1>11, <2>1, CountNext
    <2>3. f[r + 3] = Count(s, r + 3, Len(s))
        BY <1>5, <1>7, <1>9, <1>11
    <2>4. k <= Len(s)
        BY <1>9, <1>11
    <2>5. QED
        BY <1>4, <1>8, <1>9, <1>11, <2>2, <2>3, <2>4
<1>12. QED
    BY <1>9, <1>10, <1>11

\* The recursion of httpurl_unescape, with a buffer.
Recursion(s, cap, f) ==
    \A k \in 1 .. Len(s) + 1, room \in 0 .. cap :
        LET r == Past(s, k, Plain)
        IN  f[<<k, room>>] = UnescapeStep(s, f[<<r + 3, room - (r - k) - 1>>], <<k, room>>)

\* What an unescaped path from position `k` on is.
Bytewise(s) == {ByteAt(s, j) : j \in 1 .. Len(s)}
Unescaped(s, k, e) ==
    /\ e.ok = TRUE /\ e.out \in Seq(Bytewise(s)) /\ Len(e.out) = Count(s, k, Len(s))
    /\ \A j \in k .. Len(s) : j \notin Escaped(s) => e.out[Count(s, k, j)] = ByteAt(s, j)

\* With the room that it needs, a path is unescaped.
LEMMA WellUnescaped ==
    ASSUME NEW s \in Seq(PathSymbol), WellEscaped(s), NEW cap \in Nat, NEW f, Recursion(s, cap, f)
    PROVE  \A k \in 1 .. Len(s) + 1 : k \notin Escaped(s) =>
               \A room \in 0 .. cap : room >= Count(s, k, Len(s)) => Unescaped(s, k, f[<<k, room>>])
<1> DEFINE P(k) == k \notin Escaped(s) =>
               \A room \in 0 .. cap : room >= Count(s, k, Len(s)) => Unescaped(s, k, f[<<k, room>>])
           T == {k \in 1 .. Len(s) + 1 : ~P(k)}
<1>1. SUFFICES ASSUME T # {} PROVE FALSE
    OBVIOUS
<1>2. T \in SUBSET (1 .. Len(s) + 1) /\ Len(s) \in Nat /\ Len(s) + 1 \in Nat
    OBVIOUS
<1>3. PICK k \in T : \A y \in T : y <= k
    <2> HIDE DEF T
    <2> QED BY <1>1, <1>2, LastOf
<1>4. k \in 1 .. Len(s) + 1 /\ ~P(k)
    BY <1>2
<1>5. \A j \in 1 .. Len(s) + 1 : k < j => P(j)
    <2> HIDE DEF P
    <2> QED BY <1>2, <1>3, <1>4
<1> HIDE DEF T
<1>6. k \notin Escaped(s)
    BY <1>4
<1>7. PICK room \in 0 .. cap : room >= Count(s, k, Len(s)) /\ ~Unescaped(s, k, f[<<k, room>>])
    BY <1>4
<1> DEFINE r == Past(s, k, Plain)
           e == f[<<k, room>>]
           v == f[<<r + 3, room - (r - k) - 1>>]
<1>8. e = UnescapeStep(s, v, <<k, room>>)
    BY <1>4, <1>7, Zenon DEF Recursion
<1>9. /\ r \in k .. Len(s) + 1
      /\ \A j \in k .. r - 1 : j \notin Escaped(s) /\ s[j] # "%"
      /\ r <= Len(s) => /\ s[r] = "%" /\ r \notin Escaped(s) /\ EscapeAt(s, r)
                        /\ r + 1 \in Escaped(s) /\ r + 2 \in Escaped(s)
                        /\ r + 3 \notin Escaped(s) /\ r + 3 \in 1 .. Len(s) + 1
    <2> HIDE DEF e, v, P
    <2>1. r = Past(s, k, Plain)
        OBVIOUS
    <2> HIDE DEF r
    <2>2. QED
        BY <1>4, <1>6, <2>1, NextEscape
<1>10. <<k, room>>[1] = k /\ <<k, room>>[2] = room
    OBVIOUS
<1>11. k \in Int /\ r \in Int /\ k <= r /\ Len(s) \in Int /\ 1 <= k /\ room \in Int
    BY <1>2, <1>4, <1>7, <1>9
<1>12. \A j \in k .. r - 1 : ByteAt(s, j) = s[j] /\ Count(s, k, j) = j - k + 1
    <2>1. SUFFICES ASSUME NEW j \in k .. r - 1 PROVE ByteAt(s, j) = s[j]
            /\ Count(s, k, j) = j - k + 1
        OBVIOUS
    <2>2. j \in Int /\ k - 1 <= j /\ \A i \in k .. j : i \notin Escaped(s)
        BY <1>9, <1>11
    <2>3. Count(s, k, j) = j - k + 1
        BY <1>11, <2>2, CountAll
    <2>4. s[j] # "%"
        BY <1>9
    <2>5. QED
        BY <2>3, <2>4 DEF ByteAt
<1>13. /\ SubSeq(s, k, r - 1) \in Seq(Bytewise(s)) /\ Len(SubSeq(s, k, r - 1)) = r - k
       /\ \A j \in k .. r - 1 : SubSeq(s, k, r - 1)[j - k + 1] = s[j]
    <2>1. \A j \in k .. r - 1 : s[j] \in Bytewise(s)
        BY <1>2, <1>9, <1>11, <1>12 DEF Bytewise
    <2>2. r - 1 <= Len(s)
        BY <1>9, <1>11
    <2>3. \A B : (\A j \in k .. r - 1 : s[j] \in B) => SubSeq(s, k, r - 1) \in Seq(B)
        BY <1>11, <2>2
    <2>4. Len(SubSeq(s, k, r - 1)) = r - k
          /\ \A j \in k .. r - 1 : SubSeq(s, k, r - 1)[j - k + 1] = s[j]
        BY <1>11, <2>2
    <2>5. QED
        BY <2>1, <2>3, <2>4
<1> HIDE DEF P, r, e, v
<1>14. CASE r > Len(s)
    <2>1. r - 1 = Len(s) /\ k - 1 <= Len(s)
        BY <1>9, <1>11, <1>14
    <2>2. Count(s, k, Len(s)) = Len(s) - k + 1
        BY <1>9, <1>11, <2>1, CountAll
    <2>3. ~(r - k > room)
        BY <1>7, <1>11, <2>1, <2>2
    <2>4. e = [ok |-> TRUE, out |-> SubSeq(s, k, Len(s))]
        BY <1>8, <1>10, <1>14, <2>3, Zenon DEF UnescapeStep, r
    <2>5. QED
        BY <1>7, <1>11, <1>12, <1>13, <2>1, <2>2, <2>4 DEF Unescaped, e
<1>15. CASE r <= Len(s)
    <2>1. r + 2 <= Len(s) /\ \A j \in k .. r : j \notin Escaped(s)
        BY <1>9, <1>11, <1>15
    <2>2. \A m \in r + 2 .. Len(s) : /\ Count(s, r + 3, m) \in Nat
                                    /\ Count(s, k, m) = r - k + 1 + Count(s, r + 3, m)
        <3>1. \A m \in Int : r + 2 <= m => /\ Count(s, r + 3, m) \in Nat
                                          /\ Count(s, k, m) = r - k + 1 + Count(s, r + 3, m)
            BY <1>9, <1>11, <1>15, <2>1, CountNext
        <3>2. QED
            BY <1>11, <3>1
    <2>3. Len(s) \in r + 2 .. Len(s)
        BY <1>11, <2>1
    <2>4. /\ Count(s, r + 3, Len(s)) \in Nat
          /\ Count(s, k, Len(s)) = r - k + 1 + Count(s, r + 3, Len(s))
        BY <2>2, <2>3
    <2>5. room - (r - k) - 1 \in 0 .. cap /\ room - (r - k) - 1 >= Count(s, r + 3, Len(s))
          /\ ~(r - k > room) /\ ~(r > Len(s)) /\ r - k # room
        BY <1>7, <1>11, <1>15, <2>4
    <2>6. r + 3 \in 1 .. Len(s) + 1 /\ k < r + 3 /\ r + 3 \notin Escaped(s)
        BY <1>9, <1>11, <1>15
    <2>7. Unescaped(s, r + 3, v)
        BY <1>5, <2>5, <2>6 DEF P, v
    <2> DEFINE x == s[r + 1] \o s[r + 2]
               w == SubSeq(s, k, r - 1)
    <2>8. e = [ok |-> v.ok, out |-> w \o <<x>> \o v.out]
        BY <1>8, <1>9, <1>10, <1>15, <2>5, Zenon DEF UnescapeStep, r
    <2>9. x = ByteAt(s, r) /\ x \in Bytewise(s)
        <3>1. ByteAt(s, r) = x
            BY <1>9, <1>15, Zenon DEF ByteAt
        <3>2. r \in 1 .. Len(s)
            BY <1>11, <1>15
        <3> HIDE DEF x
        <3>3. QED
            BY <3>1, <3>2 DEF Bytewise
    <2>10. /\ w \in Seq(Bytewise(s)) /\ Len(w) = r - k /\ r - k \in Nat
           /\ \A j \in k .. r - 1 : w[j - k + 1] = s[j]
        BY <1>11, <1>13
    <2>11. v.ok = TRUE /\ v.out \in Seq(Bytewise(s)) /\ Len(v.out) = Count(s, r + 3, Len(s))
           /\ \A j \in r + 3 .. Len(s) : j \notin Escaped(s) =>
                   v.out[Count(s, r + 3, j)] = ByteAt(s, j)
        BY <2>7 DEF Unescaped
    <2> HIDE DEF x, w
    <2> DEFINE z == v.out
               o == w \o <<x>> \o z
    <2>12. /\ o \in Seq(Bytewise(s)) /\ Len(o) = r - k + 1 + Len(z)
           /\ \A i \in 1 .. r - k : o[i] = w[i]
           /\ o[r - k + 1] = x
           /\ \A i \in 1 .. Len(z) : o[r - k + 1 + i] = z[i]
        <3>1. z \in Seq(Bytewise(s))
            BY <2>11
        <3> HIDE DEF z
        <3>2. Around(Bytewise(s), o, w, x, z)
            BY <2>9, <2>10, <3>1, AroundOne DEF o
        <3> HIDE DEF o
        <3>3. QED
            BY <2>10, <3>2 DEF Around
    <2> HIDE DEF o, z
    <2>13. ASSUME NEW j \in k .. Len(s), j \notin Escaped(s) PROVE o[Count(s, k, j)] = ByteAt(s, j)
        <3>1. CASE j \in k .. r - 1
            BY <1>11, <1>12, <2>10, <2>12, <3>1
        <3>2. CASE j = r
            <4>1. Count(s, k, j) = r - k + 1
                BY <1>11, <2>1, <3>2, CountAll
            <4>2. QED
                BY <2>9, <2>12, <3>2, <4>1
        <3>3. CASE j = r + 1 \/ j = r + 2
            BY <1>9, <1>15, <2>13, <3>3
        <3>4. CASE j \in r + 3 .. Len(s)
            <4>1. /\ Count(s, r + 3, j) \in Nat
                  /\ Count(s, k, j) = r - k + 1 + Count(s, r + 3, j)
                BY <1>11, <2>2, <3>4
            <4>2. Count(s, r + 3, j) \in 1 .. Count(s, r + 3, Len(s))
                <5>1. /\ Count(s, r + 3, j - 1) \in Nat
                      /\ Count(s, (j - 1) + 1, j) \in Nat
                      /\ Count(s, r + 3, j) = Count(s, r + 3, j - 1) + Count(s, (j - 1) + 1, j)
                    BY <1>11, <3>4, CountJoins
                <5>2. Count(s, (j - 1) + 1, j) = 1
                    <6>1. (j - 1) + 1 = j /\ j \in Int /\ j - 1 <= j /\ j - j + 1 = 1
                          /\ \A i \in j .. j : i \notin Escaped(s)
                        BY <1>11, <2>13, <3>4
                    <6>2. Count(s, j, j) = j - j + 1
                        BY <6>1, CountAll
                    <6>3. QED
                        BY <6>1, <6>2
                <5>3. /\ Count(s, j + 1, Len(s)) \in Nat
                      /\ Count(s, r + 3, Len(s)) = Count(s, r + 3, j) + Count(s, j + 1, Len(s))
                    BY <1>11, <3>4, CountJoins
                <5>4. QED
                    BY <2>4, <4>1, <5>1, <5>2, <5>3
            <4>3. z[Count(s, r + 3, j)] = ByteAt(s, j)
                BY <2>11, <2>13, <3>4 DEF z
            <4>4. QED
                BY <2>11, <2>12, <4>1, <4>2, <4>3 DEF z
        <3>5. QED
            BY <1>11, <3>1, <3>2, <3>3, <3>4
    <2>14. e.ok = TRUE /\ e.out = o
        BY <2>8, <2>11 DEF o, z
    <2>15. Len(o) = Count(s, k, Len(s))
        BY <2>4, <2>11, <2>12 DEF z
    <2>16. QED
        BY <1>7, <2>12, <2>13, <2>14, <2>15 DEF Unescaped, e
<1>16. QED
    BY <1>11, <1>14, <1>15

\* A path that is unescaped has no byte that must be escaped and no "%" that starts no sequence.
LEMMA UnescapedIsFine ==
    ASSUME NEW s \in Seq(PathSymbol), NEW cap \in Nat, NEW f, Recursion(s, cap, f)
    PROVE  \A k \in 1 .. Len(s) + 1, room \in 0 .. cap : f[<<k, room>>].ok =>
               \A j \in k .. Len(s) : s[j] # "c" /\ (s[j] = "%" => EscapeAt(s, j))
<1> DEFINE P(k) == \A room \in 0 .. cap : f[<<k, room>>].ok =>
                      \A j \in k .. Len(s) : s[j] # "c" /\ (s[j] = "%" => EscapeAt(s, j))
           T == {k \in 1 .. Len(s) + 1 : ~P(k)}
<1>1. SUFFICES ASSUME T # {} PROVE FALSE
    <2>1. T = {} => \A k \in 1 .. Len(s) + 1 : P(k)
        BY Zenon
    <2> HIDE DEF T
    <2>2. QED
        BY <2>1, Zenon
<1>2. T \in SUBSET (1 .. Len(s) + 1) /\ Len(s) \in Nat /\ Len(s) + 1 \in Nat
    <2> HIDE DEF P
    <2> QED OBVIOUS
<1>3. PICK k \in T : \A y \in T : y <= k
    <2> HIDE DEF T
    <2> QED BY <1>1, <1>2, LastOf
<1>4. k \in 1 .. Len(s) + 1 /\ ~P(k) /\ k \in Nat
    <2> HIDE DEF P
    <2> QED OBVIOUS
<1>5. \A j \in 1 .. Len(s) + 1 : k < j => P(j)
    <2> HIDE DEF P
    <2> QED BY <1>2, <1>3, <1>4
<1> HIDE DEF T
<1>6. PICK room \in 0 .. cap : /\ f[<<k, room>>].ok
                              /\ ~\A j \in k .. Len(s) : s[j] # "c"
                                 /\ (s[j] = "%" => EscapeAt(s, j))
    BY <1>4, Zenon
<1> DEFINE r == Past(s, k, Plain)
           e == f[<<k, room>>]
           v == f[<<r + 3, room - (r - k) - 1>>]
<1>7. e = UnescapeStep(s, v, <<k, room>>) /\ e.ok
    BY <1>4, <1>6, Zenon DEF Recursion
<1>8. <<k, room>>[1] = k /\ <<k, room>>[2] = room
    OBVIOUS
<1> HIDE DEF P, e, v
<1>9. Leaves(s, k, Plain, r)
    BY <1>4, PastLeaves
<1> HIDE DEF r
<1>10. /\ r \in k .. Len(s) + 1 /\ \A j \in k .. r - 1 : s[j] \in Plain
    BY <1>9 DEF Leaves
<1>11. \A x \in Plain : x # "c" /\ x # "%"
    BY DEF Plain, Digits
<1>12. k \in Int /\ r \in Int /\ k <= r /\ Len(s) \in Int /\ 1 <= k /\ room \in Int /\ room <= cap
    BY <1>2, <1>4, <1>6, <1>10
<1>13. CASE r > Len(s)
    <2>1. \A j \in k .. Len(s) : j \in k .. r - 1
        BY <1>12, <1>13
    <2>2. QED
        BY <1>6, <1>10, <1>11, <2>1
<1>14. CASE r <= Len(s)
    <2>1. ~(r > Len(s))
        BY <1>12, <1>14
    <2>2. ~(r - k > room) /\ EscapeAt(s, r) /\ r - k # room
        <3>1. (r - k > room) \/ ~EscapeAt(s, r) \/ r - k = room =>
                  e = [ok |-> FALSE, out |-> <<>>]
            BY <1>7, <1>8, <2>1, Zenon DEF UnescapeStep, r
        <3>2. [ok |-> FALSE, out |-> <<>>].ok = FALSE
            OBVIOUS
        <3>3. QED
            BY <1>7, <3>1, <3>2, Zenon
    <2>3. e.ok = v.ok
        <3>1. e = [ok |-> v.ok,
                   out |-> SubSeq(s, k, r - 1) \o <<s[r + 1] \o s[r + 2]>> \o v.out]
            BY <1>7, <1>8, <2>1, <2>2, Zenon DEF UnescapeStep, r
        <3>2. QED
            BY <3>1
    <2>4. r + 2 <= Len(s) /\ s[r + 1] \in Plain /\ s[r + 2] \in Plain /\ s[r] = "%"
        BY <2>2 DEF EscapeAt, Plain
    <2>5. room - (r - k) - 1 \in 0 .. cap /\ r + 3 \in 1 .. Len(s) + 1 /\ k < r + 3
        BY <1>12, <2>2, <2>4
    <2>6. \A j \in r + 3 .. Len(s) : s[j] # "c" /\ (s[j] = "%" => EscapeAt(s, j))
        <3>1. P(r + 3)
            BY <1>5, <2>5
        <3>2. v.ok
            BY <1>7, <2>3
        <3>3. QED
            BY <2>5, <3>1, <3>2 DEF P, v
    <2>7. \A j \in k .. Len(s) : j \in k .. r - 1 \/ j = r \/ j = r + 1 \/ j = r + 2
                                 \/ j \in r + 3 .. Len(s)
        BY <1>12
    <2>8. "%" # "c"
        OBVIOUS
    <2>9. QED
        BY <1>6, <1>10, <1>11, <2>2, <2>4, <2>6, <2>7, <2>8
<1>15. QED
    BY <1>12, <1>13, <1>14

\* The room that the first pass counts.
LEMMA SizeIsNat ==
    ASSUME NEW A, NEW s \in Seq(A), NEW f,
           \A k \in 1 .. Len(s) + 3 : f[k] = SizeStep(s, f[Past(s, k, Plain) + 3], k)
    PROVE  \A k \in 1 .. Len(s) + 3 : f[k] \in Nat
<1> DEFINE T == {k \in 1 .. Len(s) + 3 : f[k] \notin Nat}
<1>1. SUFFICES ASSUME T # {} PROVE FALSE
    OBVIOUS
<1>2. T \in SUBSET (1 .. Len(s) + 3) /\ Len(s) \in Nat /\ Len(s) + 3 \in Nat
    OBVIOUS
<1>3. PICK k \in T : \A y \in T : y <= k
    <2> HIDE DEF T
    <2> QED BY <1>1, <1>2, LastOf
<1>4. k \in 1 .. Len(s) + 3 /\ f[k] \notin Nat
    OBVIOUS
<1>5. \A j \in 1 .. Len(s) + 3 : k < j => f[j] \in Nat
    BY <1>2, <1>3, <1>4
<1> HIDE DEF T
<1> DEFINE r == Past(s, k, Plain)
<1>6. f[k] = IF k > Len(s) THEN 0 ELSE IF r > Len(s) THEN r - k ELSE r - k + 1 + f[r + 3]
    BY <1>4 DEF SizeStep
<1>7. k <= Len(s) => r \in k .. Len(s) + 1
    <2>1. SUFFICES ASSUME k <= Len(s) PROVE r \in k .. Len(s) + 1
        OBVIOUS
    <2>2. k \in 1 .. Len(s) + 1
        BY <1>2, <1>4, <2>1
    <2>3. Leaves(s, k, Plain, r)
        BY <2>2, PastLeaves
    <2> HIDE DEF r
    <2>4. QED
        BY <2>3 DEF Leaves
<1> HIDE DEF r
<1>8. CASE k > Len(s)
    BY <1>4, <1>6, <1>8
<1>9. CASE k <= Len(s) /\ r > Len(s)
    BY <1>2, <1>4, <1>6, <1>7, <1>9
<1>10. CASE k <= Len(s) /\ r <= Len(s)
    <2>1. r + 3 \in 1 .. Len(s) + 3 /\ k < r + 3 /\ k \in Nat /\ r \in Nat /\ k <= r
        BY <1>2, <1>4, <1>7, <1>10
    <2>2. f[r + 3] \in Nat
        BY <1>5, <2>1
    <2>3. QED
        BY <1>2, <1>4, <1>6, <1>10, <2>1, <2>2
<1>11. QED
    BY <1>2, <1>4, <1>7, <1>8, <1>9, <1>10

\* httpurl_split takes the whole of such a text as its path.
LEMMA PathIsWhole ==
    ASSUME NEW s \in Seq(PathSymbol), s # <<>>, s[1] = "/"
    PROVE  UrlSplit(s).path = s
<1>1. PICK ret, a, p, q, t, h, z : UrlCuts(s, ret, a, p, q, t, h, z)
                                   /\ UrlSplit(s) = UrlRecord(ret, s, a, p, q, t, h, z)
    BY UrlSplitIs
<1>2. \A k \in 1 .. Len(s) : s[k] # "?" /\ s[k] # "#"
    <2>1. \A x \in PathSymbol : x # "?" /\ x # "#"
        BY DEF PathSymbol
    <2>2. \A k \in 1 .. Len(s) : s[k] \in PathSymbol
        OBVIOUS
    <2>3. QED
        BY <2>1, <2>2
<1>3. ret = 0 /\ q = 1
    BY <1>1 DEF UrlCuts
<1>4. Len(s) \in Nat /\ 0 # -1
    OBVIOUS
<1>5. z = Len(s) + 1 /\ t \in Int /\ h \in Int /\ 1 <= t /\ t <= h /\ h <= z
    BY <1>1, <1>3, <1>4 DEF UrlCuts
<1>6. ~(t < h)
    <2>1. t < h => s[t] = "?"
        BY <1>1 DEF UrlCuts
    <2>2. QED
        BY <1>2, <1>4, <1>5, <2>1
<1>7. ~(h < z)
    <2>1. h < z => s[h] = "#"
        BY <1>1 DEF UrlCuts
    <2>2. QED
        BY <1>2, <1>4, <1>5, <2>1
<1>8. t - 1 = Len(s)
    BY <1>4, <1>5, <1>6, <1>7
<1>9. UrlSplit(s).path = SubSeq(s, q, t - 1)
    <2>1. UrlRecord(ret, s, a, p, q, t, h, z).path = SubSeq(s, q, t - 1)
        BY DEF UrlRecord
    <2>2. QED
        BY <1>1, <2>1
<1>10. SubSeq(s, 1, Len(s)) = s
    OBVIOUS
<1>11. QED
    BY <1>3, <1>8, <1>9, <1>10

LEMMA PathsUnescaped ==
    ASSUME NEW s \in Seq(PathSymbol), s # <<>>, s[1] = "/"
    PROVE  PathFits(s, UnescapedPath(s))
<1> DEFINE cap == UnescapedSize(s)
           un == UrlUnescape(s, cap)
<1>1. Len(s) \in Nat /\ 1 \in 1 .. Len(s) + 1 /\ 1 \in 1 .. Len(s) + 3 /\ 1 <= Len(s)
      /\ DOMAIN s = 1 .. Len(s)
    OBVIOUS
<1>2. PICK g : cap = g[1] /\ \A k \in 1 .. Len(s) + 3 : g[k] =
             SizeStep(s, g[Past(s, k, Plain) + 3], k)
    BY SizeIs
<1>3. cap \in Nat
    <2>1. \A k \in 1 .. Len(s) + 3 : g[k] \in Nat
        BY <1>2, SizeIsNat
    <2>2. QED
        BY <1>1, <1>2, <2>1
<1>4. UnescapedPath(s) = IF un.ok /\ Len(un.out) > 0 THEN [code |-> 0, path |-> un.out]
                         ELSE [code |-> 400, path |-> <<>>]
    <2>1. UrlSplit(s).path = s
        BY PathIsWhole
    <2>2. QED
        BY <2>1, Zenon DEF UnescapedPath, Status
<1> HIDE DEF cap
<1>5. PICK f : un = f[<<1, cap>>] /\ Recursion(s, cap, f)
    BY <1>3, UnescapeIs, Zenon DEF Recursion
<1> HIDE DEF un
<1>6. cap \in 0 .. cap
    BY <1>3
<1>7. \A j \in Escaped(s) : \E i \in 1 .. Len(s) : s[i] = "%" /\ (j = i + 1 \/ j = i + 2)
    BY <1>1 DEF Escaped
<1>8. 1 \notin Escaped(s)
    BY <1>1, <1>7
<1>9. \A m : Cardinality(Left(s, m)) = Count(s, 1, m)
    BY Zenon DEF Left, Count
<1>10. ASSUME WellEscaped(s)
       PROVE  /\ UnescapedPath(s).code = 0
              /\ Len(UnescapedPath(s).path) = Cardinality(Left(s, Len(s)))
              /\ \A k \in Left(s, Len(s)) :
                     UnescapedPath(s).path[Cardinality(Left(s, k))] = ByteAt(s, k)
    <2>1. cap = Count(s, 1, Len(s))
        BY <1>1, <1>2, <1>8, <1>10, RoomNeeded
    <2>2. Unescaped(s, 1, un)
        <3>1. \A room \in 0 .. cap : room >= Count(s, 1, Len(s)) => Unescaped(s, 1, f[<<1, room>>])
            BY <1>1, <1>3, <1>5, <1>8, <1>10, WellUnescaped
        <3>2. cap >= Count(s, 1, Len(s))
            BY <1>3, <2>1
        <3>3. QED
            BY <1>5, <1>6, <3>1, <3>2
    <2>3. un.ok = TRUE /\ Len(un.out) = Count(s, 1, Len(s))
          /\ \A j \in 1 .. Len(s) : j \notin Escaped(s) => un.out[Count(s, 1, j)] = ByteAt(s, j)
        BY <2>2, Zenon DEF Unescaped
    <2>4. Count(s, 1, Len(s)) > 0
        <3>1. /\ Count(s, 1, 1) \in Nat /\ Count(s, 1 + 1, Len(s)) \in Nat
              /\ Count(s, 1, Len(s)) = Count(s, 1, 1) + Count(s, 1 + 1, Len(s))
            BY <1>1, CountJoins
        <3>2. Count(s, 1, 1) = 1
            <4>1. \A k \in 1 .. 1 : k \notin Escaped(s)
                BY <1>8
            <4>2. Count(s, 1, 1) = 1 - 1 + 1
                BY <4>1, CountAll
            <4>3. QED
                BY <4>2
        <3>3. QED
            BY <3>1, <3>2
    <2>5. UnescapedPath(s) = [code |-> 0, path |-> un.out]
        BY <1>4, <2>3, <2>4
    <2>6. \A k \in Left(s, Len(s)) : k \in 1 .. Len(s) /\ k \notin Escaped(s)
        BY DEF Left
    <2>7. \A k \in Left(s, Len(s)) : un.out[Cardinality(Left(s, k))] = ByteAt(s, k)
        BY <1>9, <2>3, <2>6, Zenon
    <2>8. UnescapedPath(s).code = 0 /\ UnescapedPath(s).path = un.out
        BY <2>5
    <2>9. QED
        BY <1>9, <2>3, <2>7, <2>8, Zenon
<1>11. ASSUME ~WellEscaped(s) PROVE UnescapedPath(s).code = 400
    <2>1. ASSUME un.ok PROVE FALSE
        <3>1. \A j \in 1 .. Len(s) : s[j] # "c" /\ (s[j] = "%" => EscapeAt(s, j))
            BY <1>1, <1>3, <1>5, <1>6, <2>1, UnescapedIsFine
        <3>2. "c" \notin ToSet(s)
            BY <1>1, <3>1 DEF ToSet
        <3>3. ASSUME NEW j \in Escaped(s) PROVE j \in DOMAIN s /\ s[j] \in Digits
            <4>1. PICK i \in 1 .. Len(s) : s[i] = "%" /\ (j = i + 1 \/ j = i + 2)
                BY <1>7
            <4>2. EscapeAt(s, i)
                BY <3>1, <4>1
            <4>3. i + 2 <= Len(s) /\ s[i + 1] \in Digits /\ s[i + 2] \in Digits
                BY <4>2 DEF EscapeAt
            <4>4. QED
                BY <1>1, <4>1, <4>3
        <3>4. QED
            BY <1>11, <3>2, <3>3 DEF WellEscaped
    <2>2. UnescapedPath(s) = [code |-> 400, path |-> <<>>]
        BY <1>4, <2>1, Zenon
    <2>3. QED
        BY <2>2
<1>12. QED
    BY <1>10, <1>11, Zenon DEF PathFits

(***************************************************************************)
(* A path of any length is unescaped in the room that the first pass over  *)
(* it has counted, and refused only for an escape sequence that is not one *)
(* or a byte that must be escaped.                                         *)
(***************************************************************************)
THEOREM PathsAlwaysUnescaped == Spec => []PathUnescaped
<1>1. SymbolsCome => PathUnescaped
    <2>1. SUFFICES ASSUME SymbolsCome, job = "path"
                   PROVE  PathFits(<<"/">> \o got, UnescapedPath(<<"/">> \o got))
        BY Zenon DEF PathUnescaped
    <2>2. "path" \in DOMAIN Symbols /\ Symbols["path"] \subseteq PathSymbol
        BY DEF Symbols, PathSymbol
    <2>3. got \in Seq(PathSymbol)
        <3>1. got \in Seq(Symbols["path"])
            BY <2>1, <2>2 DEF SymbolsCome
        <3>2. \A k \in 1 .. Len(got) : got[k] \in PathSymbol
            BY <2>2, <3>1
        <3>3. QED
            BY <3>1, <3>2
    <2> DEFINE s == <<"/">> \o got
    <2>4. s \in Seq(PathSymbol) /\ s # <<>> /\ s[1] = "/"
        <3>1. <<"/">> \in Seq(PathSymbol)
            <4>1. "/" \in PathSymbol
                BY DEF PathSymbol
            <4>2. \A S : \A y \in S : <<y>> \in Seq(S)
                OBVIOUS
            <4>3. QED
                BY <4>1, <4>2
        <3>2. QED
            BY <2>3, <3>1
    <2> HIDE DEF s
    <2>5. QED
        BY <2>4, PathsUnescaped, Zenon DEF s
<1>2. QED
    BY <1>1, SymbolsAlways, PTL

-----------------------------------------------------------------------------
(* Chunked data: httpchunked_parse reads byte by byte, so that calls on    *)
(* parts of the input make the machine of one call, which is All.          *)

ChunkSym == {"0", "1", "2", "d", "CR", "LF"}

\* A state of httpchunked_parse by its parts.
Chunk(st, last, size, ret, out) ==
    [st |-> st, last |-> last, size |-> size, ret |-> ret, out |-> out]
IsChunk(c) ==
    /\ c = Chunk(c.st, c.last, c.size, c.ret, c.out)
    /\ c.size \in Nat /\ c.ret \in Int /\ c.out \in Seq(ChunkSym)

\* Such a record with one field changed.
WithSt(c, v) == [c EXCEPT !.st = v]
WithRet(c, v) == [c EXCEPT !.ret = v]
WithOut(c, v) == [c EXCEPT !.out = v]

LEMMA FieldsSet ==
    ASSUME NEW st, NEW last, NEW size, NEW ret, NEW out, NEW v
    PROVE  /\ WithSt(Chunk(st, last, size, ret, out), v) = Chunk(v, last, size, ret, out)
           /\ WithRet(Chunk(st, last, size, ret, out), v) = Chunk(st, last, size, v, out)
           /\ WithOut(Chunk(st, last, size, ret, out), v) = Chunk(st, last, size, ret, v)
<1> DEFINE c == Chunk(st, last, size, ret, out)
<1>1. /\ c = Chunk(c.st, c.last, c.size, c.ret, c.out) /\ c.st = st /\ c.last = last
      /\ c.size = size /\ c.ret = ret /\ c.out = out
    BY DEF Chunk
<1> HIDE DEF c
<1>2. [c EXCEPT !.st = v] = Chunk(v, c.last, c.size, c.ret, c.out)
    BY <1>1 DEF Chunk
<1>3. [c EXCEPT !.ret = v] = Chunk(c.st, c.last, c.size, v, c.out)
    BY <1>1 DEF Chunk
<1>4. [c EXCEPT !.out = v] = Chunk(c.st, c.last, c.size, c.ret, v)
    BY <1>1 DEF Chunk
<1>5. QED
    BY <1>1, <1>2, <1>3, <1>4, Zenon DEF c, WithSt, WithRet, WithOut

LEMMA HexIs == DOMAIN Hex = {"0", "1", "2"} /\ \A h \in DOMAIN Hex : Hex[h] \in 0 .. 2
<1>1. DOMAIN Hex = {"0", "1", "2"}
    BY DEF Hex
<1>2. Hex["0"] = 0 /\ Hex["1"] = 1 /\ Hex["2"] = 2
    <2>1. \A h \in {"0", "1", "2"} : Hex[h] = CASE h = "0" -> 0 [] h = "1" -> 1 [] h = "2" -> 2
        BY Zenon DEF Hex
    <2>2. "0" # "1" /\ "0" # "2" /\ "1" # "2"
        OBVIOUS
    <2>3. QED
        BY <2>1, <2>2, Zenon
<1>3. QED
    BY <1>1, <1>2

\* What ChunkSymbol makes of such a state.
Turned(st, last, size, ret, out, ch) ==
    IF st \in {"SZ1", "SZ"} /\ ch \in DOMAIN Hex
    THEN IF size >= SizeLimit THEN Chunk(st, last, size, -2, out)
         ELSE Chunk("SZ", last, size * 16 + Hex[ch], ret, out)
    ELSE IF st = "SZ" /\ ch = "CR" THEN Chunk("SZ_CR", last \/ size = 0, size, ret, out)
    ELSE IF st = "SZ" /\ ch = "LF" THEN Chunk("DAT", last \/ size = 0, size, ret, out)
    ELSE IF st = "SZ_CR" /\ ch = "LF" THEN Chunk("DAT", last, size, ret, out)
    ELSE IF st = "DAT" /\ ch = "CR" THEN Chunk("DAT_CR", last, size, ret, out)
    ELSE IF st \in {"DAT", "DAT_CR"} /\ ch = "LF"
    THEN IF last THEN Chunk(st, last, size, -1, out) ELSE Chunk("SZ", last, size, ret, out)
    ELSE Chunk(st, last, size, -2, out)

LEMMA TurnedIs ==
    ASSUME NEW c, c = Chunk(c.st, c.last, c.size, c.ret, c.out), NEW ch
    PROVE  ChunkSymbol(c, ch) = Turned(c.st, c.last, c.size, c.ret, c.out, ch)
<1>1. \A r : [c EXCEPT !.ret = r] = Chunk(c.st, c.last, c.size, r, c.out)
    BY DEF Chunk
<1>2. \A t : [c EXCEPT !.st = t] = Chunk(t, c.last, c.size, c.ret, c.out)
    BY DEF Chunk
<1>3. \A t, n : [c EXCEPT !.size = c.size * 16 + n, !.st = t]
                   = Chunk(t, c.last, c.size * 16 + n, c.ret, c.out)
    <2>1. \A m : [c EXCEPT !.size = m] = Chunk(c.st, c.last, m, c.ret, c.out)
        BY DEF Chunk
    <2>2. \A t, m : WithSt(Chunk(c.st, c.last, m, c.ret, c.out), t) =
            Chunk(t, c.last, m, c.ret, c.out)
        BY FieldsSet
    <2>3. QED
        BY <2>1, <2>2, Zenon DEF WithSt
<1>4. \A t : [[c EXCEPT !.last = c.last \/ c.size = 0] EXCEPT !.st = t]
               = Chunk(t, c.last \/ c.size = 0, c.size, c.ret, c.out)
    <2>1. \A l : [c EXCEPT !.last = l] = Chunk(c.st, l, c.size, c.ret, c.out)
        BY DEF Chunk
    <2>2. \A t, l : WithSt(Chunk(c.st, l, c.size, c.ret, c.out), t) =
            Chunk(t, l, c.size, c.ret, c.out)
        BY FieldsSet
    <2>3. QED
        BY <2>1, <2>2, Zenon DEF WithSt
<1>5. QED
    BY <1>1, <1>2, <1>3, <1>4, Zenon DEF ChunkSymbol, Turned, Stop, ChunkEnd

LEMMA SymbolKeeps ==
    ASSUME NEW c, IsChunk(c), NEW ch
    PROVE  /\ IsChunk(ChunkSymbol(c, ch)) /\ ChunkSymbol(c, ch).out = c.out
           /\ ChunkSymbol(c, ch).ret \in {c.ret, -1, -2}
<1> DEFINE Is(d) == IsChunk(d) /\ d.out = c.out /\ d.ret \in {c.ret, -1, -2}
<1>1. \A st, last : \A size \in Nat : \A r \in {c.ret, -1, -2} : Is(Chunk(st, last, size, r, c.out))
    <2>1. c.ret \in Int /\ c.out \in Seq(ChunkSym)
        BY DEF IsChunk
    <2>2. QED
        BY <2>1 DEF IsChunk, Chunk
<1>2. c.size \in Nat
    BY DEF IsChunk
<1>3. \A h \in DOMAIN Hex : c.size * 16 + Hex[h] \in Nat
    BY <1>2, HexIs
<1> HIDE DEF Is
<1>4. Is(Turned(c.st, c.last, c.size, c.ret, c.out, ch))
    BY <1>1, <1>2, <1>3, Zenon DEF Turned
<1>5. ChunkSymbol(c, ch) = Turned(c.st, c.last, c.size, c.ret, c.out, ch)
    BY TurnedIs, Zenon DEF IsChunk
<1>6. QED
    BY <1>4, <1>5 DEF Is

\* The data before `c`'s.
Pre(o, c) == [c EXCEPT !.out = o \o @]

LEMMA PreIs ==
    ASSUME NEW st, NEW last, NEW size, NEW ret, NEW out, NEW o
    PROVE  Pre(o, Chunk(st, last, size, ret, out)) = Chunk(st, last, size, ret, o \o out)
<1>1. Chunk(st, last, size, ret, out).out = out
    BY DEF Chunk
<1>2. \A v : WithOut(Chunk(st, last, size, ret, out), v) = Chunk(st, last, size, ret, v)
    BY FieldsSet
<1>3. QED
    BY <1>1, <1>2, Zenon DEF Pre, WithOut

LEMMA PreSymbol ==
    ASSUME NEW c, c = Chunk(c.st, c.last, c.size, c.ret, c.out), NEW o, NEW ch
    PROVE  ChunkSymbol(Pre(o, c), ch) = Pre(o, ChunkSymbol(c, ch))
<1> DEFINE p == Chunk(c.st, c.last, c.size, c.ret, o \o c.out)
<1>1. Pre(o, c) = p
    <2>1. Pre(o, Chunk(c.st, c.last, c.size, c.ret, c.out)) = p
        BY PreIs
    <2>2. QED
        BY <2>1, Zenon
<1>2. /\ p = Chunk(p.st, p.last, p.size, p.ret, p.out) /\ p.st = c.st /\ p.last = c.last
      /\ p.size = c.size /\ p.ret = c.ret /\ p.out = o \o c.out
    BY DEF Chunk
<1> HIDE DEF p
<1>3. ChunkSymbol(p, ch) = Turned(c.st, c.last, c.size, c.ret, o \o c.out, ch)
    <2>1. ChunkSymbol(p, ch) = Turned(p.st, p.last, p.size, p.ret, p.out, ch)
        BY <1>2, TurnedIs, Zenon
    <2>2. QED
        BY <1>2, <2>1, Zenon
<1>4. ChunkSymbol(c, ch) = Turned(c.st, c.last, c.size, c.ret, c.out, ch)
    BY TurnedIs, Zenon
<1>5. \A st, last, size, ret : Pre(o, Chunk(st, last, size, ret, c.out))
                                 = Chunk(st, last, size, ret, o \o c.out)
    BY PreIs
<1>6. Pre(o, Turned(c.st, c.last, c.size, c.ret, c.out, ch))
        = Turned(c.st, c.last, c.size, c.ret, o \o c.out, ch)
    BY <1>5, Zenon DEF Turned
<1>7. QED
    BY <1>1, <1>3, <1>4, <1>6

\* Chunked data, byte by byte.
OneByte(ctx, c, x) ==
    IF c.ret # 0 THEN c
    ELSE IF c.st = "DAT" /\ c.size > 0 THEN Chunk(c.st, c.last, c.size - 1, c.ret, Append(c.out, x))
    ELSE ChunkSymbol(c, x)
ByByte == INSTANCE Unfolding WITH Op <- OneByte
All(c, in) == ByByte!Folded(0, c, in)

ChunkText == Seq(ChunkSym)

\* It starts with nothing, and goes on with each byte.
LEMMA AllNone ==
    ASSUME NEW c
    PROVE  All(c, <<>>) = c
BY ByByte!FoldedNone DEF All

LEMMA AllNext ==
    ASSUME NEW c, NEW in \in ChunkText
    PROVE  \A n \in 1 .. Len(in) :
              All(c, SubSeq(in, 1, n)) = OneByte(0, All(c, SubSeq(in, 1, n - 1)), in[n])
<1>1. \A n \in 1 .. Len(in) :
         ByByte!Folded(0, c, SubSeq(in, 1, n))
             = OneByte(0, ByByte!Folded(0, c, SubSeq(in, 1, n - 1)), in[n])
    BY ByByte!FoldedNext DEF ChunkText
<1>2. QED
    BY <1>1, Zenon DEF All

\* What holds of the start and is kept by each byte holds at each position.
LEMMA AllAlong ==
    ASSUME NEW c, NEW in \in ChunkText, NEW Q, All(c, <<>>) \in Q,
           \A n \in 1 .. Len(in) : All(c, SubSeq(in, 1, n - 1)) \in Q
                                   => All(c, SubSeq(in, 1, n)) \in Q
    PROVE  All(c, in) \in Q
<1> DEFINE S == {n \in 0 .. Len(in) : All(c, SubSeq(in, 1, n)) \in Q}
<1>1. Len(in) \in Nat /\ SubSeq(in, 1, 0) = <<>> /\ SubSeq(in, 1, Len(in)) = in
    BY DEF ChunkText
<1>2. 0 \in S
    <2>1. 0 \in 0 .. Len(in)
        BY <1>1
    <2>2. All(c, SubSeq(in, 1, 0)) \in Q
        BY <1>1, Zenon
    <2>3. QED
        BY <2>1, <2>2
<1>3. \A k \in 0 .. Len(in) - 1 : k \in S => k + 1 \in S
    <2>1. SUFFICES ASSUME NEW k \in 0 .. Len(in) - 1, k \in S PROVE k + 1 \in S
        OBVIOUS
    <2>2. k + 1 \in 1 .. Len(in) /\ (k + 1) - 1 = k /\ k + 1 \in 0 .. Len(in)
        BY <1>1
    <2>3. All(c, SubSeq(in, 1, k + 1)) \in Q
        BY <2>1, <2>2
    <2>4. QED
        BY <2>2, <2>3
<1> HIDE DEF S
<1>4. \A k \in 0 .. Len(in) : k \in S
    BY <1>1, <1>2, <1>3, ByByte!UpTo
<1>5. Len(in) \in S
    BY <1>1, <1>4
<1>6. QED
    BY <1>1, <1>5 DEF S

LEMMA AllBoth ==
    ASSUME NEW c, NEW d \in ChunkText, NEW e \in ChunkText
    PROVE  All(c, d \o e) = All(All(c, d), e)
BY ByByte!FoldedBoth DEF All, ChunkText

\* The states between two calls, or in one before there is data.
Ret == {0, -1, -2}

LEMMA OneKeeps ==
    ASSUME NEW c, IsChunk(c), NEW x \in ChunkSym
    PROVE  /\ IsChunk(OneByte(0, c, x))
           /\ c.ret \in Ret => OneByte(0, c, x).ret \in Ret
<1>1. CASE c.ret # 0
    BY <1>1 DEF OneByte
<1>2. CASE c.ret = 0 /\ c.st = "DAT" /\ c.size > 0
    <2>1. OneByte(0, c, x) = Chunk(c.st, c.last, c.size - 1, c.ret, Append(c.out, x))
        BY <1>2, Zenon DEF OneByte
    <2>2. c.size - 1 \in Nat /\ c.ret \in Int /\ Append(c.out, x) \in Seq(ChunkSym)
        BY <1>2 DEF IsChunk
    <2>3. \A st, last, size, ret, out :
             /\ Chunk(st, last, size, ret, out).st = st
                /\ Chunk(st, last, size, ret, out).last = last
             /\ Chunk(st, last, size, ret, out).size = size
             /\ Chunk(st, last, size, ret, out).ret = ret
                /\ Chunk(st, last, size, ret, out).out = out
        BY DEF Chunk
    <2> DEFINE d == Chunk(c.st, c.last, c.size - 1, c.ret, Append(c.out, x))
    <2>4. d = Chunk(d.st, d.last, d.size, d.ret, d.out) /\ d.size = c.size - 1 /\ d.ret = c.ret
          /\ d.out = Append(c.out, x)
        BY DEF Chunk
    <2> HIDE DEF d
    <2>5. IsChunk(d) /\ d.ret = c.ret
        BY <2>2, <2>4 DEF IsChunk
    <2>6. QED
        BY <2>1, <2>5 DEF d
<1>3. CASE c.ret = 0 /\ ~(c.st = "DAT" /\ c.size > 0)
    <2>1. OneByte(0, c, x) = ChunkSymbol(c, x)
        BY <1>3, Zenon DEF OneByte
    <2>2. IsChunk(ChunkSymbol(c, x)) /\ ChunkSymbol(c, x).ret \in {c.ret, -1, -2}
        BY SymbolKeeps
    <2>3. QED
        BY <1>3, <2>1, <2>2 DEF Ret
<1>4. QED
    BY <1>1, <1>2, <1>3

LEMMA AllKeeps ==
    ASSUME NEW c, IsChunk(c), c.ret \in Ret, NEW in \in ChunkText
    PROVE  IsChunk(All(c, in)) /\ All(c, in).ret \in Ret
<1> DEFINE V(n) == All(c, SubSeq(in, 1, n))
           Q == {v \in {V(n) : n \in 0 .. Len(in)} : IsChunk(v) /\ v.ret \in Ret}
<1>1. Len(in) \in Nat /\ SubSeq(in, 1, 0) = <<>> /\ SubSeq(in, 1, Len(in)) = in
      /\ \A n \in 1 .. Len(in) : in[n] \in ChunkSym
    BY DEF ChunkText
<1>2. All(c, <<>>) = V(0) /\ All(c, <<>>) = c
    BY <1>1, AllNone
<1>3. All(c, <<>>) \in Q
    <2>1. 0 \in 0 .. Len(in)
        BY <1>1
    <2> HIDE DEF V
    <2>2. QED
        BY <1>2, <2>1
<1>4. \A n \in 1 .. Len(in) : V(n - 1) \in Q => V(n) \in Q
    <2>1. SUFFICES ASSUME NEW n \in 1 .. Len(in), V(n - 1) \in Q PROVE V(n) \in Q
        OBVIOUS
    <2>2. V(n) = OneByte(0, V(n - 1), in[n])
        BY AllNext
    <2> HIDE DEF V
    <2>3. IsChunk(V(n - 1)) /\ V(n - 1).ret \in Ret
        BY <2>1
    <2>4. IsChunk(V(n)) /\ V(n).ret \in Ret
        BY <1>1, <2>2, <2>3, OneKeeps
    <2>5. n \in 0 .. Len(in)
        BY <1>1
    <2>6. QED
        BY <2>4, <2>5
<1> HIDE DEF Q
<1>5. All(c, in) \in Q
    BY <1>3, <1>4, AllAlong
<1>6. QED
    BY <1>5 DEF Q

\* A state that has ended stays.
LEMMA AllEnded ==
    ASSUME NEW c, c.ret # 0, NEW in \in ChunkText
    PROVE  All(c, in) = c
<1>1. All(c, <<>>) \in {c}
    BY AllNone
<1>2. \A n \in 1 .. Len(in) : All(c, SubSeq(in, 1, n - 1)) \in {c} => All(c, SubSeq(in, 1,
        n)) \in {c}
    <2>1. \A x : OneByte(0, c, x) = c
        BY DEF OneByte
    <2>2. \A n \in 1 .. Len(in) :
             All(c, SubSeq(in, 1, n)) = OneByte(0, All(c, SubSeq(in, 1, n - 1)), in[n])
        BY AllNext
    <2>3. QED
        BY <2>1, <2>2
<1>3. All(c, in) \in {c}
    BY <1>1, <1>2, AllAlong
<1>4. QED
    BY <1>3

LEMMA PreOne ==
    ASSUME NEW c, IsChunk(c), NEW o \in ChunkText, NEW x \in ChunkSym
    PROVE  OneByte(0, Pre(o, c), x) = Pre(o, OneByte(0, c, x))
<1> DEFINE p == Pre(o, c)
<1>1. p = Chunk(c.st, c.last, c.size, c.ret, o \o c.out)
    <2>1. Pre(o, Chunk(c.st, c.last, c.size, c.ret, c.out)) =
            Chunk(c.st, c.last, c.size, c.ret, o \o c.out)
        BY PreIs
    <2>2. QED
        BY <2>1, Zenon DEF IsChunk
<1>2. p.st = c.st /\ p.last = c.last /\ p.size = c.size /\ p.ret = c.ret /\ p.out = o \o c.out
    <2> HIDE DEF p
    <2> QED BY <1>1 DEF Chunk
<1>3. CASE c.ret # 0
    <2>1. OneByte(0, p, x) = p /\ OneByte(0, c, x) = c
        <3> HIDE DEF p
        <3> QED BY <1>2, <1>3, Zenon DEF OneByte
    <2>2. QED
        BY <2>1
<1>4. CASE c.ret = 0 /\ c.st = "DAT" /\ c.size > 0
    <2>1. OneByte(0, p, x) = Chunk(c.st, c.last, c.size - 1, c.ret, Append(o \o c.out, x))
        <3> HIDE DEF p
        <3> QED BY <1>2, <1>4, Zenon DEF OneByte
    <2>2. OneByte(0, c, x) = Chunk(c.st, c.last, c.size - 1, c.ret, Append(c.out, x))
        BY <1>4, Zenon DEF OneByte
    <2>3. Pre(o, OneByte(0, c, x)) = Chunk(c.st, c.last, c.size - 1, c.ret, o \o Append(c.out, x))
        BY <2>2, PreIs
    <2>4. o \o Append(c.out, x) = Append(o \o c.out, x)
        BY DEF IsChunk, ChunkText
    <2>5. QED
        BY <2>1, <2>3, <2>4, Zenon
<1>5. CASE c.ret = 0 /\ ~(c.st = "DAT" /\ c.size > 0)
    <2>1. OneByte(0, p, x) = ChunkSymbol(p, x) /\ OneByte(0, c, x) = ChunkSymbol(c, x)
        <3> HIDE DEF p
        <3> QED BY <1>2, <1>5, Zenon DEF OneByte
    <2>2. ChunkSymbol(p, x) = Pre(o, ChunkSymbol(c, x))
        BY PreSymbol DEF IsChunk
    <2>3. QED
        BY <2>1, <2>2, Zenon
<1>6. QED
    BY <1>3, <1>4, <1>5

\* What was read before stands before what is read.
LEMMA AllPre ==
    ASSUME NEW c, IsChunk(c), c.ret \in Ret, NEW o \in ChunkText, NEW in \in ChunkText
    PROVE  All(Pre(o, c), in) = Pre(o, All(c, in))
<1> DEFINE V(n) == All(c, SubSeq(in, 1, n))
           W(n) == All(Pre(o, c), SubSeq(in, 1, n))
           S == {n \in 0 .. Len(in) : W(n) = Pre(o, V(n))}
<1>1. Len(in) \in Nat /\ SubSeq(in, 1, 0) = <<>> /\ SubSeq(in, 1, Len(in)) = in
      /\ \A n \in 1 .. Len(in) : in[n] \in ChunkSym
    BY DEF ChunkText
<1>2. \A n \in 0 .. Len(in) : IsChunk(V(n))
    <2>1. \A n \in 0 .. Len(in) : SubSeq(in, 1, n) \in ChunkText
        BY DEF ChunkText
    <2>2. QED
        BY <2>1, AllKeeps
<1>3. W(0) = Pre(o, V(0))
    <2>1. W(0) = Pre(o, c) /\ V(0) = c
        BY <1>1, AllNone
    <2>2. QED
        BY <2>1
<1>4. \A n \in 1 .. Len(in) : V(n) = OneByte(0, V(n - 1), in[n])
        /\ W(n) = OneByte(0, W(n - 1), in[n])
    BY AllNext
<1> HIDE DEF V, W
<1>5. 0 \in S
    BY <1>1, <1>3
<1>6. \A k \in 0 .. Len(in) - 1 : k \in S => k + 1 \in S
    <2>1. SUFFICES ASSUME NEW k \in 0 .. Len(in) - 1, k \in S PROVE k + 1 \in S
        OBVIOUS
    <2>2. k + 1 \in 1 .. Len(in) /\ (k + 1) - 1 = k /\ k + 1 \in 0 .. Len(in) /\ k \in 0 .. Len(in)
        BY <1>1
    <2>3. V(k + 1) = OneByte(0, V(k), in[k + 1]) /\ W(k + 1) = OneByte(0, W(k), in[k + 1])
        BY <1>4, <2>2
    <2>4. W(k) = Pre(o, V(k))
        BY <2>1
    <2>5. OneByte(0, Pre(o, V(k)), in[k + 1]) = Pre(o, OneByte(0, V(k), in[k + 1]))
        BY <1>1, <1>2, <2>2, PreOne
    <2>6. QED
        BY <2>2, <2>3, <2>4, <2>5
<1> HIDE DEF S
<1>7. \A k \in 0 .. Len(in) : k \in S
    BY <1>1, <1>5, <1>6, ByByte!UpTo
<1>8. W(Len(in)) = Pre(o, V(Len(in)))
    <2>1. Len(in) \in S
        BY <1>1, <1>7
    <2>2. QED
        BY <2>1 DEF S
<1>9. QED
    BY <1>1, <1>8 DEF V, W

\* Data of a chunk that does not end with it.
LEMMA AllData ==
    ASSUME NEW c, IsChunk(c), c.ret = 0, c.st = "DAT", NEW in \in ChunkText, Len(in) <= c.size
    PROVE  All(c, in) = Chunk("DAT", c.last, c.size - Len(in), 0, c.out \o in)
<1> DEFINE V(n) == All(c, SubSeq(in, 1, n))
           D(n) == Chunk("DAT", c.last, c.size - n, 0, c.out \o SubSeq(in, 1, n))
           S == {n \in 0 .. Len(in) : V(n) = D(n)}
<1>1. Len(in) \in Nat /\ SubSeq(in, 1, 0) = <<>> /\ SubSeq(in, 1, Len(in)) = in /\ c.size \in Nat
      /\ c.out \in ChunkText /\ c.out \o <<>> = c.out
    BY DEF ChunkText, IsChunk
<1>2. V(0) = D(0)
    <2>1. V(0) = c
        BY <1>1, AllNone, Zenon
    <2>2. c.size - 0 = c.size
        BY <1>1
    <2>3. D(0) = Chunk(c.st, c.last, c.size, c.ret, c.out)
        BY <1>1, <2>2, Zenon
    <2>4. QED
        BY <2>1, <2>3, Zenon DEF IsChunk
<1>3. \A n \in 1 .. Len(in) : V(n) = OneByte(0, V(n - 1), in[n])
    <2>1. \A n \in 1 .. Len(in) :
             All(c, SubSeq(in, 1, n)) = OneByte(0, All(c, SubSeq(in, 1, n - 1)), in[n])
        BY AllNext
    <2>2. QED
        BY <2>1, Zenon
<1>4. \A n \in 0 .. Len(in) : /\ D(n).st = "DAT" /\ D(n).last = c.last /\ D(n).size = c.size - n
                              /\ D(n).ret = 0 /\ D(n).out = c.out \o SubSeq(in, 1, n)
    BY DEF Chunk
<1>5. \A k \in 0 .. Len(in) - 1 : OneByte(0, D(k), in[k + 1]) = D(k + 1)
    <2>1. SUFFICES ASSUME NEW k \in 0 .. Len(in) - 1 PROVE OneByte(0, D(k), in[k + 1]) = D(k + 1)
        OBVIOUS
    <2>2. k \in 0 .. Len(in) /\ c.size - k > 0 /\ c.size - k - 1 = c.size - (k + 1)
        BY <1>1
    <2>3. Append(c.out \o SubSeq(in, 1, k), in[k + 1]) = c.out \o SubSeq(in, 1, k + 1)
        <3>1. SubSeq(in, 1, k + 1) = Append(SubSeq(in, 1, k), in[k + 1])
              /\ SubSeq(in, 1, k) \in ChunkText /\ in[k + 1] \in ChunkSym
            BY <1>1 DEF ChunkText
        <3>2. \A x, y \in Seq(ChunkSym) : \A z \in ChunkSym : Append(x \o y, z) = x \o Append(y, z)
            OBVIOUS
        <3> DEFINE y == SubSeq(in, 1, k)
                   z == in[k + 1]
        <3>3. y \in Seq(ChunkSym) /\ z \in ChunkSym /\ SubSeq(in, 1, k + 1) = Append(y, z)
            BY <3>1 DEF ChunkText
        <3> HIDE DEF y, z
        <3>4. Append(c.out \o y, z) = c.out \o Append(y, z)
            BY <1>1, <3>2, <3>3 DEF ChunkText
        <3>5. QED
            BY <3>3, <3>4, Zenon DEF y, z
    <2> DEFINE d == D(k)
    <2>4. d.st = "DAT" /\ d.last = c.last /\ d.size = c.size - k /\ d.ret = 0
          /\ d.out = c.out \o SubSeq(in, 1, k)
        BY <1>4, <2>2
    <2> HIDE DEF d
    <2>5. OneByte(0, d, in[k + 1]) =
            Chunk("DAT", c.last, c.size - k - 1, 0, Append(d.out, in[k + 1]))
        BY <2>2, <2>4, Zenon DEF OneByte
    <2>6. QED
        BY <2>2, <2>3, <2>4, <2>5, Zenon DEF d
<1> HIDE DEF V, D
<1>6. 0 \in S
    BY <1>1, <1>2
<1>7. \A k \in 0 .. Len(in) - 1 : k \in S => k + 1 \in S
    <2>1. SUFFICES ASSUME NEW k \in 0 .. Len(in) - 1, k \in S PROVE k + 1 \in S
        OBVIOUS
    <2>2. k + 1 \in 1 .. Len(in) /\ (k + 1) - 1 = k /\ k + 1 \in 0 .. Len(in)
        BY <1>1
    <2>3. V(k + 1) = OneByte(0, V(k), in[k + 1])
        BY <1>3, <2>2
    <2>4. QED
        BY <1>5, <2>1, <2>2, <2>3
<1> HIDE DEF S
<1>8. \A k \in 0 .. Len(in) : k \in S
    BY <1>1, <1>6, <1>7, ByByte!UpTo
<1>9. V(Len(in)) = D(Len(in))
    <2>1. Len(in) \in S
        BY <1>1, <1>8
    <2>2. QED
        BY <2>1 DEF S
<1>10. QED
    BY <1>1, <1>9, Zenon DEF V, D

LEMMA ChunkDataIs ==
    ASSUME NEW c, c = Chunk(c.st, c.last, c.size, c.ret, c.out), NEW in, NEW k, NEW n,
           n = IF c.size < Len(in) - k + 1 THEN c.size ELSE Len(in) - k + 1
    PROVE  ChunkData(c, in, k) = Chunk(c.st, c.last, c.size - n, k - 1 + n, SubSeq(in, k,
            k + n - 1))
<1>1. [c EXCEPT !.size = c.size - n] = Chunk(c.st, c.last, c.size - n, c.ret, c.out)
    BY DEF Chunk
<1>2. \A v, ret : WithRet(Chunk(c.st, c.last, c.size - n, ret, c.out), v)
                    = Chunk(c.st, c.last, c.size - n, v, c.out)
    BY FieldsSet
<1>3. \A v, ret : WithOut(Chunk(c.st, c.last, c.size - n, ret, c.out), v)
                    = Chunk(c.st, c.last, c.size - n, ret, v)
    BY FieldsSet
<1>4. ChunkData(c, in, k) =
        [[[c EXCEPT !.size = c.size - n] EXCEPT !.ret = k - 1 + n] EXCEPT !.out = SubSeq(in, k,
          k + n - 1)]
    BY Zenon DEF ChunkData
<1> DEFINE d == Chunk(c.st, c.last, c.size - n, c.ret, c.out)
           o == SubSeq(in, k, k + n - 1)
<1>5. ChunkData(c, in, k) = WithOut(WithRet(d, k - 1 + n), o)
    BY <1>1, <1>4, Zenon DEF WithRet, WithOut
<1> HIDE DEF o
<1>6. WithRet(d, k - 1 + n) = Chunk(c.st, c.last, c.size - n, k - 1 + n, c.out)
    BY <1>2
<1>7. WithOut(Chunk(c.st, c.last, c.size - n, k - 1 + n, c.out), o)
        = Chunk(c.st, c.last, c.size - n, k - 1 + n, o)
    BY <1>3
<1> HIDE DEF d
<1>8. QED
    BY <1>5, <1>6, <1>7, Zenon DEF o

\* The start of a call, and what stands between two.
Fresh(c) == Chunk(c.st, c.last, c.size, 0, <<>>)
Going(c) == Chunk(c.st, c.last, c.size, 0, c.out)

ByteStep(in, c, k) == ChunkByte(c, in, k)
Rounds == INSTANCE Unfolding WITH Op <- ByteStep

LEMMA CallSteps ==
    ASSUME NEW c, IsChunk(c), NEW in \in ChunkText
    PROVE  \E acc : /\ acc[0] = Fresh(c)
                    /\ \A k \in 1 .. Len(in) : acc[k] = ChunkByte(acc[k - 1], in, k)
                    /\ ChunkedParse(c, in) =
                          IF acc[Len(in)].ret = 0 THEN Stop(acc[Len(in)], Len(in)) ELSE acc[Len(in)]
<1> DEFINE b == [c EXCEPT !.ret = 0, !.out = <<>>]
           e == Rounds!FoldedAt(in, b, in)
<1>1. b = Fresh(c)
    <2>1. [c EXCEPT !.ret = 0] = Chunk(c.st, c.last, c.size, 0, c.out)
        BY DEF Chunk, IsChunk
    <2>2. WithOut(Chunk(c.st, c.last, c.size, 0, c.out), <<>>) =
            Chunk(c.st, c.last, c.size, 0, <<>>)
        BY FieldsSet
    <2>3. QED
        BY <2>1, <2>2, Zenon DEF WithOut, Fresh
<1>2. FoldLeftDomain(LAMBDA p, k : ChunkByte(p, in, k), b, in) = e
    BY Zenon DEF Rounds!FoldedAt, ByteStep, FoldLeftDomain, FoldLeft, MapThenFoldSet,
        Rounds!FoldLeftDomain, Rounds!FoldLeft, Rounds!MapThenFoldSet, Max, Rounds!Max
<1>3. ChunkedParse(c, in) = IF e.ret = 0 THEN Stop(e, Len(in)) ELSE e
    BY <1>2, Zenon DEF ChunkedParse
<1>4. Len(in) \in Nat /\ DOMAIN in = 1 .. Len(in)
    BY DEF ChunkText
<1> HIDE DEF b
<1>5. PICK acc : /\ acc[0] = b
                 /\ \A k \in 1 .. Len(in) : acc[k] = ByteStep(in, acc[k - 1], k)
                 /\ e = acc[Len(in)]
    <2>1. \A n \in Nat : DOMAIN in = 1 .. n =>
             \E acc : /\ acc[0] = b
                      /\ \A k \in 1 .. n : acc[k] = ByteStep(in, acc[k - 1], k)
                      /\ e = acc[n]
        BY Rounds!StepsOfDomain
    <2> HIDE DEF e
    <2>2. QED
        BY <1>4, <2>1
<1> HIDE DEF e
<1>6. QED
    BY <1>1, <1>3, <1>5, Zenon DEF ByteStep

LEMMA AllPart ==
    ASSUME NEW c, NEW in \in ChunkText, NEW k \in 0 .. Len(in), NEW m \in k .. Len(in)
    PROVE  All(c, SubSeq(in, 1, m)) = All(All(c, SubSeq(in, 1, k)), SubSeq(in, k + 1, m))
<1>1. SubSeq(in, 1, k) \in ChunkText /\ SubSeq(in, k + 1, m) \in ChunkText
    BY DEF ChunkText
<1>2. SubSeq(in, 1, k) \o SubSeq(in, k + 1, m) = SubSeq(in, 1, m)
    <2>1. 1 \in 1 .. Len(in) + 1 /\ k \in 1 - 1 .. Len(in)
        BY DEF ChunkText
    <2>2. QED
        BY <2>1, PartsJoin DEF ChunkText
<1> DEFINE x == SubSeq(in, 1, k)
           y == SubSeq(in, k + 1, m)
<1> HIDE DEF x, y
<1>3. All(c, x \o y) = All(All(c, x), y)
    BY <1>1, AllBoth DEF x, y
<1>4. QED
    BY <1>2, <1>3, Zenon DEF x, y

\* After `k` rounds of a call: nothing has ended it, or the end or an error has, or it has
\* come to data.
Round(a, base, in, k) ==
    \/ a.ret = 0 /\ a.out = <<>> /\ a = All(base, SubSeq(in, 1, k))
    \/ a.ret \in {-1, -2} /\ a = All(base, in)
    \/ a.ret \in 1 .. Len(in) /\ Going(a) = All(base, SubSeq(in, 1, a.ret))

LEMMA RoundNext ==
    ASSUME NEW base, IsChunk(base), base.ret = 0, NEW in \in ChunkText, NEW k \in 1 .. Len(in),
           NEW a, IsChunk(a), Round(a, base, in, k - 1), NEW b, b = ChunkByte(a, in, k)
    PROVE  IsChunk(b) /\ Round(b, base, in, k)
<1>1. Len(in) \in Nat /\ SubSeq(in, 1, Len(in)) = in /\ in[k] \in ChunkSym
      /\ k - 1 \in 0 .. Len(in) /\ k \in 0 .. Len(in) /\ (k - 1) + 1 = k /\ k \in Int
      /\ Len(in) \in k .. Len(in)
    BY DEF ChunkText
<1>2. CASE a.ret # 0
    <2>1. b = a
        BY <1>2 DEF ChunkByte
    <2>2. QED
        BY <1>2, <2>1 DEF Round
<1>3. CASE a.ret = 0
    <2>1. a = All(base, SubSeq(in, 1, k - 1)) /\ a.out = <<>>
        BY <1>1, <1>3 DEF Round
    <2>2. CASE a.st = "DAT" /\ a.size > 0
        <3> DEFINE n == IF a.size < Len(in) - k + 1 THEN a.size ELSE Len(in) - k + 1
                   m == k - 1 + n
                   o == SubSeq(in, k, k + n - 1)
        <3>1. n = IF a.size < Len(in) - k + 1 THEN a.size ELSE Len(in) - k + 1
            OBVIOUS
        <3> HIDE DEF n
        <3>2. a.size \in Nat /\ n \in Int /\ 1 <= n /\ n <= a.size /\ k + n - 1 <= Len(in)
            <4>1. a.size \in Nat
                BY DEF IsChunk
            <4>2. QED
                BY <1>1, <2>2, <3>1, <4>1
        <3>3. m \in 1 .. Len(in) /\ m \in k - 1 .. Len(in) /\ k + n - 1 = m /\ m - k + 1 = n
              /\ a.size - n \in Nat /\ m \in Int
            BY <1>1, <3>2
        <3>4. b = Chunk(a.st, a.last, a.size - n, m, o)
            <4>1. b = ChunkData(a, in, k)
                BY <1>3, <2>2, Zenon DEF ChunkByte
            <4>2. a = Chunk(a.st, a.last, a.size, a.ret, a.out)
                BY DEF IsChunk
            <4>3. ChunkData(a, in, k) = Chunk(a.st, a.last, a.size - n, k - 1 + n, SubSeq(in, k,
                    k + n - 1))
                BY <3>1, <4>2, ChunkDataIs
            <4>4. QED
                BY <4>1, <4>3, Zenon
        <3>5. o \in ChunkText /\ Len(o) = n /\ o = SubSeq(in, k, m) /\ <<>> \o o = o
            BY <1>1, <3>2, <3>3 DEF ChunkText
        <3> HIDE DEF o, m
        <3>6. /\ b = Chunk(b.st, b.last, b.size, b.ret, b.out) /\ b.st = a.st /\ b.last = a.last
              /\ b.size = a.size - n /\ b.ret = m /\ b.out = o
            BY <3>4 DEF Chunk
        <3>7. IsChunk(b)
            BY <3>3, <3>5, <3>6 DEF IsChunk, ChunkText
        <3>8. All(base, SubSeq(in, 1, m)) = All(a, o)
            <4> DEFINE j == k - 1
            <4>1. j \in 0 .. Len(in) /\ m \in j .. Len(in) /\ j + 1 = k
                BY <1>1, <3>3
            <4> HIDE DEF j
            <4>2. All(base, SubSeq(in, 1, m)) =
                    All(All(base, SubSeq(in, 1, j)), SubSeq(in, j + 1, m))
                BY <4>1, AllPart
            <4>3. a = All(base, SubSeq(in, 1, j))
                BY <2>1 DEF j
            <4>4. QED
                BY <3>5, <4>1, <4>2, <4>3, Zenon
        <3>9. All(a, o) = Chunk("DAT", a.last, a.size - Len(o), 0, a.out \o o)
            <4>1. Len(o) <= a.size
                BY <3>2, <3>5
            <4>2. QED
                BY <1>3, <2>2, <3>5, <4>1, AllData, Zenon
        <3>10. Going(b) = All(base, SubSeq(in, 1, m))
            <4>1. a.out \o o = o /\ a.size - Len(o) = a.size - n
                BY <2>1, <3>5, Zenon
            <4>2. Going(b) = Chunk("DAT", a.last, a.size - n, 0, o)
                BY <2>2, <3>6, Zenon DEF Going
            <4>3. All(a, o) = Chunk("DAT", a.last, a.size - n, 0, o)
                BY <3>9, <4>1, Zenon
            <4>4. QED
                BY <3>8, <4>2, <4>3, Zenon
        <3>11. QED
            BY <3>3, <3>6, <3>7, <3>10 DEF Round
    <2>3. CASE ~(a.st = "DAT" /\ a.size > 0)
        <3>1. b = ChunkSymbol(a, in[k]) /\ b = OneByte(0, a, in[k])
            BY <1>3, <2>3, Zenon DEF ChunkByte, OneByte
        <3>2. IsChunk(b) /\ b.out = <<>> /\ b.ret \in {0, -1, -2}
            BY <1>3, <2>1, <3>1, SymbolKeeps
        <3>3. b = All(base, SubSeq(in, 1, k))
            <4>1. All(base, SubSeq(in, 1, k)) = OneByte(0, All(base, SubSeq(in, 1, k - 1)), in[k])
                BY AllNext
            <4>2. QED
                BY <2>1, <3>1, <4>1, Zenon
        <3>4. ASSUME b.ret # 0 PROVE b = All(base, in)
            <4> DEFINE l == Len(in)
            <4>1. l \in k .. Len(in)
                BY <1>1
            <4> HIDE DEF l
            <4>2. All(base, SubSeq(in, 1, l)) =
                    All(All(base, SubSeq(in, 1, k)), SubSeq(in, k + 1, l))
                BY <1>1, <4>1, AllPart
            <4>3. SubSeq(in, k + 1, l) \in ChunkText
                BY <1>1, <4>1 DEF ChunkText
            <4>4. All(b, SubSeq(in, k + 1, l)) = b
                BY <3>4, <4>3, AllEnded
            <4>5. QED
                BY <1>1, <3>3, <4>2, <4>4, Zenon DEF l
        <3>5. QED
            BY <3>2, <3>3, <3>4 DEF Round
    <2>4. QED
        BY <2>2, <2>3
<1>4. QED
    BY <1>2, <1>3

\* A call reads as the byte-by-byte machine does: to the end or to an error, or a part.
LEMMA CallIs ==
    ASSUME NEW c, IsChunk(c), NEW in \in ChunkText, in # <<>>, NEW r, r = ChunkedParse(c, in)
    PROVE  /\ IsChunk(r)
           /\ \/ r.ret \in {-1, -2} /\ r = All(Fresh(c), in)
              \/ r.ret \in 1 .. Len(in) /\ Going(r) = All(Fresh(c), SubSeq(in, 1, r.ret))
<1> DEFINE base == Fresh(c)
           n == Len(in)
<1>1. PICK acc : /\ acc[0] = base
                 /\ \A k \in 1 .. n : acc[k] = ChunkByte(acc[k - 1], in, k)
                 /\ r = IF acc[n].ret = 0 THEN Stop(acc[n], n) ELSE acc[n]
    BY CallSteps
<1>2. n \in Nat /\ n >= 1 /\ SubSeq(in, 1, 0) = <<>> /\ SubSeq(in, 1, n) = in
    BY DEF ChunkText
<1>3. IsChunk(base) /\ base.ret = 0 /\ base.out = <<>>
    <2>1. /\ base = Chunk(base.st, base.last, base.size, base.ret, base.out)
          /\ base.size = c.size /\ base.ret = 0 /\ base.out = <<>>
        <3>1. base = Chunk(c.st, c.last, c.size, 0, <<>>)
            BY DEF Fresh
        <3> HIDE DEF base
        <3>2. QED
            BY <3>1 DEF Chunk
    <2> HIDE DEF base
    <2>2. QED
        BY <2>1 DEF IsChunk
<1> HIDE DEF base, n
<1> DEFINE S == {k \in 0 .. n : IsChunk(acc[k]) /\ Round(acc[k], base, in, k)}
<1>4. 0 \in S
    <2>1. All(base, SubSeq(in, 1, 0)) = base
        BY <1>2, AllNone, Zenon
    <2>2. Round(acc[0], base, in, 0)
        BY <1>1, <1>3, <2>1 DEF Round
    <2>3. QED
        BY <1>1, <1>2, <1>3, <2>2
<1>5. \A k \in 0 .. n - 1 : k \in S => k + 1 \in S
    <2>1. SUFFICES ASSUME NEW k \in 0 .. n - 1, k \in S PROVE k + 1 \in S
        OBVIOUS
    <2>2. k + 1 \in 0 .. n /\ k + 1 \in 1 .. n /\ (k + 1) - 1 = k /\ k \in 0 .. Len(in) - 1
        BY <1>2 DEF n
    <2> DEFINE m == k + 1
    <2>3. m \in 1 .. Len(in) /\ m - 1 = k
        BY <2>2 DEF n
    <2> HIDE DEF m
    <2>4. acc[m] = ChunkByte(acc[m - 1], in, m)
        BY <1>1, <2>3 DEF n
    <2>5. IsChunk(acc[m - 1]) /\ Round(acc[m - 1], base, in, m - 1)
        BY <2>1, <2>3
    <2>6. IsChunk(acc[m]) /\ Round(acc[m], base, in, m)
        BY <1>3, <2>3, <2>4, <2>5, RoundNext
    <2>7. QED
        BY <2>2, <2>6 DEF m
<1> HIDE DEF S
<1>6. \A k \in 0 .. n : k \in S
    BY <1>2, <1>4, <1>5, ByByte!UpTo
<1> DEFINE e == acc[n]
<1>7. IsChunk(e) /\ Round(e, base, in, n)
    <2>1. n \in S
        BY <1>2, <1>6
    <2>2. QED
        BY <2>1 DEF S
<1>8. r = IF e.ret = 0 THEN Stop(e, n) ELSE e
    BY <1>1
<1> HIDE DEF e
<1>9. CASE e.ret = 0
    <2>1. r = Chunk(e.st, e.last, e.size, n, e.out)
        <3>1. WithRet(Chunk(e.st, e.last, e.size, e.ret, e.out), n) =
                Chunk(e.st, e.last, e.size, n, e.out)
            BY FieldsSet
        <3>2. e = Chunk(e.st, e.last, e.size, e.ret, e.out)
            BY <1>7 DEF IsChunk
        <3>3. r = Stop(e, n)
            BY <1>8, <1>9
        <3>4. QED
            BY <3>1, <3>2, <3>3, Zenon DEF Stop, WithRet
    <2>2. /\ r = Chunk(r.st, r.last, r.size, r.ret, r.out) /\ r.st = e.st /\ r.last = e.last
          /\ r.size = e.size /\ r.ret = n /\ r.out = e.out
        BY <2>1 DEF Chunk
    <2>3. IsChunk(r)
        BY <1>2, <1>7, <2>2 DEF IsChunk
    <2>4. e = All(base, SubSeq(in, 1, n))
        BY <1>2, <1>7, <1>9 DEF Round
    <2>5. Going(r) = e
        BY <1>7, <1>9, <2>2, Zenon DEF Going, IsChunk
    <2>6. r.ret \in 1 .. Len(in)
        BY <1>2, <2>2 DEF n
    <2>7. QED
        BY <2>2, <2>3, <2>4, <2>5, <2>6 DEF base
<1>10. CASE e.ret # 0
    <2>1. r = e
        BY <1>8, <1>10
    <2>2. QED
        BY <1>7, <1>10, <2>1 DEF Round, base
<1>11. QED
    BY <1>9, <1>10

FeedStep(in, f, k) == FeedCall(in, f, k)
Calls == INSTANCE Unfolding WITH Op <- FeedStep

\* The start of Feed.
Emptied(c) == Chunk(c.st, c.last, c.size, c.ret, <<>>)

LEMMA EmptiedIs ==
    ASSUME NEW c, IsChunk(c)
    PROVE  [c EXCEPT !.out = <<>>] = Emptied(c) /\ IsChunk(Emptied(c)) /\ Emptied(c).ret = c.ret
<1>1. [c EXCEPT !.out = <<>>] = Emptied(c)
    BY DEF IsChunk, Chunk, Emptied
<1> DEFINE e == Emptied(c)
<1>2. /\ e = Chunk(e.st, e.last, e.size, e.ret, e.out) /\ e.size = c.size /\ e.ret = c.ret
      /\ e.out = <<>>
    BY DEF Emptied, Chunk
<1> HIDE DEF e
<1>3. IsChunk(e)
    BY <1>2 DEF IsChunk
<1>4. QED
    BY <1>1, <1>2, <1>3 DEF e

\* The calls of Feed, and what it makes of the last one.
FeedsAs(c, in, f) ==
    /\ f[0] = [c |-> Emptied(c), at |-> 1]
    /\ \A k \in 1 .. Len(in) : f[k] = FeedCall(in, f[k - 1], k)
    /\ Feed(c, in) = [f[Len(in)].c EXCEPT !.ret = IF @ < 0 THEN @ ELSE 0]

LEMMA FeedSteps ==
    ASSUME NEW c, IsChunk(c), NEW in \in ChunkText
    PROVE  \E f : FeedsAs(c, in, f)
<1> DEFINE b == [c |-> [c EXCEPT !.out = <<>>], at |-> 1]
           e == Calls!FoldedAt(in, b, in)
<1>1. b = [c |-> Emptied(c), at |-> 1]
    BY EmptiedIs, Zenon
<1>2. FoldLeftDomain(LAMBDA g, k : FeedCall(in, g, k), b, in) = e
    BY Zenon DEF Calls!FoldedAt, FeedStep, FoldLeftDomain, FoldLeft, MapThenFoldSet,
        Calls!FoldLeftDomain, Calls!FoldLeft, Calls!MapThenFoldSet, Max, Calls!Max
<1>3. Feed(c, in) = [e.c EXCEPT !.ret = IF @ < 0 THEN @ ELSE 0]
    BY <1>2, Zenon DEF Feed
<1>4. Len(in) \in Nat /\ DOMAIN in = 1 .. Len(in)
    BY DEF ChunkText
<1> HIDE DEF b
<1>5. PICK f : /\ f[0] = b
               /\ \A k \in 1 .. Len(in) : f[k] = FeedStep(in, f[k - 1], k)
               /\ e = f[Len(in)]
    <2>1. \A n \in Nat : DOMAIN in = 1 .. n =>
             \E acc : /\ acc[0] = b
                      /\ \A k \in 1 .. n : acc[k] = FeedStep(in, acc[k - 1], k)
                      /\ e = acc[n]
        BY Calls!StepsOfDomain
    <2> HIDE DEF e
    <2>2. QED
        BY <1>4, <2>1
<1> HIDE DEF e
<1>6. QED
    BY <1>1, <1>3, <1>5, Zenon DEF FeedStep, FeedsAs

LEMMA PartIs ==
    ASSUME NEW s \in ChunkText, NEW x \in Int, NEW y \in Int, 1 <= x, x <= y + 1, y <= Len(s)
    PROVE  /\ SubSeq(s, x, y) \in ChunkText /\ Len(SubSeq(s, x, y)) = y - x + 1
           /\ \A i \in 1 .. y - x + 1 : SubSeq(s, x, y)[i] = s[i + x - 1]
<1>1. s \in Seq(ChunkSym)
    BY DEF ChunkText
<1>2. QED
    BY <1>1 DEF ChunkText

\* After `k` calls: it has ended, or more than `k` symbols are read.
Fed(f, base, in, k) ==
    /\ IsChunk(f.c) /\ f.at \in 1 .. Len(in) + 1
    /\ \/ f.c.ret \in {-1, -2} /\ f.c = All(base, in)
       \/ /\ f.c.ret \in Nat /\ f.at > k
          /\ Going(f.c) = All(base, SubSeq(in, 1, f.at - 1))

LEMMA FedNext ==
    ASSUME NEW base, IsChunk(base), base.ret \in Ret, NEW in \in ChunkText, NEW k \in 1 .. Len(in),
           NEW f, Fed(f, base, in, k - 1), NEW g, g = FeedCall(in, f, k)
    PROVE  Fed(g, base, in, k)
<1>1. Len(in) \in Nat /\ SubSeq(in, 1, Len(in)) = in /\ k \in Int /\ 1 <= k /\ k <= Len(in)
      /\ IsChunk(f.c) /\ f.at \in 1 .. Len(in) + 1
    BY DEF ChunkText, Fed
<1>2. CASE f.c.ret < 0
    <2>1. g = f
        BY <1>2 DEF FeedCall
    <2>2. f.c.ret \in {-1, -2} /\ f.c = All(base, in)
        BY <1>2 DEF Fed
    <2>3. QED
        BY <1>1, <2>1, <2>2 DEF Fed
<1>3. CASE ~(f.c.ret < 0) /\ f.at > Len(in)
    <2>1. g = f
        BY <1>3 DEF FeedCall
    <2>2. f.c.ret \in Nat /\ Going(f.c) = All(base, SubSeq(in, 1, f.at - 1))
        BY <1>3 DEF Fed
    <2>3. f.at > k
        BY <1>1, <1>3
    <2>4. QED
        BY <1>1, <2>1, <2>2, <2>3 DEF Fed
<1>4. CASE ~(f.c.ret < 0) /\ ~(f.at > Len(in))
    <2> DEFINE a == f.at
               c == f.c
               rest == SubSeq(in, a, Len(in))
               r == ChunkedParse(c, rest)
               o == c.out
    <2>1. a \in 1 .. Len(in) /\ a > k - 1 /\ Going(c) = All(base, SubSeq(in, 1, a - 1))
            /\ IsChunk(c)
          /\ a \in Int
        BY <1>1, <1>4 DEF Fed
    <2>2. g = [c |-> Pre(o, r), at |-> IF r.ret < 0 THEN a ELSE a + r.ret]
        BY <1>4, Zenon DEF FeedCall, Pre
    <2> HIDE DEF a, c, r
    <2>3. rest \in ChunkText /\ rest # <<>> /\ Len(rest) = Len(in) - a + 1
        <3> DEFINE l == Len(in)
        <3>1. l \in Int /\ a \in Int /\ 1 <= a /\ a <= l + 1 /\ a <= l /\ l <= Len(in)
            BY <1>1, <2>1
        <3> HIDE DEF l
        <3>2. SubSeq(in, a, l) \in ChunkText /\ Len(SubSeq(in, a, l)) = l - a + 1
            BY <3>1, PartIs
        <3>3. rest \in ChunkText /\ Len(rest) = l - a + 1
            BY <3>2 DEF l
        <3> HIDE DEF rest
        <3>4. Len(rest) # 0
            BY <3>1, <3>3
        <3>5. rest # <<>>
            BY <3>4
        <3>6. QED
            BY <3>3, <3>5 DEF l
    <2>4. o \in ChunkText /\ o \o <<>> = o
        BY <2>1 DEF IsChunk, ChunkText
    <2> HIDE DEF o, rest
    <2>5. /\ IsChunk(r)
          /\ \/ r.ret \in {-1, -2} /\ r = All(Fresh(c), rest)
             \/ r.ret \in 1 .. Len(rest) /\ Going(r) = All(Fresh(c), SubSeq(rest, 1, r.ret))
        BY <2>1, <2>3, CallIs DEF r
    <2> DEFINE p == Pre(o, r)
    <2>6. p = Chunk(r.st, r.last, r.size, r.ret, o \o r.out)
        <3>1. Pre(o, Chunk(r.st, r.last, r.size, r.ret, r.out)) =
                Chunk(r.st, r.last, r.size, r.ret, o \o r.out)
            BY PreIs
        <3>2. r = Chunk(r.st, r.last, r.size, r.ret, r.out)
            BY <2>5 DEF IsChunk
        <3>3. QED
            BY <3>1, <3>2, Zenon
    <2> HIDE DEF p
    <2>7. /\ p = Chunk(p.st, p.last, p.size, p.ret, p.out) /\ p.st = r.st /\ p.last = r.last
          /\ p.size = r.size /\ p.ret = r.ret /\ p.out = o \o r.out
        BY <2>6 DEF Chunk
    <2>8. IsChunk(p)
        BY <2>4, <2>5, <2>7 DEF IsChunk, ChunkText
    <2>9. g.c = p /\ g.at = IF r.ret < 0 THEN a ELSE a + r.ret
        BY <2>2 DEF p
    <2> DEFINE h == Fresh(c)
    <2>10. h = Chunk(c.st, c.last, c.size, 0, <<>>)
        BY DEF Fresh
    <2>11. IsChunk(h) /\ h.ret \in Ret
        <3> HIDE DEF h
        <3>1. /\ h = Chunk(h.st, h.last, h.size, h.ret, h.out) /\ h.size = c.size /\ h.ret = 0
              /\ h.out = <<>>
            BY <2>10 DEF Chunk
        <3>2. QED
            BY <2>1, <3>1 DEF IsChunk, Ret
    <2>12. Pre(o, h) = Going(c)
        <3> DEFINE f1 == c.st
                   f2 == c.last
                   f3 == c.size
                   f4 == 0
                   f5 == <<>>
        <3> HIDE DEF f1, f2, f3, f4, f5
        <3>1. Pre(o, Chunk(f1, f2, f3, f4, f5)) = Chunk(f1, f2, f3, f4, o \o f5)
            BY PreIs
        <3>2. QED
            BY <2>4, <2>10, <3>1, Zenon DEF Going, o, f1, f2, f3, f4, f5
    <2> HIDE DEF h
    <2>13. \A d \in ChunkText : All(Going(c), d) = Pre(o, All(h, d))
        BY <2>4, <2>11, <2>12, AllPre
    <2>14. \A m \in a - 1 .. Len(in) : All(base, SubSeq(in, 1, m)) = All(Going(c), SubSeq(in, a, m))
        <3>1. SUFFICES ASSUME NEW m \in a - 1 .. Len(in)
                       PROVE  All(base, SubSeq(in, 1, m)) = All(Going(c), SubSeq(in, a, m))
            OBVIOUS
        <3>2. a - 1 \in 0 .. Len(in) /\ (a - 1) + 1 = a
            BY <1>1, <2>1
        <3> DEFINE b == a - 1
        <3>3. b \in 0 .. Len(in) /\ m \in b .. Len(in)
            BY <3>2
        <3> HIDE DEF b
        <3>4. All(base, SubSeq(in, 1, m)) = All(All(base, SubSeq(in, 1, b)), SubSeq(in, b + 1, m))
            BY <3>3, AllPart
        <3>5. QED
            BY <2>1, <3>2, <3>4, Zenon DEF b
    <2>15. CASE r.ret \in {-1, -2}
        <3>1. r = All(h, rest)
            BY <2>5, <2>15 DEF h
        <3>2. All(Going(c), rest) = p
            BY <2>3, <2>13, <3>1 DEF p
        <3>3. Len(in) \in a - 1 .. Len(in)
            BY <1>1, <2>1
        <3>4. All(base, in) = All(Going(c), rest)
            <4>1. All(base, SubSeq(in, 1, Len(in))) = All(Going(c), SubSeq(in, a, Len(in)))
                BY <2>14, <3>3
            <4>2. QED
                BY <1>1, <4>1, Zenon DEF rest
        <3>5. g.at = a /\ g.c.ret \in {-1, -2} /\ a \in 1 .. Len(in) + 1
            BY <1>1, <2>1, <2>7, <2>9, <2>15
        <3>6. QED
            BY <2>8, <2>9, <3>2, <3>4, <3>5 DEF Fed
    <2>16. CASE r.ret \in 1 .. Len(rest)
        <3> DEFINE n == r.ret
                   m == a - 1 + n
                   d == SubSeq(rest, 1, n)
        <3>1. Going(r) = All(h, d)
            <4>1. r.ret \notin {-1, -2}
                BY <2>16
            <4>2. QED
                BY <2>5, <4>1 DEF h
        <3>2. n \in 1 .. Len(in) - a + 1 /\ m \in a - 1 .. Len(in) /\ m \in Int /\ a + n - 1 = m
                /\ n \in Nat
              /\ ~(n < 0)
            BY <1>1, <2>1, <2>3, <2>16
        <3> HIDE DEF n
        <3>3. d \in ChunkText /\ d = SubSeq(in, a, m)
            <4>1. d \in ChunkText
                BY <2>3, <3>2 DEF ChunkText
            <4>2. d = SubSeq(in, a, m)
                <5>1. SubSeq(in, a, m) \in Seq(ChunkSym) /\ Len(SubSeq(in, a, m)) = n
                      /\ \A i \in 1 .. n : SubSeq(in, a, m)[i] = in[i + a - 1]
                    <6>1. 1 <= a /\ a <= m + 1 /\ m <= Len(in) /\ m - a + 1 = n
                        BY <1>1, <2>1, <3>2
                    <6> HIDE DEF m
                    <6>2. /\ SubSeq(in, a, m) \in ChunkText /\ Len(SubSeq(in, a, m)) = m - a + 1
                          /\ \A i \in 1 .. m - a + 1 : SubSeq(in, a, m)[i] = in[i + a - 1]
                        BY <2>1, <3>2, <6>1, PartIs
                    <6>3. QED
                        BY <6>1, <6>2 DEF ChunkText
                <5>2. d \in Seq(ChunkSym) /\ Len(d) = n /\ \A i \in 1 .. n : d[i] = rest[i]
                    BY <2>3, <3>2 DEF ChunkText
                <5>3. \A i \in 1 .. n : rest[i] = in[i + a - 1]
                    BY <1>1, <2>1, <3>2 DEF ChunkText, rest
                <5> HIDE DEF d
                <5> DEFINE q == SubSeq(in, a, m)
                <5> HIDE DEF q
                <5>4. q \in Seq(ChunkSym) /\ Len(q) = n /\ \A i \in 1 .. n : q[i] = in[i + a - 1]
                    BY <5>1 DEF q
                <5>5. d = q
                    BY <5>2, <5>3, <5>4, SeqEqual
                <5>6. QED
                    BY <5>5 DEF q
            <4>3. QED
                BY <4>1, <4>2
        <3> HIDE DEF d, m
        <3>4. All(base, SubSeq(in, 1, m)) = All(Going(c), d)
            BY <2>14, <3>2, <3>3
        <3>5. All(Going(c), d) = Pre(o, Going(r))
            BY <2>13, <3>1, <3>3
        <3>6. Pre(o, Going(r)) = Going(p)
            <4>1. Pre(o, Chunk(r.st, r.last, r.size, 0, r.out)) =
                    Chunk(r.st, r.last, r.size, 0, o \o r.out)
                BY PreIs
            <4>2. QED
                BY <2>7, <4>1, Zenon DEF Going
        <3>7. g.at = a + n /\ g.at - 1 = m /\ g.at > k /\ g.at \in 1 .. Len(in) + 1
                /\ g.c.ret \in Nat
            <4>1. g.at = a + n
                BY <2>7, <2>9, <2>16 DEF n
            <4>2. g.c.ret \in Nat
                BY <2>7, <2>9, <3>2 DEF n
            <4>3. a \in Int /\ k < a + n /\ Len(in) \in Int
                BY <1>1, <2>1, <3>2
            <4>4. QED
                BY <3>2, <4>1, <4>2, <4>3 DEF m
        <3>8. Going(g.c) = All(base, SubSeq(in, 1, g.at - 1))
            BY <2>9, <3>4, <3>5, <3>6, <3>7, Zenon
        <3>9. QED
            BY <2>8, <2>9, <3>7, <3>8 DEF Fed
    <2>17. QED
        BY <2>5, <2>15, <2>16
<1>5. QED
    BY <1>2, <1>3, <1>4

\* All calls together read as the byte-by-byte machine does.
LEMMA FeedIs ==
    ASSUME NEW c, IsChunk(c), c.ret \in Ret, NEW in \in ChunkText
    PROVE  Feed(c, in) = All(Emptied(c), in)
<1> DEFINE base == Emptied(c)
           n == Len(in)
<1>1. PICK f : /\ f[0] = [c |-> base, at |-> 1]
               /\ \A k \in 1 .. n : f[k] = FeedCall(in, f[k - 1], k)
               /\ Feed(c, in) = [f[n].c EXCEPT !.ret = IF @ < 0 THEN @ ELSE 0]
    <2>1. \E f : FeedsAs(c, in, f)
        BY FeedSteps
    <2>2. QED
        BY <2>1, Zenon DEF FeedsAs
<1>2. n \in Nat /\ SubSeq(in, 1, 0) = <<>> /\ SubSeq(in, 1, n) = in
    BY DEF ChunkText
<1>3. IsChunk(base) /\ base.ret = c.ret
    BY EmptiedIs
<1> HIDE DEF base, n
<1> DEFINE S == {k \in 0 .. n : Fed(f[k], base, in, k)}
<1>4. 0 \in S
    <2> DEFINE g == f[0]
    <2>1. g.c = base /\ g.at = 1 /\ g.at - 1 = 0
        BY <1>1
    <2> HIDE DEF g
    <2>2. CASE c.ret = 0
        <3>1. All(base, SubSeq(in, 1, g.at - 1)) = base
            BY <1>2, <2>1, AllNone, Zenon
        <3>2. Going(base) = base
            BY <1>3, <2>2, Zenon DEF Going, IsChunk
        <3>3. QED
            BY <1>2, <1>3, <2>1, <2>2, <3>1, <3>2 DEF Fed, n, g
    <2>3. CASE c.ret \in {-1, -2}
        <3>1. All(base, in) = base
            BY <1>3, <2>3, AllEnded
        <3>2. QED
            BY <1>2, <1>3, <2>1, <2>3, <3>1 DEF Fed, n, g
    <2>4. QED
        BY <2>2, <2>3 DEF Ret
<1>5. \A k \in 0 .. n - 1 : k \in S => k + 1 \in S
    <2>1. SUFFICES ASSUME NEW k \in 0 .. n - 1, k \in S PROVE k + 1 \in S
        OBVIOUS
    <2>2. k + 1 \in 0 .. n /\ k + 1 \in 1 .. n /\ (k + 1) - 1 = k
        BY <1>2
    <2> DEFINE m == k + 1
    <2>3. m \in 1 .. Len(in) /\ m - 1 = k
        BY <2>2 DEF n
    <2> HIDE DEF m
    <2>4. f[m] = FeedCall(in, f[m - 1], m)
        BY <1>1, <2>3 DEF n
    <2>5. Fed(f[m - 1], base, in, m - 1)
        BY <2>1, <2>3
    <2>6. Fed(f[m], base, in, m)
        BY <1>3, <2>3, <2>4, <2>5, FedNext
    <2>7. QED
        BY <2>2, <2>6 DEF m
<1> HIDE DEF S
<1>6. \A k \in 0 .. n : k \in S
    BY <1>2, <1>4, <1>5, ByByte!UpTo
<1> DEFINE e == f[n]
<1>7. Fed(e, base, in, n)
    <2>1. n \in S
        BY <1>2, <1>6
    <2>2. QED
        BY <2>1 DEF S
<1>8. Feed(c, in) = WithRet(e.c, IF e.c.ret < 0 THEN e.c.ret ELSE 0)
    BY <1>1, Zenon DEF WithRet
<1> HIDE DEF e
<1>9. e.c = Chunk(e.c.st, e.c.last, e.c.size, e.c.ret, e.c.out)
    BY <1>7 DEF Fed, IsChunk
<1>10. \A v : WithRet(e.c, v) = Chunk(e.c.st, e.c.last, e.c.size, v, e.c.out)
    <2>1. \A v : WithRet(Chunk(e.c.st, e.c.last, e.c.size, e.c.ret, e.c.out), v)
                   = Chunk(e.c.st, e.c.last, e.c.size, v, e.c.out)
        BY FieldsSet
    <2>2. QED
        BY <1>9, <2>1, Zenon
<1>11. CASE e.c.ret \in {-1, -2}
    <2>1. e.c = All(base, in)
        BY <1>7, <1>11 DEF Fed
    <2>2. (IF e.c.ret < 0 THEN e.c.ret ELSE 0) = e.c.ret
        BY <1>11
    <2>3. Feed(c, in) = e.c
        BY <1>8, <1>9, <1>10, <2>2, Zenon
    <2>4. QED
        BY <2>1, <2>3 DEF base
<1>12. CASE e.c.ret \in Nat
    <2>1. e.at - 1 = n /\ Going(e.c) = All(base, SubSeq(in, 1, e.at - 1))
        BY <1>2, <1>7, <1>12 DEF Fed, n
    <2>2. (IF e.c.ret < 0 THEN e.c.ret ELSE 0) = 0
        BY <1>12
    <2>3. Feed(c, in) = Going(e.c)
        BY <1>8, <1>10, <2>2, Zenon DEF Going
    <2>4. QED
        BY <1>2, <2>1, <2>3, Zenon DEF base
<1>13. QED
    BY <1>7, <1>11, <1>12 DEF Fed

LEMMA NewIs == IsChunk(NewChunked) /\ NewChunked.ret = 0 /\ NewChunked = Emptied(NewChunked)
<1> DEFINE c == NewChunked
<1>1. c = Chunk("SZ1", FALSE, 0, 0, <<>>)
    BY DEF NewChunked, Chunk
<1> HIDE DEF c
<1>2. /\ c = Chunk(c.st, c.last, c.size, c.ret, c.out) /\ c.st = "SZ1" /\ c.last = FALSE
      /\ c.size = 0 /\ c.ret = 0 /\ c.out = <<>>
    BY <1>1 DEF Chunk
<1>3. IsChunk(c)
    BY <1>2 DEF IsChunk
<1>4. Emptied(c) = c
    BY <1>2, Zenon DEF Emptied
<1>5. QED
    BY <1>2, <1>3, <1>4 DEF c

\* Fed in two parts, or in one.
LEMMA FedInTwo ==
    ASSUME NEW s1 \in ChunkText, NEW s2 \in ChunkText, NEW a, a = Feed(NewChunked, s1)
    PROVE  Pre(a.out, Feed(a, s2)) = Feed(NewChunked, s1 \o s2)
<1> DEFINE c == NewChunked
           e == Emptied(a)
           o == a.out
<1>1. IsChunk(c) /\ c.ret \in Ret /\ Emptied(c) = c /\ s1 \o s2 \in ChunkText
    BY NewIs DEF Ret, ChunkText
<1> HIDE DEF c
<1>2. a = All(c, s1)
    <2>1. Feed(c, s1) = All(Emptied(c), s1)
        BY <1>1, FeedIs
    <2>2. QED
        BY <1>1, <2>1 DEF c
<1>3. IsChunk(a) /\ a.ret \in Ret
    BY <1>1, <1>2, AllKeeps
<1>4. Feed(a, s2) = All(e, s2)
    BY <1>3, FeedIs
<1>5. IsChunk(e) /\ e.ret \in Ret /\ o \in ChunkText /\ o \o <<>> = o
    BY <1>3, EmptiedIs DEF IsChunk, ChunkText
<1>6. Pre(o, e) = a
    <2>1. Pre(o, Chunk(a.st, a.last, a.size, a.ret, <<>>)) =
            Chunk(a.st, a.last, a.size, a.ret, o \o <<>>)
        <3> DEFINE f1 == a.st
                   f2 == a.last
                   f3 == a.size
                   f4 == a.ret
                   f5 == <<>>
        <3> HIDE DEF o, f1, f2, f3, f4, f5
        <3>1. Pre(o, Chunk(f1, f2, f3, f4, f5)) = Chunk(f1, f2, f3, f4, o \o f5)
            BY PreIs
        <3>2. QED
            BY <3>1, Zenon DEF f1, f2, f3, f4, f5
    <2>2. a = Chunk(a.st, a.last, a.size, a.ret, o)
        BY <1>3 DEF IsChunk
    <2>3. QED
        BY <1>5, <2>1, <2>2, Zenon DEF Emptied
<1> HIDE DEF e, o
<1>7. All(Pre(o, e), s2) = Pre(o, All(e, s2))
    BY <1>5, AllPre
<1>8. All(c, s1 \o s2) = All(All(c, s1), s2)
    BY AllBoth
<1>9. Feed(c, s1 \o s2) = All(Emptied(c), s1 \o s2)
    BY <1>1, FeedIs
<1>10. QED
    BY <1>1, <1>2, <1>4, <1>6, <1>7, <1>8, <1>9, Zenon DEF c, o

(***************************************************************************)
(* httpchunked_parse gives the same data and the same end or error however *)
(* the input is cut in two: for every input and every place.               *)
(***************************************************************************)
THEOREM ChunksAlwaysUnsplit == Spec => []ChunksUnsplit
<1>1. SymbolsCome => ChunksUnsplit
    <2>1. SUFFICES ASSUME SymbolsCome, job = "chunked", NEW k \in 1 .. Len(got) - 1
                   PROVE  LET a == Feed(NewChunked, SubSeq(got, 1, k))
                              b == Feed(a, SubSeq(got, k + 1, Len(got)))
                          IN  [b EXCEPT !.out = a.out \o @] = Feed(NewChunked, got)
        BY Zenon DEF ChunksUnsplit
    <2>2. "chunked" \in DOMAIN Symbols /\ Symbols["chunked"] \subseteq ChunkSym
        BY DEF Symbols, ChunkSym
    <2>3. got \in ChunkText
        <3>1. got \in Seq(Symbols["chunked"])
            BY <2>1, <2>2 DEF SymbolsCome
        <3>2. QED
            BY <2>2, <3>1 DEF ChunkText
    <2> DEFINE s1 == SubSeq(got, 1, k)
               s2 == SubSeq(got, k + 1, Len(got))
               a == Feed(NewChunked, s1)
    <2>4. s1 \in ChunkText /\ s2 \in ChunkText /\ k \in Int /\ 1 <= k /\ k + 1 <= Len(got)
        BY <2>3 DEF ChunkText
    <2>5. s1 \o s2 = got
        <3> DEFINE n == Len(got)
        <3>1. n \in 0 .. Len(got) /\ 1 \in 1 .. n /\ k \in 1 .. n /\ got \in Seq(ChunkSym)
              /\ SubSeq(got, 1, n) = got
            BY <2>3, <2>4 DEF ChunkText
        <3>2. QED
            BY <3>1, <2>4 DEF ChunkText
    <2> HIDE DEF s1, s2
    <2>6. Pre(a.out, Feed(a, s2)) = Feed(NewChunked, s1 \o s2)
        <3>1. \A x : x = Feed(NewChunked, s1) =>
                     Pre(x.out, Feed(x, s2)) = Feed(NewChunked, s1 \o s2)
            BY <2>4, FedInTwo
        <3>2. QED
            BY <3>1, Zenon
    <2>7. Pre(a.out, Feed(a, s2)) = Feed(NewChunked, got)
        BY <2>5, <2>6
    <2>8. QED
        BY <2>7, Zenon DEF Pre, s1, s2
<1>2. QED
    BY <1>1, SymbolsAlways, PTL

-----------------------------------------------------------------------------
(* What is written is read: lines *)

\* A text `t` is `a`, then `b`.
Glued(t, a, b) ==
    /\ t \in Text /\ Len(t) = Len(a) + Len(b)
    /\ \A i \in 1 .. Len(a) : t[i] = a[i]
    /\ \A i \in 1 .. Len(b) : t[Len(a) + i] = b[i]

LEMMA GlueIs ==
    ASSUME NEW a \in Text, NEW b \in Text
    PROVE  Glued(a \o b, a, b)
BY DEF Text, Glued

\* A part of a text that has the symbols of another one is that.
LEMMA PartEquals ==
    ASSUME NEW t \in Text, NEW p \in Text, NEW x \in Nat \ {0}, x + Len(p) - 1 <= Len(t),
           \A i \in 1 .. Len(p) : t[x + i - 1] = p[i]
    PROVE  SubSeq(t, x, x + Len(p) - 1) = p
<1> DEFINE q == SubSeq(t, x, x + Len(p) - 1)
<1>1. Len(p) \in Nat /\ Len(t) \in Nat /\ p \in Seq(Symbol) /\ t \in Seq(Symbol)
    BY DEF Text
<1>2. q \in Seq(Symbol) /\ Len(q) = Len(p) /\ \A i \in 1 .. Len(p) : q[i] = t[x + i - 1]
    BY <1>1
<1> HIDE DEF q
<1>3. q = p
    BY <1>1, <1>2, SeqEqual
<1>4. QED
    BY <1>3 DEF q

\* What LineEnd makes of CR LF.
LEMMA EndRead ==
    ASSUME NEW t \in Text, NEW k \in 1 .. Len(t), k + 1 = Len(t), t[k] = "CR", t[k + 1] = "LF",
           NEW part
    PROVE  LineEnd(t, k, part).part = part
<1>1. k + 1 \in 1 .. Len(t) /\ ~(k + 1 > Len(t))
    BY DEF Text
<1>2. LineEnd(t, k, part) = [n |-> k + 1, part |-> part]
    BY <1>1, Zenon DEF LineEnd
<1>3. QED
    BY <1>2

\* A request line as http_req_write has it.
ReqText(t, a, b) ==
    /\ t \in Text /\ Len(t) = Len(a) + Len(b) + 6
    /\ \A i \in 1 .. Len(a) : t[i] = a[i]
    /\ t[Len(a) + 1] = "SP"
    /\ \A i \in 1 .. Len(b) : t[Len(a) + 1 + i] = b[i]
    /\ t[Len(a) + Len(b) + 2] = "SP" /\ t[Len(a) + Len(b) + 3] = "H"
    /\ t[Len(a) + Len(b) + 4] = "1" /\ t[Len(a) + Len(b) + 5] = "CR"
    /\ t[Len(a) + Len(b) + 6] = "LF"

LEMMA ReqWritten ==
    ASSUME NEW a \in Text, NEW b \in Text,
           NEW t, t = a \o <<"SP">> \o b \o <<"SP">> \o Version \o <<"CR", "LF">>
    PROVE  ReqText(t, a, b)
<1> DEFINE ver == Version
           end == <<"CR", "LF">>
           p == a \o <<"SP">> \o b
           q == p \o <<"SP">> \o ver
<1>1. "SP" \in Symbol /\ "CR" \in Symbol /\ "LF" \in Symbol /\ "H" \in Symbol /\ "1" \in Symbol
    BY DEF Symbol, Printable, Name, Digit
<1>2. ver \in Text /\ Len(ver) = 2 /\ ver[1] = "H" /\ ver[2] = "1"
    BY <1>1 DEF Version, Text
<1>3. end \in Text /\ Len(end) = 2 /\ end[1] = "CR" /\ end[2] = "LF"
    BY <1>1 DEF Text
<1>4. t = q \o end
    OBVIOUS
<1> HIDE DEF ver, end
<1>5. Around(Symbol, p, a, "SP", b)
    BY <1>1, AroundOne DEF Text
<1> HIDE DEF p
<1>6. p \in Text /\ Len(p) = Len(a) + 1 + Len(b) /\ Len(a) \in Nat /\ Len(b) \in Nat
    BY <1>5 DEF Around, Text
<1>7. Around(Symbol, q, p, "SP", ver)
    BY <1>1, <1>2, <1>6, AroundOne DEF Text
<1> HIDE DEF q
<1>8. q \in Text /\ Len(q) = Len(a) + Len(b) + 4
    BY <1>2, <1>6, <1>7 DEF Around, Text
<1>9. /\ t \in Text /\ Len(t) = Len(q) + 2 /\ \A i \in 1 .. Len(q) : t[i] = q[i]
      /\ t[Len(q) + 1] = "CR" /\ t[Len(q) + 2] = "LF"
    <2>1. Glued(t, q, end)
        BY <1>3, <1>4, <1>8, GlueIs
    <2>2. 1 \in 1 .. Len(end) /\ 2 \in 1 .. Len(end)
        BY <1>3
    <2>3. QED
        BY <1>3, <2>1, <2>2 DEF Glued
<1>10. /\ \A i \in 1 .. Len(p) : t[i] = p[i]
       /\ t[Len(p) + 1] = "SP" /\ t[Len(p) + 2] = "H" /\ t[Len(p) + 3] = "1"
    <2>1. /\ \A i \in 1 .. Len(p) : q[i] = p[i]
          /\ q[Len(p) + 1] = "SP" /\ q[Len(p) + 1 + 1] = "H" /\ q[Len(p) + 1 + 2] = "1"
        BY <1>2, <1>7 DEF Around
    <2>2. QED
        BY <1>6, <1>8, <1>9, <2>1
<1>11. /\ \A i \in 1 .. Len(a) : p[i] = a[i]
       /\ p[Len(a) + 1] = "SP" /\ \A i \in 1 .. Len(b) : p[Len(a) + 1 + i] = b[i]
    BY <1>5 DEF Around
<1>12. /\ \A i \in 1 .. Len(a) : t[i] = a[i]
       /\ t[Len(a) + 1] = "SP" /\ \A i \in 1 .. Len(b) : t[Len(a) + 1 + i] = b[i]
    <2>1. /\ \A i \in 1 .. Len(a) : i \in 1 .. Len(p)
          /\ Len(a) + 1 \in 1 .. Len(p) /\ \A i \in 1 .. Len(b) : Len(a) + 1 + i \in 1 .. Len(p)
        BY <1>6
    <2>2. t[Len(a) + 1] = "SP"
        BY <1>10, <1>11, <2>1
    <2>3. \A i \in 1 .. Len(a) : t[i] = a[i]
        BY <1>10, <1>11, <2>1
    <2>4. \A i \in 1 .. Len(b) : t[Len(a) + 1 + i] = b[i]
        BY <1>10, <1>11, <2>1
    <2>5. QED
        BY <2>2, <2>3, <2>4
<1>13. QED
    <2>1. /\ Len(t) = Len(a) + Len(b) + 6 /\ Len(p) + 1 = Len(a) + Len(b) + 2
          /\ Len(p) + 2 = Len(a) + Len(b) + 3 /\ Len(p) + 3 = Len(a) + Len(b) + 4
          /\ Len(q) + 1 = Len(a) + Len(b) + 5 /\ Len(q) + 2 = Len(a) + Len(b) + 6
        BY <1>6, <1>8, <1>9
    <2>2. /\ t[Len(a) + Len(b) + 2] = "SP" /\ t[Len(a) + Len(b) + 3] = "H"
          /\ t[Len(a) + Len(b) + 4] = "1" /\ t[Len(a) + Len(b) + 5] = "CR"
          /\ t[Len(a) + Len(b) + 6] = "LF"
        BY <1>9, <1>10, <2>1, Zenon
    <2>3. QED
        BY <1>9, <1>12, <2>1, <2>2, Zenon DEF ReqText

\* What http_req_write writes is read by http_req_parse.
LEMMA ReqReadBack ==
    ASSUME NEW a \in Text, NEW b \in Text, a # <<>>, b # <<>>,
           \A i \in 1 .. Len(a) : a[i] = "U", \A i \in 1 .. Len(b) : b[i] \in Printable,
           NEW t, ReqText(t, a, b)
    PROVE  ReqParse(t).part = <<a, b, Version>>
<1> DEFINE m == Len(a) + 1
           u == m + 1
           e == m + Len(b) + 1
           v == e + 1
           w == e + 3
<1>1. /\ t \in Text /\ Len(t) = Len(a) + Len(b) + 6
      /\ \A i \in 1 .. Len(a) : t[i] = a[i]
      /\ t[Len(a) + 1] = "SP"
      /\ \A i \in 1 .. Len(b) : t[Len(a) + 1 + i] = b[i]
      /\ t[Len(a) + Len(b) + 2] = "SP" /\ t[Len(a) + Len(b) + 3] = "H"
      /\ t[Len(a) + Len(b) + 4] = "1" /\ t[Len(a) + Len(b) + 5] = "CR"
      /\ t[Len(a) + Len(b) + 6] = "LF"
    BY DEF ReqText
<1>2. Len(a) \in Nat \ {0} /\ Len(b) \in Nat \ {0}
    BY DEF Text
<1>3. /\ Len(t) \in Nat /\ m \in 2 .. Len(t) /\ u \in 1 .. Len(t) /\ e \in 1 .. Len(t)
      /\ v \in 1 .. Len(t) /\ w \in 1 .. Len(t) /\ w + 1 = Len(t) /\ u < e /\ e < v /\ v + 2 = w
      /\ u + Len(b) - 1 = e - 1
      /\ m + 1 \in 1 .. Len(t) + 1 /\ e + 1 \in 1 .. Len(t) + 1
    BY <1>1, <1>2
<1>4. t[m] = "SP" /\ t[e] = "SP" /\ t[v] = "H" /\ t[v + 1] = "1" /\ t[w] = "CR" /\ t[w + 1] = "LF"
    BY <1>1, <1>2
<1>5. \A i \in 1 .. m - 1 : t[i] = "U"
    BY <1>1, <1>2
<1>6. \A i \in u .. e - 1 : t[i] \in Printable
    <2>1. SUFFICES ASSUME NEW i \in u .. e - 1 PROVE t[i] \in Printable
        OBVIOUS
    <2>2. i - Len(a) - 1 \in 1 .. Len(b) /\ Len(a) + 1 + (i - Len(a) - 1) = i
        BY <1>2
    <2>3. QED
        BY <1>1, <2>2
<1>7. SubSeq(t, 1, m - 1) = a
    <2>1. SubSeq(t, 1, 1 + Len(a) - 1) = a
        <3>1. \A i \in 1 .. Len(a) : t[1 + i - 1] = a[i]
            BY <1>1, <1>2
        <3>2. 1 \in Nat \ {0} /\ 1 + Len(a) - 1 <= Len(t)
            BY <1>1, <1>2
        <3>3. QED
            BY <1>1, <3>1, <3>2, PartEquals
    <2>2. 1 + Len(a) - 1 = m - 1
        BY <1>2
    <2>3. QED
        BY <2>1, <2>2
<1>8. SubSeq(t, u, e - 1) = b
    <2>1. \A i \in 1 .. Len(b) : t[u + i - 1] = b[i]
        BY <1>1, <1>2
    <2>2. u \in Nat \ {0} /\ u + Len(b) - 1 <= Len(t)
        BY <1>1, <1>2
    <2>3. u + Len(b) - 1 = e - 1
        BY <1>3
    <2> HIDE DEF u, e
    <2>4. SubSeq(t, u, u + Len(b) - 1) = b
        BY <1>1, <2>1, <2>2, PartEquals
    <2>5. QED
        BY <2>3, <2>4
<1>9. SubSeq(t, v, v + 1) = Version /\ SubSeq(t, v, w - 1) = Version
    <2>1. Version \in Text /\ Len(Version) = 2 /\ Version[1] = "H" /\ Version[2] = "1"
        BY DEF Version, Text, Symbol, Printable, Name, Digit
    <2>2. \A i \in 1 .. 2 : i = 1 \/ i = 2
        OBVIOUS
    <2>3. v \in Nat \ {0} /\ v + 2 - 1 <= Len(t) /\ v + 1 - 1 = v /\ v + 2 - 1 = v + 1
          /\ w - 1 = v + 1
        BY <1>3
    <2> HIDE DEF v, w
    <2>4. \A i \in 1 .. Len(Version) : t[v + i - 1] = Version[i]
        BY <1>4, <2>1, <2>2, <2>3
    <2>5. SubSeq(t, v, v + Len(Version) - 1) = Version
        BY <1>1, <2>1, <2>3, <2>4, PartEquals
    <2>6. QED
        BY <2>1, <2>3, <2>5
<1>10. Bytes(t, v, Len(t)) >= 8 /\ ~(Bytes(t, v, w - 1) < 8)
    <2>1. v \in 1 .. Len(t) + 1 /\ Len(t) \in v - 1 .. Len(t) /\ w - 1 \in v - 1 .. Len(t)
          /\ v + 1 <= Len(t) /\ v + 1 <= w - 1
        BY <1>3
    <2> HIDE DEF v, w
    <2>2. Bytes(t, v, Len(t)) >= 8 /\ Bytes(t, v, w - 1) >= 8
          /\ Bytes(t, v, w - 1) \in Int
        BY <1>1, <1>4, <2>1, BytesOfVersion, BytesIs
    <2>3. QED
        BY <2>2
<1> HIDE DEF m, u, e, v, w
<1>11. ReqPlaces(t, m, u, e, v, w, w)
    <2>1. Leaves(t, 1, {"U"}, m)
        BY <1>3, <1>4, <1>5 DEF Leaves
    <2>2. Leaves(t, m + 1, {"SP"}, u)
        <3>1. t[u] \in Printable /\ u = m + 1
            BY <1>3, <1>6 DEF u
        <3>2. QED
            BY <1>3, <3>1, SymbolsDiffer DEF Leaves
    <2>3. Leaves(t, u, Printable, e)
        BY <1>3, <1>4, <1>6, SymbolsDiffer DEF Leaves
    <2>4. Leaves(t, e + 1, {"SP"}, v)
        BY <1>3, <1>4 DEF Leaves, v
    <2>5. Leaves(t, v, Printable, w)
        <3>1. "1" \in Printable
            BY DEF Printable, Name, Digit
        <3>2. \A i \in v .. w - 1 : i = v \/ i = v + 1
            BY <1>3
        <3>3. t[v] \in Printable /\ t[v + 1] \in Printable /\ t[w] \notin Printable
            BY <1>4, <3>1, SymbolsDiffer
        <3>4. \A i \in v .. w - 1 : t[i] \in Printable
            BY <3>2, <3>3, Zenon
        <3>5. w \in v .. Len(t) + 1
            BY <1>3
        <3>6. QED
            BY <3>3, <3>4, <3>5, Zenon DEF Leaves
    <2>6. Leaves(t, w, {"SP"}, w)
        BY <1>3, <1>4 DEF Leaves
    <2>7. 1 \in 1 .. Len(t) + 1 /\ u \in 1 .. Len(t) + 1 /\ v \in 1 .. Len(t) + 1
            /\ w \in 1 .. Len(t) + 1
        BY <1>3
    <2>8. QED
        BY <1>1, <1>3, <2>1, <2>2, <2>3, <2>4, <2>5, <2>6, <2>7, PastUnique DEF ReqPlaces
<1>12. ReqParse(t) = ReqAt(t, m, u, e, v, w, w)
    BY <1>11, ReqParseIs
<1>13. ReqAt(t, m, u, e, v, w, w) = LineEnd(t, w, <<a, b, Version>>)
    <2>1. /\ ~(m > Len(t)) /\ m # 1 /\ ~(u > Len(t)) /\ ~(e > Len(t)) /\ e # u /\ ~(v > Len(t))
          /\ ~(w > Len(t))
        BY <1>3
    <2>2. SubSeq(t, v, v + 1) \in Versions
        BY <1>9 DEF Versions
    <2>3. QED
        BY <1>4, <1>7, <1>8, <1>9, <1>10, <2>1, <2>2, Zenon DEF ReqAt
<1>14. QED
    <2>1. t \in Text /\ w \in 1 .. Len(t) /\ w + 1 = Len(t) /\ t[w] = "CR" /\ t[w + 1] = "LF"
        BY <1>1, <1>3, <1>4, Zenon
    <2> DEFINE part == <<a, b, Version>>
    <2> HIDE DEF part
    <2>2. LineEnd(t, w, part).part = part
        BY <2>1, EndRead
    <2>3. QED
        BY <1>12, <1>13, <2>2, Zenon DEF part

\* A status line as http_resp_write has it.
RespText(t, a, b) ==
    /\ t \in Text /\ Len(t) = Len(a) + Len(b) + 6
    /\ t[1] = "H" /\ t[2] = "1" /\ t[3] = "SP"
    /\ \A i \in 1 .. Len(a) : t[3 + i] = a[i]
    /\ t[Len(a) + 4] = "SP"
    /\ \A i \in 1 .. Len(b) : t[Len(a) + 4 + i] = b[i]
    /\ t[Len(a) + Len(b) + 5] = "CR" /\ t[Len(a) + Len(b) + 6] = "LF"

LEMMA RespWritten ==
    ASSUME NEW a \in Text, NEW b \in Text,
           NEW t, t = Version \o <<"SP">> \o a \o <<"SP">> \o b \o <<"CR", "LF">>
    PROVE  RespText(t, a, b)
<1> DEFINE ver == Version
           end == <<"CR", "LF">>
           p == ver \o <<"SP">> \o a
           q == p \o <<"SP">> \o b
<1>1. "SP" \in Symbol /\ "CR" \in Symbol /\ "LF" \in Symbol /\ "H" \in Symbol /\ "1" \in Symbol
    BY DEF Symbol, Printable, Name, Digit
<1>2. ver \in Text /\ Len(ver) = 2 /\ ver[1] = "H" /\ ver[2] = "1"
    BY <1>1 DEF Version, Text
<1>3. end \in Text /\ Len(end) = 2 /\ end[1] = "CR" /\ end[2] = "LF"
    BY <1>1 DEF Text
<1>4. t = q \o end
    OBVIOUS
<1> HIDE DEF ver, end
<1>5. Around(Symbol, p, ver, "SP", a)
    BY <1>1, <1>2, AroundOne DEF Text
<1> HIDE DEF p
<1>6. p \in Text /\ Len(p) = 3 + Len(a) /\ Len(a) \in Nat /\ Len(b) \in Nat
    BY <1>2, <1>5 DEF Around, Text
<1>7. Around(Symbol, q, p, "SP", b)
    BY <1>1, <1>6, AroundOne DEF Text
<1> HIDE DEF q
<1>8. q \in Text /\ Len(q) = Len(a) + Len(b) + 4
    BY <1>6, <1>7 DEF Around, Text
<1>9. /\ t \in Text /\ Len(t) = Len(q) + 2 /\ \A i \in 1 .. Len(q) : t[i] = q[i]
      /\ t[Len(q) + 1] = "CR" /\ t[Len(q) + 2] = "LF"
    <2>1. Glued(t, q, end)
        BY <1>3, <1>4, <1>8, GlueIs
    <2>2. 1 \in 1 .. Len(end) /\ 2 \in 1 .. Len(end)
        BY <1>3
    <2>3. QED
        BY <1>3, <2>1, <2>2 DEF Glued
<1>10. /\ \A i \in 1 .. Len(p) : t[i] = p[i]
       /\ t[Len(p) + 1] = "SP" /\ \A i \in 1 .. Len(b) : t[Len(p) + 1 + i] = b[i]
    <2>1. /\ \A i \in 1 .. Len(p) : q[i] = p[i]
          /\ q[Len(p) + 1] = "SP" /\ \A i \in 1 .. Len(b) : q[Len(p) + 1 + i] = b[i]
        BY <1>7 DEF Around
    <2>2. /\ \A i \in 1 .. Len(p) : i \in 1 .. Len(q)
          /\ Len(p) + 1 \in 1 .. Len(q) /\ \A i \in 1 .. Len(b) : Len(p) + 1 + i \in 1 .. Len(q)
        BY <1>6, <1>8
    <2>3. t[Len(p) + 1] = "SP"
        BY <1>9, <2>1, <2>2
    <2>4. \A i \in 1 .. Len(p) : t[i] = p[i]
        BY <1>9, <2>1, <2>2
    <2>5. \A i \in 1 .. Len(b) : t[Len(p) + 1 + i] = b[i]
        BY <1>9, <2>1, <2>2
    <2>6. QED
        BY <2>3, <2>4, <2>5
<1>11. /\ p[1] = "H" /\ p[2] = "1" /\ p[3] = "SP" /\ \A i \in 1 .. Len(a) : p[3 + i] = a[i]
    BY <1>2, <1>5 DEF Around
<1>12. /\ t[1] = "H" /\ t[2] = "1" /\ t[3] = "SP" /\ \A i \in 1 .. Len(a) : t[3 + i] = a[i]
    <2>1. /\ 1 \in 1 .. Len(p) /\ 2 \in 1 .. Len(p) /\ 3 \in 1 .. Len(p)
          /\ \A i \in 1 .. Len(a) : 3 + i \in 1 .. Len(p)
        BY <1>6
    <2>2. t[1] = p[1] /\ t[2] = p[2] /\ t[3] = p[3]
        BY <1>10, <2>1
    <2>3. \A i \in 1 .. Len(a) : t[3 + i] = p[3 + i]
        BY <1>10, <2>1
    <2>4. QED
        BY <1>11, <2>2, <2>3
<1>13. QED
    <2>1. /\ Len(t) = Len(a) + Len(b) + 6 /\ Len(p) + 1 = Len(a) + 4
          /\ Len(q) + 1 = Len(a) + Len(b) + 5 /\ Len(q) + 2 = Len(a) + Len(b) + 6
        BY <1>6, <1>8, <1>9
    <2>2. /\ t[Len(a) + 4] = "SP" /\ \A i \in 1 .. Len(b) : t[Len(a) + 4 + i] = b[i]
          /\ t[Len(a) + Len(b) + 5] = "CR" /\ t[Len(a) + Len(b) + 6] = "LF"
        BY <1>9, <1>10, <2>1, Zenon
    <2>3. QED
        BY <1>9, <1>12, <2>1, <2>2, Zenon DEF RespText

\* What http_resp_write writes is read by http_resp_parse.
LEMMA RespReadBack ==
    ASSUME NEW a \in Text, NEW b \in Text, Len(a) = 3,
           \A i \in 1 .. Len(a) : a[i] \in Digit, \A i \in 1 .. Len(b) : b[i] \in Words,
           NEW t, RespText(t, a, b)
    PROVE  RespParse(t).part = <<Version, a, b>>
<1> DEFINE k == 8 + Len(b)
<1>1. /\ t \in Text /\ Len(t) = k + 1 /\ Len(b) \in Nat /\ Len(t) \in Nat /\ k \in 8 .. Len(t)
      /\ t[1] = "H" /\ t[2] = "1" /\ t[3] = "SP"
      /\ \A i \in 1 .. 3 : t[3 + i] = a[i]
      /\ t[7] = "SP"
      /\ \A i \in 1 .. Len(b) : t[7 + i] = b[i]
      /\ t[k] = "CR" /\ t[k + 1] = "LF"
    BY DEF RespText, Text
<1>2. SubSeq(t, 1, 2) = Version
    <2>1. Version \in Text /\ Len(Version) = 2 /\ Version[1] = "H" /\ Version[2] = "1"
        BY DEF Version, Text, Symbol, Printable, Name, Digit
    <2>2. \A i \in 1 .. 2 : i = 1 \/ i = 2
        OBVIOUS
    <2>3. \A i \in 1 .. Len(Version) : t[1 + i - 1] = Version[i]
        BY <1>1, <2>1, <2>2
    <2>4. 1 + 2 - 1 = 2 /\ 2 <= Len(t) /\ 1 \in Nat \ {0}
        BY <1>1
    <2> DEFINE x == 1
               y == Len(Version)
    <2>5. x \in Nat \ {0} /\ x + y - 1 <= Len(t) /\ x + y - 1 = 2
          /\ \A i \in 1 .. Len(Version) : t[x + i - 1] = Version[i]
        BY <2>1, <2>3, <2>4
    <2> HIDE DEF x
    <2>6. SubSeq(t, x, x + Len(Version) - 1) = Version
        BY <1>1, <2>1, <2>5, PartEquals
    <2>7. QED
        BY <2>5, <2>6 DEF x
<1>3. SubSeq(t, 4, 6) = a
    <2>1. \A i \in 1 .. Len(a) : t[4 + i - 1] = a[i]
        BY <1>1
    <2>2. 4 + 3 - 1 = 6 /\ 6 <= Len(t) /\ 4 \in Nat \ {0}
        BY <1>1
    <2> DEFINE x == 4
    <2>3. x \in Nat \ {0} /\ x + Len(a) - 1 <= Len(t) /\ x + Len(a) - 1 = 6
          /\ \A i \in 1 .. Len(a) : t[x + i - 1] = a[i]
        BY <2>1, <2>2
    <2> HIDE DEF x
    <2>4. SubSeq(t, x, x + Len(a) - 1) = a
        BY <1>1, <2>3, PartEquals
    <2>5. QED
        BY <2>3, <2>4 DEF x
<1>4. SubSeq(t, 8, k - 1) = b
    <2>1. \A i \in 1 .. Len(b) : t[8 + i - 1] = b[i]
        BY <1>1
    <2>2. 8 + Len(b) - 1 = k - 1 /\ 8 + Len(b) - 1 <= Len(t) /\ 8 \in Nat \ {0}
        BY <1>1
    <2>3. SubSeq(t, 8, 8 + Len(b) - 1) = b
        BY <1>1, <2>1, <2>2, PartEquals
    <2>4. QED
        BY <2>2, <2>3
<1>5. \A i \in 8 .. k - 1 : t[i] \in Words
    <2>1. SUFFICES ASSUME NEW i \in 8 .. k - 1 PROVE t[i] \in Words
        OBVIOUS
    <2>2. i - 7 \in 1 .. Len(b) /\ 7 + (i - 7) = i
        BY <1>1
    <2>3. QED
        BY <1>1, <2>2
<1> HIDE DEF k
<1>6. RespPlaces(t, 3, 7, k)
    <2>1. Leaves(t, 1, Printable, 3)
        <3>1. "H" \in Printable /\ "1" \in Printable
            BY DEF Printable, Name, Digit
        <3>2. \A i \in 1 .. 3 - 1 : i = 1 \/ i = 2
            OBVIOUS
        <3>3. QED
            BY <1>1, <3>1, <3>2, SymbolsDiffer DEF Leaves
    <2>2. Leaves(t, 3 + 1, Digit, 7)
        <3>1. \A i \in 4 .. 6 : t[i] \in Digit
            <4>1. SUFFICES ASSUME NEW i \in 4 .. 6 PROVE t[i] \in Digit
                OBVIOUS
            <4>2. i - 3 \in 1 .. 3 /\ 3 + (i - 3) = i
                OBVIOUS
            <4>3. QED
                BY <1>1, <4>2
        <3>2. QED
            BY <1>1, <3>1, DigitsDiffer DEF Leaves
    <2>3. Leaves(t, 7 + 1, Words, k)
        BY <1>1, <1>5, DigitsDiffer DEF Leaves
    <2>4. 1 \in 1 .. Len(t) + 1 /\ 3 + 1 \in 1 .. Len(t) + 1 /\ 7 + 1 \in 1 .. Len(t) + 1
        BY <1>1
    <2>5. QED
        BY <1>1, <2>1, <2>2, <2>3, <2>4, PastUnique DEF RespPlaces
<1>7. RespParse(t) = RespAt(t, 3, 7, k)
    BY <1>6, RespParseIs
<1>8. RespAt(t, 3, 7, k) = LineEnd(t, k, <<Version, a, b>>)
    <2>1. /\ ~(3 > Len(t)) /\ 3 # 1 /\ ~(7 > Len(t)) /\ 7 - 3 - 1 = 3 /\ ~(k > Len(t))
          /\ 3 - 1 = 2 /\ 3 + 1 = 4 /\ 7 - 1 = 6 /\ 7 + 1 = 8
        BY <1>1
    <2>2. QED
        BY <1>1, <1>2, <1>3, <1>4, <2>1, Zenon DEF RespAt
<1>9. QED
    <2>1. k \in 1 .. Len(t) /\ k + 1 = Len(t)
        BY <1>1
    <2>2. LineEnd(t, k, <<Version, a, b>>).part = <<Version, a, b>>
        BY <1>1, <2>1, EndRead
    <2>3. QED
        BY <1>7, <1>8, <2>2, Zenon

\* A header as http_hdr_write has it.
HdrText(t, a, b) ==
    /\ t \in Text /\ Len(t) = Len(a) + Len(b) + 4
    /\ \A i \in 1 .. Len(a) : t[i] = a[i]
    /\ t[Len(a) + 1] = ":" /\ t[Len(a) + 2] = "SP"
    /\ \A i \in 1 .. Len(b) : t[Len(a) + 2 + i] = b[i]
    /\ t[Len(a) + Len(b) + 3] = "CR" /\ t[Len(a) + Len(b) + 4] = "LF"

LEMMA HdrWritten ==
    ASSUME NEW a \in Text, NEW b \in Text, NEW t, t = a \o <<":", "SP">> \o b \o <<"CR", "LF">>
    PROVE  HdrText(t, a, b)
<1> DEFINE mid == <<":", "SP">>
           end == <<"CR", "LF">>
           p == a \o mid
           q == p \o b
<1>1. "SP" \in Symbol /\ "CR" \in Symbol /\ "LF" \in Symbol /\ ":" \in Symbol
    BY DEF Symbol, Printable, Name, Digit
<1>2. mid \in Text /\ Len(mid) = 2 /\ mid[1] = ":" /\ mid[2] = "SP"
    BY <1>1 DEF Text
<1>3. end \in Text /\ Len(end) = 2 /\ end[1] = "CR" /\ end[2] = "LF"
    BY <1>1 DEF Text
<1>4. t = q \o end
    OBVIOUS
<1> HIDE DEF mid, end
<1>5. Glued(p, a, mid)
    BY <1>2, GlueIs
<1> HIDE DEF p
<1>6. p \in Text /\ Len(p) = Len(a) + 2 /\ Len(a) \in Nat /\ Len(b) \in Nat
    BY <1>2, <1>5 DEF Glued, Text
<1>7. Glued(q, p, b)
    BY <1>6, GlueIs
<1> HIDE DEF q
<1>8. q \in Text /\ Len(q) = Len(a) + Len(b) + 2
    BY <1>6, <1>7 DEF Glued
<1>9. Glued(t, q, end)
    BY <1>3, <1>4, <1>8, GlueIs
<1>10. 1 \in 1 .. 2 /\ 2 \in 1 .. 2
    OBVIOUS
<1>11. p[Len(a) + 1] = ":" /\ p[Len(a) + 2] = "SP" /\ \A i \in 1 .. Len(a) : p[i] = a[i]
    BY <1>2, <1>5, <1>10 DEF Glued
<1>12. /\ q[Len(a) + 1] = ":" /\ q[Len(a) + 2] = "SP" /\ \A i \in 1 .. Len(a) : q[i] = a[i]
       /\ \A i \in 1 .. Len(b) : q[Len(a) + 2 + i] = b[i]
    BY <1>6, <1>7, <1>11 DEF Glued
<1>13. /\ t[Len(a) + 1] = ":" /\ t[Len(a) + 2] = "SP" /\ \A i \in 1 .. Len(a) : t[i] = a[i]
       /\ \A i \in 1 .. Len(b) : t[Len(a) + 2 + i] = b[i]
    BY <1>6, <1>8, <1>9, <1>12 DEF Glued
<1>14. t \in Text /\ Len(t) = Len(q) + 2 /\ t[Len(q) + 1] = "CR" /\ t[Len(q) + 2] = "LF"
    BY <1>3, <1>9, <1>10 DEF Glued
<1>15. QED
    BY <1>6, <1>8, <1>13, <1>14 DEF HdrText

\* What neither starts nor ends with a space is not trimmed.
LEMMA NotTrimmed ==
    ASSUME NEW b \in Text, b # <<>> => b[Len(b)] # "SP"
    PROVE  TrimRight(b) = b
<1>1. PICK k \in 0 .. Len(b) : /\ TrimRight(b) = SubSeq(b, 1, k)
                              /\ \A m \in k + 1 .. Len(b) : b[m] = "SP"
    BY TrimIs
<1>2. Len(b) \in Nat /\ (Len(b) # 0 => b # <<>>) /\ SubSeq(b, 1, Len(b)) = b
    BY DEF Text
<1>3. k = Len(b)
    <2>1. SUFFICES ASSUME k # Len(b) PROVE FALSE
        OBVIOUS
    <2> DEFINE n == Len(b)
    <2>2. n \in Nat /\ k \in 0 .. n /\ k # n
        BY <1>2, <2>1
    <2> HIDE DEF n
    <2>3. n # 0 /\ n \in k + 1 .. n
        BY <2>2
    <2>4. QED
        BY <1>1, <1>2, <2>3 DEF n
<1>4. QED
    BY <1>1, <1>2, <1>3

\* What http_hdr_write writes is read by http_hdr_parse.
LEMMA HdrReadBack ==
    ASSUME NEW a \in Text, NEW b \in Text, a # <<>>, a[1] # "-",
           \A i \in 1 .. Len(a) : a[i] \in Name, \A i \in 1 .. Len(b) : b[i] \notin Ends,
           b # <<>> => b[1] # "SP" /\ b[Len(b)] # "SP",
           NEW t, HdrText(t, a, b)
    PROVE  HdrParse(t).part = <<a, b>>
<1> DEFINE c == Len(a) + 1
           v == Len(a) + 3
           k == v + Len(b)
<1>1. /\ t \in Text /\ Len(a) \in Nat \ {0} /\ Len(b) \in Nat /\ Len(t) \in Nat /\ Len(t) = k + 1
      /\ \A i \in 1 .. Len(a) : t[i] = a[i]
      /\ t[c] = ":" /\ t[c + 1] = "SP"
      /\ \A i \in 1 .. Len(b) : t[v + i - 1] = b[i]
      /\ t[k] = "CR" /\ t[k + 1] = "LF"
    BY DEF HdrText, Text
<1>2. /\ c \in 2 .. Len(t) /\ v \in 4 .. Len(t) /\ k \in v .. Len(t) /\ v = c + 2 /\ v + Len(b) = k
      /\ 1 + Len(a) - 1 = c - 1 /\ v + Len(b) - 1 = k - 1
    BY <1>1
<1>3. SubSeq(t, 1, c - 1) = a
    <2>1. \A i \in 1 .. Len(a) : t[1 + i - 1] = a[i]
        BY <1>1
    <2>2. 1 + Len(a) - 1 <= Len(t) /\ 1 \in Nat \ {0}
        BY <1>1
    <2>3. SubSeq(t, 1, 1 + Len(a) - 1) = a
        BY <1>1, <2>1, <2>2, PartEquals
    <2> HIDE DEF c
    <2>4. QED
        BY <1>2, <2>3
<1> HIDE DEF c, v, k
<1>4. SubSeq(t, v, k - 1) = b
    <2>1. v + Len(b) - 1 <= Len(t) /\ v \in Nat \ {0}
        BY <1>1, <1>2
    <2>2. SubSeq(t, v, v + Len(b) - 1) = b
        BY <1>1, <2>1, PartEquals
    <2>3. QED
        BY <1>2, <2>2
<1>5. TrimRight(b) = b
    BY NotTrimmed
<1>6. \A i \in v .. k - 1 : t[i] \notin Ends /\ (i = v => t[i] # "SP")
    <2>1. SUFFICES ASSUME NEW i \in v .. k - 1 PROVE t[i] \notin Ends /\ (i = v => t[i] # "SP")
        OBVIOUS
    <2>2. i - v + 1 \in 1 .. Len(b) /\ v + (i - v + 1) - 1 = i /\ (i = v => i - v + 1 = 1)
        BY <1>1, <1>2
    <2>3. t[i] = b[i - v + 1] /\ b # <<>>
        BY <1>1, <2>2
    <2>4. QED
        BY <2>2, <2>3
<1>7. HdrPlaces(t, c, v, k)
    <2>1. Leaves(t, 1, Name, c)
        BY <1>1, <1>2, NamesDiffer DEF Leaves, c
    <2>2. Leaves(t, c + 1, {"SP"}, v)
        <3>1. t[v] # "SP"
            <4>1. CASE v = k
                BY <1>1, <4>1
            <4>2. CASE v # k
                BY <1>1, <1>2, <1>6, <4>2
            <4>3. QED
                BY <4>1, <4>2
        <3>2. \A i \in c + 1 .. v - 1 : i = c + 1
            BY <1>1, <1>2
        <3>3. QED
            BY <1>1, <1>2, <3>1, <3>2 DEF Leaves
    <2>3. Meets(t, v, Ends, k)
        BY <1>1, <1>2, <1>6 DEF Meets, Ends
    <2>4. 1 \in 1 .. Len(t) + 1 /\ c + 1 \in 1 .. Len(t) + 1 /\ v \in 1 .. Len(t) + 1
        BY <1>1, <1>2
    <2>5. QED
        BY <1>1, <2>1, <2>2, <2>3, <2>4, PastUnique, FindUnique DEF HdrPlaces
<1>8. HdrParse(t) = HdrAt(t, c, v, k)
    BY <1>7, HdrParseIs
<1>9. HdrAt(t, c, v, k) = LineEnd(t, k, <<a, b>>)
    <2>1. ~(c > Len(t)) /\ c # 1 /\ ~(v > Len(t)) /\ ~(k > Len(t)) /\ t[1] # "-"
        BY <1>1, <1>2
    <2>2. QED
        BY <1>1, <1>3, <1>4, <1>5, <2>1, Zenon DEF HdrAt
<1>10. QED
    <2>1. k \in 1 .. Len(t) /\ k + 1 = Len(t)
        BY <1>1, <1>2
    <2>2. LineEnd(t, k, <<a, b>>).part = <<a, b>>
        BY <1>1, <2>1, EndRead
    <2>3. QED
        BY <1>8, <1>9, <2>2, Zenon

\* The symbols of a part of a text.
Spelled(p, n, S) == p \in Text /\ Len(p) = n /\ \A i \in 1 .. Len(p) : p[i] \in S

LEMMA PartSymbols ==
    ASSUME NEW s \in Text, NEW x \in Nat \ {0}, NEW y \in Int, x - 1 <= y, y <= Len(s), NEW S,
           \A k \in x .. y : s[k] \in S
    PROVE  Spelled(SubSeq(s, x, y), y - x + 1, S)
<1>1. s \in Seq(Symbol) /\ Len(s) \in Nat
    BY DEF Text
<1>2. SubSeq(s, x, y) \in Seq(Symbol) /\ Len(SubSeq(s, x, y)) = y - x + 1
      /\ \A i \in 1 .. y - x + 1 : SubSeq(s, x, y)[i] = s[i + x - 1]
    BY <1>1
<1>3. \A i \in 1 .. y - x + 1 : i + x - 1 \in x .. y
    OBVIOUS
<1> DEFINE p == SubSeq(s, x, y)
<1>4. p \in Seq(Symbol) /\ Len(p) = y - x + 1 /\ \A i \in 1 .. y - x + 1 : p[i] = s[i + x - 1]
    BY <1>2
<1> HIDE DEF p
<1>5. \A i \in 1 .. Len(p) : p[i] \in S
    BY <1>3, <1>4
<1>6. QED
    BY <1>4, <1>5 DEF p, Text, Spelled

\* The parts of a request line.
LEMMA ReqParts ==
    ASSUME NEW s \in Text, NEW part, RequestOf(s, part)
    PROVE  /\ part[1] \in Text /\ part[2] \in Text /\ part[1] # <<>> /\ part[2] # <<>>
           /\ \A i \in 1 .. Len(part[1]) : part[1][i] = "U"
           /\ \A i \in 1 .. Len(part[2]) : part[2][i] \in Printable
           /\ Len(part[1]) + Len(part[2]) <= Len(s)
<1>1. PICK m \in 1 .. Len(s) : In(s, 1, m, {"U"}) /\
        \E u \in m + 2 .. Len(s) : In(s, m + 1, u - 1, {"SP"}) /\
        \E e \in u .. Len(s) : In(s, u, e, Printable) /\
        \E c : part = <<SubSeq(s, 1, m), SubSeq(s, u, e), c>>
    BY Zenon DEF RequestOf, IsRequest
<1>2. PICK u \in m + 2 .. Len(s), e \in m + 2 .. Len(s) :
        /\ u <= e /\ In(s, u, e, Printable)
        /\ part[1] = SubSeq(s, 1, m) /\ part[2] = SubSeq(s, u, e)
    <2>1. PICK u \in m + 2 .. Len(s) : In(s, m + 1, u - 1, {"SP"}) /\
            \E e \in u .. Len(s) : In(s, u, e, Printable) /\
            \E c : part = <<SubSeq(s, 1, m), SubSeq(s, u, e), c>>
        BY <1>1, Zenon
    <2>2. PICK e \in u .. Len(s) : In(s, u, e, Printable) /\
            \E c : part = <<SubSeq(s, 1, m), SubSeq(s, u, e), c>>
        BY <2>1, Zenon
    <2>4. part[1] = SubSeq(s, 1, m) /\ part[2] = SubSeq(s, u, e)
        BY <2>2
    <2>5. e \in m + 2 .. Len(s) /\ u <= e
        OBVIOUS
    <2>6. QED
        BY <2>2, <2>4, <2>5
<1>3. Len(s) \in Nat
    BY DEF Text
<1>4. (\A k \in 1 .. m : s[k] \in {"U"}) /\ (\A k \in u .. e : s[k] \in Printable)
    BY <1>1, <1>2 DEF In
<1> DEFINE a == SubSeq(s, 1, m)
           b == SubSeq(s, u, e)
           x == 1
<1>5. Spelled(a, m - 1 + 1, {"U"})
    <2>1. x \in Nat \ {0} /\ m \in Int /\ x - 1 <= m /\ m <= Len(s)
          /\ \A k \in x .. m : s[k] \in {"U"}
        BY <1>3, <1>4
    <2> HIDE DEF x
    <2>2. Spelled(SubSeq(s, x, m), m - x + 1, {"U"})
        BY <2>1, PartSymbols
    <2>3. QED
        BY <2>2, Zenon DEF x
<1>6. Spelled(b, e - u + 1, Printable)
    <2>1. u \in Nat \ {0} /\ e \in Int /\ u - 1 <= e /\ e <= Len(s)
        BY <1>2, <1>3
    <2>2. QED
        BY <1>4, <2>1, PartSymbols
<1> HIDE DEF a, b
<1>7. Len(<<>>) = 0 /\ Len(a) >= 1 /\ Len(b) >= 1 /\ Len(a) + Len(b) <= Len(s)
    BY <1>2, <1>3, <1>5, <1>6 DEF Spelled
<1>8. a # <<>> /\ b # <<>>
    BY <1>7
<1>9. QED
    BY <1>2, <1>5, <1>6, <1>7, <1>8 DEF a, b, Spelled

\* The parts of a status line.
LEMMA RespParts ==
    ASSUME NEW s \in Text, NEW part, StatusOf(s, part)
    PROVE  /\ part[2] \in Text /\ part[3] \in Text /\ Len(part[2]) = 3
           /\ \A i \in 1 .. Len(part[2]) : part[2][i] \in Digit
           /\ \A i \in 1 .. Len(part[3]) : part[3][i] \in Words
           /\ 3 + Len(part[3]) <= Len(s)
<1>1. PICK p \in 1 .. Len(s) : In(s, p + 2, p + 4, Digit) /\
        \E t \in p + 6 .. Len(s) : In(s, p + 6, t - 1, Words) /\
        \E c : part = <<c, SubSeq(s, p + 2, p + 4), SubSeq(s, p + 6, t - 1)>>
    BY Zenon DEF StatusOf, IsResponse, Words
<1>2. PICK t \in p + 6 .. Len(s) : In(s, p + 6, t - 1, Words) /\
        \E c : part = <<c, SubSeq(s, p + 2, p + 4), SubSeq(s, p + 6, t - 1)>>
    BY <1>1, Zenon
<1>3. part[2] = SubSeq(s, p + 2, p + 4) /\ part[3] = SubSeq(s, p + 6, t - 1)
    BY <1>2
<1>4. Len(s) \in Nat
    BY DEF Text
<1> DEFINE x == p + 2
           y == p + 4
           v == p + 6
           w == t - 1
           a == SubSeq(s, x, y)
           b == SubSeq(s, v, w)
<1>5. /\ x \in Nat \ {0} /\ y \in Int /\ x - 1 <= y /\ y <= Len(s) /\ y - x + 1 = 3
      /\ v \in Nat \ {0} /\ w \in Int /\ v - 1 <= w /\ w <= Len(s) /\ 3 + (w - v + 1) <= Len(s)
    BY <1>4
<1>6. (\A k \in x .. y : s[k] \in Digit) /\ (\A k \in v .. w : s[k] \in Words)
    BY <1>1, <1>2 DEF In
<1>7. part[2] = a /\ part[3] = b
    BY <1>3
<1> HIDE DEF x, y, v, w
<1>8. Spelled(a, y - x + 1, Digit)
    BY <1>5, <1>6, PartSymbols
<1>9. Spelled(b, w - v + 1, Words)
    BY <1>5, <1>6, PartSymbols
<1> HIDE DEF a, b
<1>10. QED
    BY <1>5, <1>7, <1>8, <1>9 DEF Spelled

\* The parts of a header.
LEMMA HdrParts ==
    ASSUME NEW s \in Text, NEW part, HeaderOf(s, part)
    PROVE  /\ part = <<part[1], part[2]>>
           /\ part[1] \in Text /\ part[2] \in Text /\ part[1] # <<>> /\ part[1][1] # "-"
           /\ \A i \in 1 .. Len(part[1]) : part[1][i] \in Name
           /\ \A i \in 1 .. Len(part[2]) : part[2][i] \notin Ends
           /\ part[2] # <<>> => part[2][1] # "SP" /\ part[2][Len(part[2])] # "SP"
           /\ Len(part[1]) + Len(part[2]) <= Len(s)
<1>1. PICK c \in 1 .. Len(s) : In(s, 1, c, Name) /\ s[1] # "-" /\
        \E e \in c + 2 .. Len(s) : (\A k \in c + 2 .. e - 1 : s[k] \notin {"CR", "LF"}) /\
        \E x, y \in c + 2 .. e :
            /\ x <= y /\ (x < y => s[x] # "SP" /\ s[y - 1] # "SP")
            /\ <<SubSeq(s, 1, c), SubSeq(s, x, y - 1)>> = part
    BY Zenon DEF HeaderOf, IsHeader
<1>2. PICK e \in c + 2 .. Len(s) : (\A k \in c + 2 .. e - 1 : s[k] \notin {"CR", "LF"}) /\
        \E x, y \in c + 2 .. e :
            /\ x <= y /\ (x < y => s[x] # "SP" /\ s[y - 1] # "SP")
            /\ <<SubSeq(s, 1, c), SubSeq(s, x, y - 1)>> = part
    BY <1>1, Zenon
<1>3. PICK x, y \in c + 2 .. e :
            /\ x <= y /\ (x < y => s[x] # "SP" /\ s[y - 1] # "SP")
            /\ <<SubSeq(s, 1, c), SubSeq(s, x, y - 1)>> = part
    BY <1>2, Zenon
<1>4. Len(s) \in Nat
    BY DEF Text
<1> DEFINE w == y - 1
           a == SubSeq(s, 1, c)
           b == SubSeq(s, x, w)
           S == {s[k] : k \in x .. w}
<1>5. /\ x \in Nat \ {0} /\ w \in Int /\ x - 1 <= w /\ w <= Len(s) /\ x <= y /\ y = w + 1
      /\ c + (w - x + 1) <= Len(s) /\ 1 <= c /\ c <= Len(s)
    BY <1>3, <1>4
<1>6. \A k \in x .. w : s[k] \notin Ends /\ s[k] \in S
    <2>1. \A k \in x .. w : k \in c + 2 .. e - 1
        BY <1>4
    <2>2. \A k \in x .. w : s[k] \notin Ends
        BY <1>2, <2>1, Zenon DEF Ends
    <2>3. \A k \in x .. w : s[k] \in S
        OBVIOUS
    <2>4. QED
        BY <2>2, <2>3, Zenon
<1>7. part = <<a, b>> /\ part[1] = a /\ part[2] = b
    BY <1>3
<1>8. \A k \in 1 .. c : s[k] \in Name
    BY <1>1 DEF In
<1> HIDE DEF w
<1>9. a \in Text /\ Len(a) = c /\ \A i \in 1 .. Len(a) : a[i] \in Name
    <2> DEFINE v == 1
    <2>1. v \in Nat \ {0} /\ c \in Int /\ v - 1 <= c /\ c - v + 1 = c
          /\ \A k \in v .. c : s[k] \in Name
        BY <1>4, <1>5, <1>8
    <2> HIDE DEF v
    <2>2. Spelled(SubSeq(s, v, c), c - v + 1, Name)
        BY <1>5, <2>1, PartSymbols
    <2>3. QED
        BY <2>1, <2>2, Zenon DEF v, Spelled
<1>10. b \in Text /\ Len(b) = w - x + 1 /\ \A i \in 1 .. Len(b) : b[i] \in S
    <2> HIDE DEF S
    <2>1. Spelled(b, w - x + 1, S)
        BY <1>5, <1>6, PartSymbols
    <2>2. QED
        BY <2>1 DEF Spelled
<1>11. \A z \in S : z \notin Ends
    BY <1>6
<1>12. \A i \in 1 .. w - x + 1 : b[i] = s[x + i - 1]
    BY <1>5 DEF Text
<1>13. a[1] = s[1]
    BY <1>4, <1>5 DEF Text
<1> HIDE DEF a, b, S
<1>14. b # <<>> => b[1] # "SP" /\ b[Len(b)] # "SP"
    <2>1. SUFFICES ASSUME b # <<>> PROVE b[1] # "SP" /\ b[Len(b)] # "SP"
        OBVIOUS
    <2>2. Len(b) \in Nat /\ Len(b) # 0
        BY <1>10, <2>1 DEF Text
    <2> DEFINE n == w - x + 1
    <2>3. n \in Nat \ {0} /\ 1 \in 1 .. n /\ n \in 1 .. n /\ x + 1 - 1 = x /\ x + n - 1 = w /\ x < y
        BY <1>5, <1>10, <2>2
    <2>4. w = y - 1
        BY <1>5
    <2>5. b[1] = s[x] /\ b[n] = s[w]
        BY <1>12, <2>3
    <2> HIDE DEF n
    <2>6. QED
        BY <1>3, <1>10, <2>3, <2>4, <2>5 DEF n
<1>15. a # <<>>
    <2>1. Len(a) # 0 /\ Len(<<>>) = 0
        BY <1>5, <1>9
    <2>2. QED
        BY <2>1
<1>16. Len(a) + Len(b) <= Len(s)
    BY <1>5, <1>9, <1>10
<1>17. QED
    BY <1>1, <1>7, <1>9, <1>10, <1>11, <1>13, <1>14, <1>15, <1>16

-----------------------------------------------------------------------------
(* What is written is read: chunks *)

\* Of sequences of any symbols.
LEMMA Singletons == \A S : \A x \in S : <<x>> \in Seq(S) /\ Len(<<x>>) = 1 /\ <<x>>[1] = x
OBVIOUS

LEMMA Elements == \A S : \A s \in Seq(S) : \A i \in 1 .. Len(s) : s[i] \in S
OBVIOUS

LEMMA Concats ==
    \A S : \A p, q \in Seq(S) :
        /\ p \o q \in Seq(S) /\ Len(p \o q) = Len(p) + Len(q)
        /\ \A i \in 1 .. Len(p) : (p \o q)[i] = p[i]
        /\ \A i \in 1 .. Len(q) : (p \o q)[Len(p) + i] = q[i]
OBVIOUS

LEMMA Pairs ==
    \A S : \A x, y \in S : <<x>> \o <<y>> = <<x, y>>
<1>1. SUFFICES ASSUME NEW S, NEW x \in S, NEW y \in S PROVE <<x>> \o <<y>> = <<x, y>>
    BY Zenon
<1> DEFINE r == <<x>> \o <<y>>
<1>2. r \in Seq(S) /\ Len(r) = 2 /\ r[1] = x /\ r[2] = y
    OBVIOUS
<1> HIDE DEF r
<1>3. r = <<x, y>>
    BY <1>2, OneOrTwo
<1>4. QED
    BY <1>3 DEF r

LEMMA AllOne ==
    ASSUME NEW c, NEW x \in ChunkSym
    PROVE  All(c, <<x>>) = OneByte(0, c, x)
<1>1. /\ <<x>> \in ChunkText /\ Len(<<x>>) = 1 /\ <<x>>[1] = x
      /\ SubSeq(<<x>>, 1, 1) = <<x>> /\ SubSeq(<<x>>, 1, 0) = <<>>
    <2>1. <<x>> \in Seq(ChunkSym) /\ Len(<<x>>) = 1 /\ <<x>>[1] = x
        BY Singletons
    <2>2. \A S : \A s \in Seq(S) : SubSeq(s, 1, Len(s)) = s /\ SubSeq(s, 1, 0) = <<>>
        OBVIOUS
    <2>3. QED
        BY <2>1, <2>2, Zenon DEF ChunkText
<1> DEFINE in == <<x>>
<1>2. in \in ChunkText /\ 1 \in 1 .. Len(in) /\ 1 - 1 = 0
    BY <1>1
<1>3. SubSeq(in, 1, 1) = in /\ SubSeq(in, 1, 0) = <<>> /\ in[1] = x
    BY <1>1
<1> HIDE DEF in
<1>4. All(c, SubSeq(in, 1, 1)) = OneByte(0, All(c, SubSeq(in, 1, 1 - 1)), in[1])
    BY <1>2, AllNext
<1>5. All(c, <<>>) = c
    BY AllNone
<1>6. QED
    BY <1>2, <1>3, <1>4, <1>5, Zenon DEF in

LEMMA AllTwo ==
    ASSUME NEW c, NEW x \in ChunkSym, NEW y \in ChunkSym
    PROVE  All(c, <<x, y>>) = OneByte(0, OneByte(0, c, x), y)
<1>1. <<x>> \in ChunkText /\ <<y>> \in ChunkText /\ <<x>> \o <<y>> = <<x, y>>
    BY Singletons, Pairs, Zenon DEF ChunkText
<1>2. All(c, <<x>> \o <<y>>) = All(All(c, <<x>>), <<y>>)
    BY <1>1, AllBoth
<1>3. All(c, <<x>>) = OneByte(0, c, x)
    BY AllOne
<1>4. All(OneByte(0, c, x), <<y>>) = OneByte(0, OneByte(0, c, x), y)
    BY AllOne
<1>5. QED
    BY <1>1, <1>2, <1>3, <1>4, Zenon

\* One byte, while nothing has ended.
LEMMA OneIs ==
    ASSUME NEW st, NEW last, NEW size, NEW out, NEW x
    PROVE  OneByte(0, Chunk(st, last, size, 0, out), x) =
               IF st = "DAT" /\ size > 0 THEN Chunk(st, last, size - 1, 0, Append(out, x))
               ELSE Turned(st, last, size, 0, out, x)
<1> DEFINE c == Chunk(st, last, size, 0, out)
<1>1. /\ c = Chunk(c.st, c.last, c.size, c.ret, c.out) /\ c.st = st /\ c.last = last
      /\ c.size = size /\ c.ret = 0 /\ c.out = out
    BY DEF Chunk
<1> HIDE DEF c
<1>2. ChunkSymbol(c, x) = Turned(c.st, c.last, c.size, c.ret, c.out, x)
    BY <1>1, TurnedIs
<1>3. QED
    BY <1>1, <1>2, Zenon DEF OneByte, c

LEMMA OneTurned ==
    ASSUME NEW st, NEW last, NEW size, NEW out, NEW x, st # "DAT"
    PROVE  OneByte(0, Chunk(st, last, size, 0, out), x) = Turned(st, last, size, 0, out, x)
<1>1. ~(st = "DAT" /\ size > 0)
    OBVIOUS
<1>2. QED
    BY <1>1, OneIs

\* The line of a chunk's size.
LEMMA SizeRead ==
    ASSUME NEW st \in {"SZ1", "SZ"}, NEW o, NEW h \in {"0", "1", "2"}
    PROVE  All(All(Chunk(st, FALSE, 0, 0, o), <<h>>), <<"CR", "LF">>) =
               Chunk("DAT", Hex[h] = 0, Hex[h], 0, o)
<1>1. h \in ChunkSym /\ "CR" \in ChunkSym /\ "LF" \in ChunkSym
    BY DEF ChunkSym
<1>2. h \in DOMAIN Hex /\ Hex[h] \in 0 .. 2 /\ "CR" \notin DOMAIN Hex /\ "LF" \notin DOMAIN Hex
    BY HexIs
<1> DEFINE n == Hex[h]
<1>3. OneByte(0, Chunk(st, FALSE, 0, 0, o), h) = Chunk("SZ", FALSE, n, 0, o)
    <2>1. ~(0 >= SizeLimit)
        <3>1. SizeLimit \in Int
            BY ChunkBitsAssumption DEF SizeLimit
        <3>2. QED
            BY <3>1, ChunkBitsAssumption
    <2>2. st # "DAT" /\ 0 * 16 + n = n
        BY <1>2
    <2>3. Turned(st, FALSE, 0, 0, o, h) = Chunk("SZ", FALSE, n, 0, o)
        <3>1. Turned(st, FALSE, 0, 0, o, h) = Chunk("SZ", FALSE, 0 * 16 + n, 0, o)
            BY <1>2, <2>1, Zenon DEF Turned
        <3>2. QED
            BY <2>2, <3>1, Zenon
    <2>4. OneByte(0, Chunk(st, FALSE, 0, 0, o), h) = Turned(st, FALSE, 0, 0, o, h)
        <3>1. st # "DAT"
            BY <2>2
        <3> HIDE DEF n
        <3>2. \A f, z : OneByte(0, Chunk(st, f, z, 0, o), h) = Turned(st, f, z, 0, o, h)
            BY <3>1, OneTurned
        <3>3. QED
            BY <3>2, Zenon
    <2>5. QED
        BY <2>2, <2>3, <2>4, Zenon
<1> HIDE DEF n
<1>4. OneByte(0, Chunk("SZ", FALSE, n, 0, o), "CR") = Chunk("SZ_CR", n = 0, n, 0, o)
    <2>1. OneByte(0, Chunk("SZ", FALSE, n, 0, o), "CR") =
              IF "SZ" = "DAT" /\ n > 0 THEN Chunk("SZ", FALSE, n - 1, 0, Append(o, "CR"))
              ELSE Turned("SZ", FALSE, n, 0, o, "CR")
        <3> DEFINE a == "SZ"
                   b == "CR"
        <3> HIDE DEF a, b
        <3>1. OneByte(0, Chunk(a, FALSE, n, 0, o), b) =
                  IF a = "DAT" /\ n > 0 THEN Chunk(a, FALSE, n - 1, 0, Append(o, b))
                  ELSE Turned(a, FALSE, n, 0, o, b)
            BY OneIs
        <3>2. QED
            BY <3>1, Zenon DEF a, b
    <2>2. Turned("SZ", FALSE, n, 0, o, "CR") = Chunk("SZ_CR", FALSE \/ n = 0, n, 0, o)
        BY <1>2, Zenon DEF Turned
    <2>3. "SZ" # "DAT" /\ ((FALSE \/ n = 0) = (n = 0))
        OBVIOUS
    <2>4. QED
        BY <2>1, <2>2, <2>3, Zenon
<1>5. OneByte(0, Chunk("SZ_CR", n = 0, n, 0, o), "LF") = Chunk("DAT", n = 0, n, 0, o)
    <2> DEFINE l == n = 0
    <2> HIDE DEF l
    <2>1. OneByte(0, Chunk("SZ_CR", l, n, 0, o), "LF") =
              IF "SZ_CR" = "DAT" /\ n > 0 THEN Chunk("SZ_CR", l, n - 1, 0, Append(o, "LF"))
              ELSE Turned("SZ_CR", l, n, 0, o, "LF")
        BY OneIs, Zenon
    <2>2. "SZ_CR" # "DAT" /\ "SZ_CR" # "SZ" /\ "SZ_CR" # "SZ1"
        OBVIOUS
    <2>3. Turned("SZ_CR", l, n, 0, o, "LF") = Chunk("DAT", l, n, 0, o)
        BY <1>2, <2>2, Zenon DEF Turned
    <2>4. QED
        BY <2>1, <2>2, <2>3, Zenon DEF l
<1>6. All(Chunk(st, FALSE, 0, 0, o), <<h>>) = Chunk("SZ", FALSE, n, 0, o)
    BY <1>1, <1>3, AllOne
<1>7. All(Chunk("SZ", FALSE, n, 0, o), <<"CR", "LF">>) =
          OneByte(0, OneByte(0, Chunk("SZ", FALSE, n, 0, o), "CR"), "LF")
    BY <1>1, AllTwo
<1>8. QED
    BY <1>4, <1>5, <1>6, <1>7, Zenon DEF n

\* A chunk's data.
LEMMA DataRead ==
    ASSUME NEW o \in ChunkText, NEW d \in ChunkText, Len(d) \in 1 .. 2
    PROVE  All(Chunk("DAT", FALSE, Len(d), 0, o), d) = Chunk("DAT", FALSE, 0, 0, o \o d)
<1>1. \A size, out, x : size > 0 => OneByte(0, Chunk("DAT", FALSE, size, 0, out), x) =
                                        Chunk("DAT", FALSE, size - 1, 0, Append(out, x))
    <2>1. SUFFICES ASSUME NEW size, NEW out, NEW x, size > 0
                   PROVE  OneByte(0, Chunk("DAT", FALSE, size, 0, out), x) =
                              Chunk("DAT", FALSE, size - 1, 0, Append(out, x))
        BY Zenon
    <2>2. OneByte(0, Chunk("DAT", FALSE, size, 0, out), x) =
              IF "DAT" = "DAT" /\ size > 0 THEN Chunk("DAT", FALSE, size - 1, 0, Append(out, x))
              ELSE Turned("DAT", FALSE, size, 0, out, x)
        BY OneIs, Zenon
    <2>3. QED
        BY <2>1, <2>2, Zenon
<1>2. CASE Len(d) = 1
    <2> DEFINE x == d[1]
    <2>1. d = <<x>> /\ x \in ChunkSym /\ Append(o, x) = o \o d
        <3>1. d = <<x>> /\ x \in ChunkSym
            <4>1. d \in Seq(ChunkSym) /\ 1 \in 1 .. 1
                BY DEF ChunkText
            <4>2. x \in ChunkSym
                BY <1>2, <4>1, Elements, Zenon
            <4>3. \A v : d = <<v>> <=> Len(d) = 1 /\ d[1] = v
                BY <4>1, OneOrTwo
            <4>4. QED
                BY <1>2, <4>2, <4>3, Zenon
        <3>2. \A S : \A p \in Seq(S) : \A z \in S : Append(p, z) = p \o <<z>>
            OBVIOUS
        <3>3. QED
            BY <3>1, <3>2, Zenon DEF ChunkText
    <2> HIDE DEF x
    <2>2. All(Chunk("DAT", FALSE, 1, 0, o), <<x>>) = OneByte(0, Chunk("DAT", FALSE, 1, 0, o), x)
        BY <2>1, AllOne
    <2>3. OneByte(0, Chunk("DAT", FALSE, 1, 0, o), x) = Chunk("DAT", FALSE, 1 - 1, 0, Append(o, x))
        <3>1. 1 > 0
            OBVIOUS
        <3>2. QED
            BY <1>1, <3>1, Zenon
    <2>4. 1 - 1 = 0
        OBVIOUS
    <2>5. QED
        BY <1>2, <2>1, <2>2, <2>3, <2>4, Zenon
<1>3. CASE Len(d) = 2
    <2> DEFINE x == d[1]
               y == d[2]
    <2>1. d = <<x, y>> /\ x \in ChunkSym /\ y \in ChunkSym /\ Append(Append(o, x), y) = o \o d
        <3>1. d = <<x, y>> /\ x \in ChunkSym /\ y \in ChunkSym
            <4>1. d \in Seq(ChunkSym) /\ Len(d) = 2 /\ x \in ChunkSym /\ y \in ChunkSym
                <5>1. d \in Seq(ChunkSym) /\ Len(d) = 2 /\ 1 \in 1 .. 2 /\ 2 \in 1 .. 2
                    BY <1>3 DEF ChunkText
                <5>2. \A i \in 1 .. Len(d) : d[i] \in ChunkSym
                    BY <5>1, Elements, Zenon
                <5>3. QED
                    BY <5>1, <5>2
            <4>2. \A v, w : d = <<v, w>> <=> Len(d) = 2 /\ d[1] = v /\ d[2] = w
                BY <4>1, OneOrTwo
            <4>3. QED
                BY <4>1, <4>2, Zenon
        <3>2. \A S : \A p \in Seq(S) : \A z, w \in S : Append(Append(p, z), w) = p \o <<z, w>>
            <4>1. SUFFICES ASSUME NEW S, NEW p \in Seq(S), NEW z \in S, NEW w \in S
                           PROVE  Append(Append(p, z), w) = p \o <<z, w>>
                BY Zenon
            <4>2. /\ Append(Append(p, z), w) \in Seq(S) /\ Len(Append(Append(p, z), w)) = Len(p) + 2
                  /\ p \o <<z, w>> \in Seq(S) /\ Len(p \o <<z, w>>) = Len(p) + 2
                OBVIOUS
            <4>3. \A i \in 1 .. Len(p) + 2 : Append(Append(p, z), w)[i] = (p \o <<z, w>>)[i]
                OBVIOUS
            <4>4. QED
                BY <4>2, <4>3, SeqEqual
        <3>3. o \in Seq(ChunkSym)
            BY DEF ChunkText
        <3> HIDE DEF x, y
        <3>4. Append(Append(o, x), y) = o \o <<x, y>>
            BY <3>1, <3>2, <3>3, Zenon
        <3>5. QED
            BY <3>1, <3>4, Zenon
    <2> HIDE DEF x, y
    <2>2. All(Chunk("DAT", FALSE, 2, 0, o), <<x, y>>) =
              OneByte(0, OneByte(0, Chunk("DAT", FALSE, 2, 0, o), x), y)
        BY <2>1, AllTwo
    <2>3. 2 > 0 /\ 2 - 1 = 1 /\ 1 > 0 /\ 1 - 1 = 0
        OBVIOUS
    <2>4. OneByte(0, Chunk("DAT", FALSE, 2, 0, o), x) = Chunk("DAT", FALSE, 2 - 1, 0, Append(o, x))
        BY <1>1, <2>3, Zenon
    <2>5. OneByte(0, Chunk("DAT", FALSE, 1, 0, Append(o, x)), y) =
              Chunk("DAT", FALSE, 1 - 1, 0, Append(Append(o, x), y))
        BY <1>1, <2>3, Zenon
    <2>6. QED
        BY <1>3, <2>1, <2>2, <2>3, <2>4, <2>5, Zenon
<1>4. QED
    <2>1. Len(d) = 1 \/ Len(d) = 2
        OBVIOUS
    <2>2. QED
        BY <1>2, <1>3, <2>1, Zenon

\* The line's end behind a chunk's data; the one behind no data ends everything.
LEMMA EndOfChunk ==
    ASSUME NEW o, NEW last \in BOOLEAN
    PROVE  All(Chunk("DAT", last, 0, 0, o), <<"CR", "LF">>) =
               IF last THEN Chunk("DAT_CR", TRUE, 0, -1, o) ELSE Chunk("SZ", FALSE, 0, 0, o)
<1>1. "CR" \in ChunkSym /\ "LF" \in ChunkSym /\ "CR" \notin DOMAIN Hex /\ "LF" \notin DOMAIN Hex
    BY HexIs DEF ChunkSym
<1>2. All(Chunk("DAT", last, 0, 0, o), <<"CR", "LF">>) =
          OneByte(0, OneByte(0, Chunk("DAT", last, 0, 0, o), "CR"), "LF")
    BY <1>1, AllTwo
<1>3. ~(0 > 0) /\ "DAT_CR" # "DAT" /\ "DAT" # "SZ" /\ "DAT" # "SZ_CR" /\ "DAT" # "SZ1"
      /\ "DAT_CR" # "SZ" /\ "DAT_CR" # "SZ_CR" /\ "DAT_CR" # "SZ1" /\ "CR" # "LF"
    OBVIOUS
<1>4. OneByte(0, Chunk("DAT", last, 0, 0, o), "CR") = Chunk("DAT_CR", last, 0, 0, o)
    <2>1. OneByte(0, Chunk("DAT", last, 0, 0, o), "CR") =
              IF "DAT" = "DAT" /\ 0 > 0 THEN Chunk("DAT", last, 0 - 1, 0, Append(o, "CR"))
              ELSE Turned("DAT", last, 0, 0, o, "CR")
        BY OneIs, Zenon
    <2>2. Turned("DAT", last, 0, 0, o, "CR") = Chunk("DAT_CR", last, 0, 0, o)
        BY <1>1, <1>3, Zenon DEF Turned
    <2>3. QED
        BY <1>3, <2>1, <2>2, Zenon
<1>5. OneByte(0, Chunk("DAT_CR", last, 0, 0, o), "LF") =
          IF last THEN Chunk("DAT_CR", TRUE, 0, -1, o) ELSE Chunk("SZ", FALSE, 0, 0, o)
    <2>1. OneByte(0, Chunk("DAT_CR", last, 0, 0, o), "LF") =
              IF "DAT_CR" = "DAT" /\ 0 > 0 THEN Chunk("DAT_CR", last, 0 - 1, 0, Append(o, "LF"))
              ELSE Turned("DAT_CR", last, 0, 0, o, "LF")
        BY OneIs, Zenon
    <2>2. Turned("DAT_CR", last, 0, 0, o, "LF") =
              IF last THEN Chunk("DAT_CR", last, 0, -1, o) ELSE Chunk("SZ", last, 0, 0, o)
        BY <1>1, <1>3, Zenon DEF Turned
    <2>3. (last => (last = TRUE)) /\ (~last => (last = FALSE))
        OBVIOUS
    <2>4. QED
        BY <1>3, <2>1, <2>2, <2>3, Zenon
<1>6. QED
    BY <1>2, <1>4, <1>5, Zenon

\* A chunk as httpchunked_write has it.
LEMMA ChunkWritten ==
    ASSUME NEW d \in ChunkText, Len(d) \in 0 .. 2
    PROVE  \E h \in {"0", "1", "2"} : /\ Hex[h] = Len(d)
               /\ ChunkedWrite(d) = <<h>> \o <<"CR", "LF">> \o d \o <<"CR", "LF">>
<1> DEFINE Is(g) == g \in {<<"0">>, <<"1">>, <<"2">>} /\ Hex[g[1]] = Len(d)
           g == CHOOSE g \in {<<"0">>, <<"1">>, <<"2">>} : Hex[g[1]] = Len(d)
<1>1. Hex["0"] = 0 /\ Hex["1"] = 1 /\ Hex["2"] = 2
    <2>1. \A h \in {"0", "1", "2"} : Hex[h] = CASE h = "0" -> 0 [] h = "1" -> 1 [] h = "2" -> 2
        BY Zenon DEF Hex
    <2>2. "0" # "1" /\ "0" # "2" /\ "1" # "2"
        OBVIOUS
    <2>3. QED
        BY <2>1, <2>2, Zenon
<1>2. \E x \in {<<"0">>, <<"1">>, <<"2">>} : Hex[x[1]] = Len(d)
    <2>1. Len(d) = 0 \/ Len(d) = 1 \/ Len(d) = 2
        OBVIOUS
    <2>2. <<"0">>[1] = "0" /\ <<"1">>[1] = "1" /\ <<"2">>[1] = "2"
        OBVIOUS
    <2>3. QED
        BY <1>1, <2>1, <2>2, Zenon
<1>3. Is(g)
    BY <1>2, Zenon
<1>4. ChunkedWrite(d) = g \o <<"CR", "LF">> \o d \o <<"CR", "LF">>
    BY Zenon DEF ChunkedWrite
<1> HIDE DEF g
<1>5. PICK h \in {"0", "1", "2"} : g = <<h>> /\ Hex[h] = Len(d)
    <2>1. \A h : <<h>>[1] = h
        OBVIOUS
    <2>2. QED
        BY <1>3, <2>1, Zenon
<1>6. QED
    BY <1>4, <1>5, Zenon

\* It is read, whatever data came before it; and without data everything ends.
LEMMA ChunkRead ==
    ASSUME NEW st \in {"SZ1", "SZ"}, NEW o \in ChunkText, NEW d \in ChunkText, Len(d) \in 0 .. 2
    PROVE  /\ ChunkedWrite(d) \in ChunkText
           /\ All(Chunk(st, FALSE, 0, 0, o), ChunkedWrite(d)) =
                  IF d = <<>> THEN Chunk("DAT_CR", TRUE, 0, -1, o)
                  ELSE Chunk("SZ", FALSE, 0, 0, o \o d)
<1> DEFINE end == <<"CR", "LF">>
           c == Chunk(st, FALSE, 0, 0, o)
<1>1. PICK h \in {"0", "1", "2"} : /\ Hex[h] = Len(d)
                                  /\ ChunkedWrite(d) = <<h>> \o end \o d \o end
    BY ChunkWritten
<1>2. All(All(c, <<h>>), end) = Chunk("DAT", Len(d) = 0, Len(d), 0, o)
    <2>1. All(All(c, <<h>>), end) = Chunk("DAT", Hex[h] = 0, Hex[h], 0, o)
        BY SizeRead, Zenon
    <2>2. QED
        BY <1>1, <2>1, Zenon
<1>3. <<h>> \in ChunkText /\ end \in ChunkText
    BY DEF ChunkText, ChunkSym
<1>4. \A x, y \in ChunkText : x \o y \in ChunkText
    BY DEF ChunkText
<1>5. (d = <<>> <=> Len(d) = 0) /\ Len(d) \in Nat
    BY DEF ChunkText
<1>6. \A last \in BOOLEAN : \A p : All(Chunk("DAT", last, 0, 0, p), end) =
          IF last THEN Chunk("DAT_CR", TRUE, 0, -1, p) ELSE Chunk("SZ", FALSE, 0, 0, p)
    BY EndOfChunk
<1> HIDE DEF end, c
<1>7. All(c, <<h>> \o end \o d \o end) = All(All(All(All(c, <<h>>), end), d), end)
    <2>1. <<h>> \o end \in ChunkText /\ (<<h>> \o end) \o d \in ChunkText
        BY <1>3, <1>4
    <2>2. All(c, ((<<h>> \o end) \o d) \o end) = All(All(c, (<<h>> \o end) \o d), end)
        BY <1>3, <2>1, AllBoth
    <2>3. All(c, (<<h>> \o end) \o d) = All(All(c, <<h>> \o end), d)
        BY <2>1, AllBoth
    <2>4. All(c, <<h>> \o end) = All(All(c, <<h>>), end)
        BY <1>3, AllBoth
    <2>5. QED
        BY <2>2, <2>3, <2>4, Zenon
<1>8. CASE d = <<>>
    <2>1. Len(d) = 0 /\ ((Len(d) = 0) = TRUE) /\ TRUE \in BOOLEAN
        BY <1>5, <1>8
    <2>2. All(Chunk("DAT", TRUE, 0, 0, o), <<>>) = Chunk("DAT", TRUE, 0, 0, o)
        BY AllNone
    <2>3. All(Chunk("DAT", TRUE, 0, 0, o), end) = Chunk("DAT_CR", TRUE, 0, -1, o)
        BY <1>6, <2>1, Zenon
    <2>4. All(c, ChunkedWrite(d)) = Chunk("DAT_CR", TRUE, 0, -1, o)
        BY <1>1, <1>2, <1>7, <1>8, <2>1, <2>2, <2>3, Zenon
    <2>5. ChunkedWrite(d) \in ChunkText
        BY <1>1, <1>3, <1>4
    <2>6. QED
        BY <1>8, <2>4, <2>5, Zenon DEF c
<1>9. CASE d # <<>>
    <2>1. Len(d) \in 1 .. 2 /\ ((Len(d) = 0) = FALSE) /\ FALSE \in BOOLEAN
        BY <1>5, <1>9
    <2>2. All(Chunk("DAT", FALSE, Len(d), 0, o), d) = Chunk("DAT", FALSE, 0, 0, o \o d)
        BY <2>1, DataRead
    <2>3. All(Chunk("DAT", FALSE, 0, 0, o \o d), end) = Chunk("SZ", FALSE, 0, 0, o \o d)
        BY <1>6, <2>1, Zenon
    <2>4. All(c, ChunkedWrite(d)) = Chunk("SZ", FALSE, 0, 0, o \o d)
        BY <1>1, <1>2, <1>7, <2>1, <2>2, <2>3, Zenon
    <2>5. ChunkedWrite(d) \in ChunkText
        BY <1>1, <1>3, <1>4
    <2>6. QED
        BY <1>9, <2>4, <2>5, Zenon DEF c
<1>10. QED
    BY <1>8, <1>9

\* What httpchunked_write writes is read by httpchunked_parse.
LEMMA ChunksReadBack ==
    ASSUME NEW d \in ChunkText, Len(d) \in 1 .. 2,
           NEW r, r = Feed(NewChunked, ChunkedWrite(d) \o ChunkedWrite(<<d[1]>>)
                                       \o ChunkedWrite(<<>>))
    PROVE  r.ret = -1 /\ r.out = d \o <<d[1]>>
<1> DEFINE e == <<d[1]>>
           n == <<>>
           w1 == ChunkedWrite(d)
           w2 == ChunkedWrite(e)
           w3 == ChunkedWrite(n)
<1>1. e \in ChunkText /\ Len(e) \in 0 .. 2 /\ e # <<>> /\ d # <<>> /\ n \in ChunkText
      /\ Len(n) \in 0 .. 2 /\ n \o d = d /\ d \o e \in ChunkText /\ Len(d) \in 0 .. 2 /\ n = <<>>
    BY DEF ChunkText
<1>2. NewChunked = Chunk("SZ1", FALSE, 0, 0, n)
    BY DEF NewChunked, Chunk
<1>3. "SZ1" \in {"SZ1", "SZ"} /\ "SZ" \in {"SZ1", "SZ"}
    OBVIOUS
<1> HIDE DEF e, n
<1>4. /\ w1 \in ChunkText
      /\ All(Chunk("SZ1", FALSE, 0, 0, n), w1) = Chunk("SZ", FALSE, 0, 0, d)
    <2>1. /\ w1 \in ChunkText
          /\ All(Chunk("SZ1", FALSE, 0, 0, n), w1) =
                 IF d = <<>> THEN Chunk("DAT_CR", TRUE, 0, -1, n)
                 ELSE Chunk("SZ", FALSE, 0, 0, n \o d)
        BY <1>1, <1>3, ChunkRead
    <2>2. QED
        BY <1>1, <2>1, Zenon
<1>5. /\ w2 \in ChunkText
      /\ All(Chunk("SZ", FALSE, 0, 0, d), w2) = Chunk("SZ", FALSE, 0, 0, d \o e)
    <2>1. /\ w2 \in ChunkText
          /\ All(Chunk("SZ", FALSE, 0, 0, d), w2) =
                 IF e = <<>> THEN Chunk("DAT_CR", TRUE, 0, -1, d)
                 ELSE Chunk("SZ", FALSE, 0, 0, d \o e)
        BY <1>1, <1>3, ChunkRead
    <2>2. QED
        BY <1>1, <2>1, Zenon
<1>6. /\ w3 \in ChunkText
      /\ All(Chunk("SZ", FALSE, 0, 0, d \o e), w3) = Chunk("DAT_CR", TRUE, 0, -1, d \o e)
    <2>1. /\ w3 \in ChunkText
          /\ All(Chunk("SZ", FALSE, 0, 0, d \o e), w3) =
                 IF n = <<>> THEN Chunk("DAT_CR", TRUE, 0, -1, d \o e)
                 ELSE Chunk("SZ", FALSE, 0, 0, (d \o e) \o n)
        BY <1>1, <1>3, ChunkRead
    <2>2. QED
        BY <1>1, <2>1, Zenon
<1> HIDE DEF w1, w2, w3
<1>7. w1 \o w2 \in ChunkText /\ (w1 \o w2) \o w3 \in ChunkText
    BY <1>4, <1>5, <1>6 DEF ChunkText
<1>8. r = Feed(NewChunked, (w1 \o w2) \o w3)
    BY <1>1, Zenon DEF w1, w2, w3, e, n
<1>9. Feed(NewChunked, (w1 \o w2) \o w3) = All(NewChunked, (w1 \o w2) \o w3)
    <2>1. IsChunk(NewChunked) /\ NewChunked.ret \in Ret /\ NewChunked = Emptied(NewChunked)
        BY NewIs DEF Ret
    <2>2. Feed(NewChunked, (w1 \o w2) \o w3) = All(Emptied(NewChunked), (w1 \o w2) \o w3)
        BY <1>7, <2>1, FeedIs
    <2>3. QED
        BY <2>1, <2>2, Zenon
<1>10. All(NewChunked, (w1 \o w2) \o w3) = All(All(All(NewChunked, w1), w2), w3)
    <2>1. All(NewChunked, (w1 \o w2) \o w3) = All(All(NewChunked, w1 \o w2), w3)
        BY <1>6, <1>7, AllBoth
    <2>2. All(NewChunked, w1 \o w2) = All(All(NewChunked, w1), w2)
        BY <1>4, <1>5, AllBoth
    <2>3. QED
        BY <2>1, <2>2, Zenon
<1>11. r = Chunk("DAT_CR", TRUE, 0, -1, d \o e)
    BY <1>2, <1>4, <1>5, <1>6, <1>8, <1>9, <1>10, Zenon
<1>12. QED
    BY <1>11 DEF Chunk, e

-----------------------------------------------------------------------------
(* What is written is read: lines of each kind *)

\* A line that fits is written.
LEMMA WrittenIs ==
    ASSUME NEW t \in Text, NEW cap \in Nat, Len(t) <= cap
    PROVE  Written(cap, t) = t
<1>1. ~(Len(t) > cap)
    BY DEF Text
<1>2. QED
    BY <1>1, Zenon DEF Written

LEMMA RequestBack ==
    ASSUME NEW s \in Text, NEW p, p = ReqParse(s), p.n > 2
    PROVE  ReqParse(ReqWrite(Len(s) + 8, p.part[1], p.part[2])).part
               = <<p.part[1], p.part[2], Version>>
<1> DEFINE n == p.n
           l == SubSeq(s, 1, n)
           a == p.part[1]
           b == p.part[2]
           t == a \o <<"SP">> \o b \o <<"SP">> \o Version \o <<"CR", "LF">>
<1>1. p.n \notin {-1, 0}
    OBVIOUS
<1>2. FirstLine(s, n) /\ RequestOf(l, p.part)
    BY <1>1, ReqAccepts
<1>3. n \in 0 .. Len(s) /\ Len(s) \in Nat /\ n <= Len(s) /\ Len(s) + 8 \in Nat
    BY <1>2 DEF FirstLine, Text
<1> HIDE DEF n
<1>4. l \in Text /\ Len(l) = n
    BY <1>3, CutIs
<1> HIDE DEF l
<1>5. /\ a \in Text /\ b \in Text /\ a # <<>> /\ b # <<>>
      /\ \A i \in 1 .. Len(a) : a[i] = "U"
      /\ \A i \in 1 .. Len(b) : b[i] \in Printable
      /\ Len(a) + Len(b) <= Len(l)
    BY <1>2, <1>4, ReqParts
<1> HIDE DEF a, b
<1>6. ReqText(t, a, b)
    BY <1>5, ReqWritten
<1>7. ReqWrite(Len(s) + 8, a, b) = Written(Len(s) + 8, t)
    BY Zenon DEF ReqWrite
<1> HIDE DEF t
<1>8. t \in Text /\ Len(t) <= Len(s) + 8
    BY <1>3, <1>4, <1>5, <1>6 DEF ReqText, Text
<1>9. Written(Len(s) + 8, t) = t
    BY <1>3, <1>8, WrittenIs
<1>10. ReqParse(t).part = <<a, b, Version>>
    BY <1>5, <1>6, ReqReadBack
<1>11. QED
    BY <1>7, <1>9, <1>10, Zenon DEF a, b

LEMMA ResponseBack ==
    ASSUME NEW s \in Text, NEW p, p = RespParse(s), p.n > 2
    PROVE  RespParse(RespWrite(Len(s) + 8, p.part[2], p.part[3])).part
               = <<Version, p.part[2], p.part[3]>>
<1> DEFINE n == p.n
           l == SubSeq(s, 1, n)
           a == p.part[2]
           b == p.part[3]
           t == Version \o <<"SP">> \o a \o <<"SP">> \o b \o <<"CR", "LF">>
<1>1. p.n \notin {-1, 0}
    OBVIOUS
<1>2. FirstLine(s, n) /\ StatusOf(l, p.part)
    BY <1>1, RespAccepts
<1>3. n \in 0 .. Len(s) /\ Len(s) \in Nat /\ n <= Len(s) /\ Len(s) + 8 \in Nat
    BY <1>2 DEF FirstLine, Text
<1> HIDE DEF n
<1>4. l \in Text /\ Len(l) = n
    BY <1>3, CutIs
<1> HIDE DEF l
<1>5. /\ a \in Text /\ b \in Text /\ Len(a) = 3
      /\ \A i \in 1 .. Len(a) : a[i] \in Digit
      /\ \A i \in 1 .. Len(b) : b[i] \in Words
      /\ 3 + Len(b) <= Len(l)
    BY <1>2, <1>4, RespParts
<1> HIDE DEF a, b
<1>6. RespText(t, a, b)
    BY <1>5, RespWritten
<1>7. RespWrite(Len(s) + 8, a, b) = Written(Len(s) + 8, t)
    BY Zenon DEF RespWrite
<1> HIDE DEF t
<1>8. t \in Text /\ Len(t) <= Len(s) + 8
    BY <1>3, <1>4, <1>5, <1>6 DEF RespText, Text
<1>9. Written(Len(s) + 8, t) = t
    BY <1>3, <1>8, WrittenIs
<1>10. RespParse(t).part = <<Version, a, b>>
    BY <1>5, <1>6, RespReadBack
<1>11. QED
    BY <1>7, <1>9, <1>10, Zenon DEF a, b

LEMMA HeaderBack ==
    ASSUME NEW s \in Text, NEW p, p = HdrParse(s), p.n > 2
    PROVE  HdrParse(HdrWrite(Len(s) + 8, p.part[1], p.part[2])).part = p.part
<1> DEFINE n == p.n
           l == SubSeq(s, 1, n)
           a == p.part[1]
           b == p.part[2]
           t == a \o <<":", "SP">> \o b \o <<"CR", "LF">>
<1>1. p.n \notin {-1, 0, 1, 2}
    OBVIOUS
<1>2. FirstLine(s, n) /\ HeaderOf(l, p.part)
    BY <1>1, HdrAccepts
<1>3. n \in 0 .. Len(s) /\ Len(s) \in Nat /\ n <= Len(s) /\ Len(s) + 8 \in Nat
    BY <1>2 DEF FirstLine, Text
<1> HIDE DEF n
<1>4. l \in Text /\ Len(l) = n
    BY <1>3, CutIs
<1> HIDE DEF l
<1>5. /\ p.part = <<a, b>>
      /\ a \in Text /\ b \in Text /\ a # <<>> /\ a[1] # "-"
      /\ \A i \in 1 .. Len(a) : a[i] \in Name
      /\ \A i \in 1 .. Len(b) : b[i] \notin Ends
      /\ b # <<>> => b[1] # "SP" /\ b[Len(b)] # "SP"
      /\ Len(a) + Len(b) <= Len(l)
    BY <1>2, <1>4, HdrParts
<1> HIDE DEF a, b
<1>6. HdrText(t, a, b)
    BY <1>5, HdrWritten
<1>7. HdrWrite(Len(s) + 8, a, b) = Written(Len(s) + 8, t)
    BY Zenon DEF HdrWrite
<1> HIDE DEF t
<1>8. t \in Text /\ Len(t) <= Len(s) + 8
    BY <1>3, <1>4, <1>5, <1>6 DEF HdrText, Text
<1>9. Written(Len(s) + 8, t) = t
    BY <1>3, <1>8, WrittenIs
<1>10. HdrParse(t).part = <<a, b>>
    BY <1>5, <1>6, HdrReadBack
<1>11. QED
    BY <1>5, <1>7, <1>9, <1>10, Zenon DEF a, b

-----------------------------------------------------------------------------
(* What is written is read: paths *)

\* The symbols that httpurl_escape is given, what it writes for one, and what is read then.
Unmarked == {"2", "F", "x", "c"}
EscapeOf(x) == IF x = "c" THEN <<"%">> \o <<"2", "2">> ELSE <<x>>
ReadAs(x) == IF x = "c" THEN "2" \o "2" ELSE x

EscapeStep(u, v, k) == IF k = 0 THEN <<>> ELSE v \o EscapeOf(u[k])
Escapes == INSTANCE Unfolding WITH Op <- EscapeStep

LEMMA EscapeIs ==
    ASSUME NEW A, NEW u \in Seq(A)
    PROVE  \E f : /\ UrlEscape(u, <<"2", "2">>) = f[Len(u)]
                 /\ f[0] = <<>>
                 /\ \A k \in 1 .. Len(u) : f[k] = f[k - 1] \o EscapeOf(u[k])
<1> DEFINE D == 0 .. Len(u)
           mu == [k \in D |-> k]
           nx == [k \in D |-> IF k = 0 THEN 0 ELSE k - 1]
           Is(f) == f = [k \in D |-> IF k = 0 THEN <<>>
                                    ELSE f[k - 1] \o (IF u[k] = "c" THEN <<"%">> \o <<"2", "2">>
                                                      ELSE <<u[k]>>)]
<1>1. Len(u) \in Nat /\ mu \in [D -> 0 .. Len(u)]
    OBVIOUS
<1>2. Escapes!Descends(u, D, mu, nx)
    <2>1. SUFFICES ASSUME NEW k \in D
                   PROVE  \/ nx[k] \in D /\ mu[nx[k]] < mu[k]
                          \/ \A v, w : EscapeStep(u, v, k) = EscapeStep(u, w, k)
        BY DEF Escapes!Descends
    <2>2. CASE k = 0
        BY <2>2 DEF EscapeStep
    <2>3. CASE k # 0
        BY <1>1, <2>3
    <2>4. QED
        BY <2>2, <2>3
<1>3. PICK f : Escapes!Unfolds(f, u, D, nx)
    <2> HIDE DEF D, mu, nx, Is
    <2> QED BY <1>1, <1>2, Escapes!RecursionExists
<1>4. Is(f)
    <2>1. ASSUME NEW k \in D
          PROVE  f[k] = IF k = 0 THEN <<>>
                        ELSE f[k - 1] \o (IF u[k] = "c" THEN <<"%">> \o <<"2", "2">> ELSE <<u[k]>>)
        <3>1. f[k] = EscapeStep(u, f[nx[k]], k)
            <4> HIDE DEF nx
            <4> QED BY <1>3 DEF Escapes!Unfolds
        <3>2. k # 0 => nx[k] = k - 1
            OBVIOUS
        <3> HIDE DEF nx
        <3>3. QED
            BY <3>1, <3>2, Zenon DEF EscapeStep, EscapeOf
    <2>2. f = [k \in D |-> f[k]]
        <3> HIDE DEF nx, D
        <3> QED BY <1>3 DEF Escapes!Unfolds
    <2> HIDE DEF nx, D
    <2>3. QED
        BY <2>1, <2>2, Zenon
<1>5. UrlEscape(u, <<"2", "2">>) = (CHOOSE g : Is(g))[Len(u)]
    BY Zenon DEF UrlEscape
<1>6. Is(CHOOSE g : Is(g))
    <2> HIDE DEF Is
    <2> QED BY <1>4, Zenon
<1> DEFINE g == CHOOSE g : Is(g)
<1>7. \A k \in D : g[k] = IF k = 0 THEN <<>>
                        ELSE g[k - 1] \o (IF u[k] = "c" THEN <<"%">> \o <<"2", "2">> ELSE <<u[k]>>)
    <2>1. g = [k \in D |-> IF k = 0 THEN <<>>
                        ELSE g[k - 1] \o (IF u[k] = "c" THEN <<"%">> \o <<"2", "2">> ELSE <<u[k]>>)]
        BY <1>6
    <2> HIDE DEF g, D
    <2>2. QED
        BY <2>1, Zenon
<1>8. UrlEscape(u, <<"2", "2">>) = g[Len(u)]
    BY <1>5
<1> HIDE DEF g, Is
<1>9. 0 \in D /\ \A k \in 1 .. Len(u) : k \in D /\ k # 0
    BY <1>1
<1> HIDE DEF D
<1>10. QED
    BY <1>7, <1>8, <1>9, Zenon DEF EscapeOf

\* One more symbol is written: it is one position that is left, and what was written before
\* stays what it was.
EscapedMore(e, x, t) ==
    LET n == Len(e)
    IN  /\ t \in Seq(PathSymbol) /\ WellEscaped(t) /\ Len(t) \in n + 1 .. n + 3
        /\ \A i \in 1 .. n : i \in Escaped(t) <=> i \in Escaped(e)
        /\ n + 1 \notin Escaped(t) /\ \A i \in n + 2 .. Len(t) : i \in Escaped(t)
        /\ ByteAt(t, n + 1) = ReadAs(x)
        /\ \A i \in 1 .. n : ByteAt(t, i) = ByteAt(e, i)

LEMMA WellAre ==
    ASSUME NEW s \in Seq(PathSymbol), NEW n, n = Len(s)
    PROVE  /\ \A j : j \in Escaped(s) <=> \E i \in 1 .. n : s[i] = "%" /\ (j = i + 1 \/ j = i + 2)
           /\ WellEscaped(s) <=> /\ \A i \in 1 .. n : s[i] # "c"
                                 /\ \A k \in Escaped(s) : k \in 1 .. n /\ s[k] \in Digits
<1>1. DOMAIN s = 1 .. n
    OBVIOUS
<1>2. QED
    BY <1>1 DEF Escaped, WellEscaped, ToSet

\* The bytes before stay what they were.
LEMMA BytesStay ==
    ASSUME NEW e \in Seq(PathSymbol), WellEscaped(e), NEW t, \A i \in 1 .. Len(e) : t[i] = e[i]
    PROVE  \A i \in 1 .. Len(e) : ByteAt(t, i) = ByteAt(e, i)
<1>1. SUFFICES ASSUME NEW i \in 1 .. Len(e) PROVE ByteAt(t, i) = ByteAt(e, i)
    OBVIOUS
<1>2. e[i] = "%" => i + 1 \in 1 .. Len(e) /\ i + 2 \in 1 .. Len(e)
    BY WellAre
<1>3. e[i] = "%" => t[i + 1] = e[i + 1] /\ t[i + 2] = e[i + 2]
    BY <1>2
<1>4. t[i] = e[i]
    OBVIOUS
<1>5. QED
    BY <1>3, <1>4, Zenon DEF ByteAt

LEMMA PlainNext ==
    ASSUME NEW e \in Seq(PathSymbol), WellEscaped(e), NEW n, n = Len(e), NEW x, x # "c", x # "%",
           NEW t \in Seq(PathSymbol), Len(t) = n + 1, t[n + 1] = x, \A i \in 1 .. n : t[i] = e[i]
    PROVE  EscapedMore(e, x, t)
<1>1. /\ \A j : j \in Escaped(e) <=> \E i \in 1 .. n : e[i] = "%" /\ (j = i + 1 \/ j = i + 2)
      /\ \A i \in 1 .. n : e[i] # "c"
      /\ \A k \in Escaped(e) : k \in 1 .. n /\ e[k] \in Digits
      /\ n \in Nat
    BY WellAre
<1> DEFINE m == n + 1
<1>2. m = Len(t)
    OBVIOUS
<1> HIDE DEF m
<1>3. /\ \A j : j \in Escaped(t) <=> \E i \in 1 .. m : t[i] = "%" /\ (j = i + 1 \/ j = i + 2)
      /\ WellEscaped(t) <=> /\ \A i \in 1 .. m : t[i] # "c"
                            /\ \A k \in Escaped(t) : k \in 1 .. m /\ t[k] \in Digits
    BY <1>2, WellAre
<1>4. \A j : j \in Escaped(t) <=> j \in Escaped(e)
    <2>1. \A i \in 1 .. m : t[i] = "%" => i \in 1 .. n /\ e[i] = "%"
        BY <1>1 DEF m
    <2>2. \A i \in 1 .. n : e[i] = "%" => i \in 1 .. m /\ t[i] = "%"
        BY <1>1 DEF m
    <2>3. QED
        BY <1>1, <1>3, <2>1, <2>2
<1>5. WellEscaped(t)
    <2>1. \A i \in 1 .. m : t[i] # "c"
        BY <1>1 DEF m
    <2>2. \A k \in Escaped(t) : k \in 1 .. m /\ t[k] \in Digits
        BY <1>1, <1>4 DEF m
    <2>3. QED
        BY <1>3, <2>1, <2>2
<1>6. n + 1 \notin Escaped(t) /\ \A i \in n + 2 .. Len(t) : i \in Escaped(t)
    BY <1>1, <1>4
<1>7. ByteAt(t, n + 1) = ReadAs(x)
    BY Zenon DEF ByteAt, ReadAs
<1>8. \A i \in 1 .. n : ByteAt(t, i) = ByteAt(e, i)
    BY BytesStay
<1>9. Len(t) \in n + 1 .. n + 3
    BY <1>1
<1>10. QED
    BY <1>4, <1>5, <1>6, <1>7, <1>8, <1>9 DEF EscapedMore

LEMMA MarkedNext ==
    ASSUME NEW e \in Seq(PathSymbol), WellEscaped(e), NEW n, n = Len(e),
           NEW t \in Seq(PathSymbol), Len(t) = n + 3,
           t[n + 1] = "%", t[n + 2] = "2", t[n + 3] = "2",
           \A i \in 1 .. n : t[i] = e[i]
    PROVE  EscapedMore(e, "c", t)
<1>1. /\ \A j : j \in Escaped(e) <=> \E i \in 1 .. n : e[i] = "%" /\ (j = i + 1 \/ j = i + 2)
      /\ \A i \in 1 .. n : e[i] # "c"
      /\ \A k \in Escaped(e) : k \in 1 .. n /\ e[k] \in Digits
      /\ n \in Nat
    BY WellAre
<1> DEFINE m == n + 3
<1>2. m = Len(t) /\ "2" \in Digits
    BY DEF Digits
<1> HIDE DEF m
<1>3. /\ \A j : j \in Escaped(t) <=> \E i \in 1 .. m : t[i] = "%" /\ (j = i + 1 \/ j = i + 2)
      /\ WellEscaped(t) <=> /\ \A i \in 1 .. m : t[i] # "c"
                            /\ \A k \in Escaped(t) : k \in 1 .. m /\ t[k] \in Digits
    BY <1>2, WellAre
<1>4. \A i \in 1 .. m : i \in 1 .. n \/ i = n + 1 \/ i = n + 2 \/ i = n + 3
    BY <1>1 DEF m
<1>5. \A j : j \in Escaped(t) <=> j \in Escaped(e) \/ j = n + 2 \/ j = n + 3
    <2>1. \A i \in 1 .. m : t[i] = "%" => (i \in 1 .. n /\ e[i] = "%") \/ i = n + 1
        BY <1>4
    <2>2. \A i \in 1 .. n : e[i] = "%" => i \in 1 .. m /\ t[i] = "%"
        BY <1>1 DEF m
    <2>3. n + 1 \in 1 .. m /\ (n + 1) + 1 = n + 2 /\ (n + 1) + 2 = n + 3
        BY <1>1 DEF m
    <2>4. ASSUME NEW j, j \in Escaped(t) PROVE j \in Escaped(e) \/ j = n + 2 \/ j = n + 3
        <3>1. PICK i \in 1 .. m : t[i] = "%" /\ (j = i + 1 \/ j = i + 2)
            BY <1>3, <2>4, Zenon
        <3>2. CASE i \in 1 .. n /\ e[i] = "%"
            BY <1>1, <3>1, <3>2, Zenon
        <3>3. CASE i = n + 1
            BY <2>3, <3>1, <3>3, Zenon
        <3>4. QED
            BY <2>1, <3>1, <3>2, <3>3, Zenon
    <2>5. ASSUME NEW j, j \in Escaped(e) PROVE j \in Escaped(t)
        <3>1. PICK i \in 1 .. n : e[i] = "%" /\ (j = i + 1 \/ j = i + 2)
            BY <1>1, <2>5, Zenon
        <3>2. QED
            BY <1>3, <2>2, <3>1, Zenon
    <2>6. n + 2 \in Escaped(t) /\ n + 3 \in Escaped(t)
        BY <1>3, <2>3, Zenon
    <2>7. QED
        BY <2>4, <2>5, <2>6, Zenon
<1>6. WellEscaped(t)
    <2>1. \A i \in 1 .. m : t[i] # "c"
        BY <1>1, <1>4
    <2>2. \A k \in Escaped(t) : k \in 1 .. m /\ t[k] \in Digits
        BY <1>1, <1>2, <1>5 DEF m
    <2>3. QED
        BY <1>3, <2>1, <2>2
<1>7. n + 1 \notin Escaped(t) /\ \A i \in n + 2 .. Len(t) : i \in Escaped(t)
    BY <1>1, <1>5
<1>8. ByteAt(t, n + 1) = ReadAs("c")
    <2>1. (n + 1) + 1 = n + 2 /\ (n + 1) + 2 = n + 3
        BY <1>1
    <2>2. QED
        BY <2>1, Zenon DEF ByteAt, ReadAs
<1>9. \A i \in 1 .. n : ByteAt(t, i) = ByteAt(e, i)
    BY BytesStay
<1>10. \A i \in 1 .. n : i \in Escaped(t) <=> i \in Escaped(e)
    BY <1>1, <1>5
<1>11. Len(t) \in n + 1 .. n + 3
    BY <1>1
<1>12. QED
    BY <1>6, <1>7, <1>8, <1>9, <1>10, <1>11 DEF EscapedMore

\* Three more symbols in a sequence.
LEMMA ThreeMore ==
    ASSUME NEW S, NEW e \in Seq(S), NEW y \in S, NEW z \in S, NEW n, n = Len(e),
           NEW t, t = e \o (<<y>> \o <<z, z>>)
    PROVE  /\ t \in Seq(S) /\ Len(t) = n + 3 /\ t[n + 1] = y /\ t[n + 2] = z /\ t[n + 3] = z
           /\ \A i \in 1 .. n : t[i] = e[i]
<1> DEFINE w == <<y>> \o <<z, z>>
<1>1. w \in Seq(S) /\ Len(w) = 3 /\ w[1] = y /\ w[2] = z /\ w[3] = z
    OBVIOUS
<1>2. t = e \o w /\ n \in Nat
    OBVIOUS
<1> HIDE DEF w
<1>3. /\ t \in Seq(S) /\ Len(t) = n + 3 /\ \A i \in 1 .. n : t[i] = e[i]
      /\ \A i \in 1 .. 3 : t[n + i] = w[i]
    BY <1>1, <1>2
<1>4. QED
    BY <1>1, <1>3

LEMMA EscapeNext ==
    ASSUME NEW e \in Seq(PathSymbol), WellEscaped(e), NEW x \in Unmarked,
           NEW t, t = e \o EscapeOf(x)
    PROVE  EscapedMore(e, x, t)
<1> DEFINE n == Len(e)
<1>1. n \in Nat /\ n = Len(e)
    OBVIOUS
<1> HIDE DEF n
<1>2. CASE x # "c"
    <2>1. EscapeOf(x) = <<x>> /\ x \in PathSymbol /\ x # "%"
        BY <1>2 DEF EscapeOf, Unmarked, PathSymbol
    <2>2. /\ t \in Seq(PathSymbol) /\ Len(t) = n + 1 /\ t[n + 1] = x
          /\ \A i \in 1 .. n : t[i] = e[i]
        BY <1>1, <2>1
    <2>3. QED
        BY <1>1, <1>2, <2>1, <2>2, PlainNext
<1>3. CASE x = "c"
    <2>1. "%" \in PathSymbol /\ "2" \in PathSymbol
        BY DEF PathSymbol
    <2>2. t = e \o (<<"%">> \o <<"2", "2">>)
        BY <1>3, Zenon DEF EscapeOf
    <2> DEFINE y == "%"
               z == "2"
    <2>3. t = e \o (<<y>> \o <<z, z>>) /\ y \in PathSymbol /\ z \in PathSymbol
        BY <2>1, <2>2
    <2> HIDE DEF y, z
    <2>4. /\ t \in Seq(PathSymbol) /\ Len(t) = n + 3
          /\ t[n + 1] = y /\ t[n + 2] = z /\ t[n + 3] = z
          /\ \A i \in 1 .. n : t[i] = e[i]
        BY <1>1, <2>3, ThreeMore
    <2>5. EscapedMore(e, "c", t)
        BY <1>1, <2>4, MarkedNext DEF y, z
    <2>6. QED
        BY <1>3, <2>5
<1>4. QED
    BY <1>2, <1>3

\* The text `e` is the first `k` symbols of `s` as httpurl_escape writes them.
EscapedAs(e, s, k) ==
    /\ e \in Seq(PathSymbol) /\ WellEscaped(e) /\ Count(e, 1, Len(e)) = k
    /\ \A j \in 1 .. k : \E i \in 1 .. Len(e) :
           i \notin Escaped(e) /\ Count(e, 1, i) = j /\ ByteAt(e, i) = ReadAs(s[j])

LEMMA EscapedOne ==
    ASSUME NEW s, NEW k \in Nat, NEW e, EscapedAs(e, s, k), s[k + 1] \in Unmarked,
           NEW t, t = e \o EscapeOf(s[k + 1])
    PROVE  EscapedAs(t, s, k + 1)
<1> DEFINE n == Len(e)
           x == s[k + 1]
<1>1. /\ e \in Seq(PathSymbol) /\ WellEscaped(e) /\ Count(e, 1, n) = k
      /\ n \in Nat /\ x \in Unmarked
      /\ \A j \in 1 .. k : \E i \in 1 .. n :
             i \notin Escaped(e) /\ Count(e, 1, i) = j /\ ByteAt(e, i) = ReadAs(s[j])
    BY DEF EscapedAs
<1>2. /\ t \in Seq(PathSymbol) /\ WellEscaped(t) /\ Len(t) \in n + 1 .. n + 3
      /\ \A i \in 1 .. n : i \in Escaped(t) <=> i \in Escaped(e)
      /\ n + 1 \notin Escaped(t) /\ \A i \in n + 2 .. Len(t) : i \in Escaped(t)
      /\ ByteAt(t, n + 1) = ReadAs(x)
      /\ \A i \in 1 .. n : ByteAt(t, i) = ByteAt(e, i)
    <2>1. EscapedMore(e, x, t)
        BY <1>1, EscapeNext
    <2>2. QED
        BY <2>1, Zenon DEF EscapedMore
<1> DEFINE m == Len(t)
<1>3. m \in Int /\ n \in Int /\ n + 1 <= m /\ 1 - 1 <= n /\ 1 - 1 <= n + 1 /\ n + 2 = (n + 1) + 1
      /\ n <= n + 1 /\ n + 1 \in Int /\ (n + 1) - 1 <= n + 1 /\ (n + 2) - 1 <= m /\ n + 2 \in Int
    BY <1>1, <1>2
<1> HIDE DEF n, m, x
<1>4. \A i \in 0 .. n : Count(t, 1, i) = Count(e, 1, i)
    <2>1. SUFFICES ASSUME NEW i \in 0 .. n PROVE Count(t, 1, i) = Count(e, 1, i)
        OBVIOUS
    <2>2. {j \in 1 .. i : j \notin Escaped(t)} = {j \in 1 .. i : j \notin Escaped(e)}
        <3>1. \A j \in 1 .. i : j \in 1 .. n
            BY <1>3
        <3>2. QED
            BY <1>2, <3>1
    <2>3. QED
        BY <2>2, Zenon DEF Count
<1>5. Count(t, 1, n + 1) = k + 1
    <2>1. Count(t, 1, n) = k
        <3>1. n \in 0 .. n
            BY <1>1
        <3>2. QED
            BY <1>1, <1>4, <3>1
    <2>2. Count(t, n + 1, n + 1) = 1
        <3>1. \A j \in n + 1 .. n + 1 : j \notin Escaped(t)
            BY <1>2, <1>3
        <3>2. Count(t, n + 1, n + 1) = (n + 1) - (n + 1) + 1
            BY <1>3, <3>1, CountAll
        <3>3. QED
            BY <1>3, <3>2
    <2>3. Count(t, 1, n + 1) = Count(t, 1, n) + Count(t, n + 1, n + 1)
        BY <1>3, CountJoins
    <2>4. QED
        BY <2>1, <2>2, <2>3
<1>6. Count(t, 1, m) = k + 1
    <2> DEFINE a == n + 1
               b == n + 2
    <2>1. a \in Int /\ b \in Int /\ a + 1 = b /\ 1 - 1 <= a /\ a <= m /\ b - 1 <= m
          /\ Count(t, 1, a) = k + 1 /\ \A j \in b .. m : j \in Escaped(t)
        BY <1>2, <1>3, <1>5 DEF m
    <2> HIDE DEF a, b
    <2>2. Count(t, b, m) = 0
        BY <1>3, <2>1, CountAll
    <2>3. Count(t, 1, m) = Count(t, 1, a) + Count(t, a + 1, m)
        BY <1>3, <2>1, CountJoins
    <2>4. QED
        BY <2>1, <2>2, <2>3
<1>7. ASSUME NEW j \in 1 .. k + 1
      PROVE  \E i \in 1 .. m :
                 i \notin Escaped(t) /\ Count(t, 1, i) = j /\ ByteAt(t, i) = ReadAs(s[j])
    <2>1. CASE j = k + 1
        <3>1. n + 1 \in 1 .. m
            BY <1>1, <1>3
        <3>2. QED
            BY <1>2, <1>5, <2>1, <3>1 DEF x
    <2>2. CASE j # k + 1
        <3>1. j \in 1 .. k
            BY <2>2
        <3>2. PICK i \in 1 .. n : i \notin Escaped(e) /\ Count(e, 1, i) = j
                                  /\ ByteAt(e, i) = ReadAs(s[j])
            BY <1>1, <3>1
        <3>3. i \in 1 .. m /\ i \in 0 .. n
            BY <1>3
        <3>4. i \notin Escaped(t) /\ Count(t, 1, i) = j /\ ByteAt(t, i) = ReadAs(s[j])
            BY <1>2, <1>4, <3>2, <3>3
        <3>5. QED
            BY <3>3, <3>4
    <2>3. QED
        BY <2>1, <2>2
<1>8. QED
    BY <1>2, <1>6, <1>7 DEF EscapedAs, m

LEMMA EscapedAll ==
    ASSUME NEW s \in Seq(Unmarked)
    PROVE  EscapedAs(UrlEscape(s, <<"2", "2">>), s, Len(s))
<1>1. PICK f : /\ UrlEscape(s, <<"2", "2">>) = f[Len(s)]
               /\ f[0] = <<>>
               /\ \A k \in 1 .. Len(s) : f[k] = f[k - 1] \o EscapeOf(s[k])
    BY EscapeIs
<1> DEFINE S == {k \in 0 .. Len(s) : EscapedAs(f[k], s, k)}
<1>2. 0 \in S
    <2>1. <<>> \in Seq(PathSymbol) /\ Len(<<>>) = 0 /\ 0 \in 0 .. Len(s)
        OBVIOUS
    <2>2. WellEscaped(<<>>)
        BY DEF WellEscaped, Escaped, ToSet
    <2>3. Count(<<>>, 1, 0) = 0
        <3>1. {k \in 1 .. 0 : k \notin Escaped(<<>>)} = {}
            OBVIOUS
        <3>2. QED
            BY <3>1, FS_EmptySet, Zenon DEF Count
    <2>4. \A j \in 1 .. 0 : FALSE
        OBVIOUS
    <2>5. EscapedAs(<<>>, s, 0)
        BY <2>1, <2>2, <2>3, <2>4 DEF EscapedAs
    <2>6. QED
        BY <1>1, <2>1, <2>5
<1>3. \A k \in 0 .. Len(s) - 1 : k \in S => k + 1 \in S
    <2>1. SUFFICES ASSUME NEW k \in 0 .. Len(s) - 1, k \in S PROVE k + 1 \in S
        OBVIOUS
    <2>2. k + 1 \in 1 .. Len(s) /\ k + 1 \in 0 .. Len(s) /\ (k + 1) - 1 = k /\ k \in Nat
        OBVIOUS
    <2>3. s[k + 1] \in Unmarked
        BY <2>2
    <2>4. f[k + 1] = f[k] \o EscapeOf(s[k + 1])
        BY <1>1, <2>2
    <2>5. EscapedAs(f[k], s, k)
        BY <2>1
    <2>6. EscapedAs(f[k + 1], s, k + 1)
        BY <2>2, <2>3, <2>4, <2>5, EscapedOne
    <2>7. QED
        BY <2>2, <2>6
<1> HIDE DEF S
<1>4. \A k \in 0 .. Len(s) : k \in S
    BY <1>2, <1>3, Escapes!UpTo
<1>5. QED
    BY <1>1, <1>4 DEF S

\* A text that is well escaped is unescaped.
LEMMA WholeUnescaped ==
    ASSUME NEW e \in Seq(PathSymbol), WellEscaped(e), NEW un, un = UrlUnescape(e, UnescapedSize(e))
    PROVE  Unescaped(e, 1, un) /\ un = [ok |-> un.ok, out |-> un.out]
<1> DEFINE cap == UnescapedSize(e)
<1>1. Len(e) \in Nat /\ 1 \in 1 .. Len(e) + 1 /\ 1 \in 1 .. Len(e) + 3
    OBVIOUS
<1>2. PICK g : cap = g[1] /\ \A k \in 1 .. Len(e) + 3 : g[k] =
             SizeStep(e, g[Past(e, k, Plain) + 3], k)
    BY SizeIs
<1>3. 1 \notin Escaped(e)
    BY WellAre
<1>4. cap \in Nat
    <2>1. \A k \in 1 .. Len(e) + 3 : g[k] \in Nat
        BY <1>2, SizeIsNat
    <2>2. QED
        BY <1>1, <1>2, <2>1
<1> HIDE DEF cap
<1>5. cap = Count(e, 1, Len(e))
    <2>1. \A k \in 1 .. Len(e) + 1 : k \notin Escaped(e) => g[k] = Count(e, k, Len(e))
        BY <1>2, RoomNeeded
    <2>2. QED
        BY <1>1, <1>2, <1>3, <2>1
<1>6. PICK f : un = f[<<1, cap>>] /\ Recursion(e, cap, f)
    <2>1. un = UrlUnescape(e, cap)
        BY DEF cap
    <2>2. \E f : UrlUnescape(e, cap) = f[<<1, cap>>] /\ Recursion(e, cap, f)
        BY <1>4, UnescapeIs, Zenon DEF Recursion
    <2>3. QED
        BY <2>1, <2>2
<1>7. cap \in 0 .. cap /\ cap >= Count(e, 1, Len(e))
    BY <1>4, <1>5
<1>8. Unescaped(e, 1, un)
    <2>1. \A room \in 0 .. cap : room >= Count(e, 1, Len(e)) => Unescaped(e, 1, f[<<1, room>>])
        BY <1>1, <1>3, <1>4, <1>6, WellUnescaped
    <2>2. QED
        BY <1>6, <1>7, <2>1
<1>9. un = [ok |-> un.ok, out |-> un.out]
    <2>1. \E v : un = UnescapeStep(e, v, <<1, cap>>)
        BY <1>1, <1>6, <1>7, Zenon DEF Recursion
    <2>2. PICK a, b : un = [ok |-> a, out |-> b]
        BY <2>1, Zenon DEF UnescapeStep
    <2>3. QED
        BY <2>2
<1>10. QED
    BY <1>8, <1>9

\* What httpurl_escape writes is read by httpurl_unescape.
LEMMA PathBack ==
    ASSUME NEW s \in Seq(Unmarked), NEW e, e = UrlEscape(s, <<"2", "2">>)
    PROVE  UrlUnescape(e, UnescapedSize(e)) =
               [ok |-> TRUE, out |-> [k \in DOMAIN s |-> ReadAs(s[k])]]
<1> DEFINE un == UrlUnescape(e, UnescapedSize(e))
           n == Len(e)
<1>1. /\ e \in Seq(PathSymbol) /\ WellEscaped(e) /\ Count(e, 1, n) = Len(s)
      /\ \A j \in 1 .. Len(s) : \E i \in 1 .. n :
             i \notin Escaped(e) /\ Count(e, 1, i) = j /\ ByteAt(e, i) = ReadAs(s[j])
    <2>1. EscapedAs(e, s, Len(s))
        BY EscapedAll, Zenon
    <2>2. QED
        BY <2>1, Zenon DEF EscapedAs
<1>2. Unescaped(e, 1, un) /\ un = [ok |-> un.ok, out |-> un.out]
    BY <1>1, WholeUnescaped
<1> HIDE DEF un
<1>3. /\ un.ok = TRUE /\ un.out \in Seq(Bytewise(e)) /\ Len(un.out) = Len(s)
      /\ \A j \in 1 .. n : j \notin Escaped(e) => un.out[Count(e, 1, j)] = ByteAt(e, j)
    BY <1>1, <1>2, Zenon DEF Unescaped
<1>4. \A j \in 1 .. Len(s) : un.out[j] = ReadAs(s[j])
    BY <1>1, <1>3, Zenon
<1>5. DOMAIN s = 1 .. Len(s)
    OBVIOUS
<1>6. un.out = [k \in DOMAIN s |-> ReadAs(s[k])]
    <2> DEFINE o == un.out
               R(k) == ReadAs(s[k])
    <2>1. o = [k \in 1 .. Len(s) |-> o[k]]
        <3>1. \A S : \A q \in Seq(S) : q = [k \in 1 .. Len(q) |-> q[k]]
            OBVIOUS
        <3>2. QED
            BY <1>3, <3>1, Zenon
    <2>2. \A j \in 1 .. Len(s) : o[j] = R(j)
        BY <1>4
    <2> HIDE DEF o, R
    <2>3. o = [k \in 1 .. Len(s) |-> R(k)]
        BY <2>1, <2>2, Zenon
    <2>4. QED
        BY <1>5, <2>3, Zenon DEF o, R
<1>7. QED
    BY <1>2, <1>3, <1>6, Zenon DEF un

-----------------------------------------------------------------------------
(* What is written is read *)

LinesReadBack ==
    job \in Lines /\ LineParse(job, got).n > 2 =>
        LET f == LineParse(job, got).part
            cap == Len(got) + 8
        IN  CASE job = "request" ->
                   ReqParse(ReqWrite(cap, f[1], f[2])).part = <<f[1], f[2], Version>>
              [] job = "response" ->
                   RespParse(RespWrite(cap, f[2], f[3])).part = <<Version, f[2], f[3]>>
              [] job = "header" ->
                   HdrParse(HdrWrite(cap, f[1], f[2])).part = f

LEMMA LinesBack == LinesAreText => LinesReadBack
<1>1. SUFFICES ASSUME LinesAreText, job \in Lines, LineParse(job, got).n > 2 PROVE LinesReadBack
    BY Zenon DEF LinesReadBack
<1>2. got \in Text
    BY <1>1 DEF LinesAreText
<1>3. CASE job = "request"
    <2>1. LineParse(job, got) = ReqParse(got)
        BY <1>3, Zenon DEF LineParse
    <2> DEFINE p == ReqParse(got)
    <2>2. ReqParse(ReqWrite(Len(got) + 8, p.part[1], p.part[2])).part
              = <<p.part[1], p.part[2], Version>>
        BY <1>1, <1>2, <2>1, RequestBack
    <2>3. QED
        BY <1>3, <2>1, <2>2, Zenon DEF LinesReadBack
<1>4. CASE job = "response"
    <2>1. "response" # "request"
        OBVIOUS
    <2>2. LineParse(job, got) = RespParse(got)
        BY <1>4, <2>1, Zenon DEF LineParse
    <2> DEFINE p == RespParse(got)
    <2>3. RespParse(RespWrite(Len(got) + 8, p.part[2], p.part[3])).part
              = <<Version, p.part[2], p.part[3]>>
        BY <1>1, <1>2, <2>2, ResponseBack
    <2>4. QED
        BY <1>4, <2>1, <2>2, <2>3, Zenon DEF LinesReadBack
<1>5. CASE job = "header"
    <2>1. "header" # "request" /\ "header" # "response"
        OBVIOUS
    <2>2. LineParse(job, got) = HdrParse(got)
        BY <1>5, <2>1, Zenon DEF LineParse
    <2> DEFINE p == HdrParse(got)
    <2>3. HdrParse(HdrWrite(Len(got) + 8, p.part[1], p.part[2])).part = p.part
        BY <1>1, <1>2, <2>2, HeaderBack
    <2>4. QED
        BY <1>5, <2>1, <2>2, <2>3, Zenon DEF LinesReadBack
<1>6. QED
    BY <1>1, <1>3, <1>4, <1>5 DEF Lines

\* What comes symbol by symbol, symbol by symbol.
LEMMA ComeFrom ==
    ASSUME NEW k \in DOMAIN Symbols, job = k, SymbolsCome, NEW S,
           \A i \in 1 .. Len(got) : got[i] \in Symbols[k] => got[i] \in S
    PROVE  got \in Seq(S) /\ DOMAIN got = 1 .. Len(got)
<1>1. got \in Seq(Symbols[k])
    BY DEF SymbolsCome
<1> DEFINE T == Symbols[k]
<1>2. got \in Seq(T)
    BY <1>1
<1>3. \A i \in 1 .. Len(got) : got[i] \in T => got[i] \in S
    OBVIOUS
<1> HIDE DEF T
<1>4. QED
    BY <1>2, <1>3

(***************************************************************************)
(* What http1.h writes it reads, of any length: lines with the parts of a  *)
(* line that was read, data in two chunks, and a path, unless "%" stands   *)
(* in it.                                                                  *)
(***************************************************************************)
THEOREM ReadBackAlways == Spec => []ReadBack
<1>1. LinesAreText /\ SymbolsCome => ReadBack
    <2>1. SUFFICES ASSUME LinesAreText, SymbolsCome PROVE ReadBack
        OBVIOUS
    <2>2. LinesReadBack
        BY <2>1, LinesBack
    <2> DEFINE chunks == ChunkedWrite(got) \o ChunkedWrite(<<got[1]>>) \o ChunkedWrite(<<>>)
               r == Feed(NewChunked, chunks)
               e == UrlEscape(got, <<"2", "2">>)
    <2>3. ASSUME job = "chunked", Len(got) \in 1 .. 2
          PROVE  r.ret = -1 /\ r.out = got \o <<got[1]>>
        <3>1. "chunked" \in DOMAIN Symbols /\ Symbols["chunked"] \subseteq ChunkSym
            BY DEF Symbols, ChunkSym
        <3>2. got \in ChunkText
            <4>1. got \in Seq(ChunkSym)
                BY <2>1, <2>3, <3>1, ComeFrom
            <4>2. QED
                BY <4>1 DEF ChunkText
        <3>3. QED
            BY <2>3, <3>2, ChunksReadBack
    <2>4. ASSUME job = "path", \A k \in DOMAIN got : got[k] # "%"
          PROVE  UrlUnescape(e, UnescapedSize(e)) =
                     [ok |-> TRUE, out |-> [k \in DOMAIN got |-> ReadAs(got[k])]]
        <3>1. "path" \in DOMAIN Symbols /\ \A x \in Symbols["path"] : x = "%" \/ x \in Unmarked
            BY DEF Symbols, Unmarked
        <3>2. got \in Seq(Symbols["path"])
            BY <2>1, <2>4, <3>1 DEF SymbolsCome
        <3>3. DOMAIN got = 1 .. Len(got)
            BY <3>2
        <3>4. got \in Seq(Unmarked)
            BY <2>1, <2>4, <3>1, <3>3, ComeFrom
        <3>5. QED
            BY <3>4, PathBack
    <2> HIDE DEF r
    <2>5. QED
        BY <2>2, <2>3, <2>4, Zenon DEF ReadBack, LinesReadBack, ReadAs, e, r
<1>2. QED
    BY <1>1, TextAlways, SymbolsAlways, PTL

==============================================================================
