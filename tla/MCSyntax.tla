------------------------------ MODULE MCSyntax ------------------------------
(***************************************************************************)
(* The parsers, on all short inputs of the kinds in Jobs.  The properties  *)
(* compare a parser with a definition of its language that says nothing of *)
(* how it is read, or its result on an input with its result on the input  *)
(* in other parts.                                                         *)
(***************************************************************************)
EXTENDS Reading, LtConf, IpAddr

PieceBounds ==
    [request |-> 8, message |-> 5, response |-> 8, header |-> 7, chunked |-> 7, url |-> 5, path |-> 5,
     types |-> 6, quoted |-> 5, ip4 |-> 9, ip6 |-> 17, port |-> 5, argv |-> 4]

-----------------------------------------------------------------------------
(* ltconf *)

\* A comment starts at `k`; position `k` is in one; `j` is on the line of `k` or before it.
CommentAt(t, k) == t[k] = "#" /\ (k = 1 \/ t[k - 1] \in {"SP", "LF"})
SameLine(t, j, k) == j <= k /\ \A m \in j .. k : t[m] # "LF"
InComment(t, k) == \E j \in 1 .. k : CommentAt(t, j) /\ SameLine(t, j, k)

\* The words of a text, as pairs of their first and last positions, in order.
WordsOf(t) ==
    LET White(k) == t[k] \in {"SP", "LF"}
        W == {w \in (DOMAIN t) \X (DOMAIN t) :
                /\ w[1] <= w[2] /\ w[2] < Len(t) /\ White(w[2] + 1)
                /\ w[1] = 1 \/ White(w[1] - 1)
                /\ \A k \in w[1] .. w[2] : ~White(k)
                /\ ~InComment(t, w[1])}
    IN  SetToSortSeq(W, LAMBDA v, w : v[1] < w[1])

(***************************************************************************)
(* The map of content types has, for each line of the file, the words      *)
(* after the first one, with the first one as their type.  What is not     *)
(* read: comments; the last word of a file that does not end after a       *)
(* space; and all that follows a byte that is not printable, or an         *)
(* extension that is too long.                                             *)
(***************************************************************************)
ContentTypesExact ==
    job = "types" =>
        LET bad == {k \in DOMAIN got : got[k] = "c" /\ ~InComment(got, k)}
            t == IF bad = {} THEN got ELSE SubSeq(got, 1, Min(bad) - 1) \o <<"SP">>
            ws == WordsOf(t)
            First(k) == Min({j \in 1 .. k : SameLine(t, ws[j][1], ws[k][1])})
            Entry(k) == <<SubSeq(t, ws[k][1], ws[k][2]), SubSeq(t, ws[First(k)][1], ws[First(k)][2])>>
            Vals == {k \in DOMAIN ws : First(k) < k}
            long == {k \in Vals : Len(Entry(k)[1]) > MaxExt}
            kept == SetToSortSeq({k \in Vals : \A l \in long : k < l}, <)
        IN  ContentTypes(got) = [n \in DOMAIN kept |-> Entry(kept[n])]

(***************************************************************************)
(* Quoted text is returned whole, in parts, with its escape sequences      *)
(* replaced.  Left out: an escape sequence that follows a line's end in    *)
(* the text, since ltconf_read drops what stands before it then (README).  *)
(***************************************************************************)
QuotedTextKept ==
    job = "quoted" /\ ~(\E k \in 1 .. Len(input) - 1 : input[k] = <<"LF">> /\ Len(input[k + 1]) > 1) =>
        LET rs == Calls(NewConf, <<"\"">> \o got \o <<"\"", "LF">>, {"KEY", "MORE", "ERROR", "OVERREAD"})
            Decoded(u) == CASE Len(u) = 1 -> u[1] [] Len(u) = 2 -> u[2] [] OTHER -> "byte"
        IN  /\ Last(rs).ret = "KEY" /\ Last(rs).c.quoted
            /\ FlattenSeq([k \in DOMAIN rs |-> rs[k].out]) = [k \in DOMAIN input |-> Decoded(input[k])]

-----------------------------------------------------------------------------
(* Addresses *)

Split(s, sep) ==
    FoldLeft(LAMBDA f, x : IF x = sep THEN Append(f, <<>>) ELSE [f EXCEPT ![Len(f)] = Append(@, x)],
             <<<<>>>>, s)
Numbers(fs, base) == [k \in DOMAIN fs |-> Number(fs[k], base)]

IsPort(s) == s # <<>> /\ ToSet(s) \subseteq DecDigits /\ Number(s, 10) < 65536
IsIp4(s) ==
    LET f == Split(s, ".")
    IN  Len(f) = 4 /\ \A k \in DOMAIN f : f[k] # <<>> /\ Len(f[k]) <= 3 /\ ToSet(f[k]) \subseteq DecDigits
                                          /\ Number(f[k], 10) < 256

\* The IPv6 addresses that `s` may stand for: eight numbers, or two parts of them with "::"
\* between, which the code lets stand for nothing, too, unless it comes last.
IsGroups(f) == \A k \in DOMAIN f : f[k] # <<>> /\ Len(f[k]) <= 4 /\ ToSet(f[k]) \subseteq HexDigits
Ip6Of(s) ==
    LET Fields(t) == IF t = <<>> THEN <<>> ELSE Split(t, ":")
        Halves == {<<Fields(SubSeq(s, 1, k - 1)), Fields(SubSeq(s, k + 2, Len(s)))>> :
                      k \in {j \in 1 .. Len(s) - 1 : s[j] = ":" /\ s[j + 1] = ":"}}
    IN  {Numbers(f, 16) : f \in {g \in {Fields(s)} : Len(g) = 8 /\ IsGroups(g)}}
        \cup {Numbers(h[1], 16) \o [k \in 1 .. 8 - Len(h[1]) - Len(h[2]) |-> 0] \o Numbers(h[2], 16) :
                 h \in {g \in Halves : /\ IsGroups(g[1]) /\ IsGroups(g[2])
                                       /\ Len(g[1]) < 8 /\ Len(g[1]) + Len(g[2]) <= 8}}

(***************************************************************************)
(* An address survives being written and read; an IPv6 one is at most 39   *)
(* bytes then, and an IPv4 address that is held as an IPv6 one is written  *)
(* as IPv4.                                                                *)
(***************************************************************************)
AddrRoundTrip ==
    /\ job = "ip4" /\ Ip4Parse(got).ret = 0 =>
         LET ip == Ip4Parse(got).ip
         IN  Ip4Parse(Ip46ToStr(V4Mapped(ip))) = [ret |-> 0, ip |-> ip]
    /\ job = "ip6" /\ Ip6Parse(got).ret = 0 =>
         LET ip == Ip6Parse(got).ip
             text == Ip6ToStr(ip)
         IN  Len(ip) = 8 /\ Ip6Parse(text) = [ret |-> 0, ip |-> ip] /\ Len(text) <= 39

\* The --listen arguments that are made of the text read so far.
Listens ==
    LET port == <<":", "8", "0">>
    IN  CASE job = "ip4"  -> {got, got \o port}
          [] job = "ip6"  -> {<<"[">> \o got \o <<"]">>, <<"[">> \o got \o <<"]">> \o port}
          [] job = "port" -> {got, got \o port} \cup {a \o <<":">> \o got :
                                 a \in {<<"0", ".", "0", ".", "0", ".", "7">>, <<"[", ":", ":", "]">>}}
          [] OTHER -> {}

(***************************************************************************)
(* --listen takes a port, an IPv4 address and a port, or an IPv6 address   *)
(* in brackets and a port, each in its range, and nothing else; and it     *)
(* listens there.                                                          *)
(***************************************************************************)
ListenExact ==
    \A s \in Listens \ {<<>>} :
        LET f == Split(s, ":")
            g == Split(s, "]")
            all == {[ip |-> AnyAddr, port |-> Number(t, 10)] : t \in {u \in {s} : IsPort(u)}}
            four == {[ip |-> V4Mapped(Numbers(Split(h[1], "."), 10)), port |-> Number(h[2], 10)] :
                        h \in {h \in {f} : Len(h) = 2 /\ IsIp4(h[1]) /\ IsPort(h[2])}}
            six == {h \in {g} : /\ Len(h) = 2 /\ h[1] # <<>> /\ Len(h[2]) > 1
                                /\ h[1][1] = "[" /\ h[2][1] = ":" /\ IsPort(Tail(h[2]))}
            sixes == UNION {{[ip |-> a, port |-> Number(Tail(h[2]), 10)] : a \in Ip6Of(Tail(h[1]))} : h \in six}
            want == all \cup four \cup sixes
        IN  IF want = {} THEN IpPortSplit(s) = BadAddr ELSE want = {IpPortSplit(s)}

=============================================================================
