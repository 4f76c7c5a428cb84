----------------------------- MODULE HttpSyntax -----------------------------
(***************************************************************************)
(* util/http1.h: the lines of an HTTP/1 message and chunked data.          *)
(*                                                                         *)
(* A line is a sequence of symbols, each standing for the bytes that the   *)
(* parsers do not tell apart: "U" an upper-case letter, "a" a lower-case   *)
(* letter, "9" a digit other than 0 and 1, "x" any other printable byte,   *)
(* "c" a byte that is not printable, "0", "1", "-", ":" and "/" themselves;*)
(* "H" is the seven bytes "HTTP/1.", and "Host" and "Connection" are the   *)
(* names that ahreq_parse knows.  A parser is called with all that has     *)
(* come, each time from the start: it returns the number of symbols read,  *)
(* 0 when it needs more, or -1.                                            *)
(***************************************************************************)
EXTENDS Scan, SequencesExt

Digit == {"0", "1", "9"}
Name == {"U", "a", "-", "Host", "Connection"} \cup Digit
Printable == Name \cup {":", "/", "x", "H"}
Version == <<"H", "1">>
Versions == {<<"H", "0">>, Version}

\* The bytes from position `a` to `b`, in a request line.
Bytes(s, a, b) == b - a + 1 + 6 * Cardinality({k \in a .. b : s[k] = "H"})

More == [n |-> 0, part |-> <<>>]
Bad(e) == [n |-> e, part |-> <<>>]

\* Mutant: what follows CR is not looked at.
LineEndCR(s, k, part) ==
    LET l == IF s[k] = "CR" THEN k + 1 ELSE k
    IN  IF l > Len(s) THEN More
        ELSE IF s[k] \notin {"CR", "LF"} THEN Bad(-1)
        ELSE [n |-> l, part |-> part]

\* The end of every line: CR LF, or LF alone, from position `k` of a received text.
LineEnd(s, k, part) ==
    LET l == IF s[k] = "CR" THEN k + 1 ELSE k
    IN  IF l > Len(s) THEN More
        ELSE IF s[l] # "LF" THEN Bad(-1)
        ELSE [n |-> l, part |-> part]

\* Mutant: off by one.
VersionUnfinishedLess(s, v) == Bytes(s, v, Len(s)) < 8

\* All that has come from position `v` on may be the version without what ends it.
VersionUnfinished(s, v) == Bytes(s, v, Len(s)) <= 8

(***************************************************************************)
(* http_req_parse.  The version is compared as soon as its eight bytes     *)
(* have come, but any printable text may follow it up to a space or the    *)
(* end of the line -- if that has come too.                                *)
(***************************************************************************)
ReqParse(s) ==
    LET m == Past(s, 1, {"U"})                  \* method: 1 .. m - 1
        u == Past(s, m + 1, {"SP"})             \* URL: u .. e - 1
        e == Past(s, u, Printable)
        v == Past(s, e + 1, {"SP"})             \* version: v .. w - 1
        w == Past(s, v, Printable)
        x == Past(s, w, {"SP"})
    IN  IF m > Len(s) THEN More
        ELSE IF m = 1 \/ s[m] # "SP" THEN Bad(-1)
        ELSE IF u > Len(s) \/ e > Len(s) THEN More
        ELSE IF e = u \/ s[e] # "SP" THEN Bad(-1)
        ELSE IF v > Len(s) THEN More
        ELSE IF Bytes(s, v, Len(s)) >= 8 /\ SubSeq(s, v, v + 1) \notin Versions THEN Bad(-1)
        ELSE IF w > Len(s) THEN IF VersionUnfinished(s, v) THEN More ELSE Bad(-1)
        ELSE IF Bytes(s, v, w - 1) < 8 THEN Bad(-1)
        ELSE IF x > Len(s) THEN More
        ELSE LineEnd(s, x, <<SubSeq(s, 1, m - 1), SubSeq(s, u, e - 1), SubSeq(s, v, w - 1)>>)

\* http_resp_parse; a code is exactly three digits.
RespParse(s) ==
    LET p == Past(s, 1, Printable)
        c == Past(s, p + 1, Digit)
        t == Past(s, c + 1, Printable \cup {"SP"})
    IN  IF p > Len(s) THEN More
        ELSE IF p = 1 \/ s[p] # "SP" THEN Bad(-1)
        ELSE IF c > Len(s) THEN More
        ELSE IF c - p - 1 # 3 \/ s[c] # "SP" THEN Bad(-1)
        ELSE IF t > Len(s) THEN More
        ELSE LineEnd(s, t, <<SubSeq(s, 1, p - 1), SubSeq(s, p + 1, c - 1), SubSeq(s, c + 1, t - 1)>>)

\* Drops the spaces at the end.
TrimRight(s) ==
    SubSeq(s, 1, CHOOSE k \in 0 .. Len(s) :
        /\ k > 0 => s[k] # "SP"
        /\ \A m \in k + 1 .. Len(s) : s[m] = "SP")

\* http_hdr_parse: a header, or the blank line that ends the headers.
HdrParse(s) ==
    LET c == Past(s, 1, Name)
        v == Past(s, c + 1, {"SP"})
        e == Find(s, v, {"CR", "LF"})
    IN  IF c > Len(s) THEN More
        ELSE IF c = 1 THEN LineEnd(s, 1, <<>>)
        ELSE IF s[c] # ":" \/ s[1] = "-" THEN Bad(-1)
        ELSE IF v > Len(s) \/ e > Len(s) THEN More
        ELSE LineEnd(s, e, <<SubSeq(s, 1, c - 1), TrimRight(SubSeq(s, v, e - 1))>>)

\* http_req_write (without its flag), http_resp_write and http_hdr_write: empty when the
\* buffer has less than `cap` symbols.
Written(cap, s) == IF Len(s) > cap THEN <<>> ELSE s
ReqWrite(cap, method, path) ==
    Written(cap, method \o <<"SP">> \o path \o <<"SP">> \o Version \o <<"CR", "LF">>)
\* Mutant: nothing stands between the code and the message.
RespWriteJoined(cap, code, msg) ==
    Written(cap, Version \o <<"SP">> \o code \o msg \o <<"CR", "LF">>)

RespWrite(cap, code, msg) ==
    Written(cap, Version \o <<"SP">> \o code \o <<"SP">> \o msg \o <<"CR", "LF">>)
HdrWrite(cap, name, val) ==
    Written(cap, name \o <<":", "SP">> \o val \o <<"CR", "LF">>)

-----------------------------------------------------------------------------
(* Chunked data: symbols are "0", "1", "2" for the hexadecimal digits, "CR",   *)
(* "LF", and "d" for a byte that is none of these; all may be chunk data.       *)

CONSTANT ChunkBits          \* bits of struct httpchunked.size (64)

\* A size from which on one more hexadecimal digit is too much.
SizeLimit == 2 ^ (ChunkBits - 4)

\* The provers know nothing of powers.
ASSUME ChunkBitsAssumption == ChunkBits \in Nat /\ ChunkBits >= 4 /\ SizeLimit > 0

Hex == [h \in {"0", "1", "2"} |-> CASE h = "0" -> 0 [] h = "1" -> 1 [] h = "2" -> 2]
NewChunked == [st |-> "SZ1", last |-> FALSE, size |-> 0, ret |-> 0, out |-> <<>>]

\* The rest of the input is not looked at any more.
Stop(c, r) == [c EXCEPT !.ret = r]

\* The blank line after a chunk, or after the last one.
ChunkEnd(c) == IF c.last THEN Stop(c, -1) ELSE [c EXCEPT !.st = "SZ"]

\* Mutant: the rest of a chunk that the input does not have is not expected.
ChunkDataWhole(c, in, k) ==
    LET n == IF c.size < Len(in) - k + 1 THEN c.size ELSE Len(in) - k + 1
    IN  [c EXCEPT !.size = 0, !.ret = k - 1 + n, !.out = SubSeq(in, k, k + n - 1)]

\* Chunk data from position `k`: what the input has of it is passed on.
ChunkData(c, in, k) ==
    LET n == IF c.size < Len(in) - k + 1 THEN c.size ELSE Len(in) - k + 1
    IN  [c EXCEPT !.size = @ - n, !.ret = k - 1 + n, !.out = SubSeq(in, k, k + n - 1)]

\* Any byte but chunk data.
ChunkSymbol(c, ch) ==
    LET sized == [c EXCEPT !.last = @ \/ c.size = 0]
    IN  IF c.st \in {"SZ1", "SZ"} /\ ch \in DOMAIN Hex
        THEN IF c.size >= SizeLimit THEN Stop(c, -2)
             ELSE [c EXCEPT !.size = @ * 16 + Hex[ch], !.st = "SZ"]
        ELSE IF c.st = "SZ" /\ ch = "CR" THEN [sized EXCEPT !.st = "SZ_CR"]
        ELSE IF c.st = "SZ" /\ ch = "LF" THEN [sized EXCEPT !.st = "DAT"]
        ELSE IF c.st = "SZ_CR" /\ ch = "LF" THEN [c EXCEPT !.st = "DAT"]
        ELSE IF c.st = "DAT" /\ ch = "CR" THEN [c EXCEPT !.st = "DAT_CR"]
        ELSE IF c.st \in {"DAT", "DAT_CR"} /\ ch = "LF" THEN ChunkEnd(c)
        ELSE Stop(c, -2)

\* One round of the loop of httpchunked_parse, at position `k`.
ChunkByte(c, in, k) ==
    IF c.ret # 0 THEN c
    ELSE IF c.st = "DAT" /\ c.size > 0 THEN ChunkData(c, in, k)
    ELSE ChunkSymbol(c, in[k])

\* httpchunked_parse: ret is the number of symbols read, -1 at the end of the data and
\* -2 on error; out is data, if there is any.
ChunkedParse(c, in) ==
    LET e == FoldLeftDomain(LAMBDA p, k : ChunkByte(p, in, k), [c EXCEPT !.ret = 0, !.out = <<>>], in)
    IN  IF e.ret = 0 THEN Stop(e, Len(in)) ELSE e

\* httpchunked_write: what stands before and after `data`, of up to two symbols.
ChunkedWrite(data) ==
    (CHOOSE h \in {<<"0">>, <<"1">>, <<"2">>} : Hex[h[1]] = Len(data)) \o <<"CR", "LF">>
    \o data \o <<"CR", "LF">>

=============================================================================
