------------------------------- MODULE Reading -------------------------------
(***************************************************************************)
(* What the parsers make of requests, chunked data, URLs and command       *)
(* lines: against a definition that says nothing of how they are read, or  *)
(* against what they make of the same input in other parts.                *)
(***************************************************************************)
EXTENDS Inputs

-----------------------------------------------------------------------------
(* Whole requests *)

\* The lines of `s` as pairs of their first and last positions, in order; the last position
\* is LF.
LinesOf(s) ==
    LET Ends == {k \in DOMAIN s : s[k] = "LF"}
        First(k) == Max({0} \cup {j \in Ends : j < k}) + 1
    IN  [n \in 1 .. Cardinality(Ends) |->
            LET k == SetToSortSeq(Ends, <)[n] IN <<First(k), k>>]

\* What ahreq_parse must make of `s`, whose lines are `ls`, as far as they are whole; the
\* first one is fine.
MessageOfLines(s, ls) ==
    LET Line(n) == SubSeq(s, ls[n][1], ls[n][2])
        wrong == {n \in 2 .. Len(ls) : ~InFormat("header", Line(n))}
        last == Min({n \in DOMAIN ls : n > 1 /\ EndsAt(Line(n), 1)} \cup {Len(ls) + 1})
        Says(val) ==
            {n \in 2 .. last - 1 : IsHeader(Line(n), LAMBDA f : f = <<<<"Connection">>, val>>)}
        kept == Says(KeepAlive)
        closed == Says(Close)
        hosts == {n \in 2 .. last - 1 : IsHeader(Line(n), LAMBDA f : f[1] = <<"Host">> /\ f[2] # <<>>)}
        new == \E k \in DOMAIN Line(1) : s[k] = "H" /\ s[k + 1] = "1"
    IN  IF \E n \in wrong : n < last THEN Refused(0, <<>>)
        ELSE IF last > Len(ls) THEN Unread(<<>>)
        ELSE IF (new /\ hosts = {}) \/ "/" \notin ToSet(Line(1)) THEN Refused(ls[last][2], <<>>)
        ELSE [code |-> "0", host |-> <<>>, full |-> ls[last][2], path |-> <<"/">>,
              ka |-> IF kept \cup closed = {} THEN new ELSE Max(kept \cup closed) \in kept]

MessageOf(s) == MessageOfLines(s, LinesOf(s))

(***************************************************************************)
(* A request ends at its first blank line, however many attempts it takes  *)
(* to read it and whatever has come behind it: the length that ahreq_close *)
(* drops is this request's, and each attempt after an incomplete one       *)
(* gives what a first one gives.  It is refused for a line that is wrong,  *)
(* for a missing Host in HTTP/1.1 or for a URL without a path, and its     *)
(* last Connection header decides whether the connection is kept.          *)
(***************************************************************************)
RequestRead ==
    job = "message" /\ input # <<>> =>
        LET Good(r, want) ==
                IF want.code = "more" THEN r.code = "400" => MessageOf(got \o <<"LF">>).code = "400"
                ELSE [r EXCEPT !.host = <<>>] = want
            Again(a) == IF a.code = "more" THEN ReadRequest(got, a.host) ELSE a
            cut == Len(before) .. Len(got) - 1     \* the last piece is split anywhere
        IN  /\ Good(ReadRequest(got, <<>>), MessageOf(got))
            /\ {Again(ReadRequest(SubSeq(got, 1, k), <<>>)) : k \in cut} \subseteq {ReadRequest(got, <<>>)}

-----------------------------------------------------------------------------
(* Chunked data and URLs *)

\* A call of httpchunked_parse on what is left of the input, while it goes well.
FeedCall(in, f, k) ==
    IF f.at > Len(in) \/ f.c.ret < 0 THEN f
    ELSE LET r == ChunkedParse(f.c, SubSeq(in, f.at, Len(in)))
         IN  [c |-> [r EXCEPT !.out = f.c.out \o @], at |-> IF r.ret < 0 THEN f.at ELSE f.at + r.ret]

\* Calls of httpchunked_parse until the input is used up or one fails; each reads something.
Feed(c, in) ==
    LET f == FoldLeftDomain(LAMBDA g, k : FeedCall(in, g, k), [c |-> [c EXCEPT !.out = <<>>], at |-> 1], in)
    IN  [f.c EXCEPT !.ret = IF @ < 0 THEN @ ELSE 0]

(***************************************************************************)
(* Chunked data may come in any parts: fed in two, at any place, it gives  *)
(* the same data and the same end or error as in one.                      *)
(***************************************************************************)
ChunksUnsplit ==
    job = "chunked" =>
        \A k \in 1 .. Len(got) - 1 :
            LET a == Feed(NewChunked, SubSeq(got, 1, k))
                b == Feed(a, SubSeq(got, k + 1, Len(got)))
            IN  [b EXCEPT !.out = a.out \o @] = Feed(NewChunked, got)

\* What one writes the other reads.  A length that is given to a reader in ahreq_parse
\* and its like comes from these: a line's parts survive being written, whichever line
\* they were read from; data survives in two chunks and the last one; and a path, unless
\* "%" stands in it, which httpurl_escape leaves alone.
ReadBack ==
    /\ job \in Lines /\ LineParse(job, got).n > 2 =>
         LET f == LineParse(job, got).part
             cap == Len(got) + 8
         IN  CASE job = "request"  -> ReqParse(ReqWrite(cap, f[1], f[2])).part = <<f[1], f[2], Version>>
               [] job = "response" -> RespParse(RespWrite(cap, f[2], f[3])).part = <<Version, f[2], f[3]>>
               [] job = "header"   -> HdrParse(HdrWrite(cap, f[1], f[2])).part = f
    /\ job = "chunked" /\ Len(got) \in 1 .. 2 =>
         LET r == Feed(NewChunked, ChunkedWrite(got) \o ChunkedWrite(<<got[1]>>) \o ChunkedWrite(<<>>))
         IN  r.ret = -1 /\ r.out = got \o <<got[1]>>
    /\ job = "path" /\ (\A k \in DOMAIN got : got[k] # "%") =>
         LET e == UrlEscape(got, <<"2", "2">>)
             Read(k) == IF got[k] = "c" THEN "2" \o "2" ELSE got[k]
         IN  UrlUnescape(e, UnescapedSize(e)) = [ok |-> TRUE, out |-> [k \in DOMAIN got |-> Read(k)]]

(***************************************************************************)
(* httpurl_split cuts a URL and loses nothing of it; a path starts with    *)
(* "/" and has no "?" or "#".  A URL that starts with "/", as a request's  *)
(* does, is a path with what follows it, and only a URL without a path is  *)
(* refused by ahreq_parse.                                                 *)
(***************************************************************************)
UrlPartsFit ==
    job = "url" /\ got # <<>> =>
        LET p == UrlSplit(got)
        IN  /\ p.ret = 0 => p.scheme \o p.host \o p.port \o p.path \o p.query \o p.hash = got
            /\ p.path # <<>> => p.path[1] = "/" /\ ToSet(p.path) \cap {"?", "#"} = {}
            /\ p.query # <<>> => p.query[1] = "?" /\ "#" \notin ToSet(p.query)
            /\ p.hash # <<>> => p.hash[1] = "#"
            /\ p.ret = -1 => p.path = <<>>
            /\ got[1] = "/" => p.scheme \o p.host \o p.port = <<>> /\ p.path # <<>>
            /\ UnescapedPath(got).code = 400 <=> p.path = <<>>

\* The bytes of escape sequences after their "%", the positions that are left up to `m`, and
\* the byte that stands at one of them.
Escaped(s) == UNION {{k + 1, k + 2} : k \in {i \in DOMAIN s : s[i] = "%"}}
Left(s, m) == {k \in 1 .. m : k \notin Escaped(s)}
ByteAt(s, k) == IF s[k] = "%" THEN s[k + 1] \o s[k + 2] ELSE s[k]

\* Every escape sequence is one, and no other byte must be escaped.
WellEscaped(s) ==
    /\ "c" \notin ToSet(s)
    /\ \A k \in Escaped(s) : k \in DOMAIN s /\ s[k] \in Digits

\* `r` is the path `s` with each sequence replaced by its byte, or else status 400.
PathFits(s, r) ==
    IF WellEscaped(s)
    THEN /\ r.code = 0 /\ Len(r.path) = Cardinality(Left(s, Len(s)))
         /\ \A k \in Left(s, Len(s)) : r.path[Cardinality(Left(s, k))] = ByteAt(s, k)
    ELSE r.code = 400

(***************************************************************************)
(* The buffer that ahreq_parse allocates for the unescaped path, by a      *)
(* first pass over it, is large enough: a path is refused only for an      *)
(* escape sequence that is not one or a byte that must be escaped, and     *)
(* else is the path with each sequence replaced by its byte.               *)
(***************************************************************************)
PathUnescaped ==
    job = "path" => PathFits(<<"/">> \o got, UnescapedPath(<<"/">> \o got))

-----------------------------------------------------------------------------
(* Options *)

Keyed(a) == a.form \in {"short", "long"}
Valued == Strings \cup Ints

\* The value of an option in `as`, which stands after it or after its "=".
Given(as, o) ==
    CASE (\E k \in DOMAIN as : as[k].form = "pair" /\ as[k].opt = o) ->
           (CHOOSE a \in ToSet(as) : a.form = "pair" /\ a.opt = o).val
      [] (\E k \in DOMAIN as : Keyed(as[k]) /\ as[k].opt = o) ->
           IF o \in Switches THEN "1"
           ELSE as[(CHOOSE k \in DOMAIN as : Keyed(as[k]) /\ as[k].opt = o) + 1].val
      [] OTHER -> None

\* All arguments are options that exist, each given once and with its value, if it has one.
WellFormed(as) ==
    /\ \A k \in DOMAIN as :
         LET a == as[k]
             Waits(j) == j \in DOMAIN as /\ Keyed(as[j]) /\ as[j].opt \in Valued
         IN  CASE a.form = "dash" -> FALSE
               [] a.form = "val"  -> Waits(k - 1)
               [] a.form = "pair" -> a.opt \in Valued
               [] Keyed(a) -> a.opt \in Options /\
                    (a.opt \in Valued => k < Len(as) /\ as[k + 1].form = "val")
    /\ \A j, k \in DOMAIN as : j # k /\ "val" \notin {as[j].form, as[k].form} => as[j].opt # as[k].opt

Readable(as) == WellFormed(as) /\ \A o \in {"threads", "cpumask"} : Given(as, o) \notin {"", "x"}

(***************************************************************************)
(* The command line is read when every argument of it is fine, and then    *)
(* each option has the value that was given; the help is shown when all    *)
(* before it is fine.  There are workers and kcall threads whatever the    *)
(* options are, and no CPU is given to two workers.                        *)
(***************************************************************************)
OptionsRead ==
    job = "argv" =>
        LET r == CmdRead(got)
            Helps == {k \in DOMAIN got : Keyed(got[k]) /\ got[k].opt = "help"}
            cpus == Affinity(r.fin)
        IN  /\ r.ret = "0" <=> Helps = {} /\ Readable(got)
            /\ r.ret = "done" <=> Helps # {} /\ Readable(SubSeq(got, 1, Min(Helps) - 1))
            /\ r.ret = "0" => \A o \in Options : r.conf[o] = Given(got, o)
            /\ r.fin.workers >= 1 /\ r.fin.kcalls >= 1
            /\ IsInjective(cpus) /\ Len(cpus) <= r.fin.workers

=============================================================================
