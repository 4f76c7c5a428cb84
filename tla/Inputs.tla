-------------------------------- MODULE Inputs --------------------------------
(***************************************************************************)
(* Inputs of the parsers, which grow by one piece at a time, as data does  *)
(* that arrives in parts; and the lines of http1.h, by a definition of     *)
(* their language that says nothing of how they are read.                  *)
(***************************************************************************)
EXTENDS HttpRequest, CmdArgs

CONSTANTS
    Jobs,               \* kinds of inputs
    MaxPieces           \* bound: pieces of an input, for each kind

VARIABLES
    job,
    input, got,         \* the pieces that have come, and the text that they make
    before              \* the text before the last piece

vars == <<job, input, got, before>>

Single(S) == {<<x>> : x \in S}
Key(form, opt, val) == <<[form |-> form, opt |-> opt, val |-> val]>>
KeyForms ==
    {Key(f, o, "") : f \in {"short", "long"},
                    o \in {"threads", "cpumask", "debug", "help", "other"}}

\* The symbols of the inputs that come symbol by symbol.
Symbols ==
    [request |-> {"U", "H", "1", "x", "SP", "CR", "LF"},
     response |-> {"1", "x", "SP", "CR", "LF", "c"},
     header |-> {"U", "-", ":", "x", "SP", "CR", "LF"},
     chunked |-> {"0", "2", "d", "CR", "LF"},
     url |-> {":", "/", "[", "]", "?", "#", "x"},
     path |-> {"%", "2", "F", "x", "c"},
     types |-> {"k", "x", "SP", "LF", "#", "c"},
     port |-> {"0", "6", "5", "3", "x"}]

\* The pieces of the others that may come after `n` pieces.
Longer(k, n) ==
    CASE k = "message" ->
           IF n = 0 THEN {<<"U", "SP", "/", "SP", "H", "0", "LF">>}
                         \cup {<<"U", "SP", u, "SP", "H", "1", "LF">> : u \in {"/", "x"}}
           ELSE {<<"CR", "LF">>, <<"LF">>, <<"Host", ":">>, <<"Host", ":", "a", "LF">>, <<"a">>,
                 <<"Connection", ":">> \o KeepAlive \o <<"LF">>,
                 <<"Connection", ":", "SP">> \o Close \o <<"LF">>}
      [] k = "quoted" ->
           Single({"k", "SP", "#", "LF"}) \cup {<<"\\", "\"">>, <<"\\", "x", "0", "0">>}
      [] k = "ip4" -> IF n % 2 = 1 THEN Single({"."}) ELSE
                      {<<>>, <<"0">>, <<"2", "5", "5">>, <<"2", "5", "6">>, <<"0", "0", "0", "7">>}
      [] k = "ip6" -> IF n % 2 = 1 THEN Single({":"}) ELSE
                      {<<>>, <<"0">>} \cup {x \in {<<"F">>} : n % 4 = 0}
      [] k = "argv" ->
           KeyForms \cup {Key("pair", o, v) : o \in {"threads", "debug"}, v \in {"1", "x"}}
           \cup {Key("val", "", v) : v \in Values} \cup {Key("dash", "", "")}

\* The pieces that may come after `n` others.
Pieces(k, n) == IF k \in DOMAIN Symbols THEN Single(Symbols[k]) ELSE Longer(k, n)

Lines == {"request", "response", "header"}
LineParse(k, s) ==
    CASE k = "request" -> ReqParse(s) [] k = "response" -> RespParse(s) [] OTHER -> HdrParse(s)

\* More input cannot change the result.
Decided(k, s) ==
    \/ k \in Lines /\ LineParse(k, s).n # 0
    \/ k = "message" /\ ReadRequest(s, <<>>).code # "more"
    \/ k = "ip6" /\ Cardinality({j \in 2 .. Len(s) : s[j - 1] = ":" /\ s[j] = ":"}) > 1
    \/ k = "argv" /\ Scheme(s).ret # "0"
    \/ k = "chunked" /\ ChunkedParse(NewChunked, s).ret < 0

Init == job \in Jobs /\ input = <<>> /\ got = <<>> /\ before = <<>>

\* The next piece comes; one more than the parser needs, to see that it does not matter.
Grow ==
    /\ Len(input) < MaxPieces[job]
    /\ input # <<>> => ~Decided(job, before)
    /\ \E p \in Pieces(job, Len(input)) : input' = Append(input, p) /\ got' = got \o p
    /\ before' = got
    /\ UNCHANGED job

Spec == Init /\ [][Grow]_vars

-----------------------------------------------------------------------------
(* Lines *)

In(s, a, b, S) == \A k \in a .. b : k \in DOMAIN s /\ s[k] \in S
EndsAt(s, k) == SubSeq(s, k, Len(s)) \in {<<"CR", "LF">>, <<"LF">>}

\* The lines of http1.h, by the positions of their parts, which P is about.
IsRequest(s, P(_)) ==
    \E m \in 1 .. Len(s) : In(s, 1, m, {"U"}) /\
    \E u \in m + 2 .. Len(s) : In(s, m + 1, u - 1, {"SP"}) /\
    \E e \in u .. Len(s) : In(s, u, e, Printable) /\
    \E v \in e + 2 .. Len(s) : In(s, e + 1, v - 1, {"SP"}) /\
    \E w \in v + 1 .. Len(s) : In(s, v, w, Printable) /\ SubSeq(s, v, v + 1) \in Versions /\
    \E x \in w + 1 .. Len(s) : In(s, w + 1, x - 1, {"SP"}) /\ EndsAt(s, x) /\
        P(<<SubSeq(s, 1, m), SubSeq(s, u, e), SubSeq(s, v, w)>>)

IsResponse(s, P(_)) ==
    \E p \in 1 .. Len(s) : In(s, 1, p, Printable) /\ In(s, p + 1, p + 1, {"SP"}) /\
        In(s, p + 2, p + 4, Digit) /\ In(s, p + 5, p + 5, {"SP"}) /\
    \E t \in p + 6 .. Len(s) : In(s, p + 6, t - 1, Printable \cup {"SP"}) /\ EndsAt(s, t) /\
        P(<<SubSeq(s, 1, p), SubSeq(s, p + 2, p + 4), SubSeq(s, p + 6, t - 1)>>)

IsHeader(s, P(_)) ==
    \E c \in 1 .. Len(s) : In(s, 1, c, Name) /\ s[1] # "-" /\ In(s, c + 1, c + 1, {":"}) /\
    \E e \in c + 2 .. Len(s) : EndsAt(s, e) /\
        (\A k \in c + 2 .. e - 1 : s[k] \notin {"CR", "LF"}) /\
    \E a, b \in c + 2 .. e :
        /\ In(s, c + 2, a - 1, {"SP"}) /\ In(s, b, e - 1, {"SP"})
        /\ a <= b /\ (a < b => s[a] # "SP" /\ s[b - 1] # "SP")
        /\ P(<<SubSeq(s, 1, c), SubSeq(s, a, b - 1)>>)

IsLine(k, s, P(_)) ==
    CASE k = "request" -> IsRequest(s, P)
      [] k = "response" -> IsResponse(s, P)
      [] k = "header" -> IsHeader(s, P) \/ (EndsAt(s, 1) /\ P(<<>>))

InFormat(k, s) == IsLine(k, s, LAMBDA f : TRUE)
HasParts(k, s, part) == IsLine(k, s, LAMBDA f : f = part)

(***************************************************************************)
(* http_req_parse, http_resp_parse and http_hdr_parse accept the lines of  *)
(* their format and nothing else, with its parts, and have decided when    *)
(* the line's LF has come; a header line is two symbols or less exactly    *)
(* when it is blank, which is how ahreq_parse knows the end of headers.    *)
(***************************************************************************)
LineExact ==
    job \in Lines =>
        LET p == LineParse(job, got)
            m == Find(got, 1, {"LF"})
            line == SubSeq(got, 1, m)
        IN  IF m > Len(got) THEN p.n <= 0
            ELSE /\ IF InFormat(job, line) THEN p.n = m /\ HasParts(job, line, p.part) ELSE p.n = -1
                 /\ job = "header" => (p.n \in {1, 2} <=> EndsAt(line, 1))

\* The end of what has come is text that follows "HTTP/1.1" without a space.
VersionRunsOn(s) ==
    \E v \in 2 .. Len(s) - 2 : /\ s[v - 1] = "SP" /\ SubSeq(s, v, v + 1) \in Versions
                             /\ In(s, v, Len(s), Printable)

(***************************************************************************)
(* A request may come in any parts: ahreq_parse parses what it has each    *)
(* time, and once a line is accepted or refused, more data does not change *)
(* that.  Left out: "HTTP/1.1" with text run on to it, which is refused    *)
(* when the data ends there and accepted when a space or the line's end    *)
(* has come too (README).                                                  *)
(***************************************************************************)
LineStable ==
    [][(job \in Lines /\ Decided(job, got) /\ ~VersionRunsOn(got)) =>
         LineParse(job, got') = LineParse(job, got)]_vars

=============================================================================
