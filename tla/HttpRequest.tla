----------------------------- MODULE HttpRequest -----------------------------
(***************************************************************************)
(* ahreq_parse, in http/request.h: a request is read from all that the     *)
(* connection's buffer has, each time that something has come, until it is *)
(* complete or refused.  What Client takes as one step, its actions        *)
(* RequestIncomplete and RequestParsed, is this.                           *)
(***************************************************************************)
EXTENDS HttpSyntax, HttpUrl

KeepAlive == <<"a", "-">>           \* the values of Connection that count
Close == <<"x">>

\* What the headers from position `at` on have told; `n` is http_hdr_parse's last result,
\* and `host` may be known from an earlier attempt.
NewHeaders(at, host) == [at |-> at, n |-> 1, blank |-> FALSE, host |-> host, ka |-> 0]

\* Mutant: off by one.
BlankLong(n) == n <= 3

\* The end of the headers.
Blank(n) == n <= 2

\* What the line `p` tells.  The first Host that is not empty counts, and the last
\* Connection.
Noted(h, p) ==
    LET past == [h EXCEPT !.n = p.n, !.at = @ + p.n, !.blank = Blank(p.n)]
    IN  IF p.n <= 0 THEN [h EXCEPT !.n = p.n]
        ELSE IF Blank(p.n) THEN past
        ELSE CASE p.part[1] = <<"Host">> /\ h.host = <<>> -> [past EXCEPT !.host = p.part[2]]
               [] p.part[1] = <<"Connection">> /\ p.part[2] = KeepAlive -> [past EXCEPT !.ka = 1]
               [] p.part[1] = <<"Connection">> /\ p.part[2] = Close -> [past EXCEPT !.ka = -1]
               [] OTHER -> past

\* One round of the loop over the headers.
ReadHeader(h, s) ==
    IF h.blank \/ h.n <= 0 THEN h ELSE Noted(h, HdrParse(SubSeq(s, h.at, Len(s))))

\* The whole loop, after the request line.
ReadHeaders(s, line, host) ==
    FoldLeftDomain(LAMBDA h, k : ReadHeader(h, s), NewHeaders(line.n + 1, host), s)

\* Whether the connection is kept: what its headers say, or else HTTP/1.1.
Kept(h, version) == h.ka > 0 \/ (h.ka = 0 /\ version[2] = "1")

Unread(host) == [code |-> "more", host |-> host, full |-> 0, ka |-> FALSE, path |-> <<>>]
Refused(full, host) == [code |-> "400", host |-> host, full |-> full, ka |-> FALSE, path |-> <<>>]

\* To httpurl_split, most printable bytes are one.
UrlSymbols(url) == [k \in DOMAIN url |-> IF url[k] \in {":", "/"} THEN url[k] ELSE "x"]

\* After the headers; `full` is the length of the request in the buffer, which
\* ahreq_close drops when the connection is kept.
Complete(version, url, h) ==
    LET full == h.at - 1
    IN  IF (version[2] = "1" /\ h.host = <<>>) \/ url.code = 400 THEN Refused(full, h.host)
        ELSE [code |-> "0", host |-> h.host, full |-> full, ka |-> Kept(h, version), path |-> url.path]

FromHeaders(line, h) ==
    CASE h.n = 0 -> Unread(h.host)
      [] h.n < 0 -> Refused(0, h.host)
      [] h.n > 0 -> Complete(line.part[3], UnescapedPath(UrlSymbols(line.part[2])), h)

FromLine(s, line, host) ==
    CASE line.n = 0 -> Unread(host)
      [] line.n < 0 -> Refused(0, host)
      [] line.n > 0 -> FromHeaders(line, ReadHeaders(s, line, host))

\* The whole of ahreq_parse.
ReadRequest(s, host) == FromLine(s, ReqParse(s), host)

=============================================================================
