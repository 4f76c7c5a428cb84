------------------------------- MODULE HttpUrl -------------------------------
(***************************************************************************)
(* util/http1.h: URLs, and what ahreq_parse makes of the one in a request  *)
(* line.  A URL is a sequence of symbols: the delimiters and hexadecimal   *)
(* digits stand for themselves, "x" for any other byte that may stand in a *)
(* URL, "c" for one that may not.  The byte that two hexadecimal digits    *)
(* give is the string of both.                                             *)
(***************************************************************************)
EXTENDS Scan

Digits == {"2", "5", "F"}               \* bound: hexadecimal digits that are used
Plain == Digits \cup {"x", ":", "/", "[", "]", "?", "#"}

\* Mutant: the hash is kept in the query.
AfterPathHash(u, k) ==
    IF k > Len(u) THEN [query |-> <<>>, hash |-> <<>>]
    ELSE LET h == IF u[k] = "?" THEN Len(u) + 1 ELSE k
         IN  [query |-> SubSeq(u, k, h - 1), hash |-> SubSeq(u, h, Len(u))]

\* What follows the path, from position `k`.
AfterPath(u, k) ==
    IF k > Len(u) THEN [query |-> <<>>, hash |-> <<>>]
    ELSE LET h == IF u[k] = "?" THEN Find(u, k, {"#"}) ELSE k
         IN  [query |-> SubSeq(u, k, h - 1), hash |-> SubSeq(u, h, Len(u))]

\* Where the host starts: after "http://" or the like, when something follows it.
HostStart(u) ==
    LET r == Find(u, 1, {":", "[", "/"})
    IN  IF r + 3 <= Len(u) /\ SubSeq(u, r, r + 2) = <<":", "/", "/">> THEN r + 3 ELSE 1

\* httpurl_split; ret is -1 when something else than ":" or "/" follows "[ip6]".
UrlSplit(u) ==
    LET a == HostStart(u)
        r == Find(u, a, {":", "[", "/"})
        p == IF r <= Len(u) /\ u[r] = "[" THEN Find(u, r, {"]"}) + 1 ELSE r
        q == IF u[p] = ":" THEN Find(u, p, {"/"}) ELSE p
        t == Find(u, q, {"?", "#"})
        Parts(ret, host, port, path, rest) ==
            [ret |-> ret, scheme |-> SubSeq(u, 1, a - 1), host |-> host, port |-> port,
             path |-> path, query |-> rest.query, hash |-> rest.hash]
        None == AfterPath(<<>>, 1)
    IN  IF p > Len(u) THEN Parts(0, SubSeq(u, a, Len(u)), <<>>, <<>>, None)
        ELSE IF q > Len(u) THEN Parts(0, SubSeq(u, a, p - 1), SubSeq(u, p, Len(u)), <<>>, None)
        ELSE IF u[q] # "/" THEN Parts(-1, SubSeq(u, a, p - 1), SubSeq(u, p, q - 1), <<>>, None)
        ELSE Parts(0, SubSeq(u, a, p - 1), SubSeq(u, p, q - 1), SubSeq(u, q, t - 1), AfterPath(u, t))

\* httpurl_escape: every byte that may not stand in a URL is written in three.
UrlEscape(u, code) ==
    LET f[k \in 0 .. Len(u)] ==
            IF k = 0 THEN <<>>
            ELSE f[k - 1] \o (IF u[k] = "c" THEN <<"%">> \o code ELSE <<u[k]>>)
    IN  f[Len(u)]

\* Mutant: of an escape at the end of the path too little is counted.
UnescapedSizeCut(u) ==
    LET f[k \in 1 .. Len(u) + 3] ==
            IF k > Len(u) THEN 0
            ELSE LET r == Past(u, k, Plain)
                 IN  IF r > Len(u) THEN r - k
                     ELSE IF r + 3 > Len(u) THEN r - k ELSE r - k + 1 + f[r + 3]
    IN  f[1]

\* httpurl_unescape without a buffer: the room its result needs.  It steps over three
\* bytes wherever a byte is not plain, also past the end.
UnescapedSize(u) ==
    LET f[k \in 1 .. Len(u) + 3] ==
            IF k > Len(u) THEN 0
            ELSE LET r == Past(u, k, Plain)
                 IN  IF r > Len(u) THEN r - k ELSE r - k + 1 + f[r + 3]
    IN  f[1]

\* An escape sequence at position `k`.
EscapeAt(u, k) == k + 2 <= Len(u) /\ u[k] = "%" /\ u[k + 1] \in Digits /\ u[k + 2] \in Digits

\* httpurl_unescape into a buffer for `cap` bytes.
UrlUnescape(u, cap) ==
    LET fails == [ok |-> FALSE, out |-> <<>>]
        f[p \in (1 .. Len(u) + 1) \X (0 .. cap)] ==         \* a position, and the room left
            LET k == p[1]
                r == Past(u, k, Plain)
                n == r - k
                rest == f[<<r + 3, p[2] - n - 1>>]
            IN  IF n > p[2] THEN fails
                ELSE IF r > Len(u) THEN [ok |-> TRUE, out |-> SubSeq(u, k, Len(u))]
                ELSE IF ~EscapeAt(u, r) \/ n = p[2] THEN fails
                ELSE [ok |-> rest.ok,
                      out |-> SubSeq(u, k, r - 1) \o <<u[r + 1] \o u[r + 2]>> \o rest.out]
    IN  f[<<1, cap>>]

\* ahreq_parse from the request line's URL to unescaped_path, before ffpath_normalize: a
\* path that is empty, or does not unescape, is status 400.
Status(un) ==
    IF un.ok /\ Len(un.out) > 0 THEN [code |-> 0, path |-> un.out] ELSE [code |-> 400, path |-> <<>>]
UnescapedPath(url) ==
    LET path == UrlSplit(url).path
    IN  Status(UrlUnescape(path, UnescapedSize(path)))

=============================================================================
