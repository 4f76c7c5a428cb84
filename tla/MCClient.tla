------------------------------ MODULE MCClient ------------------------------
(***************************************************************************)
(* Requests for the runs of Client.                                        *)
(***************************************************************************)
EXTENDS Client

Req(method, target, ka) ==
    [method |-> method, target |-> target, ka |-> ka, ims |-> FALSE, bad |-> FALSE]

PostDoc == {<<"POST", "missing">>}
NoDocs == {}

\* A request of every kind that the chain treats in its own way.
EveryRequest ==
    {Req("GET", t, TRUE) : t \in Targets}
    \cup {Req("HEAD", t, TRUE) : t \in {"file", "missing", "listing"}}
    \cup {Req("POST", t, TRUE) : t \in {"file", "listing"}}
    \cup {Req("GET", "file", FALSE), Req("POST", "missing", TRUE)}
    \cup {[Req("GET", "file", TRUE) EXCEPT !.ims = TRUE],
          [Req("GET", "file", TRUE) EXCEPT !.bad = TRUE],
          [Req("POST", "missing", TRUE) EXCEPT !.bad = TRUE]}

\* The fewest that meet every failure.
FewRequests ==
    {Req("GET", t, TRUE) : t \in {"file", "missing", "dir", "index", "listing", "nodir"}}
    \cup {Req("HEAD", "file", TRUE), Req("GET", "file", FALSE)}
    \cup {[Req("GET", "file", TRUE) EXCEPT !.ims = TRUE],
          [Req("GET", "file", TRUE) EXCEPT !.bad = TRUE]}

\* Conditional and plain requests for a file.
FileRequests == {Req("GET", "file", TRUE), [Req("GET", "file", TRUE) EXCEPT !.ims = TRUE]}

PlainRequest == {Req("GET", "file", TRUE)}

=============================================================================
