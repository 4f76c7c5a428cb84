------------------------------- MODULE LtConf -------------------------------
(***************************************************************************)
(* util/ltconf.h, and the map of content types that http/file.h builds     *)
(* with it.  Symbols: "SP" for space, tab and CR, "LF", "#", "\"", "\\",   *)
(* "x" itself, a hexadecimal digit ("0"), "k" for any other printable byte *)
(* and "c" for one that is not printable.                                  *)
(***************************************************************************)
EXTENDS Scan, SequencesExt

CONSTANT MaxExt                 \* the longest file-name extension in the map (4)

HexSyms == {"0"}
WordSyms == {"#", "\\", "x", "k"} \cup HexSyms
QuotedSyms == {"SP", "#", "x", "k"} \cup HexSyms

\* struct ltconf; `start` is where `in` points, from which quoted text is returned.
NewConf == [state |-> "white", key |-> FALSE, val |-> FALSE, quoted |-> FALSE, line |-> 1,
            start |-> 1]

Result(ret, c, out, at) == [ret |-> ret, c |-> c, out |-> out, at |-> at]

\* A whole word has been read up to position `at`: the line's key, or one of its values.
Text(c, out, at) ==
    LET d == [c EXCEPT !.state = "white1", !.key = TRUE, !.val = c.key]
        ret == CASE ~c.key -> "KEY" [] c.key /\ ~c.val -> "VAL" [] OTHER -> "VAL_NEXT"
    IN  Result(ret, d, out, at)

NewLine(c) == [c EXCEPT !.key = FALSE, !.val = FALSE, !.quoted = FALSE, !.line = @ + 1]

\* Mutant: the text before an escape sequence is not returned.
AtBackslashDrops(c, in, d, e) == Result("CHUNK", [c EXCEPT !.state = "bs"], <<>>, e + 1)

\* A backslash at position `e` in quotes: the text before it is returned first.
AtBackslash(c, in, d, e) ==
    Result("CHUNK", [c EXCEPT !.state = "bs"], SubSeq(in, c.start, e - 1), e + 1)

(***************************************************************************)
(* The loop of ltconf_read from position `d` on.  "\x" with one symbol     *)
(* left falls through to the second digit and reads past the input:        *)
(* OVERREAD stands for what that may give.                                 *)
(***************************************************************************)
RECURSIVE Read(_, _, _)
Read(c, in, d) ==
    LET end == Len(in) + 1
        Done(r) == Result(r, c, <<>>, end)
        Go(st, k) == Read([c EXCEPT !.state = st], in, k)
    IN
    IF d = end THEN Done("MORE") ELSE
    CASE c.state = "white1" ->
           IF in[d] \in {"SP", "LF"} THEN Read([c EXCEPT !.state = "white", !.quoted = FALSE], in, d)
           ELSE Done("ERROR")
      [] c.state = "white" ->
           LET e == Past(in, d, {"SP"})
           IN  IF e = end THEN Done("MORE") ELSE
               CASE in[e] = "LF" -> Read(NewLine(c), in, e + 1)
                 [] in[e] = "#" -> Go("comment", e)
                 [] OTHER -> Read([c EXCEPT !.state = "word", !.start = e], in, e)
      [] c.state = "comment" ->
           LET e == Find(in, d, {"LF"}) IN IF e = end THEN Done("MORE") ELSE Go("white", e)
      [] c.state = "word" ->
           LET e == Past(in, d, WordSyms)
           IN  CASE in[d] = "\"" ->
                      Read([c EXCEPT !.state = "quote", !.quoted = TRUE, !.start = d + 1], in, d + 1)
                 [] in[d] # "\"" /\ e = end -> Result("CHUNK", c, SubSeq(in, d, Len(in)), end)
                 [] in[d] # "\"" /\ e = d /\ e # end -> Done("ERROR")
                 [] OTHER -> Text(c, SubSeq(in, d, e - 1), e)
      [] c.state = "quote" ->
           LET e == Past(in, d, QuotedSyms)
           IN  IF e = end THEN Result("CHUNK", c, SubSeq(in, d, Len(in)), end) ELSE
               CASE in[e] = "LF" -> Read([c EXCEPT !.line = @ + 1], in, e + 1)
                 [] in[e] = "\\" -> IF e = d THEN Go("bs", e + 1) ELSE AtBackslash(c, in, d, e)
                 [] in[e] = "\"" -> Text(c, SubSeq(in, c.start, e - 1), e + 1)
                 [] OTHER -> Done("ERROR")
      [] c.state = "bs" ->
           CASE in[d] \in {"\"", "\\"} -> Result("CHUNK", [c EXCEPT !.state = "quote"], <<in[d]>>, d + 1)
             [] in[d] = "x" -> Go("bs_x1", d + 1)
             [] OTHER -> Done("ERROR")
      [] c.state = "bs_x1" ->
           CASE d + 1 = end -> Done("OVERREAD")
             [] d + 1 < end /\ {in[d], in[d + 1]} \subseteq HexSyms ->
                  Result("CHUNK", [c EXCEPT !.state = "quote"], <<"byte">>, d + 2)
             [] OTHER -> Done("ERROR")

\* ltconf_read of what is left of the input.
LtconfRead(c, in) == Read([c EXCEPT !.start = 1], in, 1)
Rest(r, in) == SubSeq(in, r.at, Len(in))

\* What calls of ltconf_read return until one of them returns a value in `Ends`.
RECURSIVE Calls(_, _, _)
Calls(c, in, Ends) ==
    LET r == LtconfRead(c, in)
    IN  <<r>> \o (IF r.ret \in Ends THEN <<>> ELSE Calls(r.c, Rest(r, in), Ends))

-----------------------------------------------------------------------------
(* http/file.h *)

\* Mutant: the extension is mapped to the word before it.
InitStepPrev(p, r) ==
    CASE p.end -> p
      [] ~p.end /\ r.ret = "KEY" -> [p EXCEPT !.ct = r.out]
      [] ~p.end /\ r.ret \in {"VAL", "VAL_NEXT"} /\ Len(r.out) <= MaxExt ->
           [p EXCEPT !.types = Append(@, <<r.out, p.ct>>), !.ct = r.out]
      [] OTHER -> [p EXCEPT !.end = TRUE]

\* One round of the loop: it ends at the first result that is not a whole word, and at
\* the first extension that is too long.
InitStep(p, r) ==
    CASE p.end -> p
      [] ~p.end /\ r.ret = "KEY" -> [p EXCEPT !.ct = r.out]
      [] ~p.end /\ r.ret \in {"VAL", "VAL_NEXT"} /\ Len(r.out) <= MaxExt ->
           [p EXCEPT !.types = Append(@, <<r.out, p.ct>>)]
      [] OTHER -> [p EXCEPT !.end = TRUE]

\* alphahttpd_filter_file_init: the extensions that are given a content type, and it.
ContentTypes(text) ==
    FoldLeft(InitStep, [end |-> FALSE, ct |-> <<>>, types |-> <<>>],
             Calls(NewConf, text, {"MORE", "ERROR", "CHUNK", "OVERREAD"})).types

=============================================================================
