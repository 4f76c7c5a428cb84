------------------------------ MODULE CmdArgs -------------------------------
(***************************************************************************)
(* util/cmdarg.h, util/cmdarg-scheme.h and the options of cmd.h.           *)
(*                                                                         *)
(* An argument is a record: `form` is "val" (it does not start with "-"),  *)
(* "short" ("-o"), "long" ("--option"), "pair" ("--option=value") or       *)
(* "dash" ("-" and what is not one character); `opt` is the option's long  *)
(* name, in either form, and `val` the text of a value.                    *)
(***************************************************************************)
EXTENDS Integers, SequencesExt

CONSTANTS
    Nprocs,                 \* processors online
    Values                  \* bound: values; some of "", "x", "0", "1", "3"

ASSUME NprocsAssumption == Nprocs \in Nat \ {0}

\* ahd_cmd_args: what has a value, and what has none.
Strings == {"listen", "www", "cpumask"}
Ints == {"threads", "kcall-threads"}
Switches == {"polling", "debug", "help"}
Options == Strings \cup Ints \cup Switches

None == "none"
NoConf == [o \in Options |-> None]

\* struct ffcmdarg_scheme, with the object it fills in; ret is 0 while all is well.
NewScheme == [arg |-> None, used |-> {}, conf |-> NoConf, ret |-> "0"]

\* ffcmdarg_parse: what one argument gives, in its order.
Tokens(a) ==
    CASE a.form = "val" -> <<[r |-> "VAL", s |-> a.val]>>
      [] a.form = "dash" -> <<[r |-> "ESHORT", s |-> ""]>>
      [] a.form \in {"short", "long"} -> <<[r |-> "KEY", s |-> a.opt]>>
      [] a.form = "pair" -> <<[r |-> "KEY", s |-> a.opt], [r |-> "KEYVAL", s |-> a.val]>>

\* What the option's type, or its handler (cmd_listen, cmd_cpumask), says of a value.
Verdict(o, v) ==
    CASE o \in {"listen", "www"} /\ v = ""  -> "error"          \* FFCMDARG_FNOTEMPTY
      [] o \in {"listen", "cpumask"} /\ v \in {"", "x"} -> "badval"
      [] o \in Ints /\ v \in {"", "x"} -> "error"
      [] OTHER -> "0"

\* Mutant: a key does not look whether the one before it has its value.
SchemeKeyForgets(as, o) ==
    CASE o \notin Options \/ o \in as.used -> [as EXCEPT !.ret = "error"]
      [] o = "help" /\ o \notin as.used -> [as EXCEPT !.ret = "done"]
      [] o \in Options \ {"help"} /\ o \notin as.used ->
           IF o \in Switches THEN [as EXCEPT !.conf[o] = "1", !.used = @ \cup {o}]
           ELSE [as EXCEPT !.arg = o, !.used = @ \cup {o}]

\* A key: an option that was not given yet, when none waits for its value.
SchemeKey(as, o) ==
    CASE as.arg # None \/ o \notin Options \/ o \in as.used -> [as EXCEPT !.ret = "error"]
      [] as.arg = None /\ o = "help" /\ o \notin as.used -> [as EXCEPT !.ret = "done"]
      [] as.arg = None /\ o \in Options \ (as.used \cup {"help"}) ->
           IF o \in Switches THEN [as EXCEPT !.conf[o] = "1", !.used = @ \cup {o}]
           ELSE [as EXCEPT !.arg = o, !.used = @ \cup {o}]

\* A value, of the option that waits for it.
SchemeValue(as, v) ==
    IF as.arg = None THEN [as EXCEPT !.ret = "error"]
    ELSE IF Verdict(as.arg, v) # "0" THEN [as EXCEPT !.ret = Verdict(as.arg, v)]
    ELSE [as EXCEPT !.conf[as.arg] = v, !.arg = None]

\* ffcmdarg_scheme_process, until something was wrong.
SchemeProcess(as, t) ==
    CASE as.ret # "0" -> as
      [] as.ret = "0" /\ t.r = "KEY" -> SchemeKey(as, t.s)
      [] as.ret = "0" /\ t.r \in {"VAL", "KEYVAL"} -> SchemeValue(as, t.s)
      [] as.ret = "0" /\ t.r = "ESHORT" -> [as EXCEPT !.ret = "error"]
      [] as.ret = "0" /\ t.r = "DONE" -> IF as.arg # None THEN [as EXCEPT !.ret = "error"] ELSE as

\* ffcmdarg_parse_object of the arguments after the program's name: what the scheme is
\* after the last one, and what DONE makes of it.
Scheme(argv) ==
    FoldLeft(SchemeProcess, NewScheme, FlattenSeq([k \in DOMAIN argv |-> Tokens(argv[k])]))
ParseObject(argv) == SchemeProcess(Scheme(argv), [r |-> "DONE", s |-> ""])

Num(v) == CASE v = "1" -> 1 [] v = "3" -> 3 [] OTHER -> 0

\* The CPUs of a mask.
Mask(v) == CASE v = "1" -> {0} [] v = "3" -> {0, 1} [] OTHER -> {}

\* cmd_fin: what is zero or not given gets its default.
CmdFin(conf) ==
    LET t == Num(conf["threads"])
        m == Mask(conf["cpumask"])
        k == Num(conf["kcall-threads"])
        n == IF t = 0 THEN Nprocs ELSE t
    IN  [workers |-> n, kcalls |-> IF k = 0 THEN n ELSE k,
         cpumask |-> IF t = 0 /\ m = {} THEN 0 .. 31 ELSE m]

\* cpu_affinity: each worker takes the first CPU that is left in the mask, while there is one.
Affinity(c) ==
    LET Take(p, w) ==
            IF p.mask = {} THEN p
            ELSE [mask |-> p.mask \ {Min(p.mask)}, cpus |-> Append(p.cpus, Min(p.mask))]
    IN  FoldLeft(Take, [mask |-> c.cpumask, cpus |-> <<>>], [w \in 1 .. c.workers |-> w]).cpus

\* cmd_read: 0 with the configuration, or what made it fail.
CmdRead(argv) ==
    LET as == ParseObject(argv)
    IN  [ret |-> as.ret, conf |-> as.conf, fin |-> CmdFin(as.conf)]

=============================================================================
