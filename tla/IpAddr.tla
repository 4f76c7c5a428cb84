------------------------------- MODULE IpAddr -------------------------------
(***************************************************************************)
(* util/ipaddr.h, and the listening address of cmd.h.  A text is a         *)
(* sequence of symbols: the hexadecimal digits in use, ":", ".", "/", "[", *)
(* "]" and "x" for any other byte.  An IPv4 address is a sequence of four  *)
(* numbers, an IPv6 address of eight (the code's pairs of bytes).          *)
(***************************************************************************)
EXTENDS Scan, SequencesExt

DigitSyms == <<"0", "1", "2", "3", "4", "5", "6", "7", "8", "9", "A", "B", "C", "D", "E", "F">>
HexDigits == {DigitSyms[k] : k \in 1 .. 16}
DecDigits == {DigitSyms[k] : k \in 1 .. 10}

Number(s, base) ==
    FoldLeft(LAMBDA n, d : n * base + (CHOOSE k \in 1 .. 16 : DigitSyms[k] = d) - 1, 0, s)

\* The digits of a number, without leading zeros (ffs_fromint).
RECURSIVE Render(_, _)
Render(n, base) ==
    (IF n < base THEN <<>> ELSE Render(n \div base, base)) \o <<DigitSyms[(n % base) + 1]>>

\* ffs_toint of a whole text, of at most `max`; -1 when it is none.
ToInt(s, max) ==
    IF s # <<>> /\ ToSet(s) \subseteq DecDigits /\ Number(s, 10) <= max THEN Number(s, 10) ELSE -1

Fails == [ret |-> -1, ip |-> <<>>]

\* What the parsers return at position `k`: 0 when all has been read.
ReadTo(s, k, ip) == [ret |-> IF k > Len(s) THEN 0 ELSE k - 1, ip |-> ip]

-----------------------------------------------------------------------------
(* IPv4 *)

\* Mutant: off by one.
FitsByteLoose(b) == b <= 256

FitsByte(b) == b <= 255

\* ffip4_parse from position `k`, with the numbers `ip` before it.
RECURSIVE Ip4From(_, _, _)
Ip4From(s, k, ip) ==
    LET p == Past(s, k, DecDigits)
        e == IF p > k + 3 THEN k + 3 ELSE p             \* ndig != 3
        b == Number(SubSeq(s, k, e - 1), 10)
    IN  IF e = k \/ ~FitsByte(b) THEN Fails
        ELSE IF Len(ip) = 3 THEN ReadTo(s, e, Append(ip, b))
        ELSE IF e > Len(s) \/ s[e] # "." THEN Fails
        ELSE Ip4From(s, e + 1, Append(ip, b))
Ip4Parse(s) == Ip4From(s, 1, <<>>)

\* ffip4_tostr
Ip4ToStr(ip) ==
    FoldLeftDomain(LAMBDA t, k : t \o (IF k = 1 THEN <<>> ELSE <<".">>) \o Render(ip[k], 10),
                   <<>>, ip)

-----------------------------------------------------------------------------
(* IPv6 *)

\* ffip6_v4mapped_set, and ffip6_tov4 of what it gives.
V4Mapped(ip4) == <<0, 0, 0, 0, 0, 65535, ip4[1] * 256 + ip4[2], ip4[3] * 256 + ip4[4]>>
IsV4Mapped(ip) == SubSeq(ip, 1, 6) = <<0, 0, 0, 0, 0, 65535>>
ToV4(ip) == <<ip[7] \div 256, ip[7] % 256, ip[8] \div 256, ip[8] % 256>>

\* Mutant: the zeros are put at the end.
WidenEnd(ip, z) == ip \o [k \in 1 .. 8 - Len(ip) |-> 0]

\* The zeros that "::" after `z` numbers stands for.
Widen(ip, z) == SubSeq(ip, 1, z) \o [k \in 1 .. 8 - Len(ip) |-> 0] \o SubSeq(ip, z + 1, Len(ip))

\* After the loop, which stopped at position `k` with `digits` of a number read.
Ip6End(s, k, ip, zeros, digits) ==
    LET all == IF digits = <<>> THEN ip ELSE Append(ip, Number(digits, 16))
    IN  CASE digits = <<>> /\ zeros # Len(ip) -> Fails          \* a single ":" at the end
          [] zeros >= 0 /\ (digits # <<>> \/ zeros = Len(ip)) -> ReadTo(s, k, Widen(all, zeros))
          [] OTHER -> IF Len(all) = 8 THEN ReadTo(s, k, all) ELSE Fails

\* ffip6_parse from position `k`, with the numbers `ip` before it; "::" was met after
\* `zeros` of them, if that is not negative.
RECURSIVE Ip6From(_, _, _, _)
Ip6From(s, k, ip, zeros) ==
    LET p == Past(s, k, HexDigits)
        e == IF p > k + 4 THEN k + 4 ELSE p
        digits == SubSeq(s, k, e - 1)
        two == k = 1 /\ Len(s) >= 2 /\ s[2] = ":"
    IN  IF k <= Len(s) /\ Len(ip) = 8 THEN Fails
        ELSE IF e > Len(s) \/ s[e] # ":" THEN Ip6End(s, e, ip, zeros, digits)
        ELSE CASE digits # <<>> -> Ip6From(s, e + 1, Append(ip, Number(digits, 16)), zeros)
               [] digits = <<>> /\ k = 1 -> IF two THEN Ip6From(s, 3, ip, 0) ELSE Fails
               [] digits = <<>> /\ k > 1 ->
                    IF zeros >= 0 THEN Fails ELSE Ip6From(s, e + 1, ip, Len(ip))
Ip6Parse(s) == Ip6From(s, 1, <<>>, -1)

\* The longest run of zeros, the first one of that length; empty when there are none.
ZeroRun(ip) ==
    LET Runs == {r \in (1 .. 8) \X (0 .. 8) : r[1] <= r[2] + 1 /\ \A k \in r[1] .. r[2] : ip[k] = 0}
    IN  CHOOSE r \in Runs : \A q \in Runs :
            \/ q[2] - q[1] < r[2] - r[1]
            \/ q[2] - q[1] = r[2] - r[1] /\ r[1] <= q[1]

\* The numbers a to b, with ":" between them.
Groups(ip, a, b) ==
    FoldLeftDomain(LAMBDA t, k : t \o (IF k = 1 THEN <<>> ELSE <<":">>) \o Render(ip[a + k - 1], 16),
                   <<>>, SubSeq(ip, a, b))

\* ffip6_tostr: the longest run of zeros is written "::".
Ip6ToStr(ip) ==
    LET r == ZeroRun(ip)
    IN  IF r[2] < r[1] THEN Groups(ip, 1, 8)
        ELSE Groups(ip, 1, r[1] - 1) \o <<":", ":">> \o Groups(ip, r[2] + 1, 8)

\* ffip46_tostr, as clients' addresses are written to the logs.
Ip46ToStr(ip) == IF IsV4Mapped(ip) THEN Ip4ToStr(ToV4(ip)) ELSE Ip6ToStr(ip)

-----------------------------------------------------------------------------
(* cmd.h: --listen *)

AnyAddr == <<0, 0, 0, 0, 0, 0, 0, 0>>
BadAddr == [ip |-> <<>>, port |-> -1]

\* The port is all that follows position `k`, where a ":" must be.
PortAfter(s, k, ip) ==
    LET port == ToInt(SubSeq(s, k + 1, Len(s)), 65535)
    IN  IF k <= Len(s) /\ s[k] = ":" /\ port >= 0 THEN [ip |-> ip, port |-> port] ELSE BadAddr

(***************************************************************************)
(* ip_port_split: PORT, IP4:PORT or [IP6]:PORT.  What does not start with  *)
(* an IPv4 address, or is one and nothing else, is read as a port.         *)
(***************************************************************************)
IpPortSplit(s) ==
    LET six == Ip6Parse(Tail(s))
        four == Ip4Parse(s)
    IN  CASE s[1] = "[" ->
               IF six.ret > 0 /\ s[six.ret + 2] = "]" THEN PortAfter(s, six.ret + 3, six.ip) ELSE BadAddr
          [] s[1] # "[" /\ four.ret > 0 -> PortAfter(s, four.ret + 1, V4Mapped(four.ip))
          [] OTHER -> PortAfter(<<":">> \o s, 1, AnyAddr)

=============================================================================
