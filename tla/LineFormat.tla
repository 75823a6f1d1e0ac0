------------------------------ MODULE LineFormat ------------------------------
(***************************************************************************)
(* The texts the relay understands: the parsers of src/src/protocol.c,     *)
(* which find the key of a line, and the validators of src/src/validate.c. *)
(* A text is a sequence of characters without its newline and without NUL. *)
(***************************************************************************)
EXTENDS Integers, Sequences, FiniteSets

CONSTANTS
    Chars,      \* the characters of the texts that are checked
    MaxText,    \* bound: their length
    Prefix      \* a beginning to which all of them are added as well

ASSUME FormatAssumption == MaxText \in Nat /\ Prefix \in Seq(Chars)

(* memchr from position i on: the first c, or 0 for NULL. *)
memchr(t, i, c) ==
    IF \E j \in i..Len(t) : t[j] = c
    THEN CHOOSE j \in i..Len(t) : t[j] = c /\ \A k \in i..(j - 1) : t[k] # c
    ELSE 0

(* Mutant of simple_parse: the key ends one character early. *)
SimpleParseShort(t, needle) ==
    IF memchr(t, 1, needle) = 0 THEN 0 ELSE memchr(t, 1, needle) - 2

(* The length of the key, 0 if there is none. *)
simple_parse(t, needle) ==
    IF memchr(t, 1, needle) = 0 THEN 0 ELSE memchr(t, 1, needle) - 1
protocol_parser_statsd(t) == simple_parse(t, ":")
protocol_parser_carbon(t) == simple_parse(t, " ")

(* strtod reads a number at position i: spaces, a sign, and a digit before *)
(* or after a point.  What follows the number does not matter.             *)
strtod(t, i) ==
    \E j \in i..Len(t) :
        /\ \A k \in i..(j - 1) : t[k] = " "
        /\ LET d == IF t[j] = "-" THEN j + 1 ELSE j
               e == IF d <= Len(t) /\ t[d] = "." THEN d + 1 ELSE d
           IN  e <= Len(t) /\ t[e] = "1"

valid_stat_types ==
    {<<"c">>, <<"m", "s">>, <<"k", "v">>, <<"g">>, <<"h">>, <<"s">>}

(* The type between i and the next | at j. *)
StatType(t, i, j) == SubSeq(t, i, j - 1) \in valid_stat_types

(* Mutant of SampleRate: the length is tested before the @ is skipped. *)
SampleRateOffByOne(t, bar) == bar + 1 <= Len(t) /\ t[bar + 1] = "@"

(* What follows the second |: a @ and a rate. *)
SampleRate(t, bar) ==
    /\ bar + 1 <= Len(t) /\ t[bar + 1] = "@"
    /\ bar + 2 <= Len(t) /\ strtod(t, bar + 2)

validate_statsd(t) ==
    LET colon == memchr(t, 1, ":")
        bar   == memchr(t, colon + 1, "|")
        bar2  == memchr(t, bar + 1, "|")
    IN  /\ colon > 1
        /\ strtod(t, colon + 1)
        /\ bar # 0
        /\ StatType(t, bar + 1, IF bar2 = 0 THEN Len(t) + 1 ELSE bar2)
        /\ bar2 # 0 => SampleRate(t, bar2)

(* Two spaces are found and no third. *)
validate_carbon(t) ==
    LET first  == memchr(t, 1, " ")
        second == memchr(t, first + 1, " ")
    IN  first # 0 /\ second # 0 /\ memchr(t, second + 1, " ") = 0

-----------------------------------------------------------------------------
TextsOver(chars) == UNION {[1..n -> chars] : n \in 0..MaxText}
Texts == TextsOver(Chars) \cup {Prefix \o t : t \in TextsOver(Chars)}

(* The parts of a line of statsd, "key:value|type" or "key:value|type|@rate". *)
Numeric(s) == strtod(s, 1)
TypeAndRate(s) ==
    \/ s \in valid_stat_types
    \/ \E v \in valid_stat_types :
          /\ Len(s) > Len(v) + 2
          /\ SubSeq(s, 1, Len(v) + 2) = v \o <<"|", "@">>
          /\ Numeric(SubSeq(s, Len(v) + 3, Len(s)))

IsStatsd(t) ==
    \E i, j \in 1..Len(t) :
        LET key == SubSeq(t, 1, i - 1)
            value == SubSeq(t, i + 1, j - 1)
        IN  /\ i < j /\ t[i] = ":" /\ t[j] = "|"
            /\ key # <<>> /\ \A k \in DOMAIN key : key[k] # ":"
            /\ Numeric(value) /\ \A k \in DOMAIN value : value[k] # "|"
            /\ TypeAndRate(SubSeq(t, j + 1, Len(t)))

IsCarbon(t) == Cardinality({i \in DOMAIN t : t[i] = " "}) = 2

(* The validators accept exactly the texts of their formats. *)
Exact(t) ==
    /\ validate_statsd(t) <=> IsStatsd(t)
    /\ validate_carbon(t) <=> IsCarbon(t)
=============================================================================
