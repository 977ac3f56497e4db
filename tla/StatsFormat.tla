---------------------------- MODULE StatsFormat ----------------------------
(***************************************************************************)
(* bytesHumanFriendly (src/unnamed/part_002 103-131), which Stats.String   *)
(* uses for mem= and maxMem=.  The text it returns is abstracted to what   *)
(* it spells: the printed number as an integer num with prec decimals      *)
(* (num / 10^prec) and the unit letter.  The conversions are modelled by   *)
(* what they do: the loop dividing by 1024, float64(bytes)/float64(div)    *)
(* (exact: div is a power of two and bytes fits a float64 mantissa), the  *)
(* test against 0.001, the narrowing to float32 that FormatFloat(..., 32)  *)
(* applies (rounding to 24 significant bits, half to even) and the decimal *)
(* rounding of 'f' formatting (the exact value, half to even).             *)
(***************************************************************************)
EXTENDS Integers

unit == 1024

measure == <<"B", "K", "M", "G", "T", "P", "E">>

\* Mutant: the loop runs while n > unit.
RECURSIVE ScaleGT(_, _, _)
ScaleGT(n, div, exp) ==
    IF n > unit THEN ScaleGT(n \div unit, div * unit, exp + 1)
    ELSE [div |-> div, exp |-> exp]

\* for n := bytes; n >= unit; n /= unit { div *= unit; exp++ }
RECURSIVE Scale(_, _, _)
Scale(n, div, exp) ==
    IF n >= unit THEN Scale(n \div unit, div * unit, exp + 1)
    ELSE [div |-> div, exp |-> exp]

RECURSIVE BitLen(_)
BitLen(x) == IF x = 0 THEN 0 ELSE 1 + BitLen(x \div 2)

\* n / d rounded to the nearest integer, a tie to the even one.
RoundHalfEven(n, d) ==
    LET q == n \div d
        r == n % d
    IN IF 2 * r > d \/ (2 * r = d /\ q % 2 = 1) THEN q + 1 ELSE q

\* float32(bytes / div) * div: bytes rounded to 24 significant bits.
ToFloat32(b) ==
    LET s == BitLen(b) - 24 IN
    IF s <= 0 THEN b ELSE RoundHalfEven(b, 2^s) * 2^s

\* result - float64(int(result)) < 0.001, with result = bytes / div.
IsWhole(b, div) == 1000 * (b % div) < div

\* prec = 0 for a whole result, else 2; FormatFloat(result, 'f', prec, 32)
\* followed by measure[exp].
bytesHumanFriendly(bytes) ==
    LET sc == Scale(bytes, 1, 0)
        prec == IF IsWhole(bytes, sc.div) THEN 0 ELSE 2
    IN [num |-> RoundHalfEven(ToFloat32(bytes) * 10^prec, sc.div),
        prec |-> prec, unit |-> measure[sc.exp + 1]]

-----------------------------------------------------------------------------
(* Reference.  Inputs stay below 2^31 / 100, the bound of TLC's integers   *)
(* for the arithmetic above; they reach the unit M, the 0.001 threshold,  *)
(* float32 rounding (above 2^24), decimal ties and the tests' examples.    *)

MiB == 1024 * 1024

CheckedBytes ==
    {0, 1, 999, 1152, 1408, 1998, 1048575, 11010048, 16777217, 16777219,
     20 * MiB}
    \cup {k * 1024 + d : k \in {1, 2, 1023}, d \in {-1, 0, 1}}
    \cup {MiB + d : d \in {-1, 0, 1, 1048, 1049}}

\* The exponent of the largest power of 1024 not above b (0 below 1024).
RefExp(b) == CHOOSE e \in 0 .. 2 : (e = 0 \/ 1024^e <= b) /\ b < 1024^(e + 1)

DecDigits(x) == IF x < 10 THEN 1 ELSE IF x < 100 THEN 2 ELSE IF x < 1000 THEN 3
                ELSE IF x < 10000 THEN 4 ELSE IF x < 100000 THEN 5 ELSE 6

\* Length of the text: the digits (at least "0.00" with decimals), the dot
\* and the unit letter.
Width(o) ==
    IF o.prec = 0 THEN DecDigits(o.num) + 1
    ELSE (IF DecDigits(o.num) < 3 THEN 3 ELSE DecDigits(o.num)) + 2

AbsDiff(x, y) == IF x >= y THEN x - y ELSE y - x

\* The text for b is in the largest unit not above b: the whole number when
\* the fraction is below a thousandth of the unit, else rounded to two
\* decimals; it fits the capacity the code gives its buffer (bufSize 5, or
\* 8 with decimals: "1023.90M").
FormatsAsDocumented(b) ==
    LET o == bytesHumanFriendly(b)
        s == 1024^RefExp(b)
    IN /\ o.unit = measure[RefExp(b) + 1]
       /\ o.prec = 0 => o.num * s <= b /\ 1000 * (b - o.num * s) < s
       /\ o.prec = 2 => 2 * AbsDiff(o.num * s, 100 * b) <= s
       /\ Width(o) <= IF o.prec = 0 THEN 5 ELSE 8

\* What Stats.String's test expects for 999, 1998 and 10.5M bytes.
TestExamples ==
    /\ bytesHumanFriendly(999) = [num |-> 999, prec |-> 0, unit |-> "B"]
    /\ bytesHumanFriendly(1998) = [num |-> 195, prec |-> 2, unit |-> "K"]
    /\ bytesHumanFriendly(11010048) = [num |-> 1050, prec |-> 2, unit |-> "M"]
=============================================================================
