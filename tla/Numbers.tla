------------------------------ MODULE Numbers -------------------------------
(***************************************************************************)
(* The arithmetic of JSON.NUMINCRBY and JSON.NUMMULTBY: int64_t and double *)
(* with scaled-down widths.  A double here is a whole number with at most  *)
(* Mantissa significant bits; fractions are not modelled.                  *)
(***************************************************************************)
EXTENDS Integers, FiniteSets

CONSTANTS
    Int64Bits,      \* width of int64_t
    Mantissa,       \* significant bits of a double
    MaxDouble,      \* largest finite double
    OutOfRangeInt   \* what the processor converts an unrepresentable double to

INT64_MAX == 2^(Int64Bits - 1) - 1
INT64_MIN == -(2^(Int64Bits - 1))

ASSUME NumbersAssumption ==
    /\ Int64Bits \in Nat \ {0} /\ Mantissa \in Nat \ {0}
    /\ MaxDouble \in Nat /\ MaxDouble > INT64_MAX
    /\ OutOfRangeInt \in {INT64_MIN, INT64_MAX}

Abs(x) == IF x < 0 THEN -x ELSE x

\* Distance between doubles of the magnitude of x.
Spacing(x) ==
    LET e == CHOOSE k \in 0..Abs(x) :
                /\ Abs(x) < 2^k * 2^Mantissa
                /\ k = 0 \/ Abs(x) >= 2^(k - 1) * 2^Mantissa
    IN  2^e

\* The double nearest to x, the even one of two equally near.
AsDouble(x) ==
    LET s == Spacing(x)
        q == Abs(x) \div s
        r == Abs(x) % s
        up == 2 * r > s \/ (2 * r = s /\ q % 2 = 1)
        m == IF up THEN (q + 1) * s ELSE q * s
    IN  IF x < 0 THEN -m ELSE m

\* isinf of a result
IsInf(x) == Abs(x) > MaxDouble

\* (int64_t)rz
ToInt64(rz) == IF rz \in INT64_MIN..INT64_MAX THEN rz ELSE OutOfRangeInt

\* "an int64 can hold it", as the code tests it
FitsInt64(rz) == rz <= AsDouble(INT64_MAX) /\ rz >= AsDouble(INT64_MIN)
=============================================================================
