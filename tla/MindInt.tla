------------------------------ MODULE MindInt ------------------------------
(***************************************************************************)
(* The integers of the language, and what the operators on them do, in the *)
(* interpreter (src/src/eval/mod.rs) and in the compiled program alike.    *)
(***************************************************************************)
EXTENDS Integers

CONSTANT MaxInt     \* the largest integer; 2^63 - 1 in the code

ASSUME IntAssumption == MaxInt \in Nat \ {0}

MinInt == -MaxInt - 1
Ints   == MinInt .. MaxInt

\* No integer of the width: what reading a value that was never set gives.
Undef == MaxInt + 1

\* Two's complement: as many integers as there are words of the width.
Wrap(n) == ((n - MinInt) % (MaxInt - MinInt + 1)) + MinInt

Truth(b) == IF b THEN 1 ELSE 0

Operators == {"+", "-", "*", "<", "=="}

\* The value of an operation before it is cut to the width.
Exact(f, l, r) ==
    CASE f = "+"  -> l + r
      [] f = "-"  -> l - r
      [] f = "*"  -> l * r
      [] f = "<"  -> Truth(l < r)
      [] f = "==" -> Truth(l = r)

\* The integer operators, wrapping around at the width.
Apply(f, l, r) == IF Undef \in {l, r} THEN Undef ELSE Wrap(Exact(f, l, r))
=============================================================================
