------------------------------- MODULE Int32 -------------------------------
(***************************************************************************)
(* Go's int32: addition and subtraction wrap around at 32 bits.  The sums  *)
(* are arranged so that no intermediate value leaves the range, because    *)
(* TLC's own integers have 32 bits.                                        *)
(***************************************************************************)
EXTENDS Integers

MinInt32 == -2147483647 - 1
MaxInt32 == 2147483647

Add32(a, b) ==
    IF a > 0 /\ b > MaxInt32 - a THEN (a - MaxInt32 - 1) + (b - MaxInt32 - 1)
    ELSE IF a < 0 /\ b < MinInt32 - a THEN (a - MinInt32) + (b - MinInt32)
    ELSE a + b

\* -b is the complement of b plus one.
Sub32(a, b) == Add32(Add32(a, -1 - b), 1)
=============================================================================
