------------------------------- MODULE Amounts -------------------------------
(***************************************************************************)
(* MoneyValue_t and PolicyRatio_t: signed integers of a fixed width.  The  *)
(* code adds, subtracts and multiplies them without a check.  Overflow is  *)
(* undefined in C++; nothing in the program lets the compiler exploit it,  *)
(* and the instructions it emits keep the low bits, which is Wrap.         *)
(***************************************************************************)
EXTENDS Integers

CONSTANT Half  \* amounts are -Half .. Half - 1; 2^63 in the code

ASSUME HalfAssumption == Half \in Nat \ {0}

Money == -Half .. (Half - 1)

\* A mutant: results beyond the range stick to its ends.
Saturate(n) == IF n >= Half THEN Half - 1 ELSE IF n < -Half THEN -Half ELSE n

Wrap(n) == ((n + Half) % (2 * Half)) - Half

\* C++ division truncates toward zero.
Hundredth(n) == IF n >= 0 THEN n \div 100 ELSE -((-n) \div 100)
=============================================================================
