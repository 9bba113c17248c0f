------------------------------- MODULE CInt -------------------------------
(***************************************************************************)
(* The int arithmetic of the calculators (lab3, labs, assess): operations  *)
(* wrap around; a division by zero, and of the least int by -1,            *)
(* raises SIGFPE.                                                          *)
(***************************************************************************)
EXTENDS Integers

CONSTANT INT_MAX    \* of limits.h

ASSUME IntAssumption == INT_MAX \in Nat

Least == -INT_MAX - 1
Int32 == Least..INT_MAX

\* How many ints there are.
Span == 2 * (INT_MAX + 1)

\* Seeded fault: integers do not wrap.
WrapNot(n) == n

Wrap(n) == ((n - Least) % Span) + Least
Abs(n) == IF n < 0 THEN -n ELSE n

\* Seeded fault: a quotient is rounded down.
QuotientFloor(a, b) == IF b > 0 THEN a \div b ELSE (-a) \div (-b)

\* C rounds towards 0.
Quotient(a, b) ==
    LET q == Abs(a) \div Abs(b) IN IF (a < 0) = (b < 0) THEN q ELSE -q
RaisesFpe(a, b) == b = 0 \/ (a = Least /\ b = -1)

\* What the operations should yield, in terms of exact integers.
IsWrapped(n, x) == n \in Int32 /\ (n - x) % Span = 0
IsQuotient(n, a, b) == Abs(n * b) <= Abs(a) /\ Abs(a - n * b) < Abs(b)
=============================================================================
