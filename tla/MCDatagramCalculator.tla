----------------------- MODULE MCDatagramCalculator -----------------------
EXTENDS DatagramCalculator, TLC

\* In 4 bits: a sum that wraps, a square root, a division that truncates.
MCWishes == {[op |-> 1, num1 |-> 7, num2 |-> 1],
             [op |-> 3, num1 |-> 6, num2 |-> 0],
             [op |-> 4, num1 |-> -7, num2 |-> 2]}

ClientSymmetry == Permutations(Clients)
=============================================================================
