---------------------------- MODULE MCDialogues ----------------------------
EXTENDS Dialogues, TLC

CONSTANTS c1, c2, s1, s2

\* Operations that wrap, truncate, are fatal or unknown, in 4 bits, and exit.
MCWishes == {[op |-> 1, num1 |-> 7, num2 |-> 1],
             [op |-> 2, num1 |-> 3, num2 |-> 5],
             [op |-> 4, num1 |-> -7, num2 |-> 2],
             [op |-> 4, num1 |-> -8, num2 |-> -1],
             [op |-> 0, num1 |-> 1, num2 |-> 0],
             [op |-> 5, num1 |-> 0, num2 |-> 0]}
MCJunk == {0, 5}
MCMessages == {"text"}

\* The programs of servers s1 and s2 and clients c1 and c2 ("none": not started).
Started(p, q, x, y) == (s1 :> p) @@ (s2 :> q) @@ (c1 :> x) @@ (c2 :> y)

MCScenarios ==
    {Started("calc", "template", "calc", "none"),
     Started("calc", "template", "none", "template"),
     Started("math", "template", "math", "math"),
     Started("math", "math", "math", "none"),
     Started("persistent", "nonpersistent", "persistent", "nonpersistent"),
     Started("multi", "hello", "persistent", "browser"),
     Started("hello", "persistent", "hello", "persistent")}
=============================================================================
