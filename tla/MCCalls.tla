------------------------------ MODULE MCCalls ------------------------------
EXTENDS Calls

CONSTANTS a, b, drainA, drainB, find, live

\* Two nodes whose event loops drain towards each other; the other tasks are
\* a lookup and a question.
OfA == {drainA, live}
Caller == [c \in Call |-> IF c \in OfA THEN a ELSE b]
Callee == [c \in Call |-> IF c \in OfA THEN b ELSE a]
Task == [c \in Call |->
    CASE c \in {drainA, drainB} -> "drain"
      [] c = find -> "find"
      [] c = live -> "live"]
=============================================================================
