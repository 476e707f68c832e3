------------------------------- MODULE MCEngine -------------------------------
(* An instance of Engine: one request of high priority, one of low.         *)
EXTENDS Engine

CONSTANTS high, low

MCRequest == {high, low}
MCPriority == [r \in MCRequest |-> IF r = high THEN 10 ELSE 50]
===============================================================================
