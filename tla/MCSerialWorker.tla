--------------------------- MODULE MCSerialWorker ---------------------------
(* Model values, symmetry and bounds for SerialWorker.  In a queue of two  *)
(* bytes, the request of c leaves no room for another one.                 *)
EXTENDS SerialWorker, TLC

CONSTANTS a, b, c

MCPair      == {a, b}
MCPairSize  == [x \in MCPair |-> 1]
MCThree     == {a, b, c}
MCThreeSize == [x \in MCThree |-> IF x = c THEN 2 ELSE 1]
Symmetry    == Permutations({a, b})
=============================================================================
