---------------------------- MODULE MCWorkerPool ----------------------------
(* An attempt delivered twice or reused for another request, beside another *)
(* attempt, over two slots.                                                 *)
EXTENDS WorkerPool, TLC

CONSTANTS a, b, c, s1, s2

Ask(k, p) == [key |-> k, print |-> p]
MCAsks == {a :> Ask("k", 1) @@ b :> Ask("k", p) @@ c :> Ask("l", 1) : p \in 1 .. 2}
Symmetry == Permutations(Slots)
=============================================================================
