--------------------------- MODULE MCNativeSlots ----------------------------
(* Three requests, two of them of one slot, for NativeSlots.               *)
EXTENDS NativeSlots, TLC

CONSTANTS a, b, c
MCCallers == {a, b, c}
MCSlots == {0, 1}
MCHome == a :> 0 @@ b :> 0 @@ c :> 1
MCSize == a :> 1 @@ b :> 1 @@ c :> 2
Same == Permutations({a, b})
=============================================================================
