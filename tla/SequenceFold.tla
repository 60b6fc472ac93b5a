---------------------------- MODULE SequenceFold ----------------------------
(* A left fold in time linear in the sequence: the community modules' one   *)
(* looks for the largest remaining index at every step.                     *)
LOCAL INSTANCE Naturals
LOCAL INSTANCE Sequences

Fold(op(_, _), base, s) ==
  LET f[i \in 0 .. Len(s)] == IF i = 0 THEN base ELSE op(f[i - 1], s[i])
  IN f[Len(s)]
=============================================================================
