----------------------------- MODULE DurableLog -----------------------------
(***************************************************************************)
(* What a log of evidence promises its one writer: identities are unique,  *)
(* records only accumulate, and a record whose append was acknowledged is  *)
(* there for ever, at its place.  A crash may take what comes after the    *)
(* acknowledged records, and nothing else.                                 *)
(***************************************************************************)
EXTENDS Sequences, Integers, Functions

CONSTANT Events

VARIABLES log,    \* the complete records a reader finds
          sure    \* how many of them were acknowledged

Init == log = << >> /\ sure = 0

Write(e) ==
  /\ e \notin Range(log)
  /\ log' = Append(log, e) /\ UNCHANGED sure

Acknowledge == sure' \in sure..Len(log) /\ UNCHANGED log

Lose == \E n \in sure..Len(log) : log' = SubSeq(log, 1, n) /\ UNCHANGED sure

Next == Acknowledge \/ Lose \/ \E e \in Events : Write(e)

Spec == Init /\ [][Next]_<<log, sure>>
=============================================================================
