------------------------------ MODULE OnceOnly ------------------------------
(***************************************************************************)
(* What a candidate service promises of each request, whatever crashes,    *)
(* deadlines and repeats do: it is evaluated at most once, only after it   *)
(* was issued, and gets at most one recorded outcome, which is never       *)
(* replaced and is made up only when it says Deadline.                     *)
(***************************************************************************)
EXTENDS Naturals

CONSTANTS Requests, Outcomes, None, Deadline

VARIABLES issued, runs, outcome

Init == issued = {} /\ runs = [r \in Requests |-> 0] /\ outcome = [r \in Requests |-> None]

Issue(r) ==
  /\ r \notin issued /\ issued' = issued \cup {r}
  /\ UNCHANGED <<runs, outcome>>

Run(r) ==
  /\ r \in issued /\ runs[r] = 0
  /\ runs' = [runs EXCEPT ![r] = 1]
  /\ UNCHANGED <<issued, outcome>>

Record(r, v) ==
  /\ r \in issued /\ outcome[r] = None /\ (v = Deadline \/ runs[r] = 1)
  /\ outcome' = [outcome EXCEPT ![r] = v]
  /\ UNCHANGED <<issued, runs>>

Next == \E r \in Requests : Issue(r) \/ Run(r) \/ \E v \in Outcomes : Record(r, v)

Spec == Init /\ [][Next]_<<issued, runs, outcome>>
=============================================================================
