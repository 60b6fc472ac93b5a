------------------------- MODULE FoundationRunProofs -------------------------
(* Proofs about FoundationRun for all runs, budgets, graces, faults and bounds. *)
EXTENDS FoundationRun, SequenceTheorems, WellFoundedInduction, TLAPS

\* What the assumptions say of the constants, one by one.
LEMMA Parameters ==
  /\ Updates \in Nat \ {0} /\ Budget \in Nat \ {0} /\ Grace \in Nat /\ MaxTime \in Nat
  /\ MaxFaults \in Nat /\ None \notin Runs /\ None \notin Messages
  /\ None \notin Snapshots /\ None \notin Records
BY RunOK, NoneIsNothing DEF RunOK, NoneIsNothing

\* A set of natural numbers has a least element.
LEMMA Least == ASSUME NEW S \in SUBSET Nat, S # {} PROVE \E m \in S : \A k \in S : m <= k
<1>1. PICK m \in S : \A k \in S : ~ (<<k, m>> \in OpToRel(<, Nat))
  BY NatLessThanWellFounded, WFMin
<1>2. OpToRel(<, Nat) = {p \in Nat \X Nat : p[1] < p[2]}
  BY DEF OpToRel
<1>3. ASSUME NEW k \in S PROVE m <= k
  <2>1. <<k, m>> \notin OpToRel(<, Nat)
    BY <1>1
  <2>2. ~ (k < m)
    BY <1>2, <2>1
  <2> QED
    BY <2>2
<1> QED
  BY <1>3

\* recover() returns the newest of the published checkpoints.
LEMMA Newest ==
  ASSUME store \subseteq Checkpoints, store # {}
  PROVE  /\ Recovered \in 0..Updates
         /\ \E c \in store : c.update = Recovered
         /\ \A c \in store : c.update <= Recovered
<1> DEFINE S == {c.update : c \in store}
           T == {k \in Nat : Updates - k \in S}
<1>1. S \subseteq 0..Updates /\ S # {} /\ Updates \in Nat
  BY Parameters DEF Checkpoints
<1>2. PICK u \in S : TRUE
  BY <1>1
<1>3. Updates - u \in T
  BY <1>1, <1>2
<1>4. PICK m \in T : \A k \in T : m <= k
  <2>1. T \in SUBSET Nat /\ T # {}
    BY <1>3
  <2> QED
    BY <2>1, Least
<1>5. Updates - m \in S /\ \A x \in S : Updates - m >= x
  <2>1. m \in Nat /\ Updates - m \in S
    BY <1>4
  <2>2. ASSUME NEW x \in S PROVE Updates - m >= x
    <3>1. x \in 0..Updates /\ Updates \in Nat
      BY <1>1
    <3>2. Updates - x \in T
      BY <3>1
    <3>3. m <= Updates - x
      BY <1>4, <3>2
    <3> QED
      BY <2>1, <3>1, <3>3
  <2> QED
    BY <2>1, <2>2
<1>6. Max(S) \in S /\ \A x \in S : Max(S) >= x
  BY <1>5 DEF Max
<1>7. Recovered = Max(S)
  BY DEF Recovered
<1> HIDE DEF T
<1> QED
  BY <1>1, <1>6, <1>7

(***************************************************************************)
(* Types, with the clocks of the records, and the protocol of a learner    *)
(* and its controller that the types rest on.                              *)
(***************************************************************************)
Typed ==
  /\ TypeOK /\ faults \in Seq(Faults)
  /\ ledger # None => ledger.clock <= now
  /\ \A r \in Runs : memory[r] # None => memory[r].clock <= now

\* Where run r is: its outer process and the lock, its controller and the record it holds, its
\* learner and the message, the update and the snapshot that go with it.
Phase(r) ==
  /\ outer[r] = "waiting" <=> lock = r
  /\ outer[r] = "idle" => controller[r] = "none"
  /\ controller[r] \in {"none", "open", "enter", "check"} => learner[r] = "none"
  /\ controller[r] \in {"enter", "check", "loop", "poll", "finishing", "failing"}
        => memory[r] # None
  /\ learner[r] \in {"none", "start", "next", "ask", "work", "save", "saved"} => message[r] = None
  /\ learner[r] = "wait" => message[r] # "done"
  /\ (learner[r] = "work" \/ (learner[r] = "wait" /\ message[r] = "training"))
        => update[r] < Updates
  /\ learner[r] = "save" => granted[r] # None
  /\ message[r] = "done" \/ controller[r] = "finishing" => ~LearnerAlive(r)
  /\ learner[r] = "start" /\ resume[r] => store # {}
Phases == \A r \in Runs : Phase(r)

\* The record that follows one: the gap is charged and its clock is now.
LEMMA NextRecord ==
  ASSUME now \in 0..MaxTime, NEW record \in Records, record.clock <= now,
         NEW status \in ACTIVE \cup INACTIVE
  PROVE  /\ Gap(record) \in Nat /\ Next_(record, status) \in Records
         /\ Next_(record, status).sequence = record.sequence + 1
         /\ Next_(record, status).charged = record.charged + Gap(record)
         /\ Next_(record, status).clock = now /\ Next_(record, status).status = status
<1>1. MaxTime \in Nat /\ Gap(record) \in Nat
  BY Parameters DEF Gap, Records
<1>2. PICK g \in Nat : g = Gap(record)
  BY <1>1
<1>3. PICK a, b \in Nat : a = record.sequence + 1 /\ b = record.charged + g
  BY <1>2 DEF Records
<1>4. Next_(record, status)
        = [record EXCEPT !.sequence = a, !.clock = now, !.status = status, !.charged = b]
  BY <1>2, <1>3 DEF Next_, Records
<1>5. [record EXCEPT !.sequence = a, !.clock = now, !.status = status, !.charged = b] \in Records
  BY <1>3 DEF Records
<1>6. /\ Next_(record, status).sequence = record.sequence + 1
      /\ Next_(record, status).charged = record.charged + Gap(record)
      /\ Next_(record, status).clock = now /\ Next_(record, status).status = status
  BY DEF Next_, Records
<1> QED
  BY <1>1, <1>4, <1>5, <1>6

\* The record a reopened ledger starts with: the estimate is charged and its clock is now.
LEMMA FirstRecord ==
  ASSUME Typed, NEW record, record = IF ledger = None THEN Fresh ELSE Reopened
  PROVE  /\ record \in Records /\ record.clock = now
         /\ ledger = None => /\ record.sequence = 0 /\ record.charged = 0
                             /\ record.status = "paused"
         /\ ledger # None => /\ Gap(ledger) \in Nat
                             /\ record.sequence = ledger.sequence + 1
                             /\ record.charged = ledger.charged + Gap(ledger)
                             /\ record.status = ledger.status
<1>1. now \in 0..MaxTime /\ MaxTime \in Nat
  BY Parameters DEF Typed, TypeOK
<1>2. CASE ledger = None
  BY <1>1, <1>2 DEF Fresh, Records, INACTIVE
<1>3. CASE ledger # None
  <2>1. ledger \in Records /\ ledger.clock <= now
    BY <1>3 DEF Typed, TypeOK
  <2>2. Gap(ledger) \in Nat
    BY <1>1, <2>1 DEF Gap, Records
  <2>3. PICK g \in Nat : g = Gap(ledger)
    BY <2>2
  <2>4. PICK a, b \in Nat : a = ledger.sequence + 1 /\ b = ledger.charged + g
    BY <2>1, <2>3 DEF Records
  <2>5. Reopened = [ledger EXCEPT !.sequence = a, !.clock = now, !.charged = b]
    BY <2>1, <2>3, <2>4 DEF Reopened, Estimate, Records
  <2>6. [ledger EXCEPT !.sequence = a, !.clock = now, !.charged = b] \in Records
    BY <1>1, <2>1, <2>4 DEF Records
  <2>7. /\ Reopened.sequence = a /\ Reopened.charged = b /\ Reopened.clock = now
        /\ Reopened.status = ledger.status
    BY <2>1, <2>5 DEF Records
  <2> QED
    BY <1>3, <2>2, <2>3, <2>4, <2>5, <2>6, <2>7
<1> QED
  BY <1>2, <1>3

\* What a step of the controller of r that writes the ledger appends.
Writes(r) == \/ OpenLedger(r) /\ ~spoilt
             \/ EnterPhase(r) \/ Heartbeat(r) \/ HandlePhase(r) \/ Close(r)
Basis(r) == IF controller[r] = "open" THEN ledger ELSE memory[r]
\* A record follows the one its writer remembers, and charges the time since.
LEMMA Appends ==
  ASSUME Typed, Phases, NEW r \in Runs, Writes(r)
  PROVE  /\ ledger' \in Records /\ ledger'.clock = now /\ memory' = [memory EXCEPT ![r] = ledger']
         /\ now' = now
         /\ spoilt' = (spoilt \/ (ledger # None /\ ledger'.sequence # ledger.sequence + 1))
         /\ Basis(r) \in Records \cup {None}
         /\ Basis(r) = None => controller[r] = "open" /\ ledger'.sequence = 0
                               /\ ledger'.charged = 0 /\ ledger'.status = "paused"
         /\ Basis(r) # None => /\ Gap(Basis(r)) \in Nat
                               /\ ledger'.sequence = Basis(r).sequence + 1
                               /\ ledger'.charged = Basis(r).charged + Gap(Basis(r))
         /\ OpenLedger(r) => ledger'.status = IF ledger = None THEN "paused" ELSE ledger.status
         /\ EnterPhase(r) => ledger'.status = IF resume[r] THEN "recovery" ELSE "validation"
         /\ Heartbeat(r) => ledger'.status = memory[r].status
         /\ HandlePhase(r) => ledger'.status = message[r]
         /\ Close(r) => ledger'.status = Status(r)
<1>1. now \in 0..MaxTime /\ Phase(r) /\ memory \in [Runs -> Records \cup {None}]
  BY DEF Typed, TypeOK, Phases
<1>2. CASE controller[r] = "open"
  <2>1. OpenLedger(r) /\ ~spoilt /\ Basis(r) = ledger
    BY <1>2 DEF Writes, Basis, EnterPhase, Heartbeat, HandlePhase, Close
  <2>2. Append_(r, IF ledger = None THEN Fresh ELSE Reopened) /\ now' = now
    BY <2>1 DEF OpenLedger, rest
  <2>3. ~EnterPhase(r) /\ ~Heartbeat(r) /\ ~HandlePhase(r) /\ ~Close(r)
    BY <1>2 DEF EnterPhase, Heartbeat, HandlePhase, Close
  <2>4. PICK record : record = IF ledger = None THEN Fresh ELSE Reopened
    OBVIOUS
  <2>5. /\ ledger' = record /\ memory' = [memory EXCEPT ![r] = record]
        /\ spoilt' = (spoilt \/ (ledger # None /\ record.sequence # ledger.sequence + 1))
    BY <2>2, <2>4 DEF Append_
  <2>6. ledger \in Records \cup {None}
    BY DEF Typed, TypeOK
  <2> QED
    BY <1>2, <2>1, <2>2, <2>3, <2>4, <2>5, <2>6, FirstRecord
<1>3. CASE controller[r] # "open"
  <2>1. EnterPhase(r) \/ Heartbeat(r) \/ HandlePhase(r) \/ Close(r)
    BY <1>3 DEF Writes, OpenLedger
  <2>2. /\ ~OpenLedger(r) /\ Basis(r) = memory[r] /\ now' = now
        /\ controller[r] \in {"enter", "loop", "poll", "finishing", "failing"}
    BY <1>3, <2>1 DEF OpenLedger, Basis, EnterPhase, Heartbeat, HandlePhase, Close, rest
  <2>3. memory[r] \in Records /\ memory[r].clock <= now
    BY <1>1, <2>2 DEF Phase, Typed
  <2>4. PICK status \in ACTIVE \cup INACTIVE :
          /\ Record(r, status)
          /\ EnterPhase(r) => status = IF resume[r] THEN "recovery" ELSE "validation"
          /\ Heartbeat(r) => status = memory[r].status
          /\ HandlePhase(r) => status = message[r]
          /\ Close(r) => status = Status(r)
    <3>1. CASE EnterPhase(r)
      <4>1. ~Heartbeat(r) /\ ~HandlePhase(r) /\ ~Close(r)
        BY <3>1 DEF EnterPhase, Heartbeat, HandlePhase, Close
      <4> QED
        BY <3>1, <4>1 DEF EnterPhase, ACTIVE
    <3>2. CASE Heartbeat(r)
      <4>1. ~EnterPhase(r) /\ ~HandlePhase(r) /\ ~Close(r)
        BY <3>2 DEF EnterPhase, Heartbeat, HandlePhase, Close
      <4> QED
        BY <2>3, <3>2, <4>1 DEF Heartbeat, Records
    <3>3. CASE HandlePhase(r)
      <4>1. ~EnterPhase(r) /\ ~Heartbeat(r) /\ ~Close(r)
        BY <3>3 DEF EnterPhase, Heartbeat, HandlePhase, Close
      <4> QED
        BY <3>3, <4>1 DEF HandlePhase, ACTIVE
    <3>4. CASE Close(r)
      <4>1. ~EnterPhase(r) /\ ~Heartbeat(r) /\ ~HandlePhase(r)
        BY <3>4 DEF EnterPhase, Heartbeat, HandlePhase, Close
      <4>2. Status(r) \in INACTIVE
        BY DEF Status, INACTIVE
      <4> QED
        BY <3>4, <4>1, <4>2 DEF Close
    <3> QED
      BY <2>1, <3>1, <3>2, <3>3, <3>4
  <2>5. PICK record : record = Next_(memory[r], status)
    OBVIOUS
  <2>6. /\ ledger' = record /\ memory' = [memory EXCEPT ![r] = record]
        /\ spoilt' = (spoilt \/ (ledger # None /\ record.sequence # ledger.sequence + 1))
    BY <2>4, <2>5 DEF Record, Append_
  <2>7. memory[r] # None
    BY <2>3, Parameters
  <2> QED
    BY <1>1, <2>2, <2>3, <2>4, <2>5, <2>6, <2>7, NextRecord
<1> QED
  BY <1>2, <1>3

\* The types are kept: one step per action.
LEMMA KeepsTypes == ASSUME Typed, Phases, [Next]_vars PROVE Typed'
<1> USE Parameters
<1>1. ASSUME Tick PROVE Typed'
  <2>1. now' \in 0..MaxTime /\ now' >= now /\ worked' \in Nat
    BY <1>1 DEF Tick, Typed, TypeOK
  <2>2. UNCHANGED <<faults, parent, disk, controller, memory, child>>
    BY <1>1 DEF Tick
  <2>3. /\ ledger # None => ledger \in Records
        /\ \A r \in Runs : memory[r] # None => memory[r] \in Records
    BY DEF Typed, TypeOK
  <2>4. /\ ledger' # None => ledger'.clock <= now'
        /\ \A r \in Runs : memory'[r] # None => memory'[r].clock <= now'
    BY <2>1, <2>2, <2>3 DEF Typed, TypeOK, disk, Records
  <2> QED
    BY <2>1, <2>2, <2>4 DEF Typed, TypeOK, disk, parent, child
<1>2. ASSUME HostDies PROVE Typed'
  BY <1>2
     DEF HostDies, MayFail, LearnerAlive, ControllerAlive, Typed, TypeOK, disk, parent, child,
         rest
<1>3. ASSUME NEW r \in Runs, Start(r) PROVE Typed'
  <2>1. deadline' \in [Runs -> Nat]
    <3>1. Allowance \in Int
      <4>1. ledger # None => ledger \in Records /\ ledger.clock \in Nat /\ ledger.charged \in Nat
        BY DEF Typed, TypeOK, Records
      <4> QED
        BY <4>1 DEF Allowance, Remaining, Gap, Typed, TypeOK
    <3>2. now + Allowance + Grace \in Nat
      BY <1>3, <3>1 DEF Start, Typed, TypeOK
    <3> QED
      BY <1>3, <3>2 DEF Start, Typed, TypeOK
  <2>2. /\ memory' \in [Runs -> Records \cup {None}]
        /\ \A q \in Runs : memory'[q] # None => memory'[q] = memory[q]
    BY <1>3 DEF Start, Forget, Typed, TypeOK
  <2>3. update' \in [Runs -> 0..Updates] /\ granted' \in [Runs -> Snapshots \cup {None}]
        /\ message' \in [Runs -> Messages \cup {None}]
    BY <1>3 DEF Start, Forget, Typed, TypeOK
  <2>4. resume' \in [Runs -> BOOLEAN]
    BY <1>3 DEF Start, Typed, TypeOK
  <2> QED
    BY <1>3, <2>1, <2>2, <2>3, <2>4 DEF Start, Typed, TypeOK, disk
<1>4. ASSUME NEW r \in Runs, Return(r) PROVE Typed'
  BY <1>4 DEF Return, Release, Typed, TypeOK, disk, parent, child, rest
<1>5. ASSUME NEW r \in Runs, KillGroup(r) PROVE Typed'
  BY <1>5
     DEF KillGroup, Kill, Release, Group, LearnerAlive, ControllerAlive, Typed, TypeOK, disk,
         parent, child, rest
<1>6. ASSUME NEW r \in Runs, Interrupted(r) PROVE Typed'
  BY <1>6
     DEF Interrupted, Kill, Release, Group, LearnerAlive, ControllerAlive, MayFail, Typed, TypeOK,
         disk, parent, child, rest
<1>7. ASSUME NEW r \in Runs, OpenLedger(r) PROVE Typed'
  <2>1. CASE spoilt
    BY <1>7, <2>1 DEF OpenLedger, Typed, TypeOK, disk, parent, child, rest, Become
  <2>2. CASE ~spoilt
    <3>1. /\ ledger' \in Records /\ ledger'.clock = now /\ memory' = [memory EXCEPT ![r] = ledger']
          /\ now' = now
          /\ spoilt' = (spoilt \/ (ledger # None /\ ledger'.sequence # ledger.sequence + 1))
      BY <1>7, <2>2, Appends DEF Writes
    <3>2. spoilt' \in BOOLEAN /\ memory' \in [Runs -> Records \cup {None}]
      BY <3>1 DEF Typed, TypeOK
    <3>3. UNCHANGED <<rest, store, child>> /\ controller' = [controller EXCEPT ![r] = "enter"]
      BY <1>7, <2>2 DEF OpenLedger, Become
    <3> QED
      BY <3>1, <3>2, <3>3 DEF Typed, TypeOK, disk, parent, child, rest
  <2> QED
    BY <2>1, <2>2
<1>8. ASSUME NEW r \in Runs, EnterPhase(r) PROVE Typed'
  <2>1. /\ ledger' \in Records /\ ledger'.clock = now /\ memory' = [memory EXCEPT ![r] = ledger']
        /\ now' = now
        /\ spoilt' = (spoilt \/ (ledger # None /\ ledger'.sequence # ledger.sequence + 1))
    BY <1>8, Appends DEF Writes
  <2>2. spoilt' \in BOOLEAN /\ memory' \in [Runs -> Records \cup {None}]
    BY <2>1 DEF Typed, TypeOK
  <2> QED
    BY <1>8, <2>1, <2>2 DEF EnterPhase, Typed, TypeOK, disk, parent, child, rest, Become
<1>9. ASSUME NEW r \in Runs, Refuse(r) PROVE Typed'
  BY <1>9 DEF Refuse, Typed, TypeOK, disk, parent, child, rest, Become
<1>10. ASSUME NEW r \in Runs, StartLearner(r) PROVE Typed'
  BY <1>10 DEF StartLearner, Typed, TypeOK, disk, parent, child, rest, Recovered, Become
<1>11. ASSUME NEW r \in Runs, Exhausted(r) PROVE Typed'
  BY <1>11 DEF Exhausted, Typed, TypeOK, disk, parent, child, rest, Become
<1>12. ASSUME NEW r \in Runs, Heartbeat(r) PROVE Typed'
  <2>1. /\ ledger' \in Records /\ ledger'.clock = now /\ memory' = [memory EXCEPT ![r] = ledger']
        /\ now' = now
        /\ spoilt' = (spoilt \/ (ledger # None /\ ledger'.sequence # ledger.sequence + 1))
    BY <1>12, Appends DEF Writes
  <2>2. spoilt' \in BOOLEAN /\ memory' \in [Runs -> Records \cup {None}]
    BY <2>1 DEF Typed, TypeOK
  <2> QED
    BY <1>12, <2>1, <2>2 DEF Heartbeat, Typed, TypeOK, disk, parent, child, rest, Become
<1>13. ASSUME NEW r \in Runs, NoHeartbeat(r) PROVE Typed'
  BY <1>13 DEF NoHeartbeat, Typed, TypeOK, disk, parent, child, rest, Become
<1>14. ASSUME NEW r \in Runs, StillRuns(r) PROVE Typed'
  BY <1>14 DEF StillRuns, LearnerAlive, Typed, TypeOK, disk, parent, child, rest, Become
<1>15. ASSUME NEW r \in Runs, LearnerGone(r) PROVE Typed'
  BY <1>15 DEF LearnerGone, LearnerAlive, Typed, TypeOK, disk, parent, child, rest, Become
<1>16. ASSUME NEW r \in Runs, HandlePhase(r) PROVE Typed'
  <2>1. /\ ledger' \in Records /\ ledger'.clock = now /\ memory' = [memory EXCEPT ![r] = ledger']
        /\ now' = now
        /\ spoilt' = (spoilt \/ (ledger # None /\ ledger'.sequence # ledger.sequence + 1))
    BY <1>16, Appends DEF Writes
  <2>2. spoilt' \in BOOLEAN /\ memory' \in [Runs -> Records \cup {None}]
    BY <2>1 DEF Typed, TypeOK
  <2>3. granted' \in [Runs -> Snapshots \cup {None}]
    <3>1. memory'[r] \in Records
      BY <2>1 DEF Typed, TypeOK
    <3>2. Snapshot(memory'[r]) \in Snapshots
      BY <3>1 DEF Snapshot, Snapshots, Records
    <3> QED
      BY <1>16, <3>2 DEF HandlePhase, Typed, TypeOK
  <2>4. message' \in [Runs -> Messages \cup {None}]
    BY <1>16 DEF HandlePhase, Reply, Typed, TypeOK
  <2>5. /\ controller' \in [Runs -> {"none", "open", "enter", "check", "loop", "poll",
                                     "finishing", "failing", "exited"}]
        /\ learner' \in [Runs -> {"none", "start", "next", "ask", "wait", "work", "save", "saved",
                                  "exited"}]
    BY <1>16 DEF HandlePhase, Reply, Become, Typed, TypeOK
  <2>6. UNCHANGED <<rest, store, update>>
    BY <1>16 DEF HandlePhase
  <2> QED
    BY <1>16, <2>1, <2>2, <2>3, <2>4, <2>5, <2>6
       DEF Typed, TypeOK, disk, parent, child, rest, Become
<1>17. ASSUME NEW r \in Runs, HandleReport(r) PROVE Typed'
  BY <1>17 DEF HandleReport, Reply, LearnerAlive, Typed, TypeOK, disk, parent, child, rest, Become
<1>18. ASSUME NEW r \in Runs, HandleDone(r) PROVE Typed'
  BY <1>18 DEF HandleDone, Typed, TypeOK, disk, parent, child, rest, Become
<1>19. ASSUME NEW r \in Runs, Close(r) PROVE Typed'
  <2>1. /\ ledger' \in Records /\ ledger'.clock = now /\ memory' = [memory EXCEPT ![r] = ledger']
        /\ now' = now
        /\ spoilt' = (spoilt \/ (ledger # None /\ ledger'.sequence # ledger.sequence + 1))
    BY <1>19, Appends DEF Writes
  <2>2. spoilt' \in BOOLEAN /\ memory' \in [Runs -> Records \cup {None}]
    BY <2>1 DEF Typed, TypeOK
  <2> QED
    BY <1>19, <2>1, <2>2 DEF Close, LearnerAlive, Typed, TypeOK, disk, parent, child, rest, Become
<1>20. ASSUME NEW r \in Runs, LearnerStarts(r) PROVE Typed'
  <2>1. (IF resume[r] THEN Recovered ELSE 0) \in 0..Updates
    BY <1>20, Newest DEF LearnerStarts, Typed, TypeOK, Phases, Phase
  <2> QED
    BY <1>20, <2>1 DEF LearnerStarts, Typed, TypeOK, disk, rest, parent
<1>21. ASSUME NEW r \in Runs, AsksToSave(r) PROVE Typed'
  BY <1>21
     DEF AsksToSave, Send, ControllerAlive, Typed, TypeOK, disk, parent, child, rest, Messages
<1>22. ASSUME NEW r \in Runs, AsksToTrain(r) PROVE Typed'
  BY <1>22
     DEF AsksToTrain, Send, ControllerAlive, Typed, TypeOK, disk, parent, child, rest, Messages
<1>23. ASSUME NEW r \in Runs, LearnerDone(r) PROVE Typed'
  BY <1>23
     DEF LearnerDone, Send, ControllerAlive, Typed, TypeOK, disk, parent, child, rest, Messages
<1>24. ASSUME NEW r \in Runs, Trains(r) PROVE Typed'
  <2>1. update[r] + 1 \in 0..Updates
    BY <1>24 DEF Trains, Typed, TypeOK, Phases, Phase
  <2> QED
    BY <1>24, <2>1 DEF Trains, Send, Typed, TypeOK, disk, rest, parent, Messages
<1>25. ASSUME NEW r \in Runs, Saves(r) PROVE Typed'
  <2>1. [update |-> update[r], ledger |-> granted[r]] \in Checkpoints
    BY <1>25 DEF Saves, Typed, TypeOK, Phases, Phase, Checkpoints
  <2>2. store' \subseteq Checkpoints
    BY <1>25, <2>1 DEF Saves, Typed, TypeOK
  <2> QED
    BY <1>25, <2>2 DEF Saves, Send, Typed, TypeOK, rest, parent, Messages
<1>26. ASSUME NEW r \in Runs, PipeEnds(r) PROVE Typed'
  BY <1>26 DEF PipeEnds, ControllerAlive, Typed, TypeOK, disk, parent, child, rest
<1>27. ASSUME NEW r \in Runs, LearnerDies(r) PROVE Typed'
  BY <1>27 DEF LearnerDies, MayFail, LearnerAlive, Typed, TypeOK, disk, parent, child, rest
<1>28. ASSUME NEW r \in Runs, ControllerDies(r) PROVE Typed'
  BY <1>28
     DEF ControllerDies, MayFail, ControllerAlive, Become, Typed, TypeOK, disk, parent, child,
         rest
<1>29. ASSUME NEW r \in Runs, OuterDies(r) PROVE Typed'
  BY <1>29 DEF OuterDies, MayFail, Release, Typed, TypeOK, disk, parent, child, rest
<1>30. ASSUME UNCHANGED vars PROVE Typed'
  BY <1>30 DEF vars, Typed, TypeOK, disk, parent, child, rest
<1> QED
  BY <1>1, <1>2, <1>3, <1>4, <1>5, <1>6, <1>7, <1>8, <1>9, <1>10, <1>11, <1>12, <1>13,
     <1>14, <1>15, <1>16, <1>17, <1>18, <1>19, <1>20, <1>21, <1>22, <1>23, <1>24, <1>25,
     <1>26, <1>27, <1>28, <1>29, <1>30 DEF Next, Controller, Learner

\* The protocol is kept: one step per action, for one run q.
LEMMA KeepsPhases == ASSUME Typed, Phases, [Next]_vars PROVE Phases'
<1> SUFFICES ASSUME NEW q \in Runs PROVE Phase(q)'
  BY DEF Phases
<1>t. /\ Phase(q) /\ q # None /\ None \notin {"checkpoint", "training", "update", "saved", "done"}
      /\ outer \in [Runs -> {"idle", "waiting", "returned", "dead"}]
      /\ controller \in [Runs -> {"none", "open", "enter", "check", "loop", "poll",
                                  "finishing", "failing", "exited"}]
      /\ learner \in [Runs -> {"none", "start", "next", "ask", "wait", "work", "save", "saved",
                               "exited"}]
      /\ memory \in [Runs -> Records \cup {None}] /\ granted \in [Runs -> Snapshots \cup {None}]
      /\ message \in [Runs -> Messages \cup {None}] /\ update \in [Runs -> 0..Updates]
      /\ resume \in [Runs -> BOOLEAN]
  BY Parameters DEF Typed, TypeOK, Phases, Messages
<1>p. \A r \in Runs : Phase(r) /\ r # None
  BY Parameters DEF Phases
<1>1. ASSUME Tick PROVE Phase(q)'
  BY <1>1, <1>t, <1>p DEF Tick, LearnerAlive, ControllerAlive, Phase, disk, parent, child, rest
<1>2. ASSUME HostDies PROVE Phase(q)'
  BY <1>2, <1>t, <1>p
     DEF HostDies, MayFail, LearnerAlive, ControllerAlive, Phase, disk, parent, child, rest
<1>3. ASSUME NEW r \in Runs, Start(r) PROVE Phase(q)'
  <2>1. /\ controller[r] = "none" /\ learner[r] = "none" /\ outer[q] # "waiting"
    BY <1>3, <1>t, <1>p DEF Start, Phase
  <2>2. /\ lock' = r /\ outer' = [outer EXCEPT ![r] = "waiting"] /\ UNCHANGED <<disk, learner>>
        /\ controller' = [controller EXCEPT ![r] = "open"] /\ Forget
        /\ q # r => resume'[q] = resume[q]
    BY <1>3, <1>t DEF Start
  <2>3. /\ ControllerAlive(q) => memory'[q] = memory[q] /\ message'[q] = message[q]
        /\ LearnerAlive(q) => update'[q] = update[q] /\ granted'[q] = granted[q]
        /\ message'[q] \in {message[q], None}
    BY <2>2 DEF Forget
  <2> QED
    BY <1>t, <1>p, <2>1, <2>2, <2>3 DEF Phase, LearnerAlive, ControllerAlive, disk
<1>4. ASSUME NEW r \in Runs, Return(r) PROVE Phase(q)'
  BY <1>4, <1>t, <1>p DEF Return, Release, Phase, LearnerAlive, disk, parent, child, rest
<1>5. ASSUME NEW r \in Runs, KillGroup(r) PROVE Phase(q)'
  BY <1>5, <1>t, <1>p
     DEF KillGroup, Kill, Release, Group, LearnerAlive, ControllerAlive, Phase, disk, parent,
         child, rest
<1>6. ASSUME NEW r \in Runs, Interrupted(r) PROVE Phase(q)'
  BY <1>6, <1>t, <1>p
     DEF Interrupted, Kill, Release, Group, LearnerAlive, ControllerAlive, MayFail, Phase, disk,
         parent, child, rest
<1>7. ASSUME NEW r \in Runs, OpenLedger(r) PROVE Phase(q)'
  <2>1. CASE spoilt
    BY <1>7, <1>t, <2>1 DEF OpenLedger, Become, Phase, LearnerAlive, disk, parent, child, rest
  <2>2. CASE ~spoilt
    <3>1. ledger' \in Records /\ memory' = [memory EXCEPT ![r] = ledger'] /\ None \notin Records
      BY <1>7, <2>2, Appends, Parameters DEF Writes
    <3>2. UNCHANGED <<rest, store, child>> /\ controller' = [controller EXCEPT ![r] = "enter"]
      BY <1>7, <2>2 DEF OpenLedger, Become
    <3> QED
      BY <1>7, <1>t, <3>1, <3>2 DEF OpenLedger, Phase, LearnerAlive, disk, parent, child, rest
  <2> QED
    BY <2>1, <2>2
<1>8. ASSUME NEW r \in Runs, EnterPhase(r) PROVE Phase(q)'
  <2>1. /\ ledger' \in Records /\ memory' = [memory EXCEPT ![r] = ledger'] /\ None \notin Records
    BY <1>8, Appends, Parameters DEF Writes
  <2> QED
    BY <1>8, <1>t, <2>1 DEF EnterPhase, Become, Phase, LearnerAlive, disk, parent, child, rest
<1>9. ASSUME NEW r \in Runs, Refuse(r) PROVE Phase(q)'
  BY <1>9, <1>t, <1>p DEF Refuse, Phase, LearnerAlive, disk, parent, child, rest, Become
<1>10. ASSUME NEW r \in Runs, StartLearner(r) PROVE Phase(q)'
  BY <1>10, <1>t, <1>p
     DEF StartLearner, Phase, LearnerAlive, disk, parent, child, rest, Recovered, Become
<1>11. ASSUME NEW r \in Runs, Exhausted(r) PROVE Phase(q)'
  BY <1>11, <1>t, <1>p DEF Exhausted, Phase, LearnerAlive, disk, parent, child, rest, Become
<1>12. ASSUME NEW r \in Runs, Heartbeat(r) PROVE Phase(q)'
  <2>1. /\ ledger' \in Records /\ memory' = [memory EXCEPT ![r] = ledger'] /\ None \notin Records
    BY <1>12, Appends, Parameters DEF Writes
  <2> QED
    BY <1>12, <1>t, <2>1 DEF Heartbeat, Become, Phase, LearnerAlive, disk, parent, child, rest
<1>13. ASSUME NEW r \in Runs, NoHeartbeat(r) PROVE Phase(q)'
  BY <1>13, <1>t, <1>p DEF NoHeartbeat, Phase, LearnerAlive, disk, parent, child, rest, Become
<1>14. ASSUME NEW r \in Runs, StillRuns(r) PROVE Phase(q)'
  BY <1>14, <1>t, <1>p DEF StillRuns, LearnerAlive, Phase, disk, parent, child, rest, Become
<1>15. ASSUME NEW r \in Runs, LearnerGone(r) PROVE Phase(q)'
  BY <1>15, <1>t, <1>p DEF LearnerGone, LearnerAlive, Phase, disk, parent, child, rest, Become
<1>16. ASSUME NEW r \in Runs, HandlePhase(r) PROVE Phase(q)'
  <2>1. /\ ledger' \in Records /\ memory' = [memory EXCEPT ![r] = ledger'] /\ None \notin Records
        /\ Snapshot(memory'[r]) \in Snapshots /\ None \notin Snapshots
    <3>1. ledger' \in Records /\ memory' = [memory EXCEPT ![r] = ledger']
      BY <1>16, Appends DEF Writes
    <3> QED
      BY <1>t, <3>1, Parameters DEF Snapshot, Snapshots, Records
  <2>2. LearnerAlive(r) => learner[r] = "wait" /\ (message[r] = "training" => update[r] < Updates)
    BY <1>16, <1>t, <1>p DEF HandlePhase, Phase, LearnerAlive
  <2> QED
    BY <1>16, <1>t, <2>1
       DEF HandlePhase, Reply, Become, Phase, LearnerAlive, disk, parent, child, rest
<1>17. ASSUME NEW r \in Runs, HandleReport(r) PROVE Phase(q)'
  <2>1. /\ controller[r] = "poll" /\ message[r] \in {"update", "saved"}
        /\ message' = [message EXCEPT ![r] = None]
        /\ controller' = [controller EXCEPT ![r] = IF LearnerAlive(r) THEN "loop" ELSE "failing"]
        /\ learner' = [learner EXCEPT ![r] = IF LearnerAlive(r)
                                             THEN IF message[r] = "update" THEN "ask" ELSE "saved"
                                             ELSE learner[r]]
        /\ UNCHANGED <<rest, disk, memory, update, granted>>
    BY <1>17, <1>t DEF HandleReport, Reply, Become
  <2> QED
    BY <1>t, <1>p, <2>1 DEF Phase, LearnerAlive, disk, parent, child, rest, parent
<1>18. ASSUME NEW r \in Runs, HandleDone(r) PROVE Phase(q)'
  BY <1>18, <1>t, <1>p DEF HandleDone, Phase, LearnerAlive, disk, parent, child, rest, Become
<1>19. ASSUME NEW r \in Runs, Close(r) PROVE Phase(q)'
  <2>1. /\ ledger' \in Records /\ memory' = [memory EXCEPT ![r] = ledger'] /\ None \notin Records
    BY <1>19, Appends, Parameters DEF Writes
  <2> QED
    BY <1>19, <1>t, <2>1 DEF Close, Become, Phase, LearnerAlive, disk, parent, child, rest
<1>20. ASSUME NEW r \in Runs, LearnerStarts(r) PROVE Phase(q)'
  BY <1>20, <1>t, <1>p DEF LearnerStarts, Phase, LearnerAlive, disk, parent, child, rest
<1>21. ASSUME NEW r \in Runs, AsksToSave(r) PROVE Phase(q)'
  BY <1>21, <1>t, <1>p
     DEF AsksToSave, Send, ControllerAlive, Phase, LearnerAlive, disk, parent, child, rest,
         Messages
<1>22. ASSUME NEW r \in Runs, AsksToTrain(r) PROVE Phase(q)'
  BY <1>22, <1>t, <1>p
     DEF AsksToTrain, Send, ControllerAlive, Phase, LearnerAlive, disk, parent, child, rest,
         Messages
<1>23. ASSUME NEW r \in Runs, LearnerDone(r) PROVE Phase(q)'
  BY <1>23, <1>t, <1>p
     DEF LearnerDone, Send, ControllerAlive, Phase, LearnerAlive, disk, parent, child, rest,
         Messages
<1>24. ASSUME NEW r \in Runs, Trains(r) PROVE Phase(q)'
  BY <1>24, <1>t, <1>p
     DEF Trains, Send, ControllerAlive, Phase, LearnerAlive, disk, parent, child, rest, Messages
<1>25. ASSUME NEW r \in Runs, Saves(r) PROVE Phase(q)'
  BY <1>25, <1>t, <1>p
     DEF Saves, Send, ControllerAlive, Phase, LearnerAlive, disk, parent, child, rest, Messages
<1>26. ASSUME NEW r \in Runs, PipeEnds(r) PROVE Phase(q)'
  BY <1>26, <1>t, <1>p
     DEF PipeEnds, ControllerAlive, Phase, LearnerAlive, disk, parent, child, rest
<1>27. ASSUME NEW r \in Runs, LearnerDies(r) PROVE Phase(q)'
  BY <1>27, <1>t, <1>p DEF LearnerDies, MayFail, LearnerAlive, Phase, disk, parent, child, rest
<1>28. ASSUME NEW r \in Runs, ControllerDies(r) PROVE Phase(q)'
  BY <1>28, <1>t, <1>p
     DEF ControllerDies, MayFail, ControllerAlive, Become, Phase, LearnerAlive, disk, parent,
         child, rest
<1>29. ASSUME NEW r \in Runs, OuterDies(r) PROVE Phase(q)'
  BY <1>29, <1>t, <1>p
     DEF OuterDies, MayFail, Release, Phase, LearnerAlive, disk, parent, child, rest
<1>30. ASSUME UNCHANGED vars PROVE Phase(q)'
  BY <1>30, <1>t, <1>p DEF vars, Phase, LearnerAlive, disk, parent, child, rest
<1> QED
  BY <1>1, <1>2, <1>3, <1>4, <1>5, <1>6, <1>7, <1>8, <1>9, <1>10, <1>11, <1>12, <1>13,
     <1>14, <1>15, <1>16, <1>17, <1>18, <1>19, <1>20, <1>21, <1>22, <1>23, <1>24, <1>25,
     <1>26, <1>27, <1>28, <1>29, <1>30 DEF Next, Controller, Learner

\* Every variable has its type, no record is later than the clock, and each run keeps the
\* protocol of its outer process, its controller and its learner.
THEOREM PhaseInvariance == Spec => [](Typed /\ Phases)
<1>1. Init => Typed /\ Phases
  <2> SUFFICES ASSUME Init PROVE Typed /\ Phases
    OBVIOUS
  <2>1. Typed
    <3>1. << >> \in Seq(Faults) /\ Len(<< >>) = 0 /\ MaxTime \in Nat /\ MaxFaults \in Nat
      BY Parameters, EmptySeq
    <3>2. faults \in Seq(Faults) /\ Len(faults) <= MaxFaults
      BY <3>1 DEF Init
    <3>3. /\ now \in 0..MaxTime /\ worked \in Nat
          /\ lock \in Runs \cup {None} /\ update \in [Runs -> 0..Updates]
      BY <3>1, Parameters DEF Init
    <3>5. spoilt \in BOOLEAN /\ ledger \in Records \cup {None} /\ store \subseteq Checkpoints
      BY DEF Init
    <3>4. /\ ledger = None /\ \A r \in Runs : memory[r] = None
      BY DEF Init
    <3> QED
      BY <3>2, <3>3, <3>4, <3>5 DEF Init, Typed, TypeOK
  <2>2. ASSUME NEW r \in Runs PROVE Phase(r)
    BY Parameters DEF Init, Phase, LearnerAlive
  <2> QED
    BY <2>1, <2>2 DEF Phases
<1>2. Typed /\ Phases /\ [Next]_vars => (Typed /\ Phases)'
  BY KeepsTypes, KeepsPhases
<1> QED
  BY <1>1, <1>2, PTL DEF Spec

\* Every variable has its type: no update beyond the last, no snapshot missing when a checkpoint
\* is saved, no ledger record later than the clock. (_controller, _learner, run_training)
THEOREM TypeInvariance == Spec => []TypeOK
<1>1. Typed => TypeOK
  BY DEF Typed
<1> QED
  BY <1>1, PhaseInvariance, PTL

(***************************************************************************)
(* What every step keeps: the published checkpoints, the faults suffered,  *)
(* and the ledger, unless a controller writes it.                          *)
(***************************************************************************)
\* A fault is not forgotten, and the one that happens now is known.
LEMMA Failing ==
  ASSUME faults \in Seq(Faults), NEW kind, MayFail(kind)
  PROVE  Suffered(kind)' /\ \A other : Suffered(other) => Suffered(other)'
<1>1. kind \in Faults /\ faults' = Append(faults, kind)
  BY DEF MayFail
<1>2. /\ DOMAIN faults' = 1..Len(faults) + 1 /\ DOMAIN faults = 1..Len(faults)
      /\ Len(faults) \in Nat
      /\ faults'[Len(faults) + 1] = kind
      /\ \A i \in 1..Len(faults) : faults'[i] = faults[i]
  BY <1>1, AppendProperties, LenProperties
<1>3. Suffered(kind)'
  <2>1. Len(faults) + 1 \in DOMAIN faults'
    BY <1>2
  <2> QED
    BY <1>2, <2>1 DEF Suffered
<1>4. ASSUME NEW other, Suffered(other) PROVE Suffered(other)'
  <2>1. PICK i \in DOMAIN faults : faults[i] = other
    BY <1>4 DEF Suffered
  <2>2. i \in DOMAIN faults' /\ faults'[i] = other
    BY <1>2, <2>1
  <2> QED
    BY <2>2 DEF Suffered
<1> QED
  BY <1>3, <1>4

\* Who holds what is in the ledger after a step that writes no record.
Keeps(q) == /\ memory'[q] \in {memory[q], None}
            /\ controller'[q] \notin {"none", "exited", "open"}
                 => memory'[q] = memory[q] /\ controller[q] \notin {"none", "exited", "open"}
Remembers ==
  /\ store \subseteq store'
  /\ \A kind : Suffered(kind) => Suffered(kind)'
  /\ \/ \E r \in Runs : Writes(r)
     \/ UNCHANGED <<ledger, spoilt>> /\ \A q \in Runs : Keeps(q)

\* No step forgets a checkpoint or a fault, and only a controller writes the ledger.
LEMMA Steps == ASSUME Typed, Phases, [Next]_vars PROVE Remembers
<1>t. /\ faults \in Seq(Faults)
      /\ controller \in [Runs -> {"none", "open", "enter", "check", "loop", "poll",
                                  "finishing", "failing", "exited"}]
      /\ memory \in [Runs -> Records \cup {None}]
  BY DEF Typed, TypeOK
<1>f. ASSUME UNCHANGED faults PROVE \A kind : Suffered(kind) => Suffered(kind)'
  BY <1>f DEF Suffered
<1>1. ASSUME Tick PROVE Remembers
  <2>1. store \subseteq store'
    BY <1>1 DEF Tick, LearnerAlive, ControllerAlive, disk, parent, child, rest
  <2>2. \A kind : Suffered(kind) => Suffered(kind)'
    BY <1>1, <1>f DEF Tick, LearnerAlive, ControllerAlive, disk, parent, child, rest
  <2>3. UNCHANGED <<ledger, spoilt>> /\ \A q \in Runs : Keeps(q)
    BY <1>1, <1>t DEF Tick, LearnerAlive, ControllerAlive, disk, parent, child, rest, Keeps
  <2> QED
    BY <2>1, <2>2, <2>3 DEF Remembers
<1>2. ASSUME HostDies PROVE Remembers
  <2>1. store \subseteq store'
    BY <1>2 DEF HostDies, MayFail, LearnerAlive, ControllerAlive, disk, parent, child, rest
  <2>2. \A kind : Suffered(kind) => Suffered(kind)'
    BY <1>2, <1>t, Failing DEF HostDies
  <2>3. UNCHANGED <<ledger, spoilt>> /\ \A q \in Runs : Keeps(q)
    BY <1>2, <1>t
       DEF HostDies, MayFail, LearnerAlive, ControllerAlive, disk, parent, child, rest, Keeps
  <2> QED
    BY <2>1, <2>2, <2>3 DEF Remembers
<1>3. ASSUME NEW r \in Runs, Start(r) PROVE Remembers
  <2>1. store \subseteq store'
    BY <1>3 DEF Start, Forget, LearnerAlive, ControllerAlive, disk, parent, child, rest
  <2>2. \A kind : Suffered(kind) => Suffered(kind)'
    BY <1>3, <1>f DEF Start, Forget, LearnerAlive, ControllerAlive, disk, parent, child, rest
  <2>3. UNCHANGED <<ledger, spoilt>> /\ \A q \in Runs : Keeps(q)
    BY <1>3, <1>t
       DEF Start, Forget, LearnerAlive, ControllerAlive, disk, parent, child, rest, Keeps
  <2> QED
    BY <2>1, <2>2, <2>3 DEF Remembers
<1>4. ASSUME NEW r \in Runs, Return(r) PROVE Remembers
  <2>1. store \subseteq store'
    BY <1>4 DEF Return, Release, disk, parent, child, rest
  <2>2. \A kind : Suffered(kind) => Suffered(kind)'
    BY <1>4, <1>f DEF Return, Release, disk, parent, child, rest
  <2>3. UNCHANGED <<ledger, spoilt>> /\ \A q \in Runs : Keeps(q)
    BY <1>4, <1>t DEF Return, Release, disk, parent, child, rest, Keeps
  <2> QED
    BY <2>1, <2>2, <2>3 DEF Remembers
<1>5. ASSUME NEW r \in Runs, KillGroup(r) PROVE Remembers
  <2>1. store \subseteq store'
    BY <1>5
       DEF KillGroup, Kill, Release, Group, LearnerAlive, ControllerAlive, disk, parent, child,
           rest
  <2>2. \A kind : Suffered(kind) => Suffered(kind)'
    BY <1>5, <1>f
       DEF KillGroup, Kill, Release, Group, LearnerAlive, ControllerAlive, disk, parent, child,
           rest
  <2>3. UNCHANGED <<ledger, spoilt>> /\ \A q \in Runs : Keeps(q)
    BY <1>5, <1>t
       DEF KillGroup, Kill, Release, Group, LearnerAlive, ControllerAlive, disk, parent, child,
           rest, Keeps
  <2> QED
    BY <2>1, <2>2, <2>3 DEF Remembers
<1>6. ASSUME NEW r \in Runs, Interrupted(r) PROVE Remembers
  <2>1. store \subseteq store'
    BY <1>6
       DEF Interrupted, Kill, Release, Group, LearnerAlive, ControllerAlive, MayFail, disk,
           parent, child, rest
  <2>2. \A kind : Suffered(kind) => Suffered(kind)'
    BY <1>6, <1>t, Failing DEF Interrupted
  <2>3. UNCHANGED <<ledger, spoilt>> /\ \A q \in Runs : Keeps(q)
    BY <1>6, <1>t
       DEF Interrupted, Kill, Release, Group, LearnerAlive, ControllerAlive, MayFail, disk,
           parent, child, rest, Keeps
  <2> QED
    BY <2>1, <2>2, <2>3 DEF Remembers
<1>7. ASSUME NEW r \in Runs, OpenLedger(r) PROVE Remembers
  <2>1. store \subseteq store'
    BY <1>7 DEF OpenLedger, Append_, disk, parent, child, rest, Become
  <2>2. \A kind : Suffered(kind) => Suffered(kind)'
    BY <1>7, <1>f DEF OpenLedger, Append_, disk, parent, child, rest, Become
  <2>3. \/ \E p \in Runs : Writes(p)
        \/ UNCHANGED <<ledger, spoilt>> /\ \A q \in Runs : Keeps(q)
    <3>1. CASE spoilt
      BY <1>7, <3>1, <1>t DEF OpenLedger, Become, Keeps
    <3>2. CASE ~spoilt
      BY <1>7, <3>2 DEF Writes
    <3> QED
      BY <3>1, <3>2
  <2> QED
    BY <2>1, <2>2, <2>3 DEF Remembers
<1>8. ASSUME NEW r \in Runs, EnterPhase(r) PROVE Remembers
  <2>1. store \subseteq store'
    BY <1>8 DEF EnterPhase, Record, Append_, disk, parent, child, rest, Become
  <2>2. \A kind : Suffered(kind) => Suffered(kind)'
    BY <1>8, <1>f DEF EnterPhase, Record, Append_, disk, parent, child, rest, Become
  <2>3. \E p \in Runs : Writes(p)
    BY <1>8 DEF Writes
  <2> QED
    BY <2>1, <2>2, <2>3 DEF Remembers
<1>9. ASSUME NEW r \in Runs, Refuse(r) PROVE Remembers
  <2>1. store \subseteq store'
    BY <1>9 DEF Refuse, disk, parent, child, rest, Become
  <2>2. \A kind : Suffered(kind) => Suffered(kind)'
    BY <1>9, <1>f DEF Refuse, disk, parent, child, rest, Become
  <2>3. UNCHANGED <<ledger, spoilt>> /\ \A q \in Runs : Keeps(q)
    BY <1>9, <1>t DEF Refuse, disk, parent, child, rest, Become, Keeps
  <2> QED
    BY <2>1, <2>2, <2>3 DEF Remembers
<1>10. ASSUME NEW r \in Runs, StartLearner(r) PROVE Remembers
  <2>1. store \subseteq store'
    BY <1>10 DEF StartLearner, disk, parent, child, rest, Become
  <2>2. \A kind : Suffered(kind) => Suffered(kind)'
    BY <1>10, <1>f DEF StartLearner, disk, parent, child, rest, Become
  <2>3. UNCHANGED <<ledger, spoilt>> /\ \A q \in Runs : Keeps(q)
    BY <1>10, <1>t DEF StartLearner, disk, parent, child, rest, Become, Keeps
  <2> QED
    BY <2>1, <2>2, <2>3 DEF Remembers
<1>11. ASSUME NEW r \in Runs, Exhausted(r) PROVE Remembers
  <2>1. store \subseteq store'
    BY <1>11 DEF Exhausted, disk, parent, child, rest, Become
  <2>2. \A kind : Suffered(kind) => Suffered(kind)'
    BY <1>11, <1>f DEF Exhausted, disk, parent, child, rest, Become
  <2>3. UNCHANGED <<ledger, spoilt>> /\ \A q \in Runs : Keeps(q)
    BY <1>11, <1>t DEF Exhausted, disk, parent, child, rest, Become, Keeps
  <2> QED
    BY <2>1, <2>2, <2>3 DEF Remembers
<1>12. ASSUME NEW r \in Runs, Heartbeat(r) PROVE Remembers
  <2>1. store \subseteq store'
    BY <1>12 DEF Heartbeat, Record, Append_, disk, parent, child, rest, Become
  <2>2. \A kind : Suffered(kind) => Suffered(kind)'
    BY <1>12, <1>f DEF Heartbeat, Record, Append_, disk, parent, child, rest, Become
  <2>3. \E p \in Runs : Writes(p)
    BY <1>12 DEF Writes
  <2> QED
    BY <2>1, <2>2, <2>3 DEF Remembers
<1>13. ASSUME NEW r \in Runs, NoHeartbeat(r) PROVE Remembers
  <2>1. store \subseteq store'
    BY <1>13 DEF NoHeartbeat, disk, parent, child, rest, Become
  <2>2. \A kind : Suffered(kind) => Suffered(kind)'
    BY <1>13, <1>f DEF NoHeartbeat, disk, parent, child, rest, Become
  <2>3. UNCHANGED <<ledger, spoilt>> /\ \A q \in Runs : Keeps(q)
    BY <1>13, <1>t DEF NoHeartbeat, disk, parent, child, rest, Become, Keeps
  <2> QED
    BY <2>1, <2>2, <2>3 DEF Remembers
<1>14. ASSUME NEW r \in Runs, StillRuns(r) PROVE Remembers
  <2>1. store \subseteq store'
    BY <1>14 DEF StillRuns, LearnerAlive, disk, parent, child, rest, Become
  <2>2. \A kind : Suffered(kind) => Suffered(kind)'
    BY <1>14, <1>f DEF StillRuns, LearnerAlive, disk, parent, child, rest, Become
  <2>3. UNCHANGED <<ledger, spoilt>> /\ \A q \in Runs : Keeps(q)
    BY <1>14, <1>t DEF StillRuns, LearnerAlive, disk, parent, child, rest, Become, Keeps
  <2> QED
    BY <2>1, <2>2, <2>3 DEF Remembers
<1>15. ASSUME NEW r \in Runs, LearnerGone(r) PROVE Remembers
  <2>1. store \subseteq store'
    BY <1>15 DEF LearnerGone, LearnerAlive, disk, parent, child, rest, Become
  <2>2. \A kind : Suffered(kind) => Suffered(kind)'
    BY <1>15, <1>f DEF LearnerGone, LearnerAlive, disk, parent, child, rest, Become
  <2>3. UNCHANGED <<ledger, spoilt>> /\ \A q \in Runs : Keeps(q)
    BY <1>15, <1>t DEF LearnerGone, LearnerAlive, disk, parent, child, rest, Become, Keeps
  <2> QED
    BY <2>1, <2>2, <2>3 DEF Remembers
<1>16. ASSUME NEW r \in Runs, HandlePhase(r) PROVE Remembers
  <2>1. store \subseteq store'
    BY <1>16
       DEF HandlePhase, Record, Append_, Reply, LearnerAlive, disk, parent, child, rest, Become
  <2>2. \A kind : Suffered(kind) => Suffered(kind)'
    BY <1>16, <1>f
       DEF HandlePhase, Record, Append_, Reply, LearnerAlive, disk, parent, child, rest, Become
  <2>3. \E p \in Runs : Writes(p)
    BY <1>16 DEF Writes
  <2> QED
    BY <2>1, <2>2, <2>3 DEF Remembers
<1>17. ASSUME NEW r \in Runs, HandleReport(r) PROVE Remembers
  <2>1. store \subseteq store'
    BY <1>17 DEF HandleReport, Reply, LearnerAlive, disk, parent, child, rest, Become
  <2>2. \A kind : Suffered(kind) => Suffered(kind)'
    BY <1>17, <1>f DEF HandleReport, Reply, LearnerAlive, disk, parent, child, rest, Become
  <2>3. UNCHANGED <<ledger, spoilt>> /\ \A q \in Runs : Keeps(q)
    BY <1>17, <1>t DEF HandleReport, Reply, LearnerAlive, disk, parent, child, rest, Become, Keeps
  <2> QED
    BY <2>1, <2>2, <2>3 DEF Remembers
<1>18. ASSUME NEW r \in Runs, HandleDone(r) PROVE Remembers
  <2>1. store \subseteq store'
    BY <1>18 DEF HandleDone, disk, parent, child, rest, Become
  <2>2. \A kind : Suffered(kind) => Suffered(kind)'
    BY <1>18, <1>f DEF HandleDone, disk, parent, child, rest, Become
  <2>3. UNCHANGED <<ledger, spoilt>> /\ \A q \in Runs : Keeps(q)
    BY <1>18, <1>t DEF HandleDone, disk, parent, child, rest, Become, Keeps
  <2> QED
    BY <2>1, <2>2, <2>3 DEF Remembers
<1>19. ASSUME NEW r \in Runs, Close(r) PROVE Remembers
  <2>1. store \subseteq store'
    BY <1>19 DEF Close, Record, Append_, LearnerAlive, disk, parent, child, rest, Become
  <2>2. \A kind : Suffered(kind) => Suffered(kind)'
    BY <1>19, <1>f DEF Close, Record, Append_, LearnerAlive, disk, parent, child, rest, Become
  <2>3. \E p \in Runs : Writes(p)
    BY <1>19 DEF Writes
  <2> QED
    BY <2>1, <2>2, <2>3 DEF Remembers
<1>20. ASSUME NEW r \in Runs, LearnerStarts(r) PROVE Remembers
  <2>1. store \subseteq store'
    BY <1>20 DEF LearnerStarts, disk, parent, child, rest
  <2>2. \A kind : Suffered(kind) => Suffered(kind)'
    BY <1>20, <1>f DEF LearnerStarts, disk, parent, child, rest
  <2>3. UNCHANGED <<ledger, spoilt>> /\ \A q \in Runs : Keeps(q)
    BY <1>20, <1>t DEF LearnerStarts, disk, parent, child, rest, Keeps
  <2> QED
    BY <2>1, <2>2, <2>3 DEF Remembers
<1>21. ASSUME NEW r \in Runs, AsksToSave(r) PROVE Remembers
  <2>1. store \subseteq store'
    BY <1>21 DEF AsksToSave, Send, ControllerAlive, disk, parent, child, rest
  <2>2. \A kind : Suffered(kind) => Suffered(kind)'
    BY <1>21, <1>f DEF AsksToSave, Send, ControllerAlive, disk, parent, child, rest
  <2>3. UNCHANGED <<ledger, spoilt>> /\ \A q \in Runs : Keeps(q)
    BY <1>21, <1>t DEF AsksToSave, Send, ControllerAlive, disk, parent, child, rest, Keeps
  <2> QED
    BY <2>1, <2>2, <2>3 DEF Remembers
<1>22. ASSUME NEW r \in Runs, AsksToTrain(r) PROVE Remembers
  <2>1. store \subseteq store'
    BY <1>22 DEF AsksToTrain, Send, ControllerAlive, disk, parent, child, rest
  <2>2. \A kind : Suffered(kind) => Suffered(kind)'
    BY <1>22, <1>f DEF AsksToTrain, Send, ControllerAlive, disk, parent, child, rest
  <2>3. UNCHANGED <<ledger, spoilt>> /\ \A q \in Runs : Keeps(q)
    BY <1>22, <1>t DEF AsksToTrain, Send, ControllerAlive, disk, parent, child, rest, Keeps
  <2> QED
    BY <2>1, <2>2, <2>3 DEF Remembers
<1>23. ASSUME NEW r \in Runs, LearnerDone(r) PROVE Remembers
  <2>1. store \subseteq store'
    BY <1>23 DEF LearnerDone, Send, ControllerAlive, disk, parent, child, rest
  <2>2. \A kind : Suffered(kind) => Suffered(kind)'
    BY <1>23, <1>f DEF LearnerDone, Send, ControllerAlive, disk, parent, child, rest
  <2>3. UNCHANGED <<ledger, spoilt>> /\ \A q \in Runs : Keeps(q)
    BY <1>23, <1>t DEF LearnerDone, Send, ControllerAlive, disk, parent, child, rest, Keeps
  <2> QED
    BY <2>1, <2>2, <2>3 DEF Remembers
<1>24. ASSUME NEW r \in Runs, Trains(r) PROVE Remembers
  <2>1. store \subseteq store'
    BY <1>24 DEF Trains, Send, ControllerAlive, disk, parent, child, rest
  <2>2. \A kind : Suffered(kind) => Suffered(kind)'
    BY <1>24, <1>f DEF Trains, Send, ControllerAlive, disk, parent, child, rest
  <2>3. UNCHANGED <<ledger, spoilt>> /\ \A q \in Runs : Keeps(q)
    BY <1>24, <1>t DEF Trains, Send, ControllerAlive, disk, parent, child, rest, Keeps
  <2> QED
    BY <2>1, <2>2, <2>3 DEF Remembers
<1>25. ASSUME NEW r \in Runs, Saves(r) PROVE Remembers
  <2>1. store \subseteq store'
    BY <1>25 DEF Saves, Send, ControllerAlive, disk, parent, child, rest
  <2>2. \A kind : Suffered(kind) => Suffered(kind)'
    BY <1>25, <1>f DEF Saves, Send, ControllerAlive, disk, parent, child, rest
  <2>3. UNCHANGED <<ledger, spoilt>> /\ \A q \in Runs : Keeps(q)
    BY <1>25, <1>t DEF Saves, Send, ControllerAlive, disk, parent, child, rest, Keeps
  <2> QED
    BY <2>1, <2>2, <2>3 DEF Remembers
<1>26. ASSUME NEW r \in Runs, PipeEnds(r) PROVE Remembers
  <2>1. store \subseteq store'
    BY <1>26 DEF PipeEnds, ControllerAlive, disk, parent, child, rest
  <2>2. \A kind : Suffered(kind) => Suffered(kind)'
    BY <1>26, <1>f DEF PipeEnds, ControllerAlive, disk, parent, child, rest
  <2>3. UNCHANGED <<ledger, spoilt>> /\ \A q \in Runs : Keeps(q)
    BY <1>26, <1>t DEF PipeEnds, ControllerAlive, disk, parent, child, rest, Keeps
  <2> QED
    BY <2>1, <2>2, <2>3 DEF Remembers
<1>27. ASSUME NEW r \in Runs, LearnerDies(r) PROVE Remembers
  <2>1. store \subseteq store'
    BY <1>27 DEF LearnerDies, MayFail, LearnerAlive, disk, parent, child, rest
  <2>2. \A kind : Suffered(kind) => Suffered(kind)'
    BY <1>27, <1>t, Failing DEF LearnerDies
  <2>3. UNCHANGED <<ledger, spoilt>> /\ \A q \in Runs : Keeps(q)
    BY <1>27, <1>t DEF LearnerDies, MayFail, LearnerAlive, disk, parent, child, rest, Keeps
  <2> QED
    BY <2>1, <2>2, <2>3 DEF Remembers
<1>28. ASSUME NEW r \in Runs, ControllerDies(r) PROVE Remembers
  <2>1. store \subseteq store'
    BY <1>28 DEF ControllerDies, MayFail, ControllerAlive, Become, disk, parent, child, rest
  <2>2. \A kind : Suffered(kind) => Suffered(kind)'
    BY <1>28, <1>t, Failing DEF ControllerDies
  <2>3. UNCHANGED <<ledger, spoilt>> /\ \A q \in Runs : Keeps(q)
    BY <1>28, <1>t
       DEF ControllerDies, MayFail, ControllerAlive, Become, disk, parent, child, rest, Keeps
  <2> QED
    BY <2>1, <2>2, <2>3 DEF Remembers
<1>29. ASSUME NEW r \in Runs, OuterDies(r) PROVE Remembers
  <2>1. store \subseteq store'
    BY <1>29 DEF OuterDies, MayFail, Release, disk, parent, child, rest
  <2>2. \A kind : Suffered(kind) => Suffered(kind)'
    BY <1>29, <1>t, Failing DEF OuterDies
  <2>3. UNCHANGED <<ledger, spoilt>> /\ \A q \in Runs : Keeps(q)
    BY <1>29, <1>t DEF OuterDies, MayFail, Release, disk, parent, child, rest, Keeps
  <2> QED
    BY <2>1, <2>2, <2>3 DEF Remembers
<1>30. ASSUME UNCHANGED vars PROVE Remembers
  <2>1. store \subseteq store'
    BY <1>30 DEF vars, disk, parent, child, rest
  <2>2. \A kind : Suffered(kind) => Suffered(kind)'
    BY <1>30, <1>f DEF vars, disk, parent, child, rest
  <2>3. UNCHANGED <<ledger, spoilt>> /\ \A q \in Runs : Keeps(q)
    BY <1>30, <1>t DEF vars, disk, parent, child, rest, Keeps
  <2> QED
    BY <2>1, <2>2, <2>3 DEF Remembers
<1> QED
  BY <1>1, <1>2, <1>3, <1>4, <1>5, <1>6, <1>7, <1>8, <1>9, <1>10, <1>11, <1>12, <1>13,
     <1>14, <1>15, <1>16, <1>17, <1>18, <1>19, <1>20, <1>21, <1>22, <1>23, <1>24, <1>25,
     <1>26, <1>27, <1>28, <1>29, <1>30 DEF Next, Controller, Learner

(***************************************************************************)
(* A completed run has its last checkpoint.                                *)
(***************************************************************************)
Published(u) == \E c \in store : c.update = u

\* A learner that has saved its update, or that resumes, has its checkpoint published: so has
\* the report in the pipe, and the controller that acts on it.
Reported(r) ==
  (learner[r] \in {"next", "saved"} \/ message[r] \in {"saved", "done"}
     \/ controller[r] = "finishing")
       => Published(update[r])

\* A record that says completed was written, or reopened, after the last checkpoint.
Completed(record) ==
  record # None => (record.status = "completed" => Published(Updates))

Reports == Completed(ledger) /\ \A r \in Runs : Reported(r) /\ Completed(memory[r])

\* Reported() is kept: one step per action, for one run q.
LEMMA KeepsReported ==
  ASSUME Typed, Phases, Reports, [Next]_vars, NEW q \in Runs
  PROVE  Reported(q)'
<1>t. /\ Phase(q) /\ Reported(q) /\ q # None
      /\ None \notin {"checkpoint", "training", "update", "saved", "done"}
      /\ controller \in [Runs -> {"none", "open", "enter", "check", "loop", "poll",
                                  "finishing", "failing", "exited"}]
      /\ learner \in [Runs -> {"none", "start", "next", "ask", "wait", "work", "save", "saved",
                               "exited"}]
      /\ message \in [Runs -> Messages \cup {None}] /\ update \in [Runs -> 0..Updates]
  BY Parameters DEF Typed, TypeOK, Phases, Messages, Reports
<1>s. store \subseteq store'
  BY Steps DEF Remembers
<1>u. update'[q] = update[q] /\ Published(update[q]) => Published(update[q])'
  BY <1>s DEF Published
<1>1. ASSUME Tick PROVE Reported(q)'
  BY <1>1, <1>t, <1>u
     DEF Tick, LearnerAlive, ControllerAlive, Reported, Phase, disk, parent, child, rest
<1>2. ASSUME HostDies PROVE Reported(q)'
  BY <1>2, <1>t, <1>u
     DEF HostDies, MayFail, LearnerAlive, ControllerAlive, Reported, Phase, disk, parent, child,
         rest
<1>3. ASSUME NEW r \in Runs, Start(r) PROVE Reported(q)'
  <2>1. Forget /\ controller' = [controller EXCEPT ![r] = "open"] /\ UNCHANGED learner
    BY <1>3 DEF Start
  <2>2. /\ ControllerAlive(q) => message'[q] = message[q]
        /\ ControllerAlive(q) \/ LearnerAlive(q) => update'[q] = update[q]
        /\ ~ControllerAlive(q) => message'[q] = None
    BY <2>1 DEF Forget
  <2> QED
    BY <1>t, <1>u, <2>1, <2>2 DEF Reported, LearnerAlive, ControllerAlive
<1>4. ASSUME NEW r \in Runs, Return(r) PROVE Reported(q)'
  BY <1>4, <1>t, <1>u
     DEF Return, Release, Reported, Phase, LearnerAlive, disk, parent, child, rest
<1>5. ASSUME NEW r \in Runs, KillGroup(r) PROVE Reported(q)'
  BY <1>5, <1>t, <1>u
     DEF KillGroup, Kill, Release, Group, LearnerAlive, ControllerAlive, Reported, Phase, disk,
         parent, child, rest
<1>6. ASSUME NEW r \in Runs, Interrupted(r) PROVE Reported(q)'
  BY <1>6, <1>t, <1>u
     DEF Interrupted, Kill, Release, Group, LearnerAlive, ControllerAlive, MayFail, Reported,
         Phase, disk, parent, child, rest
<1>7. ASSUME NEW r \in Runs, OpenLedger(r) PROVE Reported(q)'
  <2>1. UNCHANGED update /\ message'[q] \in {message[q], None} 
        /\ learner'[q] \in {learner[q], "exited", "save", "work"}
        /\ controller'[q] \in {controller[q], "exited", "enter", "check", "poll", "loop",
                               "failing"}
    BY <1>7, <1>t DEF OpenLedger, Become, Reply, child
  <2> QED
    BY <1>t, <1>u, <2>1 DEF Reported
<1>8. ASSUME NEW r \in Runs, EnterPhase(r) PROVE Reported(q)'
  <2>1. UNCHANGED update /\ message'[q] \in {message[q], None} 
        /\ learner'[q] \in {learner[q], "exited", "save", "work"}
        /\ controller'[q] \in {controller[q], "exited", "enter", "check", "poll", "loop",
                               "failing"}
    BY <1>8, <1>t DEF EnterPhase, Become, Reply, child
  <2> QED
    BY <1>t, <1>u, <2>1 DEF Reported
<1>9. ASSUME NEW r \in Runs, Refuse(r) PROVE Reported(q)'
  BY <1>9, <1>t, <1>u DEF Refuse, Reported, Phase, LearnerAlive, disk, parent, child, rest, Become
<1>10. ASSUME NEW r \in Runs, StartLearner(r) PROVE Reported(q)'
  BY <1>10, <1>t, <1>u
     DEF StartLearner, Reported, Phase, LearnerAlive, disk, parent, child, rest, Become
<1>11. ASSUME NEW r \in Runs, Exhausted(r) PROVE Reported(q)'
  BY <1>11, <1>t, <1>u
     DEF Exhausted, Reported, Phase, LearnerAlive, disk, parent, child, rest, Become
<1>12. ASSUME NEW r \in Runs, Heartbeat(r) PROVE Reported(q)'
  <2>1. UNCHANGED update /\ message'[q] \in {message[q], None} 
        /\ learner'[q] \in {learner[q], "exited", "save", "work"}
        /\ controller'[q] \in {controller[q], "exited", "enter", "check", "poll", "loop",
                               "failing"}
    BY <1>12, <1>t DEF Heartbeat, Become, Reply, child
  <2> QED
    BY <1>t, <1>u, <2>1 DEF Reported
<1>13. ASSUME NEW r \in Runs, NoHeartbeat(r) PROVE Reported(q)'
  BY <1>13, <1>t, <1>u
     DEF NoHeartbeat, Reported, Phase, LearnerAlive, disk, parent, child, rest, Become
<1>14. ASSUME NEW r \in Runs, StillRuns(r) PROVE Reported(q)'
  BY <1>14, <1>t, <1>u
     DEF StillRuns, LearnerAlive, Reported, Phase, disk, parent, child, rest, Become
<1>15. ASSUME NEW r \in Runs, LearnerGone(r) PROVE Reported(q)'
  BY <1>15, <1>t, <1>u
     DEF LearnerGone, LearnerAlive, Reported, Phase, disk, parent, child, rest, Become
<1>16. ASSUME NEW r \in Runs, HandlePhase(r) PROVE Reported(q)'
  <2>1. UNCHANGED update /\ message'[q] \in {message[q], None} 
        /\ learner'[q] \in {learner[q], "exited", "save", "work"}
        /\ controller'[q] \in {controller[q], "exited", "enter", "check", "poll", "loop",
                               "failing"}
    BY <1>16, <1>t DEF HandlePhase, Become, Reply, child
  <2> QED
    BY <1>t, <1>u, <2>1 DEF Reported
<1>17. ASSUME NEW r \in Runs, HandleReport(r) PROVE Reported(q)'
  BY <1>17, <1>t, <1>u
     DEF HandleReport, Reply, LearnerAlive, Reported, Phase, disk, parent, child, rest, Become
<1>18. ASSUME NEW r \in Runs, HandleDone(r) PROVE Reported(q)'
  BY <1>18, <1>t, <1>u
     DEF HandleDone, Reported, Phase, LearnerAlive, disk, parent, child, rest, Become
<1>19. ASSUME NEW r \in Runs, Close(r) PROVE Reported(q)'
  <2>1. UNCHANGED update /\ message'[q] \in {message[q], None} 
        /\ learner'[q] \in {learner[q], "exited", "save", "work"}
        /\ controller'[q] \in {controller[q], "exited", "enter", "check", "poll", "loop",
                               "failing"}
    BY <1>19, <1>t DEF Close, Become, Reply, child
  <2> QED
    BY <1>t, <1>u, <2>1 DEF Reported
<1>20. ASSUME NEW r \in Runs, LearnerStarts(r) PROVE Reported(q)'
  <2>1. CASE r = q /\ resume[q]
    <3>1. store # {} /\ update'[q] = Recovered
      BY <1>20, <1>t, <2>1 DEF LearnerStarts, Phase
    <3>2. store' = store
      BY <1>20 DEF LearnerStarts, disk
    <3>3. PICK c \in store : c.update = Recovered
      BY <3>1, Newest DEF Typed, TypeOK
    <3>4. Published(update[q])'
      BY <3>1, <3>2, <3>3 DEF Published
    <3> QED
      BY <3>4 DEF Reported
  <2>2. CASE r = q /\ ~resume[q]
    BY <1>20, <1>t, <2>2
       DEF LearnerStarts, Reported, Phase, LearnerAlive, disk, parent, child, rest
  <2>3. CASE r # q
    BY <1>20, <1>t, <1>u, <2>3 DEF LearnerStarts, Reported, disk, parent, child, rest
  <2> QED
    BY <2>1, <2>2, <2>3
<1>21. ASSUME NEW r \in Runs, AsksToSave(r) PROVE Reported(q)'
  BY <1>21, <1>t, <1>u
     DEF AsksToSave, Send, ControllerAlive, Reported, Phase, LearnerAlive, disk, parent, child,
         rest
<1>22. ASSUME NEW r \in Runs, AsksToTrain(r) PROVE Reported(q)'
  BY <1>22, <1>t, <1>u
     DEF AsksToTrain, Send, ControllerAlive, Reported, Phase, LearnerAlive, disk, parent, child,
         rest
<1>23. ASSUME NEW r \in Runs, LearnerDone(r) PROVE Reported(q)'
  BY <1>23, <1>t, <1>u
     DEF LearnerDone, Send, ControllerAlive, Reported, Phase, LearnerAlive, disk, parent, child,
         rest
<1>24. ASSUME NEW r \in Runs, Trains(r) PROVE Reported(q)'
  BY <1>24, <1>t, <1>u
     DEF Trains, Send, ControllerAlive, Reported, Phase, LearnerAlive, disk, parent, child, rest
<1>25. ASSUME NEW r \in Runs, Saves(r) PROVE Reported(q)'
  <2>1. CASE r = q
    <3>1. [update |-> update[q], ledger |-> granted[q]] \in store' /\ update'[q] = update[q]
      BY <1>25, <2>1 DEF Saves
    <3>2. Published(update[q])'
      BY <3>1 DEF Published
    <3> QED
      BY <3>2 DEF Reported
  <2>2. CASE r # q
    BY <1>25, <1>t, <1>u, <2>2 DEF Saves, Send, Reported, disk, parent, child, rest
  <2> QED
    BY <2>1, <2>2
<1>26. ASSUME NEW r \in Runs, PipeEnds(r) PROVE Reported(q)'
  BY <1>26, <1>t, <1>u
     DEF PipeEnds, ControllerAlive, Reported, Phase, LearnerAlive, disk, parent, child, rest
<1>27. ASSUME NEW r \in Runs, LearnerDies(r) PROVE Reported(q)'
  BY <1>27, <1>t, <1>u
     DEF LearnerDies, MayFail, LearnerAlive, Reported, Phase, disk, parent, child, rest
<1>28. ASSUME NEW r \in Runs, ControllerDies(r) PROVE Reported(q)'
  BY <1>28, <1>t, <1>u
     DEF ControllerDies, MayFail, ControllerAlive, Become, Reported, Phase, LearnerAlive, disk,
         parent, child, rest
<1>29. ASSUME NEW r \in Runs, OuterDies(r) PROVE Reported(q)'
  BY <1>29, <1>t, <1>u
     DEF OuterDies, MayFail, Release, Reported, Phase, LearnerAlive, disk, parent, child, rest
<1>30. ASSUME UNCHANGED vars PROVE Reported(q)'
  BY <1>30, <1>t, <1>u DEF vars, Reported, Phase, LearnerAlive, disk, parent, child, rest
<1> QED
  BY <1>1, <1>2, <1>3, <1>4, <1>5, <1>6, <1>7, <1>8, <1>9, <1>10, <1>11, <1>12, <1>13,
     <1>14, <1>15, <1>16, <1>17, <1>18, <1>19, <1>20, <1>21, <1>22, <1>23, <1>24, <1>25,
     <1>26, <1>27, <1>28, <1>29, <1>30 DEF Next, Controller, Learner

\* The records that say completed stay true: a record is new, or it was there before.
LEMMA KeepsReports == ASSUME Typed, Phases, Reports, [Next]_vars PROVE Reports'
<1>1. store \subseteq store'
  BY Steps DEF Remembers
<1>2. CASE \E r \in Runs : Writes(r)
  <2>1. PICK r \in Runs : Writes(r)
    BY <1>2
  <2>2. /\ memory' = [memory EXCEPT ![r] = ledger'] /\ memory \in [Runs -> Records \cup {None}]
        /\ Phase(r) /\ Reported(r)
    BY <2>1, Appends DEF Typed, TypeOK, Phases, Reports
  <2>3. ledger'.status = "completed" => Published(Updates)
    <3>1. CASE OpenLedger(r)
      <4>1. ledger'.status = IF ledger = None THEN "paused" ELSE ledger.status
        BY <2>1, <3>1, Appends
      <4> QED
        BY <4>1 DEF Reports, Completed
    <3>2. CASE EnterPhase(r)
      BY <2>1, <3>2, Appends
    <3>3. CASE Heartbeat(r)
      <4>1. ledger'.status = memory[r].status /\ memory[r] # None
        BY <2>1, <2>2, <3>3, Appends DEF Heartbeat, Phase
      <4> QED
        BY <4>1 DEF Reports, Completed
    <3>4. CASE HandlePhase(r)
      BY <2>1, <3>4, Appends DEF HandlePhase
    <3>5. CASE Close(r)
      <4>1. ledger'.status = Status(r) /\ controller[r] \in {"finishing", "failing"}
        BY <2>1, <3>5, Appends DEF Close
      <4>2. ledger'.status = "completed" => controller[r] = "finishing" /\ update[r] = Updates
        BY <4>1 DEF Status
      <4> QED
        BY <2>2, <4>2 DEF Reported
    <3> QED
      BY <2>1, <3>1, <3>2, <3>3, <3>4, <3>5 DEF Writes
  <2>4. ledger'.status = "completed" => Published(Updates)'
    BY <1>1, <2>3 DEF Published
  <2>5. ASSUME NEW q \in Runs PROVE Completed(memory[q])'
    <3>1. CASE q = r
      BY <2>2, <2>4, <3>1 DEF Completed
    <3>2. CASE q # r
      BY <2>2, <1>1, <3>2 DEF Completed, Reports, Published
    <3> QED
      BY <3>1, <3>2
  <2> QED
    BY <2>4, <2>5, KeepsReported DEF Reports, Completed
<1>3. CASE UNCHANGED <<ledger, spoilt>> /\ \A q \in Runs : Keeps(q)
  <2>1. Completed(ledger)'
    BY <1>1, <1>3 DEF Reports, Completed, Published
  <2>2. ASSUME NEW q \in Runs PROVE Completed(memory[q])'
    BY <1>1, <1>3 DEF Reports, Completed, Published, Keeps
  <2> QED
    BY <2>1, <2>2, KeepsReported DEF Reports
<1> QED
  BY <1>2, <1>3, Steps DEF Remembers

\* What a learner reports is published, and what the ledger and the controllers call completed
\* has its last checkpoint.
THEOREM ReportInvariance == Spec => []Reports
<1>1. Init => Reports
  <2>1. None \notin {"saved", "done"}
    BY Parameters DEF Messages
  <2> QED
    BY <2>1 DEF Init, Reports, Reported, Completed
<1>2. Typed /\ Phases /\ Reports /\ [Next]_vars => Reports'
  BY KeepsReports
<1> QED
  BY <1>1, <1>2, PhaseInvariance, PTL DEF Spec

\* A run whose ledger says completed has the checkpoint of its last update, whichever process
\* died before, between or after: the last transition of _controller follows the done message,
\* and that follows the save.
THEOREM CompletedIsSavedHolds == Spec => []CompletedIsSaved
<1>1. Reports => CompletedIsSaved
  BY DEF Reports, Completed, Published, CompletedIsSaved
<1> QED
  BY <1>1, ReportInvariance, PTL


(***************************************************************************)
(* One writer of the ledger, one learner, and checkpoints within it.       *)
(***************************************************************************)
\* Before the first record there is nothing else.
Opened ==
  ledger = None =>
    /\ store = {}
    /\ \A r \in Runs : /\ learner[r] = "none" /\ controller[r] \in {"none", "open", "exited"}
                       /\ memory[r] = None /\ granted[r] = None

\* Unless the outer process died alone, a controller that lives has the lock and remembers the
\* last record of the ledger; the log is one sequence.
Exclusive ==
  ~Suffered("outer") =>
    /\ ~spoilt
    /\ \A r \in Runs :
         ControllerAlive(r) => lock = r /\ (controller[r] = "open" \/ memory[r] = ledger)

\* Unless a controller died alone, a learner that lives has its controller.
Attended == ~Suffered("controller") => \A r \in Runs : LearnerAlive(r) => ControllerAlive(r)

\* A controller that has a learner, or may get one, keeps the budget running.
Running ==
  \A r \in Runs : controller[r] \in {"check", "loop", "poll", "finishing", "failing"}
                    => memory[r].status \in ACTIVE

\* Nothing but a first record ends the time before the first record.
LEMMA KeepsOpened == ASSUME Typed, Phases, Opened, [Next]_vars PROVE Opened'
<1> SUFFICES ASSUME ledger' = None PROVE Opened'
  BY DEF Opened
<1>l. ledger = None /\ UNCHANGED <<ledger, spoilt>> /\ \A q \in Runs : Keeps(q)
  <2>1. ASSUME NEW r \in Runs, Writes(r) PROVE FALSE
    BY <2>1, Appends, Parameters
  <2> QED
    BY <2>1, Steps DEF Remembers
<1>t. /\ store = {}
      /\ \A q \in Runs : /\ learner[q] = "none" /\ controller[q] \in {"none", "open", "exited"}
                         /\ memory[q] = None /\ granted[q] = None /\ memory'[q] = None
      /\ controller \in [Runs -> {"none", "open", "enter", "check", "loop", "poll",
                                  "finishing", "failing", "exited"}]
  BY <1>l DEF Opened, Keeps, Typed, TypeOK
<1>1. ASSUME Tick PROVE Opened'
  BY <1>1, <1>l, <1>t DEF Tick, LearnerAlive, ControllerAlive, Opened, disk, parent, child, rest
<1>2. ASSUME HostDies PROVE Opened'
  BY <1>2, <1>l, <1>t
     DEF HostDies, MayFail, LearnerAlive, ControllerAlive, Opened, disk, parent, child, rest
<1>3. ASSUME NEW r \in Runs, Start(r) PROVE Opened'
  <2>1. UNCHANGED <<store, learner>>
    BY <1>3 DEF Start, disk
  <2>2. \A q \in Runs : controller'[q] \in {"none", "open", "exited"} /\ granted'[q] = None
    BY <1>3, <1>t DEF Start, Forget
  <2> QED
    BY <1>t, <2>1, <2>2 DEF Opened
<1>4. ASSUME NEW r \in Runs, Return(r) PROVE Opened'
  BY <1>4, <1>l, <1>t DEF Return, Release, Opened, disk, parent, child, rest
<1>5. ASSUME NEW r \in Runs, KillGroup(r) PROVE Opened'
  BY <1>5, <1>l, <1>t
     DEF KillGroup, Kill, Release, Group, LearnerAlive, ControllerAlive, Opened, disk, parent,
         child, rest
<1>6. ASSUME NEW r \in Runs, Interrupted(r) PROVE Opened'
  BY <1>6, <1>l, <1>t
     DEF Interrupted, Kill, Release, Group, LearnerAlive, ControllerAlive, MayFail, Opened, disk,
         parent, child, rest
<1>7. ASSUME NEW r \in Runs, OpenLedger(r) PROVE Opened'
  <2>1. spoilt
    BY <1>7, <1>l, Appends, Parameters DEF Writes
  <2> QED
    BY <1>7, <1>l, <1>t, <2>1 DEF OpenLedger, Become, Opened, disk, parent, child, rest
<1>8. ASSUME NEW r \in Runs, EnterPhase(r) PROVE Opened'
  BY <1>8, <1>l, <1>t DEF EnterPhase, Record, Append_, Opened, disk, parent, child, rest, Become
<1>9. ASSUME NEW r \in Runs, Refuse(r) PROVE Opened'
  BY <1>9, <1>l, <1>t DEF Refuse, Opened, disk, parent, child, rest, Become
<1>10. ASSUME NEW r \in Runs, StartLearner(r) PROVE Opened'
  BY <1>10, <1>l, <1>t DEF StartLearner, Opened, disk, parent, child, rest, Become
<1>11. ASSUME NEW r \in Runs, Exhausted(r) PROVE Opened'
  BY <1>11, <1>l, <1>t DEF Exhausted, Opened, disk, parent, child, rest, Become
<1>12. ASSUME NEW r \in Runs, Heartbeat(r) PROVE Opened'
  BY <1>12, <1>l, <1>t DEF Heartbeat, Record, Append_, Opened, disk, parent, child, rest, Become
<1>13. ASSUME NEW r \in Runs, NoHeartbeat(r) PROVE Opened'
  BY <1>13, <1>l, <1>t DEF NoHeartbeat, Opened, disk, parent, child, rest, Become
<1>14. ASSUME NEW r \in Runs, StillRuns(r) PROVE Opened'
  BY <1>14, <1>l, <1>t DEF StillRuns, LearnerAlive, Opened, disk, parent, child, rest, Become
<1>15. ASSUME NEW r \in Runs, LearnerGone(r) PROVE Opened'
  BY <1>15, <1>l, <1>t DEF LearnerGone, LearnerAlive, Opened, disk, parent, child, rest, Become
<1>16. ASSUME NEW r \in Runs, HandlePhase(r) PROVE Opened'
  BY <1>16, <1>l, <1>t
     DEF HandlePhase, Record, Append_, Reply, LearnerAlive, Opened, disk, parent, child, rest,
         Become
<1>17. ASSUME NEW r \in Runs, HandleReport(r) PROVE Opened'
  BY <1>17, <1>l, <1>t
     DEF HandleReport, Reply, LearnerAlive, Opened, disk, parent, child, rest, Become
<1>18. ASSUME NEW r \in Runs, HandleDone(r) PROVE Opened'
  BY <1>18, <1>l, <1>t DEF HandleDone, Opened, disk, parent, child, rest, Become
<1>19. ASSUME NEW r \in Runs, Close(r) PROVE Opened'
  BY <1>19, <1>l, <1>t
     DEF Close, Record, Append_, LearnerAlive, Opened, disk, parent, child, rest, Become
<1>20. ASSUME NEW r \in Runs, LearnerStarts(r) PROVE Opened'
  BY <1>20, <1>l, <1>t DEF LearnerStarts, Opened, disk, parent, child, rest
<1>21. ASSUME NEW r \in Runs, AsksToSave(r) PROVE Opened'
  BY <1>21, <1>l, <1>t DEF AsksToSave, Send, ControllerAlive, Opened, disk, parent, child, rest
<1>22. ASSUME NEW r \in Runs, AsksToTrain(r) PROVE Opened'
  BY <1>22, <1>l, <1>t DEF AsksToTrain, Send, ControllerAlive, Opened, disk, parent, child, rest
<1>23. ASSUME NEW r \in Runs, LearnerDone(r) PROVE Opened'
  BY <1>23, <1>l, <1>t DEF LearnerDone, Send, ControllerAlive, Opened, disk, parent, child, rest
<1>24. ASSUME NEW r \in Runs, Trains(r) PROVE Opened'
  BY <1>24, <1>l, <1>t DEF Trains, Send, ControllerAlive, Opened, disk, parent, child, rest
<1>25. ASSUME NEW r \in Runs, Saves(r) PROVE Opened'
  BY <1>25, <1>l, <1>t DEF Saves, Send, ControllerAlive, Opened, disk, parent, child, rest
<1>26. ASSUME NEW r \in Runs, PipeEnds(r) PROVE Opened'
  BY <1>26, <1>l, <1>t DEF PipeEnds, ControllerAlive, Opened, disk, parent, child, rest
<1>27. ASSUME NEW r \in Runs, LearnerDies(r) PROVE Opened'
  BY <1>27, <1>l, <1>t DEF LearnerDies, MayFail, LearnerAlive, Opened, disk, parent, child, rest
<1>28. ASSUME NEW r \in Runs, ControllerDies(r) PROVE Opened'
  BY <1>28, <1>l, <1>t
     DEF ControllerDies, MayFail, ControllerAlive, Become, Opened, disk, parent, child, rest
<1>29. ASSUME NEW r \in Runs, OuterDies(r) PROVE Opened'
  BY <1>29, <1>l, <1>t DEF OuterDies, MayFail, Release, Opened, disk, parent, child, rest
<1>30. ASSUME UNCHANGED vars PROVE Opened'
  BY <1>30, <1>l, <1>t DEF vars, Opened, disk, parent, child, rest
<1> QED
  BY <1>1, <1>2, <1>3, <1>4, <1>5, <1>6, <1>7, <1>8, <1>9, <1>10, <1>11, <1>12, <1>13,
     <1>14, <1>15, <1>16, <1>17, <1>18, <1>19, <1>20, <1>21, <1>22, <1>23, <1>24, <1>25,
     <1>26, <1>27, <1>28, <1>29, <1>30 DEF Next, Controller, Learner

\* The controller that writes the ledger follows its last record.
LEMMA Follows ==
  ASSUME Exclusive, ~Suffered("outer"), NEW r \in Runs, Writes(r)
  PROVE  ControllerAlive(r) /\ lock = r /\ Basis(r) = ledger
<1>1. controller[r] \in {"open", "enter", "loop", "poll", "finishing", "failing"}
  BY DEF Writes, OpenLedger, EnterPhase, Heartbeat, HandlePhase, Close
<1> QED
  BY <1>1 DEF Exclusive, ControllerAlive, Basis

\* A lock is given away only when the controller below it has ended.
LEMMA KeepsExclusive == ASSUME Typed, Phases, Exclusive, [Next]_vars PROVE Exclusive'
<1> SUFFICES ASSUME ~Suffered("outer")' PROVE Exclusive'
  BY DEF Exclusive
<1>o. ~Suffered("outer")
  BY Steps DEF Remembers
<1>t. /\ controller \in [Runs -> {"none", "open", "enter", "check", "loop", "poll",
                                  "finishing", "failing", "exited"}]
      /\ memory \in [Runs -> Records \cup {None}] /\ faults \in Seq(Faults)
      /\ \A r \in Runs : Phase(r) /\ r # None
  BY Parameters DEF Typed, TypeOK, Phases
<1>e. /\ ~spoilt
      /\ \A q \in Runs :
           ControllerAlive(q) => lock = q /\ (controller[q] = "open" \/ memory[q] = ledger)
  BY <1>o DEF Exclusive
<1>w. ASSUME NEW r \in Runs, Writes(r)
      PROVE  /\ ~spoilt' /\ memory'[r] = ledger' /\ lock = r
             /\ \A q \in Runs : q # r => controller[q] \in {"none", "exited"}
  <2>1. ControllerAlive(r) /\ lock = r /\ Basis(r) = ledger
    BY <1>o, <1>w, Follows
  <2>2. memory' = [memory EXCEPT ![r] = ledger']
        /\ spoilt' = (spoilt \/ (ledger # None /\ ledger'.sequence # ledger.sequence + 1))
        /\ (Basis(r) # None => ledger'.sequence = Basis(r).sequence + 1)
    BY <1>w, Appends
  <2> QED
    BY <1>t, <1>e, <2>1, <2>2 DEF ControllerAlive
<1>1. ASSUME Tick PROVE Exclusive'
  BY <1>1, <1>t, <1>e
     DEF Tick, LearnerAlive, ControllerAlive, Exclusive, disk, parent, child, rest
<1>2. ASSUME HostDies PROVE Exclusive'
  BY <1>2, <1>t, <1>e
     DEF HostDies, MayFail, LearnerAlive, ControllerAlive, Exclusive, disk, parent, child, rest
<1>3. ASSUME NEW r \in Runs, Start(r) PROVE Exclusive'
  <2>1. \A q \in Runs : controller[q] \in {"none", "exited"}
    BY <1>3, <1>t, <1>e DEF Start, ControllerAlive
  <2>2. /\ lock' = r /\ spoilt' = spoilt /\ controller' = [controller EXCEPT ![r] = "open"]
    BY <1>3 DEF Start, disk
  <2> QED
    BY <1>t, <1>e, <2>1, <2>2 DEF Exclusive, ControllerAlive
<1>4. ASSUME NEW r \in Runs, Return(r) PROVE Exclusive'
  <2>1. lock = r /\ \A q \in Runs : q # r => controller[q] \in {"none", "exited"}
    BY <1>4, <1>t, <1>e DEF Return, Phase, ControllerAlive
  <2>2. /\ spoilt' = spoilt /\ controller'[r] = "exited"
        /\ \A q \in Runs : q # r => controller'[q] = controller[q]
    BY <1>4, <1>t DEF Return, disk
  <2> QED
    BY <1>e, <2>1, <2>2 DEF Exclusive, ControllerAlive
<1>5. ASSUME NEW r \in Runs, KillGroup(r) PROVE Exclusive'
  <2>1. lock = r /\ \A q \in Runs : q # r => controller[q] \in {"none", "exited"}
    BY <1>5, <1>t, <1>e DEF KillGroup, Phase, ControllerAlive
  <2>2. /\ spoilt' = spoilt /\ controller'[r] = "exited"
        /\ \A q \in Runs : q # r => controller'[q] = controller[q]
    BY <1>5, <1>t DEF KillGroup, Kill, disk
  <2> QED
    BY <1>e, <2>1, <2>2 DEF Exclusive, ControllerAlive
<1>6. ASSUME NEW r \in Runs, Interrupted(r) PROVE Exclusive'
  <2>1. lock = r /\ \A q \in Runs : q # r => controller[q] \in {"none", "exited"}
    BY <1>6, <1>t, <1>e DEF Interrupted, Phase, ControllerAlive
  <2>2. /\ spoilt' = spoilt /\ controller'[r] = "exited"
        /\ \A q \in Runs : q # r => controller'[q] = controller[q]
    BY <1>6, <1>t DEF Interrupted, Kill, disk
  <2> QED
    BY <1>e, <2>1, <2>2 DEF Exclusive, ControllerAlive
<1>7. ASSUME NEW r \in Runs, OpenLedger(r) PROVE Exclusive'
  <2>1. Writes(r)
    BY <1>7, <1>e DEF Writes
  <2>2. lock' = lock /\ \A q \in Runs : q # r => controller'[q] = controller[q]
    BY <1>7, <1>t, <1>e DEF OpenLedger, Become, rest, parent
  <2> QED
    BY <1>w, <2>1, <2>2 DEF Exclusive, ControllerAlive
<1>8. ASSUME NEW r \in Runs, EnterPhase(r) PROVE Exclusive'
  <2>1. Writes(r)
    BY <1>8 DEF Writes
  <2>2. lock' = lock /\ \A q \in Runs : q # r => controller'[q] = controller[q]
    BY <1>8, <1>t DEF EnterPhase, Become, Reply, rest, parent
  <2>3. controller'[r] # "open"
    BY <1>8, <1>t DEF EnterPhase, Become, Reply
  <2> QED
    BY <1>w, <2>1, <2>2, <2>3 DEF Exclusive, ControllerAlive
<1>9. ASSUME NEW r \in Runs, Refuse(r) PROVE Exclusive'
  BY <1>9, <1>t, <1>e DEF Refuse, Exclusive, disk, parent, child, rest, ControllerAlive, Become
<1>10. ASSUME NEW r \in Runs, StartLearner(r) PROVE Exclusive'
  BY <1>10, <1>t, <1>e
     DEF StartLearner, Exclusive, disk, parent, child, rest, ControllerAlive, Become
<1>11. ASSUME NEW r \in Runs, Exhausted(r) PROVE Exclusive'
  BY <1>11, <1>t, <1>e
     DEF Exhausted, Exclusive, disk, parent, child, rest, ControllerAlive, Become
<1>12. ASSUME NEW r \in Runs, Heartbeat(r) PROVE Exclusive'
  <2>1. Writes(r)
    BY <1>12 DEF Writes
  <2>2. lock' = lock /\ \A q \in Runs : q # r => controller'[q] = controller[q]
    BY <1>12, <1>t DEF Heartbeat, Become, Reply, rest, parent
  <2>3. controller'[r] # "open"
    BY <1>12, <1>t DEF Heartbeat, Become, Reply
  <2> QED
    BY <1>w, <2>1, <2>2, <2>3 DEF Exclusive, ControllerAlive
<1>13. ASSUME NEW r \in Runs, NoHeartbeat(r) PROVE Exclusive'
  BY <1>13, <1>t, <1>e
     DEF NoHeartbeat, Exclusive, disk, parent, child, rest, ControllerAlive, Become
<1>14. ASSUME NEW r \in Runs, StillRuns(r) PROVE Exclusive'
  BY <1>14, <1>t, <1>e
     DEF StillRuns, LearnerAlive, Exclusive, disk, parent, child, rest, ControllerAlive, Become
<1>15. ASSUME NEW r \in Runs, LearnerGone(r) PROVE Exclusive'
  BY <1>15, <1>t, <1>e
     DEF LearnerGone, LearnerAlive, Exclusive, disk, parent, child, rest, ControllerAlive, Become
<1>16. ASSUME NEW r \in Runs, HandlePhase(r) PROVE Exclusive'
  <2>1. Writes(r)
    BY <1>16 DEF Writes
  <2>2. lock' = lock /\ \A q \in Runs : q # r => controller'[q] = controller[q]
    BY <1>16, <1>t DEF HandlePhase, Become, Reply, rest, parent
  <2>3. controller'[r] # "open"
    BY <1>16, <1>t DEF HandlePhase, Become, Reply
  <2> QED
    BY <1>w, <2>1, <2>2, <2>3 DEF Exclusive, ControllerAlive
<1>17. ASSUME NEW r \in Runs, HandleReport(r) PROVE Exclusive'
  BY <1>17, <1>t, <1>e
     DEF HandleReport, Reply, LearnerAlive, Exclusive, disk, parent, child, rest, ControllerAlive,
         Become
<1>18. ASSUME NEW r \in Runs, HandleDone(r) PROVE Exclusive'
  BY <1>18, <1>t, <1>e
     DEF HandleDone, Exclusive, disk, parent, child, rest, ControllerAlive, Become
<1>19. ASSUME NEW r \in Runs, Close(r) PROVE Exclusive'
  <2>1. Writes(r)
    BY <1>19 DEF Writes
  <2>2. lock' = lock /\ \A q \in Runs : q # r => controller'[q] = controller[q]
    BY <1>19, <1>t DEF Close, Become, Reply, rest, parent
  <2>3. controller'[r] # "open"
    BY <1>19, <1>t DEF Close, Become, Reply
  <2> QED
    BY <1>w, <2>1, <2>2, <2>3 DEF Exclusive, ControllerAlive
<1>20. ASSUME NEW r \in Runs, LearnerStarts(r) PROVE Exclusive'
  BY <1>20, <1>t, <1>e DEF LearnerStarts, Exclusive, disk, parent, child, rest, ControllerAlive
<1>21. ASSUME NEW r \in Runs, AsksToSave(r) PROVE Exclusive'
  BY <1>21, <1>t, <1>e DEF AsksToSave, Send, ControllerAlive, Exclusive, disk, parent, child, rest
<1>22. ASSUME NEW r \in Runs, AsksToTrain(r) PROVE Exclusive'
  BY <1>22, <1>t, <1>e
     DEF AsksToTrain, Send, ControllerAlive, Exclusive, disk, parent, child, rest
<1>23. ASSUME NEW r \in Runs, LearnerDone(r) PROVE Exclusive'
  BY <1>23, <1>t, <1>e
     DEF LearnerDone, Send, ControllerAlive, Exclusive, disk, parent, child, rest
<1>24. ASSUME NEW r \in Runs, Trains(r) PROVE Exclusive'
  BY <1>24, <1>t, <1>e DEF Trains, Send, ControllerAlive, Exclusive, disk, parent, child, rest
<1>25. ASSUME NEW r \in Runs, Saves(r) PROVE Exclusive'
  BY <1>25, <1>t, <1>e DEF Saves, Send, ControllerAlive, Exclusive, disk, parent, child, rest
<1>26. ASSUME NEW r \in Runs, PipeEnds(r) PROVE Exclusive'
  BY <1>26, <1>t, <1>e DEF PipeEnds, ControllerAlive, Exclusive, disk, parent, child, rest
<1>27. ASSUME NEW r \in Runs, LearnerDies(r) PROVE Exclusive'
  BY <1>27, <1>t, <1>e
     DEF LearnerDies, MayFail, LearnerAlive, Exclusive, disk, parent, child, rest, ControllerAlive
<1>28. ASSUME NEW r \in Runs, ControllerDies(r) PROVE Exclusive'
  BY <1>28, <1>t, <1>e
     DEF ControllerDies, MayFail, ControllerAlive, Become, Exclusive, disk, parent, child, rest
<1>29. ASSUME NEW r \in Runs, OuterDies(r) PROVE Exclusive'
  <2>1. Suffered("outer")'
    BY <1>29, <1>t, Failing DEF OuterDies
  <2> QED
    BY <2>1
<1>30. ASSUME UNCHANGED vars PROVE Exclusive'
  BY <1>30, <1>t, <1>e DEF vars, Exclusive, disk, parent, child, rest, ControllerAlive
<1> QED
  BY <1>1, <1>2, <1>3, <1>4, <1>5, <1>6, <1>7, <1>8, <1>9, <1>10, <1>11, <1>12, <1>13,
     <1>14, <1>15, <1>16, <1>17, <1>18, <1>19, <1>20, <1>21, <1>22, <1>23, <1>24, <1>25,
     <1>26, <1>27, <1>28, <1>29, <1>30 DEF Next, Controller, Learner

\* A controller ends its learner before it ends, unless it is killed alone.
LEMMA KeepsAttended == ASSUME Typed, Phases, Attended, [Next]_vars PROVE Attended'
<1> SUFFICES ASSUME ~Suffered("controller")', NEW q \in Runs
             PROVE  LearnerAlive(q)' => ControllerAlive(q)'
  BY DEF Attended
<1>o. ~Suffered("controller")
  BY Steps DEF Remembers
<1>t. /\ controller \in [Runs -> {"none", "open", "enter", "check", "loop", "poll",
                                  "finishing", "failing", "exited"}]
      /\ learner \in [Runs -> {"none", "start", "next", "ask", "wait", "work", "save", "saved",
                               "exited"}]
      /\ Phase(q) /\ (LearnerAlive(q) => ControllerAlive(q)) /\ faults \in Seq(Faults)
  BY <1>o DEF Typed, TypeOK, Phases, Attended
<1>1. ASSUME Tick PROVE (LearnerAlive(q) => ControllerAlive(q))'
  BY <1>1, <1>t DEF Tick, LearnerAlive, ControllerAlive, disk, parent, child, rest, Phase
<1>2. ASSUME HostDies PROVE (LearnerAlive(q) => ControllerAlive(q))'
  BY <1>2, <1>t
     DEF HostDies, MayFail, LearnerAlive, ControllerAlive, disk, parent, child, rest, Phase
<1>3. ASSUME NEW r \in Runs, Start(r) PROVE (LearnerAlive(q) => ControllerAlive(q))'
  BY <1>3, <1>t DEF Start, Forget, LearnerAlive, ControllerAlive, disk, parent, child, rest, Phase
<1>4. ASSUME NEW r \in Runs, Return(r) PROVE (LearnerAlive(q) => ControllerAlive(q))'
  BY <1>4, <1>t
     DEF Return, Release, LearnerAlive, ControllerAlive, disk, parent, child, rest, Phase
<1>5. ASSUME NEW r \in Runs, KillGroup(r) PROVE (LearnerAlive(q) => ControllerAlive(q))'
  BY <1>5, <1>t
     DEF KillGroup, Kill, Release, Group, LearnerAlive, ControllerAlive, disk, parent, child,
         rest, Phase
<1>6. ASSUME NEW r \in Runs, Interrupted(r) PROVE (LearnerAlive(q) => ControllerAlive(q))'
  BY <1>6, <1>t
     DEF Interrupted, Kill, Release, Group, LearnerAlive, ControllerAlive, MayFail, disk, parent,
         child, rest, Phase
<1>7. ASSUME NEW r \in Runs, OpenLedger(r) PROVE (LearnerAlive(q) => ControllerAlive(q))'
  BY <1>7, <1>t
     DEF OpenLedger, Append_, LearnerAlive, ControllerAlive, disk, parent, child, rest, Phase,
         Become
<1>8. ASSUME NEW r \in Runs, EnterPhase(r) PROVE (LearnerAlive(q) => ControllerAlive(q))'
  BY <1>8, <1>t
     DEF EnterPhase, Record, Append_, LearnerAlive, ControllerAlive, disk, parent, child, rest,
         Phase, Become
<1>9. ASSUME NEW r \in Runs, Refuse(r) PROVE (LearnerAlive(q) => ControllerAlive(q))'
  BY <1>9, <1>t
     DEF Refuse, LearnerAlive, ControllerAlive, disk, parent, child, rest, Phase, Become
<1>10. ASSUME NEW r \in Runs, StartLearner(r) PROVE (LearnerAlive(q) => ControllerAlive(q))'
  BY <1>10, <1>t
     DEF StartLearner, LearnerAlive, ControllerAlive, disk, parent, child, rest, Phase, Become
<1>11. ASSUME NEW r \in Runs, Exhausted(r) PROVE (LearnerAlive(q) => ControllerAlive(q))'
  BY <1>11, <1>t
     DEF Exhausted, LearnerAlive, ControllerAlive, disk, parent, child, rest, Phase, Become
<1>12. ASSUME NEW r \in Runs, Heartbeat(r) PROVE (LearnerAlive(q) => ControllerAlive(q))'
  BY <1>12, <1>t
     DEF Heartbeat, Record, Append_, LearnerAlive, ControllerAlive, disk, parent, child, rest,
         Phase, Become
<1>13. ASSUME NEW r \in Runs, NoHeartbeat(r) PROVE (LearnerAlive(q) => ControllerAlive(q))'
  BY <1>13, <1>t
     DEF NoHeartbeat, LearnerAlive, ControllerAlive, disk, parent, child, rest, Phase, Become
<1>14. ASSUME NEW r \in Runs, StillRuns(r) PROVE (LearnerAlive(q) => ControllerAlive(q))'
  BY <1>14, <1>t
     DEF StillRuns, LearnerAlive, ControllerAlive, disk, parent, child, rest, Phase, Become
<1>15. ASSUME NEW r \in Runs, LearnerGone(r) PROVE (LearnerAlive(q) => ControllerAlive(q))'
  BY <1>15, <1>t
     DEF LearnerGone, LearnerAlive, ControllerAlive, disk, parent, child, rest, Phase, Become
<1>16. ASSUME NEW r \in Runs, HandlePhase(r) PROVE (LearnerAlive(q) => ControllerAlive(q))'
  BY <1>16, <1>t
     DEF HandlePhase, Record, Append_, Reply, LearnerAlive, ControllerAlive, disk, parent, child,
         rest, Phase, Become
<1>17. ASSUME NEW r \in Runs, HandleReport(r) PROVE (LearnerAlive(q) => ControllerAlive(q))'
  BY <1>17, <1>t
     DEF HandleReport, Reply, LearnerAlive, ControllerAlive, disk, parent, child, rest, Phase,
         Become
<1>18. ASSUME NEW r \in Runs, HandleDone(r) PROVE (LearnerAlive(q) => ControllerAlive(q))'
  BY <1>18, <1>t
     DEF HandleDone, LearnerAlive, ControllerAlive, disk, parent, child, rest, Phase, Become
<1>19. ASSUME NEW r \in Runs, Close(r) PROVE (LearnerAlive(q) => ControllerAlive(q))'
  BY <1>19, <1>t
     DEF Close, Record, Append_, LearnerAlive, ControllerAlive, disk, parent, child, rest, Phase,
         Become
<1>20. ASSUME NEW r \in Runs, LearnerStarts(r) PROVE (LearnerAlive(q) => ControllerAlive(q))'
  BY <1>20, <1>t
     DEF LearnerStarts, LearnerAlive, ControllerAlive, disk, parent, child, rest, Phase
<1>21. ASSUME NEW r \in Runs, AsksToSave(r) PROVE (LearnerAlive(q) => ControllerAlive(q))'
  BY <1>21, <1>t
     DEF AsksToSave, Send, ControllerAlive, LearnerAlive, disk, parent, child, rest, Phase
<1>22. ASSUME NEW r \in Runs, AsksToTrain(r) PROVE (LearnerAlive(q) => ControllerAlive(q))'
  BY <1>22, <1>t
     DEF AsksToTrain, Send, ControllerAlive, LearnerAlive, disk, parent, child, rest, Phase
<1>23. ASSUME NEW r \in Runs, LearnerDone(r) PROVE (LearnerAlive(q) => ControllerAlive(q))'
  BY <1>23, <1>t
     DEF LearnerDone, Send, ControllerAlive, LearnerAlive, disk, parent, child, rest, Phase
<1>24. ASSUME NEW r \in Runs, Trains(r) PROVE (LearnerAlive(q) => ControllerAlive(q))'
  BY <1>24, <1>t DEF Trains, Send, ControllerAlive, LearnerAlive, disk, parent, child, rest, Phase
<1>25. ASSUME NEW r \in Runs, Saves(r) PROVE (LearnerAlive(q) => ControllerAlive(q))'
  BY <1>25, <1>t DEF Saves, Send, ControllerAlive, LearnerAlive, disk, parent, child, rest, Phase
<1>26. ASSUME NEW r \in Runs, PipeEnds(r) PROVE (LearnerAlive(q) => ControllerAlive(q))'
  BY <1>26, <1>t DEF PipeEnds, ControllerAlive, LearnerAlive, disk, parent, child, rest, Phase
<1>27. ASSUME NEW r \in Runs, LearnerDies(r) PROVE (LearnerAlive(q) => ControllerAlive(q))'
  BY <1>27, <1>t
     DEF LearnerDies, MayFail, LearnerAlive, ControllerAlive, disk, parent, child, rest, Phase
<1>28. ASSUME NEW r \in Runs, ControllerDies(r) PROVE (LearnerAlive(q) => ControllerAlive(q))'
  <2>1. Suffered("controller")'
    BY <1>28, <1>t, Failing DEF ControllerDies
  <2> QED
    BY <2>1
<1>29. ASSUME NEW r \in Runs, OuterDies(r) PROVE (LearnerAlive(q) => ControllerAlive(q))'
  BY <1>29, <1>t
     DEF OuterDies, MayFail, Release, LearnerAlive, ControllerAlive, disk, parent, child, rest,
         Phase
<1>30. ASSUME UNCHANGED vars PROVE (LearnerAlive(q) => ControllerAlive(q))'
  BY <1>30, <1>t DEF vars, LearnerAlive, ControllerAlive, disk, parent, child, rest, Phase
<1> QED
  BY <1>1, <1>2, <1>3, <1>4, <1>5, <1>6, <1>7, <1>8, <1>9, <1>10, <1>11, <1>12, <1>13,
     <1>14, <1>15, <1>16, <1>17, <1>18, <1>19, <1>20, <1>21, <1>22, <1>23, <1>24, <1>25,
     <1>26, <1>27, <1>28, <1>29, <1>30 DEF Next, Controller, Learner

\* A controller pauses the budget only with its last record.
LEMMA KeepsRunning == ASSUME Typed, Phases, Running, [Next]_vars PROVE Running'
<1> SUFFICES ASSUME NEW q \in Runs,
                    controller'[q] \in {"check", "loop", "poll", "finishing", "failing"}
             PROVE  memory'[q].status \in ACTIVE
  BY DEF Running
<1>t. /\ controller \in [Runs -> {"none", "open", "enter", "check", "loop", "poll",
                                  "finishing", "failing", "exited"}]
      /\ memory \in [Runs -> Records \cup {None}]
  BY DEF Typed, TypeOK
<1>w. ASSUME NEW r \in Runs, Writes(r) PROVE memory'[q].status \in ACTIVE
  <2>1. memory' = [memory EXCEPT ![r] = ledger']
    BY <1>w, Appends
  <2>2. CASE q # r
    <3>1. controller'[q] = controller[q]
      BY <1>w, <1>t, <2>2
         DEF Writes, OpenLedger, EnterPhase, Heartbeat, HandlePhase, Close, Become,
                              Reply
    <3> QED
      BY <1>t, <2>1, <2>2, <3>1 DEF Running
  <2>3. CASE q = r
    <3>1. memory'[q] = ledger'
      BY <1>t, <2>1, <2>3
    <3>2. CASE OpenLedger(r) /\ ~spoilt
      BY <1>t, <2>3, <3>2 DEF OpenLedger, Become
    <3>3. CASE EnterPhase(r)
      BY <1>w, <3>1, <3>3, Appends DEF ACTIVE
    <3>4. CASE Heartbeat(r)
      <4>1. controller[r] = "loop" /\ ledger'.status = memory[r].status
        BY <1>w, <3>4, Appends DEF Heartbeat
      <4> QED
        BY <2>3, <3>1, <4>1 DEF Running
    <3>5. CASE HandlePhase(r)
      <4>1. message[r] \in {"checkpoint", "training"} /\ ledger'.status = message[r]
        BY <1>w, <3>5, Appends DEF HandlePhase
      <4> QED
        BY <3>1, <4>1 DEF ACTIVE
    <3>6. CASE Close(r)
      BY <1>t, <2>3, <3>6 DEF Close, Become
    <3> QED
      BY <1>w, <3>2, <3>3, <3>4, <3>5, <3>6 DEF Writes
  <2> QED
    BY <2>2, <2>3
<1>1. ASSUME Tick PROVE memory'[q].status \in ACTIVE
  BY <1>1, <1>t DEF Tick, LearnerAlive, ControllerAlive, Running, disk, parent, child, rest
<1>2. ASSUME HostDies PROVE memory'[q].status \in ACTIVE
  BY <1>2, <1>t
     DEF HostDies, MayFail, LearnerAlive, ControllerAlive, Running, disk, parent, child, rest
<1>3. ASSUME NEW r \in Runs, Start(r) PROVE memory'[q].status \in ACTIVE
  BY <1>3, <1>t
     DEF Start, Forget, LearnerAlive, ControllerAlive, Running, disk, parent, child, rest
<1>4. ASSUME NEW r \in Runs, Return(r) PROVE memory'[q].status \in ACTIVE
  BY <1>4, <1>t DEF Return, Release, Running, disk, parent, child, rest, ControllerAlive
<1>5. ASSUME NEW r \in Runs, KillGroup(r) PROVE memory'[q].status \in ACTIVE
  BY <1>5, <1>t
     DEF KillGroup, Kill, Release, Group, LearnerAlive, ControllerAlive, Running, disk, parent,
         child, rest
<1>6. ASSUME NEW r \in Runs, Interrupted(r) PROVE memory'[q].status \in ACTIVE
  BY <1>6, <1>t
     DEF Interrupted, Kill, Release, Group, LearnerAlive, ControllerAlive, MayFail, Running, disk,
         parent, child, rest
<1>7. ASSUME NEW r \in Runs, OpenLedger(r) PROVE memory'[q].status \in ACTIVE
  <2>1. CASE spoilt
    BY <1>7, <1>t, <2>1 DEF OpenLedger, Become, Running
  <2>2. CASE ~spoilt
    BY <1>7, <1>w, <2>2 DEF Writes
  <2> QED
    BY <2>1, <2>2
<1>8. ASSUME NEW r \in Runs, EnterPhase(r) PROVE memory'[q].status \in ACTIVE
  <2>1. Writes(r)
    BY <1>8 DEF Writes
  <2> QED
    BY <1>w, <2>1
<1>9. ASSUME NEW r \in Runs, Refuse(r) PROVE memory'[q].status \in ACTIVE
  BY <1>9, <1>t DEF Refuse, Running, disk, parent, child, rest, ControllerAlive, Become
<1>10. ASSUME NEW r \in Runs, StartLearner(r) PROVE memory'[q].status \in ACTIVE
  BY <1>10, <1>t DEF StartLearner, Running, disk, parent, child, rest, ControllerAlive, Become
<1>11. ASSUME NEW r \in Runs, Exhausted(r) PROVE memory'[q].status \in ACTIVE
  BY <1>11, <1>t DEF Exhausted, Running, disk, parent, child, rest, ControllerAlive, Become
<1>12. ASSUME NEW r \in Runs, Heartbeat(r) PROVE memory'[q].status \in ACTIVE
  <2>1. Writes(r)
    BY <1>12 DEF Writes
  <2> QED
    BY <1>w, <2>1
<1>13. ASSUME NEW r \in Runs, NoHeartbeat(r) PROVE memory'[q].status \in ACTIVE
  BY <1>13, <1>t DEF NoHeartbeat, Running, disk, parent, child, rest, ControllerAlive, Become
<1>14. ASSUME NEW r \in Runs, StillRuns(r) PROVE memory'[q].status \in ACTIVE
  BY <1>14, <1>t
     DEF StillRuns, LearnerAlive, Running, disk, parent, child, rest, ControllerAlive, Become
<1>15. ASSUME NEW r \in Runs, LearnerGone(r) PROVE memory'[q].status \in ACTIVE
  BY <1>15, <1>t
     DEF LearnerGone, LearnerAlive, Running, disk, parent, child, rest, ControllerAlive, Become
<1>16. ASSUME NEW r \in Runs, HandlePhase(r) PROVE memory'[q].status \in ACTIVE
  <2>1. Writes(r)
    BY <1>16 DEF Writes
  <2> QED
    BY <1>w, <2>1
<1>17. ASSUME NEW r \in Runs, HandleReport(r) PROVE memory'[q].status \in ACTIVE
  BY <1>17, <1>t
     DEF HandleReport, Reply, LearnerAlive, Running, disk, parent, child, rest, ControllerAlive,
         Become
<1>18. ASSUME NEW r \in Runs, HandleDone(r) PROVE memory'[q].status \in ACTIVE
  BY <1>18, <1>t DEF HandleDone, Running, disk, parent, child, rest, ControllerAlive, Become
<1>19. ASSUME NEW r \in Runs, Close(r) PROVE memory'[q].status \in ACTIVE
  <2>1. Writes(r)
    BY <1>19 DEF Writes
  <2> QED
    BY <1>w, <2>1
<1>20. ASSUME NEW r \in Runs, LearnerStarts(r) PROVE memory'[q].status \in ACTIVE
  BY <1>20, <1>t DEF LearnerStarts, Running, disk, parent, child, rest, ControllerAlive
<1>21. ASSUME NEW r \in Runs, AsksToSave(r) PROVE memory'[q].status \in ACTIVE
  BY <1>21, <1>t DEF AsksToSave, Send, ControllerAlive, Running, disk, parent, child, rest
<1>22. ASSUME NEW r \in Runs, AsksToTrain(r) PROVE memory'[q].status \in ACTIVE
  BY <1>22, <1>t DEF AsksToTrain, Send, ControllerAlive, Running, disk, parent, child, rest
<1>23. ASSUME NEW r \in Runs, LearnerDone(r) PROVE memory'[q].status \in ACTIVE
  BY <1>23, <1>t DEF LearnerDone, Send, ControllerAlive, Running, disk, parent, child, rest
<1>24. ASSUME NEW r \in Runs, Trains(r) PROVE memory'[q].status \in ACTIVE
  BY <1>24, <1>t DEF Trains, Send, ControllerAlive, Running, disk, parent, child, rest
<1>25. ASSUME NEW r \in Runs, Saves(r) PROVE memory'[q].status \in ACTIVE
  BY <1>25, <1>t DEF Saves, Send, ControllerAlive, Running, disk, parent, child, rest
<1>26. ASSUME NEW r \in Runs, PipeEnds(r) PROVE memory'[q].status \in ACTIVE
  BY <1>26, <1>t DEF PipeEnds, ControllerAlive, Running, disk, parent, child, rest
<1>27. ASSUME NEW r \in Runs, LearnerDies(r) PROVE memory'[q].status \in ACTIVE
  BY <1>27, <1>t
     DEF LearnerDies, MayFail, LearnerAlive, Running, disk, parent, child, rest, ControllerAlive
<1>28. ASSUME NEW r \in Runs, ControllerDies(r) PROVE memory'[q].status \in ACTIVE
  BY <1>28, <1>t
     DEF ControllerDies, MayFail, ControllerAlive, Become, Running, disk, parent, child, rest
<1>29. ASSUME NEW r \in Runs, OuterDies(r) PROVE memory'[q].status \in ACTIVE
  BY <1>29, <1>t
     DEF OuterDies, MayFail, Release, Running, disk, parent, child, rest, ControllerAlive
<1>30. ASSUME UNCHANGED vars PROVE memory'[q].status \in ACTIVE
  BY <1>30, <1>t DEF vars, Running, disk, parent, child, rest, ControllerAlive
<1> QED
  BY <1>1, <1>2, <1>3, <1>4, <1>5, <1>6, <1>7, <1>8, <1>9, <1>10, <1>11, <1>12, <1>13,
     <1>14, <1>15, <1>16, <1>17, <1>18, <1>19, <1>20, <1>21, <1>22, <1>23, <1>24, <1>25,
     <1>26, <1>27, <1>28, <1>29, <1>30 DEF Next, Controller, Learner

\* Who may write: a controller that lives has the lock and the last record, a learner that lives
\* has its controller, and the ledger says that the budget is running for as long.
THEOREM OwnershipInvariance == Spec => [](Opened /\ Exclusive /\ Attended /\ Running)
<1>1. Init => Opened /\ Exclusive /\ Attended /\ Running
  BY DEF Init, Opened, Exclusive, Attended, Running, ControllerAlive, LearnerAlive
<1>2. Typed /\ Phases /\ (Opened /\ Exclusive /\ Attended /\ Running) /\ [Next]_vars
        => (Opened /\ Exclusive /\ Attended /\ Running)'
  BY KeepsOpened, KeepsExclusive, KeepsAttended, KeepsRunning
<1> QED
  BY <1>1, <1>2, PhaseInvariance, PTL DEF Spec

\* Two learners never train the run at once, as long as no process died without its parent
\* noticing: each has its controller, and that one has the lock of its outer process.
\* (run_lock, run_training, _controller)
THEOREM OneLearnerHolds == Spec => []OneLearner
<1>1. Exclusive /\ Attended => OneLearner
  BY DEF Exclusive, Attended, OneLearner, NoOrphans
<1> QED
  BY <1>1, OwnershipInvariance, PTL

\* As long as no outer process dies alone, the log of the ledger is one sequence: no controller
\* writes it after another has opened it, whatever else is killed. (run_lock, BudgetLedger)
THEOREM OneWriter == Spec => [](~Suffered("outer") => LedgerIntact)
<1>1. Exclusive => (~Suffered("outer") => LedgerIntact)
  BY DEF Exclusive, LedgerIntact
<1> QED
  BY <1>1, OwnershipInvariance, PTL


(***************************************************************************)
(* No snapshot, granted or saved, is ahead of the ledger.                  *)
(***************************************************************************)
Covers(snapshot) == /\ ledger # None
                    /\ snapshot.sequence <= ledger.sequence /\ snapshot.charged <= ledger.charged

Covered ==
  ~Suffered("outer") => /\ \A r \in Runs : granted[r] # None => Covers(granted[r])
                        /\ \A c \in store : Covers(c.ledger)

\* Where the snapshots of a step come from.
Carries ==
  /\ \A q \in Runs : \/ granted'[q] \in {granted[q], None}
                     \/ ledger' \in Records /\ granted'[q] = Snapshot(ledger')
  /\ \A c \in store' : c \in store \/ \E r \in Runs : granted[r] # None /\ c.ledger = granted[r]

\* A snapshot is granted of the record just written, and saved as it was granted.
LEMMA Carrying == ASSUME Typed, Phases, [Next]_vars PROVE Carries
<1>t. granted \in [Runs -> Snapshots \cup {None}] /\ \A r \in Runs : Phase(r)
  BY DEF Typed, TypeOK, Phases
<1>1. ASSUME Tick PROVE Carries
  BY <1>1, <1>t DEF Tick, LearnerAlive, ControllerAlive, Carries, disk, parent, child, rest
<1>2. ASSUME HostDies PROVE Carries
  BY <1>2, <1>t
     DEF HostDies, MayFail, LearnerAlive, ControllerAlive, Carries, disk, parent, child, rest
<1>3. ASSUME NEW r \in Runs, Start(r) PROVE Carries
  <2>1. \A q \in Runs : granted'[q] \in {granted[q], None}
    BY <1>3 DEF Start, Forget
  <2> QED
    BY <1>3, <2>1 DEF Start, Carries, disk
<1>4. ASSUME NEW r \in Runs, Return(r) PROVE Carries
  BY <1>4, <1>t DEF Return, Release, Carries, disk, parent, child, rest
<1>5. ASSUME NEW r \in Runs, KillGroup(r) PROVE Carries
  BY <1>5, <1>t
     DEF KillGroup, Kill, Release, Group, LearnerAlive, ControllerAlive, Carries, disk, parent,
         child, rest
<1>6. ASSUME NEW r \in Runs, Interrupted(r) PROVE Carries
  BY <1>6, <1>t
     DEF Interrupted, Kill, Release, Group, LearnerAlive, ControllerAlive, MayFail, Carries, disk,
         parent, child, rest
<1>7. ASSUME NEW r \in Runs, OpenLedger(r) PROVE Carries
  BY <1>7, <1>t DEF OpenLedger, Append_, Carries, disk, parent, child, rest, Become
<1>8. ASSUME NEW r \in Runs, EnterPhase(r) PROVE Carries
  BY <1>8, <1>t DEF EnterPhase, Record, Append_, Carries, disk, parent, child, rest, Become
<1>9. ASSUME NEW r \in Runs, Refuse(r) PROVE Carries
  BY <1>9, <1>t DEF Refuse, Carries, disk, parent, child, rest, Become
<1>10. ASSUME NEW r \in Runs, StartLearner(r) PROVE Carries
  BY <1>10, <1>t DEF StartLearner, Carries, disk, parent, child, rest, Become
<1>11. ASSUME NEW r \in Runs, Exhausted(r) PROVE Carries
  BY <1>11, <1>t DEF Exhausted, Carries, disk, parent, child, rest, Become
<1>12. ASSUME NEW r \in Runs, Heartbeat(r) PROVE Carries
  BY <1>12, <1>t DEF Heartbeat, Record, Append_, Carries, disk, parent, child, rest, Become
<1>13. ASSUME NEW r \in Runs, NoHeartbeat(r) PROVE Carries
  BY <1>13, <1>t DEF NoHeartbeat, Carries, disk, parent, child, rest, Become
<1>14. ASSUME NEW r \in Runs, StillRuns(r) PROVE Carries
  BY <1>14, <1>t DEF StillRuns, LearnerAlive, Carries, disk, parent, child, rest, Become
<1>15. ASSUME NEW r \in Runs, LearnerGone(r) PROVE Carries
  BY <1>15, <1>t DEF LearnerGone, LearnerAlive, Carries, disk, parent, child, rest, Become
<1>16. ASSUME NEW r \in Runs, HandlePhase(r) PROVE Carries
  <2>1. ledger' \in Records /\ memory' = [memory EXCEPT ![r] = ledger']
    BY <1>16, Appends DEF Writes
  <2>2. memory'[r] = ledger'
    BY <2>1 DEF Typed, TypeOK
  <2>3. UNCHANGED store
    BY <1>16 DEF HandlePhase
  <2> QED
    BY <1>16, <1>t, <2>1, <2>2, <2>3 DEF HandlePhase, Carries
<1>17. ASSUME NEW r \in Runs, HandleReport(r) PROVE Carries
  BY <1>17, <1>t DEF HandleReport, Reply, LearnerAlive, Carries, disk, parent, child, rest, Become
<1>18. ASSUME NEW r \in Runs, HandleDone(r) PROVE Carries
  BY <1>18, <1>t DEF HandleDone, Carries, disk, parent, child, rest, Become
<1>19. ASSUME NEW r \in Runs, Close(r) PROVE Carries
  BY <1>19, <1>t
     DEF Close, Record, Append_, LearnerAlive, Carries, disk, parent, child, rest, Become
<1>20. ASSUME NEW r \in Runs, LearnerStarts(r) PROVE Carries
  BY <1>20, <1>t DEF LearnerStarts, Carries, disk, parent, child, rest
<1>21. ASSUME NEW r \in Runs, AsksToSave(r) PROVE Carries
  BY <1>21, <1>t DEF AsksToSave, Send, ControllerAlive, Carries, disk, parent, child, rest
<1>22. ASSUME NEW r \in Runs, AsksToTrain(r) PROVE Carries
  BY <1>22, <1>t DEF AsksToTrain, Send, ControllerAlive, Carries, disk, parent, child, rest
<1>23. ASSUME NEW r \in Runs, LearnerDone(r) PROVE Carries
  BY <1>23, <1>t DEF LearnerDone, Send, ControllerAlive, Carries, disk, parent, child, rest
<1>24. ASSUME NEW r \in Runs, Trains(r) PROVE Carries
  BY <1>24, <1>t DEF Trains, Send, ControllerAlive, Carries, disk, parent, child, rest
<1>25. ASSUME NEW r \in Runs, Saves(r) PROVE Carries
  <2>1. granted[r] # None /\ store' = store \cup {[update |-> update[r], ledger |-> granted[r]]}
    BY <1>25, <1>t DEF Saves, Phase
  <2> QED
    BY <1>25, <1>t, <2>1 DEF Saves, Carries
<1>26. ASSUME NEW r \in Runs, PipeEnds(r) PROVE Carries
  BY <1>26, <1>t DEF PipeEnds, ControllerAlive, Carries, disk, parent, child, rest
<1>27. ASSUME NEW r \in Runs, LearnerDies(r) PROVE Carries
  BY <1>27, <1>t DEF LearnerDies, MayFail, LearnerAlive, Carries, disk, parent, child, rest
<1>28. ASSUME NEW r \in Runs, ControllerDies(r) PROVE Carries
  BY <1>28, <1>t
     DEF ControllerDies, MayFail, ControllerAlive, Become, Carries, disk, parent, child, rest
<1>29. ASSUME NEW r \in Runs, OuterDies(r) PROVE Carries
  BY <1>29, <1>t DEF OuterDies, MayFail, Release, Carries, disk, parent, child, rest
<1>30. ASSUME UNCHANGED vars PROVE Carries
  BY <1>30, <1>t DEF vars, Carries, disk, parent, child, rest
<1> QED
  BY <1>1, <1>2, <1>3, <1>4, <1>5, <1>6, <1>7, <1>8, <1>9, <1>10, <1>11, <1>12, <1>13,
     <1>14, <1>15, <1>16, <1>17, <1>18, <1>19, <1>20, <1>21, <1>22, <1>23, <1>24, <1>25,
     <1>26, <1>27, <1>28, <1>29, <1>30 DEF Next, Controller, Learner

\* The ledger only grows, unless the outer process died alone.
LEMMA Grows ==
  ASSUME Typed, Phases, Exclusive, [Next]_vars, ~Suffered("outer"), ledger # None
  PROVE  ledger' # None /\ ledger.sequence <= ledger'.sequence /\ ledger.charged <= ledger'.charged
<1>1. ledger \in Records
  BY DEF Typed, TypeOK
<1>2. ASSUME NEW r \in Runs, Writes(r)
      PROVE  /\ ledger' # None
             /\ ledger.sequence <= ledger'.sequence /\ ledger.charged <= ledger'.charged
  <2>1. Basis(r) = ledger
    BY <1>2, Follows
  <2>2. /\ ledger' \in Records /\ Gap(ledger) \in Nat
        /\ ledger'.sequence = ledger.sequence + 1
        /\ ledger'.charged = ledger.charged + Gap(ledger)
    BY <1>2, <2>1, Appends
  <2> QED
    BY <1>1, <2>2, Parameters DEF Records
<1>3. CASE UNCHANGED <<ledger, spoilt>>
  BY <1>1, <1>3 DEF Records
<1> QED
  BY <1>2, <1>3, Steps DEF Remembers

\* Covered is kept: what is in the ledger stays covered as the ledger grows.
LEMMA KeepsCovered == ASSUME Typed, Phases, Exclusive, Covered, [Next]_vars PROVE Covered'
<1> SUFFICES ASSUME ~Suffered("outer")' PROVE Covered'
  BY DEF Covered
<1>1. ~Suffered("outer")
  BY Steps DEF Remembers
<1>2. Carries /\ granted \in [Runs -> Snapshots \cup {None}] /\ store \subseteq Checkpoints
  BY Carrying DEF Typed, TypeOK
<1>3. ASSUME NEW s \in Snapshots, Covers(s) PROVE Covers(s)'
  <2>1. /\ ledger # None /\ ledger \in Records /\ ledger' # None
        /\ ledger.sequence <= ledger'.sequence /\ ledger.charged <= ledger'.charged
    BY <1>1, <1>3, Grows DEF Covers, Typed, TypeOK
  <2>2. ledger' \in Records
    BY <2>1, KeepsTypes DEF Typed, TypeOK
  <2> QED
    BY <1>3, <2>1, <2>2 DEF Covers, Records, Snapshots
<1>4. ASSUME NEW q \in Runs, granted'[q] # None PROVE Covers(granted[q])'
  <2>1. CASE granted'[q] \in {granted[q], None}
    <3>1. granted'[q] = granted[q] /\ granted[q] \in Snapshots /\ Covers(granted[q])
      BY <1>1, <1>2, <1>4, <2>1 DEF Covered
    <3>2. PICK s \in Snapshots : s = granted[q]
      BY <3>1
    <3> QED
      BY <1>3, <3>1, <3>2 DEF Covers
  <2>2. CASE ledger' \in Records /\ granted'[q] = Snapshot(ledger')
    BY <2>2, Parameters DEF Covers, Snapshot, Records
  <2> QED
    BY <1>2, <2>1, <2>2 DEF Carries
<1>5. ASSUME NEW c \in store' PROVE Covers(c.ledger)'
  <2>1. CASE c \in store
    BY <1>1, <1>2, <1>3, <2>1 DEF Covered, Checkpoints, Covers
  <2>2. CASE \E r \in Runs : granted[r] # None /\ c.ledger = granted[r]
    BY <1>1, <1>2, <1>3, <2>2 DEF Covered, Covers
  <2> QED
    BY <1>2, <2>1, <2>2 DEF Carries
<1> QED
  BY <1>4, <1>5 DEF Covered

\* Every snapshot, granted or saved, is covered by the ledger.
THEOREM CoverInvariance == Spec => []Covered
<1>1. Init => Covered
  BY DEF Init, Covered
<1>2. Typed /\ Phases /\ Exclusive /\ Covered /\ [Next]_vars => Covered'
  BY KeepsCovered
<1> QED
  BY <1>1, <1>2, PhaseInvariance, OwnershipInvariance, PTL DEF Spec

\* No checkpoint is ahead of the durable ledger, so check_checkpoint() never refuses a run its
\* own checkpoints: a snapshot is granted of a record that is in the log already, and the log
\* only grows. (BudgetLedger.snapshot, check_checkpoint)
THEOREM CheckpointsWithinLedgerHolds == Spec => []CheckpointsWithinLedger
<1>1. Covered => CheckpointsWithinLedger
  BY DEF Covered, Covers, CheckpointsWithinLedger, WithinLedger
<1> QED
  BY <1>1, CoverInvariance, PTL


(***************************************************************************)
(* No update is saved twice.                                               *)
(***************************************************************************)
Beyond(u) == \A c \in store : c.update < u
UpTo(u)   == \A c \in store : c.update <= u

\* The learner has an update to save, or has saved the one it has.
Ahead(r) == learner[r] \in {"ask", "save"}
            \/ (learner[r] = "wait" /\ message[r] \in {"checkpoint", "update"})
Level(r) == learner[r] \in {"next", "work", "saved"}
            \/ (learner[r] = "wait" /\ message[r] \in {"training", "saved"})

\* What the store holds at each stage of a run.
Stage(r) ==
  /\ controller[r] \in {"open", "enter", "check"} /\ ~resume[r] => store = {}
  /\ learner[r] = "start" /\ ~resume[r] => store = {}
  /\ Ahead(r) => Beyond(update[r])
  /\ Level(r) => UpTo(update[r])

Once == NoOrphans => EachUpdateOnce /\ \A r \in Runs : Stage(r)

\* Each stage is kept: one step per action, for one run q.
LEMMA KeepsOnce ==
  ASSUME Typed, Phases, Opened, Exclusive, Attended, Once, [Next]_vars PROVE Once'
<1> SUFFICES ASSUME NoOrphans' PROVE Once'
  BY DEF Once
<1>o. NoOrphans
  BY Steps DEF Remembers, NoOrphans
<1>t. /\ store \subseteq Checkpoints /\ EachUpdateOnce
      /\ controller \in [Runs -> {"none", "open", "enter", "check", "loop", "poll",
                                  "finishing", "failing", "exited"}]
      /\ learner \in [Runs -> {"none", "start", "next", "ask", "wait", "work", "save", "saved",
                               "exited"}]
      /\ message \in [Runs -> Messages \cup {None}] /\ update \in [Runs -> 0..Updates]
      /\ resume \in [Runs -> BOOLEAN] /\ Updates \in Nat
      /\ None \notin {"checkpoint", "training", "update", "saved", "done"}
  BY <1>o, Parameters DEF Typed, TypeOK, Once, Messages
<1>p. \A r \in Runs : Phase(r) /\ Stage(r) /\ r # None
  BY <1>o, Parameters DEF Phases, Once
<1>x. \A r \in Runs : LearnerAlive(r) \/ ControllerAlive(r) => lock = r
  BY <1>o DEF Exclusive, Attended, NoOrphans
<1>e. EachUpdateOnce'
  <2>1. ASSUME NEW r \in Runs, Saves(r) PROVE EachUpdateOnce'
    <3>1. /\ learner[r] = "save"
          /\ store' = store \cup {[update |-> update[r], ledger |-> granted[r]]}
      BY <2>1 DEF Saves
    <3>2. Beyond(update[r])
      BY <1>p, <3>1 DEF Stage, Ahead
    <3>3. \A c \in store : c.update # update[r]
      BY <1>t, <3>2 DEF Beyond, Checkpoints
    <3> QED
      BY <1>t, <1>o, <3>1, <3>3 DEF EachUpdateOnce
  <2>2. ASSUME UNCHANGED store PROVE EachUpdateOnce'
    BY <1>t, <1>o, <2>2 DEF EachUpdateOnce
  <2>3. UNCHANGED store \/ \E r \in Runs : Saves(r)
    BY DEF Next, Controller, Learner, vars, disk, HostDies, Tick, Start, Return, KillGroup,
           Interrupted, Kill, OpenLedger, EnterPhase, Refuse, StartLearner, Exhausted, Heartbeat,
           NoHeartbeat, StillRuns, LearnerGone, HandlePhase, HandleReport, HandleDone, Close,
           LearnerStarts, AsksToSave, AsksToTrain, LearnerDone, Trains, PipeEnds, LearnerDies,
           ControllerDies, OuterDies
  <2> QED
    BY <2>1, <2>2, <2>3
<1> SUFFICES ASSUME NEW q \in Runs PROVE Stage(q)'
  BY <1>e DEF Once
<1>1. ASSUME Tick PROVE Stage(q)'
  BY <1>1, <1>t, <1>p
     DEF Tick, LearnerAlive, ControllerAlive, Stage, Ahead, Level, Beyond, UpTo, disk, parent,
         child, rest, Phase
<1>2. ASSUME HostDies PROVE Stage(q)'
  BY <1>2, <1>t, <1>p
     DEF HostDies, MayFail, LearnerAlive, ControllerAlive, Stage, Ahead, Level, Beyond, UpTo,
         disk, parent, child, rest, Phase
<1>3. ASSUME NEW r \in Runs, Start(r) PROVE Stage(q)'
  <2>1. \A p \in Runs : ~LearnerAlive(p) /\ ~ControllerAlive(p)
    BY <1>3, <1>p, <1>x DEF Start
  <2>2. controller' = [controller EXCEPT ![r] = "open"] /\ UNCHANGED <<store, learner>>
    BY <1>3 DEF Start, disk
  <2>3. ~Ahead(q)' /\ ~Level(q)' /\ learner'[q] # "start"
    BY <2>1, <2>2 DEF LearnerAlive, Ahead, Level
  <2>4. CASE q = r
    <3>1. resume'[q] \/ ledger = None
      BY <1>3, <1>t, <2>4 DEF Start
    <3> QED
      BY <2>2, <2>3, <3>1 DEF Opened, Stage
  <2>5. CASE q # r
    BY <1>t, <2>1, <2>2, <2>3, <2>5 DEF Stage, ControllerAlive
  <2> QED
    BY <2>4, <2>5
<1>4. ASSUME NEW r \in Runs, Return(r) PROVE Stage(q)'
  BY <1>4, <1>t, <1>p
     DEF Return, Release, Stage, Ahead, Level, Beyond, UpTo, disk, parent, child, rest, Phase,
         LearnerAlive
<1>5. ASSUME NEW r \in Runs, KillGroup(r) PROVE Stage(q)'
  BY <1>5, <1>t, <1>p
     DEF KillGroup, Kill, Release, Group, LearnerAlive, ControllerAlive, Stage, Ahead, Level,
         Beyond, UpTo, disk, parent, child, rest, Phase
<1>6. ASSUME NEW r \in Runs, Interrupted(r) PROVE Stage(q)'
  BY <1>6, <1>t, <1>p
     DEF Interrupted, Kill, Release, Group, LearnerAlive, ControllerAlive, MayFail, Stage, Ahead,
         Level, Beyond, UpTo, disk, parent, child, rest, Phase
<1>7. ASSUME NEW r \in Runs, OpenLedger(r) PROVE Stage(q)'
  BY <1>7, <1>t, <1>p
     DEF OpenLedger, Append_, Stage, Ahead, Level, Beyond, UpTo, disk, parent, child, rest, Phase,
         LearnerAlive, Become
<1>8. ASSUME NEW r \in Runs, EnterPhase(r) PROVE Stage(q)'
  BY <1>8, <1>t, <1>p
     DEF EnterPhase, Record, Append_, Stage, Ahead, Level, Beyond, UpTo, disk, parent, child,
         rest, Phase, LearnerAlive, Become
<1>9. ASSUME NEW r \in Runs, Refuse(r) PROVE Stage(q)'
  BY <1>9, <1>t, <1>p
     DEF Refuse, Stage, Ahead, Level, Beyond, UpTo, disk, parent, child, rest, Phase,
         LearnerAlive, Become
<1>10. ASSUME NEW r \in Runs, StartLearner(r) PROVE Stage(q)'
  BY <1>10, <1>t, <1>p
     DEF StartLearner, Stage, Ahead, Level, Beyond, UpTo, disk, parent, child, rest, Phase,
         LearnerAlive, Become
<1>11. ASSUME NEW r \in Runs, Exhausted(r) PROVE Stage(q)'
  BY <1>11, <1>t, <1>p
     DEF Exhausted, Stage, Ahead, Level, Beyond, UpTo, disk, parent, child, rest, Phase,
         LearnerAlive, Become
<1>12. ASSUME NEW r \in Runs, Heartbeat(r) PROVE Stage(q)'
  BY <1>12, <1>t, <1>p
     DEF Heartbeat, Record, Append_, Stage, Ahead, Level, Beyond, UpTo, disk, parent, child, rest,
         Phase, LearnerAlive, Become
<1>13. ASSUME NEW r \in Runs, NoHeartbeat(r) PROVE Stage(q)'
  BY <1>13, <1>t, <1>p
     DEF NoHeartbeat, Stage, Ahead, Level, Beyond, UpTo, disk, parent, child, rest, Phase,
         LearnerAlive, Become
<1>14. ASSUME NEW r \in Runs, StillRuns(r) PROVE Stage(q)'
  BY <1>14, <1>t, <1>p
     DEF StillRuns, LearnerAlive, Stage, Ahead, Level, Beyond, UpTo, disk, parent, child, rest,
         Phase, Become
<1>15. ASSUME NEW r \in Runs, LearnerGone(r) PROVE Stage(q)'
  BY <1>15, <1>t, <1>p
     DEF LearnerGone, LearnerAlive, Stage, Ahead, Level, Beyond, UpTo, disk, parent, child, rest,
         Phase, Become
<1>16. ASSUME NEW r \in Runs, HandlePhase(r) PROVE Stage(q)'
  BY <1>16, <1>t, <1>p
     DEF HandlePhase, Record, Append_, Reply, LearnerAlive, Stage, Ahead, Level, Beyond, UpTo,
         disk, parent, child, rest, Phase, Become
<1>17. ASSUME NEW r \in Runs, HandleReport(r) PROVE Stage(q)'
  BY <1>17, <1>t, <1>p
     DEF HandleReport, Reply, LearnerAlive, Stage, Ahead, Level, Beyond, UpTo, disk, parent,
         child, rest, Phase, Become
<1>18. ASSUME NEW r \in Runs, HandleDone(r) PROVE Stage(q)'
  BY <1>18, <1>t, <1>p
     DEF HandleDone, Stage, Ahead, Level, Beyond, UpTo, disk, parent, child, rest, Phase,
         LearnerAlive, Become
<1>19. ASSUME NEW r \in Runs, Close(r) PROVE Stage(q)'
  BY <1>19, <1>t, <1>p
     DEF Close, Record, Append_, LearnerAlive, Stage, Ahead, Level, Beyond, UpTo, disk, parent,
         child, rest, Phase, Become
<1>20. ASSUME NEW r \in Runs, LearnerStarts(r) PROVE Stage(q)'
  <2>1. CASE q = r /\ resume[r]
    <3>1. store # {} /\ update'[q] = Recovered /\ learner'[q] = "next"
          /\ UNCHANGED <<store, resume, controller>>
      BY <1>20, <1>t, <1>p, <2>1 DEF LearnerStarts, Phase, disk, rest, parent
    <3>2. \A c \in store' : c.update <= update'[q]
      BY <1>t, <3>1, Newest
    <3> QED
      BY <1>p, <2>1, <3>1, <3>2 DEF Stage, Ahead, Level, UpTo
  <2>2. CASE q = r /\ ~resume[r]
    BY <1>20, <1>t, <1>p, <2>2
       DEF LearnerStarts, Stage, Ahead, Level, Beyond, UpTo, disk, parent, rest, Phase, child
  <2>3. CASE q # r
    BY <1>20, <1>t, <1>p, <2>3
       DEF LearnerStarts, Stage, Ahead, Level, Beyond, UpTo, disk, parent, rest, Phase
  <2> QED
    BY <2>1, <2>2, <2>3
<1>21. ASSUME NEW r \in Runs, AsksToSave(r) PROVE Stage(q)'
  BY <1>21, <1>t, <1>p
     DEF AsksToSave, Send, ControllerAlive, Stage, Ahead, Level, Beyond, UpTo, disk, parent,
         child, rest, Phase, LearnerAlive
<1>22. ASSUME NEW r \in Runs, AsksToTrain(r) PROVE Stage(q)'
  BY <1>22, <1>t, <1>p
     DEF AsksToTrain, Send, ControllerAlive, Stage, Ahead, Level, Beyond, UpTo, disk, parent,
         child, rest, Phase, LearnerAlive
<1>23. ASSUME NEW r \in Runs, LearnerDone(r) PROVE Stage(q)'
  BY <1>23, <1>t, <1>p
     DEF LearnerDone, Send, ControllerAlive, Stage, Ahead, Level, Beyond, UpTo, disk, parent,
         child, rest, Phase, LearnerAlive
<1>24. ASSUME NEW r \in Runs, Trains(r) PROVE Stage(q)'
  <2>1. CASE q # r
    BY <1>24, <1>t, <1>p, <2>1
       DEF Trains, Send, Stage, Ahead, Level, Beyond, UpTo, disk, rest, parent
  <2>2. CASE q = r
    <3>1. /\ UpTo(update[q]) /\ update'[q] = update[q] + 1 /\ UNCHANGED store
          /\ controller[q] \notin {"open", "enter", "check"} /\ controller'[q] = controller[q]
      BY <1>24, <1>t, <1>p, <2>2 DEF Trains, Stage, Level, Phase, disk
    <3>2. Beyond(update[q])'
      BY <1>t, <3>1 DEF Beyond, UpTo, Checkpoints
    <3>3. ~Level(q)' /\ learner'[q] # "start"
      BY <1>24, <1>t, <2>2, <1>p DEF Trains, Send, Level, Phase
    <3> QED
      BY <3>1, <3>2, <3>3 DEF Stage
  <2> QED
    BY <2>1, <2>2
<1>25. ASSUME NEW r \in Runs, Saves(r) PROVE Stage(q)'
  <2>1. lock = r
    BY <1>25, <1>x DEF Saves, LearnerAlive
  <2>2. CASE q # r
    <3>1. ~LearnerAlive(q) /\ ~ControllerAlive(q)
      BY <1>x, <2>1, <2>2
    <3>2. learner'[q] = learner[q] /\ controller'[q] = controller[q]
      BY <1>25, <1>t, <2>2 DEF Saves, Send
    <3> QED
      BY <3>1, <3>2 DEF Stage, Ahead, Level, LearnerAlive, ControllerAlive
  <2>3. CASE q = r
    <3>1. /\ store' = store \cup {[update |-> update[q], ledger |-> granted[q]]}
          /\ update'[q] = update[q] /\ Beyond(update[q]) /\ controller'[q] = controller[q]
      BY <1>25, <1>p, <2>3 DEF Saves, Stage, Ahead
    <3>2. UpTo(update[q])'
      BY <1>t, <3>1 DEF Beyond, UpTo, Checkpoints
    <3>3. ~Ahead(q)' /\ learner'[q] # "start" /\ controller[q] \notin {"open", "enter", "check"}
      BY <1>25, <1>t, <1>p, <2>3 DEF Saves, Send, Ahead, Phase
    <3> QED
      BY <3>1, <3>2, <3>3 DEF Stage
  <2> QED
    BY <2>2, <2>3
<1>26. ASSUME NEW r \in Runs, PipeEnds(r) PROVE Stage(q)'
  BY <1>26, <1>t, <1>p
     DEF PipeEnds, ControllerAlive, Stage, Ahead, Level, Beyond, UpTo, disk, parent, child, rest,
         Phase, LearnerAlive
<1>27. ASSUME NEW r \in Runs, LearnerDies(r) PROVE Stage(q)'
  BY <1>27, <1>t, <1>p
     DEF LearnerDies, MayFail, LearnerAlive, Stage, Ahead, Level, Beyond, UpTo, disk, parent,
         child, rest, Phase
<1>28. ASSUME NEW r \in Runs, ControllerDies(r) PROVE Stage(q)'
  BY <1>28, <1>t, <1>p
     DEF ControllerDies, MayFail, ControllerAlive, Become, Stage, Ahead, Level, Beyond, UpTo,
         disk, parent, child, rest, Phase, LearnerAlive
<1>29. ASSUME NEW r \in Runs, OuterDies(r) PROVE Stage(q)'
  BY <1>29, <1>t, <1>p
     DEF OuterDies, MayFail, Release, Stage, Ahead, Level, Beyond, UpTo, disk, parent, child,
         rest, Phase, LearnerAlive
<1>30. ASSUME UNCHANGED vars PROVE Stage(q)'
  BY <1>30, <1>t, <1>p
     DEF vars, Stage, Ahead, Level, Beyond, UpTo, disk, parent, child, rest, Phase, LearnerAlive
<1> QED
  BY <1>1, <1>2, <1>3, <1>4, <1>5, <1>6, <1>7, <1>8, <1>9, <1>10, <1>11, <1>12, <1>13,
     <1>14, <1>15, <1>16, <1>17, <1>18, <1>19, <1>20, <1>21, <1>22, <1>23, <1>24, <1>25,
     <1>26, <1>27, <1>28, <1>29, <1>30 DEF Next, Controller, Learner

\* The store holds what the stage of the only learner says it does.
THEOREM OnceInvariance == Spec => []Once
<1>1. Init => Once
  BY DEF Init, Once, EachUpdateOnce, Stage, Ahead, Level
<1>2. Typed /\ Phases /\ (Opened /\ Exclusive /\ Attended /\ Running) /\ Once /\ [Next]_vars
        => Once'
  BY KeepsOnce
<1> QED
  BY <1>1, <1>2, PhaseInvariance, OwnershipInvariance, PTL DEF Spec

\* No update is saved twice, however often the run is interrupted and resumed, as long as no
\* process dies without its parent noticing: a resumed learner goes on from the newest
\* checkpoint, and nobody else saves meanwhile. (_learner, CheckpointStore.recover)
THEOREM EachUpdateOnceHolds == Spec => []EachUpdateOnce
<1>1. Once => EachUpdateOnce
  BY DEF Once, EachUpdateOnce
<1> QED
  BY <1>1, OnceInvariance, PTL

\* Learners, checkpoints and ledger agree, whichever of them a fault ends first.
\* (run_training, _controller, _learner)
THEOREM ConsistencyHolds == Spec => []Consistency
<1>1. OneLearner /\ Once /\ CheckpointsWithinLedger /\ CompletedIsSaved => Consistency
  BY DEF Once, Consistency, EachUpdateOnce
<1> QED
  BY <1>1, OneLearnerHolds, OnceInvariance, CheckpointsWithinLedgerHolds, CompletedIsSavedHolds,
      PTL


(***************************************************************************)
(* The budget: all the work is charged, and the watchdog ends the run.     *)
(***************************************************************************)
\* What is charged, or will be by the next record.
Charged == IF ledger = None THEN 0 ELSE ledger.charged + Gap(ledger)

\* The deadline of the run leaves it no more than what is not charged yet, and the grace; a
\* controller does not live beyond it.
Watchdog ==
  ~Suffered("outer") =>
    /\ lock # None => Charged + (deadline[lock] - now) <= Budget + Grace
    /\ \A r \in Runs : ControllerAlive(r) => now <= deadline[r]

Accounts == NoOrphans => worked <= Charged /\ worked <= Budget + Grace

\* Time, and the work done in it, moves by ticks only.
LEMMA OnlyTicks == ASSUME [Next]_vars PROVE Tick \/ UNCHANGED <<now, worked>>
BY DEF Next, Controller, Learner, vars, rest, HostDies, Start, Return, KillGroup, Interrupted,
       Kill, OpenLedger, EnterPhase, Refuse, StartLearner, Exhausted, Heartbeat, NoHeartbeat,
       StillRuns, LearnerGone, HandlePhase, HandleReport, HandleDone, Close, LearnerStarts,
       AsksToSave, AsksToTrain, LearnerDone, Trains, Saves, PipeEnds, LearnerDies,
       ControllerDies, OuterDies

\* The charge is a number: no record is later than the clock.
LEMMA ChargedIsNat == ASSUME Typed PROVE Charged \in Nat
<1>1. CASE ledger # None
  <2>1. ledger \in Records /\ ledger.clock <= now /\ now \in Nat /\ MaxTime \in Nat
    BY <1>1, Parameters DEF Typed, TypeOK
  <2> QED
    BY <1>1, <2>1 DEF Charged, Gap, Records
<1> QED
  BY <1>1 DEF Charged

\* Time is charged as it passes, when the budget is running; no record loses any of it.
LEMMA Charging ==
  ASSUME Typed, Phases, Exclusive, ~Suffered("outer"), [Next]_vars
  PROVE  /\ Tick => /\ now' = now + 1 /\ Charged' \in {Charged, Charged + 1}
                    /\ ledger # None /\ ledger.status \in ACTIVE => Charged' = Charged + 1
         /\ ~Tick => UNCHANGED <<now, worked>> /\ Charged' = Charged
<1>t. /\ now \in Nat /\ ledger \in Records \cup {None}
      /\ ledger # None => ledger.clock \in Nat /\ ledger.charged \in Nat
  BY Parameters DEF Typed, TypeOK, Records
<1>1. CASE Tick
  <2>1. now' = now + 1 /\ ledger' = ledger
    BY <1>1 DEF Tick, disk
  <2> QED
    BY <1>t, <1>1, <2>1 DEF Charged, Gap
<1>2. CASE ~Tick
  <2>1. UNCHANGED <<now, worked>>
    BY <1>2, OnlyTicks
  <2>2. ASSUME NEW r \in Runs, Writes(r) PROVE Charged' = Charged
    <3>1. Basis(r) = ledger
      BY <2>2, Follows
    <3>2. /\ ledger' \in Records /\ ledger'.clock = now
          /\ ledger = None => ledger'.charged = 0
          /\ ledger # None => ledger'.charged = ledger.charged + Gap(ledger)
      BY <2>2, <3>1, Appends
    <3>3. ledger' # None /\ ledger'.charged \in Nat
      BY <3>2, Parameters DEF Records
    <3>4. Gap(ledger)' = 0
      BY <1>t, <2>1, <3>2 DEF Gap
    <3> QED
      BY <3>2, <3>3, <3>4 DEF Charged
  <2>3. ASSUME UNCHANGED <<ledger, spoilt>> PROVE Charged' = Charged
    <3>1. now' = now /\ ledger' = ledger
      BY <2>1, <2>3
    <3>2. Gap(ledger)' = Gap(ledger)
      BY <3>1 DEF Gap
    <3> QED
      BY <3>1, <3>2 DEF Charged
  <2> QED
    BY <1>2, <2>1, <2>2, <2>3, Steps DEF Remembers
<1> QED
  BY <1>1, <1>2

\* The watchdog is kept: one step per action.
LEMMA KeepsWatch == ASSUME Typed, Phases, Exclusive, Watchdog, [Next]_vars PROVE Watchdog'
<1> SUFFICES ASSUME ~Suffered("outer")' PROVE Watchdog'
  BY DEF Watchdog
<1>o. ~Suffered("outer")
  BY Steps DEF Remembers
<1>t. /\ now \in Nat /\ deadline \in [Runs -> Nat] /\ lock \in Runs \cup {None}
      /\ controller \in [Runs -> {"none", "open", "enter", "check", "loop", "poll",
                                  "finishing", "failing", "exited"}]
      /\ Charged \in Nat /\ Budget \in Nat /\ Grace \in Nat /\ None \notin Runs
      /\ \A r \in Runs : Phase(r)
  BY Parameters, ChargedIsNat DEF Typed, TypeOK, Phases
<1>x. \A r \in Runs : ControllerAlive(r) => lock = r
  BY <1>o DEF Exclusive
<1>w. /\ lock # None => Charged + (deadline[lock] - now) <= Budget + Grace
      /\ \A r \in Runs : ControllerAlive(r) => now <= deadline[r]
  BY <1>o DEF Watchdog
<1>n. ASSUME ~Tick PROVE now' = now /\ Charged' = Charged
  BY <1>n, <1>o, Charging
\* A step that takes no lock and starts no controller.
<1>k. ASSUME UNCHANGED now, lock' = None \/ (lock' = lock /\ deadline' = deadline),
             \A q \in Runs : ControllerAlive(q)' => ControllerAlive(q) /\ lock' = lock
      PROVE  Watchdog'
  <2>1. now' = now /\ Charged' = Charged
    <3>1. ~Tick
      BY <1>t, <1>k DEF Tick
    <3> QED
      BY <1>n, <3>1
  <2>2. lock' # None => Charged' + (deadline'[lock'] - now') <= Budget + Grace
    BY <1>k, <1>w, <2>1
  <2>3. ASSUME NEW q \in Runs, ControllerAlive(q)' PROVE now' <= deadline'[q]
    <3>1. ControllerAlive(q) /\ lock' = lock /\ lock = q /\ lock # None
      BY <1>t, <1>k, <1>x, <2>3
    <3> QED
      BY <1>k, <1>w, <2>1, <3>1
  <2> QED
    BY <2>2, <2>3 DEF Watchdog
<1>1. ASSUME Tick PROVE Watchdog'
  <2>1. /\ now' = now + 1 /\ Charged' \in {Charged, Charged + 1}
    BY <1>1, <1>o, Charging
  <2>2. UNCHANGED <<lock, outer, deadline, controller>>
    BY <1>1 DEF Tick, parent
  <2>3. lock' # None => Charged' + (deadline'[lock'] - now') <= Budget + Grace
    BY <1>t, <1>w, <2>1, <2>2
  <2>4. ASSUME NEW q \in Runs, ControllerAlive(q)' PROVE now' <= deadline'[q]
    <3>1. ControllerAlive(q)
      BY <2>2, <2>4 DEF ControllerAlive
    <3>2. outer[q] = "waiting"
      BY <1>t, <1>x, <3>1 DEF Phase
    <3>3. ~ (now >= deadline[q])
      BY <1>1, <3>1, <3>2 DEF Tick, Expired
    <3> QED
      BY <1>t, <2>1, <2>2, <3>3
  <2> QED
    BY <2>3, <2>4 DEF Watchdog
<1>2. ASSUME HostDies PROVE Watchdog'
  <2>1. UNCHANGED now /\ (lock' = None \/ (lock' = lock /\ deadline' = deadline))
    BY <1>2 DEF HostDies, MayFail, LearnerAlive, ControllerAlive, parent, child, rest, disk
  <2>2. \A q \in Runs : ~ControllerAlive(q)'
    BY <1>2, <1>t DEF HostDies, MayFail, LearnerAlive, ControllerAlive, parent, child, rest, disk
  <2> QED
    BY <1>k, <2>1, <2>2
<1>3. ASSUME NEW r \in Runs, Start(r) PROVE Watchdog'
  <2>1. /\ lock = None /\ lock' = r /\ deadline' = [deadline EXCEPT ![r] = now + Allowance + Grace]
        /\ Allowance > 0 /\ controller' = [controller EXCEPT ![r] = "open"]
        /\ UNCHANGED <<now, ledger>>
    BY <1>3 DEF Start, disk
  <2>2. Allowance = Budget - Charged
    <3>1. ledger # None => ledger.charged \in Nat /\ Gap(ledger) \in Int
      BY DEF Typed, TypeOK, Records, Gap
    <3> QED
      BY <1>t, <3>1 DEF Allowance, Remaining, Charged
  <2>3. Charged' = Charged
    BY <2>1 DEF Charged, Gap
  <2>4. deadline'[r] = now + Allowance + Grace
    BY <1>t, <2>1
  <2>5. ASSUME NEW q \in Runs, ControllerAlive(q)' PROVE q = r
    BY <1>t, <1>x, <2>1, <2>5 DEF ControllerAlive
  <2> QED
    BY <1>t, <2>1, <2>2, <2>3, <2>4, <2>5 DEF Watchdog
<1>4. ASSUME NEW r \in Runs, Return(r) PROVE Watchdog'
  <2>1. UNCHANGED now /\ (lock' = None \/ (lock' = lock /\ deadline' = deadline))
    BY <1>4 DEF Return, Release, parent, child, rest, disk, ControllerAlive
  <2>2. \A q \in Runs : ~ControllerAlive(q)'
    BY <1>4, <1>t, <1>x DEF Return, Release, parent, child, rest, disk, ControllerAlive, Phase
  <2> QED
    BY <1>k, <2>1, <2>2
<1>5. ASSUME NEW r \in Runs, KillGroup(r) PROVE Watchdog'
  <2>1. UNCHANGED now /\ (lock' = None \/ (lock' = lock /\ deadline' = deadline))
    BY <1>5
       DEF KillGroup, Kill, Release, Group, LearnerAlive, ControllerAlive, parent, child, rest,
           disk
  <2>2. \A q \in Runs : ~ControllerAlive(q)'
    BY <1>5, <1>t, <1>x
       DEF KillGroup, Kill, Release, Group, LearnerAlive, ControllerAlive, parent, child, rest,
           disk, Phase
  <2> QED
    BY <1>k, <2>1, <2>2
<1>6. ASSUME NEW r \in Runs, Interrupted(r) PROVE Watchdog'
  <2>1. UNCHANGED now /\ (lock' = None \/ (lock' = lock /\ deadline' = deadline))
    BY <1>6
       DEF Interrupted, Kill, Release, Group, LearnerAlive, ControllerAlive, MayFail, parent,
           child, rest, disk
  <2>2. \A q \in Runs : ~ControllerAlive(q)'
    BY <1>6, <1>t, <1>x
       DEF Interrupted, Kill, Release, Group, LearnerAlive, ControllerAlive, MayFail, parent,
           child, rest, disk, Phase
  <2> QED
    BY <1>k, <2>1, <2>2
<1>7. ASSUME NEW r \in Runs, OpenLedger(r) PROVE Watchdog'
  <2>1. UNCHANGED now /\ (lock' = None \/ (lock' = lock /\ deadline' = deadline))
    BY <1>7 DEF OpenLedger, Append_, parent, child, rest, disk, ControllerAlive, Become
  <2>2. \A q \in Runs : ControllerAlive(q)' => ControllerAlive(q) /\ lock' = lock
    BY <1>7, <1>t DEF OpenLedger, Append_, parent, child, rest, disk, ControllerAlive, Become
  <2> QED
    BY <1>k, <2>1, <2>2
<1>8. ASSUME NEW r \in Runs, EnterPhase(r) PROVE Watchdog'
  <2>1. UNCHANGED now /\ (lock' = None \/ (lock' = lock /\ deadline' = deadline))
    BY <1>8 DEF EnterPhase, Record, Append_, parent, child, rest, disk, ControllerAlive, Become
  <2>2. \A q \in Runs : ControllerAlive(q)' => ControllerAlive(q) /\ lock' = lock
    BY <1>8, <1>t
       DEF EnterPhase, Record, Append_, parent, child, rest, disk, ControllerAlive, Become
  <2> QED
    BY <1>k, <2>1, <2>2
<1>9. ASSUME NEW r \in Runs, Refuse(r) PROVE Watchdog'
  <2>1. UNCHANGED now /\ (lock' = None \/ (lock' = lock /\ deadline' = deadline))
    BY <1>9 DEF Refuse, parent, child, rest, disk, ControllerAlive, Become
  <2>2. \A q \in Runs : ControllerAlive(q)' => ControllerAlive(q) /\ lock' = lock
    BY <1>9, <1>t DEF Refuse, parent, child, rest, disk, ControllerAlive, Become
  <2> QED
    BY <1>k, <2>1, <2>2
<1>10. ASSUME NEW r \in Runs, StartLearner(r) PROVE Watchdog'
  <2>1. UNCHANGED now /\ (lock' = None \/ (lock' = lock /\ deadline' = deadline))
    BY <1>10 DEF StartLearner, parent, child, rest, disk, ControllerAlive, Become
  <2>2. \A q \in Runs : ControllerAlive(q)' => ControllerAlive(q) /\ lock' = lock
    BY <1>10, <1>t DEF StartLearner, parent, child, rest, disk, ControllerAlive, Become
  <2> QED
    BY <1>k, <2>1, <2>2
<1>11. ASSUME NEW r \in Runs, Exhausted(r) PROVE Watchdog'
  <2>1. UNCHANGED now /\ (lock' = None \/ (lock' = lock /\ deadline' = deadline))
    BY <1>11 DEF Exhausted, parent, child, rest, disk, ControllerAlive, Become
  <2>2. \A q \in Runs : ControllerAlive(q)' => ControllerAlive(q) /\ lock' = lock
    BY <1>11, <1>t DEF Exhausted, parent, child, rest, disk, ControllerAlive, Become
  <2> QED
    BY <1>k, <2>1, <2>2
<1>12. ASSUME NEW r \in Runs, Heartbeat(r) PROVE Watchdog'
  <2>1. UNCHANGED now /\ (lock' = None \/ (lock' = lock /\ deadline' = deadline))
    BY <1>12 DEF Heartbeat, Record, Append_, parent, child, rest, disk, ControllerAlive, Become
  <2>2. \A q \in Runs : ControllerAlive(q)' => ControllerAlive(q) /\ lock' = lock
    BY <1>12, <1>t
       DEF Heartbeat, Record, Append_, parent, child, rest, disk, ControllerAlive, Become
  <2> QED
    BY <1>k, <2>1, <2>2
<1>13. ASSUME NEW r \in Runs, NoHeartbeat(r) PROVE Watchdog'
  <2>1. UNCHANGED now /\ (lock' = None \/ (lock' = lock /\ deadline' = deadline))
    BY <1>13 DEF NoHeartbeat, parent, child, rest, disk, ControllerAlive, Become
  <2>2. \A q \in Runs : ControllerAlive(q)' => ControllerAlive(q) /\ lock' = lock
    BY <1>13, <1>t DEF NoHeartbeat, parent, child, rest, disk, ControllerAlive, Become
  <2> QED
    BY <1>k, <2>1, <2>2
<1>14. ASSUME NEW r \in Runs, StillRuns(r) PROVE Watchdog'
  <2>1. UNCHANGED now /\ (lock' = None \/ (lock' = lock /\ deadline' = deadline))
    BY <1>14 DEF StillRuns, LearnerAlive, parent, child, rest, disk, ControllerAlive, Become
  <2>2. \A q \in Runs : ControllerAlive(q)' => ControllerAlive(q) /\ lock' = lock
    BY <1>14, <1>t DEF StillRuns, LearnerAlive, parent, child, rest, disk, ControllerAlive, Become
  <2> QED
    BY <1>k, <2>1, <2>2
<1>15. ASSUME NEW r \in Runs, LearnerGone(r) PROVE Watchdog'
  <2>1. UNCHANGED now /\ (lock' = None \/ (lock' = lock /\ deadline' = deadline))
    BY <1>15 DEF LearnerGone, LearnerAlive, parent, child, rest, disk, ControllerAlive, Become
  <2>2. \A q \in Runs : ControllerAlive(q)' => ControllerAlive(q) /\ lock' = lock
    BY <1>15, <1>t
       DEF LearnerGone, LearnerAlive, parent, child, rest, disk, ControllerAlive, Become
  <2> QED
    BY <1>k, <2>1, <2>2
<1>16. ASSUME NEW r \in Runs, HandlePhase(r) PROVE Watchdog'
  <2>1. UNCHANGED now /\ (lock' = None \/ (lock' = lock /\ deadline' = deadline))
    BY <1>16
       DEF HandlePhase, Record, Append_, Reply, LearnerAlive, parent, child, rest, disk,
           ControllerAlive, Become
  <2>2. \A q \in Runs : ControllerAlive(q)' => ControllerAlive(q) /\ lock' = lock
    BY <1>16, <1>t
       DEF HandlePhase, Record, Append_, Reply, LearnerAlive, parent, child, rest, disk,
           ControllerAlive, Become
  <2> QED
    BY <1>k, <2>1, <2>2
<1>17. ASSUME NEW r \in Runs, HandleReport(r) PROVE Watchdog'
  <2>1. UNCHANGED now /\ (lock' = None \/ (lock' = lock /\ deadline' = deadline))
    BY <1>17
       DEF HandleReport, Reply, LearnerAlive, parent, child, rest, disk, ControllerAlive, Become
  <2>2. \A q \in Runs : ControllerAlive(q)' => ControllerAlive(q) /\ lock' = lock
    BY <1>17, <1>t
       DEF HandleReport, Reply, LearnerAlive, parent, child, rest, disk, ControllerAlive, Become
  <2> QED
    BY <1>k, <2>1, <2>2
<1>18. ASSUME NEW r \in Runs, HandleDone(r) PROVE Watchdog'
  <2>1. UNCHANGED now /\ (lock' = None \/ (lock' = lock /\ deadline' = deadline))
    BY <1>18 DEF HandleDone, parent, child, rest, disk, ControllerAlive, Become
  <2>2. \A q \in Runs : ControllerAlive(q)' => ControllerAlive(q) /\ lock' = lock
    BY <1>18, <1>t DEF HandleDone, parent, child, rest, disk, ControllerAlive, Become
  <2> QED
    BY <1>k, <2>1, <2>2
<1>19. ASSUME NEW r \in Runs, Close(r) PROVE Watchdog'
  <2>1. UNCHANGED now /\ (lock' = None \/ (lock' = lock /\ deadline' = deadline))
    BY <1>19
       DEF Close, Record, Append_, LearnerAlive, parent, child, rest, disk, ControllerAlive,
           Become
  <2>2. \A q \in Runs : ControllerAlive(q)' => ControllerAlive(q) /\ lock' = lock
    BY <1>19, <1>t
       DEF Close, Record, Append_, LearnerAlive, parent, child, rest, disk, ControllerAlive,
           Become
  <2> QED
    BY <1>k, <2>1, <2>2
<1>20. ASSUME NEW r \in Runs, LearnerStarts(r) PROVE Watchdog'
  <2>1. UNCHANGED now /\ (lock' = None \/ (lock' = lock /\ deadline' = deadline))
    BY <1>20 DEF LearnerStarts, parent, child, rest, disk, ControllerAlive
  <2>2. \A q \in Runs : ControllerAlive(q)' => ControllerAlive(q) /\ lock' = lock
    BY <1>20, <1>t DEF LearnerStarts, parent, child, rest, disk, ControllerAlive
  <2> QED
    BY <1>k, <2>1, <2>2
<1>21. ASSUME NEW r \in Runs, AsksToSave(r) PROVE Watchdog'
  <2>1. UNCHANGED now /\ (lock' = None \/ (lock' = lock /\ deadline' = deadline))
    BY <1>21 DEF AsksToSave, Send, ControllerAlive, parent, child, rest, disk
  <2>2. \A q \in Runs : ControllerAlive(q)' => ControllerAlive(q) /\ lock' = lock
    BY <1>21, <1>t DEF AsksToSave, Send, ControllerAlive, parent, child, rest, disk
  <2> QED
    BY <1>k, <2>1, <2>2
<1>22. ASSUME NEW r \in Runs, AsksToTrain(r) PROVE Watchdog'
  <2>1. UNCHANGED now /\ (lock' = None \/ (lock' = lock /\ deadline' = deadline))
    BY <1>22 DEF AsksToTrain, Send, ControllerAlive, parent, child, rest, disk
  <2>2. \A q \in Runs : ControllerAlive(q)' => ControllerAlive(q) /\ lock' = lock
    BY <1>22, <1>t DEF AsksToTrain, Send, ControllerAlive, parent, child, rest, disk
  <2> QED
    BY <1>k, <2>1, <2>2
<1>23. ASSUME NEW r \in Runs, LearnerDone(r) PROVE Watchdog'
  <2>1. UNCHANGED now /\ (lock' = None \/ (lock' = lock /\ deadline' = deadline))
    BY <1>23 DEF LearnerDone, Send, ControllerAlive, parent, child, rest, disk
  <2>2. \A q \in Runs : ControllerAlive(q)' => ControllerAlive(q) /\ lock' = lock
    BY <1>23, <1>t DEF LearnerDone, Send, ControllerAlive, parent, child, rest, disk
  <2> QED
    BY <1>k, <2>1, <2>2
<1>24. ASSUME NEW r \in Runs, Trains(r) PROVE Watchdog'
  <2>1. UNCHANGED now /\ (lock' = None \/ (lock' = lock /\ deadline' = deadline))
    BY <1>24 DEF Trains, Send, ControllerAlive, parent, child, rest, disk
  <2>2. \A q \in Runs : ControllerAlive(q)' => ControllerAlive(q) /\ lock' = lock
    BY <1>24, <1>t DEF Trains, Send, ControllerAlive, parent, child, rest, disk
  <2> QED
    BY <1>k, <2>1, <2>2
<1>25. ASSUME NEW r \in Runs, Saves(r) PROVE Watchdog'
  <2>1. UNCHANGED now /\ (lock' = None \/ (lock' = lock /\ deadline' = deadline))
    BY <1>25 DEF Saves, Send, ControllerAlive, parent, child, rest, disk
  <2>2. \A q \in Runs : ControllerAlive(q)' => ControllerAlive(q) /\ lock' = lock
    BY <1>25, <1>t DEF Saves, Send, ControllerAlive, parent, child, rest, disk
  <2> QED
    BY <1>k, <2>1, <2>2
<1>26. ASSUME NEW r \in Runs, PipeEnds(r) PROVE Watchdog'
  <2>1. UNCHANGED now /\ (lock' = None \/ (lock' = lock /\ deadline' = deadline))
    BY <1>26 DEF PipeEnds, ControllerAlive, parent, child, rest, disk
  <2>2. \A q \in Runs : ControllerAlive(q)' => ControllerAlive(q) /\ lock' = lock
    BY <1>26, <1>t DEF PipeEnds, ControllerAlive, parent, child, rest, disk
  <2> QED
    BY <1>k, <2>1, <2>2
<1>27. ASSUME NEW r \in Runs, LearnerDies(r) PROVE Watchdog'
  <2>1. UNCHANGED now /\ (lock' = None \/ (lock' = lock /\ deadline' = deadline))
    BY <1>27 DEF LearnerDies, MayFail, LearnerAlive, parent, child, rest, disk, ControllerAlive
  <2>2. \A q \in Runs : ControllerAlive(q)' => ControllerAlive(q) /\ lock' = lock
    BY <1>27, <1>t
       DEF LearnerDies, MayFail, LearnerAlive, parent, child, rest, disk, ControllerAlive
  <2> QED
    BY <1>k, <2>1, <2>2
<1>28. ASSUME NEW r \in Runs, ControllerDies(r) PROVE Watchdog'
  <2>1. UNCHANGED now /\ (lock' = None \/ (lock' = lock /\ deadline' = deadline))
    BY <1>28 DEF ControllerDies, MayFail, ControllerAlive, Become, parent, child, rest, disk
  <2>2. \A q \in Runs : ControllerAlive(q)' => ControllerAlive(q) /\ lock' = lock
    BY <1>28, <1>t DEF ControllerDies, MayFail, ControllerAlive, Become, parent, child, rest, disk
  <2> QED
    BY <1>k, <2>1, <2>2
<1>29. ASSUME NEW r \in Runs, OuterDies(r) PROVE Watchdog'
  <2>1. Suffered("outer")'
    BY <1>29, Failing DEF OuterDies, Typed
  <2> QED
    BY <2>1
<1>30. ASSUME UNCHANGED vars PROVE Watchdog'
  <2>1. UNCHANGED now /\ (lock' = None \/ (lock' = lock /\ deadline' = deadline))
    BY <1>30 DEF vars, parent, child, rest, disk, ControllerAlive
  <2>2. \A q \in Runs : ControllerAlive(q)' => ControllerAlive(q) /\ lock' = lock
    BY <1>30, <1>t DEF vars, parent, child, rest, disk, ControllerAlive
  <2> QED
    BY <1>k, <2>1, <2>2
<1> QED
  BY <1>1, <1>2, <1>3, <1>4, <1>5, <1>6, <1>7, <1>8, <1>9, <1>10, <1>11, <1>12, <1>13,
     <1>14, <1>15, <1>16, <1>17, <1>18, <1>19, <1>20, <1>21, <1>22, <1>23, <1>24, <1>25,
     <1>26, <1>27, <1>28, <1>29, <1>30 DEF Next, Controller, Learner

\* Charge and allowance together stay within the budget and the grace.
THEOREM WatchInvariance == Spec => []Watchdog
<1>1. Init => Watchdog
  BY DEF Init, Watchdog, ControllerAlive
<1>2. Typed /\ Phases /\ (Opened /\ Exclusive /\ Attended /\ Running) /\ Watchdog /\ [Next]_vars
        => Watchdog'
  BY KeepsWatch
<1> QED
  BY <1>1, <1>2, PhaseInvariance, OwnershipInvariance, PTL DEF Spec

\* A tick with a learner alive is charged and within the deadline.
LEMMA KeepsAccounts ==
  ASSUME Typed, Phases, Opened, Exclusive, Attended, Running, Watchdog, Accounts, [Next]_vars
  PROVE  Accounts'
<1> SUFFICES ASSUME NoOrphans' PROVE Accounts'
  BY DEF Accounts
<1>o. NoOrphans
  BY Steps DEF Remembers, NoOrphans
<1>t. now \in Nat /\ worked \in Nat /\ Charged \in Nat /\ deadline \in [Runs -> Nat]
      /\ Budget \in Nat /\ Grace \in Nat /\ \A r \in Runs : Phase(r) /\ r # None
  BY Parameters, ChargedIsNat DEF Typed, TypeOK, Phases
<1>a. worked <= Charged /\ worked <= Budget + Grace
  BY <1>o DEF Accounts
<1>1. CASE ~Tick
  BY <1>1, <1>a, <1>o, Charging DEF Accounts, NoOrphans
<1>2. CASE Tick /\ ~ \E r \in Runs : LearnerAlive(r)
  <2>1. worked' = worked /\ Charged' \in {Charged, Charged + 1}
    BY <1>2, <1>o, <1>t, Charging DEF Tick, NoOrphans
  <2> QED
    BY <1>a, <1>t, <2>1 DEF Accounts
<1>3. CASE Tick /\ \E r \in Runs : LearnerAlive(r)
  <2>1. PICK r \in Runs : LearnerAlive(r)
    BY <1>3
  <2>2. ControllerAlive(r) /\ lock = r
    BY <1>o, <2>1 DEF NoOrphans, Attended, Exclusive
  <2>3. controller[r] \notin {"none", "open", "enter", "check", "exited"}
    BY <1>t, <2>1, <2>2 DEF Phase, LearnerAlive, ControllerAlive
  <2>4. memory[r] = ledger /\ memory[r].status \in ACTIVE /\ ledger # None
    <3>1. controller[r] \in {"loop", "poll", "finishing", "failing"}
      BY <2>3 DEF Typed, TypeOK
    <3> QED
      BY <1>o, <1>t, <2>2, <3>1 DEF NoOrphans, Exclusive, Running, Phase
  <2>5. worked' = worked + 1 /\ Charged' = Charged + 1
    BY <1>3, <1>o, <2>4, Charging DEF Tick, NoOrphans
  <2>6. now < deadline[r]
    <3>1. outer[r] = "waiting"
      BY <1>t, <2>2 DEF Phase
    <3>2. ~ (now >= deadline[r])
      BY <1>3, <2>2, <3>1 DEF Tick, Expired
    <3> QED
      BY <1>t, <3>2
  <2>7. Charged + (deadline[r] - now) <= Budget + Grace
    BY <1>o, <1>t, <2>2 DEF Watchdog, NoOrphans
  <2>8. deadline[r] \in Nat
    BY <1>t
  <2> QED
    BY <1>a, <1>t, <2>5, <2>6, <2>7, <2>8 DEF Accounts
<1> QED
  BY <1>1, <1>2, <1>3

\* The work is charged, and within the budget and the grace.
THEOREM AccountInvariance == Spec => []Accounts
<1>1. Init => Accounts
  BY Parameters DEF Init, Accounts, Charged
<1>2. Typed /\ Phases /\ (Opened /\ Exclusive /\ Attended /\ Running) /\ Watchdog /\ Accounts
        /\ [Next]_vars => Accounts'
  BY KeepsAccounts
<1> QED
  BY <1>1, <1>2, PhaseInvariance, OwnershipInvariance, WatchInvariance, PTL DEF Spec

\* No time with a learner at work goes uncharged, wherever the run is interrupted: while a
\* learner lives the ledger says the budget is running, and no record or reopening loses the gap.
\* (BudgetLedger._record, BudgetLedger.__init__)
THEOREM NoRefundHolds == Spec => []NoRefund
<1>1. Accounts => NoRefund
  BY DEF Accounts, NoRefund, Charged
<1> QED
  BY <1>1, AccountInvariance, PTL

\* However often the run is interrupted and resumed, its learners together get the frozen budget
\* and the grace of one watchdog. (run_training, remaining_on_disk)
THEOREM BudgetHoldsAlways == Spec => []BudgetHolds
<1>1. Accounts => BudgetHolds
  BY DEF Accounts, BudgetHolds
<1> QED
  BY <1>1, AccountInvariance, PTL

\* The budget of a run: all its work is charged and its learners stay within it.
\* (run_training, BudgetLedger)
THEOREM AccountingHolds == Spec => []Accounting
<1>1. TypeOK /\ NoRefund /\ BudgetHolds => Accounting
  BY DEF Accounting
<1> QED
  BY <1>1, TypeInvariance, NoRefundHolds, BudgetHoldsAlways, PTL
=============================================================================
