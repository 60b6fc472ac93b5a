------------------------- MODULE ContainerRunnerProofs -------------------------
(* Proofs about ContainerRunner for every set of calls, names and containers. *)
EXTENDS ContainerRunner, FiniteSetTheorems, TLAPS

\* What the proofs need to know of the constants.
LEMMA Constants ==
  /\ RoleCalls \subseteq Calls
  /\ None # Deadline /\ None # Interrupted /\ Deadline # Interrupted
  /\ None \notin Services /\ Deadline \notin Services /\ Interrupted \notin Services
  /\ Services \subseteq Nat /\ IsFiniteSet(Services)
  /\ Workers \in Nat \ {0} /\ MaxCrashes \in Nat /\ MaxFaults \in Nat
<1>1. /\ RoleCalls \subseteq Calls /\ Workers \in Nat \ {0}
      /\ MaxServices \in Nat /\ MaxCrashes \in Nat /\ MaxFaults \in Nat
      /\ Cardinality({None, Deadline, Interrupted}) = 3
      /\ {None, Deadline, Interrupted} \cap Services = {}
  BY RunnerAssumption DEF RunnerAssumption
<1>2. ASSUME NEW x, NEW y PROVE IsFiniteSet({x, y}) /\ Cardinality({x, y}) <= 2
  <2>1. {x, y} = {x} \cup {y} /\ IsFiniteSet({x}) /\ Cardinality({x}) = 1
    BY FS_Singleton
  <2>2. /\ IsFiniteSet({x} \cup {y})
        /\ Cardinality({x} \cup {y}) = IF y \in {x} THEN Cardinality({x}) ELSE Cardinality({x}) + 1
    BY <2>1, FS_AddElement
  <2> QED
    BY <2>1, <2>2
<1>3. None # Deadline /\ None # Interrupted /\ Deadline # Interrupted
  <2>1. ASSUME None = Deadline \/ None = Interrupted PROVE FALSE
    <3>1. {None, Deadline, Interrupted} = {Deadline, Interrupted}
      BY <2>1
    <3>2. Cardinality({Deadline, Interrupted}) <= 2
      BY <1>2
    <3> QED
      BY <1>1, <3>1, <3>2
  <2>2. ASSUME Deadline = Interrupted PROVE FALSE
    <3>1. {None, Deadline, Interrupted} = {None, Interrupted}
      BY <2>2
    <3>2. Cardinality({None, Interrupted}) <= 2
      BY <1>2
    <3> QED
      BY <1>1, <3>1, <3>2
  <2> QED
    BY <2>1, <2>2
<1>4. IsFiniteSet(Services) /\ Services \subseteq Nat
  BY <1>1, FS_Interval DEF Services
<1> QED
  BY <1>1, <1>3, <1>4

(***************************************************************************)
(* Types.  A call at work has an identity and holds a container exactly    *)
(* while it polls or fails.                                                *)
(***************************************************************************)
CallsTyped ==
  /\ call \in [Calls -> CallRecords]
  /\ \A c \in Calls : /\ Active(c) => call[c].id \in Requests
                      /\ call[c].slot # None <=> call[c].pc \in {"polling", "failing"}
ServicesTyped == service \in [Services -> ServiceRecords] /\ slots \subseteq Services
HostTyped ==
  /\ host \in 0 .. MaxCrashes /\ faults \in Nat /\ maintenance \in Nat /\ spawning \in Nat
  /\ issued \subseteq Requests /\ futures \subseteq RoleCalls
  /\ completed \in [Requests -> Values] /\ file \in [Requests -> Values]
  /\ runner \in RunnerStates /\ role \in Roles /\ runs \in [Requests -> Nat]
Typed == CallsTyped /\ ServicesTyped /\ HostTyped

\* A container's record keeps its type under the updates the actions make.
LEMMA ServiceUpdates ==
  ASSUME NEW k \in ServiceRecords
  PROVE  /\ k.inputs \subseteq Requests /\ k.seen \subseteq Requests /\ k.outputs \subseteq Requests
         /\ \A x \in ServiceStates : [k EXCEPT !.state = x] \in ServiceRecords
         /\ \A b \in BOOLEAN : /\ [k EXCEPT !.up = b] \in ServiceRecords
                               /\ [k EXCEPT !.client = b] \in ServiceRecords
                               /\ [k EXCEPT !.ready = b] \in ServiceRecords
                               /\ [k EXCEPT !.reclaimed = b] \in ServiceRecords
         /\ \A R \in SUBSET Requests : /\ [k EXCEPT !.inputs = R] \in ServiceRecords
                                       /\ [k EXCEPT !.seen = R] \in ServiceRecords
                                       /\ [k EXCEPT !.outputs = R] \in ServiceRecords
BY DEF ServiceRecords

\* The containers that the actions make up are containers.
LEMMA Built ==
  /\ NoService \in ServiceRecords /\ Reclaimed \in ServiceRecords
  /\ Spawned("starting") \in ServiceRecords /\ Spawned("replacing") \in ServiceRecords
<1>1. NoService \in ServiceRecords
  BY DEF NoService, ServiceRecords, ServiceStates
<1> QED
  BY <1>1, ServiceUpdates DEF Reclaimed, Spawned, ServiceStates

\* A call that ended is a call.
LEMMA Ending ==
  ASSUME NEW x \in {"done", "raised"}, NEW r \in Requests \cup {None}, NEW v \in Values
  PROVE  /\ End(x, r, v) \in CallRecords
         /\ End(x, r, v).pc = x /\ End(x, r, v).slot = None
         /\ End(x, r, v).id = r /\ End(x, r, v).value = v
BY DEF End, NoCall, CallRecords, CallStates

\* Every call has an identity in every process of the host.
LEMMA Identified == ASSUME Typed, NEW c \in Calls PROVE Id(c) \in Requests
BY Constants DEF Typed, HostTyped, Id, Requests

\* A repeated call ends at once, with the record, with "interrupted" or with an error.
LEMMA Repeated ==
  ASSUME Typed, NEW c \in Calls, Repeat(c)
  PROVE  \E k \in CallRecords :
           /\ k.pc \in {"done", "raised"} /\ k.slot = None
           /\ k.pc = "done" => /\ k.id = Id(c) /\ Id(c) \in issued
                               /\ k.value = IF completed[Id(c)] # None THEN file[Id(c)]
                                                                      ELSE Interrupted
           /\ call' = [call EXCEPT ![c] = k]
<1>1. Id(c) \in Requests /\ file[Id(c)] \in Values /\ {None, Interrupted} \subseteq Values
  BY Identified DEF Typed, HostTyped, Values
<1>2. Id(c) \in issued
  BY DEF Repeat
<1>3. CASE call' = [call EXCEPT ![c] = End("raised", None, None)]
  <2>1. LET k == End("raised", None, None) IN k \in CallRecords /\ k.pc = "raised" /\ k.slot = None
    BY <1>1, Ending
  <2> QED
    BY <1>3, <2>1
<1>4. ASSUME NEW v \in Values, call' = [call EXCEPT ![c] = End("done", Id(c), v)],
             v = IF completed[Id(c)] # None THEN file[Id(c)] ELSE Interrupted
      PROVE  \E k \in CallRecords :
               /\ k.pc \in {"done", "raised"} /\ k.slot = None
               /\ k.pc = "done" => /\ k.id = Id(c) /\ Id(c) \in issued
                                   /\ k.value = IF completed[Id(c)] # None THEN file[Id(c)]
                                                                         ELSE Interrupted
               /\ call' = [call EXCEPT ![c] = k]
  <2>1. LET k == End("done", Id(c), v)
        IN  k \in CallRecords /\ k.pc = "done" /\ k.slot = None /\ k.id = Id(c) /\ k.value = v
    BY <1>1, Ending
  <2> QED
    BY <1>2, <1>4, <2>1
<1> QED
  BY <1>1, <1>3, <1>4 DEF Repeat, Raise

\* A set of containers that a failed removal leaves is counted in Nat.
LEMMA Counted == \A S \in SUBSET Services : Cardinality(S) \in Nat
BY Constants, FS_Subset, FS_CardinalityType

\* Every variable keeps its type.
THEOREM TypeInvariance == Spec => []Typed
<1>1. Init => Typed
  BY Constants, Built DEF Init, Typed, CallsTyped, ServicesTyped, HostTyped, NoCall, CallRecords,
     CallStates, Active, RunnerStates, Roles, Values, repair, durable, roles
<1>2. Typed /\ [Next]_vars => Typed'
  <2> SUFFICES ASSUME Typed, [Next]_vars PROVE Typed'
    OBVIOUS
  <2> USE Constants DEF durable, roles, repair
  <2>1. ASSUME NEW c \in Calls, Issue(c) PROVE Typed'
    <3>0. /\ Id(c) \in Requests /\ ~Active(c)
          /\ issued' = issued \cup {Id(c)} /\ UNCHANGED <<completed, file, service>>
          /\ UNCHANGED <<host, slots, repair, runner, roles, runs, faults>>
          /\ call' = [call EXCEPT ![c] = [@ EXCEPT !.pc = "waiting", !.id = Id(c), !.value =
             Deadline]]
      BY <2>1, Identified DEF Issue, MayBegin, Active
    <3>1. CallsTyped'
      BY <2>1, <3>0, Identified DEF Typed, CallsTyped, CallRecords, CallStates, Values, Active
    <3>2. ServicesTyped'
      BY <2>1, <3>0 DEF Typed, ServicesTyped
    <3>3. HostTyped'
      BY <2>1, <3>0 DEF Typed, HostTyped, RunnerStates, Roles, Values
    <3> QED
      BY <3>1, <3>2, <3>3 DEF Typed
  <2>2. ASSUME NEW c \in Calls, Repeat(c) PROVE Typed'
    <3>0. PICK k \in CallRecords : /\ k.pc \in {"done", "raised"} /\ k.slot = None
                                   /\ call' = [call EXCEPT ![c] = k]
      BY <2>2, Repeated
    <3>1. CallsTyped'
      BY <3>0 DEF Typed, CallsTyped, Active
    <3>2. ServicesTyped'
      BY <2>2, <3>0 DEF Typed, Repeat, MayBegin, End, Raise, ServicesTyped
    <3>3. HostTyped'
      BY <2>2, <3>0
         DEF Typed, Repeat, MayBegin, End, Raise, HostTyped, RunnerStates, Roles, Values
    <3> QED
      BY <3>1, <3>2, <3>3 DEF Typed
  <2>3. ASSUME NEW c \in Calls, Take(c) PROVE Typed'
    <3>0. PICK s \in slots :
            /\ slots' = slots \ {s} /\ s \in Services
            /\ call' = [call EXCEPT ![c].pc = "polling", ![c].slot = s]
            /\ service' = [service EXCEPT ![s].inputs = @ \cup {call[c].id}]
            /\ service[s].inputs \cup {call[c].id} \in SUBSET Requests
      BY <2>3, ServiceUpdates DEF Typed, Take, ServicesTyped, CallsTyped, Active
    <3>1. CallsTyped'
      BY <2>3, <3>0 DEF Typed, Take, CallsTyped, CallRecords, CallStates, Values, Active
    <3>2. ServicesTyped'
      BY <2>3, <3>0, ServiceUpdates, Built DEF Typed, Take, ServicesTyped, ServiceStates,
         CallsTyped, CallRecords, Active
    <3>3. HostTyped'
      BY <2>3, <3>0 DEF Typed, Take, HostTyped, RunnerStates, Roles, Values
    <3> QED
      BY <3>1, <3>2, <3>3 DEF Typed
  <2>4. ASSUME NEW c \in Calls, NoSlot(c) PROVE Typed'
    <3>1. CallsTyped'
      BY <2>4 DEF Typed, NoSlot, Goto, CallsTyped, CallRecords, CallStates, Values, Active
    <3>2. ServicesTyped'
      BY <2>4 DEF Typed, NoSlot, Goto, ServicesTyped
    <3>3. HostTyped'
      BY <2>4 DEF Typed, NoSlot, Goto, HostTyped, RunnerStates, Roles, Values
    <3> QED
      BY <3>1, <3>2, <3>3 DEF Typed
  <2>5. ASSUME NEW c \in Calls, Answer(c) PROVE Typed'
    <3>1. CallsTyped'
      BY <2>5 DEF Typed, Answer, Tidy, CallsTyped, CallRecords, CallStates, Values, Active
    <3>2. ServicesTyped'
      BY <2>5, ServiceUpdates, Built DEF Typed, Answer, Tidy, ServicesTyped, ServiceStates,
         CallsTyped, CallRecords, Active
    <3>3. HostTyped'
      BY <2>5 DEF Typed, Answer, Tidy, HostTyped, RunnerStates, Roles, Values
    <3> QED
      BY <3>1, <3>2, <3>3 DEF Typed
  <2>6. ASSUME NEW c \in Calls, NoAnswer(c) PROVE Typed'
    <3>1. CallsTyped'
      BY <2>6 DEF Typed, NoAnswer, Goto, CallsTyped, CallRecords, CallStates, Values, Active
    <3>2. ServicesTyped'
      BY <2>6 DEF Typed, NoAnswer, Goto, ServicesTyped
    <3>3. HostTyped'
      BY <2>6 DEF Typed, NoAnswer, Goto, HostTyped, RunnerStates, Roles, Values
    <3> QED
      BY <3>1, <3>2, <3>3 DEF Typed
  <2>7. ASSUME NEW c \in Calls, TimedOut(c) PROVE Typed'
    <3>0. \/ service' = [service EXCEPT ![call[c].slot] = Reclaimed]
          \/ \E x \in ServiceStates :
               service' = [service EXCEPT ![call[c].slot].client = FALSE, ![call[c].slot].state =
                  x]
      <4>1. CASE service' = [service EXCEPT ![call[c].slot] = Reclaimed]
        BY <4>1
      <4>2. CASE ReclaimFails(call[c].slot, service[call[c].slot].state)
        <5>1. call[c].slot \in Services
          BY <2>7 DEF TimedOut, Typed, CallsTyped, CallRecords
        <5>2. service[call[c].slot].state \in ServiceStates
          BY <5>1 DEF Typed, ServicesTyped, ServiceRecords
        <5> QED
          BY <4>2, <5>2 DEF ReclaimFails
      <4> QED
        BY <2>7, <4>1, <4>2 DEF TimedOut, Reclaim
    <3>1. CallsTyped'
      BY <2>7
         DEF Typed, TimedOut, Reclaim, ReclaimFails, Goto, CallsTyped, CallRecords, CallStates,
         Values, Active
    <3>2. ServicesTyped'
      <4>1. UNCHANGED slots
        BY <2>7 DEF TimedOut
      <4>2. service' \in [Services -> ServiceRecords]
        <5>1. service \in [Services -> ServiceRecords] /\ "unreaped" \in ServiceStates
          BY DEF Typed, ServicesTyped, ServiceStates
        <5>2. CASE service' = [service EXCEPT ![call[c].slot] = Reclaimed]
          BY <5>1, <5>2, Built
        <5>3. ASSUME NEW x \in ServiceStates,
                     service' = [service EXCEPT ![call[c].slot].client = FALSE,
                        ![call[c].slot].state = x]
              PROVE  service' \in [Services -> ServiceRecords]
          BY <5>1, <5>3, ServiceUpdates
        <5> QED
          BY <3>0, <5>1, <5>2, <5>3
      <4> QED
        BY <4>1, <4>2 DEF Typed, ServicesTyped
    <3>3. HostTyped'
      BY <2>7 DEF Typed, TimedOut, Reclaim, ReclaimFails, Goto, HostTyped, RunnerStates, Roles,
         Values
    <3> QED
      BY <3>1, <3>2, <3>3 DEF Typed
  <2>8. ASSUME NEW c \in Calls, Fail(c) PROVE Typed'
    <3>0. \/ service' = [service EXCEPT ![call[c].slot] = Reclaimed]
          \/ \E x \in ServiceStates :
               service' = [service EXCEPT ![call[c].slot].client = FALSE, ![call[c].slot].state =
                  x]
      <4>1. CASE service' = [service EXCEPT ![call[c].slot] = Reclaimed]
        BY <4>1
      <4>2. CASE ReclaimFails(call[c].slot, service[call[c].slot].state)
        <5>1. call[c].slot \in Services
          BY <2>8 DEF Fail, Typed, CallsTyped, CallRecords
        <5>2. service[call[c].slot].state \in ServiceStates
          BY <5>1 DEF Typed, ServicesTyped, ServiceRecords
        <5> QED
          BY <4>2, <5>2 DEF ReclaimFails
      <4> QED
        BY <2>8, <4>1, <4>2 DEF Fail, Reclaim
    <3>1. CallsTyped'
      BY <2>8 DEF Typed, Fail, Raise, End, Reclaim, ReclaimFails, CallsTyped, CallRecords,
         CallStates, Values, Active, NoCall
    <3>2. ServicesTyped'
      <4>1. slots' \subseteq Services
        <5>1. call[c].slot \in Services /\ slots \subseteq Services
          BY <2>8 DEF Fail, Typed, CallsTyped, ServicesTyped, CallRecords
        <5>2. slots' = slots \/ slots' = slots \cup {call[c].slot}
          BY <2>8 DEF Fail
        <5> QED
          BY <5>1, <5>2
      <4>2. service' \in [Services -> ServiceRecords]
        <5>1. service \in [Services -> ServiceRecords] /\ "unreaped" \in ServiceStates
          BY DEF Typed, ServicesTyped, ServiceStates
        <5>2. CASE service' = [service EXCEPT ![call[c].slot] = Reclaimed]
          BY <5>1, <5>2, Built
        <5>3. ASSUME NEW x \in ServiceStates,
                     service' = [service EXCEPT ![call[c].slot].client = FALSE,
                        ![call[c].slot].state = x]
              PROVE  service' \in [Services -> ServiceRecords]
          BY <5>1, <5>3, ServiceUpdates
        <5> QED
          BY <3>0, <5>1, <5>2, <5>3
      <4> QED
        BY <4>1, <4>2 DEF Typed, ServicesTyped
    <3>3. HostTyped'
      BY <2>8 DEF Typed, Fail, Raise, End, Reclaim, ReclaimFails, HostTyped, RunnerStates, Roles,
         Values
    <3> QED
      BY <3>1, <3>2, <3>3 DEF Typed
  <2>9. ASSUME NEW c \in Calls, WriteResult(c) PROVE Typed'
    <3>1. CallsTyped'
      BY <2>9 DEF Typed, WriteResult, Goto, CallsTyped, CallRecords, CallStates, Values, Active
    <3>2. ServicesTyped'
      BY <2>9 DEF Typed, WriteResult, Goto, ServicesTyped
    <3>3. HostTyped'
      BY <2>9 DEF Typed, WriteResult, Goto, HostTyped, RunnerStates, Roles, Values, CallsTyped,
         CallRecords
    <3> QED
      BY <3>1, <3>2, <3>3 DEF Typed
  <2>10. ASSUME NEW c \in Calls, Complete(c) PROVE Typed'
    <3>1. CallsTyped'
      BY <2>10
         DEF Typed, Complete, End, CallsTyped, CallRecords, CallStates, Values, Active, NoCall
    <3>2. ServicesTyped'
      BY <2>10 DEF Typed, Complete, End, ServicesTyped
    <3>3. HostTyped'
      BY <2>10 DEF Typed, Complete, End, HostTyped, RunnerStates, Roles, Values, CallsTyped,
         CallRecords
    <3> QED
      BY <3>1, <3>2, <3>3 DEF Typed
  <2>11. ASSUME NEW c \in Calls, Submit(c) PROVE Typed'
    <3>1. CallsTyped'
      BY <2>11 DEF Typed, Submit, Goto, CallsTyped, CallRecords, CallStates, Values, Active
    <3>2. ServicesTyped'
      BY <2>11 DEF Typed, Submit, Goto, ServicesTyped
    <3>3. HostTyped'
      BY <2>11 DEF Typed, Submit, Goto, HostTyped, RunnerStates, Roles, Values
    <3> QED
      BY <3>1, <3>2, <3>3 DEF Typed
  <2>12. ASSUME NEW c \in Calls, Respond(c) PROVE Typed'
    <3>1. CallsTyped'
      BY <2>12 DEF Typed, Respond, CallsTyped, Active
    <3>2. ServicesTyped'
      BY <2>12 DEF Typed, Respond, ServicesTyped
    <3>3. HostTyped'
      BY <2>12 DEF Typed, Respond, HostTyped, RunnerStates, Roles, Values
    <3> QED
      BY <3>1, <3>2, <3>3 DEF Typed
  <2>13. ASSUME NEW s \in Services, Ready(s) PROVE Typed'
    <3>1. CallsTyped'
      BY <2>13 DEF Typed, Ready, CallsTyped, Active
    <3>2. ServicesTyped'
      BY <2>13, ServiceUpdates, Built DEF Typed, Ready, ServicesTyped, ServiceStates
    <3>3. HostTyped'
      BY <2>13 DEF Typed, Ready, HostTyped, RunnerStates, Roles, Values
    <3> QED
      BY <3>1, <3>2, <3>3 DEF Typed
  <2>14. ASSUME NEW s \in Services, Evaluate(s) PROVE Typed'
    <3>0. PICK r \in service[s].inputs \ service[s].seen :
            /\ runs' = [runs EXCEPT ![r] = @ + 1]
            /\ service' = [service EXCEPT ![s].seen = @ \cup {r}]
      BY <2>14 DEF Evaluate
    <3>a. /\ r \in Requests /\ service[s] \in ServiceRecords
          /\ service[s].seen \cup {r} \in SUBSET Requests
      BY <3>0, ServiceUpdates DEF Typed, ServicesTyped
    <3>1. CallsTyped'
      BY <2>14, <3>0, <3>a DEF Typed, Evaluate, CallsTyped, Active
    <3>2. ServicesTyped'
      BY <2>14, <3>0, <3>a, ServiceUpdates, Built
         DEF Typed, Evaluate, ServicesTyped, ServiceStates
    <3>3. HostTyped'
      BY <2>14, <3>0, <3>a DEF Typed, Evaluate, HostTyped, RunnerStates, Roles, Values
    <3> QED
      BY <3>1, <3>2, <3>3 DEF Typed
  <2>14a. ASSUME NEW s \in Services, Publish(s) PROVE Typed'
    <3>0. PICK r \in service[s].seen \ service[s].outputs :
            service' = [service EXCEPT ![s].outputs = @ \cup {r}]
      BY <2>14a DEF Publish
    <3>a. service[s] \in ServiceRecords /\ service[s].outputs \cup {r} \in SUBSET Requests
      BY <3>0, ServiceUpdates DEF Typed, ServicesTyped
    <3>1. CallsTyped'
      BY <2>14a, <3>0 DEF Typed, Publish, CallsTyped, Active
    <3>2. ServicesTyped'
      BY <2>14a, <3>0, <3>a, ServiceUpdates, Built
         DEF Typed, Publish, ServicesTyped, ServiceStates
    <3>3. HostTyped'
      BY <2>14a, <3>0 DEF Typed, Publish, HostTyped, RunnerStates, Roles, Values
    <3> QED
      BY <3>1, <3>2, <3>3 DEF Typed
  <2>15. ASSUME NEW s \in Services, Exit(s) PROVE Typed'
    <3>1. CallsTyped'
      BY <2>15 DEF Typed, Exit, CallsTyped, Active
    <3>2. ServicesTyped'
      BY <2>15, ServiceUpdates, Built DEF Typed, Exit, ServicesTyped, ServiceStates
    <3>3. HostTyped'
      BY <2>15 DEF Typed, Exit, HostTyped, RunnerStates, Roles, Values
    <3> QED
      BY <3>1, <3>2, <3>3 DEF Typed
  <2>16. ASSUME NEW s \in Services, Replaced(s) PROVE Typed'
    <3>1. CallsTyped'
      BY <2>16 DEF Typed, Replaced, Replacing, CallsTyped, Active
    <3>2. ServicesTyped'
      BY <2>16, ServiceUpdates, Built DEF Typed, Replaced, Replacing, ServicesTyped, ServiceStates
    <3>3. HostTyped'
      BY <2>16 DEF Typed, Replaced, Replacing, HostTyped, RunnerStates, Roles, Values
    <3> QED
      BY <3>1, <3>2, <3>3 DEF Typed
  <2>17. ASSUME NEW s \in Services, ReplaceFails(s) PROVE Typed'
    <3>0. \/ service' = [service EXCEPT ![s] = Reclaimed]
          \/ service' = [service EXCEPT ![s].client = FALSE, ![s].state = "unreaped"]
      BY <2>17 DEF ReplaceFails, Reclaim, ReclaimFails
    <3>1. CallsTyped'
      BY <2>17 DEF Typed, ReplaceFails, Reclaim, ReclaimFails, Replacing, CallsTyped, Active
    <3>2. ServicesTyped'
      <4>1. UNCHANGED slots
        BY <2>17 DEF ReplaceFails
      <4>2. service' \in [Services -> ServiceRecords]
        <5>1. service \in [Services -> ServiceRecords] /\ "unreaped" \in ServiceStates
          BY DEF Typed, ServicesTyped, ServiceStates
        <5>2. CASE service' = [service EXCEPT ![s] = Reclaimed]
          BY <5>1, <5>2, Built
        <5>3. ASSUME NEW x \in ServiceStates,
                     service' = [service EXCEPT ![s].client = FALSE, ![s].state = x]
              PROVE  service' \in [Services -> ServiceRecords]
          BY <5>1, <5>3, ServiceUpdates
        <5> QED
          BY <3>0, <5>1, <5>2, <5>3
      <4> QED
        BY <4>1, <4>2 DEF Typed, ServicesTyped
    <3>3. HostTyped'
      BY <2>17 DEF Typed, ReplaceFails, Reclaim, ReclaimFails, Replacing, HostTyped, RunnerStates,
         Roles, Values
    <3> QED
      BY <3>1, <3>2, <3>3 DEF Typed
  <2>18. ASSUME Start PROVE Typed'
    <3>1. CallsTyped'
      BY <2>18 DEF Typed, Start, Spawned, Fresh, CallsTyped, Active
    <3>2. ServicesTyped'
      BY <2>18, ServiceUpdates, Built
         DEF Typed, Start, Spawned, Fresh, ServicesTyped, ServiceStates
    <3>3. HostTyped'
      BY <2>18 DEF Typed, Start, Spawned, Fresh, HostTyped, RunnerStates, Roles, Values
    <3> QED
      BY <3>1, <3>2, <3>3 DEF Typed
  <2>19. ASSUME Started PROVE Typed'
    <3>1. CallsTyped'
      BY <2>19 DEF Typed, Started, Starting, CallsTyped, Active
    <3>2. ServicesTyped'
      BY <2>19, ServiceUpdates, Built DEF Typed, Started, Starting, ServicesTyped, ServiceStates
    <3>3. HostTyped'
      BY <2>19 DEF Typed, Started, Starting, HostTyped, RunnerStates, Roles, Values
    <3> QED
      BY <3>1, <3>2, <3>3 DEF Typed
  <2>20. ASSUME StartFails PROVE Typed'
    <3>1. CallsTyped'
      BY <2>20 DEF Typed, StartFails, Starting, CallsTyped, Active
    <3>2. ServicesTyped'
      BY <2>20, ServiceUpdates, Built
         DEF Typed, StartFails, Starting, ServicesTyped, ServiceStates
    <3>3. HostTyped'
      BY <2>20 DEF Typed, StartFails, Starting, HostTyped, RunnerStates, Roles, Values
    <3> QED
      BY <3>1, <3>2, <3>3 DEF Typed
  <2>21. ASSUME CancelQueued PROVE Typed'
    <3>1. CallsTyped'
      BY <2>21 DEF Typed, CancelQueued, CallsTyped, CallRecords, CallStates, Values, Active
    <3>2. ServicesTyped'
      BY <2>21 DEF Typed, CancelQueued, ServicesTyped
    <3>3. HostTyped'
      BY <2>21 DEF Typed, CancelQueued, HostTyped, RunnerStates, Roles, Values
    <3> QED
      BY <3>1, <3>2, <3>3 DEF Typed
  <2>22. ASSUME CloseExecutor PROVE Typed'
    <3>1. CallsTyped'
      BY <2>22 DEF Typed, CloseExecutor, CallsTyped, Active
    <3>2. ServicesTyped'
      BY <2>22 DEF Typed, CloseExecutor, ServicesTyped
    <3>3. HostTyped'
      BY <2>22 DEF Typed, CloseExecutor, HostTyped, RunnerStates, Roles, Values
    <3> QED
      BY <3>1, <3>2, <3>3 DEF Typed
  <2>23. ASSUME CloseMaintenance PROVE Typed'
    <3>1. CallsTyped'
      BY <2>23 DEF Typed, CloseMaintenance, Replacing, CallsTyped, Active
    <3>2. ServicesTyped'
      BY <2>23 DEF Typed, CloseMaintenance, Replacing, ServicesTyped
    <3>3. HostTyped'
      BY <2>23 DEF Typed, CloseMaintenance, Replacing, HostTyped, RunnerStates, Roles, Values
    <3> QED
      BY <3>1, <3>2, <3>3 DEF Typed
  <2>24. ASSUME Reap PROVE Typed'
    <3>0. \E kept \in SUBSET Services :
            service' = [s \in Services |->
              IF s \notin Ours THEN service[s]
              ELSE IF s \in kept THEN [service[s] EXCEPT !.client = FALSE] ELSE Reclaimed]
      BY <2>24 DEF Reap, Ours
    <3>1. CallsTyped'
      BY <2>24 DEF Typed, Reap, Ours, CallsTyped, Active
    <3>2. ServicesTyped'
      <4>1. PICK kept \in SUBSET Services :
              service' = [s \in Services |->
                IF s \notin Ours THEN service[s]
                ELSE IF s \in kept THEN [service[s] EXCEPT !.client = FALSE] ELSE Reclaimed]
        BY <3>0
      <4>2. service' \in [Services -> ServiceRecords]
        BY <4>1, ServiceUpdates, Built DEF Typed, ServicesTyped
      <4> QED
        BY <2>24, <4>2 DEF Reap, Typed, ServicesTyped
    <3>3. HostTyped'
      BY <2>24, Counted DEF Typed, Reap, Ours, HostTyped, RunnerStates, Roles, Values
    <3> QED
      BY <3>1, <3>2, <3>3 DEF Typed
  <2>25. ASSUME BeginReplace PROVE Typed'
    <3>1. CallsTyped'
      BY <2>25 DEF Typed, BeginReplace, CallsTyped, Active
    <3>2. ServicesTyped'
      BY <2>25 DEF Typed, BeginReplace, ServicesTyped
    <3>3. HostTyped'
      BY <2>25 DEF Typed, BeginReplace, HostTyped, RunnerStates, Roles, Values
    <3> QED
      BY <3>1, <3>2, <3>3 DEF Typed
  <2>26. ASSUME Spawn PROVE Typed'
    <3>1. CallsTyped'
      BY <2>26 DEF Typed, Spawn, Spawned, Fresh, CallsTyped, Active
    <3>2. ServicesTyped'
      BY <2>26, ServiceUpdates, Built
         DEF Typed, Spawn, Spawned, Fresh, ServicesTyped, ServiceStates
    <3>3. HostTyped'
      BY <2>26 DEF Typed, Spawn, Spawned, Fresh, HostTyped, RunnerStates, Roles, Values
    <3> QED
      BY <3>1, <3>2, <3>3 DEF Typed
  <2>27. ASSUME RunRole PROVE Typed'
    <3>1. CallsTyped'
      BY <2>27 DEF Typed, RunRole, CallsTyped, Active
    <3>2. ServicesTyped'
      BY <2>27 DEF Typed, RunRole, ServicesTyped
    <3>3. HostTyped'
      BY <2>27 DEF Typed, RunRole, HostTyped, RunnerStates, Roles, Values
    <3> QED
      BY <3>1, <3>2, <3>3 DEF Typed
  <2>28. ASSUME RoleStarts PROVE Typed'
    <3>1. CallsTyped'
      BY <2>28 DEF Typed, RoleStarts, CallsTyped, Active
    <3>2. ServicesTyped'
      BY <2>28 DEF Typed, RoleStarts, ServicesTyped
    <3>3. HostTyped'
      BY <2>28 DEF Typed, RoleStarts, HostTyped, RunnerStates, Roles, Values
    <3> QED
      BY <3>1, <3>2, <3>3 DEF Typed
  <2>29. ASSUME RoleEnds PROVE Typed'
    <3>1. CallsTyped'
      BY <2>29 DEF Typed, RoleEnds, CallsTyped, Active
    <3>2. ServicesTyped'
      BY <2>29 DEF Typed, RoleEnds, ServicesTyped
    <3>3. HostTyped'
      BY <2>29 DEF Typed, RoleEnds, HostTyped, RunnerStates, Roles, Values
    <3> QED
      BY <3>1, <3>2, <3>3 DEF Typed
  <2>30. ASSUME RoleReclaimed PROVE Typed'
    <3>1. CallsTyped'
      BY <2>30 DEF Typed, RoleReclaimed, CallsTyped, Active
    <3>2. ServicesTyped'
      BY <2>30 DEF Typed, RoleReclaimed, ServicesTyped
    <3>3. HostTyped'
      BY <2>30 DEF Typed, RoleReclaimed, HostTyped, RunnerStates, Roles, Values
    <3> QED
      BY <3>1, <3>2, <3>3 DEF Typed
  <2>31. ASSUME RoleStopped PROVE Typed'
    <3>1. CallsTyped'
      BY <2>31 DEF Typed, RoleStopped, CallsTyped, Active
    <3>2. ServicesTyped'
      BY <2>31 DEF Typed, RoleStopped, ServicesTyped
    <3>3. HostTyped'
      BY <2>31 DEF Typed, RoleStopped, HostTyped, RunnerStates, Roles, Values
    <3> QED
      BY <3>1, <3>2, <3>3 DEF Typed
  <2>32. ASSUME Close PROVE Typed'
    <3>1. CallsTyped'
      BY <2>32 DEF Typed, Close, RoleBusy, CallsTyped, Active
    <3>2. ServicesTyped'
      BY <2>32 DEF Typed, Close, RoleBusy, ServicesTyped
    <3>3. HostTyped'
      BY <2>32 DEF Typed, Close, RoleBusy, HostTyped, RunnerStates, Roles, Values
    <3> QED
      BY <3>1, <3>2, <3>3 DEF Typed
  <2>33. ASSUME Crash PROVE Typed'
    <3>0. /\ host \in 0 .. MaxCrashes /\ host < MaxCrashes /\ host' = host + 1
          /\ slots' = {} /\ maintenance' = 0 /\ spawning' = 0 /\ runner' = "new"
          /\ role' = "idle" /\ futures' = {} /\ UNCHANGED <<issued, completed, file, runs,
             faults>>
      BY <2>33 DEF Crash, Typed, HostTyped
    <3>1. CallsTyped'
      BY <2>33, <3>0 DEF Typed, Crash, Ours, CallsTyped, CallRecords, CallStates, Values, Active,
         NoCall
    <3>2. ServicesTyped'
      BY <2>33, <3>0, ServiceUpdates, Built DEF Typed, Crash, Ours, ServicesTyped, ServiceStates,
         CallsTyped, CallRecords, Active
    <3>3. HostTyped'
      BY <3>0 DEF Typed, HostTyped, RunnerStates, Roles, Values
    <3> QED
      BY <3>1, <3>2, <3>3 DEF Typed
  <2>34. ASSUME UNCHANGED vars PROVE Typed'
    <3>1. CallsTyped'
      BY <2>34 DEF Typed, vars, CallsTyped, Active
    <3>2. ServicesTyped'
      BY <2>34 DEF Typed, vars, ServicesTyped
    <3>3. HostTyped'
      BY <2>34 DEF Typed, vars, HostTyped, RunnerStates, Roles, Values
    <3> QED
      BY <3>1, <3>2, <3>3 DEF Typed
  <2> QED
    BY <2>1, <2>2, <2>3, <2>4, <2>5, <2>6, <2>7, <2>8, <2>9, <2>10, <2>11, <2>12, <2>13,
       <2>14, <2>14a, <2>15, <2>16, <2>17, <2>18, <2>19, <2>20, <2>21, <2>22, <2>23, <2>24, <2>25,
       <2>26, <2>27, <2>28, <2>29, <2>30, <2>31, <2>32, <2>33, <2>34
       DEF Next, CallStep, ServiceStep, RoleStep, RunnerStep
<1> QED
  BY <1>1, <1>2, PTL DEF Spec

(***************************************************************************)
(* The phases: when the role runs, when calls may be queued or at work,    *)
(* and that nothing is spawned once close() has waited for the replacements. *)
(***************************************************************************)
Phases ==
  /\ role \in {"running", "ending", "waiting"} => runner = "open"
  /\ role = "setup" => runner \in {"new", "setup", "open"}
  /\ \A c \in Calls : /\ call[c].pc = "queued" => c \in RoleCalls /\ runner \in {"open", "closing"}
                      /\ Active(c) => runner \in {"open", "closing", "executor"}
                      /\ Active(c) /\ c \notin RoleCalls => runner = "open"
  /\ runner \in {"reaping", "closed", "broken"} => spawning = 0

\* The role, the calls and close() keep to their phases.
THEOREM PhaseInvariance == Spec => []Phases
<1>1. Init => Phases
  BY DEF Init, Phases, NoCall, Active
<1>2. Typed /\ Phases /\ [Next]_vars => Phases'
  <2> SUFFICES ASSUME Typed, Phases, [Next]_vars PROVE Phases'
    OBVIOUS
  <2> USE Constants DEF Phases, Active, durable, roles, repair
  <2>1. ASSUME NEW c \in Calls, Issue(c) PROVE Phases'
    BY <2>1 DEF Issue, MayBegin, Typed, CallsTyped, CallRecords
  <2>2. ASSUME NEW c \in Calls, Repeat(c) PROVE Phases'
    <3>1. PICK k \in CallRecords : k.pc \in {"done", "raised"} /\ call' = [call EXCEPT ![c] = k]
      BY <2>2, Repeated
    <3>2. UNCHANGED <<role, runner, spawning>>
      BY <2>2 DEF Repeat
    <3> QED
      BY <3>1, <3>2 DEF Typed, CallsTyped
  <2>3. ASSUME NEW c \in Calls, Take(c) PROVE Phases'
    BY <2>3 DEF Take, Typed, CallsTyped, CallRecords
  <2>4. ASSUME NEW c \in Calls, NoSlot(c) PROVE Phases'
    BY <2>4 DEF NoSlot, Goto, Typed, CallsTyped, CallRecords
  <2>5. ASSUME NEW c \in Calls, Answer(c) PROVE Phases'
    BY <2>5 DEF Answer, Tidy, Typed, CallsTyped, CallRecords
  <2>6. ASSUME NEW c \in Calls, NoAnswer(c) PROVE Phases'
    BY <2>6 DEF NoAnswer, Goto, Typed, CallsTyped, CallRecords
  <2>7. ASSUME NEW c \in Calls, TimedOut(c) PROVE Phases'
    BY <2>7 DEF TimedOut, Reclaim, ReclaimFails, Goto, Reclaimed, Typed, CallsTyped, CallRecords
  <2>8. ASSUME NEW c \in Calls, Fail(c) PROVE Phases'
    BY <2>8
      DEF Fail, Raise, End, Reclaim, ReclaimFails, Reclaimed, Typed, CallsTyped, CallRecords,
          NoCall
  <2>9. ASSUME NEW c \in Calls, WriteResult(c) PROVE Phases'
    BY <2>9 DEF WriteResult, Goto, Typed, CallsTyped, CallRecords
  <2>10. ASSUME NEW c \in Calls, Complete(c) PROVE Phases'
    BY <2>10 DEF Complete, End, Typed, CallsTyped, CallRecords, NoCall
  <2>11. ASSUME NEW c \in Calls, Submit(c) PROVE Phases'
    BY <2>11 DEF Submit, Goto, Typed, CallsTyped, CallRecords
  <2>12. ASSUME NEW c \in Calls, Respond(c) PROVE Phases'
    BY <2>12 DEF Respond
  <2>13. ASSUME NEW s \in Services, Ready(s) PROVE Phases'
    BY <2>13 DEF Ready
  <2>14. ASSUME NEW s \in Services, Evaluate(s) PROVE Phases'
    BY <2>14 DEF Evaluate
  <2>14a. ASSUME NEW s \in Services, Publish(s) PROVE Phases'
    BY <2>14a DEF Publish
  <2>15. ASSUME NEW s \in Services, Exit(s) PROVE Phases'
    BY <2>15 DEF Exit
  <2>16. ASSUME NEW s \in Services, Replaced(s) PROVE Phases'
    BY <2>16 DEF Replaced, Replacing
  <2>17. ASSUME NEW s \in Services, ReplaceFails(s) PROVE Phases'
    BY <2>17 DEF ReplaceFails, Reclaim, ReclaimFails, Reclaimed, Replacing
  <2>18. ASSUME Start PROVE Phases'
    BY <2>18 DEF Start, Spawned, Fresh
  <2>19. ASSUME Started PROVE Phases'
    BY <2>19 DEF Started, Starting
  <2>20. ASSUME StartFails PROVE Phases'
    BY <2>20 DEF StartFails, Starting
  <2>21. ASSUME CancelQueued PROVE Phases'
    BY <2>21 DEF CancelQueued
  <2>22. ASSUME CloseExecutor PROVE Phases'
    BY <2>22 DEF CloseExecutor
  <2>23. ASSUME CloseMaintenance PROVE Phases'
    BY <2>23 DEF CloseMaintenance, Replacing
  <2>24. ASSUME Reap PROVE Phases'
    BY <2>24 DEF Reap, Ours, Reclaimed
  <2>25. ASSUME BeginReplace PROVE Phases'
    BY <2>25 DEF BeginReplace
  <2>26. ASSUME Spawn PROVE Phases'
    BY <2>26 DEF Spawn, Spawned, Fresh
  <2>27. ASSUME RunRole PROVE Phases'
    BY <2>27 DEF RunRole
  <2>28. ASSUME RoleStarts PROVE Phases'
    BY <2>28 DEF RoleStarts
  <2>29. ASSUME RoleEnds PROVE Phases'
    BY <2>29 DEF RoleEnds
  <2>30. ASSUME RoleReclaimed PROVE Phases'
    BY <2>30 DEF RoleReclaimed
  <2>31. ASSUME RoleStopped PROVE Phases'
    BY <2>31 DEF RoleStopped
  <2>32. ASSUME Close PROVE Phases'
    BY <2>32 DEF Close, RoleBusy
  <2>33. ASSUME Crash PROVE Phases'
    BY <2>33 DEF Crash, Ours, NoCall
  <2>34. ASSUME UNCHANGED vars PROVE Phases'
    BY <2>34 DEF vars
  <2> QED
    BY <2>1, <2>2, <2>3, <2>4, <2>5, <2>6, <2>7, <2>8, <2>9, <2>10, <2>11, <2>12, <2>13,
       <2>14, <2>14a, <2>15, <2>16, <2>17, <2>18, <2>19, <2>20, <2>21, <2>22, <2>23, <2>24, <2>25,
       <2>26, <2>27, <2>28, <2>29, <2>30, <2>31, <2>32, <2>33, <2>34
       DEF Next, CallStep, ServiceStep, RoleStep, RunnerStep
<1> QED
  BY <1>1, <1>2, TypeInvariance, PTL DEF Spec

(***************************************************************************)
(* Who holds a container.  What a call holds, and what waits in the queue  *)
(* while there are calls to come, is a serving container.                  *)
(***************************************************************************)
Coming == runner = "open" \/ \E c \in Calls : Pending(c)
Holding ==
  /\ \A c \in Calls : call[c].slot # None => service[call[c].slot].state = "serving"
  /\ Coming => \A s \in slots : service[s].state = "serving"
  /\ \A s \in Services : service[s].reclaimed => service[s].state = "reaped"
  /\ \A c, d \in Calls : c # d /\ call[c].slot # None => call[c].slot # call[d].slot
  /\ \A c \in Calls : call[c].slot \notin slots

\* No container is held twice, and none is held or queued that is not serving.
THEOREM HoldingInvariance == Spec => []Holding
<1>1. Init => Holding
  BY DEF Init, Holding, NoCall, NoService, Coming, Pending, Active
<1>2. Typed /\ Phases /\ Holding /\ [Next]_vars => Holding'
  <2> SUFFICES ASSUME Typed, Phases, Holding, [Next]_vars PROVE Holding'
    OBVIOUS
  <2> USE Constants DEF Holding, Coming, Pending, Active, durable, roles, repair
  <2>1. ASSUME NEW c \in Calls, Issue(c) PROVE Holding'
    BY <2>1 DEF Issue, MayBegin, Typed, CallsTyped, CallRecords, Phases
  <2>2. ASSUME NEW c \in Calls, Repeat(c) PROVE Holding'
    <3>1. PICK k \in CallRecords :
            k.pc \in {"done", "raised"} /\ k.slot = None /\ call' = [call EXCEPT ![c] = k]
      BY <2>2, Repeated
    <3>2. UNCHANGED <<service, slots, runner>>
      BY <2>2 DEF Repeat
    <3> QED
      BY <3>1, <3>2 DEF Typed, CallsTyped, ServicesTyped
  <2>3. ASSUME NEW c \in Calls, Take(c) PROVE Holding'
    BY <2>3 DEF Take, Typed, CallsTyped, CallRecords, ServicesTyped, ServiceRecords
  <2>4. ASSUME NEW c \in Calls, NoSlot(c) PROVE Holding'
    BY <2>4 DEF NoSlot, Goto, Typed, CallsTyped, CallRecords
  <2>5. ASSUME NEW c \in Calls, Answer(c) PROVE Holding'
    BY <2>5 DEF Answer, Tidy, Typed, CallsTyped, CallRecords, ServicesTyped, ServiceRecords
  <2>6. ASSUME NEW c \in Calls, NoAnswer(c) PROVE Holding'
    BY <2>6 DEF NoAnswer, Goto, Typed, CallsTyped, CallRecords
  <2>7. ASSUME NEW c \in Calls, TimedOut(c) PROVE Holding'
    <3>0. call[c].pc = "polling" /\ call[c].slot \in Services /\ UNCHANGED <<slots, runner>>
      BY <2>7 DEF TimedOut, Typed, CallsTyped, CallRecords
    <3>1. CASE /\ service' = [service EXCEPT ![call[c].slot] = Reclaimed]
               /\ call' = [call EXCEPT ![c].pc = "writing", ![c].slot = None]
      <4>1. /\ call'[c].slot = None /\ \A d \in Calls \ {c} : call'[d] = call[d]
            /\ Coming' => Coming
        BY <3>0, <3>1 DEF Typed, CallsTyped, CallRecords
      <4>2. /\ service'[call[c].slot] = Reclaimed
            /\ \A t \in Services \ {call[c].slot} : service'[t] = service[t]
        BY <3>0, <3>1 DEF Typed, ServicesTyped
      <4>3. Reclaimed.state = "reaped"
        BY DEF Reclaimed, NoService
      <4>t. slots \subseteq Services /\ \A d \in Calls : call[d].slot \in Services \cup {None}
        BY DEF Typed, CallsTyped, ServicesTyped, CallRecords
      <4>4. \A d \in Calls : call'[d].slot # None =>
              d # c /\ call'[d] = call[d] /\ call[d].slot # call[c].slot
        BY <3>0, <4>1, <4>2, <4>3, <4>t
      <4>5. \A d \in Calls : call'[d].slot # None => service'[call'[d].slot].state = "serving"
        BY <4>4, <4>2, <4>t
      <4>6. Coming' => \A t \in slots' : service'[t].state = "serving"
        BY <3>0, <4>1, <4>2, <4>3, <4>t
      <4>7. \A t \in Services : service'[t].reclaimed => service'[t].state = "reaped"
        BY <3>0, <4>1, <4>2, <4>3, <4>t
      <4>8. \A d, e \in Calls : d # e /\ call'[d].slot # None => call'[d].slot # call'[e].slot
        BY <4>1, <4>t
      <4>9. \A d \in Calls : call'[d].slot \notin slots'
        BY <3>0, <4>1, <4>t
      <4> QED
        BY <4>5, <4>6, <4>7, <4>8, <4>9
    <3>2. CASE ReclaimFails(call[c].slot, service[call[c].slot].state) /\ Goto(c, "failing")
      <4>1. /\ call'[c].slot = call[c].slot /\ \A d \in Calls \ {c} : call'[d] = call[d]
            /\ Coming' => Coming
        BY <3>0, <3>2 DEF Typed, CallsTyped, CallRecords, Goto
      <4>2. \A t \in Services : /\ service'[t].state = service[t].state
                                /\ service'[t].reclaimed = service[t].reclaimed
        BY <3>0, <3>2 DEF Typed, ServicesTyped, ServiceRecords, ReclaimFails
      <4>t. slots \subseteq Services /\ \A d \in Calls : call[d].slot \in Services \cup {None}
        BY DEF Typed, CallsTyped, ServicesTyped, CallRecords
      <4>4. \A d \in Calls : call'[d].slot # None => call'[d].slot = call[d].slot
        BY <4>1
      <4>5. \A d \in Calls : call'[d].slot # None => service'[call'[d].slot].state = "serving"
        <5> TAKE d \in Calls
        <5> HAVE call'[d].slot # None
        <5>1. call'[d].slot = call[d].slot /\ call[d].slot # None
          BY <4>4
        <5>2. call[d].slot \in Services /\ service[call[d].slot].state = "serving"
          BY <5>1, <4>t
        <5>3. service'[call[d].slot].state = service[call[d].slot].state
          BY <5>2, <4>2
        <5> QED
          BY <5>1, <5>2, <5>3
      <4>6. Coming' => \A t \in slots' : service'[t].state = "serving"
        BY <3>0, <4>1, <4>2, <4>t
      <4>7. \A t \in Services : service'[t].reclaimed => service'[t].state = "reaped"
        BY <4>2
      <4>8. \A d, e \in Calls : d # e /\ call'[d].slot # None => call'[d].slot # call'[e].slot
        BY <4>1
      <4>9. \A d \in Calls : call'[d].slot \notin slots'
        BY <3>0, <4>1, <4>2, <4>t
      <4> QED
        BY <4>5, <4>6, <4>7, <4>8, <4>9
    <3> QED
      BY <2>7, <3>0, <3>1, <3>2 DEF TimedOut, Reclaim
  <2>8. ASSUME NEW c \in Calls, Fail(c) PROVE Holding'
    <3>0. call[c].pc = "failing" /\ call[c].slot \in Services /\ UNCHANGED runner
      BY <2>8 DEF Fail, Typed, CallsTyped, CallRecords
    <3>a. /\ call'[c].slot = None /\ \A d \in Calls \ {c} : call'[d] = call[d]
          /\ Coming
      BY <2>8, <3>0 DEF Fail, Raise, End, NoCall, Typed, CallsTyped, CallRecords
    <3>1. CASE service' = [service EXCEPT ![call[c].slot] = Reclaimed] /\ UNCHANGED slots
      <4>2. /\ service'[call[c].slot] = Reclaimed
            /\ \A t \in Services \ {call[c].slot} : service'[t] = service[t]
        BY <3>0, <3>1 DEF Typed, ServicesTyped
      <4>3. Reclaimed.state = "reaped"
        BY DEF Reclaimed, NoService
      <4>t. slots \subseteq Services /\ \A d \in Calls : call[d].slot \in Services \cup {None}
        BY DEF Typed, CallsTyped, ServicesTyped, CallRecords
      <4>4. \A d \in Calls : call'[d].slot # None =>
              d # c /\ call'[d] = call[d] /\ call[d].slot # call[c].slot
        BY <3>0, <3>1, <3>a, <4>2, <4>3, <4>t
      <4>5. \A d \in Calls : call'[d].slot # None => service'[call'[d].slot].state = "serving"
        BY <4>4, <4>2, <4>t
      <4>6. Coming' => \A t \in slots' : service'[t].state = "serving"
        BY <3>0, <3>1, <3>a, <4>2, <4>3, <4>t
      <4>7. \A t \in Services : service'[t].reclaimed => service'[t].state = "reaped"
        BY <3>0, <3>1, <3>a, <4>2, <4>3, <4>t
      <4>8. \A d, e \in Calls : d # e /\ call'[d].slot # None => call'[d].slot # call'[e].slot
        BY <3>a, <4>t
      <4>9. \A d \in Calls : call'[d].slot \notin slots'
        BY <3>0, <3>1, <3>a, <4>t
      <4> QED
        BY <4>5, <4>6, <4>7, <4>8, <4>9
    <3>2. CASE /\ ReclaimFails(call[c].slot, service[call[c].slot].state)
               /\ slots' = slots \cup {call[c].slot}
      <4>1. \A t \in Services : /\ service'[t].state = service[t].state
                                /\ service'[t].reclaimed = service[t].reclaimed
        BY <3>0, <3>2 DEF Typed, ServicesTyped, ServiceRecords, ReclaimFails
      <4>t. slots \subseteq Services /\ \A d \in Calls : call[d].slot \in Services \cup {None}
        BY DEF Typed, CallsTyped, ServicesTyped, CallRecords
      <4>4. \A d \in Calls : call'[d].slot # None =>
              d # c /\ call'[d] = call[d] /\ call[d].slot # call[c].slot
        BY <3>0, <3>2, <3>a, <4>1, <4>t
      <4>5. \A d \in Calls : call'[d].slot # None => service'[call'[d].slot].state = "serving"
        BY <4>4, <4>1, <4>t
      <4>6. Coming' => \A t \in slots' : service'[t].state = "serving"
        BY <3>0, <3>2, <3>a, <4>1, <4>t
      <4>7. \A t \in Services : service'[t].reclaimed => service'[t].state = "reaped"
        BY <4>1
      <4>8. \A d, e \in Calls : d # e /\ call'[d].slot # None => call'[d].slot # call'[e].slot
        BY <3>a, <4>t
      <4>9. \A d \in Calls : call'[d].slot \notin slots'
        <5> TAKE d \in Calls
        <5>1. CASE d = c
          BY <5>1, <3>0, <3>a, <3>2, <4>t
        <5>2. CASE d # c
          <6>1. call'[d] = call[d] /\ call[d].slot # call[c].slot
            BY <5>2, <3>0, <3>a
          <6> QED
            BY <6>1, <3>2
        <5> QED
          BY <5>1, <5>2
      <4> QED
        BY <4>5, <4>6, <4>7, <4>8, <4>9
    <3> QED
      BY <2>8, <3>0, <3>1, <3>2 DEF Fail, Reclaim
  <2>9. ASSUME NEW c \in Calls, WriteResult(c) PROVE Holding'
    BY <2>9 DEF WriteResult, Goto, Typed, CallsTyped, CallRecords
  <2>10. ASSUME NEW c \in Calls, Complete(c) PROVE Holding'
    BY <2>10 DEF Complete, End, Typed, CallsTyped, CallRecords, NoCall
  <2>11. ASSUME NEW c \in Calls, Submit(c) PROVE Holding'
    BY <2>11 DEF Submit, Goto, Typed, CallsTyped, CallRecords, Phases
  <2>12. ASSUME NEW c \in Calls, Respond(c) PROVE Holding'
    BY <2>12 DEF Respond
  <2>13. ASSUME NEW s \in Services, Ready(s) PROVE Holding'
    BY <2>13 DEF Ready, Typed, CallsTyped, CallRecords, ServicesTyped, ServiceRecords
  <2>14. ASSUME NEW s \in Services, Evaluate(s) PROVE Holding'
    BY <2>14 DEF Evaluate, Typed, CallsTyped, CallRecords, ServicesTyped, ServiceRecords
  <2>14a. ASSUME NEW s \in Services, Publish(s) PROVE Holding'
    BY <2>14a DEF Publish, Typed, CallsTyped, CallRecords, ServicesTyped, ServiceRecords
  <2>15. ASSUME NEW s \in Services, Exit(s) PROVE Holding'
    BY <2>15 DEF Exit, Typed, CallsTyped, CallRecords, ServicesTyped, ServiceRecords
  <2>16. ASSUME NEW s \in Services, Replaced(s) PROVE Holding'
    BY <2>16
       DEF Replaced, Replacing, Typed, CallsTyped, CallRecords, ServicesTyped, ServiceRecords
  <2>17. ASSUME NEW s \in Services, ReplaceFails(s) PROVE Holding'
    <3>0. service[s].state = "replacing" /\ UNCHANGED <<slots, runner, call>>
      BY <2>17 DEF ReplaceFails, Replacing
    <3>1. Reclaimed.state = "reaped"
      BY DEF Reclaimed, NoService
    <3>2. /\ \A t \in Services \ {s} : service'[t] = service[t]
          /\ service'[s].reclaimed => service'[s].state = "reaped"
      BY <2>17, <3>0, <3>1
         DEF ReplaceFails, Reclaim, ReclaimFails, Typed, ServicesTyped, ServiceRecords
    <3>t. slots \subseteq Services /\ \A d \in Calls : call[d].slot \in Services \cup {None}
      BY DEF Typed, CallsTyped, ServicesTyped, CallRecords
    <3>5. \A d \in Calls : call[d].slot # None => call[d].slot # s
      BY <3>0, <3>2, <3>t
    <3>6. Coming => s \notin slots
      BY <3>0, <3>2, <3>t
    <3>7. \A d \in Calls : call'[d].slot # None => service'[call'[d].slot].state = "serving"
      BY <3>0, <3>2, <3>t, <3>5
    <3>8. Coming' => \A t \in slots' : service'[t].state = "serving"
      BY <3>0, <3>2, <3>t, <3>6
    <3>9. \A t \in Services : service'[t].reclaimed => service'[t].state = "reaped"
      BY <3>0, <3>2, <3>t
    <3> QED
      BY <3>0, <3>7, <3>8, <3>9
  <2>18. ASSUME Start PROVE Holding'
    BY <2>18
      DEF Start, Spawned, Fresh, Typed, CallsTyped, CallRecords, ServicesTyped, ServiceRecords,
          NoService, Phases
  <2>19. ASSUME Started PROVE Holding'
    BY <2>19
      DEF Started, Starting, Typed, CallsTyped, CallRecords, ServicesTyped, ServiceRecords, Phases
  <2>20. ASSUME StartFails PROVE Holding'
    BY <2>20
      DEF StartFails, Starting, Typed, CallsTyped, CallRecords, ServicesTyped, ServiceRecords,
          Phases
  <2>21. ASSUME CancelQueued PROVE Holding'
    BY <2>21 DEF CancelQueued, Typed, CallsTyped, CallRecords
  <2>22. ASSUME CloseExecutor PROVE Holding'
    BY <2>22 DEF CloseExecutor
  <2>23. ASSUME CloseMaintenance PROVE Holding'
    BY <2>23 DEF CloseMaintenance, Replacing
  <2>24. ASSUME Reap PROVE Holding'
    BY <2>24
      DEF Reap, Ours, Reclaimed, Typed, CallsTyped, CallRecords, ServicesTyped, ServiceRecords,
          NoService, Phases
  <2>25. ASSUME BeginReplace PROVE Holding'
    BY <2>25 DEF BeginReplace
  <2>26. ASSUME Spawn PROVE Holding'
    <3>0. UNCHANGED <<slots, runner, call>>
      BY <2>26 DEF Spawn
    <3>1. CASE UNCHANGED service
      BY <3>0, <3>1
    <3>2. ASSUME NEW s \in Fresh, service' = [service EXCEPT ![s] = Spawned("replacing")]
          PROVE  Holding'
      <4>1. service[s].state = "none" /\ s \in Services
        BY <3>2 DEF Fresh
      <4>2. ~Spawned("replacing").reclaimed
        BY DEF Spawned, NoService
      <4>3. service'[s] = Spawned("replacing") /\ \A t \in Services \ {s} : service'[t] = service[t]
        BY <3>2, <4>1 DEF Typed, ServicesTyped
      <4>t. slots \subseteq Services /\ \A d \in Calls : call[d].slot \in Services \cup {None}
        BY DEF Typed, CallsTyped, ServicesTyped, CallRecords
      <4>5. \A d \in Calls : call[d].slot # None => call[d].slot # s
        BY <3>0, <4>1, <4>2, <4>3, <4>t
      <4>6. Coming => s \notin slots
        BY <3>0, <4>1, <4>2, <4>3, <4>t
      <4>7. \A d \in Calls : call'[d].slot # None => service'[call'[d].slot].state = "serving"
        BY <3>0, <4>1, <4>2, <4>3, <4>t, <4>5
      <4>8. Coming' => \A t \in slots' : service'[t].state = "serving"
        BY <3>0, <4>1, <4>2, <4>3, <4>t, <4>6
      <4>9. \A t \in Services : service'[t].reclaimed => service'[t].state = "reaped"
        BY <3>0, <4>1, <4>2, <4>3, <4>t
      <4> QED
        BY <3>0, <4>7, <4>8, <4>9
    <3> QED
      BY <2>26, <3>1, <3>2 DEF Spawn
  <2>27. ASSUME RunRole PROVE Holding'
    BY <2>27 DEF RunRole
  <2>28. ASSUME RoleStarts PROVE Holding'
    BY <2>28 DEF RoleStarts
  <2>29. ASSUME RoleEnds PROVE Holding'
    BY <2>29 DEF RoleEnds
  <2>30. ASSUME RoleReclaimed PROVE Holding'
    BY <2>30 DEF RoleReclaimed
  <2>31. ASSUME RoleStopped PROVE Holding'
    BY <2>31 DEF RoleStopped
  <2>32. ASSUME Close PROVE Holding'
    BY <2>32 DEF Close, RoleBusy, Phases
  <2>33. ASSUME Crash PROVE Holding'
    <3>1. slots' = {} /\ \A c \in Calls : call'[c].slot = None
      BY <2>33 DEF Crash, NoCall, Typed, CallsTyped, CallRecords
    <3>2. \A s \in Services : service'[s].reclaimed => service'[s].state = "reaped"
      BY <2>33 DEF Crash, Ours, Typed, ServicesTyped, ServiceRecords
    <3> QED
      BY <3>1, <3>2
  <2>34. ASSUME UNCHANGED vars PROVE Holding'
    BY <2>34 DEF vars
  <2> QED
    BY <2>1, <2>2, <2>3, <2>4, <2>5, <2>6, <2>7, <2>8, <2>9, <2>10, <2>11, <2>12, <2>13,
       <2>14, <2>14a, <2>15, <2>16, <2>17, <2>18, <2>19, <2>20, <2>21, <2>22, <2>23, <2>24, <2>25,
       <2>26, <2>27, <2>28, <2>29, <2>30, <2>31, <2>32, <2>33, <2>34
       DEF Next, CallStep, ServiceStep, RoleStep, RunnerStep
<1> QED
  BY <1>1, <1>2, TypeInvariance, PhaseInvariance, PTL DEF Spec

(***************************************************************************)
(* The steps that the log and the directories do not notice: nothing is    *)
(* recorded or evaluated, no container sees a new request, no call is      *)
(* issued, answered, or about to be recorded that was not.                 *)
(***************************************************************************)
Narrowed == \A s \in Services : /\ service'[s].inputs \subseteq service[s].inputs
                                /\ service'[s].outputs \subseteq service[s].outputs
                                /\ service'[s].seen \subseteq service[s].seen
                                /\ service'[s].inputs \ service'[s].seen
                                     \subseteq service[s].inputs \ service[s].seen
Continued == \A c \in Calls : /\ Active(c)' => /\ Active(c)
                                               /\ call'[c].id = call[c].id
                                               /\ call'[c].value = call[c].value
                              /\ call'[c].pc \in {"waiting", "completing"} => call'[c].pc = call[c].pc
                              /\ call'[c].pc = "done" => call'[c] = call[c]
Uneventful == UNCHANGED <<issued, completed, file, runs>> /\ Narrowed /\ Continued

\* The steps that are noticed.
Eventful(c) == Issue(c) \/ Repeat(c) \/ Take(c) \/ Answer(c) \/ WriteResult(c) \/ Complete(c)

\* A container that is removed, or made up anew, has empty directories.
LEMMA EmptyDirectories ==
  \A k \in {NoService, Reclaimed, Spawned("starting"), Spawned("replacing")} :
    k.inputs = {} /\ k.outputs = {} /\ k.seen = {}
<1>1. NoService.inputs = {} /\ NoService.outputs = {} /\ NoService.seen = {}
  BY DEF NoService
<1>2. ASSUME NEW k \in {Reclaimed, Spawned("starting"), Spawned("replacing")}
      PROVE  /\ k.inputs = NoService.inputs /\ k.outputs = NoService.outputs
             /\ k.seen = NoService.seen
  BY Built DEF Reclaimed, Spawned, ServiceRecords
<1> QED
  BY <1>1, <1>2

\* Every step is noticed or not.
LEMMA Kinds ==
  ASSUME Typed, [Next]_vars
  PROVE  (\E c \in Calls : Eventful(c)) \/ (\E s \in Services : Evaluate(s) \/ Publish(s)) \/ Uneventful
<1> USE Constants DEF durable, roles, repair
<1>1. ASSUME NEW c \in Calls, NoSlot(c) PROVE Uneventful
  <2>1. UNCHANGED <<issued, completed, file, runs>>
    BY <1>1 DEF NoSlot
  <2>2. Narrowed
    BY <1>1 DEF NoSlot, Narrowed
  <2>3. Continued
    BY <1>1 DEF NoSlot, Goto, Continued, Active, Typed, CallsTyped, CallRecords, NoCall, End
  <2> QED
    BY <2>1, <2>2, <2>3 DEF Uneventful
<1>2. ASSUME NEW c \in Calls, NoAnswer(c) PROVE Uneventful
  <2>1. UNCHANGED <<issued, completed, file, runs>>
    BY <1>2 DEF NoAnswer
  <2>2. Narrowed
    BY <1>2 DEF NoAnswer, Narrowed
  <2>3. Continued
    BY <1>2 DEF NoAnswer, Goto, Continued, Active, Typed, CallsTyped, CallRecords, NoCall, End
  <2> QED
    BY <2>1, <2>2, <2>3 DEF Uneventful
<1>3. ASSUME NEW c \in Calls, TimedOut(c) PROVE Uneventful
  <2>1. UNCHANGED <<issued, completed, file, runs>>
    BY <1>3 DEF TimedOut
  <2>2. Narrowed
    <3>1. call[c].slot \in Services
      BY <1>3 DEF TimedOut, Typed, CallsTyped, CallRecords
    <3> QED
      BY <1>3, <3>1, EmptyDirectories
         DEF TimedOut, Reclaim, ReclaimFails, Narrowed, Typed, ServicesTyped, ServiceRecords
  <2>3. Continued
    BY <1>3
       DEF TimedOut, Reclaim, ReclaimFails, Goto, Reclaimed, Continued, Active, Typed,
           CallsTyped, CallRecords, NoCall, End
  <2> QED
    BY <2>1, <2>2, <2>3 DEF Uneventful
<1>4. ASSUME NEW c \in Calls, Fail(c) PROVE Uneventful
  <2>1. UNCHANGED <<issued, completed, file, runs>>
    BY <1>4 DEF Fail
  <2>2. Narrowed
    <3>1. call[c].slot \in Services
      BY <1>4 DEF Fail, Typed, CallsTyped, CallRecords
    <3> QED
      BY <1>4, <3>1, EmptyDirectories
         DEF Fail, Reclaim, ReclaimFails, Narrowed, Typed, ServicesTyped, ServiceRecords
  <2>3. Continued
    BY <1>4
       DEF Fail, Raise, End, Reclaim, ReclaimFails, Reclaimed, Continued, Active, Typed,
           CallsTyped, CallRecords, NoCall
  <2> QED
    BY <2>1, <2>2, <2>3 DEF Uneventful
<1>5. ASSUME NEW c \in Calls, Submit(c) PROVE Uneventful
  <2>1. UNCHANGED <<issued, completed, file, runs>>
    BY <1>5 DEF Submit
  <2>2. Narrowed
    BY <1>5 DEF Submit, Narrowed
  <2>3. Continued
    BY <1>5 DEF Submit, Goto, Continued, Active, Typed, CallsTyped, CallRecords, NoCall, End
  <2> QED
    BY <2>1, <2>2, <2>3 DEF Uneventful
<1>6. ASSUME NEW c \in Calls, Respond(c) PROVE Uneventful
  BY <1>6 DEF Respond, Uneventful, Narrowed, Continued, Active
<1>7. ASSUME NEW s \in Services, Ready(s) PROVE Uneventful
  <2>1. UNCHANGED <<issued, completed, file, runs>>
    BY <1>7 DEF Ready
  <2>2. Narrowed
    BY <1>7, EmptyDirectories
       DEF Ready, Narrowed, Typed, CallsTyped, ServicesTyped, ServiceRecords
  <2>3. Continued
    BY <1>7 DEF Ready, Continued, Active
  <2> QED
    BY <2>1, <2>2, <2>3 DEF Uneventful
<1>8. ASSUME NEW s \in Services, Exit(s) PROVE Uneventful
  <2>1. UNCHANGED <<issued, completed, file, runs>>
    BY <1>8 DEF Exit
  <2>2. Narrowed
    BY <1>8, EmptyDirectories
       DEF Exit, Narrowed, Typed, CallsTyped, ServicesTyped, ServiceRecords
  <2>3. Continued
    BY <1>8 DEF Exit, Continued, Active
  <2> QED
    BY <2>1, <2>2, <2>3 DEF Uneventful
<1>9. ASSUME NEW s \in Services, Replaced(s) PROVE Uneventful
  <2>1. UNCHANGED <<issued, completed, file, runs>>
    BY <1>9 DEF Replaced
  <2>2. Narrowed
    BY <1>9, EmptyDirectories
       DEF Replaced, Replacing, Narrowed, Typed, CallsTyped, ServicesTyped, ServiceRecords
  <2>3. Continued
    BY <1>9 DEF Replaced, Continued, Active
  <2> QED
    BY <2>1, <2>2, <2>3 DEF Uneventful
<1>10. ASSUME NEW s \in Services, ReplaceFails(s) PROVE Uneventful
  <2>1. UNCHANGED <<issued, completed, file, runs>>
    BY <1>10 DEF ReplaceFails, Reclaim, ReclaimFails
  <2>2. Narrowed
    BY <1>10, EmptyDirectories
       DEF ReplaceFails, Reclaim, ReclaimFails, Replacing, Narrowed, Typed, CallsTyped,
           ServicesTyped, ServiceRecords
  <2>3. Continued
    BY <1>10 DEF ReplaceFails, Continued, Active
  <2> QED
    BY <2>1, <2>2, <2>3 DEF Uneventful
<1>11. ASSUME Start PROVE Uneventful
  <2>1. UNCHANGED <<issued, completed, file, runs>>
    BY <1>11 DEF Start
  <2>2. Narrowed
    BY <1>11, EmptyDirectories
       DEF Start, Fresh, Narrowed, Typed, CallsTyped, ServicesTyped, ServiceRecords
  <2>3. Continued
    BY <1>11 DEF Start, Continued, Active
  <2> QED
    BY <2>1, <2>2, <2>3 DEF Uneventful
<1>12. ASSUME Started PROVE Uneventful
  <2>1. UNCHANGED <<issued, completed, file, runs>>
    BY <1>12 DEF Started
  <2>2. Narrowed
    BY <1>12, EmptyDirectories
       DEF Started, Starting, Narrowed, Typed, CallsTyped, ServicesTyped, ServiceRecords
  <2>3. Continued
    BY <1>12 DEF Started, Continued, Active
  <2> QED
    BY <2>1, <2>2, <2>3 DEF Uneventful
<1>13. ASSUME StartFails PROVE Uneventful
  <2>1. UNCHANGED <<issued, completed, file, runs>>
    BY <1>13 DEF StartFails
  <2>2. Narrowed
    BY <1>13, EmptyDirectories
       DEF StartFails, Starting, Narrowed, Typed, CallsTyped, ServicesTyped, ServiceRecords
  <2>3. Continued
    BY <1>13 DEF StartFails, Continued, Active
  <2> QED
    BY <2>1, <2>2, <2>3 DEF Uneventful
<1>14. ASSUME CancelQueued PROVE Uneventful
  <2>1. UNCHANGED <<issued, completed, file, runs>>
    BY <1>14 DEF CancelQueued
  <2>2. Narrowed
    BY <1>14 DEF CancelQueued, Narrowed
  <2>3. Continued
    BY <1>14 DEF CancelQueued, Continued, Active, Typed, CallsTyped, CallRecords, NoCall, End
  <2> QED
    BY <2>1, <2>2, <2>3 DEF Uneventful
<1>15. ASSUME CloseExecutor PROVE Uneventful
  BY <1>15 DEF CloseExecutor, Uneventful, Narrowed, Continued, Active
<1>16. ASSUME CloseMaintenance PROVE Uneventful
  BY <1>16 DEF CloseMaintenance, Uneventful, Narrowed, Continued, Active
<1>17. ASSUME Reap PROVE Uneventful
  <2>1. UNCHANGED <<issued, completed, file, runs>>
    BY <1>17 DEF Reap
  <2>2. Narrowed
    BY <1>17, EmptyDirectories
       DEF Reap, Ours, Narrowed, Typed, CallsTyped, ServicesTyped, ServiceRecords
  <2>3. Continued
    BY <1>17 DEF Reap, Continued, Active
  <2> QED
    BY <2>1, <2>2, <2>3 DEF Uneventful
<1>18. ASSUME BeginReplace PROVE Uneventful
  BY <1>18 DEF BeginReplace, Uneventful, Narrowed, Continued, Active
<1>19. ASSUME Spawn PROVE Uneventful
  <2>1. UNCHANGED <<issued, completed, file, runs>>
    BY <1>19 DEF Spawn
  <2>2. Narrowed
    BY <1>19, EmptyDirectories
       DEF Spawn, Fresh, Narrowed, Typed, CallsTyped, ServicesTyped, ServiceRecords
  <2>3. Continued
    BY <1>19 DEF Spawn, Continued, Active
  <2> QED
    BY <2>1, <2>2, <2>3 DEF Uneventful
<1>20. ASSUME RunRole PROVE Uneventful
  BY <1>20 DEF RunRole, Uneventful, Narrowed, Continued, Active
<1>21. ASSUME RoleStarts PROVE Uneventful
  BY <1>21 DEF RoleStarts, Uneventful, Narrowed, Continued, Active
<1>22. ASSUME RoleEnds PROVE Uneventful
  BY <1>22 DEF RoleEnds, Uneventful, Narrowed, Continued, Active
<1>23. ASSUME RoleReclaimed PROVE Uneventful
  BY <1>23 DEF RoleReclaimed, Uneventful, Narrowed, Continued, Active
<1>24. ASSUME RoleStopped PROVE Uneventful
  BY <1>24 DEF RoleStopped, Uneventful, Narrowed, Continued, Active
<1>25. ASSUME Close PROVE Uneventful
  BY <1>25 DEF Close, Uneventful, Narrowed, Continued, Active
<1>26. ASSUME Crash PROVE Uneventful
  <2>1. UNCHANGED <<issued, completed, file, runs>>
    BY <1>26 DEF Crash
  <2>2. Narrowed
    <3> SUFFICES ASSUME NEW s \in Services
                 PROVE  /\ service'[s].inputs = service[s].inputs
                        /\ service'[s].outputs = service[s].outputs
                        /\ service'[s].seen = service[s].seen
      BY DEF Narrowed
    <3>1. service'[s] = IF s \in Ours THEN [service[s] EXCEPT !.state = "orphan", !.client =
       FALSE,
                                                             !.reclaimed = FALSE]
                                      ELSE service[s]
      BY <1>26 DEF Crash
    <3> QED
      BY <3>1 DEF Typed, ServicesTyped, ServiceRecords
  <2>3. Continued
    BY <1>26 DEF Crash, Ours, Continued, Active, Typed, CallsTyped, CallRecords, NoCall, End
  <2> QED
    BY <2>1, <2>2, <2>3 DEF Uneventful
<1>27. ASSUME UNCHANGED vars PROVE Uneventful
  BY <1>27 DEF vars, Uneventful, Narrowed, Continued, Active
<1> QED
  BY <1>1, <1>2, <1>3, <1>4, <1>5, <1>6, <1>7, <1>8, <1>9, <1>10, <1>11, <1>12, <1>13, <1>14,
     <1>15, <1>16, <1>17, <1>18, <1>19, <1>20, <1>21, <1>22, <1>23, <1>24, <1>25, <1>26, <1>27
     DEF Next, CallStep, ServiceStep, RoleStep, RunnerStep, Eventful

(***************************************************************************)
(* What each of the noticed steps does, call by call and container by      *)
(* container.                                                              *)
(***************************************************************************)
OthersGoOn(c) == \A d \in Calls \ {c} : call'[d] = call[d]

\* A call issues a request that has no issue record.
LEMMA Issuing ==
  ASSUME Typed, NEW c \in Calls, Issue(c)
  PROVE  /\ Id(c) \in Requests \ issued /\ issued' = issued \cup {Id(c)} /\ ~Active(c)
         /\ UNCHANGED <<completed, file, service, runs>> /\ OthersGoOn(c)
         /\ call'[c].pc = "waiting" /\ call'[c].id = Id(c) /\ call'[c].value = Deadline
BY Identified DEF Issue, MayBegin, Active, OthersGoOn, Typed, CallsTyped, CallRecords

\* A repeated request is answered from the records, or as interrupted, or raises.
LEMMA Repeating ==
  ASSUME Typed, NEW c \in Calls, Repeat(c)
  PROVE  /\ UNCHANGED <<issued, completed, file, service, runs>> /\ OthersGoOn(c)
         /\ call'[c].pc \in {"done", "raised"}
         /\ call'[c].pc = "done" =>
              /\ call'[c].id = Id(c) /\ Id(c) \in issued
              /\ call'[c].value = IF completed[Id(c)] # None THEN file[Id(c)] ELSE Interrupted
<1>1. PICK k \in CallRecords :
        /\ k.pc \in {"done", "raised"} /\ k.slot = None
        /\ k.pc = "done" => /\ k.id = Id(c) /\ Id(c) \in issued
                            /\ k.value = IF completed[Id(c)] # None THEN file[Id(c)]
                                                                      ELSE Interrupted
        /\ call' = [call EXCEPT ![c] = k]
  BY Repeated
<1>2. call'[c] = k /\ OthersGoOn(c)
  BY <1>1 DEF Typed, CallsTyped, OthersGoOn
<1>3. UNCHANGED <<issued, completed, file, service, runs>>
  BY DEF Repeat, durable
<1> QED
  BY <1>1, <1>2, <1>3

\* A waiting call puts its request into the inputs of the container it takes.
LEMMA Taking ==
  ASSUME Typed, NEW c \in Calls, Take(c)
  PROVE  /\ UNCHANGED <<issued, completed, file, runs>> /\ OthersGoOn(c)
         /\ call[c].pc = "waiting" /\ call'[c].pc = "polling"
         /\ call'[c].id = call[c].id /\ call'[c].value = call[c].value
         /\ \E s \in Services :
              /\ service'[s].inputs = service[s].inputs \cup {call[c].id}
              /\ service'[s].outputs = service[s].outputs /\ service'[s].seen = service[s].seen
              /\ \A t \in Services \ {s} : service'[t] = service[t]
BY DEF Take, OthersGoOn, durable, Typed, CallsTyped, CallRecords, ServicesTyped, ServiceRecords

\* A polling call takes the answer its container gave and clears the files.
LEMMA Answering ==
  ASSUME Typed, NEW c \in Calls, Answer(c)
  PROVE  /\ UNCHANGED <<issued, completed, file, runs>> /\ OthersGoOn(c)
         /\ call[c].pc = "polling" /\ call'[c].pc = "writing" /\ call'[c].id = call[c].id
         /\ call[c].slot \in Services /\ call'[c].value = call[c].slot
         /\ call[c].id \in service[call[c].slot].outputs
         /\ Narrowed
<1>1. /\ call[c].pc = "polling" /\ call[c].slot \in Services
      /\ call[c].id \in service[call[c].slot].outputs
  BY DEF Answer, Typed, CallsTyped, CallRecords
<1>2. Narrowed
  BY <1>1 DEF Answer, Tidy, Narrowed, Typed, ServicesTyped, ServiceRecords
<1> QED
  BY <1>1, <1>2 DEF Answer, OthersGoOn, durable, Typed, CallsTyped, CallRecords

\* A call writes result.json for its request and for no other.
LEMMA Writing ==
  ASSUME Typed, NEW c \in Calls, WriteResult(c)
  PROVE  /\ UNCHANGED <<issued, completed, service, runs>> /\ OthersGoOn(c)
         /\ call[c].pc = "writing" /\ call'[c].pc = "completing"
         /\ call'[c].id = call[c].id /\ call'[c].value = call[c].value
         /\ call[c].id \in Requests /\ file'[call[c].id] = call[c].value
         /\ \A r \in Requests \ {call[c].id} : file'[r] = file[r]
BY DEF WriteResult, Goto, OthersGoOn, Active, Typed, CallsTyped, CallRecords, HostTyped

\* A call records what it has written.
LEMMA Completing ==
  ASSUME Typed, NEW c \in Calls, Complete(c)
  PROVE  /\ UNCHANGED <<issued, file, service, runs>> /\ OthersGoOn(c)
         /\ call[c].pc = "completing" /\ call'[c].pc = "done"
         /\ call'[c].id = call[c].id /\ call'[c].value = call[c].value
         /\ call[c].id \in Requests /\ completed'[call[c].id] = call[c].value
         /\ \A r \in Requests \ {call[c].id} : completed'[r] = completed[r]
BY DEF Complete, End, NoCall, OthersGoOn, Active, Typed, CallsTyped, CallRecords, HostTyped

\* A container evaluates a request of its inputs that it has not seen.
LEMMA Evaluating ==
  ASSUME Typed, NEW s \in Services, Evaluate(s)
  PROVE  /\ UNCHANGED <<issued, completed, file, call>>
         /\ \A t \in Services \ {s} : service'[t] = service[t]
         /\ service'[s].inputs = service[s].inputs
         /\ \E r \in service[s].inputs \ service[s].seen :
              /\ r \in Requests /\ runs' = [runs EXCEPT ![r] = @ + 1]
              /\ service'[s].seen = service[s].seen \cup {r}
         /\ service'[s].outputs = service[s].outputs
<1>1. UNCHANGED <<issued, completed, file, call>>
  BY DEF Evaluate, durable
<1>2. PICK r \in service[s].inputs \ service[s].seen :
        /\ runs' = [runs EXCEPT ![r] = @ + 1]
        /\ service' = [service EXCEPT ![s].seen = @ \cup {r}]
  BY DEF Evaluate
<1>3. r \in Requests
  BY ServiceUpdates DEF Typed, ServicesTyped
<1>4. /\ service'[s] = [service[s] EXCEPT !.seen = @ \cup {r}]
      /\ \A t \in Services \ {s} : service'[t] = service[t]
  BY <1>2 DEF Typed, ServicesTyped
<1>5. /\ service'[s].inputs = service[s].inputs /\ service'[s].outputs = service[s].outputs
      /\ service'[s].seen = service[s].seen \cup {r}
  BY <1>4 DEF Typed, ServicesTyped, ServiceRecords
<1> QED
  BY <1>1, <1>2, <1>3, <1>4, <1>5

\* A container writes the value of a request that it has seen.
LEMMA Publishing ==
  ASSUME Typed, NEW s \in Services, Publish(s)
  PROVE  /\ UNCHANGED <<issued, completed, file, call, runs>>
         /\ \A t \in Services \ {s} : service'[t] = service[t]
         /\ service'[s].inputs = service[s].inputs /\ service'[s].seen = service[s].seen
         /\ \E r \in service[s].seen : service'[s].outputs = service[s].outputs \cup {r}
<1>1. UNCHANGED <<issued, completed, file, call, runs>>
  BY DEF Publish, durable
<1>2. PICK r \in service[s].seen \ service[s].outputs :
        service' = [service EXCEPT ![s].outputs = @ \cup {r}]
  BY DEF Publish
<1>3. /\ service'[s] = [service[s] EXCEPT !.outputs = @ \cup {r}]
      /\ \A t \in Services \ {s} : service'[t] = service[t]
  BY <1>2 DEF Typed, ServicesTyped
<1>4. /\ service'[s].inputs = service[s].inputs /\ service'[s].seen = service[s].seen
      /\ service'[s].outputs = service[s].outputs \cup {r}
  BY <1>3 DEF Typed, ServicesTyped, ServiceRecords
<1> QED
  BY <1>1, <1>2, <1>3, <1>4

(***************************************************************************)
(* Who asked.  Every request that a call works on or a container was given *)
(* has its issue record; no two calls work on one request, no two          *)
(* containers were given one, and a call that waits has given it to none.  *)
(***************************************************************************)
Asked ==
  /\ \A c \in Calls : Active(c) => call[c].id \in issued
  /\ \A c, d \in Calls : Active(c) /\ Active(d) /\ c # d => call[c].id # call[d].id
  /\ \A s \in Services : service[s].inputs \subseteq issued
  /\ \A s, t \in Services : \A r \in service[s].inputs \cap service[t].inputs : s = t
  /\ \A c \in Calls : call[c].pc = "waiting" => \A s \in Services : call[c].id \notin service[s].inputs

\* No request is worked on by two calls or given to two containers.
THEOREM AskedInvariance == Spec => []Asked
<1>1. Init => Asked
  BY DEF Init, Asked, Active, NoCall, NoService
<1>2. Typed /\ Asked /\ [Next]_vars => Asked'
  <2> SUFFICES ASSUME Typed, Asked, [Next]_vars PROVE Asked'
    OBVIOUS
  <2> USE DEF Asked, Active
  <2>1. ASSUME NEW c \in Calls, Issue(c) PROVE Asked'
    BY <2>1, Issuing DEF OthersGoOn
  <2>2. ASSUME NEW c \in Calls, Repeat(c) PROVE Asked'
    BY <2>2, Repeating DEF OthersGoOn
  <2>3. ASSUME NEW c \in Calls, Take(c) PROVE Asked'
    BY <2>3, Taking DEF OthersGoOn
  <2>4. ASSUME NEW c \in Calls, Answer(c) PROVE Asked'
    BY <2>4, Answering DEF OthersGoOn, Narrowed
  <2>5. ASSUME NEW c \in Calls, WriteResult(c) PROVE Asked'
    BY <2>5, Writing DEF OthersGoOn
  <2>6. ASSUME NEW c \in Calls, Complete(c) PROVE Asked'
    BY <2>6, Completing DEF OthersGoOn
  <2>7. ASSUME NEW s \in Services, Evaluate(s) PROVE Asked'
    BY <2>7, Evaluating
  <2>8. ASSUME Uneventful PROVE Asked'
    BY <2>8 DEF Uneventful, Narrowed, Continued
  <2>9. ASSUME NEW s \in Services, Publish(s) PROVE Asked'
    BY <2>9, Publishing
  <2> QED
    BY <2>1, <2>2, <2>3, <2>4, <2>5, <2>6, <2>7, <2>8, <2>9, Kinds DEF Eventful
<1> QED
  BY <1>1, <1>2, TypeInvariance, PTL DEF Spec

(***************************************************************************)
(* How often a request was evaluated: never while it waits or lies unseen  *)
(* in a directory, once when it was seen and when its answer was taken.    *)
(***************************************************************************)
Evaluated ==
  /\ \A r \in Requests \ issued : runs[r] = 0
  /\ \A s \in Services : \A r \in service[s].inputs \ service[s].seen : runs[r] = 0
  /\ \A s \in Services : \A r \in service[s].outputs \cup service[s].seen : runs[r] = 1
  /\ \A c \in Calls : call[c].pc = "waiting" => runs[call[c].id] = 0
  /\ \A c \in Calls : Active(c) => \/ call[c].value = Deadline
                                   \/ call[c].value \in Services /\ runs[call[c].id] = 1

\* A request that a container has yet to see was never evaluated, one it saw was once.
THEOREM EvaluatedInvariance == Spec => []Evaluated
<1>1. Init => Evaluated
  BY DEF Init, Evaluated, Active, NoCall, NoService
<1>2. Typed /\ Asked /\ Evaluated /\ [Next]_vars => Evaluated'
  <2> SUFFICES ASSUME Typed, Asked, Evaluated, [Next]_vars PROVE Evaluated'
    OBVIOUS
  <2> USE DEF Evaluated, Active
  <2>1. ASSUME NEW c \in Calls, Issue(c) PROVE Evaluated'
    BY <2>1, Issuing DEF OthersGoOn
  <2>2. ASSUME NEW c \in Calls, Repeat(c) PROVE Evaluated'
    BY <2>2, Repeating DEF OthersGoOn
  <2>3. ASSUME NEW c \in Calls, Take(c) PROVE Evaluated'
    BY <2>3, Taking DEF OthersGoOn
  <2>4. ASSUME NEW c \in Calls, Answer(c) PROVE Evaluated'
    BY <2>4, Answering DEF OthersGoOn, Narrowed
  <2>5. ASSUME NEW c \in Calls, WriteResult(c) PROVE Evaluated'
    BY <2>5, Writing DEF OthersGoOn
  <2>6. ASSUME NEW c \in Calls, Complete(c) PROVE Evaluated'
    BY <2>6, Completing DEF OthersGoOn
  <2>7. ASSUME NEW s \in Services, Evaluate(s) PROVE Evaluated'
    <3>1. PICK r \in service[s].inputs \ service[s].seen :
            /\ r \in Requests /\ runs' = [runs EXCEPT ![r] = @ + 1]
            /\ service'[s].seen = service[s].seen \cup {r}
      BY <2>7, Evaluating
    <3>2. /\ runs[r] = 0 /\ runs'[r] = 1 /\ r \in issued
          /\ \A q \in Requests \ {r} : runs'[q] = runs[q]
      BY <3>1 DEF Asked, Typed, HostTyped
    <3>3. /\ UNCHANGED <<issued, call>> /\ service'[s].inputs = service[s].inputs
          /\ \A t \in Services \ {s} : service'[t] = service[t]
      BY <2>7, Evaluating
    <3>4. \A t \in Services : \A q \in service'[t].inputs \ service'[t].seen :
            /\ q \in service[t].inputs \ service[t].seen /\ q # r /\ q \in Requests
      BY <3>1, <3>3 DEF Asked, Typed, HostTyped
    <3>5. \A t \in Services : \A q \in service'[t].outputs \cup service'[t].seen :
            q = r \/ q \in service[t].outputs \cup service[t].seen
      BY <2>7, <3>1, <3>3, Evaluating
    <3>6. \A t \in Services : \A q \in service[t].outputs \cup service[t].seen : q # r /\ q \in Requests
      BY <3>2 DEF Typed, ServicesTyped, ServiceRecords
    <3>7. \A c \in Calls : call[c].pc = "waiting" => call[c].id # r /\ call[c].id \in Requests
      BY <3>1 DEF Asked, Typed, CallsTyped
    <3>8. \A c \in Calls : Active(c) => call[c].id \in Requests
      BY DEF Typed, CallsTyped
    <3> QED
      BY <3>2, <3>3, <3>4, <3>5, <3>6, <3>7, <3>8
  <2>8. ASSUME Uneventful PROVE Evaluated'
    BY <2>8 DEF Uneventful, Narrowed, Continued
  <2>9. ASSUME NEW s \in Services, Publish(s) PROVE Evaluated'
    BY <2>9, Publishing
  <2> QED
    BY <2>1, <2>2, <2>3, <2>4, <2>5, <2>6, <2>7, <2>8, <2>9, Kinds DEF Eventful
<1> QED
  BY <1>1, <1>2, TypeInvariance, AskedInvariance, PTL DEF Spec

(***************************************************************************)
(* What was recorded.  A request at work has no completion record yet, the *)
(* file on disk has the recorded value and a call that ended returned it.  *)
(***************************************************************************)
Told ==
  /\ \A r \in Requests \ issued : completed[r] = None
  /\ \A c \in Calls : Active(c) => completed[call[c].id] = None
  /\ \A c \in Calls : call[c].pc = "completing" => file[call[c].id] = call[c].value
  /\ \A r \in Requests : completed[r] # None => file[r] = completed[r]
  /\ \A c \in Calls : call[c].pc = "done" =>
       \/ call[c].value = Interrupted
       \/ /\ call[c].id \in Requests /\ call[c].value # None
          /\ call[c].value = completed[call[c].id]

\* A request at work is unrecorded, and what is recorded is on disk and was returned.
THEOREM ToldInvariance == Spec => []Told
<1>1. Init => Told
  BY DEF Init, Told, Active, NoCall
<1>2. Typed /\ Asked /\ Evaluated /\ Told /\ [Next]_vars => Told'
  <2> SUFFICES ASSUME Typed, Asked, Evaluated, Told, [Next]_vars PROVE Told'
    OBVIOUS
  <2> USE DEF Told, Active
  <2>0. \A c \in Calls : Active(c) => call[c].id \in Requests /\ call[c].id \in issued
    BY DEF Asked, Typed, CallsTyped
  <2>1. ASSUME NEW c \in Calls, Issue(c) PROVE Told'
    BY <2>0, <2>1, Issuing DEF OthersGoOn
  <2>2. ASSUME NEW c \in Calls, Repeat(c) PROVE Told'
    BY <2>0, <2>2, Repeating, Identified DEF OthersGoOn
  <2>3. ASSUME NEW c \in Calls, Take(c) PROVE Told'
    BY <2>0, <2>3, Taking DEF OthersGoOn
  <2>4. ASSUME NEW c \in Calls, Answer(c) PROVE Told'
    BY <2>0, <2>4, Answering DEF OthersGoOn
  <2>5. ASSUME NEW c \in Calls, WriteResult(c) PROVE Told'
    BY <2>0, <2>5, Writing DEF OthersGoOn, Asked
  <2>6. ASSUME NEW c \in Calls, Complete(c) PROVE Told'
    <3>1. call[c].value # None
      BY <2>6, Completing, Constants DEF Evaluated
    <3> QED
      BY <2>0, <2>6, <3>1, Completing DEF OthersGoOn, Asked
  <2>7. ASSUME NEW s \in Services, Evaluate(s) PROVE Told'
    BY <2>7, Evaluating
  <2>8. ASSUME Uneventful PROVE Told'
    BY <2>8 DEF Uneventful, Continued
  <2>9. ASSUME NEW s \in Services, Publish(s) PROVE Told'
    BY <2>9, Publishing
  <2> QED
    BY <2>1, <2>2, <2>3, <2>4, <2>5, <2>6, <2>7, <2>8, <2>9, Kinds DEF Eventful
<1> QED
  BY <1>1, <1>2, TypeInvariance, AskedInvariance, EvaluatedInvariance, PTL DEF Spec

---------------------------------------------------------------------------
(* The properties.                                                         *)

\* Every variable keeps its type, no container is held twice, held and idle at once, or
\* idle after its removal while the runner is open.
THEOREM SafeHolds == Spec => []Safe
<1>1. Typed /\ Holding => Safe
  <2> SUFFICES ASSUME Typed, Holding PROVE Safe
    OBVIOUS
  <2>1. TypeOK
    BY DEF Typed, CallsTyped, ServicesTyped, HostTyped, TypeOK
  <2>2. HeldOnce
    BY DEF Typed, ServicesTyped, Holding, Coming, HeldOnce
  <2> QED
    BY <2>1, <2>2 DEF Safe
<1> QED
  BY <1>1, TypeInvariance, HoldingInvariance, PTL

\* run_single returned the recorded value for a request, or "interrupted", and nothing else.
THEOREM AnswersAgreeHolds == Spec => []AnswersAgree
<1>1. Told => AnswersAgree
  BY DEF Told, AnswersAgree
<1> QED
  BY <1>1, ToldInvariance, PTL

\* The runner keeps the promise of OnceOnly: one issue, at most one evaluation after it and
\* one record that is not made up, over crashes, deadlines, failed removals and repeats.
THEOREM Implementation == Spec => ImplementsOnce
<1>1. Init => Once!Init
  BY DEF Init, Once!Init
<1>2. Typed /\ Asked /\ Evaluated /\ Told /\ [Next]_vars => [Once!Next]_<<issued, runs, completed>>
  <2> SUFFICES ASSUME Typed, Asked, Evaluated, Told, [Next]_vars
               PROVE  Once!Next \/ UNCHANGED <<issued, runs, completed>>
    OBVIOUS
  <2>1. ASSUME NEW c \in Calls, Issue(c) PROVE Once!Issue(Id(c)) /\ Id(c) \in Requests
    BY <2>1, Issuing DEF Once!Issue
  <2>2. ASSUME NEW c \in Calls, Repeat(c) \/ Take(c) \/ Answer(c) \/ WriteResult(c)
        PROVE  UNCHANGED <<issued, runs, completed>>
    BY <2>2, Repeating, Taking, Answering, Writing
  <2>3. ASSUME NEW c \in Calls, Complete(c)
        PROVE  /\ call[c].id \in Requests /\ call[c].value \in Services \cup {Deadline}
               /\ Once!Record(call[c].id, call[c].value)
    <3>1. /\ call[c].id \in Requests /\ call[c].id \in issued /\ completed[call[c].id] = None
          /\ \/ call[c].value = Deadline
             \/ call[c].value \in Services /\ runs[call[c].id] = 1
      BY <2>3, Completing DEF Active, Asked, Evaluated, Told
    <3>2. completed' = [completed EXCEPT ![call[c].id] = call[c].value] /\ UNCHANGED <<issued, runs>>
      BY <2>3 DEF Complete
    <3> QED
      BY <3>1, <3>2 DEF Once!Record
  <2>4. ASSUME NEW s \in Services, Evaluate(s) PROVE \E r \in Requests : Once!Run(r)
    <3>1. PICK r \in service[s].inputs \ service[s].seen :
            r \in Requests /\ runs' = [runs EXCEPT ![r] = @ + 1]
      BY <2>4, Evaluating
    <3>2. r \in issued /\ runs[r] = 0 /\ UNCHANGED <<issued, completed>>
      BY <2>4, <3>1, Evaluating DEF Asked, Evaluated
    <3>3. runs' = [runs EXCEPT ![r] = 1]
      BY <3>1, <3>2
    <3> QED
      BY <3>1, <3>2, <3>3 DEF Once!Run
  <2>5. ASSUME NEW s \in Services, Publish(s) PROVE UNCHANGED <<issued, runs, completed>>
    BY <2>5, Publishing
  <2> QED
    BY <2>1, <2>2, <2>3, <2>4, <2>5, Kinds DEF Once!Next, Eventful, Uneventful
<1> QED
  BY <1>1, <1>2, TypeInvariance, AskedInvariance, EvaluatedInvariance, ToldInvariance, PTL
     DEF Spec, ImplementsOnce, Once!Spec

\* When close() returned without an error no container of this process runs, not even one
\* that a replacement started while the runner was being closed: nothing starts any more.
THEOREM ClosedMeansGoneHolds == Spec => []ClosedMeansGone
<1>1. Init => ClosedMeansGone
  BY DEF Init, ClosedMeansGone
<1>2. Typed /\ Phases /\ ClosedMeansGone /\ [Next]_vars => ClosedMeansGone'
  <2> SUFFICES ASSUME Typed, Phases, ClosedMeansGone, [Next]_vars PROVE ClosedMeansGone'
    OBVIOUS
  <2> USE DEF ClosedMeansGone, Ours, durable, roles, repair
  <2>1. ASSUME NEW c \in Calls, Issue(c) PROVE ClosedMeansGone'
    BY <2>1 DEF Issue, MayBegin
  <2>2. ASSUME NEW c \in Calls, Repeat(c) PROVE ClosedMeansGone'
    BY <2>2 DEF Repeat, MayBegin, End, Raise
  <2>3. ASSUME NEW c \in Calls, Take(c) PROVE ClosedMeansGone'
    BY <2>3 DEF Take, Typed, ServicesTyped, ServiceRecords, CallsTyped, CallRecords
  <2>4. ASSUME NEW c \in Calls, NoSlot(c) PROVE ClosedMeansGone'
    BY <2>4 DEF NoSlot, Goto
  <2>5. ASSUME NEW c \in Calls, Answer(c) PROVE ClosedMeansGone'
    BY <2>5 DEF Answer, Tidy, Typed, ServicesTyped, ServiceRecords, CallsTyped, CallRecords
  <2>6. ASSUME NEW c \in Calls, NoAnswer(c) PROVE ClosedMeansGone'
    BY <2>6 DEF NoAnswer, Goto
  <2>7. ASSUME NEW c \in Calls, TimedOut(c) PROVE ClosedMeansGone'
    <3>0. call[c].slot \in Services /\ UNCHANGED runner
      BY <2>7 DEF TimedOut, Typed, CallsTyped, CallRecords
    <3>1. CASE service' = [service EXCEPT ![call[c].slot] = Reclaimed]
      <4>1. ~Reclaimed.up
        BY DEF Reclaimed, NoService
      <4> QED
        BY <3>0, <3>1, <4>1 DEF Typed, ServicesTyped
    <3>2. CASE ReclaimFails(call[c].slot, service[call[c].slot].state)
      BY <3>0, <3>2 DEF ReclaimFails, Typed, ServicesTyped, ServiceRecords
    <3> QED
      BY <2>7, <3>1, <3>2 DEF TimedOut, Reclaim
  <2>8. ASSUME NEW c \in Calls, Fail(c) PROVE ClosedMeansGone'
    <3>0. call[c].slot \in Services /\ UNCHANGED runner
      BY <2>8 DEF Fail, Typed, CallsTyped, CallRecords
    <3>1. CASE service' = [service EXCEPT ![call[c].slot] = Reclaimed]
      <4>1. ~Reclaimed.up
        BY DEF Reclaimed, NoService
      <4> QED
        BY <3>0, <3>1, <4>1 DEF Typed, ServicesTyped
    <3>2. CASE ReclaimFails(call[c].slot, service[call[c].slot].state)
      BY <3>0, <3>2 DEF ReclaimFails, Typed, ServicesTyped, ServiceRecords
    <3> QED
      BY <2>8, <3>1, <3>2 DEF Fail, Reclaim
  <2>9. ASSUME NEW c \in Calls, WriteResult(c) PROVE ClosedMeansGone'
    BY <2>9 DEF WriteResult, Goto
  <2>10. ASSUME NEW c \in Calls, Complete(c) PROVE ClosedMeansGone'
    BY <2>10 DEF Complete, End
  <2>11. ASSUME NEW c \in Calls, Submit(c) PROVE ClosedMeansGone'
    BY <2>11 DEF Submit, Goto
  <2>12. ASSUME NEW c \in Calls, Respond(c) PROVE ClosedMeansGone'
    BY <2>12 DEF Respond
  <2>13. ASSUME NEW s \in Services, Ready(s) PROVE ClosedMeansGone'
    BY <2>13 DEF Ready, Typed, ServicesTyped, ServiceRecords, CallsTyped, CallRecords
  <2>14. ASSUME NEW s \in Services, Evaluate(s) PROVE ClosedMeansGone'
    BY <2>14 DEF Evaluate, Typed, ServicesTyped, ServiceRecords, CallsTyped, CallRecords
  <2>14a. ASSUME NEW s \in Services, Publish(s) PROVE ClosedMeansGone'
    BY <2>14a DEF Publish, Typed, ServicesTyped, ServiceRecords, CallsTyped, CallRecords
  <2>15. ASSUME NEW s \in Services, Exit(s) PROVE ClosedMeansGone'
    BY <2>15 DEF Exit, Typed, ServicesTyped, ServiceRecords, CallsTyped, CallRecords
  <2>16. ASSUME NEW s \in Services, Replaced(s) PROVE ClosedMeansGone'
    BY <2>16
       DEF Replaced, Replacing, Typed, ServicesTyped, ServiceRecords, CallsTyped, CallRecords
  <2>17. ASSUME NEW s \in Services, ReplaceFails(s) PROVE ClosedMeansGone'
    <3>0. UNCHANGED runner /\ service[s].state = "replacing"
      BY <2>17 DEF ReplaceFails, Replacing
    <3>1. CASE service' = [service EXCEPT ![s] = Reclaimed]
      <4>1. ~Reclaimed.up
        BY DEF Reclaimed, NoService
      <4> QED
        BY <3>0, <3>1, <4>1 DEF Typed, ServicesTyped
    <3>2. CASE ReclaimFails(s, "unreaped")
      BY <3>0, <3>2 DEF ReclaimFails, Typed, ServicesTyped, ServiceRecords
    <3> QED
      BY <2>17, <3>1, <3>2 DEF ReplaceFails, Reclaim
  <2>18. ASSUME Start PROVE ClosedMeansGone'
    BY <2>18 DEF Start
  <2>19. ASSUME Started PROVE ClosedMeansGone'
    BY <2>19 DEF Started, Starting, Typed, ServicesTyped, ServiceRecords, CallsTyped, CallRecords
  <2>20. ASSUME StartFails PROVE ClosedMeansGone'
    BY <2>20
       DEF StartFails, Starting, Typed, ServicesTyped, ServiceRecords, CallsTyped, CallRecords
  <2>21. ASSUME CancelQueued PROVE ClosedMeansGone'
    BY <2>21 DEF CancelQueued
  <2>22. ASSUME CloseExecutor PROVE ClosedMeansGone'
    BY <2>22 DEF CloseExecutor
  <2>23. ASSUME CloseMaintenance PROVE ClosedMeansGone'
    BY <2>23 DEF CloseMaintenance, Replacing
  <2>24. ASSUME Reap PROVE ClosedMeansGone'
    <3> SUFFICES ASSUME runner' = "closed", NEW s \in Services, service'[s].state \notin {"none", "orphan"}
                 PROVE  ~service'[s].up
      OBVIOUS
    <3>1. service'[s] = IF s \notin Ours THEN service[s] ELSE Reclaimed
      BY <2>24 DEF Reap
    <3>2. ~Reclaimed.up
      BY DEF Reclaimed, NoService
    <3> QED
      BY <3>1, <3>2
  <2>25. ASSUME BeginReplace PROVE ClosedMeansGone'
    BY <2>25 DEF BeginReplace
  <2>26. ASSUME Spawn PROVE ClosedMeansGone'
    <3>1. runner # "closed" /\ UNCHANGED runner
      BY <2>26 DEF Spawn, Phases, Typed, HostTyped
    <3> QED
      BY <3>1
  <2>27. ASSUME RunRole PROVE ClosedMeansGone'
    BY <2>27 DEF RunRole
  <2>28. ASSUME RoleStarts PROVE ClosedMeansGone'
    BY <2>28 DEF RoleStarts
  <2>29. ASSUME RoleEnds PROVE ClosedMeansGone'
    BY <2>29 DEF RoleEnds
  <2>30. ASSUME RoleReclaimed PROVE ClosedMeansGone'
    BY <2>30 DEF RoleReclaimed
  <2>31. ASSUME RoleStopped PROVE ClosedMeansGone'
    BY <2>31 DEF RoleStopped
  <2>32. ASSUME Close PROVE ClosedMeansGone'
    BY <2>32 DEF Close, RoleBusy
  <2>33. ASSUME Crash PROVE ClosedMeansGone'
    BY <2>33 DEF Crash
  <2>34. ASSUME UNCHANGED vars PROVE ClosedMeansGone'
    BY <2>34 DEF vars
  <2> QED
    BY <2>1, <2>2, <2>3, <2>4, <2>5, <2>6, <2>7, <2>8, <2>9, <2>10, <2>11, <2>12, <2>13,
       <2>14, <2>14a, <2>15, <2>16, <2>17, <2>18, <2>19, <2>20, <2>21, <2>22, <2>23, <2>24, <2>25,
       <2>26, <2>27, <2>28, <2>29, <2>30, <2>31, <2>32, <2>33, <2>34
       DEF Next, CallStep, ServiceStep, RoleStep, RunnerStep
<1> QED
  BY <1>1, <1>2, TypeInvariance, PhaseInvariance, PTL DEF Spec
=============================================================================
