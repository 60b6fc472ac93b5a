-------------------------- MODULE ContainerRunner --------------------------
(***************************************************************************)
(* The host's candidate service and the main role above it                 *)
(* (tracking/role_coordinator.py).  ContainerRunner keeps a queue of       *)
(* containers that each evaluate requests they find as files; a request is *)
(* logged as issued before a container can see it and as complete once its *)
(* result is on disk.  RoleCoordinator runs the main role, hands its       *)
(* request files to the runner's executor and waits for them in the end.   *)
(* EventLog.append and atomic_write are single steps here (EventLog and    *)
(* CheckpointStore look inside them).  A value is the container that       *)
(* computed it, Deadline (recorded like any other) or Interrupted (not     *)
(* recorded).                                                              *)
(***************************************************************************)
EXTENDS Integers, FiniteSets

CONSTANTS
  Calls,       \* invocations of run_single
  Name,        \* Calls -> request id; two calls may carry one id
  RoleCalls,   \* those that the main role asks for; the owner makes the others
  Workers,     \* worker_count
  MaxServices, \* containers a history may start (a bound)
  MaxFutures,  \* outstanding role requests (32)
  MaxCrashes,  \* deaths of the host process (a bound)
  MaxFaults,   \* failed removals and containers that exit by themselves (a bound)
  None, Deadline, Interrupted

Services == 1 .. MaxServices
Values == Services \cup {None, Deadline, Interrupted}

ASSUME RunnerAssumption ==
  /\ RoleCalls \subseteq Calls
  /\ Workers \in Nat \ {0} /\ MaxFutures \in Nat \ {0} /\ MaxServices \in Nat
  /\ MaxCrashes \in Nat /\ MaxFaults \in Nat
  /\ Cardinality({None, Deadline, Interrupted}) = 3
  /\ {None, Deadline, Interrupted} \cap Services = {}

VARIABLES
  host,        \* which process of the host this is, 0 .. MaxCrashes
  issued,      \* durable: requests with an issue record
  completed,   \* durable: request |-> value of its completion record
  file,        \* durable: request |-> value in its result.json
  call,        \* Calls |-> its thread, see NoCall
  service,     \* Services |-> its container, see NoService
  slots,       \* the queue of idle containers
  maintenance, \* replacements submitted and not yet begun
  spawning,    \* replacements that found the runner open and start their container
  runner,      \* "new", "setup", "open", then the stages of close()
  role,        \* the main role, see Roles
  futures,     \* role calls _run has neither answered nor seen fail
  runs,        \* history: request |-> how often a container evaluated it
  faults

durable == <<issued, completed, file>>
roles == <<role, futures>>
repair == <<maintenance, spawning>>
vars == <<host, durable, call, service, slots, repair, runner, roles, runs, faults>>

\* A role prefixes its request ids with a name of its own, drawn afresh each time.
Id(c) == <<Name[c], IF c \in RoleCalls THEN host ELSE 0>>
Requests == {<<Name[c], h>> : c \in Calls, h \in 0 .. MaxCrashes}

CallStates == {"idle", "queued", "waiting", "polling", "failing", "writing", "completing",
               "done", "raised", "cancelled"}
ServiceStates == {"none", "starting", "serving", "replacing", "reaped", "unreaped", "orphan"}
RunnerStates == {"new", "setup", "open", "closing", "executor", "maintenance", "reaping",
                 "closed", "broken"}
Roles == {"idle", "setup", "running", "ending", "waiting", "stopped", "failed"}

NoCall == [pc |-> "idle", id |-> None, slot |-> None, value |-> None]
\* inputs and outputs are its two directories, seen the requests it has evaluated.
NoService == [state |-> "none", up |-> FALSE, client |-> FALSE, ready |-> FALSE,
              reclaimed |-> FALSE, inputs |-> {}, seen |-> {}, outputs |-> {}]

Active(c) == call[c].pc \in {"waiting", "polling", "failing", "writing", "completing"}
Pending(c) == Active(c) \/ call[c].pc = "queued"
ClosingNow == runner \in {"closing", "executor", "maintenance", "reaping"}
Ours == {s \in Services : service[s].state \notin {"none", "orphan"}}
Fresh == {s \in Services : service[s].state = "none"}

Init ==
  /\ host = 0 /\ issued = {} /\ faults = 0 /\ slots = {} /\ futures = {}
  /\ completed = [r \in Requests |-> None] /\ file = [r \in Requests |-> None]
  /\ call = [c \in Calls |-> NoCall] /\ service = [s \in Services |-> NoService]
  /\ maintenance = 0 /\ spawning = 0 /\ runner = "new" /\ role = "idle" /\ runs = [r \in Requests |-> 0]

---------------------------------------------------------------------------
(* The containers.                                                         *)

Spawned(state) == [NoService EXCEPT !.state = state, !.up = TRUE, !.client = TRUE]

\* serve() has written ready.json.
Ready(s) ==
  /\ service[s].up /\ ~service[s].ready
  /\ service' = [service EXCEPT ![s].ready = TRUE]
  /\ UNCHANGED <<host, durable, call, slots, repair, runner, roles, runs, faults>>

\* serve() evaluates a file it has not seen, one at a time; a container whose host died
\* goes on.
Evaluate(s) ==
  /\ service[s].up /\ service[s].ready /\ service[s].seen \subseteq service[s].outputs
  /\ \E r \in service[s].inputs \ service[s].seen :
       /\ runs' = [runs EXCEPT ![r] = @ + 1]
       /\ service' = [service EXCEPT ![s].seen = @ \cup {r}]
  /\ UNCHANGED <<host, durable, call, slots, repair, runner, roles, faults>>

\* serve() writes the value of the request that it evaluated.
Publish(s) ==
  /\ service[s].up
  /\ \E r \in service[s].seen \ service[s].outputs :
       service' = [service EXCEPT ![s].outputs = @ \cup {r}]
  /\ UNCHANGED <<host, durable, call, slots, repair, runner, roles, runs, faults>>

Exit(s) ==
  /\ service[s].up /\ faults < MaxFaults /\ faults' = faults + 1
  /\ service' = [service EXCEPT ![s].up = FALSE, ![s].client = FALSE]
  /\ UNCHANGED <<host, durable, call, slots, repair, runner, roles, runs>>

\* reclaim: remove the container; its local client is killed in any case.  Nobody looks
\* into the directories of a removed container again.
Reclaimed == [NoService EXCEPT !.state = "reaped", !.reclaimed = TRUE]
Reclaim(s) ==
  /\ service' = [service EXCEPT ![s] = Reclaimed]
  /\ UNCHANGED faults

ReclaimFails(s, state) ==
  /\ faults < MaxFaults /\ faults' = faults + 1
  /\ service' = [service EXCEPT ![s].client = FALSE, ![s].state = state]

---------------------------------------------------------------------------
(* start and the replacements.                                             *)

Starting == {s \in Services : service[s].state = "starting"}
Replacing == {s \in Services : service[s].state = "replacing"}

Start ==
  /\ runner = "new" /\ role \in {"idle", "setup"}
  /\ \E S \in SUBSET Fresh :
       /\ Cardinality(S) = Workers /\ \A s \in S, t \in Fresh \ S : s < t
       /\ service' = [s \in Services |-> IF s \in S THEN Spawned("starting") ELSE service[s]]
  /\ runner' = "setup"
  /\ UNCHANGED <<host, durable, call, slots, repair, roles, runs, faults>>

Started ==
  /\ runner = "setup" /\ \A s \in Starting : service[s].ready
  /\ service' = [s \in Services |->
                   IF s \in Starting THEN [service[s] EXCEPT !.state = "serving"] ELSE service[s]]
  /\ slots' = Starting /\ runner' = "open"
  /\ UNCHANGED <<host, durable, call, repair, roles, runs, faults>>

\* A container exits or the deadline passes: start() closes the runner and raises.
StartFails ==
  /\ runner = "setup" /\ \E s \in Starting : ~service[s].ready
  /\ runner' = "closing" /\ role' = IF role = "setup" THEN "failed" ELSE role
  /\ service' = [s \in Services |->
                   IF s \in Starting THEN [service[s] EXCEPT !.state = "serving"] ELSE service[s]]
  /\ UNCHANGED <<host, durable, call, slots, repair, futures, runs, faults>>

\* _replace: nothing once closing is set.
BeginReplace ==
  /\ maintenance > 0 /\ maintenance' = maintenance - 1
  /\ spawning' = IF runner = "open" THEN spawning + 1 ELSE spawning
  /\ UNCHANGED <<host, durable, call, service, slots, runner, roles, runs, faults>>

\* Popen raises when nothing more can be started: the bound of the model.
Spawn ==
  /\ spawning > 0 /\ spawning' = spawning - 1
  /\ \/ Fresh = {} /\ UNCHANGED service
     \/ \E s \in Fresh : /\ \A t \in Fresh : s <= t
                        /\ service' = [service EXCEPT ![s] = Spawned("replacing")]
  /\ UNCHANGED <<host, durable, call, slots, maintenance, runner, roles, runs, faults>>

Replaced(s) ==
  /\ s \in Replacing /\ service[s].ready /\ runner = "open"
  /\ service' = [service EXCEPT ![s].state = "serving"] /\ slots' = slots \cup {s}
  /\ UNCHANGED <<host, durable, call, repair, runner, roles, runs, faults>>

\* Twenty seconds, an exit or the closing of the runner; nobody spawns another.
ReplaceFails(s) ==
  /\ s \in Replacing /\ (~service[s].ready \/ runner # "open")
  /\ Reclaim(s) \/ ReclaimFails(s, "unreaped")
  /\ UNCHANGED <<host, durable, call, slots, repair, runner, roles, runs>>

---------------------------------------------------------------------------
(* run_single, after the validation of its arguments.                      *)

Goto(c, pc) == call' = [call EXCEPT ![c].pc = pc]
End(pc, id, value) == [NoCall EXCEPT !.pc = pc, !.id = id, !.value = value]
Raise(c) == call' = [call EXCEPT ![c] = End("raised", None, None)]
RoleBusy == role \in {"setup", "running", "ending", "waiting"}

\* The executor takes a queued call; the owner's thread makes one, perhaps again,
\* when it is free.
MayBegin(c) ==
  \/ /\ c \in RoleCalls /\ call[c].pc = "queued"
     /\ Cardinality({d \in RoleCalls : Active(d)}) < Workers
  \/ /\ c \notin RoleCalls /\ ~Active(c)
     /\ runner = "open" /\ ~RoleBusy /\ ~\E d \in Calls \ RoleCalls : Active(d)

\* Mutants: a restart that regenerates what has no completion record; a log never read.
Issue_regenerates(c) ==
  /\ MayBegin(c) /\ completed[Id(c)] = None
  /\ issued' = issued \cup {Id(c)}
  /\ call' = [call EXCEPT ![c] = [@ EXCEPT !.pc = "waiting", !.id = Id(c), !.value = Deadline]]
  /\ UNCHANGED <<host, completed, file, service, slots, repair, runner, roles, runs, faults>>

Issue_always(c) ==
  /\ MayBegin(c)
  /\ issued' = issued \cup {Id(c)}
  /\ call' = [call EXCEPT ![c] = [@ EXCEPT !.pc = "waiting", !.id = Id(c), !.value = Deadline]]
  /\ UNCHANGED <<host, completed, file, service, slots, repair, runner, roles, runs, faults>>

Issue(c) ==
  /\ MayBegin(c) /\ Id(c) \notin issued
  /\ issued' = issued \cup {Id(c)}
  /\ call' = [call EXCEPT ![c] = [@ EXCEPT !.pc = "waiting", !.id = Id(c), !.value = Deadline]]
  /\ UNCHANGED <<host, completed, file, service, slots, repair, runner, roles, runs, faults>>

\* A repeat: the recorded value, "no regeneration", or an error for another content.
Repeat(c) ==
  /\ MayBegin(c) /\ Id(c) \in issued
  /\ LET known == completed[Id(c)] # None
         value == IF known THEN file[Id(c)] ELSE Interrupted
     IN call' = [call EXCEPT ![c] = End("done", Id(c), value)] \/ Raise(c)
  /\ UNCHANGED <<host, durable, service, slots, repair, runner, roles, runs, faults>>

\* slots.get takes an idle container even when the deadline has passed.  The deadline may
\* pass at any moment: it is the choice between Take and NoSlot, Answer and TimedOut.
Take(c) ==
  /\ call[c].pc = "waiting"
  /\ \E s \in slots :
       /\ slots' = slots \ {s}
       /\ call' = [call EXCEPT ![c].pc = "polling", ![c].slot = s]
       /\ service' = [service EXCEPT ![s].inputs = @ \cup {call[c].id}]
  /\ UNCHANGED <<host, durable, repair, runner, roles, runs, faults>>

NoSlot(c) ==
  /\ call[c].pc = "waiting" /\ slots = {}
  /\ Goto(c, "writing")
  /\ UNCHANGED <<host, durable, service, slots, repair, runner, roles, runs, faults>>

\* Both files are unlinked before the container goes back; it then forgets the name.
Tidy(s, r) == [service[s] EXCEPT !.inputs = @ \ {r}, !.outputs = @ \ {r}, !.seen = @ \ {r}]

Answer(c) ==
  LET s == call[c].slot  r == call[c].id IN
  /\ call[c].pc = "polling" /\ r \in service[s].outputs
  /\ service' = [service EXCEPT ![s] = Tidy(s, r)]
  /\ slots' = slots \cup {s}
  /\ call' = [call EXCEPT ![c] = [@ EXCEPT !.pc = "writing", !.slot = None, !.value = s]]
  /\ UNCHANGED <<host, durable, repair, runner, roles, runs, faults>>

\* The container exited without an answer, or its answer is malformed or for another request.
NoAnswer(c) ==
  LET s == call[c].slot IN
  /\ call[c].pc = "polling"
  /\ ~service[s].client \/ call[c].id \in service[s].outputs
  /\ Goto(c, "failing")
  /\ UNCHANGED <<host, durable, service, slots, repair, runner, roles, runs, faults>>

\* Mutant: the polling loop without its deadline.
TimedOut_never(c) == FALSE

TimedOut(c) ==
  LET s == call[c].slot IN
  /\ call[c].pc = "polling"
  /\ \/ /\ Reclaim(s) /\ maintenance' = maintenance + 1 /\ UNCHANGED spawning
        /\ call' = [call EXCEPT ![c].pc = "writing", ![c].slot = None]
     \/ /\ ReclaimFails(s, service[s].state) /\ Goto(c, "failing")
        /\ UNCHANGED repair
  /\ UNCHANGED <<host, durable, slots, runner, roles, runs>>

\* Mutant: the finally clause does not look at "reclaimed".
Fail_puts_back(c) ==
  LET s == call[c].slot IN
  /\ call[c].pc = "failing" /\ Raise(c) /\ slots' = slots \cup {s}
  /\ \/ Reclaim(s) /\ maintenance' = maintenance + 1
     \/ ReclaimFails(s, service[s].state) /\ UNCHANGED maintenance
  /\ UNCHANGED <<host, durable, spawning, runner, roles, runs>>

\* The except and finally clauses: a container that was not reclaimed is put back.
Fail(c) ==
  LET s == call[c].slot IN
  /\ call[c].pc = "failing"
  /\ Raise(c)
  /\ \/ Reclaim(s) /\ maintenance' = maintenance + 1 /\ UNCHANGED slots
     \/ ReclaimFails(s, service[s].state) /\ slots' = slots \cup {s} /\ UNCHANGED maintenance
  /\ UNCHANGED <<host, durable, spawning, runner, roles, runs>>

WriteResult(c) ==
  /\ call[c].pc = "writing"
  /\ file' = [file EXCEPT ![call[c].id] = call[c].value] /\ Goto(c, "completing")
  /\ UNCHANGED <<host, issued, completed, service, slots, repair, runner, roles, runs, faults>>

Complete(c) ==
  /\ call[c].pc = "completing"
  /\ completed' = [completed EXCEPT ![call[c].id] = call[c].value]
  /\ call' = [call EXCEPT ![c] = End("done", call[c].id, call[c].value)]
  /\ UNCHANGED <<host, issued, file, service, slots, repair, runner, roles, runs, faults>>

---------------------------------------------------------------------------
(* RoleCoordinator._run: one main role in each process of the host.        *)

RunRole ==
  /\ role = "idle" /\ runner \in {"new", "open"} /\ ~\E c \in Calls : Active(c)
  /\ role' = "setup"
  /\ UNCHANGED <<host, durable, call, service, slots, repair, runner, futures, runs, faults>>

\* runner.start returned; its time may have used up the role's.
RoleStarts ==
  /\ role = "setup" /\ runner = "open"
  /\ role' \in {"running", "failed"}
  /\ UNCHANGED <<host, durable, call, service, slots, repair, runner, futures, runs, faults>>

Submit(c) ==
  /\ c \in RoleCalls /\ role = "running" /\ call[c].pc = "idle"
  /\ Cardinality(futures) < MaxFutures
  /\ Goto(c, "queued") /\ futures' = futures \cup {c}
  /\ UNCHANGED <<host, durable, service, slots, repair, runner, role, runs, faults>>

\* The response is written; the exception of a failed call ends the role.
Respond(c) ==
  /\ role = "running" /\ c \in futures /\ call[c].pc \in {"done", "raised"}
  /\ \/ call[c].pc = "done" /\ futures' = futures \ {c} /\ UNCHANGED role
     \/ call[c].pc = "raised" /\ role' = "ending" /\ UNCHANGED futures
  /\ UNCHANGED <<host, durable, call, service, slots, repair, runner, runs, faults>>

\* Exit, deadline, a breached floor or one request too many.
RoleEnds ==
  /\ role = "running" /\ role' = "ending"
  /\ UNCHANGED <<host, durable, call, service, slots, repair, runner, futures, runs, faults>>

\* When the removal of the role's container raises, neither loop below it runs.
RoleReclaimed ==
  /\ role = "ending"
  /\ \/ role' = "waiting" /\ UNCHANGED faults
     \/ role' = "failed" /\ faults < MaxFaults /\ faults' = faults + 1
  /\ UNCHANGED <<host, durable, call, service, slots, repair, runner, futures, runs>>

RoleStopped ==
  /\ role = "waiting" /\ ~\E c \in futures : Pending(c)
  /\ role' = "stopped" /\ futures' = {}
  /\ UNCHANGED <<host, durable, call, service, slots, repair, runner, runs, faults>>

---------------------------------------------------------------------------
(* close                                                                   *)

Close ==
  /\ runner \in {"new", "open", "broken"} /\ ~RoleBusy
  /\ ~\E d \in Calls \ RoleCalls : Active(d)
  /\ runner' = "closing"
  /\ UNCHANGED <<host, durable, call, service, slots, repair, roles, runs, faults>>

\* executor.shutdown: the queued calls are cancelled, the others waited for.
CancelQueued ==
  /\ runner = "closing" /\ runner' = "executor"
  /\ call' = [c \in Calls |-> IF call[c].pc = "queued" THEN [call[c] EXCEPT !.pc = "cancelled"]
                                                       ELSE call[c]]
  /\ UNCHANGED <<host, durable, service, slots, repair, roles, runs, faults>>

CloseExecutor ==
  /\ runner = "executor" /\ ~\E c \in RoleCalls : Active(c)
  /\ runner' = "maintenance" /\ maintenance' = 0
  /\ UNCHANGED <<host, durable, call, service, slots, spawning, roles, runs, faults>>

\* Mutant: shutdown(wait=False) for the replacements.
CloseMaintenance_no_wait ==
  /\ runner = "maintenance"
  /\ runner' = "reaping"
  /\ UNCHANGED <<host, durable, call, service, slots, repair, roles, runs, faults>>

\* maintenance.shutdown: the replacements not yet begun are cancelled, the others waited for.
CloseMaintenance ==
  /\ runner = "maintenance" /\ spawning = 0 /\ Replacing = {}
  /\ runner' = "reaping"
  /\ UNCHANGED <<host, durable, call, service, slots, repair, roles, runs, faults>>

\* Every container that was not reclaimed gets one attempt, all at the same time.
Reap ==
  /\ runner = "reaping"
  /\ \E kept \in SUBSET {s \in Ours : ~service[s].reclaimed} :
       /\ faults + Cardinality(kept) <= MaxFaults /\ faults' = faults + Cardinality(kept)
       /\ service' = [s \in Services |->
            IF s \notin Ours THEN service[s]
            ELSE IF s \in kept THEN [service[s] EXCEPT !.client = FALSE]
            ELSE Reclaimed]
       /\ runner' = IF kept = {} THEN "closed" ELSE "broken"
  /\ UNCHANGED <<host, durable, call, slots, repair, roles, runs>>

---------------------------------------------------------------------------
\* The host dies; its containers do not, and the next process knows nothing of them.
Crash ==
  /\ host < MaxCrashes /\ host' = host + 1
  /\ call' = [c \in Calls |-> IF call[c].pc = "done" /\ c \notin RoleCalls THEN call[c] ELSE NoCall]
  /\ service' = [s \in Services |->
                   IF s \in Ours THEN [service[s] EXCEPT !.state = "orphan", !.client = FALSE,
                                                        !.reclaimed = FALSE]
                   ELSE service[s]]
  /\ slots' = {} /\ maintenance' = 0 /\ spawning' = 0 /\ runner' = "new" /\ role' = "idle" /\ futures' = {}
  /\ UNCHANGED <<durable, runs, faults>>

CallStep(c) ==
  \/ Issue(c) \/ Repeat(c) \/ Take(c) \/ NoSlot(c) \/ Answer(c) \/ NoAnswer(c) \/ TimedOut(c)
  \/ Fail(c) \/ WriteResult(c) \/ Complete(c)
ServiceStep(s) == Replaced(s) \/ ReplaceFails(s)
RoleStep == RoleStarts \/ (\E c \in Calls : Respond(c)) \/ RoleEnds \/ RoleReclaimed \/ RoleStopped
RunnerStep == Started \/ StartFails \/ CancelQueued \/ CloseExecutor \/ CloseMaintenance \/ Reap

Next ==
  \/ \E c \in Calls : CallStep(c) \/ Submit(c)
  \/ \E s \in Services : Ready(s) \/ Evaluate(s) \/ Publish(s) \/ Exit(s) \/ ServiceStep(s)
  \/ Start \/ RunnerStep \/ BeginReplace \/ Spawn \/ RunRole \/ RoleStep \/ Close \/ Crash

\* Deadlines pass and every thread of the host goes on; containers owe nothing.
Fairness ==
  /\ \A c \in Calls : WF_vars(CallStep(c))
  /\ \A s \in Services : WF_vars(ServiceStep(s))
  /\ WF_vars(RoleStep) /\ WF_vars(RunnerStep) /\ WF_vars(BeginReplace) /\ WF_vars(Spawn)

Spec == Init /\ [][Next]_vars /\ Fairness

---------------------------------------------------------------------------
(* Properties.                                                             *)

CallRecords == [pc : CallStates, id : Requests \cup {None}, slot : Services \cup {None},
                value : Values]
ServiceRecords == [state : ServiceStates, up : BOOLEAN, client : BOOLEAN, ready : BOOLEAN,
                   reclaimed : BOOLEAN, inputs : SUBSET Requests, seen : SUBSET Requests,
                   outputs : SUBSET Requests]

TypeOK ==
  /\ host \in 0 .. MaxCrashes /\ faults \in Nat /\ maintenance \in Nat /\ spawning \in Nat
  /\ issued \subseteq Requests /\ slots \subseteq Services /\ futures \subseteq RoleCalls
  /\ completed \in [Requests -> Values] /\ file \in [Requests -> Values]
  /\ call \in [Calls -> CallRecords] /\ service \in [Services -> ServiceRecords]
  /\ runner \in RunnerStates /\ role \in Roles /\ runs \in [Requests -> Nat]

\* Evaluated at most once and recorded at most once, over crashes, deadlines that race an
\* answer, failed removals and repeats (run_single's log and the files it shares).
Once == INSTANCE OnceOnly WITH Outcomes <- Services \cup {Deadline}, outcome <- completed
ImplementsOnce == Once!Spec

\* Every value run_single ever returned for a request is the recorded one, unless it says
\* that the issued request was interrupted.
AnswersAgree ==
  \A c \in Calls : call[c].pc = "done" =>
    call[c].value = Interrupted \/ call[c].value = completed[call[c].id]

\* When close() returns without an error no container of this process is left, those
\* included that a replacement started while the runner was being closed.
ClosedMeansGone == runner = "closed" => \A s \in Ours : ~service[s].up

\* An idle container, put back even after its removal failed, is nobody's and not reclaimed;
\* no two calls hold one container.
HeldOnce ==
  /\ \A c, d \in Calls : c # d /\ call[c].slot # None => call[c].slot # call[d].slot
  /\ \A c \in Calls : call[c].slot \notin slots
  /\ runner = "open" => \A s \in slots : ~service[s].reclaimed

Safe == TypeOK /\ HeldOnce

\* Every call that run_single or the executor accepted ends, and so does every close().
EverythingEnds ==
  /\ \A c \in Calls : Pending(c) ~> ~Pending(c)
  /\ ClosingNow ~> ~ClosingNow
=============================================================================
