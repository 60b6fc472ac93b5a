---------------------------- MODULE FoundationRun ----------------------------
(***************************************************************************)
(* One training run of tracking/foundation_controller.py, started again    *)
(* and again: run_training (the outer process, with the run lock and the   *)
(* last deadline), _controller (the writer of the budget ledger) and       *)
(* _learner (the writer of the checkpoints), with the BudgetLedger of      *)
(* tracking/budget_ledger.py.                                              *)
(*                                                                         *)
(* The ledger's log and the checkpoint store are taken at their promises:  *)
(* an append is atomic and durable (DurableLog), a save publishes one      *)
(* generation or nothing and recovery returns the newest (CheckpointStore).*)
(* Clocks agree; a tick of time is one unit of budget.  An outer process   *)
(* whose deadline has come acts before more time passes, as join(timeout)  *)
(* does; the controller and the learner may be slow or hang at any point.  *)
(***************************************************************************)
EXTENDS Integers, FiniteSets, FiniteSetsExt, Sequences

CONSTANTS Runs,       \* calls of run_training, in order: 1..n
          Updates,    \* training updates of the run
          Budget,     \* budget_ns
          Grace,      \* the 2 seconds of join(allowance + 2)
          MaxTime,    \* bound on time
          Faults,     \* among the deaths "learner", "controller", "outer", "host", and
                      \* "caller", an exception in the caller (say KeyboardInterrupt)
          MaxFaults,  \* bound on faults
          OuterFrom,  \* bound: the outer process dies alone from this time on only
          None

ASSUME RunOK == /\ Runs = 1..Cardinality(Runs) /\ Updates \in Nat \ {0}
                /\ Budget \in Nat \ {0} /\ Grace \in Nat /\ MaxTime \in Nat
                /\ MaxFaults \in Nat /\ OuterFrom \in Nat

ACTIVE   == {"validation", "training", "checkpoint", "recovery"}
INACTIVE == {"paused", "completed", "failed"}

VARIABLES
  now,        \* the clock
  ledger,     \* the last record of the ledger's log, or None
  spoilt,     \* the log holds two records of one sequence number
  store,      \* the published checkpoints
  lock,       \* the run whose outer process holds run_lock, or None
  outer, deadline, resume, \* per run: the outer process and its argument
  controller, memory,  \* per run: the controller and the ledger state it holds
  learner, update,     \* per run: the learner and its completed update
  granted,    \* per run: the snapshot the next save will carry
  message,    \* per run: the message in the pipe to the controller
  worked,     \* history: time with a learner running
  faults      \* history: the faults so far

vars == <<now, ledger, spoilt, store, lock, outer, deadline, resume, controller, memory,
          learner, update, granted, message, worked, faults>>
disk   == <<ledger, spoilt, store>>
parent == <<lock, outer, deadline, resume>>
child  == <<learner, update, granted, message>>
rest   == <<now, worked, faults, parent>> \* what the controller and the learner leave alone

Snapshots   == [sequence : Nat, charged : Nat]
Checkpoints == [update : 0..Updates, ledger : Snapshots]
Messages    == {"checkpoint", "training", "update", "saved", "done"}
Records     == [sequence : Nat, charged : Nat, status : ACTIVE \cup INACTIVE,
                clock : 0..MaxTime]

ASSUME NoneIsNothing == /\ None \notin Runs /\ None \notin Messages
                        /\ None \notin Snapshots /\ None \notin Records

TypeOK ==
  /\ now \in 0..MaxTime /\ worked \in Nat /\ spoilt \in BOOLEAN
  /\ ledger \in Records \cup {None} /\ store \subseteq Checkpoints
  /\ lock \in Runs \cup {None}
  /\ outer \in [Runs -> {"idle", "waiting", "returned", "dead"}] /\ deadline \in [Runs -> Nat]
  /\ resume \in [Runs -> BOOLEAN]
  /\ controller \in [Runs -> {"none", "open", "enter", "check", "loop", "poll",
                              "finishing", "failing", "exited"}]
  /\ memory \in [Runs -> Records \cup {None}]
  /\ learner \in [Runs -> {"none", "start", "next", "ask", "wait", "work", "save", "saved", "exited"}]
  /\ update \in [Runs -> 0..Updates] /\ granted \in [Runs -> Snapshots \cup {None}]
  /\ message \in [Runs -> Messages \cup {None}]
  /\ Len(faults) <= MaxFaults

Init ==
  /\ now = 0 /\ ledger = None /\ spoilt = FALSE /\ store = {} /\ lock = None
  /\ outer = [r \in Runs |-> "idle"] /\ deadline = [r \in Runs |-> 0]
  /\ controller = [r \in Runs |-> "none"] /\ memory = [r \in Runs |-> None]
  /\ learner = [r \in Runs |-> "none"] /\ update = [r \in Runs |-> 0]
  /\ granted = [r \in Runs |-> None] /\ message = [r \in Runs |-> None]
  /\ resume = [r \in Runs |-> FALSE] /\ worked = 0 /\ faults = << >>

ControllerAlive(r) == controller[r] \notin {"none", "exited"}
LearnerAlive(r)    == learner[r] \notin {"none", "exited"}

-----------------------------------------------------------------------------
\* BudgetLedger

\* Time since a record, if that record says the budget is running.
Gap(record) == IF record.status \in ACTIVE THEN now - record.clock ELSE 0

Estimate_none(record) == 0 \* mutant: the time before a reopening is not charged

\* What reopening charges for the time nobody was there to measure.
Estimate(record) == Gap(record)

Fresh == [sequence |-> 0, charged |-> 0, status |-> "paused", clock |-> now]

Reopened == [ledger EXCEPT !.sequence = @ + 1, !.clock = now, !.charged = @ + Estimate(ledger)]

Next_(record, status) ==
  [record EXCEPT !.sequence = @ + 1, !.clock = now, !.status = status,
                 !.charged = @ + Gap(record)]

\* Append a record computed from what this controller remembers.
Append_(r, record) ==
  /\ ledger' = record /\ memory' = [memory EXCEPT ![r] = record]
  /\ spoilt' = (spoilt \/ (ledger # None /\ record.sequence # ledger.sequence + 1))

Record(r, status) == Append_(r, Next_(memory[r], status))

\* remaining_ns(); remaining_on_disk() does the same sum with the last record of the log.
Remaining(record) == Budget - record.charged - Gap(record)

Snapshot(record) == [sequence |-> record.sequence, charged |-> record.charged]

\* check_checkpoint()
WithinLedger(c, record) ==
  c.ledger.sequence <= record.sequence /\ c.ledger.charged <= record.charged


\* The update of the checkpoint recover() returns: the newest.
Recovered == Max({c.update : c \in store})

-----------------------------------------------------------------------------
\* run_training


Allowance == IF ledger = None THEN Budget ELSE Remaining(ledger)

Expired_never(r) == FALSE \* mutant: join() has no timeout

\* join(allowance + 2) gives up on run r.
Expired(r) == now >= deadline[r]

\* What an ended process knew went with it, unless it had sent it (the "done" message carries
\* the update); the model drops it when the next run starts.
Forget ==
  /\ memory' = [q \in Runs |-> IF ControllerAlive(q) THEN memory[q] ELSE None]
  /\ update' = [q \in Runs |-> IF LearnerAlive(q) \/ ControllerAlive(q) THEN update[q] ELSE 0]
  /\ granted' = [q \in Runs |-> IF LearnerAlive(q) THEN granted[q] ELSE None]
  /\ message' = [q \in Runs |-> IF ControllerAlive(q) THEN message[q] ELSE None]

\* A ledger can only be resumed; resuming a run that has none is a mistake it survives.
Start(r) ==
  /\ outer[r] = "idle" /\ \A q \in Runs : q < r => outer[q] # "idle"
  /\ lock = None /\ Allowance > 0
  /\ now + Allowance + Grace <= MaxTime                    \* bound
  /\ lock' = r /\ outer' = [outer EXCEPT ![r] = "waiting"]
  /\ \E argument \in BOOLEAN : /\ ledger # None => argument
                               /\ resume' = [resume EXCEPT ![r] = argument]
  /\ deadline' = [deadline EXCEPT ![r] = now + Allowance + Grace]
  /\ controller' = [controller EXCEPT ![r] = "open"]
  /\ Forget
  /\ UNCHANGED <<now, worked, faults, disk, learner>>

Release(r, state) ==
  /\ lock' = None /\ outer' = [outer EXCEPT ![r] = state]
  /\ deadline' = [deadline EXCEPT ![r] = 0] /\ UNCHANGED resume

\* The process of the controller ended, whatever its exit code.
Return(r) ==
  /\ outer[r] = "waiting" /\ controller[r] = "exited"
  /\ Release(r, "returned")
  /\ UNCHANGED <<now, worked, faults, disk, controller, memory, child>>


\* The learners in the process group of controller r.
Group(r) == {r}

Kill(r) ==
  /\ Release(r, "returned")
  /\ controller' = [controller EXCEPT ![r] = "exited"]
  /\ learner' = [q \in Runs |-> IF q \in Group(r) /\ LearnerAlive(q) THEN "exited" ELSE learner[q]]
  /\ UNCHANGED <<now, worked, disk, memory, update, granted, message>>

\* join() timed out: SIGKILL for the process group of the controller.
KillGroup(r) ==
  outer[r] = "waiting" /\ Expired(r) /\ ControllerAlive(r) /\ Kill(r) /\ UNCHANGED faults

MayFail(kind) == kind \in Faults /\ Len(faults) < MaxFaults /\ faults' = Append(faults, kind)

\* join() raised: the same, even for a learner whose controller is gone.
Interrupted(r) == outer[r] = "waiting" /\ MayFail("caller") /\ Kill(r)

-----------------------------------------------------------------------------
\* _controller

Become(r, state) == controller' = [controller EXCEPT ![r] = state]

\* The constructor raises, and raises ever after, when the log repeats a sequence number.
OpenLedger(r) ==
  /\ controller[r] = "open"
  /\ IF spoilt THEN Become(r, "exited") /\ UNCHANGED <<ledger, spoilt, memory>>
               ELSE /\ Append_(r, IF ledger = None THEN Fresh ELSE Reopened)
                    /\ Become(r, "enter")
  /\ UNCHANGED <<rest, store, child>>

EnterPhase(r) ==
  /\ controller[r] = "enter"
  /\ Record(r, IF resume[r] THEN "recovery" ELSE "validation") /\ Become(r, "check")
  /\ UNCHANGED <<rest, store, child>>

\* The guard found no space, or there is no checkpoint to resume from, or the checkpoint
\* is ahead of the ledger: no learner is started.
Refuse(r) ==
  /\ controller[r] = "check" /\ Become(r, "failing")
  /\ UNCHANGED <<rest, disk, memory, child>>

StartLearner(r) ==
  /\ controller[r] = "check"
  /\ IF resume[r] THEN /\ store # {}
                       /\ \A c \in store : c.update = Recovered => WithinLedger(c, memory[r])
                  ELSE TRUE
  /\ Become(r, "loop") /\ learner' = [learner EXCEPT ![r] = "start"]
  /\ UNCHANGED <<rest, disk, memory, update, granted, message>>

\* The top of the loop.
Exhausted(r) ==
  /\ controller[r] = "loop" /\ Remaining(memory[r]) <= 0 /\ Become(r, "failing")
  /\ UNCHANGED <<rest, disk, memory, child>>

\* A second has passed; the guard that follows may fail.
Heartbeat(r) ==
  /\ controller[r] = "loop" /\ Remaining(memory[r]) > 0 /\ now > memory[r].clock
  /\ Record(r, memory[r].status)
  /\ \E state \in {"poll", "failing"} : Become(r, state)
  /\ UNCHANGED <<rest, store, child>>

NoHeartbeat(r) ==
  /\ controller[r] = "loop" /\ Remaining(memory[r]) > 0 /\ Become(r, "poll")
  /\ UNCHANGED <<rest, disk, memory, child>>

\* poll() found nothing, and asked later the process still ran ...
StillRuns(r) ==
  /\ controller[r] = "poll" /\ message[r] = None /\ LearnerAlive(r) /\ Become(r, "loop")
  /\ UNCHANGED <<rest, disk, memory, child>>

\* ... or had ended, perhaps after a last message that poll() was too early for.
LearnerGone(r) ==
  /\ controller[r] = "poll" /\ ~LearnerAlive(r) /\ Become(r, "failing")
  /\ UNCHANGED <<rest, disk, memory, child>>

\* The answer reaches a learner that lives; a dead one breaks the pipe.
Reply(r, state) ==
  /\ message' = [message EXCEPT ![r] = None]
  /\ Become(r, IF LearnerAlive(r) THEN "loop" ELSE "failing")
  /\ learner' = [learner EXCEPT ![r] = IF LearnerAlive(r) THEN state ELSE @]

HandlePhase_stale(r) == \* mutant: answers before the phase is in the log
  /\ controller[r] = "poll" /\ message[r] \in {"checkpoint", "training"}
  /\ granted' = [granted EXCEPT ![r] = Snapshot(Next_(memory[r], message[r]))]
  /\ Reply(r, IF message[r] = "checkpoint" THEN "save" ELSE "work")
  /\ UNCHANGED <<rest, disk, memory, update>>

HandlePhase(r) ==
  /\ controller[r] = "poll" /\ message[r] \in {"checkpoint", "training"}
  /\ Record(r, message[r])
  /\ granted' = [granted EXCEPT ![r] = IF message[r] = "checkpoint" THEN Snapshot(memory'[r])
                                                                    ELSE None]
  /\ Reply(r, IF message[r] = "checkpoint" THEN "save" ELSE "work")
  /\ UNCHANGED <<rest, store, update>>


HandleReport(r) ==
  /\ controller[r] = "poll" /\ message[r] \in {"update", "saved"}
  /\ Reply(r, IF message[r] = "update" THEN "ask" ELSE "saved")
  /\ UNCHANGED <<rest, disk, memory, update, granted>>

HandleDone(r) ==
  /\ controller[r] = "poll" /\ message[r] = "done" /\ Become(r, "finishing")
  /\ message' = [message EXCEPT ![r] = None]
  /\ UNCHANGED <<rest, disk, memory, learner, update, granted>>


\* The last word of the ledger on a run.
Status(r) == IF controller[r] = "failing" THEN "failed"
             ELSE IF update[r] = Updates THEN "completed" ELSE "paused"

\* _reap(), the last transition and the report.
Close(r) ==
  /\ controller[r] \in {"finishing", "failing"}
  /\ Record(r, Status(r)) /\ Become(r, "exited")
  /\ learner' = [learner EXCEPT ![r] = IF LearnerAlive(r) THEN "exited" ELSE @]
  /\ UNCHANGED <<rest, store, update, granted, message>>

Controller(r) ==
  \/ OpenLedger(r) \/ EnterPhase(r) \/ Refuse(r) \/ StartLearner(r)
  \/ Exhausted(r) \/ Heartbeat(r) \/ NoHeartbeat(r) \/ StillRuns(r) \/ LearnerGone(r)
  \/ HandlePhase(r) \/ HandleReport(r) \/ HandleDone(r) \/ Close(r)

-----------------------------------------------------------------------------
\* _learner

\* Send a message; with the controller gone the pipe is broken and the learner ends.
Send(r, kind, state) ==
  IF ControllerAlive(r)
  THEN message' = [message EXCEPT ![r] = kind] /\ learner' = [learner EXCEPT ![r] = state]
  ELSE learner' = [learner EXCEPT ![r] = "exited"] /\ UNCHANGED message

\* FoundationTrainer(root, resume=...)
LearnerStarts(r) ==
  /\ learner[r] = "start"
  /\ update' = [update EXCEPT ![r] = IF resume[r] THEN Recovered ELSE 0]
  /\ learner' = [learner EXCEPT ![r] = IF resume[r] THEN "next" ELSE "ask"]
  /\ UNCHANGED <<rest, disk, controller, memory, granted, message>>

AsksToSave(r) ==
  /\ learner[r] = "ask" /\ Send(r, "checkpoint", "wait")
  /\ UNCHANGED <<rest, disk, controller, memory, update, granted>>

\* The loop goes on, unless the updates are done or stop_after ends it.
AsksToTrain(r) ==
  /\ learner[r] \in {"next", "saved"} /\ update[r] < Updates /\ Send(r, "training", "wait")
  /\ UNCHANGED <<rest, disk, controller, memory, update, granted>>

LearnerDone(r) ==
  /\ learner[r] = "saved" \/ (learner[r] = "next" /\ update[r] = Updates)
  /\ Send(r, "done", "exited")
  /\ UNCHANGED <<rest, disk, controller, memory, update, granted>>

Trains(r) ==
  /\ learner[r] = "work" /\ update' = [update EXCEPT ![r] = @ + 1]
  /\ Send(r, "update", "wait")
  /\ UNCHANGED <<rest, disk, controller, memory, granted>>

\* save(): the first one is not reported.
Saves(r) ==
  /\ learner[r] = "save"
  /\ store' = store \cup {[update |-> update[r], ledger |-> granted[r]]}
  /\ IF update[r] = 0 THEN learner' = [learner EXCEPT ![r] = "next"] /\ UNCHANGED message
                      ELSE Send(r, "saved", "wait")
  /\ granted' = [granted EXCEPT ![r] = None]
  /\ UNCHANGED <<rest, ledger, spoilt, controller, memory, update>>

\* The pipe ends while the learner waits for an answer.
PipeEnds(r) ==
  /\ learner[r] = "wait" /\ ~ControllerAlive(r)
  /\ learner' = [learner EXCEPT ![r] = "exited"]
  /\ UNCHANGED <<rest, disk, controller, memory, update, granted, message>>

Learner(r) == \/ LearnerStarts(r) \/ AsksToSave(r) \/ AsksToTrain(r) \/ LearnerDone(r)
              \/ Trains(r) \/ Saves(r) \/ PipeEnds(r)

-----------------------------------------------------------------------------
\* Faults and time

\* An exception in the learner ends it too: the controller raises at its message.
LearnerDies(r) ==
  /\ LearnerAlive(r) /\ MayFail("learner") /\ learner' = [learner EXCEPT ![r] = "exited"]
  /\ UNCHANGED <<now, worked, parent, disk, controller, memory, update, granted, message>>

\* A learner is no daemon: it outlives its controller.
ControllerDies(r) ==
  /\ ControllerAlive(r) /\ MayFail("controller") /\ Become(r, "exited")
  /\ UNCHANGED <<now, worked, parent, disk, memory, child>>

\* A signal Python does not turn into an exception: the lock goes with the process, the
\* controller, in a session of its own, stays.
OuterDies(r) ==
  /\ outer[r] = "waiting" /\ now >= OuterFrom /\ MayFail("outer") /\ Release(r, "dead")
  /\ UNCHANGED <<now, worked, disk, controller, memory, child>>

HostDies ==
  /\ MayFail("host") /\ lock' = None /\ deadline' = [r \in Runs |-> 0]
  /\ \E r \in Runs : ControllerAlive(r) \/ LearnerAlive(r)
  /\ outer' = [r \in Runs |-> IF outer[r] = "waiting" THEN "dead" ELSE outer[r]]
  /\ controller' = [r \in Runs |-> IF ControllerAlive(r) THEN "exited" ELSE controller[r]]
  /\ learner' = [r \in Runs |-> IF LearnerAlive(r) THEN "exited" ELSE learner[r]]
  /\ UNCHANGED <<now, worked, resume, disk, memory, update, granted, message>>

Tick ==
  /\ now < MaxTime                                         \* bound
  /\ ~ \E r \in Runs : outer[r] = "waiting" /\ Expired(r) /\ ControllerAlive(r)
  /\ now' = now + 1
  /\ worked' = worked + (IF \E r \in Runs : LearnerAlive(r) THEN 1 ELSE 0)
  /\ UNCHANGED <<faults, parent, disk, controller, memory, child>>

Next ==
  \/ Tick \/ HostDies
  \/ \E r \in Runs : \/ Start(r) \/ Return(r) \/ KillGroup(r) \/ Interrupted(r)
                     \/ Controller(r) \/ Learner(r)
                     \/ LearnerDies(r) \/ ControllerDies(r) \/ OuterDies(r)

Spec == Init /\ [][Next]_vars

\* Time passes and the caller waits in join(); the controller and the learner may hang.
FairSpec == Spec /\ WF_vars(Tick) /\ \A r \in Runs : WF_vars(Return(r)) /\ WF_vars(KillGroup(r))

-----------------------------------------------------------------------------
\* Properties

Suffered(kind) == \E i \in DOMAIN faults : faults[i] = kind

\* No process died without its parent noticing and ending what was below it.
NoOrphans == ~Suffered("controller") /\ ~Suffered("outer")

\* No time with a learner at work goes uncharged: it is charged, or it is in the gap the
\* next record or the next reopening will charge.
NoRefund == NoOrphans => worked <= (IF ledger = None THEN 0 ELSE ledger.charged + Gap(ledger))

\* However often the run is interrupted and resumed, its learners together get the frozen
\* budget and the grace of one watchdog.
BudgetHolds == NoOrphans => worked <= Budget + Grace

\* The budget of a run, however it is interrupted: all its work is charged and its learners
\* together stay within it.
Accounting == TypeOK /\ NoRefund /\ BudgetHolds

\* Two learners never train the same run at once.
OneLearner == NoOrphans => \A r, q \in Runs : LearnerAlive(r) /\ LearnerAlive(q) => r = q

\* No update is saved twice: a resumed learner goes on from the newest checkpoint.
EachUpdateOnce == NoOrphans => \A c, d \in store : c.update = d.update => c = d

\* No checkpoint is ahead of the durable ledger, so check_checkpoint() never refuses a run
\* its own checkpoints; the orphan of a dead controller cannot save one either.
CheckpointsWithinLedger ==
  ~Suffered("outer") => \A c \in store : WithinLedger(c, ledger)

\* A run whose ledger says completed has the checkpoint of its last update, whoever died.
CompletedIsSaved ==
  ledger # None => (ledger.status = "completed" => \E c \in store : c.update = Updates)

\* Learners, checkpoints and ledger agree, whichever of them a fault ends first.
Consistency == OneLearner /\ EachUpdateOnce /\ CheckpointsWithinLedger /\ CompletedIsSaved

\* The ledger's log is one sequence: no two controllers ever wrote it at once.
LedgerIntact == ~spoilt

\* run_training() always gives the run lock back, even if controller and learner hang: no
\* training run keeps its caller, or the next one, waiting for ever.
LockComesBack == []<>(lock = None)
=============================================================================
