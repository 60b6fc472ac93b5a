# Verification of oeis-learn

This directory holds TLA+ modules that model the stateful part of `oeis-learn`,
the TLC configurations that check them on small instances, and theorems about
them that the TLAPS proof system checks. Source paths are relative to
`src/src/oeis_learn/` unless they start with `src/`.

The program learns to synthesise WebAssembly programs for integer sequences.
Most of its lines are numerical (encoder, decoder, reinforcement learning), pure
transformation (WAT parsing, lowering, certificates) or measurement and
reporting. What can go wrong in a way a unit test would hardly reach is in the
supervision and durability code: native workers in subprocesses with deadlines,
queues and ledgers with bounds, one owner thread driving many prompts, an
append-only event log and a budget ledger, checkpoints that must survive a crash
at every step, containers and worker processes that outlive their requests, a token
budget that no crash refunds. That code is modelled here, in this order of
importance: who may use a worker and who is charged for it, what is durable, what
a run may spend, and whether every call ends. One pure part is modelled too,
because two programs of the repository must agree on it: the language of bodies,
which a grammar offers token by token and an independent parser reads back.

## Inventory

### Modelled parts

| Part | Source | State it keeps | Operations | Hard behaviour | What makes it correct |
| --- | --- | --- | --- | --- | --- |
| Serial native worker | `synthesis/worker_pool.py` (`_SerialWorker`), `synthesis/service_policy.py` (`RoleCapacity`) | FIFO of pending requests, the active one, process handle, cancellations, a shared cleanup deadline | `call`, `_start`, `_retire`, `close`, `cancel`, `cancel_all` | several callers under one condition variable; pipes read without the lock; a process that hangs or outlives SIGKILL; three readings of the clock in one loop | one batch in the process, its charge outlives it, answers belong to the request, FIFO order, no dispatch past a deadline, every call returns |
| Pool of native slots | the same files (`NativeSlots`, `PipelineCapacity`) | one ledger for the role, one serial worker per slot, generation allocator | `call`, `cancel`, `close`, memory watchdog | the pool's ledger and the slot's loop look at deadline and cancellation at different moments | no charge released beside work, one request per slot, order in a slot, nothing runs after `close` |
| Event log | `tracking/foundation_metrics.py` (`EventLog`) | segment files, `.partial` files, identities in memory | `append`, the constructor | kill, power loss, failing write or fsync at any step, then reopening | acknowledged records stay, none twice, the log can be read back |
| Checkpoint store | `tracking/training_checkpoint.py` (`CheckpointStore`, `QualifiedCheckpointStore`) | blobs, bases, manifests, pending files, quarantine, the pin `final.json` | `save`, `prune`, `recover`, `save_learning`, `prune_learning`, `recover_learning` | kill or power loss between any two file operations, damaged blobs | a fallback always survives, the pin survives, no rollback of a good checkpoint, recovery ends |
| Foundation run | `tracking/foundation_controller.py`, `tracking/budget_ledger.py` | run lock, ledger, checkpoints, pipe, three processes | `run_training`, `_controller`, `_learner`, `BudgetLedger` | any of the processes or the host dies, the caller is interrupted, processes hang, the run is started again | budget never refunded nor exceeded, one learner, checkpoints agree with the ledger, the lock comes back |
| Pipeline scheduler | `fresh/pipeline_scheduler.py` (`drive`), `fresh/pipeline_jobs.py` (`JobLedger`) | ready and active prompts, bounded queue of answers, job ledger, cursor | `drive` and its inner functions, `run_native`, `reserve`, `publish`, `cancel` | native threads that answer late or never, expiry with a grace, errors in one prompt while others run | no job settled twice, each charged exactly if started, round robin, the call ends quietly |
| Container runner and main role | `tracking/role_coordinator.py` (`ContainerRunner`, `RoleCoordinator`) | issue and completion records, result files, the queue of idle containers, futures of the role | `start`, `run_single`, `_replace`, `close`, `_run` | containers that hang, exit or cannot be removed; replacements that start while the runner closes; a host that dies beside its containers | a request is evaluated once and recorded once, no container held twice, none left after `close`, every call ends |
| Sandbox worker pool | `sandbox/worker_pool.py` (`WorkerPool`, `_Slot`) | attempts in flight, a semaphore of permits, the queue of idle slots, result files | `submit`, its done callback, `_run`, `close` | duplicate delivery during and after a run, a future that ends before its callback is set, workers that die, time out or cannot be reaped | one answer per attempt, no permit and no slot lost, an idle slot is clean |
| Generalization learner | `generalization/budgets.py`, `generalization/checkpoints.py`, `pipeline_validation/generalization_training.py`, `generalization_persistence.py`, `fresh/bigint_state.py` | token ledger, generations with their pins, an hourly journal, discarded exposure | `reserve`, `commit`, `train_updates`, `save`, `full_save`, `recover`, `retain`, `GeneralizationCheckpointStore.save` | death between any two writes, resumes of resumes, tensors that are linked and not written, batches that straddle a milestone | spent budget never comes back, generations hold what their ledger claims, milestones are exact |
| Body language | `decoder/bigint_grammar.py`, `decoder/bigint_codec.py`, `decoder/sampler.py`, `synthesis/reference_parser.py` | the prefix of tokens and what the reader knows of it | `BodyState.append` and its mask, `encode_body`, `decode`, `parse` | nesting limits counted in two ways, names and counters in scope, literals at their bound, prefixes that lead nowhere | one language for two programs; the mask is empty only at the nesting limit |

How they interact. `drive()` sends its native requests to `NativeSlots.call`
from one daemon thread each; `NativeSlots` gives every slot a `_SerialWorker` of
its own and reserves it, so the queue of that worker is empty when it is
entered. `run_training` starts a controller process that owns the `EventLog` of
the `BudgetLedger`, and a learner process below it that owns the
`CheckpointStore`; controller and learner exchange messages over a pipe, the
ledger's snapshot travels with the permission to save and is stored in the
checkpoint. `EventLog` and `CheckpointStore` are used by one process at a time,
which `run_lock` is to ensure. `RoleCoordinator` passes the request files of its
main role to the executor of a `ContainerRunner`, whose issue and completion
records are an `EventLog`. The attempts of `sandbox/worker_pool.py` keep one result
file each, which a later controller on the same directory finds. A generalization
learner writes a store of its own in each invocation and starts from the last one
that is usable.

### Parts that are not modelled

`PROJECT.json` lists every one with its reason. Two have a protocol of their own and
are left for later: `RoleCaches` with `BoundedCache`, and the attempts and receipts
of `pipeline_validation/` with the durable state of `fresh/`. Of modelled parts,
these are left out: the policies and boundary receipts of the scheduler, the files
that the role's side of the coordinator (`QueueRunner`) reads and writes,
`selected_copy` and the recovery workflow of the learner, and the stack language of
retired programs (`parse_retained`). Of the calls that start a thread or a job the models
assume success: a `thread.start()` of the scheduler that raises
(`fresh/pipeline_scheduler.py:81` and `:113`) and an `executor.submit` that raises after
the permit was taken (`sandbox/worker_pool.py:244`) are left out, and so is a submitter
that calls `cancel()` on its queued future. The others have no protocol that TLC could
explore: encoder, decoder, reinforcement learning and curriculum are numerical;
discovery, data, evaluation and the sandbox's lowering are pure functions in one
process; the command line and the reports print; the Rust crates appear as external
processes that answer, crash or hang.

## Modules

Definitions keep the names of the source where they can; `PROJECT.json` maps each
to its lines. Operators with a suffix (`Idle_two`, `Cursor_past`) are variants of
the operator below them that a plausible slip in the code would give; nothing
uses them, and replacing the operator by its variant makes the property named for
it fail.

### SerialWorker, MCSerialWorker, SerialWorkerProofs

A call is named by its request identity and made once. `pc[c]` is where a caller
is in `call()`: the loop under the condition variable (`wait`), `_start` and the
I/O loop (`start`, `io`), `_retire` (`retire`, `reap`) and the final block. The
lock makes one iteration of the waiting loop one step, except that time may pass
between its readings of the clock (`StopWaiting`, `Iterate`: the test of the
loop, then `now`). The lock is not held while pipes are read, so `Feed`, `Read`,
`ReadBad`, `Abandon` and `Broken` interleave with everything, and `_retire` holds
the lock while it waits for the process. The ledger's FIFO is a set `pending`
with `ahead[c]`, the requests that were in it when `c` was admitted: what the
order is for, and easier to reason about than a sequence. `cleanup` is the
`cleanup_deadline` that `_retire`, `close` and `cancel_all` share. The process is
external: it responds (`Respond`), with parts, the whole batch or nonsense, and
exits (`Exit`) when it likes; SIGKILL may never take effect. The limits on
resident memory and stderr are one nondeterministic `Abandon`.

### NativeSlots, SlotLease, MCNativeSlots, NativeSlotsProofs

`NativeSlots.call` is `Enqueue` and `Dispatch` on the role's ledger, then a
shorter form of the serial worker's call (`Enter` to `Reap`), then the final block
(`Finish`, `Leave`, `Withdraw`, or `Wedge`, which closes the pool). `close()`
marks every slot (`SlotsClosing`), signals all processes and retires the slots one
by one (`at` is the slot it has come to). The memory watchdog may kill all
processes at any time. Deadlines are independent events (`Expire`): which one
passes first is free. `SlotLease` is the abstract promise, a lock table: a slot is
charged to one request of that slot at a time, only its holder frees it, nothing
is granted after closing. `NativeSlots` implements it with `lease[s]` read off the
active requests (`ImplementsLease`).

### EventLog, DurableLog, StorageProofs

A segment is a sequence of complete lines and a torn tail. `append` is
`StartWrite` (checks, roll over, first bytes), `FinishWrite` and `Sync`;
`AppendAgain` is the idempotent repetition. The constructor is `Open`, or
`SaveEvidence` and `Truncate` when the last line is torn, or `Refuse` when it
raises. `KillWriter` keeps the page cache, `LosePower` keeps any of what was not synced,
`AppendFails` leaves a torn tail in a writer that goes on; a line written after a
torn tail merges with it. `DurableLog` is the promise: identities are unique,
records accumulate, a crash takes nothing that was acknowledged. The names of `EventLog`
(`LogInit`, `LogNext`, `LogSafe`, ...) differ from those of `CheckpointStore` so that one
module can extend both.

### CheckpointStore, StorageProofs

`kind` is the class of the store, fixed for a behaviour. `disk` is what any crash
leaves, `volatile` the directory operations that no fsync covers yet: a power loss
keeps any subset of them (`Survivors`), a kill keeps all. `save()` is `Begin` to
`SaveReturns`, one action per file operation; an operation that is followed by its
fsync at once is one step (`Durably`). `_quarantine` is `Quarantine`: the file leaves the
root for good, but no fsync covers its new directory's place in `quarantine/`. `jail` is what
is found there, of the files whose names the numbering reads, and `loose` what a power loss
may still take; `forgotten` is the history of the manifests it took. A generation is told by
its place in the order of saves; `number` is the one in its file names, which
`NextGeneration` computes from the names found and which may come twice. `recover()` is the
quarantine of leftovers and orphans, then `RejectBlob` and `RejectManifest` from the newest manifest down,
until `Select` or `NothingLeft`. A manifest loads when its blob is there and
undamaged; the tensors are data. A qualified store has a third file, published by
`PublishBase`, unlinked by `UnlinkBase` and quarantined by `RejectBase`; it has no
pin, counts the names of all files for its next number, and its recovery looks at
manifests only and writes nothing when it selects one. Its identity checks against a
contract or a runtime are left out, as nothing here changes either. Also left out are a kill
between an operation and its fsync that is followed by a qualified recovery, which syncs
nothing, and then by a power loss (it takes the last generation, whose save did not return),
and a power loss inside `_quarantine` that leaves the file in both places.

### FoundationRun, FoundationRunProofs

One `run_training` per element of `Runs`, in order; each has an outer process with
the run lock (`parent`), a controller and a learner. `Start` takes the lock and
starts a controller with the allowance left on disk, `Return`, `KillGroup` and
`Interrupted` are the ways out of `join()`. `Controller` is `_controller` by its
messages: recover, start the learner, heartbeat, phases, reports, exhaustion,
closing. `Learner` is `_learner`. The ledger charges the time since its last
record at every record and when it is reopened (`Gap`). The log and the store are
taken at what `DurableLog` and `CheckpointStore` promise. A tick is one unit of
budget. `worked` counts, as a history variable, the ticks at which some learner
was alive: what really happened, to compare with what is charged. What a dead process
knew is dropped when the next run starts (`Forget`), except the update of a learner
whose controller lives: its last message carries it.

### PipelineScheduler, MCPipelineScheduler, PipelineSchedulerProofs

`pc` is where the owner is in `drive()`: first admissions, the top of a round,
taking answers, expiry, the pass over the prompts, decoding, the values of the
group, the idle wait, and `finally` with its drain. `Advance` is `advance()`: the
prompt is given a value and chooses what it asks next, reserves a job, ends or
raises. A native thread ends when it likes (`Finish`) and blocks in `put()` while
the queue is full. `records` is the `JobLedger`. `policy` is chosen at the start:
workers, lookahead, batch, whether the requests have `on_expired`, and
`native_priority`. `failure` is the exception that ends the call: one of the first
admission, of `reserve()`, a `TimeoutError`, the `NonQuiescentWorker` of a drain with
threads left, or another. `CallerCancels` is what `native_trial` does after a
`TimeoutError`, the only exception it catches (`pipeline_validation/role.py:95`); its
cancellation finds every job settled already, by `AllSettled`.
The order of a pass is made once, with the cursor it begins at (`from`): the group that
is decoded in it is in that order, wherever a dispatch of the same pass has moved the
cursor to. `ran` and `passed` are history variables.

### BigintGrammar, BigintCodec, ReferenceParser, SequenceFold, MCBigintGrammar

The code's `Reader` replays a prefix by recursive descent and stops at the token that
is missing. Here the calls it would still make are a stack `todo`, so that `Support`
is the set it raises and `After` the reader one token later. One row of the sampler
draws any supported token among its words (`Emit`) until `<eos>`, the cap or an empty
mask. A sampler's words stand for what its logits favour: they bound the programs
that are written, never the support. `BigintCodec` is `encode_body` and `decode` over
sources that are sequences of words; `ReferenceParser` is the oracle's own reader,
written from `synthesis/reference_parser.py` and sharing no definition with the
grammar. `SequenceFold` is a left fold.

### ContainerRunner, OnceOnly, MCContainerRunner, ContainerRunnerProofs

`call[c]` is a thread in `run_single`: `Issue` or `Repeat`, `Take` or `NoSlot`, then
`Answer`, `NoAnswer` (an exit, or a result that is malformed or for another request) or
`TimedOut`, `Fail` for the except and finally clauses,
`WriteResult` and `Complete`. The deadline may pass at any moment, so it is the
choice between two of these. `service[s]` is a container with its two directories; it
evaluates one request at a time (`Evaluate`) and then writes the value (`Publish`).
`slots` is the queue of idle ones. A replacement is `BeginReplace`, `Spawn`, `Replaced`
or `ReplaceFails` in the maintenance executor, `close()` goes through `CancelQueued`,
`CloseExecutor`, `CloseMaintenance` and `Reap`. `RunRole` to `RoleStopped` is one main
role of `_run`. `Crash` ends the host and keeps its containers, which go on with what
they were given. `OnceOnly` is the promise: a request is evaluated at most once, after
it was issued, and gets one outcome for ever; `ImplementsOnce` reads it off the
completion records.

### WorkerPool, MCWorkerPool, WorkerPoolProofs

A future is named by the call of `submit()` that made it; evidence is named by the
call and the controller that produced it, an error or a limit included. `submit` is
one step under its lock (`Rejected`, `Join`, `Admit`) followed by `Register`, the
`add_done_callback`, before which the future may have ended. The callback is two
steps, `Forget` and `Release`. `_run` is `Begin` (a result of an earlier delivery),
`Get` with the start of a worker, `Send`, `Receive` or `Broken`, `Stop` or
`StopFails`, `Write` or `WriteFails`. A slot whose reclamation fails is never put back
(`StopFails` leaves `free` alone). `Broken` is one of the exceptions that the except clause
of `_run` names (`TimeoutError`, `EOFError`, `OSError`, `ValueError`, `RuntimeError`); any
other would put the slot back with its worker unstopped, and the model has none. `close()` is `Close`, which cancels what is queued,
and `Reclaim` once the threads are gone; `Gone` is the end of the controller at any
moment, after which its submitters may ask again.

### GeneralizationLearner, MCGeneralizationLearner, GeneralizationLearnerProofs

`live` is the memory of one invocation, `own` the store it writes and `disk` the store
a resume would read. `TakeBatch` debits the next batch, `ChooseSave` decides between a
full generation and the journal, `WriteGeneration`, `Retain` and `WriteJournal` are the
atomic writes of a save, `Update` trains and commits, `FinalSave` and `Finish` close in
order. `Crash` is possible everywhere. Weights are the sequence of batches trained on,
so `GenerationsFaithful` can compare them with the ledger, and a save that links
unchanged tensors takes those of the latest generation. `published` counts, as a
history variable, the tokens of every update that was ever made durable, one that a
crash rolled back included. The code takes the store to resume from as an argument; that
the operator names the last usable one is an assumption of the module, and
`WorkIsCharged` and `NeverRefunded` depend on it. A generation saved at a debit has its batch trained again
after a resume for that one debit; `redo` marks it. `Generations` and `Journals` are what
the files of a store may hold.

## Runs

Every run is exhaustive within its bounds. The bounds are chosen so that each
action and each disjunct of the next-state relations fires in some passing run.

| Run | Instance | Properties |
| --- | --- | --- |
| `serial_worker` | two callers, a closing thread, cancellation, two instants plus a grace of one, one message in the pipe | `Safe` (one batch in the process, its charge outlives it, answers belong to the request), `NoLiveProcessDropped`, `EveryCallReturns` under fairness |
| `serial_queue` | three callers, a queue of two requests and two bytes in which `c` needs both, `c` may be cancelled, three instants | `FirstComeFirstServed`, `NoLateDispatch`: a full queue, expiry in the middle of it, a process that never answers |
| `native_slots` | three requests, two slots, pending 2, results 3, two active bytes | `Safe` (no charge released beside work, nothing runs after `close`), `SlotOrder`, `ImplementsLease` |
| `event_log` | four events, segments of two lines, a quota of four, three faults: power losses, kills, or power losses, kills and failed writes mixed | `LogSafe` (the log can be read back), `KeepsEvidence` (refinement of `DurableLog`), `AppendOnly` |
| `checkpoints` | either class of store, generations 0 to 3, two crashes, two damaged blobs | `Safe` (two generations that load survive, and so does the pin; the highest number is the newest save), `NoRollback`, `GenerationsFresh` (a number comes back only for a manifest that a power loss took from quarantine), `RecoveryEnds` under fairness |
| `foundation_run` | two runs, two updates, a budget of two, one fault of five kinds | `Accounting` (the budget is neither refunded nor exceeded), `Consistency` (one learner, each update saved once, checkpoints within the ledger, a completed run is saved), `LockComesBack` under fairness |
| `pipeline` | two or three prompts, four policies, two requests per prompt | `Settlement` (a job charged exactly if started; every job settled at the end, except after a failed first admission or reservation), `Drained` (no thread stuck in `put()`, the call ends quietly), `SettledForGood`, `RoundRobin`, `DriveEnds` under fairness |
| `body_language` | six samplers, bodies of at most 36 tokens, five levels, two parameters, three locals, literals up to 10 | `Agreement` of grammar, codec and parser on every complete body and on all its neighbours; `DeadEndsAtTheLimit` |
| `container_runner` | two requests of a main role, two containers and a successor, one failed removal or exit | `Safe` (no container held twice, an idle one is not reclaimed), `ClosedMeansGone`, `EverythingEnds` under fairness |
| `container_crash` | three calls of the owner, two of them for one request, one container and a successor, one death of the host, one fault | `AnswersAgree`, `ImplementsOnce` (refinement of `OnceOnly`) |
| `learner` | batches of 1, 1, 2 and 2 tokens against a cap of 5, milestones 1, 3 and 5, twelve generations, four invocations, both policies | `Safe` (generations hold what their ledger claims), `WorkIsCharged`, `NeverRefunded`, `MilestonesExact`, `Resumable` |
| `worker_pool` | three calls, two of one attempt with the same or another request, two slots, two permits, two controllers, one failure | `Safe` (an idle slot is clean, an attempt is in flight once), `SlotsAccounted`, `PermitsConserved`, `AnswersAgree` |

`Safe`, `LogSafe`, `Accounting` and `Settlement` hold the type invariant of their module beside
the named parts.

Why the bounds are enough. Two callers contend for one process in every way two
can; a third is needed only for the order of two waiting requests behind an
active one, which `serial_queue` has. `Cancellable` names the requests a run may
cancel, `MaxOut` the messages in the pipe and `MaxTime` the last instant, which
stands for every later one. Two slots and two requests of one of them give
contention inside a slot and over the shared limits at once. Four events fill two
segments, and three faults reach a crash inside the recovery from a crash.
`prune` keeps the two newest manifests and the pin, so with generations 0 to 3 it
deletes whether or not one is pinned; two crashes are the least at which a
recovery is interrupted, and two damaged blobs the least at which it passes over both
of the generations that `prune` keeps. That is why `NoRollback` speaks of two newer
damaged generations: there is no third to fall back on. A number given twice takes three
saves, one damaged blob and one power loss. In `foundation_run`, two runs are one
interruption and one resumption; `OuterFrom = 3` keeps the death of the outer
process alone, after which two controllers run at once, to the end of the time,
where it still is reached together with the properties it must not break. In
`pipeline`, the policies cover two workers, one worker for three prompts, draining
with priority, and requests without `on_expired`; `MaxRequests = 2` lets a prompt ask
again after each answer; `Capacity = 4` is reached by three prompts.

In `body_language`, each sampler has the words of one part of the language (blocks,
loops with counters, locals, arithmetic with parameters and literals), and its limit
lets the constructs of that part nest in one another. The neighbours of a body put each
word and some phrases before a word of it or in its place; a source that only one of the
two programs accepts is looked for among them. In
`container_runner`, two calls and two containers make the replacement of one race the
use of the other and the closing of both; one fault is a removal that fails on any of
the paths that try it. `container_crash` needs one worker only, as its question is what
the next host finds; the second container is the successor beside the orphan. In
`learner`, batches of unequal size straddle a milestone, hit one, and do not fit the
cap; four invocations are the least at which exposure that was discarded twice meets
the cap. In `worker_pool`, a third call occupies the other slot while an attempt is
delivered twice, two permits are fewer than the calls, and the second controller finds
the files of the first.

`CHECK_DEADLOCK FALSE` is set where the system really stops: a store, a run, a body, a
pool, a learner or a scheduler at its end, a log that refused to open.

## Fairness

* `SerialWorker`: the clock runs, and callers and the closing thread take their
  steps. Fairness is strong because a step that needs the lock is disabled while
  another thread holds it in `_retire`; the wait there is bounded by the cleanup
  allowance. Nothing is assumed of the native process.
* `CheckpointStore`: a controller that restarts runs `recover()` to its end.
* `FoundationRun`: time passes and the outer process, which only waits in
  `join(timeout)`, takes its steps. Controller and learner may hang for ever:
  `LockComesBack` is what the watchdog is for.
* `PipelineScheduler`: the owner thread runs and time passes. Nothing is assumed
  of the native threads, which may never answer.
* `ContainerRunner`: every thread of the host goes on (calls, replacements, the role,
  `start()` and `close()`) and deadlines pass, which makes `TimedOut` a step of a
  polling call. Containers owe nothing: `Ready`, `Evaluate`, `Publish` and `Exit` may never happen.

`NativeSlots`, `EventLog`, `WorkerPool`, the learner and the body language have safety
properties only and assume no fairness.

## Other behaviour

The models reach behaviour of the code that a reader should know of. No run is spent
on it; the named formulas are defined in the modules, and TLC refutes them when they
are added to the module's configuration (`LedgerIntact` with `OuterFrom = 1` in it,
`ReadableUnlessFailed` with `{"kill", "power"}` in `Faults`, `NoOrphanCharge` in
`SerialWorkerQueue.cfg`).

Where the code does not do what a comment or a message of it says:

* `NativeSlots!ClosesForCause` (`synthesis/worker_pool.py:445`): a request that expires
  or is cancelled between the pool's dispatch and the slot's own loop finds the warm
  process of an earlier request, takes it for unacknowledged work, closes the pool
  and keeps the charge.
* `EventLog!OpensAgain` (`tracking/foundation_metrics.py:71`): the `.partial` file is
  opened with `xb` under the segment's name. After a crash inside the quarantine,
  or with a second torn line in one segment, the log never opens again.
* `CheckpointStore!PruneFindsItsFiles` (`tracking/training_checkpoint.py:207` and `:656`):
  a kill between the unlinks of one generation leaves a manifest without blob that
  recovery does not reach; every later save raises after it published.
* `CheckpointStore!NumbersNotReused` (`tracking/training_checkpoint.py:58`, "Quarantined
  generations are never reused after rollback"): `_quarantine` (lines 65 to 71) syncs the new
  directory and the root, never `quarantine/`, the directory between them. A power loss after
  the rollback takes the rejected manifest, and the next checkpoint gets its number.
  `GenerationsFresh` says that this is the only way, and `NumbersInOrder`, a part of `Safe`,
  that it does no harm to the order of the manifests in the root.
* `FoundationRun!LedgerIntact` (`tracking/foundation_controller.py:276`): the lock belongs
  to the outer process. If that process dies alone, its controller goes on, and a
  second run writes the same ledger.
* `GeneralizationLearner!UnchangedIsADebit` (`fresh/bigint_state.py:347`): an hourly resume
  that discarded exposure and whose next batch no longer fits marks the batch pending
  without a debit (`pipeline_validation/generalization_training.py:70`). The next full
  save passes its latest generation as unchanged and the store raises "unchanged tensor
  debit transition required"; every later resume comes to the same point.
* `sandbox/worker_pool.py:327`: when `slot.stop()` raises in the finally block, the slot is
  not put back and a later request waits for it. With every slot lost, requests wait for
  ever, and so does `close()`, although the comment at line 344 says that each slot is
  reclaimed whatever another one does. `SlotsAccounted` says that this is the only way to
  lose one.

Where no document promises otherwise:

* `SerialWorker!NoOrphanCharge`: `dispatch()` reads the ledger after the caller's
  test. If the head of the queue expires in between, the next request is charged
  and its caller is never told (`synthesis/worker_pool.py:186`); the charge stays
  until `close()`.
* `cancel_all` on a worker without a process leaves a cleanup deadline behind that a
  much later `_retire` finds in the past (`synthesis/worker_pool.py:68`).
* `EventLog!AcknowledgedIsDurable`: a killed writer may leave a complete line that
  no fsync covers. The next writer reads it, acknowledges its repetition without a
  sync, and a power loss takes it. That is why `KeepsEvidence` speaks of power
  losses.
* `EventLog!ReadableUnlessFailed` (`tracking/foundation_metrics.py:107`): when that
  unsynced line fills its segment, the next writer opens a new segment and syncs only
  that one. A power loss then leaves a gap or a torn line before the last segment, and
  the constructor refuses the log with records in it that are on disk. That is why
  `AlwaysReadable` excludes behaviours with both kills and power losses.
* After a failed write in `append` the torn tail stays, the next record merges with
  it and the segment is unreadable from there (`tracking/foundation_metrics.py:112`).
* The number of a foundation blob that was quarantined without a manifest is given to
  another checkpoint: `next_generation` reads manifests only (`Named`).
* A controller that is killed alone leaves its learner running until its next
  message (`tracking/foundation_controller.py:307`); `OneLearner`, `NoRefund`,
  `BudgetHolds` and `EachUpdateOnce` are stated for behaviours without such a death
  (`NoOrphans`). `poll()` may give up just before a learner sends its last message
  and ends, and a completed run is then reported as failed (line 199); its
  checkpoints are right.
* `PipelineScheduler!NotBlocked`: a queued native request expires at dispatch
  while nothing runs, its prompt asks for another native job, and `drive()` raises
  as if it were blocked (`fresh/pipeline_scheduler.py:100`).
* A failing `reserve()` leaves a prompt in `ready` whose job is not in the ledger:
  the cancellation in `finally` raises `KeyError` and skips the other prompts and
  the drain (lines 28 and 105-112). The first admission is outside the `try` (line
  43). After either, jobs stay `RESERVED` for good: no caller cancels them, as
  `native_trial` catches `TimeoutError` only. `PipelineScheduler!SettledWhateverFails`
  states the opposite; `AllSettled` and `Quiet` name these two cases.
* Not modelled, seen while reading: the accounting of `BoundedCache` and the files on
  disk drift apart when a write fails after its reservation
  (`synthesis/worker_pool.py:588`).

## Proofs

`SerialWorkerProofs` proves, for every set of callers, every queue, every grace and
every bound on time, seven theorems of `Spec`:

| Theorem | Property | Argument |
| --- | --- | --- |
| `TypeCorrect` | `TypeOK` | inductive by itself |
| `OneBatchHolds`, `ChargedHolds`, `OwnRowsHolds` | `OneBatch`, `ChargedWhileRunning`, `OwnRows` | from the invariant `Inv` |
| `NoLiveProcessDroppedHolds` | `NoLiveProcessDropped` | action by action |
| `FirstComeFirstServedHolds` | `FirstComeFirstServed` | from `Inv`, part `Ordered` |
| `NoLateDispatchHolds` | `NoLateDispatch` | action by action |

`OneBatch` is not inductive: to know that a dispatch finds the process free one
has to know that whoever is at work was dispatched (`Working`) and that whoever was
dispatched is charged, alone, and has left the queue (`Charged`, `Waiting`).
`ChargedWhileRunning` needs that the process was fed dispatched requests only
(`FedDispatched`, `NoneFedNothing`) and that a caller in its final block has its
answer or has lost its process (`FinalAnswered`): this is where the final block's
choice to release the charge is justified. FIFO order is `Ordered`: of two pending
requests one was admitted behind the other. `Invariance` proves
`Inv` inductive relative to `TypeOK`, with one step per action of `Next`.

The assumptions are `ConstantsOK` (the threads are distinct, the bounds are
natural numbers) and, for the model but in no proof, `SizesOK`.

`NativeSlotsProofs` proves, for every set of callers and slots, every assignment
of requests to slots and all limits, from the assumption `PoolOK`:

| Theorem | Property | Argument |
| --- | --- | --- |
| `TypeCorrect` | `TypeOK` | inductive by itself |
| `ChargedHolds` | `ChargedWhileRunning` | from `LedgerInv` and `ProcessInv` |
| `NothingRunsHolds` | `NothingRunsAfterClose` | from `CloseInv` |
| `SlotOrderHolds` | `SlotOrder` | from `LedgerInv`, part `Ordered` |
| `Implementation` | `ImplementsLease` | from `LedgerInv`, part `OneUser` |

The argument comes in three layers, each inductive relative to the ones before it.
`LedgerInv` says that the role's ledger and the callers agree: whoever is inside a
slot is charged (`Working`), whoever is charged has left the queue and is not back
at its start (`Charged`, `Waiting`, `Queued`), a slot is charged once (`OneUser`).
`ProcessInv` adds what the processes hold: `ChargedWhileRunning` alone is not
inductive, because the final block releases a charge on the word of `complete`;
`Completed` says that a complete request is no longer in its process, and `FedOwn`
that a process holds requests of its own slot only, so that retiring it clears
them. `CloseInv` says why the order of `close()` is safe although a caller past its
checks may start a process in a slot that was already visited: after the signal, a
process that runs unsignalled has been fed nothing and has a caller that retires it
(`LateStart`). The refinement maps `lease[s]` to the one active request of `s`
(`HolderUnique`): a dispatch is `Acquire`, `Finish` is `Release`, and every other
step stutters or closes.

`WorkerPoolProofs` proves, for every finite set of calls and of slots, every limit and
every choice of requests, from the assumption `PoolAssumption`:

| Theorem | Property | Argument |
| --- | --- | --- |
| `TypeInvariance` | `Typed` | inductive by itself; `TypeOK` without the upper bound of `permits`, with what a stage says of `slot` and `handle` |
| `BooksInvariance` | `Books` | inductive relative to `Typed` |
| `PermitsConservedHolds` | `PermitsConserved` | from `Permits` (`PermitInvariance`), relative to `Books` |
| `SlotsAccountedHolds` | `SlotsAccounted` | from `SlotInv` (`SlotInvariance`) |
| `SafeHolds` | `Safe` | from all of the above |
| `AnswersAgreeHolds` | `AnswersAgree` | from `AnswerInv` (`AnswerInvariance`) |

`Books` relates futures, the map of attempts in flight and the callbacks: a future is
in flight from its admission to its callback (`InFlight`), what is listed is a future of
that attempt (`Listed`), a callback runs after the end of its future (`Hooked`) and
is registered once (`OwnFuture`, `Unregistered`). That is what makes the count of
permits come out although a future may end before its callback is set: `Permits` is
`PermitsConserved` with its bound, by the cardinality of `Outstanding`. `SlotInv` says
who holds a slot (`Held`, `OneHolder`), what its channel may contain at each stage of the
holder (`Channels`, `Unsent`) and that nothing runs when the slots are reclaimed
(`Joined`); `IdleIsClean` is not inductive without it. `AnswerInv` follows a piece of
evidence from the request in the channel (`OwnChannel`) to the thread (`OwnEvidence`),
to the file (`OwnFile`), to the future (`DoneIsDurable`) and to the caller
(`Tickets`, `Answered`).

`SafeHolds` of `SerialWorkerProofs` and of `NativeSlotsProofs` puts the invariants above
together as the runs check them.

`ContainerRunnerProofs` proves, for every set of calls, every name a call may use, all
numbers of workers, containers, crashes and faults, from `RunnerAssumption`:

| Theorem | Property | Argument |
| --- | --- | --- |
| `TypeInvariance`, `PhaseInvariance` | `Typed`, `Phases` | inductive by themselves; which calls are active in which phase of the role and of `close()` |
| `SafeHolds` | `Safe` | from `Holding` (`HoldingInvariance`) |
| `ClosedMeansGoneHolds` | `ClosedMeansGone` | from `Phases`: once the role reaps, nothing is spawned any more |
| `AnswersAgreeHolds` | `AnswersAgree` | from `Told` (`ToldInvariance`) |
| `Implementation` | `ImplementsOnce` | from `Asked`, `Evaluated` and `Told` |

`Safe` is not inductive: `Holding` adds that what a call holds, and what is in the queue
while there are calls to come, is a container that serves, and that a reclaimed one is
reaped. The refinement is what the class is for, and needs three layers. `Asked`: a request is worked on
by one call, is among the inputs of one container, and is with none while its call still
waits for a slot. `Evaluated`: a request that lies unseen in an input directory was never
evaluated, also when the host that put it there is gone and the container is an orphan; an
request it has seen, or an answer in an output directory, was evaluated once. `Told`: a request at work has no completion
record, and a record agrees with `result.json` and with what was returned. With them every
step is one of `OnceOnly` or a stutter, the crash of the host included.

`PipelineSchedulerProofs` proves, for every number of prompts, set of policies, deadline,
grace, envelope and capacity of the ledger, from `SchedulerOK` and `NoneIsNoState`:

| Theorem | Property | Argument |
| --- | --- | --- |
| `TypeInvariance`, `PlaceInvariance` | `Typed`, `Places` | inductive, the second relative to the first |
| `FitInvariance`, `NeverStuckHolds` | `Fits`, `NeverStuck` | relative to `Places` |
| `AccountInvariance`, `SettlementHolds` | `Accounts`, `Settlement` | relative to `Places` |
| `SettledForGoodHolds` | `SettledForGood` | action by action, from `Accounts` |
| `QuietHolds`, `DrainedHolds` | `Quiet`, `Drained` | from the above |
| `OvertakingInvariance`, `RoundRobinHolds` | `Overtaking`, `RoundRobin` | relative to `Places` |

`Places` says that a prompt is in one place: not admitted yet, waiting in `ready`, out with
one thread or one unread answer, in the decoded group, or done. `Account(q)` follows the
jobs of one prompt: only the last can be reserved, a waiting one was never started, one that
is out was. Settlement is then a matter of each path out of `drive()`: the return and every
exception, but for one in the first admission or in `reserve()`. `NeverStuck` is a count: answers and threads are never more than the requests that
are out, nor those more than the workers, so the bounded queue has room for every answer.
Round robin needs `Overtaking`: seen from the cursor, whoever overtook a waiting request
comes after it, and a pass leaves no such request behind it.

`FoundationRunProofs` proves, for every number of runs and updates, every budget, grace and
bound on time, and every set of faults, from `RunOK` and `NoneIsNothing`:

| Theorem | Property | Argument |
| --- | --- | --- |
| `TypeInvariance`, `PhaseInvariance` | `TypeOK`, `Typed` and `Phases` | inductive together: what the learner of a run may have sent at each stage of its controller |
| `OwnershipInvariance`, `OneLearnerHolds`, `OneWriter` | `OneLearner`; `LedgerIntact` unless the outer process died alone | from `Opened`, `Exclusive`, `Attended`, `Running` |
| `CoverInvariance`, `CheckpointsWithinLedgerHolds` | `CheckpointsWithinLedger` | from `Covered`: every snapshot, granted or saved, is of a record in the log |
| `ReportInvariance`, `CompletedIsSavedHolds` | `CompletedIsSaved` | from `Reports`: a report follows the save it reports |
| `OnceInvariance`, `EachUpdateOnceHolds` | `EachUpdateOnce` | from `Once`: what the store holds at each stage of the one learner |
| `WatchInvariance`, `AccountInvariance`, `NoRefundHolds`, `BudgetHoldsAlways` | `NoRefund`, `BudgetHolds` | from `Watchdog` and `Accounts` |
| `ConsistencyHolds`, `AccountingHolds` | `Consistency`, `Accounting` | the above as the run checks them |

None of the properties is inductive. `Exclusive` is the core: a controller that lives has the
lock of its outer process and remembers the last record of the ledger, unless an outer
process died alone, and that is why the lock makes the log one sequence. `Attended` adds
that a learner that lives has its controller unless a controller died alone, `Running` that
the ledger then says the budget runs. The budget is the hardest: `Watchdog` bounds the sum of
what is charged and of what the deadline of the outer process still allows by budget and
grace, over the death and the resumption of every process. `CompletedIsSaved` holds whoever
dies; `CheckpointsWithinLedger` also for the orphan of a controller that died alone, but not
once two controllers write one ledger, which takes the death of an outer process alone.

`StorageProofs` proves of `CheckpointStore`, for both classes of store and every number of generations,
crashes and damaged blobs, from `BoundsOK`:

| Theorem | Property | Argument |
| --- | --- | --- |
| `TypeInvariance` | `Typed` | inductive; `TypeOK`, and only a pending file or an unlink of `prune` ever waits for an fsync |
| `FallbackInvariance` | `IInv` | `Places`, `Numbers`, `Fallback`, `Deleted` and `Pinned`, inductive together with `Typed` |
| `SafeHolds` | `Safe` | from `IInv` |
| `GenerationsFreshHolds` | `GenerationsFresh` | from `Excused`, a part of `Numbers` |
| `NoRollbackHolds` | `NoRollback` | from `IInv`, along the steps of `recover` |

`FallbackKept` speaks of what any crash may leave, so the invariant is about what no crash can
take: a generation is `Good` when it is published and each of its files lasts (`Firm`) or the
storage damaged it. `Fallback` says that every published generation is good or has two newer
good ones, and that `prune` has chosen only such as keep two. A number is not
judged by the files in the root alone. `Covered` says that every published generation has
one at least as new, with no lower number, that is `Marked`: its manifest lasts in the root,
is in quarantine, or was taken from there by a power loss. `prune` keeps it so because it
leaves a newer manifest (`Deleted`), whose number is higher (`Order`). A new number is above
those of the first two kinds, so it can equal an old one only by the third (`Excused`).

Its second half proves of `EventLog`, for every set of events, size of segments, quota and
set of faults, from `LogBoundsOK`:

| Theorem | Property | Argument |
| --- | --- | --- |
| `LogTypeInvariance` | `LogTyped` | inductive; `LogTypeOK`, a segment is there to write to, and a torn tail is only moved away in a log that can be read |
| `LogAppendOnlyHolds` | `AppendOnly` | from `LogTyped`, action by action (`LinesStep`) |
| `LogInvariance` | `LogInv` | `OneUnsynced`, `InOrder` and `Acknowledged`, each kept relative to the ones before it |
| `LogSafeHolds` | `LogSafe` | from `InOrder` |
| `KeepsEvidenceHolds` | `KeepsEvidence` | from `LogInv`, step by step (`LogStepImplements`) |

The lines of a log are a recursion over its segments. `FlattenedExists` and `FlattenedAgree`
show by least counterexample that it has one solution, `FlattenAppend` what one more segment
brings, and `LinesReplace` what another last segment changes; the actions need no more, as
they write at the end only. Readability is not inductive: `InOrder` adds that the writer's
memory is what a reader would find and that its tail is the only one. A power loss is the hard
step. `OneUnsynced` says that without kills nothing but the record under way is unsynced, so it
takes at most the last line (`PowerLossLines`), and only one whose write was complete; then the
writer is at its fsync, and `Acknowledged` says that this line is not an acknowledged one. That
is also the step of the refinement that is `Lose`, where completing a line is `Write` and
everything else acknowledges or stutters. With kills `OneUnsynced` is false, which is how
`ReadableUnlessFailed` was found.

`GeneralizationLearnerProofs` proves, for every frozen order of batches, every cap, set of
milestones and number of generations and invocations, under both policies, from
`LearnerAssumption` and `NoneIsNothing`:

| Theorem | Property | Argument |
| --- | --- | --- |
| `BooksInvariance` | `IInv` | four layers, each kept relative to the ones before it |
| `SafeHolds` | `Safe` | from `Sound` |
| `WorkIsChargedHolds` | `WorkIsCharged` | from `Charges`, and `Place` for the debit on disk |
| `NeverRefundedHolds` | `NeverRefunded` | with the step of `Charges` |
| `MilestonesExactHolds` | `MilestonesExact` | from `Pinning` |
| `ResumableHolds` | `Resumable` | from `Pinning` and `Place` |

`Sound` is the training state: the learner and each generation of either store hold the
weights their ledger claims, within the cap, and tensors may be linked only when the latest
generation has the live weights (`Linkable`). `Place` says where in a save the learner is and
what its own store has of the ledger by then (`Flow`, `Latest`, `Journalled`), and that
`recover()` would accept the journal beside the generation (`Accepted`). `Charges` is the
strengthening that the budget needs: what was published and what the learner has yet to
publish on its debit (`Unpublished`) are within what it was debited, and so for the store a
crash would leave (`OwedAt`), where the redo of one debited batch owes nothing. `Pinning`
follows the milestones: those passed have a generation (`Done`), it is there and at the right
exposure (`Marks`), it is among the pins (`PinsOf`), and none is due once a save is over
(`NoneDue`). That a milestone is at the last complete update below it rests on `BoundaryIs`: the
partial sums of the batches grow, and the milestone lies between two neighbours. They are
shown to exist and to grow by least counterexample (`Least`), as the induction rule of the
library cannot be used here.

Only model-checked:

* liveness under fairness, which the prover does not do: `EveryCallReturns`, `RecoveryEnds`,
  `LockComesBack`, `DriveEnds`, `EverythingEnds`;
* the body language, whose parser is a `RECURSIVE` operator over data.

## Abstractions to know of

* Requests, candidates, tensors, tokens and digests are model values or are left
  out. A "bad" message stands for every malformed or inconsistent response.
* Sizes are small numbers; a line of a log is one unit. The limits on memory and
  stderr are one nondeterministic choice.
* `time.monotonic()` is a clock shared by the threads of a process; deadlines of
  `NativeSlots` are free events.
* A file operation is atomic; a power loss keeps any combination of unsynced
  directory operations, and of an unsynced line all, a part or nothing.
* `atomic_write` of `experiments/artifacts.py` is one step, and so are the generations
  of `GeneralizationCheckpointStore` (everything is written before the pointer moves) and
  an `append` of the runner's log, which `CheckpointStore` and `EventLog` look inside of.
* The owner of a container runner makes its calls one at a time, and the liveness run has
  calls of the main role only. `HeldOnce` keeps a removed container out of the queue, not one
  that died by itself: the next call that takes it gets `NoAnswer`.
* The time a learner has, its random state and its replay are left out; a full disk or a
  failing update is a crash.
* The spacing of a source, and names and numbers beyond a small vocabulary, are left out
  of the body language.

## Plan

Done: `SerialWorker`, `NativeSlots` over `SlotLease`, `WorkerPool`, `CheckpointStore` for
both classes of store, `FoundationRun`, `PipelineScheduler`, `ContainerRunner` over
`OnceOnly`, `GeneralizationLearner` and `EventLog` over `DurableLog`, with their proofs; and
the body language.

Modules left, in this order:

1. `RoleCaches` with `BoundedCache`: accounting against files.
2. `QueueRunner`, the role's side of the coordinator's files.
3. `selected_copy` and the recovery workflow of the learner.
4. The attempts and receipts of `pipeline_validation/`, then the durable run of `fresh/`.

Theorems left: the safety properties of every concurrent component are proved; what remains
to TLC is liveness and the body language, for the reasons given under Proofs. The modules above
should be proved about as they are written.
