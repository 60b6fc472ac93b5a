----------------------------- MODULE NativeSlots -----------------------------
(***************************************************************************)
(* The pool of native slots of synthesis/worker_pool.py (NativeSlots): one *)
(* ledger for the role (PipelineCapacity of synthesis/service_policy.py),  *)
(* several slots, each a _SerialWorker that the ledger reserves for one    *)
(* request at a time, so its own queue is always empty when it is entered. *)
(*                                                                         *)
(* Deadlines are independent of each other: a request expires at a moment  *)
(* of its own (Expire), and the wait for a killed process may time out at  *)
(* any moment.  SerialWorker models both with a clock.                     *)
(***************************************************************************)
EXTENDS Integers, FiniteSets, FiniteSetsExt

CONSTANTS Callers,      \* one call each, named by its unique request_id
          Slots,        \* slot numbers
          Home,         \* Home[c]: prompt_ordinal % workers
          Size,         \* Size[c]: bytes of the request's frame
          Closer, Nobody,
          MaxPending, MaxResults, MaxActiveBytes,
          Cancellable   \* bound: the requests that may be cancelled

ASSUME PoolOK ==
  /\ Slots = 0..(Cardinality(Slots) - 1) /\ IsFiniteSet(Slots) /\ Slots # {}
  /\ Home \in [Callers -> Slots] /\ Size \in [Callers -> Nat \ {0}]
  /\ Closer \notin Callers /\ Nobody \notin Callers /\ Closer # Nobody
  /\ MaxPending \in Nat /\ MaxResults \in Nat /\ MaxActiveBytes \in Nat

Threads == Callers \cup {Closer}
ProcessStatus == {"none", "running", "killed", "exited"}
Alive(status) == status \in {"running", "killed"}

VARIABLES expired,                                    \* deadlines that passed
          pending, ahead, active, cancelled, closed,  \* the role's ledger
          generation,                                 \* the pool's allocator
          slotClosed, slotCancelled, lock,            \* per slot: flags, lock
          proc, fed,                                  \* per slot: the process
          pc, queued, dispatched, complete, at        \* per thread

vars == <<expired, pending, ahead, active, cancelled, closed, generation, slotClosed,
          slotCancelled, lock, proc, fed, pc, queued, dispatched, complete, at>>

ledger  == <<pending, ahead, active, cancelled, closed>>
process == <<proc, fed>>
locals  == <<queued, dispatched, complete>>

Inside == {"enter", "start", "io", "retire", "reap"}   \* inside slot.call()

TypeOK ==
  /\ expired \subseteq Callers /\ pending \subseteq Callers
  /\ ahead \in [Callers -> SUBSET Callers]
  /\ active \subseteq Callers /\ cancelled \subseteq Callers /\ closed \in BOOLEAN
  /\ generation \in Nat
  /\ slotClosed \in [Slots -> BOOLEAN] /\ slotCancelled \subseteq Callers
  /\ lock \in [Slots -> Threads \cup {Nobody}]
  /\ proc \in [Slots -> ProcessStatus]
  /\ fed \in [Slots -> SUBSET Callers]
  /\ pc \in [Threads -> {"idle", "wait", "signal", "final", "done"} \cup Inside]
  /\ queued \in [Callers -> BOOLEAN] /\ dispatched \in [Callers -> BOOLEAN]
  /\ complete \in [Callers -> BOOLEAN]
  /\ at \in Nat

Init ==
  /\ expired = {} /\ pending = {} /\ ahead = [c \in Callers |-> {}]
  /\ active = {} /\ cancelled = {} /\ closed = FALSE /\ generation = 0
  /\ slotClosed = [s \in Slots |-> FALSE] /\ slotCancelled = {}
  /\ lock = [s \in Slots |-> Nobody]
  /\ proc = [s \in Slots |-> "none"]
  /\ fed = [s \in Slots |-> {}]
  /\ pc = [t \in Threads |-> "idle"]
  /\ queued = [c \in Callers |-> FALSE] /\ dispatched = [c \in Callers |-> FALSE]
  /\ complete = [c \in Callers |-> FALSE]
  /\ at = 0

Goto(t, label) == pc' = [pc EXCEPT ![t] = label]
-----------------------------------------------------------------------------
(* call(): the role's ledger, under the pool's lock *)

Bytes(S) == LET size(c) == Size[c] IN MapThenSumSet(size, S)

Call(c) ==
  /\ pc[c] = "idle"
  /\ Goto(c, "wait")
  /\ UNCHANGED <<expired, ledger, generation, slotClosed, slotCancelled, lock, process,
                 locals, at>>

MayWait(c) == ~closed /\ c \notin cancelled /\ c \notin expired

StopWaiting(c) ==
  /\ pc[c] = "wait" /\ ~MayWait(c)
  /\ Goto(c, "final")
  /\ UNCHANGED <<expired, ledger, generation, slotClosed, slotCancelled, lock, process,
                 locals, at>>

\* enqueue: room for the request and, held until it is committed, its output.
HasRoom(c) ==
  /\ Cardinality(pending) < MaxPending
  /\ Size[c] <= MaxActiveBytes
  /\ Cardinality(pending) + Cardinality(active) < MaxResults

Before_none(c) == {}      \* mutant: no order within the slot
Before(c) == {d \in pending : Home[d] = Home[c]}

Enqueue(c) ==
  /\ pc[c] = "wait" /\ MayWait(c) /\ ~queued[c]
  /\ HasRoom(c)
  /\ pending' = pending \cup {c}
  /\ ahead' = [ahead EXCEPT ![c] = Before(c)]
  /\ queued' = [queued EXCEPT ![c] = TRUE]
  /\ UNCHANGED <<expired, active, cancelled, closed, generation, slotClosed,
                 slotCancelled, lock, process, pc, dispatched, complete, at>>

\* dispatch(slot): the slot is free, the caller is at the head of the slot's
\* queue and still has time, and the payload fits beside the active ones.
SlotFree_any(s) == TRUE                          \* mutant: a second request per slot
SlotFree(s) == ~\E d \in active : Home[d] = s
Fits(c) == Bytes(active) + Size[c] <= MaxActiveBytes

Dispatch(c) ==
  /\ pc[c] = "wait" /\ MayWait(c)
  /\ queued[c] /\ ahead[c] \cap pending = {}
  /\ SlotFree(Home[c]) /\ Fits(c)
  /\ pending' = pending \ {c}
  /\ active' = active \cup {c}
  /\ dispatched' = [dispatched EXCEPT ![c] = TRUE]
  /\ Goto(c, "enter")
  /\ UNCHANGED <<expired, ahead, cancelled, closed, generation, slotClosed,
                 slotCancelled, lock, process, queued, complete, at>>
-----------------------------------------------------------------------------
(* slot.call(): one request in the slot's own process *)

Enter(c) ==
  /\ pc[c] = "enter" /\ lock[Home[c]] = Nobody
  /\ c \notin expired /\ ~slotClosed[Home[c]] /\ c \notin slotCancelled
  /\ Goto(c, "start")
  /\ UNCHANGED <<expired, ledger, generation, slotClosed, slotCancelled, lock, process,
                 locals, at>>

\* The slot's own waiting loop refuses: nothing ran, nothing is retired.
Refuse(c) ==
  /\ pc[c] = "enter" /\ lock[Home[c]] = Nobody
  /\ c \in expired \/ slotClosed[Home[c]] \/ c \in slotCancelled
  /\ slotCancelled' = slotCancelled \ {c}
  /\ Goto(c, "final")
  /\ UNCHANGED <<expired, ledger, generation, slotClosed, lock, process, locals, at>>

\* _start: keep a live process, reap a dead one, start with a new generation.
NextGeneration == generation + 1

Start(c) ==
  LET s == Home[c] IN
  /\ pc[c] = "start" /\ lock[s] = Nobody
  /\ IF Alive(proc[s])
     THEN UNCHANGED <<generation, process>>
     ELSE /\ generation' = NextGeneration
          /\ proc' = [proc EXCEPT ![s] = "running"]
          /\ fed' = [fed EXCEPT ![s] = {}]
  /\ Goto(c, "io")
  /\ UNCHANGED <<expired, ledger, slotClosed, slotCancelled, lock, locals, at>>

\* Popen raises OSError after the generation was allocated.
StartFails(c) ==
  LET s == Home[c] IN
  /\ pc[c] = "start" /\ lock[s] = Nobody /\ ~Alive(proc[s])
  /\ generation' = NextGeneration
  /\ proc' = [proc EXCEPT ![s] = "none"]
  /\ fed' = [fed EXCEPT ![s] = {}]
  /\ Goto(c, "retire")
  /\ UNCHANGED <<expired, ledger, slotClosed, slotCancelled, lock, locals, at>>

\* The I/O loop goes round again, and the request reaches the process.
Feed(c) ==
  LET s == Home[c] IN
  /\ pc[c] = "io" /\ proc[s] = "running" /\ c \notin fed[s]
  /\ c \notin expired /\ ~slotClosed[s] /\ c \notin slotCancelled
  /\ fed' = [fed EXCEPT ![s] = @ \cup {c}]
  /\ UNCHANGED <<expired, ledger, generation, slotClosed, slotCancelled, lock, proc,
                 pc, locals, at>>

\* A complete response of this generation to this request.
Complete(c) ==
  LET s == Home[c] IN
  /\ pc[c] = "io" /\ proc[s] # "none" /\ c \in fed[s]
  /\ complete' = [complete EXCEPT ![c] = TRUE]
  /\ fed' = [fed EXCEPT ![s] = @ \ {c}]
  /\ slotCancelled' = slotCancelled \ {c}
  /\ Goto(c, "final")
  /\ UNCHANGED <<expired, ledger, generation, slotClosed, lock, proc, queued,
                 dispatched, at>>

\* The deadline, cancel(), close(), a bad response, end of file.
Abandon(c) ==
  /\ pc[c] = "io"
  /\ Goto(c, "retire")
  /\ UNCHANGED <<expired, ledger, generation, slotClosed, slotCancelled, lock, process,
                 locals, at>>

\* Every live process is signalled.
KillAll == proc' = [s \in Slots |-> IF Alive(proc[s]) THEN "killed" ELSE proc[s]]

\* _watch: the slots together use too much memory.
Watchdog(c) ==
  /\ pc[c] = "io"
  /\ KillAll
  /\ Goto(c, "retire")
  /\ UNCHANGED <<expired, ledger, generation, slotClosed, slotCancelled, lock, fed,
                 locals, at>>

\* _retire of a slot without a process.
RetireNothing(c) ==
  /\ pc[c] = "retire" /\ lock[Home[c]] = Nobody /\ proc[Home[c]] = "none"
  /\ slotCancelled' = slotCancelled \ {c}
  /\ Goto(c, "final")
  /\ UNCHANGED <<expired, ledger, generation, slotClosed, lock, process, locals, at>>

\* The slot a thread is retiring: its own, or the one close() has come to.
Place(t) == IF t = Closer THEN at ELSE Home[t]

Retire(t) ==
  LET s == Place(t) IN
  /\ pc[t] = "retire" /\ lock[s] = Nobody /\ proc[s] # "none"
  /\ lock' = [lock EXCEPT ![s] = t]
  /\ proc' = [proc EXCEPT ![s] = IF Alive(proc[s]) THEN "killed" ELSE @]
  /\ Goto(t, "reap")
  /\ UNCHANGED <<expired, ledger, generation, slotClosed, slotCancelled, fed,
                 locals, at>>

\* The wait for a process that has not exited is bounded.
GivesUp(s) == proc[s] # "exited"

ExitAcknowledged(s) == proc[s] = "exited"

Reap(c) ==
  LET s == Home[c] IN
  /\ pc[c] = "reap" /\ ExitAcknowledged(s)
  /\ proc' = [proc EXCEPT ![s] = "none"]
  /\ fed' = [fed EXCEPT ![s] = {}]
  /\ lock' = [lock EXCEPT ![s] = Nobody]
  /\ slotCancelled' = slotCancelled \ {c}
  /\ Goto(c, "final")
  /\ UNCHANGED <<expired, ledger, generation, slotClosed, locals, at>>

\* NonQuiescentWorker: the slot closes, its process handle is kept.
ReapTimeout(c) ==
  LET s == Home[c] IN
  /\ pc[c] = "reap" /\ GivesUp(s)
  /\ slotClosed' = [slotClosed EXCEPT ![s] = TRUE]
  /\ lock' = [lock EXCEPT ![s] = Nobody]
  /\ Goto(c, "final")
  /\ UNCHANGED <<expired, ledger, generation, slotCancelled, process, locals, at>>
-----------------------------------------------------------------------------
(* The final block of call(), under the pool's lock *)

\* The slot is known to hold no work of this request.
Acknowledged_always(c) == TRUE     \* mutant: the charge is always released
Acknowledged(c) == complete[c] \/ proc[Home[c]] = "none"

Leave(c) ==
  /\ Goto(c, "done")
  /\ queued' = [queued EXCEPT ![c] = FALSE]
  /\ dispatched' = [dispatched EXCEPT ![c] = FALSE]
  /\ ahead' = [ahead EXCEPT ![c] = {}]

Finish(c) ==
  /\ pc[c] = "final" /\ dispatched[c] /\ Acknowledged(c)
  /\ active' = active \ {c}
  /\ cancelled' = cancelled \ {c}
  /\ Leave(c)
  /\ UNCHANGED <<expired, pending, closed, generation, slotClosed, slotCancelled, lock,
                 process, complete, at>>

\* NonQuiescentWorker: the charge stays, the pool closes, all slots are killed.
Wedge(c) ==
  /\ pc[c] = "final" /\ dispatched[c] /\ ~Acknowledged(c)
  /\ closed' = TRUE
  /\ KillAll
  /\ Leave(c)
  /\ UNCHANGED <<expired, pending, active, cancelled, generation, slotClosed,
                 slotCancelled, lock, fed, complete, at>>

Withdraw(c) ==
  /\ pc[c] = "final" /\ ~dispatched[c]
  /\ pending' = pending \ {c}
  /\ cancelled' = cancelled \ {c}
  /\ Leave(c)
  /\ UNCHANGED <<expired, active, closed, generation, slotClosed, slotCancelled, lock,
                 process, complete, at>>

Cancel(c) ==
  /\ c \in Cancellable /\ pc[c] # "done" /\ c \notin cancelled
  /\ cancelled' = cancelled \cup {c}
  /\ slotCancelled' = slotCancelled \cup {c}
  /\ UNCHANGED <<expired, pending, ahead, active, closed, generation, slotClosed, lock,
                 process, pc, locals, at>>
-----------------------------------------------------------------------------
(* close(): flags under the lock, one signal to all, then slot by slot *)

SlotsClosing == [s \in Slots |-> TRUE]

Close ==
  /\ pc[Closer] = "idle"
  /\ closed' = TRUE
  /\ slotClosed' = SlotsClosing
  /\ Goto(Closer, "signal")
  /\ UNCHANGED <<expired, pending, ahead, active, cancelled, generation, slotCancelled,
                 lock, process, locals, at>>

Signal ==
  /\ pc[Closer] = "signal"
  /\ KillAll
  /\ at' = 0
  /\ Goto(Closer, "retire")
  /\ UNCHANGED <<expired, ledger, generation, slotClosed, slotCancelled, lock, fed,
                 locals>>

Last == Cardinality(Slots) - 1

NextSlot ==
  IF at < Last
  THEN at' = at + 1 /\ Goto(Closer, "retire")
  ELSE at' = 0 /\ Goto(Closer, "done")

CloseNothing ==
  /\ pc[Closer] = "retire" /\ lock[at] = Nobody /\ proc[at] = "none"
  /\ NextSlot
  /\ UNCHANGED <<expired, ledger, generation, slotClosed, slotCancelled, lock, process,
                 locals>>

CloseReap ==
  /\ pc[Closer] = "reap" /\ ExitAcknowledged(at)
  /\ proc' = [proc EXCEPT ![at] = "none"]
  /\ fed' = [fed EXCEPT ![at] = {}]
  /\ lock' = [lock EXCEPT ![at] = Nobody]
  /\ NextSlot
  /\ UNCHANGED <<expired, ledger, generation, slotClosed, slotCancelled, locals>>

\* NonQuiescentWorker escapes from close(): later slots are not waited for.
CloseTimeout ==
  /\ pc[Closer] = "reap" /\ GivesUp(at)
  /\ lock' = [lock EXCEPT ![at] = Nobody]
  /\ at' = 0
  /\ Goto(Closer, "done")
  /\ UNCHANGED <<expired, ledger, generation, slotClosed, slotCancelled, process, locals>>
-----------------------------------------------------------------------------
(* The environment *)

Expire(c) ==
  /\ pc[c] # "done" /\ c \notin expired
  /\ expired' = expired \cup {c}
  /\ UNCHANGED <<ledger, generation, slotClosed, slotCancelled, lock, process, pc, locals, at>>

Exit(s) ==
  /\ Alive(proc[s])
  /\ proc' = [proc EXCEPT ![s] = "exited"]
  /\ UNCHANGED <<expired, ledger, generation, slotClosed, slotCancelled, lock, fed,
                 pc, locals, at>>
-----------------------------------------------------------------------------
CallerStep(c) ==
  \/ StopWaiting(c) \/ Enqueue(c) \/ Dispatch(c)
  \/ Enter(c) \/ Refuse(c) \/ Start(c) \/ StartFails(c) \/ Feed(c) \/ Complete(c)
  \/ Abandon(c) \/ Watchdog(c) \/ RetireNothing(c) \/ Retire(c) \/ Reap(c) \/ ReapTimeout(c)
  \/ Finish(c) \/ Wedge(c) \/ Withdraw(c)

CloserStep == Signal \/ CloseNothing \/ Retire(Closer) \/ CloseReap \/ CloseTimeout

\* Every call has returned: nothing is left to do.
Quiet == (\A c \in Callers : pc[c] = "done") /\ UNCHANGED vars

Next ==
  \/ \E c \in Callers : Call(c) \/ CallerStep(c) \/ Cancel(c) \/ Expire(c)
  \/ Close \/ CloserStep \/ Quiet
  \/ \E s \in Slots : Exit(s)

Spec == Init /\ [][Next]_vars
-----------------------------------------------------------------------------
(* Properties *)

\* A slot's process holds only requests of that slot that the role's ledger
\* still charges: no charge is released beside work that may still run.
ChargedWhileRunning ==
  \A s \in Slots : Alive(proc[s]) => \A c \in fed[s] : Home[c] = s /\ c \in active

\* Within its slot, a request is dispatched before all that stay pending and
\* were admitted later, and never before an earlier one.
SlotOrder ==
  [][\A c \in active' \ active : \A d \in pending \cap pending' :
       Home[d] = Home[c] => c \in ahead[d]]_vars

\* Once close() is over and no caller is inside a slot, no native process runs
\* unsignalled, although callers may have started one while slots were retired.
NothingRunsAfterClose ==
  pc[Closer] = "done" /\ (\A c \in Callers : pc[c] \notin Inside) =>
    \A s \in Slots : proc[s] # "running"

\* What holds in every state: types, the charge beside work, and silence after close().
Safe == TypeOK /\ ChargedWhileRunning /\ NothingRunsAfterClose

\* A failed or cancelled request closes the pool, and keeps its charge for
\* ever, only when the exit of its killed process was not acknowledged.
ClosesForCause ==
  [][\A c \in Callers :
       pc[c] = "final" /\ dispatched[c] /\ closed' # closed /\ pc'[c] = "done" =>
         slotClosed[Home[c]]]_vars

\* The pool keeps the promise of SlotLease.
Holder(s) ==
  IF \E c \in active : Home[c] = s THEN CHOOSE c \in active : Home[c] = s ELSE Nobody
Lease == INSTANCE SlotLease WITH Users <- Callers,
           lease <- [s \in Slots |-> Holder(s)], open <- ~closed
ImplementsLease == Lease!Spec
=============================================================================
