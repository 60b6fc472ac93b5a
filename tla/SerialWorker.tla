---------------------------- MODULE SerialWorker ----------------------------
(***************************************************************************)
(* The serial native worker of src/src/oeis_learn/synthesis/worker_pool.py *)
(* (_SerialWorker) with the FIFO ledger it charges, RoleCapacity of        *)
(* synthesis/service_policy.py.                                            *)
(*                                                                         *)
(* Every caller is a host thread in one call().  The condition variable's  *)
(* lock makes one iteration of the waiting loop, and the final block, one  *)
(* step; everything between dispatch and that final block runs without the *)
(* lock, except _retire, which holds it while it waits for the killed      *)
(* process.  The clock is read twice in an iteration of the waiting loop   *)
(* (the loop's test, then "now"), so a step of the loop may let it pass.   *)
(*                                                                         *)
(* The pipes belong to one process, so the worker_generation a response    *)
(* echoes always matches; the request it answers need not, and is checked. *)
(***************************************************************************)
EXTENDS Integers, Sequences, FiniteSets, FiniteSetsExt

CONSTANTS Callers,     \* one call each; a call is named by its unique request_id
          Closer,      \* the thread that closes the worker
          Nobody,      \* no thread, no request
          Size,        \* Size[c]: bytes of the request's frame
          MaxPending,  \* max_pending_batches
          MaxPendingBytes,
          Grace,       \* the cleanup allowance (5 seconds)
          Cancellable, \* bound: the requests that may be cancelled
          MaxTime,     \* bound: the last instant, which stands for all later ones
          MaxOut       \* bound: messages buffered in the worker's stdout

ASSUME ConstantsOK ==
  /\ Closer \notin Callers /\ Nobody \notin Callers /\ Nobody # Closer
  /\ MaxPending \in Nat \ {0} /\ Grace \in Nat /\ MaxTime \in Nat /\ MaxOut \in Nat

\* encoded() bounds a frame, and every frame fits an empty queue.
ASSUME SizesOK == MaxPendingBytes \in Nat /\ Size \in [Callers -> 1..MaxPendingBytes]

Threads == Callers \cup {Closer}
Times   == 0..MaxTime
Never   == MaxTime + 1     \* float('inf'): no cleanup deadline is set
SoonerOf(a, b) == IF a < b THEN a ELSE b

\* poll() is None exactly for "running" and "killed" (signalled, not yet gone).
ProcessStatus == {"none", "running", "killed", "exited"}
Alive(status) == status \in {"running", "killed"}

\* "partial": some of the batch; "full": complete is True; "bad": a malformed
\* response, a duplicate or unknown candidate, or inconsistent coverage.
Message == [request: Callers, kind: {"partial", "full", "bad"}]

Outcomes == {"none", "ok", "resource_exhausted", "verification_failure",
             "non_quiescent", "raised"}

VARIABLES now, pending, ahead, active, cancelled, closed,   \* ledger and flags
          proc, fed, out,                            \* the native process
          lock, cleanup,                             \* _retire
          pc, deadline, queued, dispatched, rows, result   \* one per caller

vars == <<now, pending, ahead, active, cancelled, closed, proc, fed, out, lock, cleanup,
          pc, deadline, queued, dispatched, rows, result>>

ledger  == <<pending, ahead, active, cancelled, closed>>
process == <<proc, fed, out>>
locals  == <<deadline, queued, dispatched, rows, result>>

Busy == {"start", "io", "retire", "reap"}   \* dispatched, not yet in the final block

TypeOK ==
  /\ now \in Times
  /\ pending \subseteq Callers /\ ahead \in [Callers -> SUBSET Callers]
  /\ active \subseteq Callers /\ cancelled \subseteq Callers /\ closed \in BOOLEAN
  /\ proc \in ProcessStatus /\ fed \subseteq Callers /\ out \in Seq(Message)
  /\ lock \in Threads \cup {Nobody} /\ cleanup \in 0..Never
  /\ pc \in [Threads -> {"idle", "wait", "final", "done"} \cup Busy]
  /\ deadline \in [Callers -> Times]
  /\ queued \in [Callers -> BOOLEAN] /\ dispatched \in [Callers -> BOOLEAN]
  /\ rows \in [Callers -> SUBSET Callers] /\ result \in [Callers -> Outcomes]

Init ==
  /\ now = 0 /\ pending = {} /\ ahead = [c \in Callers |-> {}] /\ active = {} /\ cancelled = {} /\ closed = FALSE
  /\ proc = "none" /\ fed = {} /\ out = <<>>
  /\ lock = Nobody /\ cleanup = Never
  /\ pc = [t \in Threads |-> "idle"]
  /\ deadline = [c \in Callers |-> 0]
  /\ queued = [c \in Callers |-> FALSE] /\ dispatched = [c \in Callers |-> FALSE]
  /\ rows = [c \in Callers |-> {}] /\ result = [c \in Callers |-> "none"]


\* min(cleanup_deadline, now + 5): one allowance however often it is asked for.
CleanupBy == SoonerOf(cleanup, SoonerOf(now + Grace, MaxTime))

Goto(t, label) == pc' = [pc EXCEPT ![t] = label]

\* The call returns or raises; its locals go away.
Leave(c, r) ==
  /\ Goto(c, "done")
  /\ result' = [result EXCEPT ![c] = r]
  /\ deadline' = [deadline EXCEPT ![c] = 0]
  /\ ahead' = [ahead EXCEPT ![c] = {}]
  /\ queued' = [queued EXCEPT ![c] = FALSE]
  /\ dispatched' = [dispatched EXCEPT ![c] = FALSE]
  /\ rows' = [rows EXCEPT ![c] = {}]
-----------------------------------------------------------------------------
(* RoleCapacity *)

Unexpired_kept(t) == pending     \* mutant: expiry is forgotten

\* expire(now): requests at or past their deadline leave the queue.
Unexpired(t) == {k \in pending : t < deadline[k]}

\* The insertion order of "pending": ahead[c] holds the requests that were
\* pending when c was admitted, so the head has none of them before it.
Foremost(queue) == {h \in queue : ahead[h] \cap queue = {}}

Behind_front(queue) == {}     \* mutant: admitted in front

Behind(queue) == queue      \* a new request goes behind every pending one


Idle == active = {}         \* max_active is 1
-----------------------------------------------------------------------------
(* call(): waiting *)

Call(c) ==
  /\ pc[c] = "idle"
  /\ \E d \in Times : d > now /\ deadline' = [deadline EXCEPT ![c] = d]
  /\ Goto(c, "wait")
  /\ UNCHANGED <<now, ledger, process, lock, cleanup, queued, dispatched, rows, result>>

MayWait(c) == now < deadline[c] /\ ~closed /\ c \notin cancelled

\* The loop's test fails: the caller leaves with an incomplete response.
StopWaiting(c) ==
  /\ pc[c] = "wait" /\ lock = Nobody
  /\ ~MayWait(c)
  /\ result' = [result EXCEPT ![c] = "resource_exhausted"]
  /\ Goto(c, "final")
  /\ UNCHANGED <<now, ledger, process, lock, cleanup, deadline, queued, dispatched, rows>>

\* An iteration of the loop: its test holds, then the clock reads t.
Iterate(c, t) ==
  /\ pc[c] = "wait" /\ lock = Nobody
  /\ MayWait(c)
  /\ t \in now..MaxTime /\ now' = t

\* enqueue raises: the request is already charged, or its time ran out
\* between the loop's test and the second reading of the clock.
Rejected(c) ==
  /\ \E t \in Times :
       /\ Iterate(c, t)
       /\ ~queued[c] /\ (c \in active \cup pending \/ t >= deadline[c])
  /\ result' = [result EXCEPT ![c] = "verification_failure"]
  /\ Goto(c, "final")
  /\ UNCHANGED <<ledger, process, lock, cleanup, deadline, queued, dispatched, rows>>

\* enqueue, tried until it is accepted or time runs out.
Enqueues(c, t) ==
  /\ Iterate(c, t)
  /\ ~queued[c] /\ c \notin active \cup pending /\ t < deadline[c]

\* The queue has a bound in requests and one in bytes.
HasRoom(c, t) ==
  /\ Cardinality(Unexpired(t)) < MaxPending
  /\ LET size(d) == Size[d] IN MapThenSumSet(size, Unexpired(t) \cup {c}) <= MaxPendingBytes

\* A full queue: the caller retries within the same deadline.
Backpressure(c) ==
  /\ \E t \in Times :
       /\ Enqueues(c, t)
       /\ ~HasRoom(c, t)
       /\ pending' = Unexpired(t)
  /\ UNCHANGED <<ahead, active, cancelled, closed, process, lock, cleanup, pc, locals>>

\* Admitted behind other requests, or while a batch is active.
Enqueue(c) ==
  /\ \E t \in Times :
       /\ Enqueues(c, t)
       /\ HasRoom(c, t)
       /\ Unexpired(t) # {} \/ ~Idle
       /\ pending' = Unexpired(t) \cup {c}
       /\ ahead' = [ahead EXCEPT ![c] = Behind(Unexpired(t))]
  /\ queued' = [queued EXCEPT ![c] = TRUE]
  /\ UNCHANGED <<active, cancelled, closed, process, lock, cleanup, pc,
                 deadline, dispatched, rows, result>>

\* Admitted to an empty queue of an idle worker: dispatched at once.
EnqueueDispatch(c) ==
  /\ \E t \in Times :
       /\ Enqueues(c, t)
       /\ Unexpired(t) = {} /\ Idle
  /\ pending' = {}
  /\ active' = active \cup {c}
  /\ queued' = [queued EXCEPT ![c] = TRUE]
  /\ dispatched' = [dispatched EXCEPT ![c] = TRUE]
  /\ Goto(c, "start")
  /\ UNCHANGED <<ahead, cancelled, closed, process, lock, cleanup, deadline, rows, result>>

\* The caller at the head of an idle worker calls dispatch(now).
Dispatches(c, t) ==
  /\ Iterate(c, t)
  /\ queued[c] /\ Idle /\ c \in Foremost(pending)

Dispatch(c) ==
  /\ \E t \in Times :
       /\ Dispatches(c, t)
       /\ c \in Unexpired(t)
       /\ pending' = Unexpired(t) \ {c}
  /\ active' = active \cup {c}
  /\ dispatched' = [dispatched EXCEPT ![c] = TRUE]
  /\ Goto(c, "start")
  /\ UNCHANGED <<ahead, cancelled, closed, process, lock, cleanup, deadline,
                 queued, rows, result>>

\* Its request expired between the loop's test and dispatch(now), which then
\* charges the next request of the queue, whose caller does not know.
DispatchOther(c) ==
  /\ \E t \in Times :
       /\ Dispatches(c, t)
       /\ c \notin Unexpired(t)
       /\ pending' = Unexpired(t) \ Foremost(Unexpired(t))
       /\ active' = active \cup Foremost(Unexpired(t))
  /\ result' = [result EXCEPT ![c] = "resource_exhausted"]
  /\ Goto(c, "final")
  /\ UNCHANGED <<ahead, cancelled, closed, process, lock, cleanup, deadline,
                 queued, dispatched, rows>>
-----------------------------------------------------------------------------
(* call(): the native process *)

\* _start: a live process is kept, a dead one is reaped, a new one is started.
Start(c) ==
  /\ pc[c] = "start" /\ lock = Nobody
  /\ IF Alive(proc)
     THEN UNCHANGED <<process, cleanup>>
     ELSE /\ proc' = "running" /\ fed' = {} /\ out' = <<>>
          /\ cleanup' = IF proc = "exited" /\ ~closed THEN Never ELSE cleanup
  /\ Goto(c, "io")
  /\ UNCHANGED <<now, ledger, lock, locals>>

\* Popen raises OSError.
StartFails(c) ==
  /\ pc[c] = "start" /\ lock = Nobody
  /\ ~Alive(proc)
  /\ proc' = "none" /\ fed' = {} /\ out' = <<>>
  /\ cleanup' = IF proc = "exited" /\ ~closed THEN Never ELSE cleanup
  /\ result' = [result EXCEPT ![c] = "resource_exhausted"]
  /\ Goto(c, "retire")
  /\ UNCHANGED <<now, ledger, lock, deadline, queued, dispatched, rows>>

\* The request reaches the process's stdin.
Feed(c) ==
  /\ pc[c] = "io" /\ proc = "running" /\ c \notin fed
  /\ fed' = fed \cup {c}
  /\ UNCHANGED <<now, ledger, proc, out, lock, cleanup, pc, locals>>


Answers(m, c) == m.request = c     \* the identity fields match the request

\* A well-formed response of this request: keep its rows, or finish.
Read(c) ==
  /\ pc[c] = "io" /\ proc # "none" /\ out # <<>>
  /\ LET m == out[1] IN
       /\ Answers(m, c) /\ m.kind # "bad"
       /\ m.kind = "partial" => now < deadline[c]
       /\ rows' = [rows EXCEPT ![c] = @ \cup {m.request}]
       /\ IF m.kind = "full"
          THEN Goto(c, "final") /\ result' = [result EXCEPT ![c] = "ok"]
          ELSE UNCHANGED <<pc, result>>
  /\ out' = Tail(out)
  /\ UNCHANGED <<now, ledger, proc, fed, lock, cleanup, deadline, queued, dispatched>>

\* A stale, mismatched or malformed response.
ReadBad(c) ==
  /\ pc[c] = "io" /\ proc # "none" /\ out # <<>>
  /\ ~Answers(out[1], c) \/ out[1].kind = "bad"
  /\ out' = Tail(out)
  /\ result' = [result EXCEPT ![c] = "verification_failure"]
  /\ Goto(c, "retire")
  /\ UNCHANGED <<now, ledger, proc, fed, lock, cleanup, deadline, queued, dispatched, rows>>

\* The deadline, close(), cancel(), too much memory or stderr.
Abandon(c) ==
  /\ pc[c] = "io"
  /\ now >= deadline[c] \/ closed \/ c \in cancelled \/ proc # "none"
  /\ result' = [result EXCEPT ![c] = "resource_exhausted"]
  /\ Goto(c, "retire")
  /\ UNCHANGED <<now, ledger, process, lock, cleanup, deadline, queued, dispatched, rows>>

\* End of file, or close() has taken the process and its pipes away.
Broken(c) ==
  /\ pc[c] = "io"
  /\ (proc = "exited" /\ out = <<>>) \/ proc = "none"
  /\ \E r \in {"verification_failure", "raised"} :
       /\ r = "raised" => proc = "none"
       /\ result' = [result EXCEPT ![c] = r]
  /\ Goto(c, "retire")
  /\ UNCHANGED <<now, ledger, process, lock, cleanup, deadline, queued, dispatched, rows>>
-----------------------------------------------------------------------------
(* _retire: kill, then wait for the exit, holding the lock *)

NothingToRetire_skipped == TRUE     \* mutant: no kill
ExitAcknowledged_early == TRUE     \* mutant: no wait for the exit
AllowanceSpent_never == FALSE      \* mutant: wait without a timeout

NothingToRetire == proc = "none"
ExitAcknowledged == proc = "exited"
AllowanceSpent == now >= cleanup

\* Nothing to retire: the caller goes on to its final block.
RetireNothing(t) ==
  /\ pc[t] = "retire" /\ lock = Nobody /\ NothingToRetire
  /\ Goto(t, IF t = Closer THEN "idle" ELSE "final")
  /\ UNCHANGED <<now, ledger, process, lock, cleanup, locals>>

Retire(t) ==
  /\ pc[t] = "retire" /\ lock = Nobody /\ proc # "none"
  /\ lock' = t
  /\ cleanup' = CleanupBy
  /\ proc' = IF Alive(proc) THEN "killed" ELSE proc
  /\ Goto(t, "reap")
  /\ UNCHANGED <<now, ledger, fed, out, locals>>

\* The exit is acknowledged: drop the handle.
Reap(t) ==
  /\ pc[t] = "reap" /\ lock = t /\ ExitAcknowledged
  /\ proc' = "none" /\ fed' = {} /\ out' = <<>>
  /\ cleanup' = IF closed THEN cleanup ELSE Never
  /\ lock' = Nobody
  /\ Goto(t, IF t = Closer THEN "idle" ELSE "final")
  /\ UNCHANGED <<now, ledger, locals>>

\* TimeoutExpired: NonQuiescentWorker escapes before the ledger is touched.
ReapTimeout(t) ==
  /\ pc[t] = "reap" /\ lock = t /\ proc # "exited"
  /\ AllowanceSpent
  /\ closed' = TRUE
  /\ lock' = Nobody
  /\ IF t = Closer
     THEN Goto(t, "idle") /\ UNCHANGED <<ahead, locals>>
     ELSE Leave(t, "non_quiescent")
  /\ UNCHANGED <<now, pending, active, cancelled, process, cleanup>>
-----------------------------------------------------------------------------
(* The final block of call(), close, cancel and cancel_all *)

Finish(c) ==
  /\ pc[c] = "final" /\ lock = Nobody /\ dispatched[c]
  /\ active' = active \ {c}
  /\ cancelled' = cancelled \ {c}
  /\ Leave(c, result[c])
  /\ UNCHANGED <<now, pending, closed, process, lock, cleanup>>

\* Never dispatched: cancel(key) drops the reservation, but raises when the
\* request is active, before the cancellation mark is discarded.
Withdraw(c) ==
  /\ pc[c] = "final" /\ lock = Nobody /\ ~dispatched[c]
  /\ IF queued[c] /\ c \in active
     THEN Leave(c, "raised") /\ UNCHANGED <<pending, cancelled>>
     ELSE /\ pending' = pending \ {c}
          /\ cancelled' = cancelled \ {c}
          /\ Leave(c, result[c])
  /\ UNCHANGED <<now, active, closed, process, lock, cleanup>>

Close ==
  /\ pc[Closer] = "idle" /\ lock = Nobody
  /\ closed' = TRUE
  /\ Goto(Closer, "retire")
  /\ UNCHANGED <<now, pending, ahead, active, cancelled, process, lock, cleanup, locals>>

Cancel(c) ==
  /\ lock = Nobody /\ pc[c] # "done" /\ c \in Cancellable \ cancelled
  /\ cancelled' = cancelled \cup {c}
  /\ UNCHANGED <<now, pending, ahead, active, closed, process, lock, cleanup, pc, locals>>

\* cancel_all takes no lock.
CancelAll ==
  /\ cleanup' = CleanupBy
  /\ proc' = IF Alive(proc) THEN "killed" ELSE proc
  /\ UNCHANGED <<now, ledger, fed, out, lock, pc, locals>>
-----------------------------------------------------------------------------
(* The environment: the clock and the native process *)

Tick ==
  /\ now < MaxTime
  /\ now' = now + 1
  /\ UNCHANGED <<ledger, process, lock, cleanup, pc, locals>>

\* A process answers any request it was fed, possibly again and again.
Respond ==
  /\ proc = "running" /\ Len(out) < MaxOut
  /\ \E k \in fed, kind \in {"partial", "full", "bad"} :
       out' = Append(out, [request |-> k, kind |-> kind])
  /\ UNCHANGED <<now, ledger, proc, fed, lock, cleanup, pc, locals>>

\* A crash, or the effect of SIGKILL (which may never come).
Exit ==
  /\ Alive(proc)
  /\ proc' = "exited"
  /\ UNCHANGED <<now, ledger, fed, out, lock, cleanup, pc, locals>>
-----------------------------------------------------------------------------
CallerStep(c) ==
  \/ StopWaiting(c) \/ Rejected(c) \/ Backpressure(c)
  \/ Enqueue(c) \/ EnqueueDispatch(c) \/ Dispatch(c) \/ DispatchOther(c)
  \/ Start(c) \/ StartFails(c) \/ Feed(c) \/ Read(c) \/ ReadBad(c)
  \/ Abandon(c) \/ Broken(c)
  \/ Finish(c) \/ Withdraw(c)

RetireStep(t) == RetireNothing(t) \/ Retire(t) \/ Reap(t) \/ ReapTimeout(t)

Next ==
  \/ \E c \in Callers : Call(c) \/ CallerStep(c) \/ Cancel(c)
  \/ \E t \in Threads : RetireStep(t)
  \/ Close \/ CancelAll \/ Tick \/ Respond \/ Exit

Spec == Init /\ [][Next]_vars

(* Host threads are scheduled, the clock runs; nothing is assumed of the   *)
(* native process, which may hang or outlive SIGKILL.                      *)
Fairness ==
  /\ WF_vars(Tick)
  /\ \A c \in Callers : SF_vars(CallerStep(c) \/ RetireStep(c))
  /\ SF_vars(RetireStep(Closer))

FairSpec == Spec /\ Fairness
-----------------------------------------------------------------------------
(* Properties *)

\* One batch is in the native process at a time: a caller between dispatch
\* and its final block is the only one, and the ledger charges it alone.
OneBatch ==
  \A c \in Callers :
    dispatched[c] /\ pc[c] # "done" =>
      /\ active = {c}
      /\ \A d \in Callers \ {c} : pc[d] \notin Busy

\* A live process holding an unanswered request keeps that request charged:
\* nothing new is dispatched beside a process that may still be working,
\* not even after NonQuiescentWorker (class docstring, worker_pool.py:20).
Unanswered(c) == c \in fed /\ result[c] # "ok"
ChargedWhileRunning ==
  \A c \in Callers : Alive(proc) /\ Unanswered(c) => c \in active

\* Rows come from responses to the caller's own request, whatever an earlier
\* request of the same process left behind in the pipe.
OwnRows == \A c \in Callers : rows[c] \subseteq {c}

\* What holds in every state: types, one batch, its charge and its rows.
Safe == TypeOK /\ OneBatch /\ ChargedWhileRunning /\ OwnRows

\* A process is replaced, and its handle dropped, only after its exit has
\* been acknowledged, so two native processes never run at once.
NoLiveProcessDropped ==
  [][Alive(proc) => Alive(proc') \/ proc' = "exited"]_vars

\* Requests are dispatched in the order they were admitted: whoever is
\* charged was pending longer than all that stay pending, or found none.
FirstComeFirstServed ==
  [][\A c \in active' \ active :
       \A d \in pending \cap pending' : c \in pending /\ c \in ahead[d]]_vars

\* A request is charged at or after its deadline only if it was dispatched
\* before it: queue wait counts against the original deadline.
NoLateDispatch ==
  [][\A c \in active' \ active : now' < deadline[c]]_vars

\* Every call returns, with an answer, at its deadline plus the cleanup
\* allowance, or with NonQuiescentWorker, whatever the native process does.
EveryCallReturns ==
  \A c \in Callers : pc[c] = "wait" ~> pc[c] = "done"

\* Expiry releases a reservation: what the ledger charges always has a caller
\* at work on it, or the worker is closed.
NoOrphanCharge ==
  \A c \in active : closed \/ (pc[c] \in Busy \cup {"final"} /\ dispatched[c])
=============================================================================
