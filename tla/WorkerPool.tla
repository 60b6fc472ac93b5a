----------------------------- MODULE WorkerPool -----------------------------
(***************************************************************************)
(* sandbox/worker_pool.py: WorkerPool, its executor threads and its slots, *)
(* over controllers that close or die and start again on one directory.    *)
(* A future is named by the call of submit() that made it, evidence by the *)
(* call whose request produced it, a limit or a failure included.          *)
(***************************************************************************)
EXTENDS Integers, Sequences, FiniteSets

CONSTANTS
  Calls,     \* invocations of submit()
  Asks,      \* what the calls may ask: a set of functions Calls -> [key, print]
  Slots,     \* one slot per executor thread
  Limit,     \* outstanding requests (32)
  MaxPools,  \* controllers of a history (a bound)
  MaxFaults, \* reclamations, record writes and workers that fail (a bound)
  None

Requests == {ask[c] : ask \in Asks, c \in Calls}
Keys == {request.key : request \in Requests}
Prints == {request.print : request \in Requests}
\* Evidence, and what a result file holds of it.
Values == (Calls \X (0 .. MaxPools)) \cup {None}
Results == [print : Prints, value : Values]

ASSUME PoolAssumption ==
  /\ IsFiniteSet(Calls) /\ IsFiniteSet(Slots) /\ Slots # {}
  /\ Limit \in Nat \ {0} /\ MaxPools \in Nat /\ MaxFaults \in Nat
  /\ Asks \subseteq [Calls -> Requests]
  /\ None \notin Calls /\ None \notin Slots /\ None \notin Results

VARIABLES
  pool,     \* the controller: "none", "open" and the stages of close()
  record,   \* durable: attempt |-> its result file
  inflight, \* attempt |-> its future in flight
  permits,  \* value of the semaphore
  pc,       \* Calls |-> where the submitter is
  ask,      \* Calls |-> its attempt and the fingerprint of its request
  handle,   \* Calls |-> the future it waits for
  answer,   \* Calls |-> what result() returned
  future,   \* Calls |-> state of the future and of _run, see Stages
  slot,     \* Calls |-> the slot that _run has taken
  got,      \* Calls |-> the evidence _run holds
  hook,     \* Calls |-> stage of the done callback
  queue,    \* work of the executor not yet begun
  free,     \* the queue of idle slots
  process,  \* Slots |-> the worker process
  busy,     \* Slots |-> the request in its channel
  out,      \* Slots |-> the evidence in its channel
  pools,    \* controllers so far
  faults

submitters == <<pc, ask, handle, answer>>
threads == <<future, slot, got, queue>>
books == <<inflight, permits, hook>>
workers == <<process, busy, out>>
slots == <<free, workers>>
vars == <<pool, record, books, submitters, threads, slots, pools, faults>>

Key(c) == ask[c].key
Fingerprint(c) == ask[c].print
\* The process of a slot and its channel are replaced together.
Renew(s, state) ==
  /\ process' = [process EXCEPT ![s] = state]
  /\ busy' = [busy EXCEPT ![s] = None] /\ out' = [out EXCEPT ![s] = None]
RenewAll(state) ==
  process' = state /\ busy' = [s \in Slots |-> None] /\ out' = [s \in Slots |-> None]
Same(state) == [s \in Slots |-> state]

Stages == {"none", "queued", "get", "send", "receive", "stop", "write",
           "done", "failed", "cancelled"}
Running(f) == future[f] \in {"get", "send", "receive", "stop", "write"}
Ended(f) == future[f] \in {"done", "failed", "cancelled"}

Init ==
  /\ pool = "none" /\ pools = 0 /\ faults = 0
  /\ pc = [c \in Calls |-> "idle"] /\ ask \in Asks
  /\ handle = [c \in Calls |-> None] /\ answer = [c \in Calls |-> None]
  /\ record = [k \in Keys |-> None] /\ inflight = [k \in Keys |-> None] /\ permits = Limit
  /\ future = [c \in Calls |-> "none"]
  /\ slot = [c \in Calls |-> None] /\ got = [c \in Calls |-> None]
  /\ hook = [c \in Calls |-> "unset"] /\ queue = <<>>
  /\ free = {} /\ process = Same("none") /\ busy = Same(None) /\ out = Same(None)

Fault == faults < MaxFaults /\ faults' = faults + 1
Stage(f, state) == future' = [future EXCEPT ![f] = state]

\* The constructor; when a slot does not start it closes the others and there is no pool.
Open ==
  /\ pool = "none" /\ pools < MaxPools /\ pools' = pools + 1 /\ pool' = "open"
  /\ free' = Slots /\ RenewAll(Same("idle")) /\ permits' = Limit
  /\ UNCHANGED <<record, inflight, hook, submitters, threads, faults>>

---------------------------------------------------------------------------
(* submit(), under the lock up to the registration of its callback.        *)

Refuse(c) == pc' = [pc EXCEPT ![c] = "refused"] /\ UNCHANGED <<ask, handle, answer>>
Known(c) == inflight[Key(c)] # None
Wait(c, state, f) ==
  /\ pc' = [pc EXCEPT ![c] = state] /\ handle' = [handle EXCEPT ![c] = f]
  /\ UNCHANGED <<ask, answer>>
MayAdmit(c) == pool = "open" /\ ~Known(c) /\ permits > 0

Rejected(c) ==
  /\ pc[c] = "idle" /\ pool # "none"
  /\ \/ pool # "open"
     \/ pool = "open" /\ Known(c) /\ Fingerprint(inflight[Key(c)]) # Fingerprint(c)
     \/ pool = "open" /\ ~Known(c) /\ permits = 0
  /\ Refuse(c)
  /\ UNCHANGED <<pool, record, books, threads, slots, pools, faults>>

\* Variant: the permit is taken before the attempt is looked up.
Join_counted(c) ==
  /\ pc[c] = "idle" /\ pool = "open" /\ Known(c) /\ permits > 0 /\ permits' = permits - 1
  /\ Fingerprint(inflight[Key(c)]) = Fingerprint(c)
  /\ Wait(c, "waiting", inflight[Key(c)])
  /\ UNCHANGED <<pool, record, inflight, hook, threads, slots, pools, faults>>
\* Duplicate delivery while the attempt is in flight: its future.
Join(c) ==
  /\ pc[c] = "idle" /\ pool = "open" /\ Known(c) /\ Fingerprint(inflight[Key(c)]) = Fingerprint(c)
  /\ Wait(c, "waiting", inflight[Key(c)])
  /\ UNCHANGED <<pool, record, books, threads, slots, pools, faults>>

Admit(c) ==
  /\ pc[c] = "idle" /\ MayAdmit(c)
  /\ permits' = permits - 1 /\ inflight' = [inflight EXCEPT ![Key(c)] = c]
  /\ Stage(c, "queued") /\ queue' = Append(queue, c)
  /\ Wait(c, "registering", c)
  /\ UNCHANGED <<pool, record, hook, slot, got, slots, pools, faults>>

\* The future may have ended by then.
Register(c) ==
  /\ pc[c] = "registering"
  /\ pc' = [pc EXCEPT ![c] = "waiting"] /\ hook' = [hook EXCEPT ![c] = "set"]
  /\ UNCHANGED <<ask, handle, answer, pool, record, inflight, permits, threads, slots>>
  /\ UNCHANGED <<pools, faults>>

\* complete(): by the thread that ended the future, after its waiters were told.
Forget(f) ==
  /\ Ended(f) /\ hook[f] = "set" /\ hook' = [hook EXCEPT ![f] = "popped"]
  /\ inflight' = [inflight EXCEPT ![Key(f)] = None]
  /\ UNCHANGED <<pool, record, permits, submitters, threads, slots, pools, faults>>
Release(f) ==
  /\ hook[f] = "popped" /\ hook' = [hook EXCEPT ![f] = "released"] /\ permits' = permits + 1
  /\ UNCHANGED <<pool, record, inflight, submitters, threads, slots, pools, faults>>

\* future.result()
Return(c) ==
  /\ pc[c] = "waiting" /\ Ended(handle[c])
  /\ \/ /\ future[handle[c]] = "done" /\ pc' = [pc EXCEPT ![c] = "done"]
        /\ answer' = [answer EXCEPT ![c] = got[handle[c]]]
     \/ /\ future[handle[c]] # "done" /\ pc' = [pc EXCEPT ![c] = "raised"]
        /\ UNCHANGED answer
  /\ UNCHANGED <<ask, handle, pool, record, books, threads, slots, pools, faults>>

---------------------------------------------------------------------------
(* _run, in a thread of the executor.                                      *)

\* There are as many threads as slots; the callback of an ended future takes none here.
FreeThread == Cardinality({f \in Calls : Running(f)}) < Cardinality(Slots)

\* Variant: the attempt's name suffices.
SameRequest_named(f) == TRUE
SameRequest(f) == record[Key(f)].print = Fingerprint(f)

\* A result file of an earlier delivery, also to an earlier controller, is the answer.
Begin(f) ==
  /\ queue # <<>> /\ f = Head(queue) /\ future[f] = "queued" /\ FreeThread /\ queue' = Tail(queue)
  /\ LET old == record[Key(f)] IN
     \/ old = None /\ Stage(f, "get") /\ UNCHANGED got
     \/ old # None /\ ~SameRequest(f) /\ Stage(f, "failed") /\ UNCHANGED got
     \/ old # None /\ SameRequest(f) /\ Stage(f, "done") /\ got' = [got EXCEPT ![f] = old.value]
  /\ UNCHANGED <<pool, record, books, submitters, slot, slots, pools, faults>>

\* Evidence of this run, whatever it says.
Evidence(f) == <<f, pools>>

Live(f, s) == process[s] # "none" /\ Stage(f, "send") /\ UNCHANGED <<workers, got, faults>>
Start(f, s) ==
  /\ process[s] = "none" /\ Stage(f, "send") /\ UNCHANGED <<got, faults>> /\ Renew(s, "idle")
\* Variant: the start is outside the try block.
StartFails_raised(f, s) ==
  /\ process[s] = "none" /\ Stage(f, "failed") /\ Fault /\ UNCHANGED <<got, workers>>
\* What does not come up is stopped, perhaps in vain; the finally block stops it once more.
StartFails(f, s) ==
  /\ process[s] = "none" /\ Stage(f, "stop") /\ Fault
  /\ got' = [got EXCEPT ![f] = Evidence(f)]
  /\ \E state \in {"none", "stuck"} : Renew(s, state)

Get(f, s) ==
  /\ future[f] = "get" /\ s \in free /\ free' = free \ {s}
  /\ slot' = [slot EXCEPT ![f] = s]
  /\ Live(f, s) \/ Start(f, s) \/ StartFails(f, s)
  /\ UNCHANGED <<pool, record, books, submitters, queue, pools>>

Send(f) ==
  /\ future[f] = "send" /\ process[slot[f]] # "dead"
  /\ Stage(f, "receive") /\ busy' = [busy EXCEPT ![slot[f]] = f]
  /\ UNCHANGED <<pool, record, books, submitters, slot, got, queue, free, process, out>>
  /\ UNCHANGED <<pools, faults>>

\* The worker answers the request it reads, or ends; it may also do neither.
Answer(s) ==
  /\ process[s] = "idle" /\ busy[s] # None /\ out[s] = None
  /\ out' = [out EXCEPT ![s] = Evidence(busy[s])] /\ busy' = [busy EXCEPT ![s] = None]
  /\ UNCHANGED <<process, pool, record, books, submitters, threads, free, pools, faults>>
Die(s) ==
  /\ process[s] = "idle" /\ Fault /\ process' = [process EXCEPT ![s] = "dead"]
  /\ UNCHANGED <<busy, out, pool, record, books, submitters, threads, free, pools>>

\* finally: the slot is idle again.
PutBack(f) ==
  /\ free' = free \cup {slot[f]} /\ slot' = [slot EXCEPT ![f] = None] /\ Stage(f, "write")

Receive(f) ==
  /\ future[f] = "receive" /\ out[slot[f]] # None /\ PutBack(f)
  /\ got' = [got EXCEPT ![f] = out[slot[f]]]
  /\ out' = [out EXCEPT ![slot[f]] = None]
  /\ UNCHANGED <<process, busy, pool, record, books, submitters, queue, pools, faults>>

\* Variant: a request that ran out of time leaves its worker as it is.
Broken_reused(f) ==
  /\ future[f] \in {"send", "receive"} /\ PutBack(f) /\ got' = [got EXCEPT ![f] = Evidence(f)]
  /\ UNCHANGED <<pool, record, books, submitters, queue, workers, pools, faults>>
\* The deadline, or a channel whose worker is gone: the evidence says so.
Broken(f) ==
  /\ future[f] \in {"send", "receive"}
  /\ Stage(f, "stop") /\ got' = [got EXCEPT ![f] = Evidence(f)]
  /\ UNCHANGED <<pool, record, books, submitters, slot, queue, slots, pools, faults>>

\* A broken slot goes back when its process is reaped, and is lost when it is not.
Stop(f) ==
  /\ future[f] = "stop" /\ PutBack(f) /\ Renew(slot[f], "none")
  /\ UNCHANGED <<pool, record, books, submitters, got, queue, pools, faults>>
StopFails(f) ==
  /\ future[f] = "stop" /\ process[slot[f]] # "none" /\ Fault /\ Stage(f, "failed")
  /\ Renew(slot[f], "stuck")
  /\ UNCHANGED <<pool, record, books, submitters, slot, got, queue, free, pools>>

\* A result file is linked, never replaced; the sync after the link may fail.
Result(f) == [print |-> Fingerprint(f), value |-> got[f]]
Publishable(f) == record[Key(f)] \in {None, Result(f)}
Write(f) ==
  /\ future[f] = "write" /\ Publishable(f) /\ Stage(f, "done")
  /\ record' = [record EXCEPT ![Key(f)] = Result(f)]
  /\ UNCHANGED <<pool, books, submitters, slot, got, queue, slots, pools, faults>>
WriteFails(f) ==
  /\ future[f] = "write" /\ Stage(f, "failed")
  /\ \/ ~Publishable(f) /\ UNCHANGED <<record, faults>>
     \/ Publishable(f) /\ Fault /\ record' \in {record, [record EXCEPT ![Key(f)] = Result(f)]}
  /\ UNCHANGED <<pool, books, submitters, slot, got, queue, slots, pools>>

---------------------------------------------------------------------------
(* close() and the end of the controller.                                  *)

Close ==
  /\ pool = "open" /\ pool' = "join" /\ queue' = <<>>
  /\ future' = [f \in Calls |-> IF future[f] = "queued" THEN "cancelled" ELSE future[f]]
  /\ UNCHANGED <<record, books, submitters, slot, got, slots, pools, faults>>
\* Once the threads are gone every slot is stopped, whichever of them fails.
ThreadsGone == \A f \in Calls : ~Running(f)
Reclaim ==
  /\ pool = "join" /\ ThreadsGone
  /\ \/ pool' = "closed" /\ UNCHANGED faults /\ RenewAll(Same("none"))
     \/ pool' = "broken" /\ Fault
        /\ \E s \in {t \in Slots : process[t] # "none"} :
             RenewAll([Same("none") EXCEPT ![s] = "stuck"])
  /\ UNCHANGED <<record, books, submitters, threads, free, pools>>

\* The controller ends, in any state; what was delivered stays delivered.
Gone ==
  /\ pool # "none" /\ pool' = "none"
  /\ LET again(c) == pc[c] \in {"registering", "waiting"} IN
     /\ pc' = [c \in Calls |-> IF again(c) THEN "idle" ELSE pc[c]]
     /\ handle' = [c \in Calls |-> IF again(c) THEN None ELSE handle[c]]
  /\ future' = [c \in Calls |-> "none"] /\ hook' = [c \in Calls |-> "unset"]
  /\ slot' = [c \in Calls |-> None] /\ got' = [c \in Calls |-> None] /\ queue' = <<>>
  /\ inflight' = [k \in Keys |-> None] /\ permits' = Limit
  /\ free' = {} /\ RenewAll(Same("none"))
  /\ UNCHANGED <<ask, answer, record, pools, faults>>

---------------------------------------------------------------------------
RunStep(f) ==
  \/ Begin(f) \/ (\E s \in Slots : Get(f, s)) \/ Send(f) \/ Receive(f) \/ Broken(f)
  \/ Stop(f) \/ StopFails(f) \/ Write(f) \/ WriteFails(f)
  \/ Forget(f) \/ Release(f)
CallStep(c) == Register(c) \/ Return(c)

Next ==
  \/ \E c \in Calls : Rejected(c) \/ Join(c) \/ Admit(c) \/ CallStep(c) \/ RunStep(c)
  \/ \E s \in Slots : Answer(s) \/ Die(s)
  \/ Open \/ Close \/ Reclaim \/ Gone

Spec == Init /\ [][Next]_vars

---------------------------------------------------------------------------
(* Properties.                                                             *)

CallStates == {"idle", "registering", "waiting", "refused", "done", "raised"}
ProcessStates == {"none", "idle", "dead", "stuck"}
TypeOK ==
  /\ pool \in {"none", "open", "join", "closed", "broken"}
  /\ pc \in [Calls -> CallStates] /\ ask \in [Calls -> Requests]
  /\ handle \in [Calls -> Calls \cup {None}] /\ answer \in [Calls -> Values]
  /\ process \in [Slots -> ProcessStates]
  /\ busy \in [Slots -> Calls \cup {None}] /\ out \in [Slots -> Values]
  /\ record \in [Keys -> Results \cup {None}] /\ got \in [Calls -> Values]
  /\ permits \in 0 .. Limit /\ pools \in 0 .. MaxPools /\ faults \in 0 .. MaxFaults
  /\ inflight \in [Keys -> Calls \cup {None}] /\ free \subseteq Slots
  /\ future \in [Calls -> Stages] /\ slot \in [Calls -> Slots \cup {None}]
  /\ hook \in [Calls -> {"unset", "set", "popped", "released"}] /\ queue \in Seq(Calls)

\* "Must reap before exposing a reusable slot" (_run): whichever exception of its except clause
\* ends a run, an idle slot has an empty channel and no worker behind it that is still at an
\* earlier request or alive in spite of its reclamation.
IdleIsClean ==
  pool \in {"open", "join"} =>
    \A s \in free : busy[s] = None /\ out[s] = None /\ process[s] # "stuck"

\* Every slot is idle or in the hands of exactly one run, or lost to a run whose
\* reclamation failed: no path through _run leaves one behind, so that a thread waits for
\* a slot only while another run has it or a reclamation has failed.
SlotsAccounted ==
  pool \in {"open", "join"} =>
    \A s \in Slots :
      LET holders == {f \in Calls : slot[f] = s} IN
        /\ s \in free <=> holders = {}
        /\ \A f, g \in holders : f = g
        /\ \A f \in holders :
             \/ future[f] \in {"send", "receive", "stop"}
             \/ future[f] = "failed" /\ process[s] = "stuck"

\* The 32 requests: every permit is free or belongs to one future that complete() has not
\* released, through refusals, duplicates, cancellations and failures.
Outstanding == {f \in Calls : future[f] # "none" /\ hook[f] # "released"}
PermitsConserved == pool # "none" => permits + Cardinality(Outstanding) = Limit

\* An attempt is in flight once, so that no two threads race for its result file.
Unfinished(f) == future[f] = "queued" \/ Running(f)
InFlightOnce == \A f \in Calls : Unfinished(f) => inflight[Key(f)] = f

Safe == TypeOK /\ IdleIsClean /\ InFlightOnce

\* Duplicate delivery, also after a restart of the controller: all answers to an attempt are
\* the one evidence on disk, and it was made for this request, not for an earlier one of the
\* slot.
AnswersAgree ==
  \A c \in Calls : pc[c] = "done" =>
    /\ record[Key(c)] = [print |-> Fingerprint(c), value |-> answer[c]]
    /\ Key(answer[c][1]) = Key(c) /\ Fingerprint(answer[c][1]) = Fingerprint(c)
=============================================================================
