-------------------------- MODULE PipelineScheduler --------------------------
(***************************************************************************)
(* One call of drive() in fresh/pipeline_scheduler.py with the JobLedger   *)
(* of fresh/pipeline_jobs.py: one owner thread advances the prompts, which *)
(* are generators that yield a decode request, or a native request with a  *)
(* deadline; the owner decodes in batches and hands native requests to     *)
(* daemon threads, which answer over a queue of bounded size.              *)
(*                                                                         *)
(* What a prompt asks for next is its own choice (_portfolio in            *)
(* fresh/bigint_diagnostics.py asks for a decode, then for one or two      *)
(* native jobs, then again).  The owner may be slow between any two steps. *)
(* A native thread ends whenever it likes, or never.                       *)
(***************************************************************************)
EXTENDS Integers, FiniteSets, Sequences

CONSTANTS N,             \* bound on the number of generators
          Service,       \* the allowance of one native request
          Portfolio,     \* the deadline of the prompts
          ExpiryGrace,   \* native_expiry_grace
          Envelope,      \* the five seconds of the drain
          Capacity,      \* the 65536 records of a ledger
          Policies,      \* choices of the number of generators, workers, lookahead * batch_size,
                         \* batch_size, whether requests have on_expired, native_priority
          MaxRequests,   \* bound on the requests of a prompt
          Generation,    \* a GenerationRequest, as opposed to a NativeRequest
          None

MaxTime == Portfolio + ExpiryGrace \* bound on time before the drain

ASSUME SchedulerOK ==
  /\ {N, Capacity} \subseteq Nat \ {0}
  /\ {Service, Portfolio, ExpiryGrace, Envelope, MaxRequests} \subseteq Nat
  /\ {Generation, None} \cap (0..Portfolio) = {} /\ Generation # None
  /\ Policies \subseteq [n : 1..N, workers : Nat \ {0}, staging : Nat \ {0},
                        batch : Nat \ {0}, adapter : BOOLEAN, priority : BOOLEAN]

Prompts == 1..N
Jobs    == Prompts \X (1..MaxRequests) \* logical_job(): the prompt and its attempt
States  == {"RESERVED", "COMMITTED", "INCOMPLETE", "CANCELLED", "UNSTARTED"}
Charged == {"COMMITTED", "INCOMPLETE", "CANCELLED"} \* consumed = reserved, else 0

ASSUME NoneIsNoState == None \notin States

VARIABLES
  now, policy,
  pc,        \* where the owner is in drive()
  ready,     \* prompt -> Generation, the deadline of its native request, or None
  active,    \* prompt -> the deadline of its running native request, or None
  running,   \* prompts whose native thread is alive
  completed, \* the queue of answers: [prompt, error]
  done, next, cursor, \* prompts that ended, next_prompt, cursor
  from,      \* the cursor that order was made with
  todo,      \* prompts left in the pass over order, or in the decoded group
  asked,     \* prompt -> number of requests so far; the last one is the current job
  records,   \* the ledger: job -> state, or None
  failure,   \* how an exception came about, or None: in the first admission, in reserve(), the
             \* scheduler is blocked, a TimeoutError, threads are stuck, any other one
  drained,   \* the deadline of the drain
  ran,       \* history: jobs a thread was started for
  passed     \* history: prompt -> prompts dispatched since its request is waiting

vars == <<now, policy, pc, ready, active, running, completed, done, next, cursor, from, todo, asked,
          records, failure, drained, ran, passed>>
threads == <<active, running, completed, ran>>
place   == <<next, cursor, from>>
jobs    == <<asked, records, passed>>
others  == <<now, policy, ready, threads, done, place, todo, jobs, failure, drained>> \* all but pc

Called    == 1..policy.n
Ended     == {"returned", "raised", "settled"}
Deadlines == 0..Portfolio
Native(i) == ready[i] \in Deadlines
Staged    == {i \in Prompts : ready[i] # None \/ active[i] # None}
Active    == {i \in Prompts : active[i] # None}
Job(i)    == <<i, asked[i]>>

TypeOK ==
  /\ now \in 0..MaxTime + Envelope /\ policy \in Policies /\ drained \in 0..MaxTime + Envelope
  /\ pc \in Ended \cup {"first", "top", "observe", "expire", "dispatch", "decode", "values", "idle",
                        "finally", "join"}
  /\ ready \in [Prompts -> Deadlines \cup {Generation, None}]
  /\ active \in [Prompts -> Deadlines \cup {None}] /\ running \subseteq Active
  /\ \A k \in DOMAIN completed : completed[k] \in [prompt : Active, error : BOOLEAN]
  /\ done \subseteq Called /\ next \in 1..N + 1 /\ {cursor, from} \subseteq Called
  /\ \A k \in DOMAIN todo : todo[k] \in Prompts
  /\ asked \in [Prompts -> 0..MaxRequests] /\ records \in [Jobs -> States \cup {None}]
  /\ failure \in {None, "outside", "reserve", "blocked", "timeout", "stuck", "other"}
  /\ ran \subseteq Jobs /\ passed \in [Prompts -> SUBSET Prompts]

Init ==
  /\ now = 0 /\ policy \in Policies /\ pc = "first"
  /\ ready = [i \in Prompts |-> None] /\ active = [i \in Prompts |-> None]
  /\ running = {} /\ completed = << >> /\ done = {} /\ next = 1 /\ cursor = 1 /\ from = 1 /\ todo = << >>
  /\ asked = [i \in Prompts |-> 0] /\ records = [j \in Jobs |-> None]
  /\ failure = None /\ drained = 0 /\ ran = {} /\ passed = [i \in Prompts |-> {}]

-----------------------------------------------------------------------------
\* JobLedger

\* publish(): the state of a reserved job whose result the owner sees now.
Publish(deadline) == IF now < deadline THEN "COMMITTED" ELSE "INCOMPLETE"

Cancel_any(books, job, state) == [books EXCEPT ![job] = state] \* mutant: of terminal jobs too

Cancel(books, job, state) ==
  IF books[job] = "RESERVED" THEN [books EXCEPT ![job] = state] ELSE books

Full == Cardinality({j \in Jobs : records[j] # None}) >= Capacity

-----------------------------------------------------------------------------
\* advance()

\* An exception: before the try there is no finally, and drive() is over.
Raise(how) ==
  /\ pc' = IF pc = "first" THEN "raised" ELSE "finally"
  /\ failure' = IF pc = "first" THEN "outside" ELSE how

\* A request is asked for the first time; nobody has overtaken it yet.
Asks(i) == asked' = [asked EXCEPT ![i] = @ + 1] /\ passed' = [passed EXCEPT ![i] = {}]

Min2(a, b) == IF a < b THEN a ELSE b

\* Send a value to the generator of prompt i, with the requests in rest and the ledger in
\* books; go on at place then.  reserve() comes after ready[i] is set.  A prompt looks at the
\* portfolio's deadline before it asks for a decode, not before a native request that follows.
Advance(i, rest, books, then) ==
  \/ /\ done' = done \cup {i} /\ ready' = rest /\ records' = books /\ pc' = then
     /\ UNCHANGED <<asked, passed, failure>>
  \/ /\ now < Portfolio /\ asked[i] < MaxRequests          \* bound
     /\ Asks(i) /\ ready' = [rest EXCEPT ![i] = Generation] /\ records' = books /\ pc' = then
     /\ UNCHANGED <<done, failure>>
  \/ /\ asked[i] < MaxRequests                             \* bound
     /\ Asks(i) /\ ready' = [rest EXCEPT ![i] = Min2(Portfolio, now + Service)]
     /\ IF Full THEN records' = books /\ Raise("reserve")
                ELSE /\ records' = [books EXCEPT ![<<i, asked[i] + 1>>] = "RESERVED"]
                     /\ pc' = then /\ UNCHANGED failure
     /\ UNCHANGED done
  \/ /\ ready' = rest /\ records' = books /\ Raise("other")
     /\ UNCHANGED <<done, asked, passed>>

Take(i) == [ready EXCEPT ![i] = None]

-----------------------------------------------------------------------------
\* The owner

\* The bound on staged records.
Room == Cardinality(Staged) < policy.staging

\* admit(), before the try and at the top of every round.
Admit ==
  /\ pc \in {"first", "top"} /\ (pc = "top" => done # Called)
  /\ next <= policy.n /\ Room
  /\ next' = next + 1 /\ Advance(next, ready, records, pc)
  /\ UNCHANGED <<now, policy, threads, cursor, from, todo, drained>>

Admitted ==
  /\ pc \in {"first", "top"} /\ (pc = "top" => done # Called)
  /\ ~(next <= policy.n /\ Room)
  /\ pc' = IF pc = "first" THEN "top" ELSE "observe"
  /\ UNCHANGED others

\* All prompts have ended: nothing is left to drain.
Return ==
  pc = "top" /\ done = Called /\ pc' = "returned" /\ UNCHANGED others

\* Take one answer and give it to its prompt, or what on_expired() says if it is late.
Observe ==
  /\ pc = "observe" /\ completed # << >> /\ completed' = Tail(completed)
  /\ LET i == Head(completed).prompt
         state == Publish(active[i])
         books == [records EXCEPT ![Job(i)] = state] IN
     /\ active' = [active EXCEPT ![i] = None]
     /\ \/ /\ Head(completed).error
           /\ records' = Cancel(records, Job(i), "CANCELLED")
           /\ \E how \in {"timeout", "other"} : Raise(how)
           /\ UNCHANGED <<ready, done, asked, passed>>
        \/ /\ ~Head(completed).error /\ state = "INCOMPLETE" /\ ~policy.adapter
           /\ records' = books /\ Raise("timeout")
           /\ UNCHANGED <<ready, done, asked, passed>>
        \/ /\ ~Head(completed).error /\ (state = "COMMITTED" \/ policy.adapter)
           /\ Advance(i, ready, books, "observe")
  /\ UNCHANGED <<now, policy, running, ran, place, todo, drained>>

Observed ==
  pc = "observe" /\ completed = << >> /\ pc' = "expire" /\ UNCHANGED others

Expired == {i \in Active : now >= active[i]}

Overstayed_patient == Expired # {} /\ ~policy.adapter \* mutant: the grace has no end

\* An operation that cannot be late, or did not acknowledge within the grace.
Overstayed == \E i \in Expired : ~policy.adapter \/ now >= active[i] + ExpiryGrace

Order == [k \in Called |-> 1 + ((cursor + k - 2) % policy.n)]

\* A late operation stops the scheduler while it may still acknowledge.
Expire ==
  /\ pc = "expire"
  /\ IF Expired = {} THEN pc' = "dispatch" /\ todo' = Order /\ from' = cursor /\ UNCHANGED failure
     ELSE IF Overstayed THEN Raise("timeout") /\ UNCHANGED <<todo, from>>
     ELSE pc' = "top" /\ UNCHANGED <<todo, from, failure>>
  /\ UNCHANGED <<now, policy, ready, threads, done, next, cursor, jobs, drained>>

\* The first request of the pass that is eligible for a free worker.
Eligible == IF Cardinality(Active) >= policy.workers THEN {}
            ELSE {k \in DOMAIN todo : Native(todo[k])}
First    == CHOOSE k \in Eligible : \A l \in Eligible : k <= l
After(k) == SubSeq(todo, k + 1, Len(todo))

\* The request waited beyond its deadline: it is never started.
DropQueued ==
  /\ pc = "dispatch" /\ Eligible # {}
  /\ LET i == todo[First]
         books == Cancel(records, Job(i), "UNSTARTED") IN
     /\ now >= ready[i]
     /\ IF policy.adapter THEN Advance(i, Take(i), books, "dispatch")
        ELSE /\ records' = books /\ ready' = Take(i) /\ Raise("timeout")
             /\ UNCHANGED <<done, asked, passed>>
  /\ todo' = After(First)
  /\ UNCHANGED <<now, policy, threads, place, drained>>

Cursor_still(i) == cursor \* mutant: every pass starts with the same prompt

Cursor(i) == 1 + (i % policy.n)

\* The prompts waiting for a worker, all of which prompt i overtakes.
Dispatch ==
  /\ pc = "dispatch" /\ Eligible # {}
  /\ LET i == todo[First] IN
     /\ now < ready[i]
     /\ active' = [active EXCEPT ![i] = ready[i]] /\ ready' = Take(i)
     /\ running' = running \cup {i} /\ ran' = ran \cup {Job(i)}
     /\ cursor' = Cursor(i)
     /\ passed' = [q \in Prompts |-> IF q # i /\ Native(q) THEN passed[q] \cup {i} ELSE passed[q]]
  /\ todo' = After(First)
  /\ UNCHANGED <<now, policy, pc, completed, done, next, from, asked, records, failure,
                 drained>>

Dispatched ==
  /\ pc = "dispatch" /\ Eligible = {} /\ pc' = "decode" /\ todo' = << >>
  /\ UNCHANGED <<now, policy, ready, threads, done, place, jobs, failure, drained>>

Pending  == Cardinality({i \in Prompts : Native(i)})
Decoding == {i \in Called : ready[i] = Generation}
MayDecode ==
  /\ Pending < policy.staging /\ Decoding # {}
  /\ ~(policy.priority /\ (Active # {} \/ Pending > 0))

\* The place of prompt i in the order that begins with the prompt first.
Turn(first, i) == (i + policy.n - first) % policy.n

\* sample() a batch: the first prompt in order and those of its temperature and shape.
Decode ==
  /\ pc = "decode" /\ MayDecode
  /\ \E size \in 1..Cardinality(Decoding) : \E group \in [1..size -> Decoding] :
       /\ size <= policy.batch /\ size <= policy.staging - Pending
       /\ \A i \in Decoding : Turn(from, group[1]) <= Turn(from, i)
       /\ \A k, l \in 1..size : k < l => Turn(from, group[k]) < Turn(from, group[l])
       /\ todo' = group
       /\ ready' = [i \in Prompts |-> IF \E k \in 1..size : group[k] = i THEN None ELSE ready[i]]
  /\ \/ pc' = "values" /\ UNCHANGED failure
     \/ Raise("other")
  /\ UNCHANGED <<now, policy, threads, done, place, jobs, drained>>

Value ==
  /\ pc = "values" /\ todo' = Tail(todo)
  /\ Advance(Head(todo), ready, records, IF Len(todo) = 1 THEN "top" ELSE "values")
  /\ UNCHANGED <<now, policy, threads, place, drained>>

\* Nothing to decode: wait a tick for the workers.
Idle ==
  /\ pc = "decode" /\ ~MayDecode
  /\ IF Active = {} /\ Staged # {} THEN Raise("blocked") ELSE pc' = "top" /\ UNCHANGED failure
  /\ UNCHANGED <<now, policy, ready, threads, done, place, todo, jobs, drained>>

Queued_none == {} \* mutant: queued requests are forgotten

Queued == {i \in Prompts : Native(i)}

Stopped == "CANCELLED"

\* finally: a request whose reservation failed is not in the ledger, and its KeyError ends
\* the drain; which of the others came before it depends on the order of a dict.
Finally ==
  /\ pc = "finally"
  /\ LET lost == {i \in Queued : records[Job(i)] = None}
         Unstarted(S) == [j \in Jobs |-> IF \E i \in S : Job(i) = j
                                         THEN Cancel(records, j, "UNSTARTED")[j] ELSE records[j]] IN
     IF lost = {}
     THEN /\ LET books == Unstarted(Queued) IN
             records' = [j \in Jobs |-> IF \E i \in Active : Job(i) = j
                                        THEN Cancel(books, j, Stopped)[j] ELSE books[j]]
          /\ pc' = "join" /\ drained' = now + Envelope
     ELSE /\ \E before \in SUBSET (Queued \ lost) : records' = Unstarted(before)
          /\ pc' = "raised" /\ UNCHANGED drained
  /\ UNCHANGED <<now, policy, ready, threads, done, place, todo, asked, failure, passed>>

Joined_hasty == TRUE \* mutant: join(timeout=0)

Joined == running = {} \/ now >= drained

\* The threads ended, or the envelope is spent and NonQuiescentWorker replaces the error.
Join ==
  /\ pc = "join" /\ Joined /\ pc' = "raised"
  /\ failure' = IF running = {} THEN failure ELSE "stuck"
  /\ UNCHANGED <<now, policy, ready, threads, done, place, todo, jobs, drained>>

\* A native trial keeps the ledger and, after a TimeoutError, cancels what is in it.
CallerCancels ==
  /\ pc = "raised" /\ failure = "timeout" /\ ~policy.adapter /\ pc' = "settled"
  /\ records' = [j \in Jobs |-> IF records[j] = None THEN None
                                 ELSE Cancel(records, j, "CANCELLED")[j]]
  /\ UNCHANGED <<now, policy, ready, threads, done, place, todo, asked, failure, drained, passed>>

Owner == \/ Admit \/ Admitted \/ Return \/ Observe \/ Observed \/ Expire \/ DropQueued
         \/ Dispatch \/ Dispatched \/ Decode \/ Value \/ Idle \/ Finally \/ Join
         \/ CallerCancels

-----------------------------------------------------------------------------
\* Native threads and time

\* run_native(): put() waits while the queue is full.
Finish(i) ==
  /\ i \in running /\ Len(completed) < policy.workers
  /\ running' = running \ {i}
  /\ \E error \in BOOLEAN : completed' = Append(completed, [prompt |-> i, error |-> error])
  /\ UNCHANGED <<now, policy, pc, ready, active, ran, done, place, todo, jobs, failure, drained>>

Tick ==
  /\ pc \notin Ended
  /\ now < IF pc = "join" THEN drained ELSE MaxTime        \* bound
  /\ now' = now + 1
  /\ UNCHANGED <<policy, pc, ready, threads, done, place, todo, jobs, failure, drained>>

Next == Owner \/ Tick \/ \E i \in Prompts : Finish(i)

Spec == Init /\ [][Next]_vars

\* The owner is a running thread; nothing is assumed of the native threads.
FairSpec == Spec /\ WF_vars(Owner) /\ WF_vars(Tick)

-----------------------------------------------------------------------------
\* Properties

\* Work is charged exactly if it was started: a started job is never released as unstarted,
\* and a job nobody ran costs nothing.
ChargedIfStarted ==
  \A j \in Jobs : /\ j \in ran => records[j] \in Charged \cup {"RESERVED"}
                  /\ records[j] \in Charged => j \in ran

\* When drive() is over every job it reserved is settled, whatever ended it, unless a prompt
\* failed in the first admission, before the try, or a reservation failed.
AllSettled ==
  pc \in Ended /\ failure \notin {"outside", "reserve"} => \A j \in Jobs : records[j] # "RESERVED"

\* The same for every exception.
SettledWhateverFails == pc \in Ended => \A j \in Jobs : records[j] # "RESERVED"

\* Every job ends up charged or released as it deserves.
Settlement == TypeOK /\ ChargedIfStarted /\ AllSettled

\* A settled job is never settled again, be it by a late answer, the drain or the caller.
SettledForGood ==
  [][\A j \in Jobs : records[j] \notin {None, "RESERVED"} => records'[j] = records[j]]_vars

\* No native thread is ever stuck in put(): answers and running threads fit the queue.
NeverStuck == Len(completed) + Cardinality(running) <= policy.workers

\* drive() returns with no thread at work and no answer unread; with an exception a thread
\* may be left only after the whole envelope, or when the drain itself failed.
Quiet == /\ pc = "returned" => running = {} /\ completed = << >>
         /\ pc = "raised" => running = {} \/ now >= drained \/ failure = "reserve"

\* The threads fit the queue while the call lasts, and are gone with it.
Drained == NeverStuck /\ Quiet

\* Round robin: while a native request waits, no other prompt is served twice.
RoundRobin ==
  [][\A i, q \in Prompts : Native(i) /\ q \in passed[i] => q \in Active \/ q \notin Active']_vars

\* The scheduler says it is blocked only if it is.
NotBlocked == failure # "blocked"

\* drive() ends, whatever the native threads do.
DriveEnds == <>(pc \in Ended)
=============================================================================
