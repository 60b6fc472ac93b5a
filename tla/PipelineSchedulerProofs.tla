------------------------ MODULE PipelineSchedulerProofs ------------------------
(* Proofs about PipelineScheduler for all prompts, policies, deadlines and ledgers. *)
EXTENDS PipelineScheduler, FiniteSetTheorems, SequenceTheorems, WellFoundedInduction, TLAPS

\* What the assumptions say of one policy and of the values of ready, active and records.
LEMMA Parameters ==
  /\ N \in Nat \ {0} /\ Capacity \in Nat \ {0}
  /\ Service \in Nat /\ Portfolio \in Nat /\ ExpiryGrace \in Nat /\ Envelope \in Nat
  /\ MaxRequests \in Nat /\ MaxTime \in Nat
  /\ Generation # None /\ Generation \notin Deadlines /\ None \notin Deadlines /\ None \notin States
  /\ Deadlines \subseteq Nat /\ IsFiniteSet(Prompts)
  /\ \A p \in Policies : /\ p.n \in 1..N /\ p.workers \in Nat \ {0} /\ p.staging \in Nat \ {0}
                         /\ p.batch \in Nat \ {0} /\ p.adapter \in BOOLEAN /\ p.priority \in BOOLEAN
<1>1. /\ N \in Nat \ {0} /\ Capacity \in Nat \ {0}
      /\ Service \in Nat /\ Portfolio \in Nat /\ ExpiryGrace \in Nat /\ Envelope \in Nat
      /\ MaxRequests \in Nat
  BY SchedulerOK DEF SchedulerOK
<1>2. Generation # None /\ Generation \notin Deadlines /\ None \notin Deadlines /\ None \notin States
  BY SchedulerOK, NoneIsNoState DEF SchedulerOK, NoneIsNoState, Deadlines
<1>3. ASSUME NEW p \in Policies
      PROVE  /\ p.n \in 1..N /\ p.workers \in Nat \ {0} /\ p.staging \in Nat \ {0}
             /\ p.batch \in Nat \ {0} /\ p.adapter \in BOOLEAN /\ p.priority \in BOOLEAN
  BY SchedulerOK DEF SchedulerOK
<1>4. IsFiniteSet(Prompts) /\ Deadlines \subseteq Nat /\ MaxTime \in Nat
  BY <1>1, FS_Interval DEF Prompts, Deadlines, MaxTime
<1> QED
  BY <1>1, <1>2, <1>3, <1>4

\* A set of natural numbers has a least element.
LEMMA Least == ASSUME NEW S \in SUBSET Nat, S # {} PROVE \E m \in S : \A k \in S : m <= k
<1>1. PICK m \in S : \A k \in S : ~ (<<k, m>> \in OpToRel(<, Nat))
  BY NatLessThanWellFounded, WFMin
<1>2. OpToRel(<, Nat) = {p \in Nat \X Nat : p[1] < p[2]}
  BY DEF OpToRel
<1>3. ASSUME NEW k \in S PROVE m <= k
  <2>1. <<k, m>> \notin OpToRel(<, Nat)
    BY <1>1
  <2>2. ~ (k < m)
    BY <1>2, <2>1
  <2> QED
    BY <2>2
<1> QED
  BY <1>3

\* The tail of a sequence with more than one element is not empty.
LEMMA LongerTail ==
  ASSUME NEW S, NEW s \in Seq(S), s # << >>, Len(s) # 1
  PROVE  Tail(s) # << >>
<1>1. Len(s) \in Nat /\ Len(Tail(s)) = Len(s) - 1
  BY HeadTailProperties, LenProperties
<1>2. Len(Tail(s)) # 0
  BY <1>1
<1> QED
  BY <1>2, EmptySeq

\* Cancel changes one reserved job of a ledger, and only that.
Books == [Jobs -> States \cup {None}]
\* The ledger after one cancellation.
LEMMA Cancelling ==
  ASSUME NEW books \in Books, NEW j \in Jobs, NEW s \in States
  PROVE  /\ Cancel(books, j, s) \in Books
         /\ Cancel(books, j, s)[j] = IF books[j] = "RESERVED" THEN s ELSE books[j]
         /\ \A k \in Jobs \ {j} : Cancel(books, j, s)[k] = books[k]
BY DEF Cancel, Books


(***************************************************************************)
(* Types, with the bound on the clock before the drain.                    *)
(***************************************************************************)
Points == Ended \cup {"first", "top", "observe", "expire", "dispatch", "decode", "values", "idle",
                      "finally", "join"}
Leaving == pc \in {"join"} \cup Ended
Failures == {None, "outside", "reserve", "blocked", "timeout", "stuck", "other"}
Raises == \E how \in {"timeout", "other"} : Raise(how)
Requests == [Prompts -> Deadlines \cup {Generation, None}]
Answers == [prompt : Prompts, error : BOOLEAN]
Typed ==
  /\ now \in 0..MaxTime + Envelope /\ policy \in Policies /\ drained \in 0..MaxTime + Envelope
  /\ pc \in Points
  /\ ready \in Requests /\ active \in [Prompts -> Deadlines \cup {None}] /\ running \subseteq Prompts
  /\ completed \in Seq(Answers) /\ todo \in Seq(Prompts)
  /\ done \subseteq Prompts /\ next \in 1..policy.n + 1 /\ cursor \in Called /\ from \in Called
  /\ asked \in [Prompts -> 0..MaxRequests] /\ records \in Books
  /\ failure \in Failures
  /\ ran \subseteq Jobs /\ passed \in [Prompts -> SUBSET Prompts]
  /\ ~Leaving => now <= MaxTime
  /\ pc = "values" => todo # << >>
  /\ \A i \in Prompts : ready[i] # None => asked[i] > 0

\* Advancing a prompt keeps the types; an exception is a step to finally, or out of drive().
LEMMA Advanced ==
  ASSUME Typed, NEW i \in Prompts, NEW rest \in Requests, NEW books \in Books, NEW then \in Points,
         \A q \in Prompts : rest[q] # None => asked[q] > 0, Advance(i, rest, books, then)
  PROVE  /\ ready' \in Requests /\ records' \in Books /\ done' \subseteq Prompts
         /\ asked' \in [Prompts -> 0..MaxRequests] /\ passed' \in [Prompts -> SUBSET Prompts]
         /\ failure' \in Failures
         /\ pc' \in {then, IF pc = "first" THEN "raised" ELSE "finally"}
         /\ \A q \in Prompts : ready'[q] # None => asked'[q] > 0
<1>1. i \in Prompts /\ now \in Nat /\ Portfolio \in Nat /\ Service \in Nat /\ MaxRequests \in Nat
  BY Parameters DEF Typed
<1>2. Min2(Portfolio, now + Service) \in Deadlines
  BY <1>1 DEF Min2, Deadlines
<1>3. asked[i] < MaxRequests => <<i, asked[i] + 1>> \in Jobs
  BY <1>1 DEF Typed, Jobs
<1>4. ready' \in Requests
  BY <1>1, <1>2 DEF Advance, Requests
<1>5. records' \in Books
  BY <1>1, <1>3 DEF Advance, Books, States
<1>6. asked' \in [Prompts -> 0..MaxRequests] /\ passed' \in [Prompts -> SUBSET Prompts]
  <2>1. \/ UNCHANGED <<asked, passed>>
        \/ asked[i] < MaxRequests /\ Asks(i)
    BY DEF Advance
  <2>2. asked \in [Prompts -> 0..MaxRequests] /\ passed \in [Prompts -> SUBSET Prompts]
    BY DEF Typed
  <2> QED
    BY <1>1, <2>1, <2>2 DEF Asks
<1>7. \A q \in Prompts : ready'[q] # None => asked'[q] > 0
  <2>1. /\ asked'[i] = asked[i] \/ asked'[i] > 0
        /\ \A q \in Prompts \ {i} : asked'[q] = asked[q]
    BY <1>1 DEF Advance, Asks, Typed
  <2>2. \/ ready' = rest
        \/ Asks(i) /\ ready' = [rest EXCEPT ![i] = Generation]
        \/ Asks(i) /\ ready' = [rest EXCEPT ![i] = Min2(Portfolio, now + Service)]
    BY DEF Advance
  <2>3. Asks(i) => asked'[i] > 0
    BY <1>1 DEF Asks, Typed
  <2>4. \A q \in Prompts \ {i} : ready'[q] = rest[q]
    BY <1>1, <2>2 DEF Requests
  <2>5. ready'[i] = rest[i] \/ asked'[i] > 0
    BY <2>2, <2>3
  <2> QED
    BY <2>1, <2>4, <2>5
<1> QED
  BY <1>1, <1>4, <1>5, <1>6, <1>7 DEF Advance, Raise, Typed, Failures

\* What the round knows about its first request, its order and its answers.
LEMMA Heads ==
  ASSUME Typed
  PROVE  /\ Called \subseteq Prompts /\ policy.n \in Nat \ {0}
         /\ completed # << >> => /\ Head(completed) \in Answers /\ Tail(completed) \in Seq(Answers)
                                 /\ Head(completed) = completed[1]
         /\ todo # << >> => Head(todo) \in Prompts /\ Tail(todo) \in Seq(Prompts)
         /\ Order \in Seq(Called)
         /\ Eligible # {} => /\ First \in Eligible /\ \A k \in Eligible : First <= k
                             /\ First \in 1..Len(todo) /\ todo[First] \in Prompts
                             /\ Native(todo[First]) /\ After(First) \in Seq(Prompts)
                             /\ Cardinality(Active) < policy.workers
<1>1. Called \subseteq Prompts /\ policy.n \in 1..N
  <2>1. policy.n \in 1..N /\ N \in Nat
    BY Parameters DEF Typed
  <2> QED
    BY <2>1 DEF Called, Prompts
<1>2. /\ completed # << >> => /\ Head(completed) \in Answers /\ Tail(completed) \in Seq(Answers)
                              /\ Head(completed) = completed[1]
      /\ todo # << >> => Head(todo) \in Prompts /\ Tail(todo) \in Seq(Prompts)
  BY HeadTailProperties DEF Typed
<1>3. Order \in Seq(Called)
  <2>1. \A k \in 1..policy.n : 1 + ((cursor + k - 2) % policy.n) \in 1..policy.n
    <3>1. cursor \in Int /\ policy.n \in Nat \ {0}
      BY <1>1, Parameters DEF Typed, Called
    <3>2. \A n \in Nat \ {0} : \A c \in Int : 1 + (c % n) \in 1..n
      OBVIOUS
    <3> QED
      BY <3>1, <3>2
  <2>2. Order = [k \in 1..policy.n |-> 1 + ((cursor + k - 2) % policy.n)] /\ policy.n \in Nat
    BY <1>1, Parameters DEF Order, Called
  <2> QED
    BY <2>1, <2>2, IsASeq DEF Called
<1>4. ASSUME Eligible # {}
      PROVE  /\ First \in Eligible /\ \A k \in Eligible : First <= k
             /\ First \in 1..Len(todo) /\ todo[First] \in Prompts
             /\ Native(todo[First]) /\ After(First) \in Seq(Prompts)
             /\ Cardinality(Active) < policy.workers
  <2>1. Eligible \in SUBSET (1..Len(todo)) /\ Len(todo) \in Nat
    BY DEF Eligible, Typed
  <2>2. \E m \in Eligible : \A k \in Eligible : m <= k
    BY <1>4, <2>1, Least
  <2>3. First \in Eligible /\ \A k \in Eligible : First <= k
    BY <2>2 DEF First
  <2>4. First \in 1..Len(todo) /\ todo[First] \in Prompts /\ Native(todo[First])
    BY <2>1, <2>3 DEF Eligible, Typed
  <2>5. After(First) \in Seq(Prompts)
    <3>1. \A k \in First + 1 .. Len(todo) : todo[k] \in Prompts
      BY <2>1, <2>4 DEF Typed
    <3> QED
      BY <2>1, <2>4, <3>1, SubSeqProperties DEF After
  <2>6. Cardinality(Active) < policy.workers
    <3>1. Active \in SUBSET Prompts /\ ~ (Cardinality(Active) >= policy.workers)
      BY <1>4 DEF Eligible, Active
    <3>2. Cardinality(Active) \in Nat /\ policy.workers \in Nat
      BY <3>1, Parameters, FS_Subset, FS_CardinalityType DEF Typed
    <3> QED
      BY <3>1, <3>2
  <2> QED
    BY <2>3, <2>4, <2>5, <2>6
<1> QED
  BY <1>1, <1>2, <1>3, <1>4, Parameters

\* Every variable keeps its type.
THEOREM TypeInvariance == Spec => []Typed
<1>1. Init => Typed
  <2> SUFFICES ASSUME Init PROVE Typed
    OBVIOUS
  <2>1. policy.n \in Nat \ {0} /\ 1 \in Called
    BY Parameters DEF Init, Called
  <2>2. << >> \in Seq(Answers) /\ << >> \in Seq(Prompts)
    OBVIOUS
  <2> QED
    BY <2>1, <2>2, Parameters DEF Init, Typed, Points, Ended, Leaving, Requests, Books, Failures
<1>2. Typed /\ [Next]_vars => Typed'
  <2> SUFFICES ASSUME Typed, [Next]_vars PROVE Typed'
    OBVIOUS
  <2> USE DEF Called, Leaving, Ended, threads, place, jobs, others
  <2>1. ASSUME Admit PROVE Typed'
    <3>1. next \in Prompts /\ pc \in Points /\ ready \in Requests /\ records \in Books
      <4>1. next \in 1..policy.n
        BY <2>1, Heads DEF Admit, Typed
      <4> QED
        BY <4>1, Heads DEF Typed
    <3>2. /\ ready' \in Requests /\ records' \in Books /\ done' \subseteq Prompts
          /\ asked' \in [Prompts -> 0..MaxRequests] /\ passed' \in [Prompts -> SUBSET Prompts]
          /\ failure' \in Failures
          /\ pc' \in {pc, IF pc = "first" THEN "raised" ELSE "finally"}
          /\ \A q \in Prompts : ready'[q] # None => asked'[q] > 0
      BY <2>1, <3>1, Advanced DEF Admit, Typed
    <3>3. /\ next' = next + 1 /\ next <= policy.n /\ pc \in {"first", "top"}
          /\ UNCHANGED <<now, policy, threads, cursor, from, todo, drained>>
      BY <2>1 DEF Admit
    <3> QED
      <4>1. next' \in 1..policy.n + 1
        BY <3>3, Heads DEF Typed
      <4> QED
        BY <3>2, <3>3, <4>1 DEF Typed, Points
  <2>2. ASSUME Admitted PROVE Typed'
    BY <2>2 DEF Admitted, Typed, Points, Ended
  <2>3. ASSUME Return PROVE Typed'
    BY <2>3 DEF Return, Typed, Points, Ended
  <2>4. ASSUME Observe PROVE Typed'
    <3>0. /\ pc = "observe" /\ completed # << >> /\ completed' = Tail(completed)
          /\ active' = [active EXCEPT ![Head(completed).prompt] = None]
          /\ UNCHANGED <<now, policy, running, ran, place, todo, drained>>
      BY <2>4 DEF Observe
    <3> DEFINE i == Head(completed).prompt
               books == [records EXCEPT ![Job(i)] = Publish(active[i])]
    <3>1. i \in Prompts /\ Tail(completed) \in Seq(Answers)
      BY <3>0, Heads DEF Answers
    <3>2. books \in Books /\ Cancel(records, Job(i), "CANCELLED") \in Books
      BY DEF Typed, Books, Publish, Cancel, States
    <3>4. \/ Advance(i, ready, books, "observe")
          \/ /\ records' \in {Cancel(records, Job(i), "CANCELLED"), books}
             /\ Raises /\ UNCHANGED <<ready, done, asked, passed>>
      BY <2>4 DEF Observe, Raises
    <3> HIDE DEF books
    <3>3. /\ ready' \in Requests /\ records' \in Books /\ done' \subseteq Prompts
          /\ asked' \in [Prompts -> 0..MaxRequests] /\ passed' \in [Prompts -> SUBSET Prompts]
          /\ failure' \in Failures
          /\ pc' \in {"observe", "finally"}
          /\ \A q \in Prompts : ready'[q] # None => asked'[q] > 0
      <4>1. CASE Advance(i, ready, books, "observe")
        BY <3>0, <3>1, <3>2, <4>1, Advanced DEF Typed, Points
      <4>2. CASE /\ records' \in {Cancel(records, Job(i), "CANCELLED"), books}
                 /\ Raises /\ UNCHANGED <<ready, done, asked, passed>>
        BY <3>0, <3>2, <4>2 DEF Raises, Raise, Typed, Failures
      <4> QED
        BY <3>4, <4>1, <4>2
    <3> QED
      BY <3>0, <3>1, <3>3 DEF Typed, Points
  <2>5. ASSUME Observed PROVE Typed'
    BY <2>5 DEF Observed, Typed, Points, Ended
  <2>6. ASSUME Expire PROVE Typed'
    <3>1. Order \in Seq(Prompts)
      BY Heads
    <3>2. /\ pc = "expire" /\ pc' \in {"dispatch", "top", "finally"}
          /\ todo' \in {todo, Order} /\ from' \in {from, cursor} /\ failure' \in {failure, "timeout"}
          /\ UNCHANGED <<now, policy, ready, threads, done, next, cursor, jobs, drained>>
      BY <2>6 DEF Expire, Raise
    <3> QED
      BY <3>1, <3>2 DEF Typed, Points, Failures
  <2>7. ASSUME DropQueued PROVE Typed'
    <3>0. /\ pc = "dispatch" /\ Eligible # {} /\ todo' = After(First)
          /\ UNCHANGED <<now, policy, threads, place, drained>>
      BY <2>7 DEF DropQueued
    <3> DEFINE i == todo[First]
               books == Cancel(records, Job(i), "UNSTARTED")
    <3>1. i \in Prompts /\ todo' \in Seq(Prompts) /\ Native(i)
      BY <3>0, Heads
    <3>2. books \in Books /\ Take(i) \in Requests
      BY DEF Typed, Books, Cancel, States, Take, Requests
    <3>a. \A q \in Prompts : Take(i)[q] # None => asked[q] > 0
      BY DEF Typed, Take, Requests
    <3>4. \/ Advance(i, Take(i), books, "dispatch")
          \/ /\ records' = books /\ ready' = Take(i)
             /\ Raises /\ UNCHANGED <<done, asked, passed>>
      BY <2>7 DEF DropQueued, Raises
    <3> HIDE DEF books
    <3>3. /\ ready' \in Requests /\ records' \in Books /\ done' \subseteq Prompts
          /\ asked' \in [Prompts -> 0..MaxRequests] /\ passed' \in [Prompts -> SUBSET Prompts]
          /\ failure' \in Failures
          /\ pc' \in {"dispatch", "finally"}
          /\ \A q \in Prompts : ready'[q] # None => asked'[q] > 0
      <4>1. CASE Advance(i, Take(i), books, "dispatch")
        BY <3>0, <3>1, <3>2, <3>a, <4>1, Advanced DEF Typed, Points
      <4>2. CASE /\ records' = books /\ ready' = Take(i)
                 /\ Raises /\ UNCHANGED <<done, asked, passed>>
        BY <3>0, <3>2, <3>a, <4>2 DEF Raises, Raise, Typed, Failures
      <4> QED
        BY <3>4, <4>1, <4>2
    <3> QED
      BY <3>0, <3>1, <3>3 DEF Typed, Points
  <2>8. ASSUME Dispatch PROVE Typed'
    <3>1. /\ pc = "dispatch" /\ todo[First] \in Prompts /\ Native(todo[First])
          /\ todo' \in Seq(Prompts)
      BY <2>8, Heads DEF Dispatch
    <3>2. Cursor(todo[First]) \in Called
      BY <3>1, Heads DEF Cursor, Prompts
    <3>3. Job(todo[First]) \in Jobs
      <4>1. asked[todo[First]] \in 1..MaxRequests
        <5>1. ready[todo[First]] # None
          BY <3>1, Parameters DEF Native
        <5>2. asked[todo[First]] > 0 /\ asked[todo[First]] \in 0..MaxRequests /\ MaxRequests \in Nat
          BY <3>1, <5>1, Parameters DEF Typed
        <5> QED
          BY <5>2
      <4> QED
        BY <3>1, <4>1 DEF Job, Jobs
    <3> QED
      BY <2>8, <3>1, <3>2, <3>3 DEF Dispatch, Take, Requests, Native, Typed, Points
  <2>9. ASSUME Dispatched PROVE Typed'
    BY <2>9 DEF Dispatched, Typed, Points, Ended
  <2>10. ASSUME Decode PROVE Typed'
    <3>0. pc = "decode" /\ UNCHANGED <<now, policy, threads, done, place, jobs, drained>>
      BY <2>10 DEF Decode
    <3>1. PICK size \in 1..Cardinality(Decoding) : \E group \in [1..size -> Decoding] :
            /\ todo' = group
            /\ ready' = [i \in Prompts |-> IF \E k \in 1..size : group[k] = i THEN None ELSE ready[i]]
      BY <2>10 DEF Decode
    <3>2. Decoding \in SUBSET Prompts /\ size \in Nat \ {0}
      <4>1. Decoding \in SUBSET Prompts
        BY Heads DEF Decoding
      <4> QED
        BY <3>1, <4>1, Parameters, FS_Subset, FS_CardinalityType
    <3>3. todo' \in Seq(Prompts) /\ todo' # << >>
      <4>1. PICK group \in [1..size -> Decoding] : todo' = group
        BY <3>1
      <4>2. group \in Seq(Prompts) /\ Len(group) = size
        BY <3>2, <4>1
      <4> QED
        BY <3>2, <4>1, <4>2
    <3>4. ready' \in Requests /\ \A q \in Prompts : ready'[q] # None => ready'[q] = ready[q]
      BY <3>1 DEF Typed, Requests
    <3>5. failure' \in Failures /\ pc' \in {"values", "finally"}
      BY <3>0, <2>10 DEF Decode, Raise, Typed, Failures
    <3> QED
      BY <3>0, <3>3, <3>4, <3>5 DEF Typed, Points
  <2>11. ASSUME Value PROVE Typed'
    <3>0. /\ pc = "values" /\ todo # << >> /\ todo' = Tail(todo)
          /\ Advance(Head(todo), ready, records, IF Len(todo) = 1 THEN "top" ELSE "values")
          /\ UNCHANGED <<now, policy, threads, place, drained>>
      BY <2>11 DEF Value, Typed
    <3>1. /\ Head(todo) \in Prompts /\ todo' \in Seq(Prompts)
          /\ Len(todo) # 1 => todo' # << >>
      <4>1. todo \in Seq(Prompts)
        BY DEF Typed
      <4> QED
        BY <3>0, <4>1, HeadTailProperties, LongerTail
    <3>2. /\ ready' \in Requests /\ records' \in Books /\ done' \subseteq Prompts
          /\ asked' \in [Prompts -> 0..MaxRequests] /\ passed' \in [Prompts -> SUBSET Prompts]
          /\ failure' \in Failures
          /\ pc' \in {IF Len(todo) = 1 THEN "top" ELSE "values", "finally"}
          /\ \A q \in Prompts : ready'[q] # None => asked'[q] > 0
      BY <3>0, <3>1, Advanced DEF Typed, Points
    <3> QED
      BY <3>0, <3>1, <3>2 DEF Typed, Points
  <2>12. ASSUME Idle PROVE Typed'
    BY <2>12 DEF Idle, Raise, Typed, Points, Failures
  <2>13. ASSUME Finally PROVE Typed'
    <3>1. records' \in Books
      <4>1. ASSUME NEW S \in SUBSET Prompts, NEW R \in SUBSET Prompts
            PROVE  LET U == [j \in Jobs |-> IF \E i \in S : Job(i) = j
                                            THEN Cancel(records, j, "UNSTARTED")[j] ELSE records[j]]
                   IN  /\ U \in Books
                       /\ [j \in Jobs |-> IF \E i \in R : Job(i) = j
                                          THEN Cancel(U, j, Stopped)[j] ELSE U[j]] \in Books
        <5> DEFINE U == [j \in Jobs |-> IF \E i \in S : Job(i) = j
                                        THEN Cancel(records, j, "UNSTARTED")[j] ELSE records[j]]
        <5>1. U \in Books
          BY Cancelling DEF Typed, Books, States
        <5> HIDE DEF U
        <5>2. [j \in Jobs |-> IF \E i \in R : Job(i) = j
                              THEN Cancel(U, j, Stopped)[j] ELSE U[j]] \in Books
          BY <5>1, Cancelling DEF Books, States, Stopped
        <5> QED
          BY <5>1, <5>2 DEF U
      <4> DEFINE lost == {i \in Queued : records[Job(i)] = None}
                 Unstarted(S) == [j \in Jobs |-> IF \E i \in S : Job(i) = j
                                                THEN Cancel(records, j, "UNSTARTED")[j]
                                                ELSE records[j]]
      <4>2. Queued \in SUBSET Prompts /\ Active \in SUBSET Prompts
        BY DEF Queued, Active
      <4>3. CASE records' = [j \in Jobs |-> IF \E i \in Active : Job(i) = j
                                            THEN Cancel(Unstarted(Queued), j, Stopped)[j]
                                            ELSE Unstarted(Queued)[j]]
        BY <4>1, <4>2, <4>3
      <4>4. ASSUME NEW before \in SUBSET (Queued \ lost), records' = Unstarted(before)
            PROVE  records' \in Books
        <5>1. before \in SUBSET Prompts
          BY <4>2
        <5> QED
          BY <4>1, <4>4, <5>1
      <4> QED
        BY <2>13, <4>3, <4>4 DEF Finally
    <3>2. /\ pc = "finally" /\ pc' \in {"join", "raised"} /\ drained' \in {drained, now + Envelope}
          /\ UNCHANGED <<now, policy, ready, threads, done, place, todo, asked, failure, passed>>
      BY <2>13 DEF Finally
    <3>3. now + Envelope \in 0..MaxTime + Envelope
      BY <3>2, Parameters DEF Typed
    <3> QED
      BY <3>1, <3>2, <3>3 DEF Typed, Points
  <2>14. ASSUME Join PROVE Typed'
    BY <2>14 DEF Join, Typed, Points, Ended, Failures
  <2>15. ASSUME CallerCancels PROVE Typed'
    <3>1. records' \in Books
      <4>1. \A j \in Jobs : Cancel(records, j, "CANCELLED")[j] \in States \cup {None}
        BY Cancelling DEF Typed, Books, States
      <4> QED
        BY <2>15, <4>1 DEF CallerCancels, Books
    <3> QED
      BY <2>15, <3>1 DEF CallerCancels, Typed, Points
  <2>16. ASSUME NEW i \in Prompts, Finish(i) PROVE Typed'
    <3>1. PICK e \in BOOLEAN : completed' = Append(completed, [prompt |-> i, error |-> e])
      BY <2>16 DEF Finish
    <3>2. completed' \in Seq(Answers)
      BY <3>1, AppendProperties DEF Typed, Answers
    <3> QED
      BY <2>16, <3>2 DEF Finish, Typed, Points
  <2>17. ASSUME Tick PROVE Typed'
    BY <2>17, Parameters DEF Tick, Typed, Points
  <2>18. ASSUME UNCHANGED vars PROVE Typed'
    BY <2>18 DEF vars, Typed
  <2> QED
    BY <2>1, <2>2, <2>3, <2>4, <2>5, <2>6, <2>7, <2>8, <2>9, <2>10, <2>11, <2>12, <2>13,
       <2>14, <2>15, <2>16, <2>17, <2>18 DEF Next, Owner
<1> QED
  BY <1>1, <1>2, PTL DEF Spec

(***************************************************************************)
(* Advancing prompt i, prompt by prompt and job by job: it asks for nothing *)
(* new, or its next job is asked for and reserved, or it cannot be.        *)
(***************************************************************************)
Failed(i) == pc' = (IF pc = "first" THEN "raised" ELSE "finally") /\ done' = done
Reserves(i, books) == /\ records'[<<i, asked[i] + 1>>] = "RESERVED"
                      /\ \A j \in Jobs \ {<<i, asked[i] + 1>>} : records'[j] = books[j]

\* What advance() leaves of each prompt and of each job.
LEMMA Advances ==
  ASSUME Typed, NEW i \in Prompts, NEW rest \in Requests, NEW books \in Books, NEW then \in Points,
         Advance(i, rest, books, then)
  PROVE  /\ \A q \in Prompts \ {i} : /\ ready'[q] = rest[q] /\ asked'[q] = asked[q]
                                     /\ passed'[q] = passed[q]
         /\ \/ /\ UNCHANGED <<asked, passed>> /\ ready' = rest /\ records' = books
               /\ \/ done' = done \cup {i} /\ pc' = then /\ failure' = failure
                  \/ Failed(i) /\ failure' = (IF pc = "first" THEN "outside" ELSE "other")
            \/ /\ asked'[i] = asked[i] + 1 /\ asked[i] < MaxRequests /\ passed'[i] = {} /\ done' = done
               /\ \/ /\ ready'[i] = Generation /\ records' = books
                     /\ pc' = then /\ failure' = failure
                  \/ /\ ready'[i] \in Deadlines /\ Reserves(i, books)
                     /\ pc' = then /\ failure' = failure
                  \/ /\ ready'[i] \in Deadlines /\ records' = books
                     /\ Failed(i) /\ failure' = (IF pc = "first" THEN "outside" ELSE "reserve")
<1>1. now \in Nat /\ Portfolio \in Nat /\ Service \in Nat /\ MaxRequests \in Nat
  BY Parameters DEF Typed
<1>2. Min2(Portfolio, now + Service) \in Deadlines
  BY <1>1 DEF Min2, Deadlines
<1>3. asked[i] < MaxRequests => <<i, asked[i] + 1>> \in Jobs
  BY <1>1 DEF Typed, Jobs
<1>4. asked \in [Prompts -> 0..MaxRequests] /\ passed \in [Prompts -> SUBSET Prompts]
      /\ rest \in [Prompts -> Deadlines \cup {Generation, None}]
  BY DEF Typed, Requests
<1>5. ASSUME Asks(i)
      PROVE  /\ asked'[i] = asked[i] + 1 /\ passed'[i] = {}
             /\ \A q \in Prompts \ {i} : asked'[q] = asked[q] /\ passed'[q] = passed[q]
  BY <1>4, <1>5 DEF Asks
<1>6. ASSUME NEW v, ready' = [rest EXCEPT ![i] = v]
      PROVE  ready'[i] = v /\ \A q \in Prompts \ {i} : ready'[q] = rest[q]
  BY <1>4, <1>6
<1>7. CASE /\ done' = done \cup {i} /\ ready' = rest /\ records' = books /\ pc' = then
           /\ UNCHANGED <<asked, passed, failure>>
  BY <1>7
<1>8. CASE /\ asked[i] < MaxRequests /\ Asks(i) /\ ready' = [rest EXCEPT ![i] = Generation]
           /\ records' = books /\ pc' = then /\ UNCHANGED <<done, failure>>
  BY <1>5, <1>6, <1>8
<1>9. CASE /\ asked[i] < MaxRequests /\ Asks(i) /\ UNCHANGED done
           /\ ready' = [rest EXCEPT ![i] = Min2(Portfolio, now + Service)]
           /\ records' = books /\ Raise("reserve")
  BY <1>2, <1>5, <1>6, <1>9 DEF Raise, Failed
<1>10. CASE /\ asked[i] < MaxRequests /\ Asks(i) /\ UNCHANGED <<done, failure>>
            /\ ready' = [rest EXCEPT ![i] = Min2(Portfolio, now + Service)]
            /\ records' = [books EXCEPT ![<<i, asked[i] + 1>>] = "RESERVED"] /\ pc' = then
  <2>1. Reserves(i, books)
    BY <1>3, <1>10 DEF Reserves, Books
  <2> QED
    BY <1>2, <1>5, <1>6, <1>10, <2>1
<1>11. CASE ready' = rest /\ records' = books /\ Raise("other") /\ UNCHANGED <<done, asked, passed>>
  BY <1>11 DEF Raise, Failed
<1> QED
  BY <1>7, <1>8, <1>9, <1>10, <1>11 DEF Advance

\* The same, as far as the places of the prompts are concerned.
LEMMA Moves ==
  ASSUME Typed, NEW i \in Prompts, NEW rest \in Requests, NEW books \in Books, NEW then \in Points,
         Advance(i, rest, books, then)
  PROVE  /\ \A q \in Prompts \ {i} : ready'[q] = rest[q] /\ asked'[q] = asked[q]
         /\ asked'[i] >= asked[i]
         /\ done' = done \/ (done' = done \cup {i} /\ ready' = rest)
         /\ pc' = then \/ pc' = (IF pc = "first" THEN "raised" ELSE "finally")
<1>1. asked[i] \in Nat
  BY Parameters DEF Typed
<1>2. \/ /\ UNCHANGED <<asked, passed>> /\ ready' = rest /\ records' = books
         /\ \/ done' = done \cup {i} /\ pc' = then
            \/ Failed(i)
      \/ asked'[i] = asked[i] + 1 /\ done' = done /\ (pc' = then \/ Failed(i))
  BY Advances
<1>3. \A q \in Prompts \ {i} : ready'[q] = rest[q] /\ asked'[q] = asked[q]
  BY Advances
<1>4. CASE UNCHANGED <<asked, passed>> /\ ready' = rest /\ done' = done \cup {i} /\ pc' = then
  BY <1>1, <1>3, <1>4
<1>5. CASE UNCHANGED <<asked, passed>> /\ ready' = rest /\ Failed(i)
  BY <1>1, <1>3, <1>5 DEF Failed
<1>6. CASE asked'[i] = asked[i] + 1 /\ done' = done /\ (pc' = then \/ Failed(i))
  <2>1. asked'[i] >= asked[i]
    BY <1>1, <1>6
  <2>2. pc' = then \/ pc' = (IF pc = "first" THEN "raised" ELSE "finally")
    BY <1>6 DEF Failed
  <2>3. done' = done
    BY <1>6
  <2> QED
    BY <1>3, <2>1, <2>2, <2>3
<1> QED
  BY <1>2, <1>4, <1>5, <1>6

(***************************************************************************)
(* Where a prompt is: not admitted yet, waiting with a request, out with   *)
(* one thread or one unread answer, in the decoded group, or done.         *)
(***************************************************************************)
Places ==
  /\ \A i \in Prompts : i >= next \/ i \in done => ready[i] = None /\ active[i] = None
  /\ \A i \in done : i < next
  /\ \A i \in Prompts : ready[i] # None => active[i] = None
  /\ \A i \in Active : asked[i] > 0
  /\ pc = "first" => Active = {}
  /\ pc = "values" =>
       /\ \A k \in 1..Len(todo) : /\ todo[k] < next /\ todo[k] \notin done
                                  /\ ready[todo[k]] = None /\ active[todo[k]] = None
       /\ \A k, l \in 1..Len(todo) : k # l => todo[k] # todo[l]
  /\ running \subseteq Active
  /\ \A k \in 1..Len(completed) : completed[k].prompt \in Active /\ completed[k].prompt \notin running
  /\ \A k, l \in 1..Len(completed) : k # l => completed[k].prompt # completed[l].prompt

\* A prompt is in one place only, and answers once for each request it is out with.
THEOREM PlaceInvariance == Spec => []Places
<1>1. Init => Places
  BY DEF Init, Places, Active
<1>2. Typed /\ Places /\ [Next]_vars => Places'
  <2> SUFFICES ASSUME Typed, Places, [Next]_vars PROVE Places'
    OBVIOUS
  <2> USE DEF threads, place, jobs, others
  <2>0. /\ ready \in [Prompts -> Deadlines \cup {Generation, None}]
        /\ active \in [Prompts -> Deadlines \cup {None}]
        /\ asked \in [Prompts -> 0..MaxRequests] /\ done \subseteq Prompts /\ next \in Nat
        /\ None \notin Deadlines /\ Generation # None /\ Len(completed) \in Nat /\ Len(todo) \in Nat
    BY Parameters DEF Typed, Requests
  <2>1. ASSUME Admit PROVE Places'
    <3>1. /\ next \in Prompts /\ next' = next + 1 /\ pc \in {"first", "top"} /\ pc \in Points
          /\ Advance(next, ready, records, pc) /\ ready \in Requests /\ records \in Books
          /\ UNCHANGED <<now, policy, threads, cursor, from, todo, drained>>
      <4>1. next <= policy.n /\ policy.n \in 1..N /\ N \in Nat
        BY <2>1, Parameters DEF Admit, Typed
      <4> QED
        BY <2>1, <2>0, <4>1 DEF Admit, Typed, Prompts
    <3>2. /\ \A q \in Prompts \ {next} : ready'[q] = ready[q] /\ asked'[q] = asked[q]
          /\ asked'[next] >= asked[next]
          /\ done' = done \/ (done' = done \cup {next} /\ ready' = ready)
          /\ pc' \in {pc, "raised", "finally"} /\ (pc = "first" => pc' # "values")
      BY <3>1, Moves
    <3>3. ready[next] = None /\ active[next] = None /\ next \notin done
      BY <2>0, <3>1 DEF Places
    <3>4. /\ \A q \in Prompts : q >= next' \/ q \in done' => ready'[q] = None /\ active'[q] = None
          /\ \A q \in done' : q < next'
          /\ \A q \in Prompts : ready'[q] # None => active'[q] = None
          /\ \A q \in Active' : asked'[q] > 0
      <4>1. next \in Int /\ next' = next + 1 /\ Prompts \subseteq Int /\ active' = active
        BY <2>0, <3>1, Parameters DEF Prompts
      <4>2. ASSUME NEW q \in Prompts, q >= next' \/ q \in done'
            PROVE  ready'[q] = None /\ active'[q] = None
        <5>1. CASE q = next
          BY <3>2, <3>3, <4>1, <4>2, <5>1
        <5>2. CASE q # next
          BY <3>2, <4>1, <4>2, <5>2 DEF Places
        <5> QED
          BY <5>1, <5>2
      <4>3. \A q \in done' : q < next'
        <5>1. \A q \in done : q < next /\ q \in Int
          BY <2>0, <4>1 DEF Places
        <5>2. done' \subseteq done \cup {next}
          BY <3>2
        <5> QED
          BY <4>1, <5>1, <5>2
      <4>4. \A q \in Prompts : ready'[q] # None => active'[q] = None
        BY <3>2, <3>3, <4>1 DEF Places
      <4>5. \A q \in Active' : asked'[q] > 0
        BY <3>2, <3>3, <4>1 DEF Places, Active
      <4> QED
        BY <4>2, <4>3, <4>4, <4>5
    <3> QED
      BY <2>0, <3>1, <3>2, <3>4 DEF Places, Active
  <2>2. ASSUME Admitted PROVE Places'
    BY <2>2, <2>0 DEF Admitted, Places, Active, Ended
  <2>3. ASSUME Return PROVE Places'
    BY <2>3, <2>0 DEF Return, Places, Active, Ended
  <2>4. ASSUME Observe PROVE Places'
    <3> DEFINE i == Head(completed).prompt
               books == [records EXCEPT ![Job(i)] = Publish(active[i])]
    <3>1. /\ pc = "observe" /\ completed # << >> /\ completed' = Tail(completed)
          /\ active' = [active EXCEPT ![i] = None]
          /\ UNCHANGED <<now, policy, running, ran, place, todo, drained>>
      BY <2>4 DEF Observe
    <3>2. /\ i = completed[1].prompt /\ i \in Prompts /\ Len(completed) > 0
          /\ Len(completed') = Len(completed) - 1
          /\ \A k \in 1..Len(completed') : completed'[k] = completed[k + 1]
      <4>1. completed \in Seq(Answers)
        BY DEF Typed
      <4>2. /\ Head(completed) = completed[1] /\ Len(completed) > 0
            /\ Len(Tail(completed)) = Len(completed) - 1
            /\ \A k \in 1..Len(completed) - 1 : Tail(completed)[k] = completed[k + 1]
        BY <3>1, <4>1, HeadTailProperties, EmptySeq
      <4>3. Head(completed).prompt \in Prompts
        BY <3>1, Heads DEF Answers
      <4> QED
        BY <3>1, <4>2, <4>3
    <3>3. i \in Active /\ i \notin running
      BY <2>0, <3>2 DEF Places
    <3>4. ready[i] = None /\ i \notin done /\ i < next
      <4>1. i \in Int /\ next \in Int /\ active[i] # None
        BY <2>0, <3>2, <3>3, Parameters DEF Prompts, Active
      <4> HIDE DEF i
      <4> QED
        BY <3>2, <4>1 DEF Places
    <3>5. /\ \A q \in Prompts \ {i} : ready'[q] = ready[q] /\ asked'[q] = asked[q]
          /\ asked'[i] >= asked[i]
          /\ done' = done \/ (done' = done \cup {i} /\ ready' = ready)
          /\ pc' \in {"observe", "finally"}
      <4>1. CASE Advance(i, ready, books, "observe")
        <5>1. ready \in Requests /\ books \in Books /\ "observe" \in Points
          BY DEF Typed, Books, Publish, States, Points
        <5> HIDE DEF books, i
        <5> QED
          BY <3>1, <3>2, <4>1, <5>1, Moves
      <4>2. CASE Raises /\ UNCHANGED <<ready, done, asked, passed>>
        BY <2>0, <3>1, <3>2, <4>2 DEF Raises, Raise
      <4> QED
        BY <2>4, <4>1, <4>2 DEF Observe, Raises
    <3> HIDE DEF i, books
    <3>6. active'[i] = None /\ \A q \in Prompts \ {i} : active'[q] = active[q]
      BY <2>0, <3>1, <3>2
    <3>7. /\ \A q \in Prompts : q >= next' \/ q \in done' => ready'[q] = None /\ active'[q] = None
          /\ \A q \in done' : q < next'
          /\ \A q \in Prompts : ready'[q] # None => active'[q] = None
          /\ \A q \in Active' : asked'[q] > 0
      BY <2>0, <3>1, <3>2, <3>4, <3>5, <3>6 DEF Places, Active
    <3>8. running' \subseteq Active'
      BY <2>0, <3>1, <3>3, <3>6 DEF Places, Active
    <3>9. /\ \A k \in 1..Len(completed') : /\ completed'[k].prompt \in Active'
                                           /\ completed'[k].prompt \notin running'
          /\ \A k, l \in 1..Len(completed') :
               k # l => completed'[k].prompt # completed'[l].prompt
      <4>1. \A k \in 1..Len(completed') : completed[k + 1].prompt # i /\ k + 1 \in 1..Len(completed)
        BY <2>0, <3>2 DEF Places
      <4> QED
        BY <2>0, <3>1, <3>2, <3>6, <4>1 DEF Places, Active
    <3> QED
      BY <3>1, <3>5, <3>7, <3>8, <3>9 DEF Places
  <2>5. ASSUME Observed PROVE Places'
    BY <2>5, <2>0 DEF Observed, Places, Active, Ended
  <2>6. ASSUME Expire PROVE Places'
    BY <2>6, <2>0 DEF Expire, Raise, Places, Active
  <2>7. ASSUME DropQueued PROVE Places'
    <3> DEFINE i == todo[First]
               books == Cancel(records, Job(i), "UNSTARTED")
    <3>1. /\ pc = "dispatch" /\ i \in Prompts /\ Native(i)
          /\ UNCHANGED <<now, policy, threads, place, drained>>
      BY <2>7, Heads DEF DropQueued
    <3>2. ready[i] # None /\ i \notin done /\ i < next
      <4>1. ready[i] \in Deadlines /\ ready[i] # None
        BY <2>0, <3>1 DEF Native
      <4>2. i \in Int /\ next \in Int
        BY <2>0, <3>1, Parameters DEF Prompts
      <4> HIDE DEF i
      <4> QED
        BY <3>1, <4>1, <4>2 DEF Places
    <3>3. /\ Take(i) \in Requests /\ Take(i)[i] = None
          /\ \A q \in Prompts \ {i} : Take(i)[q] = ready[q]
      BY <2>0, <3>1 DEF Take, Requests
    <3>4. /\ \A q \in Prompts \ {i} : ready'[q] = ready[q] /\ asked'[q] = asked[q]
          /\ asked'[i] >= asked[i]
          /\ done' = done \/ (done' = done \cup {i} /\ ready'[i] = None)
          /\ pc' \in {"dispatch", "finally"}
      <4>1. CASE Advance(i, Take(i), books, "dispatch")
        <5>1. books \in Books /\ "dispatch" \in Points
          BY DEF Typed, Books, Cancel, States, Points
        <5> HIDE DEF books, i
        <5> QED
          BY <3>1, <3>3, <4>1, <5>1, Moves
      <4>2. CASE Raises /\ ready' = Take(i) /\ UNCHANGED <<done, asked, passed>>
        BY <2>0, <3>1, <3>3, <4>2 DEF Raises, Raise
      <4> QED
        BY <2>7, <4>1, <4>2 DEF DropQueued, Raises
    <3> HIDE DEF i, books
    <3>5. /\ \A q \in Prompts : q >= next' \/ q \in done' => ready'[q] = None /\ active'[q] = None
          /\ \A q \in done' : q < next'
          /\ \A q \in Prompts : ready'[q] # None => active'[q] = None
          /\ \A q \in Active' : asked'[q] > 0
      BY <2>0, <3>1, <3>2, <3>4 DEF Places, Active
    <3> QED
      BY <3>1, <3>4, <3>5 DEF Places, Active
  <2>8. ASSUME Dispatch PROVE Places'
    <3> DEFINE i == todo[First]
    <3>1. /\ pc = "dispatch" /\ i \in Prompts /\ Native(i)
          /\ active' = [active EXCEPT ![i] = ready[i]] /\ ready' = Take(i)
          /\ running' = running \cup {i}
          /\ UNCHANGED <<now, policy, pc, completed, done, next, from, asked, records, failure, drained>>
      BY <2>8, Heads DEF Dispatch
    <3>2. ready[i] \in Deadlines /\ ready[i] # None /\ active[i] = None /\ i \notin done /\ i < next
      <4>1. ready[i] \in Deadlines /\ ready[i] # None
        BY <2>0, <3>1 DEF Native
      <4>2. i \in Int /\ next \in Int
        BY <2>0, <3>1, Parameters DEF Prompts
      <4> HIDE DEF i
      <4> QED
        BY <3>1, <4>1, <4>2 DEF Places
    <3> HIDE DEF i
    <3>3. /\ ready'[i] = None /\ active'[i] # None
          /\ \A q \in Prompts \ {i} : ready'[q] = ready[q] /\ active'[q] = active[q]
          /\ Active' = Active \cup {i} /\ i \notin Active
      BY <2>0, <3>1, <3>2 DEF Take, Active
    <3>4. asked[i] > 0
      BY <3>1, <3>2 DEF Typed
    <3>5. /\ \A q \in Prompts : q >= next' \/ q \in done' => ready'[q] = None /\ active'[q] = None
          /\ \A q \in done' : q < next'
          /\ \A q \in Prompts : ready'[q] # None => active'[q] = None
          /\ \A q \in Active' : asked'[q] > 0
      BY <2>0, <3>1, <3>2, <3>3, <3>4 DEF Places, Active
    <3> QED
      BY <3>1, <3>3, <3>5 DEF Places
  <2>9. ASSUME Dispatched PROVE Places'
    BY <2>9, <2>0 DEF Dispatched, Places, Active, Ended
  <2>10. ASSUME Decode PROVE Places'
    <3>1. /\ pc = "decode" /\ pc' \in {"values", "finally"}
          /\ UNCHANGED <<now, policy, threads, done, place, jobs, drained>>
      BY <2>10 DEF Decode, Raise
    <3>2. PICK size \in 1..Cardinality(Decoding) : \E group \in [1..size -> Decoding] :
            /\ \A k, l \in 1..size : k < l => Turn(from, group[k]) < Turn(from, group[l])
            /\ todo' = group
            /\ ready' = [i \in Prompts |-> IF \E k \in 1..size : group[k] = i THEN None ELSE ready[i]]
      BY <2>10 DEF Decode
    <3>3. PICK group \in [1..size -> Decoding] :
            /\ \A k, l \in 1..size : k < l => Turn(from, group[k]) < Turn(from, group[l])
            /\ todo' = group
            /\ ready' = [i \in Prompts |-> IF \E k \in 1..size : group[k] = i THEN None ELSE ready[i]]
      BY <3>2
    <3>4. Decoding \in SUBSET Prompts /\ size \in Nat /\ Len(todo') = size
      <4>1. Decoding \in SUBSET Prompts
        BY Heads DEF Decoding
      <4>2. Cardinality(Decoding) \in Nat
        BY <4>1, Parameters, FS_Subset, FS_CardinalityType
      <4> QED
        BY <3>2, <3>3, <4>1, <4>2
    <3>5. \A q \in Prompts : ready'[q] = None \/ ready'[q] = ready[q]
      BY <3>3
    <3>6. \A k \in 1..size : /\ todo'[k] \in Prompts /\ ready[todo'[k]] = Generation
                             /\ ready'[todo'[k]] = None
      BY <3>3, <3>4 DEF Decoding
    <3>7. \A k, l \in 1..size : k # l => todo'[k] # todo'[l]
      <4>1. policy.n \in Int /\ from \in Int /\ Prompts \subseteq Int
        BY Heads, Parameters DEF Typed, Called, Prompts
      <4>2. \A q \in Prompts : Turn(from, q) \in Int
        BY <4>1, Heads DEF Turn
      <4>3. \A k, l \in 1..size : k < l => Turn(from, todo'[k]) < Turn(from, todo'[l])
        BY <3>3
      <4>4. ASSUME NEW k \in 1..size, NEW l \in 1..size, k < l PROVE todo'[k] # todo'[l]
        <5>1. todo'[k] \in Prompts /\ todo'[l] \in Prompts
          BY <3>6
        <5>2. Turn(from, todo'[k]) < Turn(from, todo'[l])
          BY <4>3, <4>4
        <5> QED
          BY <4>2, <5>1, <5>2
      <4> QED
        BY <3>4, <4>4
    <3>8. \A k \in 1..size : /\ todo'[k] < next /\ todo'[k] \notin done
                             /\ active[todo'[k]] = None
      BY <2>0, <3>6 DEF Places, Prompts
    <3>9. /\ \A q \in Prompts : q >= next' \/ q \in done' => ready'[q] = None /\ active'[q] = None
          /\ \A q \in done' : q < next'
          /\ \A q \in Prompts : ready'[q] # None => active'[q] = None
          /\ \A q \in Active' : asked'[q] > 0
      BY <2>0, <3>1, <3>5 DEF Places, Active
    <3> QED
      BY <3>1, <3>4, <3>6, <3>7, <3>8, <3>9 DEF Places, Active
  <2>11. ASSUME Value PROVE Places'
    <3> DEFINE i == Head(todo)
    <3>1. /\ pc = "values" /\ todo # << >> /\ todo' = Tail(todo)
          /\ Advance(i, ready, records, IF Len(todo) = 1 THEN "top" ELSE "values")
          /\ UNCHANGED <<now, policy, threads, place, drained>>
      BY <2>11 DEF Value, Typed
    <3>2. /\ i = todo[1] /\ i \in Prompts /\ Len(todo) > 0 /\ Len(todo') = Len(todo) - 1
          /\ \A k \in 1..Len(todo') : todo'[k] = todo[k + 1]
      <4>1. todo \in Seq(Prompts)
        BY DEF Typed
      <4> QED
        BY <2>0, <3>1, <4>1, HeadTailProperties, EmptySeq
    <3> HIDE DEF i
    <3>3. ready[i] = None /\ active[i] = None /\ i \notin done /\ i < next
      BY <2>0, <3>1, <3>2 DEF Places
    <3>4. /\ \A q \in Prompts \ {i} : ready'[q] = ready[q] /\ asked'[q] = asked[q]
          /\ asked'[i] >= asked[i]
          /\ done' = done \/ (done' = done \cup {i} /\ ready' = ready)
          /\ pc' \in {"top", "values", "finally"}
      <4>1. ready \in Requests /\ records \in Books
            /\ (IF Len(todo) = 1 THEN "top" ELSE "values") \in Points
        BY DEF Typed, Points
      <4> QED
        BY <3>1, <3>2, <4>1, Moves
    <3>5. \A k \in 1..Len(todo') : k + 1 \in 1..Len(todo) /\ todo'[k] # i /\ todo'[k] \in Prompts
      BY <2>0, <3>1, <3>2 DEF Places, Typed
    <3>6. /\ \A q \in Prompts : q >= next' \/ q \in done' => ready'[q] = None /\ active'[q] = None
          /\ \A q \in done' : q < next'
          /\ \A q \in Prompts : ready'[q] # None => active'[q] = None
          /\ \A q \in Active' : asked'[q] > 0
      <4>1. next' = next /\ active' = active /\ i \in Int /\ next \in Int
        BY <2>0, <3>1, <3>2, Parameters DEF Prompts
      <4>2. ASSUME NEW q \in Prompts, q >= next' \/ q \in done'
            PROVE  ready'[q] = None /\ active'[q] = None
        <5>1. CASE q = i
          BY <3>2, <3>3, <3>4, <4>1, <4>2, <5>1
        <5>2. CASE q # i
          BY <3>4, <4>1, <4>2, <5>2 DEF Places
        <5> QED
          BY <5>1, <5>2
      <4>3. \A q \in done' : q < next'
        BY <3>3, <3>4, <4>1 DEF Places
      <4>4. \A q \in Prompts : ready'[q] # None => active'[q] = None
        BY <3>3, <3>4, <4>1 DEF Places
      <4>5. \A q \in Active' : asked'[q] > 0
        BY <3>3, <3>4, <4>1 DEF Places, Active
      <4> QED
        BY <4>2, <4>3, <4>4, <4>5
    <3>7. pc' = "values" =>
            /\ \A k \in 1..Len(todo') : /\ todo'[k] < next' /\ todo'[k] \notin done'
                                        /\ ready'[todo'[k]] = None /\ active'[todo'[k]] = None
            /\ \A k, l \in 1..Len(todo') : k # l => todo'[k] # todo'[l]
      BY <2>0, <3>1, <3>2, <3>4, <3>5 DEF Places
    <3> QED
      BY <3>1, <3>4, <3>6, <3>7 DEF Places, Active
  <2>12. ASSUME Idle PROVE Places'
    BY <2>12, <2>0 DEF Idle, Raise, Places, Active
  <2>13. ASSUME Finally PROVE Places'
    BY <2>13, <2>0 DEF Finally, Places, Active, Ended
  <2>14. ASSUME Join PROVE Places'
    BY <2>14, <2>0 DEF Join, Places, Active, Ended
  <2>15. ASSUME CallerCancels PROVE Places'
    BY <2>15, <2>0 DEF CallerCancels, Places, Active, Ended
  <2>16. ASSUME NEW i \in Prompts, Finish(i) PROVE Places'
    <3>1. PICK e \in BOOLEAN : completed' = Append(completed, [prompt |-> i, error |-> e])
      BY <2>16 DEF Finish
    <3>2. /\ Len(completed') = Len(completed) + 1
          /\ completed'[Len(completed) + 1].prompt = i
          /\ \A k \in 1..Len(completed) : completed'[k] = completed[k]
      BY <2>0, <3>1, AppendProperties DEF Typed, Answers
    <3>3. i \in running /\ running' = running \ {i}
          /\ UNCHANGED <<now, policy, pc, ready, active, ran, done, place, todo, jobs, failure, drained>>
      BY <2>16 DEF Finish
    <3>4. /\ \A k \in 1..Len(completed') : /\ completed'[k].prompt \in Active
                                           /\ completed'[k].prompt \notin running'
          /\ \A k, l \in 1..Len(completed') :
               k # l => completed'[k].prompt # completed'[l].prompt
      <4>1. \A k \in 1..Len(completed') : k \in 1..Len(completed) \/ k = Len(completed) + 1
        BY <2>0, <3>2
      <4>2. \A k \in 1..Len(completed) : completed[k].prompt # i
        BY <3>3 DEF Places
      <4> QED
        BY <2>0, <3>2, <3>3, <4>1, <4>2 DEF Places
    <3> QED
      BY <3>3, <3>4 DEF Places, Active
  <2>17. ASSUME Tick PROVE Places'
    BY <2>17, <2>0 DEF Tick, Places, Active, Ended
  <2>18. ASSUME UNCHANGED vars PROVE Places'
    BY <2>18 DEF vars, Places, Active
  <2> QED
    BY <2>1, <2>2, <2>3, <2>4, <2>5, <2>6, <2>7, <2>8, <2>9, <2>10, <2>11, <2>12, <2>13,
       <2>14, <2>15, <2>16, <2>17, <2>18 DEF Next, Owner
<1> QED
  BY <1>1, <1>2, TypeInvariance, PTL DEF Spec

(***************************************************************************)
(* Each answer on the queue and each living thread has a request that is   *)
(* still out, and no more are out than there are workers.                  *)
(***************************************************************************)
Fits == /\ Len(completed) + Cardinality(running) <= Cardinality(Active)
        /\ Cardinality(Active) <= policy.workers

\* The queue of answers and the living threads never outnumber the requests that are out.
THEOREM FitInvariance == Spec => []Fits
<1>1. Init => Fits
  <2> SUFFICES ASSUME Init PROVE Fits
    OBVIOUS
  <2>1. running = {} /\ Active = {} /\ Len(completed) = 0 /\ policy.workers \in Nat
    BY Parameters DEF Init, Active
  <2> QED
    BY <2>1, FS_EmptySet DEF Fits
<1>2. Typed /\ Places /\ Fits /\ [Next]_vars => Fits'
  <2> SUFFICES ASSUME Typed, Places, Fits, [Next]_vars PROVE Fits'
    OBVIOUS
  <2> USE DEF threads, place, jobs, others
  <2>0. /\ IsFiniteSet(Active) /\ Cardinality(Active) \in Nat /\ running \subseteq Active
        /\ IsFiniteSet(running) /\ Cardinality(running) \in Nat /\ Len(completed) \in Nat
        /\ policy.workers \in Nat
    <3>1. Active \subseteq Prompts
      BY DEF Active
    <3> QED
      BY <3>1, Parameters, FS_Subset, FS_CardinalityType DEF Typed, Places
  <2>1. ASSUME Admit PROVE Fits'
    BY <2>1 DEF Admit, Fits, Active
  <2>2. ASSUME Admitted PROVE Fits'
    BY <2>2 DEF Admitted, Fits, Active
  <2>3. ASSUME Return PROVE Fits'
    BY <2>3 DEF Return, Fits, Active
  <2>4. ASSUME Observe PROVE Fits'
    <3> DEFINE i == Head(completed).prompt
    <3>1. /\ completed # << >> /\ completed' = Tail(completed)
          /\ active' = [active EXCEPT ![i] = None] /\ UNCHANGED <<running, policy>>
      BY <2>4 DEF Observe
    <3>2. /\ i = completed[1].prompt /\ Len(completed) > 0 /\ Len(completed') = Len(completed) - 1
      BY <2>0, <3>1, HeadTailProperties, EmptySeq DEF Typed, Answers
    <3>3. i \in Active /\ i \in Prompts
      BY <2>0, <3>2 DEF Places, Active
    <3> HIDE DEF i
    <3>4. Active' = Active \ {i}
      BY <3>1, <3>3 DEF Typed, Active
    <3>5. Cardinality(Active') = Cardinality(Active) - 1
      BY <2>0, <3>3, <3>4, FS_RemoveElement
    <3> QED
      BY <2>0, <3>1, <3>2, <3>5 DEF Fits
  <2>5. ASSUME Observed PROVE Fits'
    BY <2>5 DEF Observed, Fits, Active
  <2>6. ASSUME Expire PROVE Fits'
    BY <2>6 DEF Expire, Fits, Active
  <2>7. ASSUME DropQueued PROVE Fits'
    BY <2>7 DEF DropQueued, Fits, Active
  <2>8. ASSUME Dispatch PROVE Fits'
    <3> DEFINE i == todo[First]
    <3>1. /\ i \in Prompts /\ Native(i) /\ Cardinality(Active) < policy.workers
          /\ active' = [active EXCEPT ![i] = ready[i]] /\ running' = running \cup {i}
          /\ UNCHANGED <<completed, policy>>
      <4>1. Cardinality(Active) < policy.workers
        BY <2>8, <2>0 DEF Dispatch, Eligible
      <4> QED
        BY <2>8, <4>1, Heads DEF Dispatch
    <3> HIDE DEF i
    <3>2. i \notin Active /\ ready[i] # None
      BY <3>1, Parameters DEF Places, Native, Active
    <3>3. Active' = Active \cup {i} /\ i \notin running
      BY <2>0, <3>1, <3>2 DEF Typed, Active
    <3>4. /\ Cardinality(Active') = Cardinality(Active) + 1
          /\ Cardinality(running') = Cardinality(running) + 1
      BY <2>0, <3>1, <3>2, <3>3, FS_AddElement
    <3> QED
      BY <2>0, <3>1, <3>4 DEF Fits
  <2>9. ASSUME Dispatched PROVE Fits'
    BY <2>9 DEF Dispatched, Fits, Active
  <2>10. ASSUME Decode PROVE Fits'
    BY <2>10 DEF Decode, Fits, Active
  <2>11. ASSUME Value PROVE Fits'
    BY <2>11 DEF Value, Fits, Active
  <2>12. ASSUME Idle PROVE Fits'
    BY <2>12 DEF Idle, Fits, Active
  <2>13. ASSUME Finally PROVE Fits'
    BY <2>13 DEF Finally, Fits, Active
  <2>14. ASSUME Join PROVE Fits'
    BY <2>14 DEF Join, Fits, Active
  <2>15. ASSUME CallerCancels PROVE Fits'
    BY <2>15 DEF CallerCancels, Fits, Active
  <2>16. ASSUME NEW i \in Prompts, Finish(i) PROVE Fits'
    <3>1. PICK e \in BOOLEAN : completed' = Append(completed, [prompt |-> i, error |-> e])
      BY <2>16 DEF Finish
    <3>2. Len(completed') = Len(completed) + 1
      BY <2>0, <3>1, AppendProperties DEF Typed, Answers
    <3>3. i \in running /\ running' = running \ {i} /\ UNCHANGED <<active, policy>>
      BY <2>16 DEF Finish
    <3>4. Cardinality(running') = Cardinality(running) - 1
      BY <2>0, <3>3, FS_RemoveElement
    <3> QED
      BY <2>0, <3>2, <3>3, <3>4 DEF Fits, Active
  <2>17. ASSUME Tick PROVE Fits'
    BY <2>17 DEF Tick, Fits, Active
  <2>18. ASSUME UNCHANGED vars PROVE Fits'
    BY <2>18 DEF vars, Fits, Active
  <2> QED
    BY <2>1, <2>2, <2>3, <2>4, <2>5, <2>6, <2>7, <2>8, <2>9, <2>10, <2>11, <2>12, <2>13,
       <2>14, <2>15, <2>16, <2>17, <2>18 DEF Next, Owner
<1> QED
  BY <1>1, <1>2, TypeInvariance, PlaceInvariance, PTL DEF Spec

\* No thread is ever stuck in put(): its answer always finds room.
THEOREM NeverStuckHolds == Spec => []NeverStuck
<1>1. Typed /\ Places /\ Fits => NeverStuck
  <2> SUFFICES ASSUME Typed, Places, Fits PROVE NeverStuck
    OBVIOUS
  <2>1. running \subseteq Prompts /\ Active \subseteq Prompts
    BY DEF Typed, Active
  <2>2. Cardinality(running) \in Nat /\ Cardinality(Active) \in Nat
    BY <2>1, Parameters, FS_Subset, FS_CardinalityType
  <2>3. Len(completed) \in Nat /\ policy.workers \in Nat
    BY Parameters DEF Typed
  <2> QED
    BY <2>2, <2>3 DEF Fits, NeverStuck
<1> QED
  BY <1>1, TypeInvariance, PlaceInvariance, FitInvariance, PTL

(***************************************************************************)
(* The account of one prompt: the ledger holds nothing of jobs it has not  *)
(* asked for; only its last job can be reserved, and then its request      *)
(* waits or is out; a waiting job was never started and one that is out    *)
(* was; whatever was started is charged or reserved, and nothing else is   *)
(* charged.                                                                *)
(***************************************************************************)
Attempts == 1..MaxRequests
Account(q) ==
  /\ \A k \in Attempts : k > asked[q] => records[<<q, k>>] = None /\ <<q, k>> \notin ran
  /\ \A k \in Attempts : records[<<q, k>>] = "RESERVED" =>
       k = asked[q] /\ (Native(q) \/ active[q] # None)
  /\ Native(q) => Job(q) \notin ran
  /\ active[q] # None => Job(q) \in ran
  /\ \A k \in Attempts : <<q, k>> \in ran => records[<<q, k>>] \in Charged \cup {"RESERVED"}
  /\ \A k \in Attempts : records[<<q, k>>] \in Charged => <<q, k>> \in ran
  /\ pc \notin {"join"} \cup Ended /\ active[q] # None => records[Job(q)] = "RESERVED"
  /\ pc \notin {"join"} \cup Ended /\ (pc = "finally" => failure # "reserve") /\ Native(q) =>
       records[Job(q)] = "RESERVED"

Accounts == /\ \A q \in Prompts : Account(q)
            /\ pc = "join" => \A j \in Jobs : records[j] # "RESERVED"
            /\ AllSettled

\* Jobs are the pairs of a prompt and an attempt.
LEMMA Pairs ==
  /\ \A q \in Prompts : \A k \in Attempts : <<q, k>> \in Jobs
  /\ \A j \in Jobs : \E q \in Prompts : \E k \in Attempts : j = <<q, k>>
BY DEF Jobs, Attempts

\* The account of a prompt stays as it is while nothing in it changes and drive() goes on.
LEMMA Untouched ==
  ASSUME NEW q \in Prompts, Account(q), asked'[q] = asked[q], active'[q] = active[q],
         ready'[q] \in Deadlines <=> ready[q] \in Deadlines,
         \A k \in Attempts : records'[<<q, k>>] = records[<<q, k>>],
         Native(q) \/ active[q] # None => asked[q] \in Attempts,
         \A k \in Attempts : <<q, k>> \in ran' <=> <<q, k>> \in ran,
         \/ pc \notin {"join", "finally"} \cup Ended
         \/ pc' = pc /\ failure' = failure
         \/ pc' \in {"join"} \cup Ended
  PROVE  Account(q)'
<1> DEFINE a == asked[q]
<1>1. Native(q)' <=> Native(q)
  BY DEF Native
<1>2. Job(q)' = <<q, a>> /\ Job(q) = <<q, a>>
  BY DEF Job
<1>3. Native(q) \/ active[q] # None => /\ records'[<<q, a>>] = records[<<q, a>>]
                                       /\ <<q, a>> \in ran' <=> <<q, a>> \in ran
  OBVIOUS
<1> HIDE DEF a
<1>4. pc' \notin {"join"} \cup Ended => pc \notin {"join"} \cup Ended
  BY DEF Ended
<1>5. pc' \notin {"join"} \cup Ended /\ (pc' = "finally" => failure' # "reserve") =>
      pc \notin {"join"} \cup Ended /\ (pc = "finally" => failure # "reserve")
  BY DEF Ended
<1>7. \A k \in Attempts : k > asked'[q] => records'[<<q, k>>] = None /\ <<q, k>> \notin ran'
  BY DEF Account
<1>8. \A k \in Attempts : records'[<<q, k>>] = "RESERVED" =>
       k = asked'[q] /\ (Native(q)' \/ active'[q] # None)
  BY <1>1 DEF Account
<1>9. /\ Native(q)' => Job(q)' \notin ran'
      /\ active'[q] # None => Job(q)' \in ran'
  BY <1>1, <1>2, <1>3 DEF Account
<1>10. /\ \A k \in Attempts : <<q, k>> \in ran' => records'[<<q, k>>] \in Charged \cup {"RESERVED"}
       /\ \A k \in Attempts : records'[<<q, k>>] \in Charged => <<q, k>> \in ran'
  BY DEF Account
<1>11. pc' \notin {"join"} \cup Ended /\ active'[q] # None => records'[Job(q)'] = "RESERVED"
  BY <1>2, <1>3, <1>4 DEF Account
<1>12. pc' \notin {"join"} \cup Ended /\ (pc' = "finally" => failure' # "reserve") /\ Native(q)' =>
       records'[Job(q)'] = "RESERVED"
  BY <1>1, <1>2, <1>3, <1>5 DEF Account
<1> QED
  BY <1>7, <1>8, <1>9, <1>10, <1>11, <1>12 DEF Account

\* The account of a prompt that is advanced and owes nothing.
LEMMA NextRequest ==
  ASSUME Typed, NEW i \in Prompts, NEW rest \in Requests, NEW books \in Books, NEW then \in Points,
         Advance(i, rest, books, then), rest[i] = None, active'[i] = None, ran' = ran,
         pc \notin {"join", "finally"} \cup Ended, then # "finally",
         \A k \in Attempts : /\ books[<<i, k>>] # "RESERVED"
                             /\ k > asked[i] => books[<<i, k>>] = None /\ <<i, k>> \notin ran
                             /\ <<i, k>> \in ran => books[<<i, k>>] \in Charged
                             /\ books[<<i, k>>] \in Charged => <<i, k>> \in ran
  PROVE  Account(i)'
<1>1. asked[i] \in Nat /\ MaxRequests \in Nat /\ None \notin Deadlines /\ Generation \notin Deadlines
      /\ None \notin Charged /\ "RESERVED" \notin Charged
  BY Parameters DEF Typed, Charged, States
<1>2. Job(i)' = <<i, asked'[i]>> /\ (Native(i)' <=> ready'[i] \in Deadlines)
  BY DEF Job, Native
<1>3. CASE UNCHANGED <<asked, passed>> /\ ready' = rest /\ records' = books
  BY <1>1, <1>2, <1>3 DEF Account
<1>4. CASE /\ asked'[i] = asked[i] + 1 /\ ready'[i] = Generation /\ records' = books
  BY <1>1, <1>2, <1>4 DEF Account, Attempts
<1>5. CASE /\ asked'[i] = asked[i] + 1 /\ asked[i] < MaxRequests /\ ready'[i] \in Deadlines
           /\ Reserves(i, books)
  <2>1. /\ asked[i] + 1 \in Attempts /\ <<i, asked[i] + 1>> \notin ran
        /\ records'[<<i, asked[i] + 1>>] = "RESERVED"
    BY <1>1, <1>5 DEF Attempts, Reserves
  <2>2. \A k \in Attempts : k # asked[i] + 1 => records'[<<i, k>>] = books[<<i, k>>]
    BY <1>1, <1>5, Pairs DEF Reserves
  <2> QED
    BY <1>1, <1>2, <1>5, <2>1, <2>2 DEF Account, Attempts
<1>6. CASE /\ asked'[i] = asked[i] + 1 /\ asked[i] < MaxRequests /\ ready'[i] \in Deadlines
           /\ records' = books /\ Failed(i)
           /\ failure' = (IF pc = "first" THEN "outside" ELSE "reserve")
  <2>1. asked[i] + 1 \in Attempts
    BY <1>1, <1>6 DEF Attempts
  <2>2. pc' \in Ended \/ (pc' = "finally" /\ failure' = "reserve")
    BY <1>6 DEF Failed, Ended
  <2> QED
    BY <1>1, <1>2, <1>6, <2>1, <2>2 DEF Account, Attempts
<1> QED
  BY <1>3, <1>4, <1>5, <1>6, Advances

\* The accounts of all prompts, while no account changes and drive() goes on.
LEMMA NothingSettled ==
  ASSUME Typed, Accounts, UNCHANGED <<asked, active, records, ran>>,
         \A q \in Prompts : ready'[q] \in Deadlines <=> ready[q] \in Deadlines,
         \A q \in Prompts : Native(q) \/ active[q] # None => asked[q] \in Attempts,
         \/ pc \notin {"join", "finally"} \cup Ended /\ pc' \notin {"join"} \cup Ended
         \/ pc' = pc /\ failure' = failure
  PROVE  Accounts'
<1>1. \A q \in Prompts : Account(q)'
  <2>1. ASSUME NEW q \in Prompts PROVE Account(q)'
    <3>1. Account(q)
      BY DEF Accounts
    <3> QED
      BY <3>1, Untouched
  <2> QED
    BY <2>1
<1>2. pc' = "join" => \A j \in Jobs : records'[j] # "RESERVED"
  BY DEF Accounts
<1>3. AllSettled'
  BY DEF Accounts, AllSettled
<1> QED
  BY <1>1, <1>2, <1>3 DEF Accounts

\* The accounts after prompt i was advanced, if it owes nothing and the others are as they were.
LEMMA OneAdvanced ==
  ASSUME Typed, Accounts, NEW i \in Prompts, NEW rest \in Requests, NEW books \in Books,
         NEW then \in Points,
         Advance(i, rest, books, then), rest[i] = None, active'[i] = None, ran' = ran,
         pc \notin {"join", "finally"} \cup Ended, then \notin {"join", "finally"} \cup Ended,
         pc = "first" => then \in {"first", "top"},
         \A q \in Prompts : Native(q) \/ active[q] # None => asked[q] \in Attempts,
         \A q \in Prompts \ {i} : /\ active'[q] = active[q] /\ rest[q] = ready[q]
                                  /\ \A k \in Attempts : books[<<q, k>>] = records[<<q, k>>],
         \A k \in Attempts : /\ books[<<i, k>>] # "RESERVED"
                             /\ k > asked[i] => books[<<i, k>>] = None /\ <<i, k>> \notin ran
                             /\ <<i, k>> \in ran => books[<<i, k>>] \in Charged
                             /\ books[<<i, k>>] \in Charged => <<i, k>> \in ran
  PROVE  Accounts'
<1>1. Account(i)'
  BY NextRequest
<1>2. /\ \A q \in Prompts \ {i} : ready'[q] = rest[q] /\ asked'[q] = asked[q]
      /\ \/ pc' = then
         \/ pc' = "finally"
         \/ pc' = "raised" /\ failure' = "outside"
      /\ records' = books \/ Reserves(i, books)
  BY Advances DEF Failed
<1>3. ASSUME NEW q \in Prompts \ {i}, NEW k \in Attempts PROVE records'[<<q, k>>] = books[<<q, k>>]
  BY <1>2, Pairs DEF Reserves
<1>4. ASSUME NEW q \in Prompts \ {i} PROVE Account(q)'
  <2>1. /\ Account(q) /\ q \in Prompts /\ asked'[q] = asked[q] /\ active'[q] = active[q]
        /\ ready'[q] \in Deadlines <=> ready[q] \in Deadlines
        /\ Native(q) \/ active[q] # None => asked[q] \in Attempts
    BY <1>2 DEF Accounts
  <2>2. \A k \in Attempts : records'[<<q, k>>] = records[<<q, k>>]
    BY <1>3
  <2> QED
    BY <2>1, <2>2, Untouched
<1>5. pc' # "join" /\ AllSettled'
  BY <1>2 DEF AllSettled, Ended
<1> QED
  BY <1>1, <1>4, <1>5 DEF Accounts

\* The account of every prompt holds, so that each job is settled as it was used.
THEOREM AccountInvariance == Spec => []Accounts
<1>1. Init => Accounts
  <2> SUFFICES ASSUME Init PROVE Accounts
    OBVIOUS
  <2>1. /\ \A q \in Prompts : ready[q] = None /\ active[q] = None /\ asked[q] = 0
        /\ \A j \in Jobs : records[j] = None
        /\ ran = {} /\ pc = "first"
    BY DEF Init
  <2>2. None \notin Deadlines /\ None \notin Charged /\ None # "RESERVED"
    BY Parameters DEF Charged, States
  <2> QED
    BY <2>1, <2>2, Pairs DEF Accounts, Account, AllSettled, Native, Attempts, Ended
<1>2. Typed /\ Places /\ Accounts /\ [Next]_vars => Accounts'
  <2> SUFFICES ASSUME Typed, Places, Accounts, [Next]_vars PROVE Accounts'
    OBVIOUS
  <2> USE DEF threads, place, jobs, others
  <2>0. /\ ready \in [Prompts -> Deadlines \cup {Generation, None}]
        /\ active \in [Prompts -> Deadlines \cup {None}]
        /\ asked \in [Prompts -> 0..MaxRequests] /\ next \in Int /\ Prompts \subseteq Int
        /\ None \notin Deadlines /\ Generation # None /\ Generation \notin Deadlines
        /\ records \in Books /\ ready \in Requests /\ MaxRequests \in Nat
        /\ None \notin Charged /\ None # "RESERVED" /\ "RESERVED" \notin Charged
    BY Parameters DEF Typed, Requests, Books, Prompts, Charged, States
  <2>20. \A q \in Prompts : Native(q) \/ active[q] # None => asked[q] \in Attempts
    <3>1. \A q \in Prompts : Native(q) \/ active[q] # None => asked[q] > 0
      BY <2>0 DEF Typed, Places, Native, Active
    <3>2. ASSUME NEW q \in Prompts, asked[q] > 0 PROVE asked[q] \in Attempts
      <4>1. asked[q] \in 0..MaxRequests
        BY <2>0
      <4> QED
        BY <2>0, <3>2, <4>1 DEF Attempts
    <3> QED
      BY <3>1, <3>2
  <2>21. \A q \in Prompts : Account(q)
    BY DEF Accounts
  <2>1. ASSUME Admit PROVE Accounts'
    <3>1. /\ next \in Prompts /\ pc \in {"first", "top"} /\ pc \in Points
          /\ Advance(next, ready, records, pc)
          /\ UNCHANGED <<active, ran>>
      <4>1. next <= policy.n /\ policy.n \in 1..N /\ N \in Nat
        BY <2>1, Parameters DEF Admit, Typed
      <4> QED
        BY <2>1, <2>0, <4>1 DEF Admit, Typed, Prompts
    <3>2. ready[next] = None /\ active[next] = None
      BY <2>0, <3>1 DEF Places
    <3> DEFINE i == next
    <3>3. \A k \in Attempts : /\ records[<<i, k>>] # "RESERVED"
                              /\ k > asked[i] => records[<<i, k>>] = None /\ <<i, k>> \notin ran
                              /\ <<i, k>> \in ran => records[<<i, k>>] \in Charged
                              /\ records[<<i, k>>] \in Charged => <<i, k>> \in ran
      <4>1. Account(next) /\ ~Native(next)
        BY <2>0, <2>21, <3>1, <3>2 DEF Native
      <4> QED
        BY <3>2, <4>1 DEF Account
    <3> HIDE DEF i
    <3>4. i = next
      BY DEF i
    <3> QED
      BY <2>0, <2>20, <3>1, <3>2, <3>3, <3>4, OneAdvanced DEF Ended
  <2>2. ASSUME Admitted PROVE Accounts'
    <3>1. /\ UNCHANGED <<asked, active, records, ran>>
          /\ \A q \in Prompts : ready'[q] \in Deadlines <=> ready[q] \in Deadlines
          /\ \/ pc \notin {"join", "finally"} \cup Ended /\ pc' \notin {"join"} \cup Ended
             \/ pc' = pc /\ failure' = failure
      BY <2>2, <2>0 DEF Admitted, Ended
    <3> QED
      BY <2>20, <3>1, NothingSettled
  <2>3. ASSUME Return PROVE Accounts'
    <3>1. /\ pc = "top" /\ pc' = "returned" /\ done = Called
          /\ UNCHANGED <<asked, active, records, ran, ready>>
      BY <2>3 DEF Return
    <3>2. \A q \in Prompts : ~Native(q) /\ active[q] = None
      <4>1. policy.n \in 1..N /\ next \in 1..policy.n + 1
        BY Parameters DEF Typed
      <4>2. \A q \in Prompts : q \in done \/ q >= next
        BY <3>1, <4>1, Parameters DEF Called, Prompts
      <4> QED
        BY <2>0, <4>2 DEF Places, Native
    <3>3. \A q \in Prompts : \A k \in Attempts : records[<<q, k>>] # "RESERVED"
      BY <2>21, <3>2 DEF Account
    <3>4. \A q \in Prompts : Account(q)'
      BY <2>21, <2>20, <3>1, Untouched DEF Ended
    <3> QED
      BY <3>1, <3>3, <3>4, Pairs DEF Accounts, AllSettled
  <2>4. ASSUME Observe PROVE Accounts'
    <3>0. PICK i \in Prompts : i = Head(completed).prompt /\ active[i] # None
      <4>1. /\ Head(completed).prompt = completed[1].prompt /\ 1 \in 1..Len(completed)
        BY <2>4, HeadTailProperties, EmptySeq DEF Observe, Typed, Answers
      <4> QED
        BY <4>1 DEF Places, Active
    <3> DEFINE state == Publish(active[i])
               paid == [records EXCEPT ![Job(i)] = state]
               void == Cancel(records, Job(i), "CANCELLED")
    <3>1. /\ pc = "observe" /\ completed # << >>
          /\ active' = [active EXCEPT ![i] = None] /\ UNCHANGED ran
          /\ \/ Advance(i, ready, paid, "observe")
             \/ /\ records' = paid \/ records' = void
                /\ pc' = "finally" /\ UNCHANGED <<ready, done, asked, passed>>
      BY <2>4, <3>0 DEF Observe, Raise
    <3>2. i \in Prompts /\ active[i] # None
      BY <3>0
    <3>3. state \in Charged /\ state \in States /\ "CANCELLED" \in Charged /\ "CANCELLED" \in States
      BY DEF Publish, Charged, States
    <3>4. ready[i] = None /\ ~Native(i) /\ asked[i] \in Attempts /\ Job(i) = <<i, asked[i]>>
          /\ Job(i) \in Jobs /\ Account(i)
      BY <2>0, <2>20, <2>21, <3>2, Pairs DEF Places, Native, Job
    <3> HIDE DEF state
    <3>5. records[Job(i)] = "RESERVED" /\ Job(i) \in ran
      BY <3>1, <3>2, <3>4 DEF Account, Ended
    <3>6. /\ paid \in Books /\ paid[Job(i)] = state
          /\ \A j \in Jobs \ {Job(i)} : paid[j] = records[j]
      BY <2>0, <3>3, <3>4 DEF Books
    <3>7. /\ void \in Books /\ void[Job(i)] = "CANCELLED"
          /\ \A j \in Jobs \ {Job(i)} : void[j] = records[j]
      BY <2>0, <3>3, <3>4, <3>5, Cancelling
    <3>8. active'[i] = None /\ \A q \in Prompts \ {i} : active'[q] = active[q]
      BY <2>0, <3>1, <3>2
    <3> HIDE DEF paid, void
    <3>9. ASSUME NEW books \in Books, books[Job(i)] \in Charged,
                 \A j \in Jobs \ {Job(i)} : books[j] = records[j]
          PROVE  /\ \A q \in Prompts \ {i} : \A k \in Attempts : books[<<q, k>>] = records[<<q, k>>]
                 /\ \A k \in Attempts :
                      /\ books[<<i, k>>] # "RESERVED"
                      /\ k > asked[i] => books[<<i, k>>] = None /\ <<i, k>> \notin ran
                      /\ <<i, k>> \in ran => books[<<i, k>>] \in Charged
                      /\ books[<<i, k>>] \in Charged => <<i, k>> \in ran
      <4>1. ASSUME NEW q \in Prompts \ {i}, NEW k \in Attempts
            PROVE  books[<<q, k>>] = records[<<q, k>>]
        <5>1. <<q, k>> \in Jobs /\ <<q, k>> # Job(i)
          BY <3>4, Pairs
        <5> QED
          BY <3>9, <5>1
      <4>2. ASSUME NEW k \in Attempts, k # asked[i]
            PROVE  /\ books[<<i, k>>] = records[<<i, k>>] /\ records[<<i, k>>] # "RESERVED"
                   /\ k > asked[i] => books[<<i, k>>] = None /\ <<i, k>> \notin ran
                   /\ <<i, k>> \in ran => books[<<i, k>>] \in Charged
                   /\ books[<<i, k>>] \in Charged => <<i, k>> \in ran
        BY <3>1, <3>2, <3>4, <3>9, <4>2, Pairs DEF Account
      <4>3. ~ asked[i] > asked[i]
        BY <2>0, <3>2
      <4> QED
        BY <2>0, <3>4, <3>5, <3>9, <4>1, <4>2, <4>3
    <3>10. CASE Advance(i, ready, paid, "observe")
      <4>1. "observe" \in Points /\ "observe" \notin {"join", "finally"} \cup Ended
        BY DEF Points, Ended
      <4>2. paid[Job(i)] \in Charged
        BY <3>3, <3>6
      <4>3. \A q \in Prompts \ {i} : \A k \in Attempts : paid[<<q, k>>] = records[<<q, k>>]
        BY <3>6, <3>9, <4>2
      <4>4. \A k \in Attempts : /\ paid[<<i, k>>] # "RESERVED"
                                /\ k > asked[i] => paid[<<i, k>>] = None /\ <<i, k>> \notin ran
                                /\ <<i, k>> \in ran => paid[<<i, k>>] \in Charged
                                /\ paid[<<i, k>>] \in Charged => <<i, k>> \in ran
        BY <3>6, <3>9, <4>2
      <4>5. pc = "observe" /\ ran' = ran /\ ready \in Requests /\ ready[i] = None
        BY <2>0, <3>1, <3>4
      <4> QED
        BY <2>20, <3>2, <3>6, <3>8, <3>10, <4>1, <4>3, <4>4, <4>5, OneAdvanced
    <3>11. ASSUME NEW books \in Books, books[Job(i)] \in Charged, records' = books,
                  \A j \in Jobs \ {Job(i)} : books[j] = records[j],
                  pc' = "finally", UNCHANGED <<ready, done, asked, passed>>
           PROVE  Accounts'
      <4>1. Account(i)'
        <5>1. ~Native(i)' /\ active'[i] = None /\ asked'[i] = asked[i]
          BY <2>0, <3>1, <3>2, <3>4, <3>8, <3>11 DEF Native
        <5>2. \A k \in Attempts : records'[<<i, k>>] = books[<<i, k>>]
          BY <3>11
        <5> QED
          BY <3>1, <3>9, <3>11, <5>1, <5>2 DEF Account
      <4>2. \A q \in Prompts \ {i} : Account(q)'
        <5>1. ASSUME NEW q \in Prompts \ {i} PROVE Account(q)'
          <6>1. /\ Account(q) /\ q \in Prompts /\ active'[q] = active[q]
                /\ \A k \in Attempts : records'[<<q, k>>] = records[<<q, k>>]
            BY <2>21, <3>8, <3>9, <3>11
          <6> QED
            BY <2>20, <3>1, <3>11, <6>1, Untouched DEF Ended
        <5> QED
          BY <5>1
      <4>3. \A q \in Prompts : Account(q)'
        BY <4>1, <4>2
      <4>4. pc' # "join" /\ AllSettled'
        BY <3>11 DEF AllSettled, Ended
      <4> QED
        BY <4>3, <4>4 DEF Accounts
    <3> QED
      BY <3>1, <3>3, <3>6, <3>7, <3>10, <3>11
  <2>5. ASSUME Observed PROVE Accounts'
    <3>1. /\ UNCHANGED <<asked, active, records, ran>>
          /\ \A q \in Prompts : ready'[q] \in Deadlines <=> ready[q] \in Deadlines
          /\ \/ pc \notin {"join", "finally"} \cup Ended /\ pc' \notin {"join"} \cup Ended
             \/ pc' = pc /\ failure' = failure
      BY <2>5, <2>0 DEF Observed, Ended
    <3> QED
      BY <2>20, <3>1, NothingSettled
  <2>6. ASSUME Expire PROVE Accounts'
    <3>1. /\ UNCHANGED <<asked, active, records, ran>>
          /\ \A q \in Prompts : ready'[q] \in Deadlines <=> ready[q] \in Deadlines
          /\ \/ pc \notin {"join", "finally"} \cup Ended /\ pc' \notin {"join"} \cup Ended
             \/ pc' = pc /\ failure' = failure
      BY <2>6, <2>0 DEF Expire, Raise, Ended
    <3> QED
      BY <2>20, <3>1, NothingSettled
  <2>7. ASSUME DropQueued PROVE Accounts'
    <3>0. PICK i \in Prompts : i = todo[First]
      BY <2>7, Heads DEF DropQueued
    <3> DEFINE books == Cancel(records, Job(i), "UNSTARTED")
    <3>1. /\ pc = "dispatch" /\ i \in Prompts /\ Native(i) /\ UNCHANGED <<active, ran>>
          /\ \/ Advance(i, Take(i), books, "dispatch")
             \/ /\ records' = books /\ ready' = Take(i) /\ pc' = "finally"
                /\ UNCHANGED <<done, asked, passed>>
      BY <2>7, <3>0, Heads DEF DropQueued, Raise
    <3>2. ready[i] \in Deadlines /\ active[i] = None /\ Job(i) = <<i, asked[i]>> /\ Job(i) \in Jobs
          /\ asked[i] \in Attempts
      BY <2>0, <2>20, <3>1, Pairs DEF Native, Places, Job
    <3>3. /\ Take(i) \in Requests /\ Take(i)[i] = None
          /\ \A q \in Prompts \ {i} : Take(i)[q] = ready[q]
      BY <2>0, <3>1 DEF Take, Requests
    <3>4. /\ books \in Books /\ books[Job(i)] = "UNSTARTED"
          /\ \A j \in Jobs \ {Job(i)} : books[j] = records[j]
      <4>1. records[Job(i)] = "RESERVED"
        BY <2>21, <3>1 DEF Account, Ended
      <4> QED
        BY <2>0, <3>2, <4>1, Cancelling DEF States
    <3> HIDE DEF books
    <3>5. ASSUME NEW q \in Prompts \ {i}, NEW k \in Attempts
          PROVE  books[<<q, k>>] = records[<<q, k>>]
      <4>1. <<q, k>> \in Jobs /\ <<q, k>> # Job(i)
        BY <3>2, Pairs
      <4> QED
        BY <3>4, <4>1
    <3>6. \A k \in Attempts : /\ books[<<i, k>>] # "RESERVED"
                              /\ k > asked[i] => books[<<i, k>>] = None /\ <<i, k>> \notin ran
                              /\ <<i, k>> \in ran => books[<<i, k>>] \in Charged
                              /\ books[<<i, k>>] \in Charged => <<i, k>> \in ran
      <4>1. Account(i)
        BY <2>21, <3>1
      <4>2. ASSUME NEW k \in Attempts, k # asked[i]
            PROVE  /\ books[<<i, k>>] = records[<<i, k>>] /\ records[<<i, k>>] # "RESERVED"
                   /\ k > asked[i] => books[<<i, k>>] = None /\ <<i, k>> \notin ran
                   /\ <<i, k>> \in ran => books[<<i, k>>] \in Charged
                   /\ books[<<i, k>>] \in Charged => <<i, k>> \in ran
        BY <3>1, <3>2, <3>4, <4>1, <4>2, Pairs DEF Account
      <4>3. <<i, asked[i]>> \notin ran /\ ~ asked[i] > asked[i]
        <5>1. Job(i) \notin ran
          BY <3>1, <4>1 DEF Account
        <5> QED
          BY <2>0, <3>1, <3>2, <5>1
      <4>4. "UNSTARTED" \notin Charged /\ "UNSTARTED" # "RESERVED"
        BY DEF Charged
      <4> QED
        BY <3>2, <3>4, <4>2, <4>3, <4>4
    <3>7. CASE Advance(i, Take(i), books, "dispatch")
      <4>1. "dispatch" \in Points /\ "dispatch" \notin {"join", "finally"} \cup Ended
        BY DEF Points, Ended
      <4>2. active'[i] = None /\ \A q \in Prompts \ {i} : active'[q] = active[q]
        BY <3>1, <3>2
      <4> HIDE DEF Take
      <4> QED
        BY <2>20, <3>1, <3>3, <3>4, <3>5, <3>6, <3>7, <4>1, <4>2, OneAdvanced
    <3>8. CASE records' = books /\ ready' = Take(i) /\ pc' = "finally" /\ UNCHANGED <<done, asked, passed>>
      <4>1. Account(i)'
        <5>1. ~Native(i)' /\ active'[i] = None /\ asked'[i] = asked[i]
          BY <2>0, <3>1, <3>2, <3>3, <3>8 DEF Native
        <5>2. \A k \in Attempts : records'[<<i, k>>] = books[<<i, k>>]
          BY <3>8
        <5> QED
          BY <3>1, <3>6, <3>8, <5>1, <5>2 DEF Account
      <4>2. \A q \in Prompts \ {i} : Account(q)'
        <5>1. ASSUME NEW q \in Prompts \ {i} PROVE Account(q)'
          <6>1. /\ Account(q) /\ q \in Prompts /\ ready'[q] = ready[q]
                /\ \A k \in Attempts : records'[<<q, k>>] = records[<<q, k>>]
            BY <2>21, <3>3, <3>5, <3>8
          <6> QED
            BY <2>20, <3>1, <3>8, <6>1, Untouched DEF Ended
        <5> QED
          BY <5>1
      <4>3. \A q \in Prompts : Account(q)'
        BY <4>1, <4>2
      <4>4. pc' # "join" /\ AllSettled'
        BY <3>8 DEF AllSettled, Ended
      <4> QED
        BY <4>3, <4>4 DEF Accounts
    <3> QED
      BY <3>1, <3>7, <3>8
  <2>8. ASSUME Dispatch PROVE Accounts'
    <3>0. PICK i \in Prompts : i = todo[First]
      BY <2>8, Heads DEF Dispatch
    <3>1. /\ pc = "dispatch" /\ pc' = pc /\ failure' = failure /\ i \in Prompts /\ Native(i)
          /\ active' = [active EXCEPT ![i] = ready[i]] /\ ready' = Take(i)
          /\ ran' = ran \cup {Job(i)} /\ UNCHANGED <<asked, records>>
      BY <2>8, <3>0, Heads DEF Dispatch
    <3>2. Job(i) = <<i, asked[i]>> /\ asked[i] \in Attempts /\ Account(i)
      BY <2>20, <2>21, <3>1 DEF Job
    <3>3. /\ ready'[i] = None /\ active'[i] # None
          /\ \A q \in Prompts \ {i} : ready'[q] = ready[q] /\ active'[q] = active[q]
      BY <2>0, <3>1 DEF Take, Native
    <3>4. records[Job(i)] = "RESERVED"
      BY <3>1, <3>2 DEF Account, Ended
    <3>5. Account(i)'
      <4>1. ~Native(i)' /\ Job(i)' = Job(i)
        BY <2>0, <3>1, <3>3 DEF Native, Job
      <4>2. \A k \in Attempts : <<i, k>> \in ran' <=> <<i, k>> \in ran \/ k = asked[i]
        BY <3>1, <3>2
      <4>3. ~ asked[i] > asked[i]
        BY <2>0, <3>1
      <4> QED
        BY <2>0, <3>1, <3>2, <3>3, <3>4, <4>1, <4>2, <4>3 DEF Account
    <3>6. \A q \in Prompts \ {i} : Account(q)'
      <4>1. ASSUME NEW q \in Prompts \ {i} PROVE Account(q)'
        <5>1. /\ Account(q) /\ q \in Prompts /\ ready'[q] = ready[q] /\ active'[q] = active[q]
              /\ \A k \in Attempts : <<q, k>> \in ran' <=> <<q, k>> \in ran
          BY <2>21, <3>1, <3>2, <3>3
        <5> QED
          BY <2>20, <3>1, <5>1, Untouched
      <4> QED
        BY <4>1
    <3>7. \A q \in Prompts : Account(q)'
      BY <3>5, <3>6
    <3>8. pc' # "join" /\ AllSettled'
      BY <3>1 DEF AllSettled, Ended
    <3> QED
      BY <3>7, <3>8 DEF Accounts
  <2>9. ASSUME Dispatched PROVE Accounts'
    <3>1. /\ UNCHANGED <<asked, active, records, ran>>
          /\ \A q \in Prompts : ready'[q] \in Deadlines <=> ready[q] \in Deadlines
          /\ \/ pc \notin {"join", "finally"} \cup Ended /\ pc' \notin {"join"} \cup Ended
             \/ pc' = pc /\ failure' = failure
      BY <2>9, <2>0 DEF Dispatched, Ended
    <3> QED
      BY <2>20, <3>1, NothingSettled
  <2>10. ASSUME Decode PROVE Accounts'
    <3>1. /\ UNCHANGED <<asked, active, records, ran>> /\ pc = "decode" /\ pc' \in {"values", "finally"}
      BY <2>10 DEF Decode, Raise
    <3>2. \E size \in 1..Cardinality(Decoding) : \E group \in [1..size -> Decoding] :
            ready' = [q \in Prompts |-> IF \E k \in 1..size : group[k] = q THEN None ELSE ready[q]]
      BY <2>10 DEF Decode
    <3>3. \A q \in Prompts : ready'[q] = ready[q] \/ (ready'[q] = None /\ ready[q] = Generation)
      BY <2>0, <3>2 DEF Decoding
    <3>4. \A q \in Prompts : ready'[q] \in Deadlines <=> ready[q] \in Deadlines
      BY <2>0, <3>3
    <3> QED
      BY <2>20, <3>1, <3>4, NothingSettled DEF Ended
  <2>11. ASSUME Value PROVE Accounts'
    <3> DEFINE i == Head(todo)
               then == IF Len(todo) = 1 THEN "top" ELSE "values"
    <3>1. /\ pc = "values" /\ todo # << >> /\ Advance(i, ready, records, then) /\ then \in Points
          /\ then \notin {"join", "finally"} \cup Ended /\ UNCHANGED <<active, ran>>
      BY <2>11 DEF Value, Typed, Points, Ended
    <3>2. i = todo[1] /\ i \in Prompts /\ 1 \in 1..Len(todo)
      <4>1. todo \in Seq(Prompts)
        BY DEF Typed
      <4> QED
        BY <3>1, <4>1, HeadTailProperties, EmptySeq
    <3> HIDE DEF i, then
    <3>3. ready[i] = None /\ active[i] = None
      BY <3>1, <3>2 DEF Places
    <3>4. \A k \in Attempts : /\ records[<<i, k>>] # "RESERVED"
                              /\ k > asked[i] => records[<<i, k>>] = None /\ <<i, k>> \notin ran
                              /\ <<i, k>> \in ran => records[<<i, k>>] \in Charged
                              /\ records[<<i, k>>] \in Charged => <<i, k>> \in ran
      <4>1. Account(i) /\ ~Native(i)
        BY <2>0, <2>21, <3>1, <3>2, <3>3 DEF Native
      <4> QED
        BY <3>3, <4>1 DEF Account
    <3> QED
      BY <2>0, <2>20, <3>1, <3>2, <3>3, <3>4, OneAdvanced DEF Ended
  <2>12. ASSUME Idle PROVE Accounts'
    <3>1. /\ UNCHANGED <<asked, active, records, ran>>
          /\ \A q \in Prompts : ready'[q] \in Deadlines <=> ready[q] \in Deadlines
          /\ \/ pc \notin {"join", "finally"} \cup Ended /\ pc' \notin {"join"} \cup Ended
             \/ pc' = pc /\ failure' = failure
      BY <2>12, <2>0 DEF Idle, Raise, Ended
    <3> QED
      BY <2>20, <3>1, NothingSettled
  <2>13. ASSUME Finally PROVE Accounts'
    <3> DEFINE lost == {i \in Queued : records[Job(i)] = None}
               Unstarted(S) == [j \in Jobs |-> IF \E i \in S : Job(i) = j
                                               THEN Cancel(records, j, "UNSTARTED")[j] ELSE records[j]]
    <3>1. pc = "finally" /\ UNCHANGED <<ready, active, asked, ran, failure>>
      BY <2>13 DEF Finally
    <3>2. /\ "UNSTARTED" \in States /\ "UNSTARTED" \notin Charged /\ "UNSTARTED" # "RESERVED"
          /\ "CANCELLED" \in States /\ "CANCELLED" \in Charged /\ "CANCELLED" # "RESERVED"
      BY DEF States, Charged
    <3>3. ASSUME NEW S \in SUBSET Queued, NEW q \in Prompts, NEW k \in Attempts
          PROVE  Unstarted(S)[<<q, k>>] =
                   IF q \in S /\ k = asked[q] /\ records[<<q, k>>] = "RESERVED"
                   THEN "UNSTARTED" ELSE records[<<q, k>>]
      <4>1. <<q, k>> \in Jobs
        BY Pairs
      <4>2. (\E i \in S : Job(i) = <<q, k>>) <=> q \in S /\ k = asked[q]
        BY DEF Job
      <4>3. Cancel(records, <<q, k>>, "UNSTARTED")[<<q, k>>] =
              IF records[<<q, k>>] = "RESERVED" THEN "UNSTARTED" ELSE records[<<q, k>>]
        BY <2>0, <3>2, <4>1, Cancelling
      <4> QED
        BY <4>1, <4>2, <4>3
    <3>4. \A S \in SUBSET Queued : Unstarted(S) \in Books
      <4>1. ASSUME NEW S \in SUBSET Queued, NEW j \in Jobs PROVE Unstarted(S)[j] \in States \cup {None}
        <5>1. PICK q \in Prompts, k \in Attempts : j = <<q, k>>
          BY Pairs
        <5>2. records[j] \in States \cup {None}
          BY <2>0 DEF Books
        <5> HIDE DEF Unstarted
        <5> QED
          BY <3>2, <3>3, <5>1, <5>2
      <4> QED
        BY <4>1 DEF Books
    <3> HIDE DEF Unstarted
    <3>5. \A q \in Prompts : q \in Queued <=> Native(q)
      BY DEF Queued
    <3>6. CASE lost = {}
      <4> DEFINE books == Unstarted(Queued)
      <4>1. /\ pc' = "join"
            /\ records' = [j \in Jobs |-> IF \E i \in Active : Job(i) = j
                                          THEN Cancel(books, j, "CANCELLED")[j] ELSE books[j]]
        BY <2>13, <3>6 DEF Finally, Stopped, Unstarted
      <4>2. books \in Books
        BY <3>4
      <4>3. ASSUME NEW q \in Prompts, NEW k \in Attempts
            PROVE  books[<<q, k>>] = IF Native(q) /\ k = asked[q] /\ records[<<q, k>>] = "RESERVED"
                                     THEN "UNSTARTED" ELSE records[<<q, k>>]
        <5>1. Queued \in SUBSET Queued
          OBVIOUS
        <5> QED
          BY <3>3, <3>5, <5>1
      <4> HIDE DEF books
      <4>4. ASSUME NEW q \in Prompts, NEW k \in Attempts
            PROVE  records'[<<q, k>>] = IF active[q] # None /\ k = asked[q] /\ books[<<q, k>>] = "RESERVED"
                                        THEN "CANCELLED" ELSE books[<<q, k>>]
        <5>1. <<q, k>> \in Jobs
          BY Pairs
        <5>2. (\E i \in Active : Job(i) = <<q, k>>) <=> active[q] # None /\ k = asked[q]
          BY DEF Job, Active
        <5>3. Cancel(books, <<q, k>>, "CANCELLED")[<<q, k>>] =
                IF books[<<q, k>>] = "RESERVED" THEN "CANCELLED" ELSE books[<<q, k>>]
          BY <3>2, <4>2, <5>1, Cancelling
        <5> QED
          BY <4>1, <5>1, <5>2, <5>3
      <4>5. ASSUME NEW q \in Prompts PROVE Account(q)' /\ \A k \in Attempts : records'[<<q, k>>] # "RESERVED"
        <5>1. /\ Account(q) /\ (Native(q)' <=> Native(q)) /\ Job(q)' = Job(q)
              /\ Job(q) = <<q, asked[q]>>
              /\ Native(q) => active[q] = None /\ asked[q] \in Attempts
              /\ active[q] # None => asked[q] \in Attempts
          BY <2>0, <2>21, <2>20, <3>1 DEF Native, Job, Places
        <5>2. ASSUME NEW k \in Attempts
              PROVE  /\ records'[<<q, k>>] # "RESERVED"
                     /\ k > asked[q] => records'[<<q, k>>] = None /\ <<q, k>> \notin ran
                     /\ <<q, k>> \in ran => records'[<<q, k>>] \in Charged
                     /\ records'[<<q, k>>] \in Charged => <<q, k>> \in ran
          <6>1. asked[q] \in Int /\ k \in Int
            BY <2>0 DEF Attempts
          <6>2. CASE records[<<q, k>>] = "RESERVED"
            BY <3>2, <4>3, <4>4, <5>1, <6>1, <6>2 DEF Account
          <6>3. CASE records[<<q, k>>] # "RESERVED"
            <7>1. records'[<<q, k>>] = records[<<q, k>>]
              BY <4>3, <4>4, <6>3
            <7> QED
              BY <3>1, <5>1, <6>1, <6>3, <7>1 DEF Account
          <6> QED
            BY <6>2, <6>3
        <5> QED
          BY <3>1, <4>1, <5>1, <5>2 DEF Account
      <4>6. \A j \in Jobs : records'[j] # "RESERVED"
        BY <4>5, Pairs
      <4> QED
        BY <4>1, <4>5, <4>6 DEF Accounts, AllSettled, Ended
    <3>7. CASE lost # {}
      <4>1. PICK before \in SUBSET (Queued \ lost) : records' = Unstarted(before) /\ pc' = "raised"
        BY <2>13, <3>7 DEF Finally, Unstarted
      <4>2. before \in SUBSET Queued
        BY <4>1
      <4>3. \A q \in Prompts : \A k \in Attempts :
              records'[<<q, k>>] = IF q \in before /\ k = asked[q] /\ records[<<q, k>>] = "RESERVED"
                                   THEN "UNSTARTED" ELSE records[<<q, k>>]
        BY <3>3, <4>1, <4>2
      <4>4. failure = "reserve"
        <5>1. PICK i \in Queued : records[Job(i)] = None
          BY <3>7
        <5>2. i \in Prompts /\ Native(i) /\ Account(i)
          BY <2>21 DEF Queued
        <5> QED
          BY <2>0, <3>1, <5>1, <5>2 DEF Account, Ended
      <4>5. ASSUME NEW q \in Prompts PROVE Account(q)'
        <5>1. /\ Account(q) /\ (Native(q)' <=> Native(q)) /\ Job(q)' = Job(q)
              /\ Job(q) = <<q, asked[q]>> /\ (q \in before => Native(q))
          BY <2>0, <2>21, <3>1, <3>5, <4>2 DEF Native, Job
        <5>2. ASSUME NEW k \in Attempts
              PROVE  /\ records'[<<q, k>>] = "RESERVED" => records[<<q, k>>] = "RESERVED"
                     /\ k > asked[q] => records'[<<q, k>>] = None /\ <<q, k>> \notin ran
                     /\ <<q, k>> \in ran => records'[<<q, k>>] \in Charged \cup {"RESERVED"}
                     /\ records'[<<q, k>>] \in Charged => <<q, k>> \in ran
          <6>1. asked[q] \in Int /\ k \in Int
            BY <2>0 DEF Attempts
          <6>2. CASE q \in before /\ k = asked[q] /\ records[<<q, k>>] = "RESERVED"
            BY <3>2, <4>3, <5>1, <6>1, <6>2 DEF Account
          <6>3. CASE records'[<<q, k>>] = records[<<q, k>>]
            BY <3>1, <5>1, <6>1, <6>3 DEF Account
          <6> QED
            BY <4>3, <6>2, <6>3
        <5> QED
          BY <3>1, <4>1, <5>1, <5>2 DEF Account, Ended
      <4> QED
        BY <3>1, <4>1, <4>4, <4>5 DEF Accounts, AllSettled
    <3> QED
      BY <3>6, <3>7
  <2>14. ASSUME Join PROVE Accounts'
    <3>1. /\ pc = "join" /\ pc' = "raised" /\ UNCHANGED <<asked, active, records, ran, ready>>
      BY <2>14 DEF Join
    <3>2. \A q \in Prompts : Account(q)'
      BY <2>21, <2>20, <3>1, Untouched DEF Ended
    <3>3. \A j \in Jobs : records'[j] # "RESERVED"
      BY <3>1 DEF Accounts
    <3> QED
      BY <3>1, <3>2, <3>3 DEF Accounts, AllSettled
  <2>15. ASSUME CallerCancels PROVE Accounts'
    <3>1. /\ pc = "raised" /\ failure = "timeout" /\ pc' = "settled"
          /\ UNCHANGED <<ready, active, asked, ran, failure>>
          /\ records' = [j \in Jobs |-> IF records[j] = None THEN None
                                        ELSE Cancel(records, j, "CANCELLED")[j]]
      BY <2>15 DEF CallerCancels
    <3>2. \A j \in Jobs : records[j] # "RESERVED"
      BY <3>1 DEF Accounts, AllSettled, Ended
    <3>3. \A j \in Jobs : records'[j] = records[j]
      BY <2>0, <3>1, <3>2 DEF Cancel
    <3>4. ASSUME NEW q \in Prompts PROVE Account(q)'
      <4>1. /\ Account(q) /\ asked'[q] = asked[q] /\ active'[q] = active[q]
            /\ ready'[q] \in Deadlines <=> ready[q] \in Deadlines
            /\ \A k \in Attempts : records'[<<q, k>>] = records[<<q, k>>]
        BY <2>21, <3>1, <3>3, Pairs
      <4> QED
        BY <2>20, <3>1, <4>1, Untouched DEF Ended
    <3> QED
      BY <3>1, <3>2, <3>3, <3>4 DEF Accounts, AllSettled
  <2>16. ASSUME NEW i \in Prompts, Finish(i) PROVE Accounts'
    <3>1. /\ UNCHANGED <<asked, active, records, ran>>
          /\ \A q \in Prompts : ready'[q] \in Deadlines <=> ready[q] \in Deadlines
          /\ \/ pc \notin {"join", "finally"} \cup Ended /\ pc' \notin {"join"} \cup Ended
             \/ pc' = pc /\ failure' = failure
      BY <2>16, <2>0 DEF Finish, Ended
    <3> QED
      BY <2>20, <3>1, NothingSettled
  <2>17. ASSUME Tick PROVE Accounts'
    <3>1. /\ UNCHANGED <<asked, active, records, ran>>
          /\ \A q \in Prompts : ready'[q] \in Deadlines <=> ready[q] \in Deadlines
          /\ \/ pc \notin {"join", "finally"} \cup Ended /\ pc' \notin {"join"} \cup Ended
             \/ pc' = pc /\ failure' = failure
      BY <2>17, <2>0 DEF Tick, Ended
    <3> QED
      BY <2>20, <3>1, NothingSettled
  <2>18. ASSUME UNCHANGED vars PROVE Accounts'
    <3>1. /\ UNCHANGED <<asked, active, records, ran>>
          /\ \A q \in Prompts : ready'[q] \in Deadlines <=> ready[q] \in Deadlines
          /\ \/ pc \notin {"join", "finally"} \cup Ended /\ pc' \notin {"join"} \cup Ended
             \/ pc' = pc /\ failure' = failure
      BY <2>18, <2>0 DEF vars, Ended
    <3> QED
      BY <2>20, <3>1, NothingSettled
  <2> QED
    BY <2>1, <2>2, <2>3, <2>4, <2>5, <2>6, <2>7, <2>8, <2>9, <2>10, <2>11, <2>12, <2>13,
       <2>14, <2>15, <2>16, <2>17, <2>18 DEF Next, Owner
<1> QED
  BY <1>1, <1>2, TypeInvariance, PlaceInvariance, PTL DEF Spec

\* A job is charged exactly if it was started, whatever prompts, threads and clock do, and
\* every job is settled when the call is over, unless a prompt failed in the first admission
\* or a reservation failed.
THEOREM SettlementHolds == Spec => []Settlement
<1>1. Typed /\ Places => TypeOK
  <2> SUFFICES ASSUME Typed, Places PROVE TypeOK
    OBVIOUS
  <2>1. policy.n \in 1..N /\ N \in Nat /\ Prompts \subseteq Int
    BY Parameters DEF Typed, Prompts
  <2>2. next \in 1..N + 1 /\ done \subseteq Called
    <3>1. next \in 1..policy.n + 1
      BY DEF Typed
    <3>2. ASSUME NEW q \in done PROVE q \in Called
      <4>1. q \in Prompts /\ q < next
        BY <3>2 DEF Typed, Places
      <4> QED
        BY <2>1, <3>1, <4>1 DEF Prompts, Called
    <3> QED
      BY <2>1, <3>1, <3>2
  <2>3. /\ \A k \in DOMAIN completed : completed[k] \in [prompt : Active, error : BOOLEAN]
        /\ \A k \in DOMAIN todo : todo[k] \in Prompts
    <3>1. \A k \in 1..Len(completed) : completed[k] \in Answers /\ completed[k].prompt \in Active
      BY DEF Typed, Places
    <3>2. DOMAIN completed = 1..Len(completed) /\ DOMAIN todo = 1..Len(todo)
      BY DEF Typed
    <3> QED
      BY <3>1, <3>2 DEF Typed, Answers
  <2> QED
    BY <2>2, <2>3 DEF Typed, Places, TypeOK, Points, Requests, Books, Failures
<1>2. Accounts => ChargedIfStarted /\ AllSettled
  <2> SUFFICES ASSUME Accounts PROVE ChargedIfStarted /\ AllSettled
    OBVIOUS
  <2>1. ASSUME NEW j \in Jobs
        PROVE  /\ j \in ran => records[j] \in Charged \cup {"RESERVED"}
               /\ records[j] \in Charged => j \in ran
    <3>1. PICK q \in Prompts, k \in Attempts : j = <<q, k>>
      BY Pairs
    <3> QED
      BY <3>1 DEF Accounts, Account
  <2> QED
    BY <2>1 DEF Accounts, ChargedIfStarted
<1> QED
  BY <1>1, <1>2, TypeInvariance, PlaceInvariance, AccountInvariance, PTL DEF Settlement

\* What an advance may make of the ledger: it reserves a job that was not in it.
LEMMA OnlyReserves ==
  ASSUME Typed, Accounts, NEW i \in Prompts, NEW rest \in Requests, NEW books \in Books,
         NEW then \in Points, Advance(i, rest, books, then), NEW j \in Jobs,
         records[j] # None
  PROVE  records'[j] = books[j]
<1>1. \/ records' = books
      \/ Reserves(i, books) /\ asked[i] < MaxRequests
  BY Advances
<1>2. CASE records' = books
  BY <1>2
<1>3. CASE Reserves(i, books) /\ asked[i] < MaxRequests
  <2>1. asked[i] \in Nat /\ MaxRequests \in Nat
    BY Parameters DEF Typed
  <2>2. records[<<i, asked[i] + 1>>] = None
    BY <1>3, <2>1 DEF Accounts, Account, Attempts
  <2> QED
    BY <1>3, <2>2 DEF Reserves
<1> QED
  BY <1>1, <1>2, <1>3

\* No step settles a job that is settled.
THEOREM SettledForGoodHolds == Spec => SettledForGood
<1>1. Typed /\ Places /\ Accounts /\ [Next]_vars =>
        [\A j \in Jobs : records[j] \notin {None, "RESERVED"} => records'[j] = records[j]]_vars
  <2> SUFFICES ASSUME Typed, Places, Accounts, [Next]_vars, NEW j \in Jobs,
                      records[j] \notin {None, "RESERVED"}
               PROVE  records'[j] = records[j]
    OBVIOUS
  <2> USE DEF threads, place, jobs, others
  <2>0. records \in Books /\ ready \in Requests /\ {"UNSTARTED", "CANCELLED"} \subseteq States
    BY DEF Typed, States
  <2>1. ASSUME Admit PROVE records'[j] = records[j]
    <3>1. next \in Prompts /\ pc \in Points /\ Advance(next, ready, records, pc)
      <4>1. next <= policy.n /\ policy.n \in 1..N /\ N \in Nat /\ next \in 1..policy.n + 1
        BY <2>1, Parameters DEF Admit, Typed
      <4> QED
        BY <2>1, <4>1 DEF Admit, Typed, Prompts
    <3> QED
      BY <2>0, <3>1, OnlyReserves
  <2>2. ASSUME Admitted PROVE records'[j] = records[j]
    BY <2>2 DEF Admitted
  <2>3. ASSUME Return PROVE records'[j] = records[j]
    BY <2>3 DEF Return
  <2>4. ASSUME Observe PROVE records'[j] = records[j]
    <3>0. PICK i \in Prompts : i = Head(completed).prompt /\ active[i] # None
      <4>1. /\ Head(completed).prompt = completed[1].prompt /\ 1 \in 1..Len(completed)
        BY <2>4, HeadTailProperties, EmptySeq DEF Observe, Typed, Answers
      <4> QED
        BY <4>1 DEF Places, Active
    <3> DEFINE state == Publish(active[i])
               paid == [records EXCEPT ![Job(i)] = state]
               void == Cancel(records, Job(i), "CANCELLED")
    <3>1. /\ pc = "observe"
          /\ \/ Advance(i, ready, paid, "observe")
             \/ records' = paid
             \/ records' = void
      BY <2>4, <3>0 DEF Observe
    <3>2. Job(i) \in Jobs /\ records[Job(i)] = "RESERVED"
      <4>1. Account(i) /\ pc \notin {"join"} \cup Ended
        BY <3>1 DEF Accounts, Ended
      <4>2. asked[i] > 0 /\ asked[i] \in 0..MaxRequests /\ MaxRequests \in Nat
        BY <3>0, Parameters DEF Places, Active, Typed
      <4> QED
        BY <3>0, <4>1, <4>2, Pairs DEF Account, Job, Attempts
    <3>3. state \in States /\ j # Job(i)
      BY <3>2 DEF Publish, States
    <3>4. paid \in Books /\ paid[j] = records[j] /\ void[j] = records[j]
      BY <2>0, <3>2, <3>3, Cancelling DEF Books
    <3> HIDE DEF paid, void
    <3>5. "observe" \in Points
      BY DEF Points
    <3> QED
      BY <2>0, <3>1, <3>4, <3>5, OnlyReserves
  <2>5. ASSUME Observed PROVE records'[j] = records[j]
    BY <2>5 DEF Observed
  <2>6. ASSUME Expire PROVE records'[j] = records[j]
    BY <2>6 DEF Expire
  <2>7. ASSUME DropQueued PROVE records'[j] = records[j]
    <3>0. PICK i \in Prompts : i = todo[First] /\ Native(i)
      BY <2>7, Heads DEF DropQueued
    <3> DEFINE books == Cancel(records, Job(i), "UNSTARTED")
    <3>1. Advance(i, Take(i), books, "dispatch") \/ records' = books
      BY <2>7, <3>0 DEF DropQueued
    <3>2. Take(i) \in Requests /\ "dispatch" \in Points
      BY <2>0, <3>0 DEF Take, Requests, Points
    <3>3. Job(i) \in Jobs
      <4>1. ready[i] # None
        BY <3>0, Parameters DEF Native
      <4>2. asked[i] > 0 /\ asked[i] \in 0..MaxRequests /\ MaxRequests \in Nat
        BY <4>1, Parameters DEF Typed
      <4> QED
        BY <4>2, Pairs DEF Job, Attempts
    <3>4. books \in Books /\ books[j] = records[j]
      BY <2>0, <3>3, Cancelling
    <3> HIDE DEF books
    <3> QED
      BY <3>1, <3>2, <3>4, OnlyReserves
  <2>8. ASSUME Dispatch PROVE records'[j] = records[j]
    BY <2>8 DEF Dispatch
  <2>9. ASSUME Dispatched PROVE records'[j] = records[j]
    BY <2>9 DEF Dispatched
  <2>10. ASSUME Decode PROVE records'[j] = records[j]
    BY <2>10 DEF Decode
  <2>11. ASSUME Value PROVE records'[j] = records[j]
    <3> DEFINE then == IF Len(todo) = 1 THEN "top" ELSE "values"
    <3>1. then \in Points /\ Advance(Head(todo), ready, records, then) /\ Head(todo) \in Prompts
      BY <2>11, Heads DEF Value, Typed, Points
    <3> QED
      BY <2>0, <3>1, OnlyReserves
  <2>12. ASSUME Idle PROVE records'[j] = records[j]
    BY <2>12 DEF Idle
  <2>13. ASSUME Finally PROVE records'[j] = records[j]
    <3> DEFINE lost == {i \in Queued : records[Job(i)] = None}
               Unstarted(S) == [k \in Jobs |-> IF \E i \in S : Job(i) = k
                                               THEN Cancel(records, k, "UNSTARTED")[k] ELSE records[k]]
    <3>1. ASSUME NEW S \in SUBSET Queued PROVE Unstarted(S)[j] = records[j] /\ Unstarted(S) \in Books
      <4>1. \A k \in Jobs : Cancel(records, k, "UNSTARTED")[k] \in States \cup {None}
        BY <2>0, Cancelling DEF Books
      <4>2. \A k \in Jobs : records[k] \in States \cup {None}
        BY <2>0 DEF Books
      <4>3. Cancel(records, j, "UNSTARTED")[j] = records[j]
        BY <2>0, Cancelling
      <4> QED
        BY <4>1, <4>2, <4>3 DEF Books
    <3> HIDE DEF Unstarted
    <3>2. CASE lost = {}
      <4> DEFINE books == Unstarted(Queued)
      <4>1. records'[j] = IF \E i \in Active : Job(i) = j THEN Cancel(books, j, "CANCELLED")[j]
                                                            ELSE books[j]
        BY <2>13, <3>2 DEF Finally, Stopped, Unstarted
      <4>2. books[j] = records[j] /\ books \in Books
        BY <3>1
      <4> HIDE DEF books
      <4> QED
        BY <2>0, <4>1, <4>2, Cancelling
    <3>3. CASE lost # {}
      <4>1. PICK before \in SUBSET (Queued \ lost) : records' = Unstarted(before)
        BY <2>13, <3>3 DEF Finally, Unstarted
      <4>2. before \in SUBSET Queued
        BY <4>1
      <4> QED
        BY <3>1, <4>1, <4>2
    <3> QED
      BY <3>2, <3>3
  <2>14. ASSUME Join PROVE records'[j] = records[j]
    BY <2>14 DEF Join
  <2>15. ASSUME CallerCancels PROVE records'[j] = records[j]
    <3>1. records'[j] = Cancel(records, j, "CANCELLED")[j]
      BY <2>15 DEF CallerCancels
    <3> QED
      BY <2>0, <3>1, Cancelling
  <2>16. ASSUME NEW i \in Prompts, Finish(i) PROVE records'[j] = records[j]
    BY <2>16 DEF Finish
  <2>17. ASSUME Tick PROVE records'[j] = records[j]
    BY <2>17 DEF Tick
  <2>18. ASSUME UNCHANGED vars PROVE records'[j] = records[j]
    BY <2>18 DEF vars
  <2> QED
    BY <2>1, <2>2, <2>3, <2>4, <2>5, <2>6, <2>7, <2>8, <2>9, <2>10, <2>11, <2>12, <2>13,
       <2>14, <2>15, <2>16, <2>17, <2>18 DEF Next, Owner
<1> QED
  BY <1>1, TypeInvariance, PlaceInvariance, AccountInvariance, PTL DEF Spec, SettledForGood

\* When drive() is over its threads are, or the envelope is, or the drain itself failed.
THEOREM QuietHolds == Spec => []Quiet
<1>1. Init => Quiet
  BY DEF Init, Quiet
<1>2. Typed /\ Places /\ Fits /\ Accounts /\ Quiet /\ [Next]_vars => Quiet'
  <2> SUFFICES ASSUME Typed, Places, Fits, Accounts, Quiet, [Next]_vars PROVE Quiet'
    OBVIOUS
  <2> USE DEF threads, place, jobs, others
  <2>1. ASSUME Admit PROVE Quiet'
    <3>1. /\ next \in Prompts /\ pc \in {"first", "top"} /\ pc \in Points
          /\ Advance(next, ready, records, pc) /\ ready \in Requests /\ records \in Books
          /\ UNCHANGED threads
      <4>1. next <= policy.n /\ policy.n \in 1..N /\ N \in Nat /\ next \in 1..policy.n + 1
        BY <2>1, Parameters DEF Admit, Typed
      <4> QED
        BY <2>1, <4>1 DEF Admit, Typed, Prompts
    <3>2. pc' = pc \/ pc' = (IF pc = "first" THEN "raised" ELSE "finally")
      BY <3>1, Moves
    <3>3. pc = "first" => running = {}
      BY DEF Places
    <3> QED
      BY <3>1, <3>2, <3>3 DEF Quiet
  <2>2. ASSUME Admitted PROVE Quiet'
    BY <2>2 DEF Admitted, Quiet
  <2>3. ASSUME Return PROVE Quiet'
    <3>1. pc' = "returned" /\ done = Called /\ UNCHANGED <<running, completed>>
      BY <2>3 DEF Return
    <3>2. Active = {}
      <4>1. policy.n \in 1..N /\ next \in 1..policy.n + 1
        BY Parameters DEF Typed
      <4>2. \A q \in Prompts : q \in done \/ q >= next
        BY <3>1, <4>1, Parameters DEF Called, Prompts
      <4> QED
        BY <4>2 DEF Places, Active
    <3>3. running = {} /\ Len(completed) = 0
      <4>1. running = {} /\ Cardinality(running) = 0 /\ Cardinality(Active) = 0
        BY <3>2, FS_EmptySet DEF Places
      <4>2. Len(completed) \in Nat
        BY DEF Typed
      <4> QED
        BY <4>1, <4>2 DEF Fits
    <3>4. completed = << >>
      BY <3>3, EmptySeq DEF Typed
    <3> QED
      BY <3>1, <3>3, <3>4 DEF Quiet
  <2>4. ASSUME Observe PROVE Quiet'
    <3> DEFINE i == Head(completed).prompt
               books == [records EXCEPT ![Job(i)] = Publish(active[i])]
    <3>1. pc' \in {"observe", "finally"}
      <4>1. CASE Advance(i, ready, books, "observe")
        <5>1. ready \in Requests /\ books \in Books /\ "observe" \in Points /\ pc = "observe"
              /\ i \in Prompts
          BY <2>4, Heads DEF Observe, Typed, Books, Publish, States, Points, Answers
        <5> HIDE DEF books, i
        <5> QED
          BY <4>1, <5>1, Moves
      <4>2. CASE pc = "observe" /\ Raises
        BY <4>2 DEF Raises, Raise
      <4> QED
        BY <2>4, <4>1, <4>2 DEF Observe, Raises
    <3> QED
      BY <3>1 DEF Quiet
  <2>5. ASSUME Observed PROVE Quiet'
    BY <2>5 DEF Observed, Quiet
  <2>6. ASSUME Expire PROVE Quiet'
    BY <2>6 DEF Expire, Quiet, Raise
  <2>7. ASSUME DropQueued PROVE Quiet'
    <3> DEFINE i == todo[First]
               books == Cancel(records, Job(i), "UNSTARTED")
    <3>1. pc' \in {"dispatch", "finally"}
      <4>1. CASE Advance(i, Take(i), books, "dispatch")
        <5>1. books \in Books /\ "dispatch" \in Points /\ pc = "dispatch" /\ i \in Prompts
          BY <2>7, Heads DEF DropQueued, Typed, Books, Cancel, States, Points
        <5>2. Take(i) \in Requests
          BY <5>1 DEF Take, Requests, Typed
        <5> HIDE DEF books, i
        <5> QED
          BY <4>1, <5>1, <5>2, Moves
      <4>2. CASE pc = "dispatch" /\ Raises
        BY <4>2 DEF Raises, Raise
      <4> QED
        BY <2>7, <4>1, <4>2 DEF DropQueued, Raises
    <3> QED
      BY <3>1 DEF Quiet
  <2>8. ASSUME Dispatch PROVE Quiet'
    BY <2>8 DEF Dispatch, Quiet
  <2>9. ASSUME Dispatched PROVE Quiet'
    BY <2>9 DEF Dispatched, Quiet
  <2>10. ASSUME Decode PROVE Quiet'
    BY <2>10 DEF Decode, Quiet, Raise
  <2>11. ASSUME Value PROVE Quiet'
    <3> DEFINE then == IF Len(todo) = 1 THEN "top" ELSE "values"
    <3>1. then \in Points /\ Advance(Head(todo), ready, records, then) /\ Head(todo) \in Prompts
          /\ ready \in Requests /\ records \in Books /\ pc = "values"
      BY <2>11, Heads DEF Value, Typed, Points
    <3>2. pc' = then \/ pc' = "finally"
      BY <3>1, Moves
    <3> QED
      BY <3>2 DEF Quiet
  <2>12. ASSUME Idle PROVE Quiet'
    BY <2>12 DEF Idle, Quiet, Raise
  <2>13. ASSUME Finally PROVE Quiet'
    <3> DEFINE lost == {i \in Queued : records[Job(i)] = None}
    <3>1. CASE lost = {}
      <4>1. pc' = "join"
        BY <2>13, <3>1 DEF Finally
      <4> QED
        BY <4>1 DEF Quiet
    <3>2. CASE lost # {}
      <4>1. pc = "finally" /\ pc' = "raised" /\ UNCHANGED failure
        BY <2>13, <3>2 DEF Finally
      <4>2. PICK i \in Queued : records[Job(i)] = None
        BY <3>2
      <4>3. i \in Prompts /\ Native(i) /\ Account(i)
        BY DEF Queued, Accounts
      <4>4. None # "RESERVED"
        BY Parameters DEF States
      <4>5. failure = "reserve"
        BY <4>1, <4>2, <4>3, <4>4 DEF Account, Ended
      <4> QED
        BY <4>1, <4>5 DEF Quiet
    <3> QED
      BY <3>1, <3>2
  <2>14. ASSUME Join PROVE Quiet'
    BY <2>14 DEF Join, Joined, Quiet
  <2>15. ASSUME CallerCancels PROVE Quiet'
    BY <2>15 DEF CallerCancels, Quiet
  <2>16. ASSUME NEW i \in Prompts, Finish(i) PROVE Quiet'
    <3>1. /\ i \in running /\ running' = running \ {i} /\ UNCHANGED <<pc, now, drained, failure>>
      BY <2>16 DEF Finish
    <3> QED
      BY <3>1 DEF Quiet
  <2>17. ASSUME Tick PROVE Quiet'
    BY <2>17 DEF Tick, Quiet, Ended
  <2>18. ASSUME UNCHANGED vars PROVE Quiet'
    BY <2>18 DEF vars, Quiet
  <2> QED
    BY <2>1, <2>2, <2>3, <2>4, <2>5, <2>6, <2>7, <2>8, <2>9, <2>10, <2>11, <2>12, <2>13,
       <2>14, <2>15, <2>16, <2>17, <2>18 DEF Next, Owner
<1> QED
  BY <1>1, <1>2, TypeInvariance, PlaceInvariance, FitInvariance, AccountInvariance, PTL DEF Spec

\* The threads fit the queue while drive() lasts, and are gone with it.
THEOREM DrainedHolds == Spec => []Drained
BY NeverStuckHolds, QuietHolds, PTL DEF Drained

(***************************************************************************)
(* Overtaking.  A waiting request comes earlier in the order that begins   *)
(* at the cursor than every prompt that overtook it, and a pass has not    *)
(* left behind a request that anybody overtook.                            *)
(***************************************************************************)
Steps(n, c, i) == (i + n - c) % n \* Turn, of any policy
Behind(a) ==
  /\ a + Len(todo) <= policy.n
  /\ \A k \in 1..Len(todo) : todo[k] \in Called /\ Steps(policy.n, cursor, todo[k]) = a + k - 1
  /\ \A i \in Called : Native(i) /\ Steps(policy.n, cursor, i) < a => passed[i] = {}
Overtaking ==
  /\ \A i \in Prompts : Native(i) => \A q \in passed[i] :
       q \in Called /\ Steps(policy.n, cursor, i) < Steps(policy.n, cursor, q)
  /\ pc = "dispatch" => \E a \in 0..policy.n : Behind(a)

\* The turns of the prompts, and how they move with the cursor.
LEMMA Turns ==
  ASSUME NEW n \in Nat \ {0}, NEW c \in 1..n, NEW i \in 1..n
  PROVE  (i + n - c) % n = IF i >= c THEN i - c ELSE i + n - c
OBVIOUS

\* The prompts in the order of a pass, from the cursor on.
LEMMA Around ==
  ASSUME NEW n \in Nat \ {0}, NEW c \in 1..n, NEW k \in 1..n
  PROVE  (c + k - 2) % n = IF c + k - 2 < n THEN c + k - 2 ELSE c + k - 2 - n
OBVIOUS

\* The prompt after another one, around the end.
LEMMA NextPlace ==
  ASSUME NEW n \in Nat \ {0}, NEW i \in 1..n
  PROVE  1 + (i % n) = IF i = n THEN 1 ELSE i + 1
<1>1. CASE i = n
  BY <1>1
<1>2. CASE i # n
  BY <1>2
<1> QED
  BY <1>1, <1>2

\* No two prompts have the same turn.
LEMMA SameTurn ==
  ASSUME NEW n \in Nat \ {0}, NEW c \in 1..n, NEW i \in 1..n, NEW j \in 1..n,
         (IF i >= c THEN i - c ELSE i + n - c) = (IF j >= c THEN j - c ELSE j + n - c)
  PROVE  i = j
<1>1. CASE i >= c /\ j >= c
  BY <1>1
<1>2. CASE ~ (i >= c) /\ ~ (j >= c)
  BY <1>2
<1>3. CASE i >= c /\ ~ (j >= c)
  BY <1>3
<1>4. CASE ~ (i >= c) /\ j >= c
  BY <1>4
<1> QED
  BY <1>1, <1>2, <1>3, <1>4

\* The turns after the cursor has moved behind prompt i.
LEMMA Shift ==
  ASSUME NEW n \in Nat \ {0}, NEW c \in 1..n, NEW i \in 1..n, NEW j \in 1..n,
         NEW f, f = (IF i = n THEN 1 ELSE i + 1),
         NEW ti, ti = (IF i >= c THEN i - c ELSE i + n - c),
         NEW tj, tj = (IF j >= c THEN j - c ELSE j + n - c)
  PROVE  (IF j >= f THEN j - f ELSE j + n - f) = IF tj > ti THEN tj - ti - 1 ELSE tj - ti - 1 + n
OBVIOUS

\* The same facts for Steps, Order and Cursor of the model.
LEMMA Turning ==
  ASSUME Typed
  PROVE  /\ \A c, i \in Called :
              /\ Steps(policy.n, c, i) = IF i >= c THEN i - c ELSE i + policy.n - c
              /\ Steps(policy.n, c, i) \in 0..policy.n - 1
         /\ \A c, i, j \in Called : Steps(policy.n, c, i) = Steps(policy.n, c, j) => i = j
         /\ \A c, k \in Called : /\ Order[k] \in Called
                                 /\ c = cursor => Steps(policy.n, c, Order[k]) = k - 1
         /\ \A i \in Called : Cursor(i) \in Called
         /\ \A c, i, j \in Called :
              Steps(policy.n, Cursor(i), j) =
                IF Steps(policy.n, c, j) > Steps(policy.n, c, i)
                THEN Steps(policy.n, c, j) - Steps(policy.n, c, i) - 1
                ELSE Steps(policy.n, c, j) - Steps(policy.n, c, i) - 1 + policy.n
<1> DEFINE n == policy.n
<1>1. n \in Nat \ {0} /\ Called = 1..n /\ cursor \in 1..n
  BY Heads DEF Typed, Called
<1>2. \A c, i \in Called : Steps(policy.n, c, i) = IF i >= c THEN i - c ELSE i + n - c
  BY <1>1, Turns DEF Steps
<1>3. \A i \in Called : Cursor(i) = IF i = n THEN 1 ELSE i + 1
  BY <1>1, NextPlace DEF Cursor
<1>4. \A k \in Called : Order[k] = IF cursor + k - 2 < n THEN cursor + k - 1 ELSE cursor + k - 1 - n
  <2>1. \A k \in Called : Order[k] = 1 + ((cursor + k - 2) % n)
    BY DEF Order
  <2>2. ASSUME NEW k \in Called
        PROVE  Order[k] = IF cursor + k - 2 < n THEN cursor + k - 1 ELSE cursor + k - 1 - n
    <3>1. (cursor + k - 2) % n = IF cursor + k - 2 < n THEN cursor + k - 2 ELSE cursor + k - 2 - n
      BY <1>1, Around
    <3> QED
      BY <1>1, <2>1, <3>1
  <2> QED
    BY <2>2
<1> HIDE DEF n
<1>5. ASSUME NEW c \in Called, NEW i \in Called PROVE Steps(policy.n, c, i) \in 0..n - 1
  <2>1. Steps(policy.n, c, i) = IF i >= c THEN i - c ELSE i + n - c
    BY <1>2
  <2> QED
    BY <1>1, <2>1
<1>6. ASSUME NEW c \in Called, NEW i \in Called, NEW j \in Called,
             Steps(policy.n, c, i) = Steps(policy.n, c, j)
      PROVE  i = j
  <2>1. /\ Steps(policy.n, c, i) = IF i >= c THEN i - c ELSE i + n - c
        /\ Steps(policy.n, c, j) = IF j >= c THEN j - c ELSE j + n - c
    BY <1>2
  <2> QED
    BY <1>1, <1>6, <2>1, SameTurn
<1>7. \A k \in Called : Order[k] \in Called /\ Steps(policy.n, cursor, Order[k]) = k - 1
  <2>1. ASSUME NEW k \in Called PROVE Order[k] \in Called /\ Steps(policy.n, cursor, Order[k]) = k - 1
    <3>1. k \in 1..n /\ cursor \in 1..n /\ n \in Nat
      BY <1>1
    <3>2. Order[k] = IF cursor + k - 2 < n THEN cursor + k - 1 ELSE cursor + k - 1 - n
      BY <1>4
    <3>3. Order[k] \in 1..n
      BY <3>1, <3>2
    <3>4. Steps(policy.n, cursor, Order[k]) =
            IF Order[k] >= cursor THEN Order[k] - cursor ELSE Order[k] + n - cursor
      BY <1>1, <1>2, <3>3
    <3>5. CASE cursor + k - 2 < n
      BY <1>1, <3>1, <3>2, <3>3, <3>4, <3>5
    <3>6. CASE ~ (cursor + k - 2 < n)
      BY <1>1, <3>1, <3>2, <3>3, <3>4, <3>6
    <3> QED
      BY <3>5, <3>6
  <2> QED
    BY <2>1
<1>8. \A i \in Called : Cursor(i) \in Called
  BY <1>1, <1>3
<1>9. ASSUME NEW c \in Called, NEW i \in Called, NEW j \in Called
      PROVE  Steps(policy.n, Cursor(i), j) =
               IF Steps(policy.n, c, j) > Steps(policy.n, c, i)
               THEN Steps(policy.n, c, j) - Steps(policy.n, c, i) - 1
               ELSE Steps(policy.n, c, j) - Steps(policy.n, c, i) - 1 + n
  <2>1. Steps(policy.n, Cursor(i), j) = IF j >= Cursor(i) THEN j - Cursor(i) ELSE j + n - Cursor(i)
    BY <1>2, <1>8
  <2>2. Steps(policy.n, c, j) = IF j >= c THEN j - c ELSE j + n - c
    BY <1>2
  <2>3. Steps(policy.n, c, i) = IF i >= c THEN i - c ELSE i + n - c
    BY <1>2
  <2>4. Cursor(i) = IF i = n THEN 1 ELSE i + 1
    BY <1>3
  <2>5. c \in 1..n /\ i \in 1..n /\ j \in 1..n
    BY <1>1
  <2> QED
    BY <1>1, <2>1, <2>2, <2>3, <2>4, <2>5, Shift
<1> QED
  BY <1>2, <1>5, <1>6, <1>7, <1>8, <1>9 DEF n

\* The pass over the order, at its first eligible request: no request before it waits.
LEMMA Passing ==
  ASSUME Typed, Eligible # {}, NEW a \in 0..policy.n, Behind(a)
  PROVE  /\ todo[First] \in Called /\ Steps(policy.n, cursor, todo[First]) = a + First - 1
         /\ \A j \in Called : Steps(policy.n, cursor, j) < a + First - 1 /\ Native(j) => passed[j] = {}
         /\ Len(After(First)) = Len(todo) - First
         /\ \A k \in 1..Len(After(First)) :
              /\ After(First)[k] \in Called
              /\ Steps(policy.n, cursor, After(First)[k]) = a + First + k - 1
<1>1. /\ First \in 1..Len(todo) /\ \A k \in Eligible : First <= k
      /\ Len(todo) \in Nat /\ a \in Nat /\ Cardinality(Active) < policy.workers
  <2>1. /\ First \in 1..Len(todo) /\ \A k \in Eligible : First <= k
        /\ Cardinality(Active) < policy.workers /\ policy.n \in Nat
    BY Heads
  <2>2. Len(todo) \in Nat
    BY DEF Typed
  <2> QED
    BY <2>1, <2>2
<1>2. todo[First] \in Called /\ Steps(policy.n, cursor, todo[First]) = a + First - 1
  BY <1>1 DEF Behind
<1>3. ASSUME NEW j \in Called, Steps(policy.n, cursor, j) < a + First - 1, Native(j) PROVE passed[j] = {}
  <2>1. cursor \in Called /\ Steps(policy.n, cursor, j) \in Nat
    <3>1. cursor \in Called /\ policy.n \in Nat \ {0}
      BY Heads DEF Typed
    <3>2. Steps(policy.n, cursor, j) \in 0..policy.n - 1
      BY <3>1, Turning
    <3> QED
      BY <3>1, <3>2
  <2>2. CASE Steps(policy.n, cursor, j) < a
    BY <1>3, <2>2 DEF Behind
  <2>3. CASE Steps(policy.n, cursor, j) >= a
    <3> DEFINE k == Steps(policy.n, cursor, j) - a + 1
    <3>1. k \in 1..Len(todo) /\ k < First
      BY <1>1, <1>3, <2>1, <2>3
    <3>2. todo[k] \in Called /\ Steps(policy.n, cursor, todo[k]) = Steps(policy.n, cursor, j)
      BY <1>1, <2>1, <3>1 DEF Behind
    <3>3. todo[k] = j
      BY <2>1, <3>2, Turning
    <3>4. k \in Eligible
      BY <1>1, <1>3, <3>1, <3>3 DEF Eligible, Typed
    <3> QED
      BY <1>1, <3>1, <3>4
  <2> QED
    BY <1>1, <2>1, <2>2, <2>3
<1>4. /\ Len(After(First)) = Len(todo) - First
      /\ \A k \in 1..Len(todo) - First : After(First)[k] = todo[First + k]
  <2>1. \A k \in First + 1 .. Len(todo) : todo[k] \in Prompts
    BY <1>1 DEF Typed
  <2> QED
    BY <1>1, <2>1, SubSeqProperties DEF After
<1>5. ASSUME NEW k \in 1..Len(After(First))
      PROVE  After(First)[k] \in Called /\ Steps(policy.n, cursor, After(First)[k]) = a + First + k - 1
  <2>1. First + k \in 1..Len(todo) /\ After(First)[k] = todo[First + k]
    BY <1>1, <1>4
  <2>2. /\ todo[First + k] \in Called
        /\ Steps(policy.n, cursor, todo[First + k]) = a + (First + k) - 1
    BY <2>1 DEF Behind
  <2> QED
    BY <1>1, <2>1, <2>2
<1> QED
  BY <1>2, <1>3, <1>4, <1>5

\* A prompt that was advanced waits with a request that nobody overtook, or not at all.
LEMMA FreshRequest ==
  ASSUME Typed, NEW i \in Prompts, NEW rest \in Requests, NEW books \in Books, NEW then \in Points,
         Advance(i, rest, books, then), rest[i] = None,
         \A q \in Prompts \ {i} : rest[q] = ready[q]
  PROVE  /\ Native(i)' => passed'[i] = {}
         /\ \A q \in Prompts : Native(q)' => passed'[q] = {} \/ (Native(q) /\ passed'[q] = passed[q])
<1>1. /\ \A q \in Prompts \ {i} : ready'[q] = rest[q] /\ passed'[q] = passed[q]
      /\ ready' = rest \/ passed'[i] = {}
  BY Advances
<1>2. None \notin Deadlines
  BY Parameters
<1>3. Native(i)' => passed'[i] = {}
  BY <1>1, <1>2 DEF Native
<1>4. \A q \in Prompts \ {i} : Native(q)' => Native(q) /\ passed'[q] = passed[q]
  BY <1>1 DEF Native
<1> QED
  BY <1>3, <1>4

\* A step that serves nobody, and neither moves the pass nor starts one.
LEMMA NotOvertaken ==
  ASSUME Typed, Overtaking, UNCHANGED <<policy, cursor, passed>>,
         \A q \in Prompts : ready'[q] \in Deadlines <=> ready[q] \in Deadlines,
         pc' # "dispatch" \/ (pc' = pc /\ todo' = todo)
  PROVE  Overtaking'
<1>2. \A q \in Prompts : Native(q)' <=> Native(q)
  BY DEF Native
<1>3. \A q \in Prompts : Native(q)' => \A o \in passed'[q] :
        o \in Called' /\ Steps(policy'.n, cursor', q) < Steps(policy'.n, cursor', o)
  BY <1>2 DEF Overtaking, Called
<1>4. CASE pc' # "dispatch"
  BY <1>3, <1>4 DEF Overtaking
<1>5. CASE pc' = pc /\ todo' = todo /\ pc = "dispatch"
  <2>1. PICK a \in 0..policy.n : Behind(a)
    BY <1>5 DEF Overtaking
  <2>2. Behind(a)'
    <3>1. \A q \in Called : q \in Prompts
      BY Heads
    <3> QED
      BY <1>2, <1>5, <2>1, <3>1 DEF Behind, Called
  <2>3. \E b \in 0..policy'.n : Behind(b)'
    BY <2>1, <2>2
  <2> QED
    BY <1>3, <2>3 DEF Overtaking
<1> QED
  BY <1>4, <1>5

\* Who overtook a waiting request comes after it, and no pass leaves such a request behind.
THEOREM OvertakingInvariance == Spec => []Overtaking
<1>1. Init => Overtaking
  <2> SUFFICES ASSUME Init PROVE Overtaking
    OBVIOUS
  <2>1. pc = "first" /\ \A i \in Prompts : passed[i] = {}
    BY DEF Init
  <2> QED
    BY <2>1 DEF Overtaking
<1>2. Typed /\ Places /\ Overtaking /\ [Next]_vars => Overtaking'
  <2> SUFFICES ASSUME Typed, Places, Overtaking, [Next]_vars PROVE Overtaking'
    OBVIOUS
  <2> USE DEF threads, place, jobs, others
  <2>0. /\ None \notin Deadlines /\ Generation \notin Deadlines /\ records \in Books
        /\ ready \in Requests /\ Called \subseteq Prompts
    BY Parameters, Heads DEF Typed
  <2>20. \A i \in Prompts : Native(i) => i \in Called
    <3>1. policy.n \in 1..N /\ next \in 1..policy.n + 1 /\ Prompts \subseteq Int
      BY Parameters DEF Typed, Prompts
    <3>2. \A i \in Prompts : Native(i) => ~ i >= next
      BY <2>0 DEF Places, Native
    <3> QED
      BY <3>1, <3>2 DEF Called, Prompts
  <2>1. ASSUME Admit PROVE Overtaking'
    <3>1. /\ next \in Prompts /\ pc \in {"first", "top"} /\ pc \in Points
          /\ Advance(next, ready, records, pc) /\ UNCHANGED <<policy, cursor>>
      <4>1. next <= policy.n /\ policy.n \in 1..N /\ N \in Nat /\ next \in 1..policy.n + 1
        BY <2>1, Parameters DEF Admit, Typed
      <4> QED
        BY <2>1, <4>1 DEF Admit, Typed, Prompts
    <3>2. ready[next] = None
      BY <2>0, <3>1 DEF Places, Typed
    <3>3. \A q \in Prompts : Native(q)' => passed'[q] = {} \/ (Native(q) /\ passed'[q] = passed[q])
      BY <2>0, <3>1, <3>2, FreshRequest
    <3>4. pc' # "dispatch"
      BY <2>0, <3>1, Moves
    <3> QED
      BY <3>1, <3>3, <3>4 DEF Overtaking, Called
  <2>2. ASSUME Admitted PROVE Overtaking'
    <3>1. /\ UNCHANGED <<policy, cursor, passed>>
          /\ \A q \in Prompts : ready'[q] \in Deadlines <=> ready[q] \in Deadlines
          /\ (pc' # "dispatch" \/ (pc' = pc /\ todo' = todo))
      BY <2>2 DEF Admitted
    <3> QED
      BY <3>1, NotOvertaken
  <2>3. ASSUME Return PROVE Overtaking'
    <3>1. /\ UNCHANGED <<policy, cursor, passed>>
          /\ \A q \in Prompts : ready'[q] \in Deadlines <=> ready[q] \in Deadlines
          /\ (pc' # "dispatch" \/ (pc' = pc /\ todo' = todo))
      BY <2>3 DEF Return
    <3> QED
      BY <3>1, NotOvertaken
  <2>4. ASSUME Observe PROVE Overtaking'
    <3>0. PICK i \in Prompts : i = Head(completed).prompt /\ active[i] # None
      <4>1. /\ Head(completed).prompt = completed[1].prompt /\ 1 \in 1..Len(completed)
        BY <2>4, HeadTailProperties, EmptySeq DEF Observe, Typed, Answers
      <4> QED
        BY <4>1 DEF Places, Active
    <3> DEFINE books == [records EXCEPT ![Job(i)] = Publish(active[i])]
    <3>1. /\ pc = "observe" /\ UNCHANGED <<policy, cursor>>
          /\ \/ Advance(i, ready, books, "observe")
             \/ Raises /\ UNCHANGED <<ready, passed>>
      BY <2>4, <3>0 DEF Observe, Raises
    <3>2. ready[i] = None /\ books \in Books /\ "observe" \in Points
      BY <2>0, <3>0 DEF Places, Books, Publish, States, Points
    <3> HIDE DEF books
    <3>3. /\ \A q \in Prompts : Native(q)' => passed'[q] = {} \/ (Native(q) /\ passed'[q] = passed[q])
          /\ pc' # "dispatch"
      <4>1. CASE Advance(i, ready, books, "observe")
        <5>1. \A q \in Prompts : Native(q)' => passed'[q] = {} \/ (Native(q) /\ passed'[q] = passed[q])
          BY <2>0, <3>0, <3>2, <4>1, FreshRequest
        <5>2. pc' # "dispatch"
          BY <2>0, <3>0, <3>1, <3>2, <4>1, Moves
        <5> QED
          BY <5>1, <5>2
      <4>2. CASE Raises /\ UNCHANGED <<ready, passed>>
        BY <4>2 DEF Raises, Raise, Native
      <4> QED
        BY <3>1, <4>1, <4>2
    <3> QED
      BY <3>1, <3>3 DEF Overtaking, Called
  <2>5. ASSUME Observed PROVE Overtaking'
    <3>1. /\ UNCHANGED <<policy, cursor, passed>>
          /\ \A q \in Prompts : ready'[q] \in Deadlines <=> ready[q] \in Deadlines
          /\ (pc' # "dispatch" \/ (pc' = pc /\ todo' = todo))
      BY <2>5 DEF Observed
    <3> QED
      BY <3>1, NotOvertaken
  <2>6. ASSUME Expire PROVE Overtaking'
    <3>1. UNCHANGED <<policy, cursor, passed, ready>> /\ (pc' = "dispatch" => todo' = Order)
      BY <2>6 DEF Expire, Raise
    <3>2. CASE pc' # "dispatch"
      BY <3>1, <3>2 DEF Overtaking, Native, Called
    <3>3. CASE todo' = Order
      <4>1. policy.n \in Nat /\ Order \in Seq(Called) /\ cursor \in Called /\ Called = 1..policy.n
        BY Heads DEF Typed, Called
      <4>2. Len(Order) = policy.n
        BY <4>1 DEF Order
      <4>3. \A k \in 1..policy.n : Order[k] \in Called /\ Steps(policy.n, cursor, Order[k]) = k - 1
        BY <4>1, Turning
      <4>4. \A i \in Called : Steps(policy.n, cursor, i) \in 0..policy.n - 1
        BY <4>1, Turning
      <4>5. /\ 0 + Len(todo') <= policy'.n
            /\ \A k \in 1..Len(todo') : todo'[k] \in Called /\ Steps(policy.n, cursor, todo'[k]) = 0 + k - 1
            /\ \A i \in Called : ~ Steps(policy.n, cursor, i) < 0
        BY <3>1, <3>3, <4>1, <4>2, <4>3, <4>4
      <4>6. Behind(0)'
        BY <3>1, <4>5 DEF Behind, Called
      <4>7. 0 \in 0..policy'.n
        BY <3>1, <4>1
      <4>8. \E a \in 0..policy'.n : Behind(a)'
        BY <4>6, <4>7
      <4>9. \A i \in Prompts : Native(i)' => \A q \in passed'[i] :
              q \in Called' /\ Steps(policy'.n, cursor', i) < Steps(policy'.n, cursor', q)
        BY <3>1 DEF Overtaking, Native, Called
      <4> QED
        BY <4>8, <4>9 DEF Overtaking
    <3> QED
      BY <3>1, <3>2, <3>3
  <2>7. ASSUME DropQueued PROVE Overtaking'
    <3>0. PICK i \in Prompts : i = todo[First] /\ Native(i)
      BY <2>7, Heads DEF DropQueued
    <3> DEFINE books == Cancel(records, Job(i), "UNSTARTED")
    <3>1. /\ pc = "dispatch" /\ Eligible # {} /\ todo' = After(First) /\ UNCHANGED <<policy, cursor>>
          /\ \/ Advance(i, Take(i), books, "dispatch")
             \/ ready' = Take(i) /\ Raises /\ UNCHANGED passed
      BY <2>7, <3>0 DEF DropQueued, Raises
    <3>2. /\ Take(i) \in Requests /\ Take(i)[i] = None /\ "dispatch" \in Points
          /\ \A q \in Prompts \ {i} : Take(i)[q] = ready[q]
      BY <2>0, <3>0 DEF Take, Requests, Points
    <3>3. books \in Books
      BY <2>0 DEF Cancel, Books, States
    <3> HIDE DEF books
    <3>4. /\ \A q \in Prompts : Native(q)' => passed'[q] = {} \/ (Native(q) /\ passed'[q] = passed[q])
          /\ Native(i)' => passed'[i] = {}
      <4>1. CASE Advance(i, Take(i), books, "dispatch")
        BY <2>0, <3>0, <3>2, <3>3, <4>1, FreshRequest
      <4>2. CASE ready' = Take(i) /\ UNCHANGED passed
        BY <2>0, <3>0, <3>2, <4>2 DEF Native
      <4> QED
        BY <3>1, <4>1, <4>2
    <3>5. PICK a \in 0..policy.n : Behind(a)
      BY <3>1 DEF Overtaking
    <3>6. /\ \A j \in Called : Steps(policy.n, cursor, j) < a + First - 1 /\ Native(j) => passed[j] = {}
          /\ Steps(policy.n, cursor, i) = a + First - 1 /\ i \in Called
          /\ Len(After(First)) = Len(todo) - First
          /\ \A k \in 1..Len(After(First)) :
              /\ After(First)[k] \in Called
              /\ Steps(policy.n, cursor, After(First)[k]) = a + First + k - 1
      BY <3>0, <3>1, <3>5, Passing
    <3>7. /\ First \in 1..Len(todo) /\ Len(todo) \in Nat /\ a + Len(todo) <= policy.n
          /\ a \in Nat /\ policy.n \in Nat /\ cursor \in Called
      <4>1. First \in 1..Len(todo) /\ policy.n \in Nat
        BY <3>1, Heads
      <4> QED
        BY <3>5, <4>1 DEF Typed, Behind
    <3>20. PICK b \in 0..policy.n : b = a + First
      BY <3>7
    <3>8. \A j \in Called : Steps(policy.n, cursor, j) < b /\ Native(j)' => passed'[j] = {}
      <4>1. ASSUME NEW j \in Called, Steps(policy.n, cursor, j) < b, Native(j)' PROVE passed'[j] = {}
        <5>1. Steps(policy.n, cursor, j) \in Int
          BY <3>7, Turning, Heads
        <5>2. CASE Steps(policy.n, cursor, j) = Steps(policy.n, cursor, i)
          <6>1. j = i
            BY <3>6, <3>7, <5>2, Turning
          <6> QED
            BY <3>4, <4>1, <6>1
        <5>3. CASE Steps(policy.n, cursor, j) # Steps(policy.n, cursor, i)
          <6>1. Steps(policy.n, cursor, j) < a + First - 1
            <7>1. Steps(policy.n, cursor, i) = b - 1 /\ b = a + First /\ b \in Int /\ b - 1 = a + First - 1
              BY <3>6, <3>7, <3>20
            <7>2. Steps(policy.n, cursor, j) < b
              BY <4>1
            <7> QED
              BY <5>1, <5>3, <7>1, <7>2
          <6>2. j \in Prompts
            BY <2>0
          <6> QED
            BY <3>4, <3>6, <4>1, <6>1, <6>2
        <5> QED
          BY <5>2, <5>3
      <4> QED
        BY <4>1
    <3>9. b \in 0..policy.n /\ b + Len(todo') <= policy.n
      BY <3>1, <3>6, <3>7, <3>20
    <3>10. Behind(b)'
      <4>1. \A k \in 1..Len(todo') : todo'[k] \in Called /\ Steps(policy.n, cursor, todo'[k]) = b + k - 1
        BY <3>1, <3>6, <3>20
      <4> QED
        BY <3>1, <3>8, <3>9, <4>1 DEF Behind, Called
    <3>11. \E c \in 0..policy'.n : Behind(c)'
      BY <3>1, <3>9, <3>10
    <3>12. \A j \in Prompts : Native(j)' => \A q \in passed'[j] :
             q \in Called' /\ Steps(policy'.n, cursor', j) < Steps(policy'.n, cursor', q)
      BY <3>1, <3>4 DEF Overtaking, Called
    <3> QED
      BY <3>11, <3>12 DEF Overtaking
  <2>8. ASSUME Dispatch PROVE Overtaking'
    <3>0. PICK i \in Prompts : i = todo[First] /\ Native(i)
      BY <2>8, Heads DEF Dispatch
    <3>1. /\ pc = "dispatch" /\ Eligible # {} /\ todo' = After(First) /\ UNCHANGED policy
          /\ ready' = Take(i) /\ cursor' = Cursor(i)
          /\ passed' = [q \in Prompts |-> IF q # i /\ Native(q) THEN passed[q] \cup {i} ELSE passed[q]]
      BY <2>8, <3>0 DEF Dispatch
    <3>2. /\ ~Native(i)' /\ \A q \in Prompts \ {i} : Native(q)' <=> Native(q)
      BY <2>0, <3>0, <3>1 DEF Take, Requests, Native
    <3>3. PICK a \in 0..policy.n : Behind(a)
      BY <3>1 DEF Overtaking
    <3>4. /\ \A j \in Called : Steps(policy.n, cursor, j) < a + First - 1 /\ Native(j) => passed[j] = {}
          /\ Steps(policy.n, cursor, i) = a + First - 1 /\ i \in Called
          /\ Len(After(First)) = Len(todo) - First
          /\ \A k \in 1..Len(After(First)) :
              /\ After(First)[k] \in Called
              /\ Steps(policy.n, cursor, After(First)[k]) = a + First + k - 1
      BY <3>0, <3>1, <3>3, Passing
    <3>5. /\ First \in 1..Len(todo) /\ Len(todo) \in Nat /\ a + Len(todo) <= policy.n
          /\ a \in Nat /\ policy.n \in Nat \ {0} /\ cursor \in Called
      <4>1. First \in 1..Len(todo) /\ policy.n \in Nat \ {0}
        BY <3>1, Heads
      <4> QED
        BY <3>3, <4>1 DEF Typed, Behind
    <3> DEFINE t(j) == Steps(policy.n, cursor, j)
               u(j) == Steps(policy.n, Cursor(i), j)
    <3>6. \A j \in Called : /\ t(j) \in 0..policy.n - 1
                            /\ u(j) = IF t(j) > t(i) THEN t(j) - t(i) - 1 ELSE t(j) - t(i) - 1 + policy.n
                            /\ t(j) = t(i) => j = i
      <4>1. ASSUME NEW j \in Called
            PROVE  /\ t(j) \in 0..policy.n - 1
                   /\ u(j) = IF t(j) > t(i) THEN t(j) - t(i) - 1 ELSE t(j) - t(i) - 1 + policy.n
                   /\ t(j) = t(i) => j = i
        <5>1. cursor \in Called /\ i \in Called
          BY <3>4, <3>5
        <5>2. t(j) \in 0..policy.n - 1
          BY <5>1, Turning
        <5>3. u(j) = IF t(j) > t(i) THEN t(j) - t(i) - 1 ELSE t(j) - t(i) - 1 + policy.n
          BY <5>1, Turning
        <5>4. t(j) = t(i) => j = i
          BY <5>1, Turning
        <5> HIDE DEF t, u
        <5> QED
          BY <5>2, <5>3, <5>4
      <4> HIDE DEF t, u
      <4> QED
        BY <4>1
    <3> HIDE DEF t, u
    <3>7. t(i) = a + First - 1
      BY <3>4 DEF t
    <3>8. ASSUME NEW j \in Prompts, Native(j)', NEW q \in passed'[j]
          PROVE  q \in Called /\ u(j) < u(q)
      <4>1. j # i /\ Native(j) /\ j \in Called
        BY <2>20, <3>2, <3>8
      <4>2. passed'[j] = passed[j] \cup {i}
        BY <3>1, <4>1
      <4>3. t(j) # t(i)
        BY <3>6, <4>1
      <4>4. CASE q = i
        <5>1. u(i) = policy.n - 1
          BY <3>4, <3>5, <3>6
        <5>2. u(j) < policy.n - 1
          <6>1. t(j) \in 0..policy.n - 1 /\ t(i) \in 0..policy.n - 1
            BY <3>4, <3>6, <4>1
          <6>2. u(j) = IF t(j) > t(i) THEN t(j) - t(i) - 1 ELSE t(j) - t(i) - 1 + policy.n
            BY <3>6, <4>1
          <6> QED
            BY <3>5, <4>3, <6>1, <6>2
        <5> QED
          BY <3>4, <4>4, <5>1, <5>2
      <4>5. CASE q \in passed[j]
        <5>1. q \in Called /\ t(j) < t(q)
          BY <4>1, <4>5 DEF Overtaking, t
        <5>2. ~ t(j) < t(i)
          BY <3>4, <3>7, <4>1, <4>5 DEF t
        <5>3. t(j) \in 0..policy.n - 1 /\ t(q) \in 0..policy.n - 1 /\ t(i) \in 0..policy.n - 1
          BY <3>4, <3>6, <4>1, <5>1
        <5>4. /\ u(j) = IF t(j) > t(i) THEN t(j) - t(i) - 1 ELSE t(j) - t(i) - 1 + policy.n
              /\ u(q) = IF t(q) > t(i) THEN t(q) - t(i) - 1 ELSE t(q) - t(i) - 1 + policy.n
          BY <3>6, <4>1, <5>1
        <5>5. t(j) > t(i) /\ t(q) > t(i)
          BY <4>3, <5>1, <5>2, <5>3
        <5>6. u(j) < u(q)
          BY <5>1, <5>3, <5>4, <5>5
        <5> QED
          BY <5>1, <5>6
      <4> QED
        BY <3>8, <4>2, <4>4, <4>5
    <3>9. \A k \in 1..Len(todo') : todo'[k] \in Called /\ u(todo'[k]) = 0 + k - 1
      <4>1. ASSUME NEW k \in 1..Len(todo') PROVE todo'[k] \in Called /\ u(todo'[k]) = 0 + k - 1
        <5>1. todo'[k] \in Called /\ t(todo'[k]) = a + First + k - 1
          BY <3>1, <3>4 DEF t
        <5>2. u(todo'[k]) = IF t(todo'[k]) > t(i) THEN t(todo'[k]) - t(i) - 1
                            ELSE t(todo'[k]) - t(i) - 1 + policy.n
          BY <3>6, <5>1
        <5>3. k \in Nat /\ k >= 1
          BY <3>1, <3>4, <3>5
        <5> QED
          BY <3>5, <3>7, <5>1, <5>2, <5>3
      <4> QED
        BY <4>1
    <3>10. 0 + Len(todo') <= policy.n /\ \A j \in Called : ~ u(j) < 0
      <4>1. 0 + Len(todo') <= policy.n
        BY <3>1, <3>4, <3>5
      <4>2. ASSUME NEW j \in Called PROVE ~ u(j) < 0
        <5>1. t(j) \in 0..policy.n - 1 /\ t(i) \in 0..policy.n - 1
          BY <3>4, <3>6
        <5>2. u(j) = IF t(j) > t(i) THEN t(j) - t(i) - 1 ELSE t(j) - t(i) - 1 + policy.n
          BY <3>6
        <5> QED
          BY <3>5, <5>1, <5>2
      <4> QED
        BY <4>1, <4>2
    <3>11. \A j : Steps(policy'.n, cursor', j) = u(j)
      BY <3>1 DEF u
    <3>12. Behind(0)'
      BY <3>1, <3>9, <3>10, <3>11 DEF Behind, Called
    <3>13. \E c \in 0..policy'.n : Behind(c)'
      BY <3>1, <3>5, <3>12
    <3>14. \A j \in Prompts : Native(j)' => \A q \in passed'[j] :
             q \in Called' /\ Steps(policy'.n, cursor', j) < Steps(policy'.n, cursor', q)
      BY <3>1, <3>8, <3>11 DEF Called
    <3> QED
      BY <3>13, <3>14 DEF Overtaking
  <2>9. ASSUME Dispatched PROVE Overtaking'
    <3>1. /\ UNCHANGED <<policy, cursor, passed>>
          /\ \A q \in Prompts : ready'[q] \in Deadlines <=> ready[q] \in Deadlines
          /\ (pc' # "dispatch" \/ (pc' = pc /\ todo' = todo))
      BY <2>9 DEF Dispatched
    <3> QED
      BY <3>1, NotOvertaken
  <2>10. ASSUME Decode PROVE Overtaking'
    <3>1. UNCHANGED <<policy, cursor, passed>> /\ pc' # "dispatch"
      BY <2>10 DEF Decode, Raise
    <3>2. \E size \in 1..Cardinality(Decoding) : \E group \in [1..size -> Decoding] :
            ready' = [q \in Prompts |-> IF \E k \in 1..size : group[k] = q THEN None ELSE ready[q]]
      BY <2>10 DEF Decode
    <3>3. \A q \in Prompts : ready'[q] = ready[q] \/ (ready'[q] = None /\ ready[q] = Generation)
      BY <2>0, <3>2 DEF Decoding
    <3>4. \A q \in Prompts : Native(q)' <=> Native(q)
      BY <2>0, <3>3 DEF Native
    <3> QED
      BY <3>1, <3>4 DEF Overtaking, Called
  <2>11. ASSUME Value PROVE Overtaking'
    <3> DEFINE then == IF Len(todo) = 1 THEN "top" ELSE "values"
    <3>1. /\ then \in Points /\ Advance(Head(todo), ready, records, then) /\ Head(todo) \in Prompts
          /\ pc = "values" /\ todo # << >> /\ UNCHANGED <<policy, cursor>>
      BY <2>11, Heads DEF Value, Typed, Points
    <3>2. ready[Head(todo)] = None
      <4>1. Head(todo) = todo[1] /\ 1 \in 1..Len(todo)
        BY <3>1, HeadTailProperties, EmptySeq DEF Typed
      <4> QED
        BY <3>1, <4>1 DEF Places
    <3>3. \A q \in Prompts : Native(q)' => passed'[q] = {} \/ (Native(q) /\ passed'[q] = passed[q])
      BY <2>0, <3>1, <3>2, FreshRequest
    <3>4. pc' # "dispatch"
      BY <2>0, <3>1, Moves
    <3> QED
      BY <3>1, <3>3, <3>4 DEF Overtaking, Called
  <2>12. ASSUME Idle PROVE Overtaking'
    <3>1. /\ UNCHANGED <<policy, cursor, passed>>
          /\ \A q \in Prompts : ready'[q] \in Deadlines <=> ready[q] \in Deadlines
          /\ (pc' # "dispatch" \/ (pc' = pc /\ todo' = todo))
      BY <2>12 DEF Idle, Raise
    <3> QED
      BY <3>1, NotOvertaken
  <2>13. ASSUME Finally PROVE Overtaking'
    <3>1. /\ UNCHANGED <<policy, cursor, passed>>
          /\ \A q \in Prompts : ready'[q] \in Deadlines <=> ready[q] \in Deadlines
          /\ (pc' # "dispatch" \/ (pc' = pc /\ todo' = todo))
      BY <2>13 DEF Finally
    <3> QED
      BY <3>1, NotOvertaken
  <2>14. ASSUME Join PROVE Overtaking'
    <3>1. /\ UNCHANGED <<policy, cursor, passed>>
          /\ \A q \in Prompts : ready'[q] \in Deadlines <=> ready[q] \in Deadlines
          /\ (pc' # "dispatch" \/ (pc' = pc /\ todo' = todo))
      BY <2>14 DEF Join
    <3> QED
      BY <3>1, NotOvertaken
  <2>15. ASSUME CallerCancels PROVE Overtaking'
    <3>1. /\ UNCHANGED <<policy, cursor, passed>>
          /\ \A q \in Prompts : ready'[q] \in Deadlines <=> ready[q] \in Deadlines
          /\ (pc' # "dispatch" \/ (pc' = pc /\ todo' = todo))
      BY <2>15 DEF CallerCancels
    <3> QED
      BY <3>1, NotOvertaken
  <2>16. ASSUME NEW i \in Prompts, Finish(i) PROVE Overtaking'
    <3>1. /\ UNCHANGED <<policy, cursor, passed>>
          /\ \A q \in Prompts : ready'[q] \in Deadlines <=> ready[q] \in Deadlines
          /\ (pc' # "dispatch" \/ (pc' = pc /\ todo' = todo))
      BY <2>16 DEF Finish
    <3> QED
      BY <3>1, NotOvertaken
  <2>17. ASSUME Tick PROVE Overtaking'
    <3>1. /\ UNCHANGED <<policy, cursor, passed>>
          /\ \A q \in Prompts : ready'[q] \in Deadlines <=> ready[q] \in Deadlines
          /\ (pc' # "dispatch" \/ (pc' = pc /\ todo' = todo))
      BY <2>17 DEF Tick
    <3> QED
      BY <3>1, NotOvertaken
  <2>18. ASSUME UNCHANGED vars PROVE Overtaking'
    <3>1. /\ UNCHANGED <<policy, cursor, passed>>
          /\ \A q \in Prompts : ready'[q] \in Deadlines <=> ready[q] \in Deadlines
          /\ (pc' # "dispatch" \/ (pc' = pc /\ todo' = todo))
      BY <2>18 DEF vars
    <3> QED
      BY <3>1, NotOvertaken
  <2> QED
    BY <2>1, <2>2, <2>3, <2>4, <2>5, <2>6, <2>7, <2>8, <2>9, <2>10, <2>11, <2>12, <2>13,
       <2>14, <2>15, <2>16, <2>17, <2>18 DEF Next, Owner
<1> QED
  BY <1>1, <1>2, TypeInvariance, PlaceInvariance, PTL DEF Spec

\* While a native request waits, no other prompt is served twice.
THEOREM RoundRobinHolds == Spec => RoundRobin
<1>1. Typed /\ Places /\ Overtaking /\ [Next]_vars =>
        [\A i, q \in Prompts : Native(i) /\ q \in passed[i] => q \in Active \/ q \notin Active']_vars
  <2> SUFFICES ASSUME Typed, Places, Overtaking, [Next]_vars, NEW i \in Prompts, NEW q \in Prompts,
                      Native(i), q \in passed[i], q \notin Active, q \in Active'
               PROVE  FALSE
    OBVIOUS
  <2> USE DEF threads, place, jobs, others
  <2>0. active \in [Prompts -> Deadlines \cup {None}]
    BY DEF Typed
  <2>1. ASSUME Admit PROVE FALSE
    BY <2>1 DEF Admit, Active
  <2>2. ASSUME Admitted PROVE FALSE
    BY <2>2 DEF Admitted, Active
  <2>3. ASSUME Return PROVE FALSE
    BY <2>3 DEF Return, Active
  <2>4. ASSUME Observe PROVE FALSE
    <3>1. active' = [active EXCEPT ![Head(completed).prompt] = None]
      BY <2>4 DEF Observe
    <3> QED
      BY <2>0, <3>1 DEF Active
  <2>5. ASSUME Observed PROVE FALSE
    BY <2>5 DEF Observed, Active
  <2>6. ASSUME Expire PROVE FALSE
    BY <2>6 DEF Expire, Active
  <2>7. ASSUME DropQueued PROVE FALSE
    BY <2>7 DEF DropQueued, Active
  <2>8. ASSUME Dispatch PROVE FALSE
    <3>1. /\ pc = "dispatch" /\ Eligible # {}
          /\ active' = [active EXCEPT ![todo[First]] = ready[todo[First]]]
      BY <2>8 DEF Dispatch
    <3>2. q = todo[First]
      BY <2>0, <3>1 DEF Active
    <3>3. PICK a \in 0..policy.n : Behind(a)
      BY <3>1 DEF Overtaking
    <3>4. Steps(policy.n, cursor, i) < Steps(policy.n, cursor, q) /\ passed[i] # {}
      BY DEF Overtaking
    <3>5. i \in Called
      <4>1. policy.n \in 1..N /\ next \in 1..policy.n + 1 /\ Prompts \subseteq Int /\ None \notin Deadlines
        BY Parameters DEF Typed, Prompts
      <4>2. ~ i >= next
        BY <4>1 DEF Places, Native
      <4> QED
        BY <4>1, <4>2 DEF Called, Prompts
    <3> QED
      BY <3>1, <3>2, <3>3, <3>4, <3>5, Passing
  <2>9. ASSUME Dispatched PROVE FALSE
    BY <2>9 DEF Dispatched, Active
  <2>10. ASSUME Decode PROVE FALSE
    BY <2>10 DEF Decode, Active
  <2>11. ASSUME Value PROVE FALSE
    BY <2>11 DEF Value, Active
  <2>12. ASSUME Idle PROVE FALSE
    BY <2>12 DEF Idle, Active
  <2>13. ASSUME Finally PROVE FALSE
    BY <2>13 DEF Finally, Active
  <2>14. ASSUME Join PROVE FALSE
    BY <2>14 DEF Join, Active
  <2>15. ASSUME CallerCancels PROVE FALSE
    BY <2>15 DEF CallerCancels, Active
  <2>16. ASSUME NEW p \in Prompts, Finish(p) PROVE FALSE
    BY <2>16 DEF Finish, Active
  <2>17. ASSUME Tick PROVE FALSE
    BY <2>17 DEF Tick, Active
  <2>18. ASSUME UNCHANGED vars PROVE FALSE
    BY <2>18 DEF vars, Active
  <2> QED
    BY <2>1, <2>2, <2>3, <2>4, <2>5, <2>6, <2>7, <2>8, <2>9, <2>10, <2>11, <2>12, <2>13,
       <2>14, <2>15, <2>16, <2>17, <2>18 DEF Next, Owner
<1> QED
  BY <1>1, TypeInvariance, PlaceInvariance, OvertakingInvariance, PTL DEF Spec, RoundRobin
=============================================================================
