------------------------- MODULE SerialWorkerProofs -------------------------
(* Proofs about SerialWorker for every set of callers and every bound.     *)
EXTENDS SerialWorker, TLAPS

Labels == {"idle", "wait", "final", "done"} \cup Busy

\* Leaving the call keeps the types of what it assigns.
LEMMA LeaveTypes ==
  ASSUME TypeOK, NEW c \in Callers, NEW r \in Outcomes, Leave(c, r)
  PROVE  /\ pc' \in [Threads -> Labels] /\ result' \in [Callers -> Outcomes]
         /\ deadline' \in [Callers -> Times] /\ ahead' \in [Callers -> SUBSET Callers]
         /\ queued' \in [Callers -> BOOLEAN] /\ dispatched' \in [Callers -> BOOLEAN]
         /\ rows' \in [Callers -> SUBSET Callers]
<1>1. pc' \in [Threads -> Labels]
  BY DEF TypeOK, Leave, Goto, Labels
<1>2. result' \in [Callers -> Outcomes]
  BY DEF TypeOK, Leave
<1>3. deadline' \in [Callers -> Times]
  BY ConstantsOK DEF TypeOK, Leave, Times
<1>4. ahead' \in [Callers -> SUBSET Callers]
  BY DEF TypeOK, Leave
<1>5. queued' \in [Callers -> BOOLEAN] /\ dispatched' \in [Callers -> BOOLEAN]
  BY DEF TypeOK, Leave
<1>6. rows' \in [Callers -> SUBSET Callers]
  BY DEF TypeOK, Leave
<1> QED
  BY <1>1, <1>2, <1>3, <1>4, <1>5, <1>6

(***************************************************************************)
(* Type correctness is inductive by itself.                                *)
(***************************************************************************)
\* Every variable of the serial worker keeps its type.
THEOREM TypeCorrect == Spec => []TypeOK
<1>1. Init => TypeOK
  <2> USE ConstantsOK DEF Init, Times, Never, Threads
  <2>1. Init => now \in Times /\ cleanup \in 0..Never /\ lock \in Threads \cup {Nobody}
    OBVIOUS
  <2>2. Init => pc \in [Threads -> {"idle", "wait", "final", "done"} \cup Busy]
    OBVIOUS
  <2>3. Init => deadline \in [Callers -> Times] /\ ahead \in [Callers -> SUBSET Callers]
    OBVIOUS
  <2>4. Init => proc \in ProcessStatus /\ out \in Seq(Message)
    BY DEF ProcessStatus
  <2>5. Init => result \in [Callers -> Outcomes] /\ rows \in [Callers -> SUBSET Callers]
    BY DEF Outcomes
  <2> QED
    BY <2>1, <2>2, <2>3, <2>4, <2>5 DEF TypeOK
<1>2. TypeOK /\ [Next]_vars => TypeOK'
  <2> SUFFICES ASSUME TypeOK, [Next]_vars PROVE TypeOK'
    OBVIOUS
  <2> USE ConstantsOK DEF ConstantsOK, TypeOK, Times, Never, Threads, Busy, ProcessStatus, Outcomes,
      ledger, process, locals, Goto, Leave
  <2>1. ASSUME NEW c \in Callers, Call(c) PROVE TypeOK'
    BY <2>1 DEF Call
  <2>2. ASSUME NEW c \in Callers, StopWaiting(c) PROVE TypeOK'
    BY <2>2 DEF StopWaiting
  <2>3. ASSUME NEW c \in Callers, Rejected(c) PROVE TypeOK'
    BY <2>3 DEF Rejected, Iterate
  <2>4. ASSUME NEW c \in Callers, Backpressure(c) PROVE TypeOK'
    BY <2>4 DEF Backpressure, Enqueues, Iterate, Unexpired
  <2>5. ASSUME NEW c \in Callers, Enqueue(c) PROVE TypeOK'
    BY <2>5 DEF Enqueue, Enqueues, Iterate, Unexpired, Behind
  <2>6. ASSUME NEW c \in Callers, EnqueueDispatch(c) PROVE TypeOK'
    BY <2>6 DEF EnqueueDispatch, Enqueues, Iterate
  <2>7. ASSUME NEW c \in Callers, Dispatch(c) PROVE TypeOK'
    BY <2>7 DEF Dispatch, Dispatches, Iterate, Unexpired
  <2>8. ASSUME NEW c \in Callers, DispatchOther(c) PROVE TypeOK'
    BY <2>8 DEF DispatchOther, Dispatches, Iterate, Unexpired, Foremost
  <2>9. ASSUME NEW c \in Callers, Start(c) PROVE TypeOK'
    <3>1. proc' \in ProcessStatus /\ fed' \subseteq Callers /\ out' \in Seq(Message)
      <4>1. CASE Alive(proc)
        BY <2>9, <4>1 DEF Start
      <4>2. CASE ~Alive(proc)
        BY <2>9, <4>2 DEF Start
      <4> QED
        BY <4>1, <4>2
    <3>2. cleanup' \in 0..Never
      BY <2>9 DEF Start
    <3> QED
      BY <2>9, <3>1, <3>2 DEF Start
  <2>10. ASSUME NEW c \in Callers, StartFails(c) PROVE TypeOK'
    BY <2>10 DEF StartFails
  <2>11. ASSUME NEW c \in Callers, Feed(c) PROVE TypeOK'
    BY <2>11 DEF Feed
  <2>12. ASSUME NEW c \in Callers, Read(c) PROVE TypeOK'
    <3>1. out' \in Seq(Message) /\ out[1] \in Message
      BY <2>12 DEF Read
    <3>2. rows' \in [Callers -> SUBSET Callers]
      BY <2>12, <3>1 DEF Read, Message
    <3>3. /\ pc' \in [Threads -> {"idle", "wait", "final", "done"} \cup Busy]
          /\ result' \in [Callers -> Outcomes]
      BY <2>12 DEF Read
    <3> QED
      BY <2>12, <3>1, <3>2, <3>3 DEF Read
  <2>13. ASSUME NEW c \in Callers, ReadBad(c) PROVE TypeOK'
    BY <2>13 DEF ReadBad
  <2>14. ASSUME NEW c \in Callers, Abandon(c) PROVE TypeOK'
    BY <2>14 DEF Abandon
  <2>15. ASSUME NEW c \in Callers, Broken(c) PROVE TypeOK'
    BY <2>15 DEF Broken
  <2>16. ASSUME NEW t \in Threads, RetireNothing(t) PROVE TypeOK'
    BY <2>16 DEF RetireNothing
  <2>17. ASSUME NEW t \in Threads, Retire(t) PROVE TypeOK'
    BY <2>17 DEF Retire, CleanupBy, SoonerOf
  <2>18. ASSUME NEW t \in Threads, Reap(t) PROVE TypeOK'
    BY <2>18 DEF Reap
  <2>19. ASSUME NEW t \in Threads, ReapTimeout(t) PROVE TypeOK'
    <3>1. CASE t = Closer
      BY <2>19, <3>1 DEF ReapTimeout
    <3>2. CASE t # Closer
      <4>1. t \in Callers /\ Leave(t, "non_quiescent") /\ "non_quiescent" \in Outcomes
        BY <2>19, <3>2 DEF ReapTimeout
      <4> HIDE DEF Leave, Outcomes, Times
      <4> QED
        BY <2>19, <3>2, <4>1, LeaveTypes DEF ReapTimeout, Labels
    <3> QED
      BY <3>1, <3>2
  <2>20. ASSUME NEW c \in Callers, Finish(c) PROVE TypeOK'
    <3>1. Leave(c, result[c]) /\ result[c] \in Outcomes
      BY <2>20 DEF Finish
    <3> HIDE DEF Leave, Outcomes, Times
    <3> QED
      BY <2>20, <3>1, LeaveTypes DEF Finish, Labels
  <2>21. ASSUME NEW c \in Callers, Withdraw(c) PROVE TypeOK'
    <3>1. Leave(c, "raised") \/ Leave(c, result[c])
      BY <2>21 DEF Withdraw
    <3>2. "raised" \in Outcomes /\ result[c] \in Outcomes
      OBVIOUS
    <3>3. pending' \subseteq Callers /\ cancelled' \subseteq Callers
      BY <2>21 DEF Withdraw
    <3> HIDE DEF Leave, Outcomes, Times
    <3> QED
      BY <2>21, <3>1, <3>2, <3>3, LeaveTypes DEF Withdraw, Labels
  <2>22. ASSUME Close PROVE TypeOK'
    BY <2>22 DEF Close
  <2>23. ASSUME NEW c \in Callers, Cancel(c) PROVE TypeOK'
    BY <2>23 DEF Cancel
  <2>24. ASSUME CancelAll PROVE TypeOK'
    BY <2>24 DEF CancelAll, CleanupBy, SoonerOf
  <2>25. ASSUME Tick PROVE TypeOK'
    BY <2>25 DEF Tick
  <2>26. ASSUME Respond PROVE TypeOK'
    BY <2>26 DEF Respond, Message
  <2>27. ASSUME Exit PROVE TypeOK'
    BY <2>27 DEF Exit
  <2>28. ASSUME UNCHANGED vars PROVE TypeOK'
    BY <2>28 DEF vars
  <2> QED
    BY <2>1, <2>2, <2>3, <2>4, <2>5, <2>6, <2>7, <2>8, <2>9, <2>10, <2>11, <2>12,
       <2>13, <2>14, <2>15, <2>16, <2>17, <2>18, <2>19, <2>20, <2>21, <2>22, <2>23,
       <2>24, <2>25, <2>26, <2>27, <2>28 DEF Next, CallerStep, RetireStep
<1> QED
  BY <1>1, <1>2, PTL DEF Spec

(***************************************************************************)
(* The invariant behind the safety properties.  OneBatch is not inductive: *)
(* it needs to know who is in the queue and what the process was fed.      *)
(***************************************************************************)
\* A dispatched request is charged alone and has left the queue.
Charged == \A c \in Callers : dispatched[c] =>
  active = {c} /\ pc[c] \in Busy \cup {"final"} /\ c \notin pending

\* Only dispatched requests are at work.
Working == \A c \in Callers : pc[c] \in Busy => dispatched[c]

\* A pending request has its caller waiting or leaving, and is not charged.
Waiting == \A c \in pending : pc[c] \in {"wait", "final"} /\ ~dispatched[c] /\ c \notin active

\* Of two pending requests, one was admitted behind the other.
Ordered == \A c, d \in pending : c # d => c \in ahead[d] \/ d \in ahead[c]

\* The process was fed dispatched requests only.
FedDispatched ==
  \A c \in fed : pc[c] = "done" \/ (dispatched[c] /\ pc[c] \notin {"idle", "wait"})

\* A caller in its final block has its answer, or its process is gone.
FinalAnswered ==
  \A c \in fed : pc[c] = "final" /\ dispatched[c] => result[c] = "ok"

NoneFedNothing == proc = "none" => fed = {}

Inv == /\ Charged /\ Working /\ Waiting /\ Ordered
       /\ FedDispatched /\ FinalAnswered /\ NoneFedNothing
       /\ ChargedWhileRunning /\ OwnRows

\* The invariant holds in every reachable state.
THEOREM Invariance == Spec => []Inv
<1>1. Init => Inv
  BY DEF Init, Inv, Charged, Working, Waiting, Ordered, FedDispatched, FinalAnswered,
         NoneFedNothing, ChargedWhileRunning, OwnRows, Unanswered, Alive, Busy, Threads
<1>2. TypeOK /\ Inv /\ [Next]_vars => Inv'
  <2> SUFFICES ASSUME TypeOK, Inv, [Next]_vars PROVE Inv'
    OBVIOUS
  <2> USE ConstantsOK DEF TypeOK, Threads, Busy, ledger, process, locals, Goto, Inv,
      Charged, Working, Waiting, Ordered, FedDispatched, FinalAnswered, NoneFedNothing,
      ChargedWhileRunning, OwnRows, Unanswered, Alive
  <2>1. ASSUME NEW c \in Callers, Call(c) PROVE Inv'
    BY <2>1 DEF Call
  <2>2. ASSUME NEW c \in Callers, StopWaiting(c) PROVE Inv'
    BY <2>2 DEF StopWaiting
  <2>3. ASSUME NEW c \in Callers, Rejected(c) PROVE Inv'
    BY <2>3 DEF Rejected, Iterate
  <2>4. ASSUME NEW c \in Callers, Backpressure(c) PROVE Inv'
    BY <2>4 DEF Backpressure, Enqueues, Iterate, Unexpired
  <2>5. ASSUME NEW c \in Callers, Enqueue(c) PROVE Inv'
    BY <2>5 DEF Enqueue, Enqueues, Iterate, Unexpired, Behind
  <2>6. ASSUME NEW c \in Callers, EnqueueDispatch(c) PROVE Inv'
    BY <2>6 DEF EnqueueDispatch, Enqueues, Iterate, Idle
  <2>7. ASSUME NEW c \in Callers, Dispatch(c) PROVE Inv'
    BY <2>7 DEF Dispatch, Dispatches, Iterate, Unexpired, Idle
  <2>8. ASSUME NEW c \in Callers, DispatchOther(c) PROVE Inv'
    <3>1. Charged' /\ Working' /\ Waiting'
      BY <2>8 DEF DispatchOther, Dispatches, Iterate, Unexpired, Foremost, Idle
    <3>2. Ordered'
      BY <2>8 DEF DispatchOther, Dispatches, Iterate, Unexpired, Foremost, Idle
    <3>3. FedDispatched' /\ FinalAnswered' /\ NoneFedNothing'
      BY <2>8 DEF DispatchOther, Dispatches, Iterate, Unexpired, Foremost, Idle
    <3>4. ChargedWhileRunning'
      BY <2>8 DEF DispatchOther, Dispatches, Iterate, Unexpired, Foremost, Idle
    <3>5. OwnRows'
      BY <2>8 DEF DispatchOther, Dispatches, Iterate, Unexpired, Foremost, Idle
    <3> QED
      BY <3>1, <3>2, <3>3, <3>4, <3>5
  <2>9. ASSUME NEW c \in Callers, Start(c) PROVE Inv'
    <3>1. Charged' /\ Working' /\ Waiting'
      BY <2>9 DEF Start
    <3>2. Ordered'
      BY <2>9 DEF Start
    <3>3. FedDispatched' /\ FinalAnswered' /\ NoneFedNothing'
      BY <2>9 DEF Start
    <3>4. ChargedWhileRunning'
      BY <2>9 DEF Start
    <3>5. OwnRows'
      BY <2>9 DEF Start
    <3> QED
      BY <3>1, <3>2, <3>3, <3>4, <3>5
  <2>10. ASSUME NEW c \in Callers, StartFails(c) PROVE Inv'
    BY <2>10 DEF StartFails
  <2>11. ASSUME NEW c \in Callers, Feed(c) PROVE Inv'
    BY <2>11 DEF Feed
  <2>12. ASSUME NEW c \in Callers, Read(c) PROVE Inv'
    <3>1. /\ pc[c] = "io"
          /\ UNCHANGED <<pending, ahead, active, dispatched, proc, fed>>
          /\ \/ UNCHANGED <<pc, result>>
             \/ pc' = [pc EXCEPT ![c] = "final"] /\ result' = [result EXCEPT ![c] = "ok"]
      BY <2>12 DEF Read
    <3>2. Charged' /\ Working'
      BY <3>1
    <3>3. Waiting' /\ Ordered'
      BY <3>1
    <3>4. FedDispatched' /\ NoneFedNothing'
      BY <3>1
    <3>5. FinalAnswered' /\ ChargedWhileRunning'
      BY <3>1
    <3>6. OwnRows'
      BY <2>12 DEF Read, Answers
    <3> QED
      BY <3>2, <3>3, <3>4, <3>5, <3>6
  <2>13. ASSUME NEW c \in Callers, ReadBad(c) PROVE Inv'
    BY <2>13 DEF ReadBad
  <2>14. ASSUME NEW c \in Callers, Abandon(c) PROVE Inv'
    BY <2>14 DEF Abandon
  <2>15. ASSUME NEW c \in Callers, Broken(c) PROVE Inv'
    BY <2>15 DEF Broken
  <2>16. ASSUME NEW t \in Threads, RetireNothing(t) PROVE Inv'
    BY <2>16 DEF RetireNothing, NothingToRetire
  <2>17. ASSUME NEW t \in Threads, Retire(t) PROVE Inv'
    BY <2>17 DEF Retire
  <2>18. ASSUME NEW t \in Threads, Reap(t) PROVE Inv'
    BY <2>18 DEF Reap
  <2>19. ASSUME NEW t \in Threads, ReapTimeout(t) PROVE Inv'
    <3>1. Charged' /\ Working' /\ Waiting'
      BY <2>19 DEF ReapTimeout, Leave
    <3>2. Ordered'
      BY <2>19 DEF ReapTimeout, Leave
    <3>3. FedDispatched' /\ FinalAnswered' /\ NoneFedNothing'
      BY <2>19 DEF ReapTimeout, Leave
    <3>4. ChargedWhileRunning'
      BY <2>19 DEF ReapTimeout, Leave
    <3>5. OwnRows'
      BY <2>19 DEF ReapTimeout, Leave
    <3> QED
      BY <3>1, <3>2, <3>3, <3>4, <3>5
  <2>20. ASSUME NEW c \in Callers, Finish(c) PROVE Inv'
    <3>1. Charged' /\ Working' /\ Waiting'
      BY <2>20 DEF Finish, Leave
    <3>2. Ordered'
      BY <2>20 DEF Finish, Leave
    <3>3. FedDispatched' /\ FinalAnswered' /\ NoneFedNothing'
      BY <2>20 DEF Finish, Leave
    <3>4. ChargedWhileRunning'
      BY <2>20 DEF Finish, Leave
    <3>5. OwnRows'
      BY <2>20 DEF Finish, Leave
    <3> QED
      BY <3>1, <3>2, <3>3, <3>4, <3>5
  <2>21. ASSUME NEW c \in Callers, Withdraw(c) PROVE Inv'
    <3>1. Charged' /\ Working' /\ Waiting'
      BY <2>21 DEF Withdraw, Leave
    <3>2. Ordered'
      BY <2>21 DEF Withdraw, Leave
    <3>3. FedDispatched' /\ FinalAnswered' /\ NoneFedNothing'
      BY <2>21 DEF Withdraw, Leave
    <3>4. ChargedWhileRunning'
      BY <2>21 DEF Withdraw, Leave
    <3>5. OwnRows'
      BY <2>21 DEF Withdraw, Leave
    <3> QED
      BY <3>1, <3>2, <3>3, <3>4, <3>5
  <2>22. ASSUME Close PROVE Inv'
    BY <2>22 DEF Close
  <2>23. ASSUME NEW c \in Callers, Cancel(c) PROVE Inv'
    BY <2>23 DEF Cancel
  <2>24. ASSUME CancelAll PROVE Inv'
    BY <2>24 DEF CancelAll
  <2>25. ASSUME Tick PROVE Inv'
    BY <2>25 DEF Tick
  <2>26. ASSUME Respond PROVE Inv'
    BY <2>26 DEF Respond
  <2>27. ASSUME Exit PROVE Inv'
    BY <2>27 DEF Exit
  <2>28. ASSUME UNCHANGED vars PROVE Inv'
    BY <2>28 DEF vars
  <2> QED
    BY <2>1, <2>2, <2>3, <2>4, <2>5, <2>6, <2>7, <2>8, <2>9, <2>10, <2>11, <2>12, <2>13, <2>14, <2>15, <2>16, <2>17, <2>18, <2>19, <2>20, <2>21, <2>22, <2>23, <2>24, <2>25, <2>26, <2>27, <2>28 DEF Next, CallerStep, RetireStep
<1> QED
  BY <1>1, <1>2, TypeCorrect, PTL DEF Spec

\* One batch at a time, and it is the charged one.
THEOREM OneBatchHolds == Spec => []OneBatch
<1>1. Inv => OneBatch
  BY DEF Inv, Charged, Working, OneBatch
<1> QED
  BY <1>1, Invariance, PTL

\* A process that may still be working keeps its request charged.
THEOREM ChargedHolds == Spec => []ChargedWhileRunning
<1>1. Inv => ChargedWhileRunning
  BY DEF Inv
<1> QED
  BY <1>1, Invariance, PTL

\* Callers keep only rows of their own request.
THEOREM OwnRowsHolds == Spec => []OwnRows
<1>1. Inv => OwnRows
  BY DEF Inv
<1> QED
  BY <1>1, Invariance, PTL

\* The handle of a live process is never dropped or reused.
THEOREM NoLiveProcessDroppedHolds == Spec => NoLiveProcessDropped
<1>1. [Next]_vars => [Alive(proc) => Alive(proc') \/ proc' = "exited"]_vars
  BY DEF Next, CallerStep, RetireStep, Call, StopWaiting, Rejected, Backpressure, Enqueue,
         EnqueueDispatch, Dispatch, DispatchOther, Start, StartFails, Feed, Read, ReadBad,
         Abandon, Broken, RetireNothing, Retire, Reap, ReapTimeout, ExitAcknowledged,
         Finish, Withdraw, Close, Cancel, CancelAll, Tick, Respond, Exit, Alive, process, vars
<1> QED
  BY <1>1, PTL DEF Spec, NoLiveProcessDropped

\* Only the three dispatching steps charge a request.
LEMMA WhoCharges ==
  ASSUME [Next]_vars, active' \ active # {}
  PROVE  \E c \in Callers : EnqueueDispatch(c) \/ Dispatch(c) \/ DispatchOther(c)
<1> USE DEF ledger
<1>1. ASSUME NEW c \in Callers,
             Call(c) \/ StopWaiting(c) \/ Rejected(c) \/ Backpressure(c) \/ Enqueue(c)
             \/ Start(c) \/ StartFails(c) \/ Feed(c) \/ Read(c) \/ ReadBad(c)
             \/ Abandon(c) \/ Broken(c) \/ Finish(c) \/ Withdraw(c) \/ Cancel(c)
      PROVE  active' \subseteq active
  BY <1>1 DEF Call, StopWaiting, Rejected, Backpressure, Enqueue, Start, StartFails, Feed,
     Read, ReadBad, Abandon, Broken, Finish, Withdraw, Cancel
<1>2. ASSUME NEW t \in Threads, RetireStep(t) PROVE active' \subseteq active
  BY <1>2 DEF RetireStep, RetireNothing, Retire, Reap, ReapTimeout
<1>3. ASSUME Close \/ CancelAll \/ Tick \/ Respond \/ Exit \/ UNCHANGED vars
      PROVE  active' \subseteq active
  BY <1>3 DEF Close, CancelAll, Tick, Respond, Exit, vars
<1> QED
  BY <1>1, <1>2, <1>3 DEF Next, CallerStep

\* Whoever is charged was pending longer than all that stay pending.
THEOREM FirstComeFirstServedHolds == Spec => FirstComeFirstServed
<1> DEFINE Step == \A c \in active' \ active :
       \A d \in pending \cap pending' : c \in pending /\ c \in ahead[d]
<1>1. TypeOK /\ Inv /\ [Next]_vars => [Step]_vars
  <2> SUFFICES ASSUME TypeOK, Inv, [Next]_vars, NEW k \in active' \ active,
                      NEW d \in pending \cap pending'
               PROVE  k \in pending /\ k \in ahead[d]
    OBVIOUS
  <2> USE DEF TypeOK, Inv, Ordered
  <2>1. PICK c \in Callers : EnqueueDispatch(c) \/ Dispatch(c) \/ DispatchOther(c)
    BY WhoCharges
  <2>2. CASE EnqueueDispatch(c)
    BY <2>2 DEF EnqueueDispatch
  <2>3. CASE Dispatch(c)
    BY <2>3 DEF Dispatch, Dispatches, Foremost, Unexpired
  <2>4. CASE DispatchOther(c)
    BY <2>4 DEF DispatchOther, Dispatches, Foremost, Unexpired
  <2> QED
    BY <2>1, <2>2, <2>3, <2>4
<1> QED
  BY <1>1, TypeCorrect, Invariance, PTL DEF Spec, FirstComeFirstServed

\* Nothing is charged at or after its deadline.
THEOREM NoLateDispatchHolds == Spec => NoLateDispatch
<1> DEFINE Step == \A c \in active' \ active : now' < deadline[c]
<1>1. TypeOK /\ [Next]_vars => [Step]_vars
  <2> SUFFICES ASSUME TypeOK, [Next]_vars, NEW k \in active' \ active
               PROVE  now' < deadline[k]
    OBVIOUS
  <2>1. PICK c \in Callers : EnqueueDispatch(c) \/ Dispatch(c) \/ DispatchOther(c)
    BY WhoCharges
  <2> QED
    BY <2>1 DEF EnqueueDispatch, Dispatch, DispatchOther, Enqueues, Dispatches, Iterate,
       Unexpired, Foremost
<1> QED
  BY <1>1, TypeCorrect, PTL DEF Spec, NoLateDispatch

\* What the runs check of every state: one batch, its charge and its own rows.
THEOREM SafeHolds == Spec => []Safe
BY TypeCorrect, OneBatchHolds, ChargedHolds, OwnRowsHolds, PTL DEF Safe
=============================================================================
