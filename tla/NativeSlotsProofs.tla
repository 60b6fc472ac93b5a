-------------------------- MODULE NativeSlotsProofs --------------------------
(* Proofs about NativeSlots for every set of callers, slots and limits.    *)
EXTENDS NativeSlots, TLAPS

\* What the proofs need to know of the constants.
LEMMA Constants ==
  /\ Home \in [Callers -> Slots] /\ Closer \notin Callers
  /\ Nobody \notin Callers /\ Nobody # Closer
  BY PoolOK DEF PoolOK

(***************************************************************************)
(* Type correctness is inductive by itself.                                *)
(***************************************************************************)
\* Every variable of the pool of native slots keeps its type.
THEOREM TypeCorrect == Spec => []TypeOK
<1>1. Init => TypeOK
  <2> USE DEF Init, Threads
  <2>1. Init => lock \in [Slots -> Threads \cup {Nobody}] /\ at \in Nat /\ generation \in Nat
    OBVIOUS
  <2>2. Init => proc \in [Slots -> ProcessStatus] /\ fed \in [Slots -> SUBSET Callers]
    BY DEF ProcessStatus
  <2>3. Init => /\ pc \in [Threads -> {"idle", "wait", "signal", "final", "done"} \cup Inside]
                /\ ahead \in [Callers -> SUBSET Callers]
    OBVIOUS
  <2>4. Init => /\ queued \in [Callers -> BOOLEAN] /\ dispatched \in [Callers -> BOOLEAN]
                /\ complete \in [Callers -> BOOLEAN] /\ slotClosed \in [Slots -> BOOLEAN]
    OBVIOUS
  <2> QED
    BY <2>1, <2>2, <2>3, <2>4 DEF TypeOK
<1>2. TypeOK /\ [Next]_vars => TypeOK'
  <2> SUFFICES ASSUME TypeOK, [Next]_vars PROVE TypeOK'
    OBVIOUS
  <2> USE Constants DEF TypeOK, Threads, ProcessStatus, Inside, ledger, process, locals, Goto, Leave
  <2>1. ASSUME NEW c \in Callers, Call(c) PROVE TypeOK'
    BY <2>1 DEF Call
  <2>2. ASSUME NEW c \in Callers, StopWaiting(c) PROVE TypeOK'
    BY <2>2 DEF StopWaiting
  <2>3. ASSUME NEW c \in Callers, Enqueue(c) PROVE TypeOK'
    BY <2>3 DEF Enqueue, Before
  <2>4. ASSUME NEW c \in Callers, Dispatch(c) PROVE TypeOK'
    BY <2>4 DEF Dispatch
  <2>5. ASSUME NEW c \in Callers, Enter(c) PROVE TypeOK'
    BY <2>5 DEF Enter
  <2>6. ASSUME NEW c \in Callers, Refuse(c) PROVE TypeOK'
    BY <2>6 DEF Refuse
  <2>7. ASSUME NEW c \in Callers, Start(c) PROVE TypeOK'
    <3>1. CASE Alive(proc[Home[c]])
      BY <2>7, <3>1 DEF Start
    <3>2. CASE ~Alive(proc[Home[c]])
      BY <2>7, <3>2 DEF Start, NextGeneration
    <3> QED
      BY <3>1, <3>2
  <2>8. ASSUME NEW c \in Callers, StartFails(c) PROVE TypeOK'
    BY <2>8 DEF StartFails, NextGeneration
  <2>9. ASSUME NEW c \in Callers, Feed(c) PROVE TypeOK'
    BY <2>9 DEF Feed
  <2>10. ASSUME NEW c \in Callers, Complete(c) PROVE TypeOK'
    BY <2>10 DEF Complete
  <2>11. ASSUME NEW c \in Callers, Abandon(c) PROVE TypeOK'
    BY <2>11 DEF Abandon
  <2>12. ASSUME NEW c \in Callers, Watchdog(c) PROVE TypeOK'
    BY <2>12 DEF Watchdog, KillAll
  <2>13. ASSUME NEW c \in Callers, RetireNothing(c) PROVE TypeOK'
    BY <2>13 DEF RetireNothing
  <2>14. ASSUME NEW t \in Threads, Retire(t) PROVE TypeOK'
    BY <2>14 DEF Retire
  <2>15. ASSUME NEW c \in Callers, Reap(c) PROVE TypeOK'
    BY <2>15 DEF Reap
  <2>16. ASSUME NEW c \in Callers, ReapTimeout(c) PROVE TypeOK'
    BY <2>16 DEF ReapTimeout
  <2>17. ASSUME NEW c \in Callers, Finish(c) PROVE TypeOK'
    BY <2>17 DEF Finish
  <2>18. ASSUME NEW c \in Callers, Wedge(c) PROVE TypeOK'
    BY <2>18 DEF Wedge, KillAll
  <2>19. ASSUME NEW c \in Callers, Withdraw(c) PROVE TypeOK'
    BY <2>19 DEF Withdraw
  <2>20. ASSUME NEW c \in Callers, Cancel(c) PROVE TypeOK'
    BY <2>20 DEF Cancel
  <2>21. ASSUME NEW c \in Callers, Expire(c) PROVE TypeOK'
    BY <2>21 DEF Expire
  <2>22. ASSUME Close PROVE TypeOK'
    BY <2>22 DEF Close, SlotsClosing
  <2>23. ASSUME Signal PROVE TypeOK'
    BY <2>23 DEF Signal, KillAll
  <2>24. ASSUME CloseNothing PROVE TypeOK'
    BY <2>24 DEF CloseNothing, NextSlot
  <2>25. ASSUME CloseReap PROVE TypeOK'
    <3>1. at' \in Nat /\ pc' \in [Threads -> {"idle", "wait", "signal", "final", "done"} \cup Inside]
      BY <2>25 DEF CloseReap, NextSlot
    <3>2. /\ proc' \in [Slots -> ProcessStatus] /\ fed' \in [Slots -> SUBSET Callers]
          /\ lock' \in [Slots -> Threads \cup {Nobody}]
      BY <2>25 DEF CloseReap
    <3> QED
      BY <2>25, <3>1, <3>2 DEF CloseReap
  <2>26. ASSUME CloseTimeout PROVE TypeOK'
    BY <2>26 DEF CloseTimeout
  <2>27. ASSUME NEW s \in Slots, Exit(s) PROVE TypeOK'
    BY <2>27 DEF Exit
  <2>28. ASSUME UNCHANGED vars PROVE TypeOK'
    BY <2>28 DEF vars
  <2> QED
    BY <2>1, <2>2, <2>3, <2>4, <2>5, <2>6, <2>7, <2>8, <2>9, <2>10, <2>11, <2>12, <2>13,
       <2>14, <2>15, <2>16, <2>17, <2>18, <2>19, <2>20, <2>21, <2>22, <2>23, <2>24, <2>25,
       <2>26, <2>27, <2>28 DEF Next, CallerStep, CloserStep, Quiet
<1> QED
  BY <1>1, <1>2, PTL DEF Spec

(***************************************************************************)
(* The ledger: who is in the queue, who is charged, who is at work.        *)
(***************************************************************************)
\* A dispatched request is charged until its call leaves.
Charged == \A c \in Callers : dispatched[c] => c \in active /\ pc[c] \in Inside \cup {"final"}

\* Only dispatched requests are inside a slot.
Working == \A c \in Callers : pc[c] \in Inside => dispatched[c]

\* A request is pending from its admission to its dispatch or its caller's leave.
Waiting == \A c \in pending : queued[c] /\ ~dispatched[c] /\ pc[c] \in {"wait", "final"}
Queued == \A c \in Callers : queued[c] /\ ~dispatched[c] => c \in pending

\* A slot is charged to one request.
OneUser == \A c, d \in active : Home[c] = Home[d] => c = d

\* Of two pending requests of a slot, one was admitted behind the other.
Ordered == \A c, d \in pending :
  c # d /\ Home[c] = Home[d] => c \in ahead[d] \/ d \in ahead[c]

LedgerInv == Charged /\ Working /\ Waiting /\ Queued /\ OneUser /\ Ordered

\* The ledger agrees with where the callers are.
THEOREM LedgerInvariance == Spec => []LedgerInv
<1>1. Init => LedgerInv
  BY DEF Init, LedgerInv, Charged, Working, Waiting, Queued, OneUser, Ordered, Threads, Inside
<1>2. TypeOK /\ LedgerInv /\ [Next]_vars => LedgerInv'
  <2> SUFFICES ASSUME TypeOK, LedgerInv, [Next]_vars PROVE LedgerInv'
    OBVIOUS
  <2> USE Constants DEF TypeOK, Threads, Inside, ledger, process, locals, Goto, Leave,
      LedgerInv, Charged, Working, Waiting, Queued, OneUser, Ordered
  <2>1. ASSUME NEW c \in Callers, Call(c) PROVE LedgerInv'
    BY <2>1 DEF Call
  <2>2. ASSUME NEW c \in Callers, StopWaiting(c) PROVE LedgerInv'
    BY <2>2 DEF StopWaiting
  <2>3. ASSUME NEW c \in Callers, Enqueue(c) PROVE LedgerInv'
    BY <2>3 DEF Enqueue, Before
  <2>4. ASSUME NEW c \in Callers, Dispatch(c) PROVE LedgerInv'
    BY <2>4 DEF Dispatch, SlotFree
  <2>5. ASSUME NEW c \in Callers, Enter(c) PROVE LedgerInv'
    BY <2>5 DEF Enter
  <2>6. ASSUME NEW c \in Callers, Refuse(c) PROVE LedgerInv'
    BY <2>6 DEF Refuse
  <2>7. ASSUME NEW c \in Callers, Start(c) PROVE LedgerInv'
    BY <2>7 DEF Start
  <2>8. ASSUME NEW c \in Callers, StartFails(c) PROVE LedgerInv'
    BY <2>8 DEF StartFails
  <2>9. ASSUME NEW c \in Callers, Feed(c) PROVE LedgerInv'
    BY <2>9 DEF Feed
  <2>10. ASSUME NEW c \in Callers, Complete(c) PROVE LedgerInv'
    BY <2>10 DEF Complete
  <2>11. ASSUME NEW c \in Callers, Abandon(c) PROVE LedgerInv'
    BY <2>11 DEF Abandon
  <2>12. ASSUME NEW c \in Callers, Watchdog(c) PROVE LedgerInv'
    BY <2>12 DEF Watchdog, KillAll
  <2>13. ASSUME NEW c \in Callers, RetireNothing(c) PROVE LedgerInv'
    BY <2>13 DEF RetireNothing
  <2>14. ASSUME NEW t \in Threads, Retire(t) PROVE LedgerInv'
    BY <2>14 DEF Retire, Place
  <2>15. ASSUME NEW c \in Callers, Reap(c) PROVE LedgerInv'
    BY <2>15 DEF Reap, ExitAcknowledged
  <2>16. ASSUME NEW c \in Callers, ReapTimeout(c) PROVE LedgerInv'
    BY <2>16 DEF ReapTimeout
  <2>17. ASSUME NEW c \in Callers, Finish(c) PROVE LedgerInv'
    BY <2>17 DEF Finish, Acknowledged
  <2>18. ASSUME NEW c \in Callers, Wedge(c) PROVE LedgerInv'
    BY <2>18 DEF Wedge, KillAll, Acknowledged
  <2>19. ASSUME NEW c \in Callers, Withdraw(c) PROVE LedgerInv'
    BY <2>19 DEF Withdraw
  <2>20. ASSUME NEW c \in Callers, Cancel(c) PROVE LedgerInv'
    BY <2>20 DEF Cancel
  <2>21. ASSUME NEW c \in Callers, Expire(c) PROVE LedgerInv'
    BY <2>21 DEF Expire
  <2>22. ASSUME Close PROVE LedgerInv'
    BY <2>22 DEF Close, SlotsClosing
  <2>23. ASSUME Signal PROVE LedgerInv'
    BY <2>23 DEF Signal, KillAll
  <2>24. ASSUME CloseNothing PROVE LedgerInv'
    BY <2>24 DEF CloseNothing, NextSlot
  <2>25. ASSUME CloseReap PROVE LedgerInv'
    BY <2>25 DEF CloseReap, NextSlot, ExitAcknowledged
  <2>26. ASSUME CloseTimeout PROVE LedgerInv'
    BY <2>26 DEF CloseTimeout
  <2>27. ASSUME NEW s \in Slots, Exit(s) PROVE LedgerInv'
    BY <2>27 DEF Exit
  <2>28. ASSUME UNCHANGED vars PROVE LedgerInv'
    BY <2>28 DEF vars
  <2> QED
    BY <2>1, <2>2, <2>3, <2>4, <2>5, <2>6, <2>7, <2>8, <2>9, <2>10, <2>11, <2>12, <2>13,
       <2>14, <2>15, <2>16, <2>17, <2>18, <2>19, <2>20, <2>21, <2>22, <2>23, <2>24,
       <2>25, <2>26, <2>27, <2>28 DEF Next, CallerStep, CloserStep, Quiet
<1> QED
  BY <1>1, <1>2, TypeCorrect, PTL DEF Spec

(***************************************************************************)
(* The processes: what they were fed, and for whom.                        *)
(***************************************************************************)
\* A process is fed requests of its slot only.
FedOwn == \A s \in Slots : \A c \in fed[s] : Home[c] = s

\* A complete request left its process for good.
Completed == \A c \in Callers :
  complete[c] => pc[c] \in {"final", "done"} /\ c \notin fed[Home[c]]

ProcessInv == FedOwn /\ Completed /\ ChargedWhileRunning

\* What a live process holds is charged.
THEOREM ProcessInvariance == Spec => []ProcessInv
<1>1. Init => ProcessInv
  BY DEF Init, ProcessInv, FedOwn, Completed, ChargedWhileRunning, Threads, Alive
<1>2. TypeOK /\ LedgerInv /\ ProcessInv /\ [Next]_vars => ProcessInv'
  <2> SUFFICES ASSUME TypeOK, LedgerInv, ProcessInv, [Next]_vars PROVE ProcessInv'
    OBVIOUS
  <2> USE Constants DEF TypeOK, Threads, Inside, ledger, process, locals, Goto, Leave, Alive,
      ProcessInv, FedOwn, Completed, ChargedWhileRunning, LedgerInv, Charged, Working
  <2>1. ASSUME NEW c \in Callers, Call(c) PROVE ProcessInv'
    BY <2>1 DEF Call
  <2>2. ASSUME NEW c \in Callers, StopWaiting(c) PROVE ProcessInv'
    BY <2>2 DEF StopWaiting
  <2>3. ASSUME NEW c \in Callers, Enqueue(c) PROVE ProcessInv'
    BY <2>3 DEF Enqueue, Before
  <2>4. ASSUME NEW c \in Callers, Dispatch(c) PROVE ProcessInv'
    BY <2>4 DEF Dispatch, SlotFree
  <2>5. ASSUME NEW c \in Callers, Enter(c) PROVE ProcessInv'
    BY <2>5 DEF Enter
  <2>6. ASSUME NEW c \in Callers, Refuse(c) PROVE ProcessInv'
    BY <2>6 DEF Refuse
  <2>7. ASSUME NEW c \in Callers, Start(c) PROVE ProcessInv'
    BY <2>7 DEF Start
  <2>8. ASSUME NEW c \in Callers, StartFails(c) PROVE ProcessInv'
    BY <2>8 DEF StartFails
  <2>9. ASSUME NEW c \in Callers, Feed(c) PROVE ProcessInv'
    BY <2>9 DEF Feed
  <2>10. ASSUME NEW c \in Callers, Complete(c) PROVE ProcessInv'
    BY <2>10 DEF Complete
  <2>11. ASSUME NEW c \in Callers, Abandon(c) PROVE ProcessInv'
    BY <2>11 DEF Abandon
  <2>12. ASSUME NEW c \in Callers, Watchdog(c) PROVE ProcessInv'
    BY <2>12 DEF Watchdog, KillAll
  <2>13. ASSUME NEW c \in Callers, RetireNothing(c) PROVE ProcessInv'
    BY <2>13 DEF RetireNothing
  <2>14. ASSUME NEW t \in Threads, Retire(t) PROVE ProcessInv'
    BY <2>14 DEF Retire, Place
  <2>15. ASSUME NEW c \in Callers, Reap(c) PROVE ProcessInv'
    BY <2>15 DEF Reap, ExitAcknowledged
  <2>16. ASSUME NEW c \in Callers, ReapTimeout(c) PROVE ProcessInv'
    BY <2>16 DEF ReapTimeout
  <2>17. ASSUME NEW c \in Callers, Finish(c) PROVE ProcessInv'
    BY <2>17 DEF Finish, Acknowledged
  <2>18. ASSUME NEW c \in Callers, Wedge(c) PROVE ProcessInv'
    BY <2>18 DEF Wedge, KillAll, Acknowledged
  <2>19. ASSUME NEW c \in Callers, Withdraw(c) PROVE ProcessInv'
    BY <2>19 DEF Withdraw
  <2>20. ASSUME NEW c \in Callers, Cancel(c) PROVE ProcessInv'
    BY <2>20 DEF Cancel
  <2>21. ASSUME NEW c \in Callers, Expire(c) PROVE ProcessInv'
    BY <2>21 DEF Expire
  <2>22. ASSUME Close PROVE ProcessInv'
    BY <2>22 DEF Close, SlotsClosing
  <2>23. ASSUME Signal PROVE ProcessInv'
    BY <2>23 DEF Signal, KillAll
  <2>24. ASSUME CloseNothing PROVE ProcessInv'
    BY <2>24 DEF CloseNothing, NextSlot
  <2>25. ASSUME CloseReap PROVE ProcessInv'
    BY <2>25 DEF CloseReap, NextSlot, ExitAcknowledged
  <2>26. ASSUME CloseTimeout PROVE ProcessInv'
    BY <2>26 DEF CloseTimeout
  <2>27. ASSUME NEW s \in Slots, Exit(s) PROVE ProcessInv'
    BY <2>27 DEF Exit
  <2>28. ASSUME UNCHANGED vars PROVE ProcessInv'
    BY <2>28 DEF vars
  <2> QED
    BY <2>1, <2>2, <2>3, <2>4, <2>5, <2>6, <2>7, <2>8, <2>9, <2>10, <2>11, <2>12, <2>13,
       <2>14, <2>15, <2>16, <2>17, <2>18, <2>19, <2>20, <2>21, <2>22, <2>23, <2>24,
       <2>25, <2>26, <2>27, <2>28 DEF Next, CallerStep, CloserStep, Quiet
<1> QED
  BY <1>1, <1>2, TypeCorrect, LedgerInvariance, PTL DEF Spec

\* No charge is released beside work that may still run.
THEOREM ChargedHolds == Spec => []ChargedWhileRunning
<1>1. ProcessInv => ChargedWhileRunning
  BY DEF ProcessInv
<1> QED
  BY <1>1, ProcessInvariance, PTL

(***************************************************************************)
(* close(): a process that runs after the signal was started by a caller   *)
(* that is still inside its slot, and cannot have been fed any more.       *)
(***************************************************************************)
Closing == pc[Closer] # "idle" => \A s \in Slots : slotClosed[s]

LateStart ==
  pc[Closer] \in {"retire", "reap", "done"} =>
    \A s \in Slots : proc[s] = "running" =>
      fed[s] = {} /\ \E c \in Callers : Home[c] = s /\ pc[c] \in {"io", "retire"}

CloseInv == Closing /\ LateStart

\* A process that outlives the signal of close() has a caller that retires it.
THEOREM CloseInvariance == Spec => []CloseInv
<1>1. Init => CloseInv
  BY DEF Init, CloseInv, Closing, LateStart, Threads
<1>2. TypeOK /\ CloseInv /\ [Next]_vars => CloseInv'
  <2> SUFFICES ASSUME TypeOK, CloseInv, [Next]_vars PROVE CloseInv'
    OBVIOUS
  <2> USE Constants DEF TypeOK, Threads, Inside, ledger, process, locals, Goto, Leave, Alive,
      CloseInv, Closing, LateStart
  <2>1. ASSUME NEW c \in Callers, Call(c) PROVE CloseInv'
    BY <2>1 DEF Call
  <2>2. ASSUME NEW c \in Callers, StopWaiting(c) PROVE CloseInv'
    BY <2>2 DEF StopWaiting
  <2>3. ASSUME NEW c \in Callers, Enqueue(c) PROVE CloseInv'
    BY <2>3 DEF Enqueue, Before
  <2>4. ASSUME NEW c \in Callers, Dispatch(c) PROVE CloseInv'
    BY <2>4 DEF Dispatch, SlotFree
  <2>5. ASSUME NEW c \in Callers, Enter(c) PROVE CloseInv'
    BY <2>5 DEF Enter
  <2>6. ASSUME NEW c \in Callers, Refuse(c) PROVE CloseInv'
    BY <2>6 DEF Refuse
  <2>7. ASSUME NEW c \in Callers, Start(c) PROVE CloseInv'
    BY <2>7 DEF Start
  <2>8. ASSUME NEW c \in Callers, StartFails(c) PROVE CloseInv'
    BY <2>8 DEF StartFails
  <2>9. ASSUME NEW c \in Callers, Feed(c) PROVE CloseInv'
    BY <2>9 DEF Feed
  <2>10. ASSUME NEW c \in Callers, Complete(c) PROVE CloseInv'
    BY <2>10 DEF Complete
  <2>11. ASSUME NEW c \in Callers, Abandon(c) PROVE CloseInv'
    BY <2>11 DEF Abandon
  <2>12. ASSUME NEW c \in Callers, Watchdog(c) PROVE CloseInv'
    BY <2>12 DEF Watchdog, KillAll
  <2>13. ASSUME NEW c \in Callers, RetireNothing(c) PROVE CloseInv'
    BY <2>13 DEF RetireNothing
  <2>14. ASSUME NEW t \in Threads, Retire(t) PROVE CloseInv'
    BY <2>14 DEF Retire, Place
  <2>15. ASSUME NEW c \in Callers, Reap(c) PROVE CloseInv'
    BY <2>15 DEF Reap, ExitAcknowledged
  <2>16. ASSUME NEW c \in Callers, ReapTimeout(c) PROVE CloseInv'
    BY <2>16 DEF ReapTimeout
  <2>17. ASSUME NEW c \in Callers, Finish(c) PROVE CloseInv'
    BY <2>17 DEF Finish, Acknowledged
  <2>18. ASSUME NEW c \in Callers, Wedge(c) PROVE CloseInv'
    BY <2>18 DEF Wedge, KillAll, Acknowledged
  <2>19. ASSUME NEW c \in Callers, Withdraw(c) PROVE CloseInv'
    BY <2>19 DEF Withdraw
  <2>20. ASSUME NEW c \in Callers, Cancel(c) PROVE CloseInv'
    BY <2>20 DEF Cancel
  <2>21. ASSUME NEW c \in Callers, Expire(c) PROVE CloseInv'
    BY <2>21 DEF Expire
  <2>22. ASSUME Close PROVE CloseInv'
    BY <2>22 DEF Close, SlotsClosing
  <2>23. ASSUME Signal PROVE CloseInv'
    BY <2>23 DEF Signal, KillAll
  <2>24. ASSUME CloseNothing PROVE CloseInv'
    BY <2>24 DEF CloseNothing, NextSlot
  <2>25. ASSUME CloseReap PROVE CloseInv'
    BY <2>25 DEF CloseReap, NextSlot, ExitAcknowledged
  <2>26. ASSUME CloseTimeout PROVE CloseInv'
    BY <2>26 DEF CloseTimeout
  <2>27. ASSUME NEW s \in Slots, Exit(s) PROVE CloseInv'
    BY <2>27 DEF Exit
  <2>28. ASSUME UNCHANGED vars PROVE CloseInv'
    BY <2>28 DEF vars
  <2> QED
    BY <2>1, <2>2, <2>3, <2>4, <2>5, <2>6, <2>7, <2>8, <2>9, <2>10, <2>11, <2>12, <2>13,
       <2>14, <2>15, <2>16, <2>17, <2>18, <2>19, <2>20, <2>21, <2>22, <2>23, <2>24,
       <2>25, <2>26, <2>27, <2>28 DEF Next, CallerStep, CloserStep, Quiet
<1> QED
  BY <1>1, <1>2, TypeCorrect, PTL DEF Spec

\* Nothing runs unsignalled once close() is over and the callers have left their slots.
THEOREM NothingRunsHolds == Spec => []NothingRunsAfterClose
<1>1. CloseInv => NothingRunsAfterClose
  BY DEF CloseInv, LateStart, NothingRunsAfterClose, Inside
<1> QED
  BY <1>1, CloseInvariance, PTL

\* Within a slot, nothing overtakes: who is dispatched was admitted before those who wait.
THEOREM SlotOrderHolds == Spec => SlotOrder
<1> DEFINE Order == \A c \in active' \ active : \A d \in pending \cap pending' :
                      Home[d] = Home[c] => c \in ahead[d]
<1>1. TypeOK /\ LedgerInv /\ [Next]_vars => Order \/ UNCHANGED vars
  <2> SUFFICES ASSUME TypeOK, LedgerInv, [Next]_vars PROVE Order \/ UNCHANGED vars
    OBVIOUS
  <2>1. ASSUME NEW c \in Callers, Dispatch(c) PROVE Order
    <3>1. active' \ active \subseteq {c} /\ c \in pending /\ ahead[c] \cap pending = {}
      BY <2>1 DEF Dispatch, LedgerInv, Queued, Charged, Inside
    <3>2. pending' = pending \ {c}
      BY <2>1 DEF Dispatch
    <3> QED
      BY <3>1, <3>2 DEF LedgerInv, Ordered
  <2>2. ASSUME NEW c \in Callers, CallerStep(c), ~Dispatch(c) PROVE active' \subseteq active
    BY <2>2 DEF CallerStep, ledger, StopWaiting, Enqueue, Enter, Refuse, Start, StartFails, Feed,
       Complete, Abandon, Watchdog, RetireNothing, Retire, Reap, ReapTimeout, Finish, Wedge, Withdraw
  <2>3. ASSUME NEW c \in Callers, Call(c) \/ Cancel(c) \/ Expire(c) PROVE active' = active
    BY <2>3 DEF Call, Cancel, Expire, ledger
  <2>4. ASSUME Close \/ CloserStep \/ Quiet \/ \E s \in Slots : Exit(s) PROVE active' = active
    BY <2>4 DEF Close, CloserStep, Signal, CloseNothing, Retire, CloseReap, CloseTimeout, Quiet,
       Exit, ledger, vars
  <2> QED
    BY <2>1, <2>2, <2>3, <2>4 DEF Next
<1> QED
  BY <1>1, TypeCorrect, LedgerInvariance, PTL DEF Spec, SlotOrder

(***************************************************************************)
(* The pool implements SlotLease: the holder of a slot is its one active   *)
(* request, so a dispatch grants the lease and only Finish gives it back.  *)
(***************************************************************************)
\* A slot with an active request is held by it.
LEMMA HolderUnique ==
  ASSUME NEW A, \A c, d \in A : Home[c] = Home[d] => c = d, NEW d \in A
  PROVE  (CHOOSE c \in A : Home[c] = Home[d]) = d
  OBVIOUS

\* The pool keeps the promise of SlotLease for every number of slots and requests.
THEOREM Implementation == Spec => ImplementsLease
<1> DEFINE lease == [s \in Slots |-> Holder(s)]
<1>1. Init => Lease!Init
  BY DEF Init, Lease!Init, Holder
<1>2. TypeOK /\ LedgerInv /\ LedgerInv' /\ [Next]_vars => [Lease!Next]_<<lease, ~closed>>
  <2> SUFFICES ASSUME TypeOK, LedgerInv, LedgerInv', [Next]_vars
               PROVE  [Lease!Next]_<<lease, ~closed>>
    OBVIOUS
  <2>1. \A c \in active : Holder(Home[c]) = c
    BY HolderUnique DEF Holder, LedgerInv, OneUser
  <2>2. \A c \in active' : Holder(Home[c])' = c
    BY HolderUnique DEF Holder, LedgerInv, OneUser
  <2>3. \A s \in Slots : (\A c \in active : Home[c] # s) => Holder(s) = Nobody
    BY DEF Holder
  <2>4. \A s \in Slots : (\A c \in active' : Home[c] # s) => Holder(s)' = Nobody
    BY DEF Holder
  <2>5. ASSUME NEW c \in Callers, Dispatch(c) PROVE Lease!Next
    <3>1. ~closed /\ closed' = closed /\ active' = active \cup {c}
      BY <2>5 DEF Dispatch, MayWait
    <3>2. \A d \in active : Home[d] # Home[c]
      BY <2>5 DEF Dispatch, SlotFree
    <3>3. Holder(Home[c]) = Nobody /\ Holder(Home[c])' = c
      BY <2>2, <2>3, <3>1, <3>2, Constants
    <3>4. ASSUME NEW s \in Slots, s # Home[c] PROVE Holder(s)' = Holder(s)
      <4>1. CASE \E d \in active : Home[d] = s
        BY <2>1, <2>2, <3>1, <4>1
      <4>2. CASE \A d \in active : Home[d] # s
        BY <2>3, <2>4, <3>1, <3>4, <4>2
      <4> QED
        BY <4>1, <4>2
    <3>5. lease' = [lease EXCEPT ![Home[c]] = c]
      BY <3>3, <3>4, Constants
    <3> QED
      BY <3>1, <3>3, <3>5, Constants DEF Lease!Next, Lease!Acquire
  <2>6. ASSUME NEW c \in Callers, Finish(c) PROVE Lease!Next
    <3>1. closed' = closed /\ active' = active \ {c} /\ c \in active
      BY <2>6 DEF Finish, LedgerInv, Charged
    <3>2. \A d \in active' : Home[d] # Home[c]
      BY <3>1 DEF LedgerInv, OneUser
    <3>3. Holder(Home[c]) = c /\ Holder(Home[c])' = Nobody
      BY <2>1, <2>4, <3>1, <3>2, Constants
    <3>4. ASSUME NEW s \in Slots, s # Home[c] PROVE Holder(s)' = Holder(s)
      <4>1. CASE \E d \in active' : Home[d] = s
        BY <2>1, <2>2, <3>1, <4>1
      <4>2. CASE \A d \in active' : Home[d] # s
        BY <2>3, <2>4, <3>1, <3>4, <4>2
      <4> QED
        BY <4>1, <4>2
    <3>5. lease' = [lease EXCEPT ![Home[c]] = Nobody]
      BY <3>3, <3>4, Constants
    <3> QED
      BY <3>1, <3>3, <3>5, Constants DEF Lease!Next, Lease!Release
  <2>7. ASSUME active' = active PROVE lease' = lease
    BY <2>7 DEF Holder
  <2>8. ASSUME NEW c \in Callers, CallerStep(c), ~Dispatch(c), ~Finish(c)
        PROVE  active' = active /\ (closed' = closed \/ closed' = TRUE)
    BY <2>8 DEF CallerStep, ledger, StopWaiting, Enqueue, Enter, Refuse, Start, StartFails, Feed,
       Complete, Abandon, Watchdog, RetireNothing, Retire, Reap, ReapTimeout, Wedge, Withdraw
  <2>9. ASSUME NEW c \in Callers, Call(c) \/ Cancel(c) \/ Expire(c)
        PROVE  active' = active /\ closed' = closed
    BY <2>9 DEF Call, Cancel, Expire, ledger
  <2>10. ASSUME Close \/ CloserStep \/ Quiet \/ (\E s \in Slots : Exit(s)) \/ UNCHANGED vars
         PROVE  active' = active /\ (closed' = closed \/ closed' = TRUE)
    BY <2>10 DEF Close, CloserStep, Signal, CloseNothing, Retire, CloseReap, CloseTimeout, Quiet,
       Exit, ledger, vars
  <2>11. ASSUME active' = active, closed' = closed \/ closed' = TRUE
         PROVE  [Lease!Next]_<<lease, ~closed>>
    BY <2>7, <2>11 DEF Lease!Next, Lease!Close
  <2> QED
    BY <2>5, <2>6, <2>8, <2>9, <2>10, <2>11 DEF Next
<1> QED
  BY <1>1, <1>2, TypeCorrect, LedgerInvariance, PTL DEF Spec, ImplementsLease, Lease!Spec

\* What the runs check of every state: the charge beside work, and silence after close().
THEOREM SafeHolds == Spec => []Safe
BY TypeCorrect, ChargedHolds, NothingRunsHolds, PTL DEF Safe
=============================================================================
