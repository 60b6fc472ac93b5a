--------------------------- MODULE WorkerPoolProofs ---------------------------
(* Proofs about WorkerPool for every set of calls, requests and slots.     *)
EXTENDS WorkerPool, FiniteSetTheorems, TLAPS

\* What the proofs need to know of the constants.
LEMMA Constants ==
  /\ IsFiniteSet(Calls) /\ Limit \in Nat \ {0} /\ MaxPools \in Nat /\ MaxFaults \in Nat
  /\ Asks \subseteq [Calls -> Requests]
  /\ None \notin Calls /\ None \notin Slots /\ None \notin Results
  BY PoolAssumption DEF PoolAssumption

(***************************************************************************)
(* Types. That a permit is given back only once belongs to the books.      *)
(***************************************************************************)
Controller ==
  /\ pool \in {"none", "open", "join", "closed", "broken"}
  /\ permits \in Nat /\ pools \in 0 .. MaxPools /\ faults \in 0 .. MaxFaults
Submitters ==
  /\ pc \in [Calls -> CallStates] /\ ask \in [Calls -> Requests]
  /\ handle \in [Calls -> Calls \cup {None}] /\ answer \in [Calls -> Values]
  /\ \A c \in Calls : pc[c] \in {"registering", "waiting"} => handle[c] \in Calls
Files ==
  /\ record \in [Keys -> Results \cup {None}] /\ inflight \in [Keys -> Calls \cup {None}]
Processes ==
  /\ process \in [Slots -> ProcessStates] /\ free \subseteq Slots
  /\ busy \in [Slots -> Calls \cup {None}] /\ out \in [Slots -> Values]
Threads ==
  /\ future \in [Calls -> Stages] /\ slot \in [Calls -> Slots \cup {None}]
  /\ hook \in [Calls -> {"unset", "set", "popped", "released"}]
  /\ got \in [Calls -> Values] /\ queue \in Seq(Calls)
  /\ \A f \in Calls : future[f] \in {"send", "receive", "stop"} => slot[f] \in Slots
Typed == Controller /\ Submitters /\ Files /\ Processes /\ Threads

\* A call's request is one of the requests.
LEMMA Asked ==
  ASSUME Submitters, NEW c \in Calls
  PROVE Key(c) \in Keys /\ Fingerprint(c) \in Prints
  BY DEF Submitters, Key, Fingerprint, Keys, Prints

\* What _run writes is a result.
LEMMA Recorded ==
  ASSUME Submitters, Threads, NEW f \in Calls PROVE Result(f) \in Results
  BY Asked DEF Threads, Result, Results
\* A run without evidence has the value None.
LEMMA NoEvidence == None \in Values
  BY DEF Values
\* Evidence that a run makes up is evidence.
LEMMA Evident ==
  ASSUME Controller, NEW f \in Calls PROVE Evidence(f) \in Values /\ None \in Values
  BY DEF Controller, Evidence, Values

\* Every variable keeps its type.
THEOREM TypeInvariance == Spec => []Typed
<1>1. Init => Typed
  <2> SUFFICES ASSUME Init PROVE Typed
    OBVIOUS
  <2> USE Constants DEF Init, Same
  <2>1. Controller
    BY DEF Controller
  <2>2. Submitters /\ Files
    BY DEF Submitters, Files, CallStates, Values
  <2>3. Processes /\ Threads
    BY DEF Processes, Threads, Stages, ProcessStates, Values
  <2> QED
    BY <2>1, <2>2, <2>3 DEF Typed
<1>2. Typed /\ [Next]_vars => Typed'
  <2> SUFFICES ASSUME Typed, [Next]_vars PROVE Typed'
    OBVIOUS
  <2> USE Constants DEF Typed, Controller, Submitters, Files, Processes, Threads,
      submitters, threads, books, slots, workers, Renew, RenewAll, Same, Wait
  <2>1. ASSUME NEW c \in Calls, Rejected(c) PROVE Typed'
    BY <2>1 DEF Rejected, Refuse, Known, CallStates
  <2>2. ASSUME NEW c \in Calls, Join(c) PROVE Typed'
    BY <2>2, Asked DEF Join, Known, CallStates
  <2>3. ASSUME NEW c \in Calls, Admit(c) PROVE Typed'
    BY <2>3, Asked DEF Admit, MayAdmit, Known, Stage, CallStates, Stages
  <2>4. ASSUME NEW c \in Calls, Register(c) PROVE Typed'
    BY <2>4 DEF Register, CallStates
  <2>5. ASSUME NEW c \in Calls, Return(c) PROVE Typed'
    <3>1. got[handle[c]] \in Values
      BY <2>5 DEF Return, Ended
    <3> QED
      BY <2>5, <3>1 DEF Return, CallStates
  <2>6. ASSUME NEW f \in Calls, Begin(f) PROVE Typed'
    <3>1. record[Key(f)] # None => record[Key(f)].value \in Values
      BY Asked DEF Results
    <3>2. queue' \in Seq(Calls)
      BY <2>6 DEF Begin
    <3> QED
      BY <2>6, <3>1, <3>2 DEF Begin, Stage, Stages
  <2>7. ASSUME NEW f \in Calls, NEW s \in Slots, Get(f, s) PROVE Typed'
    <3>1. Live(f, s) \/ Start(f, s) => Typed'
      BY <2>7, Evident DEF Get, Live, Start, Stage, Stages, ProcessStates
    <3>2. StartFails(f, s) => Typed'
      BY <2>7, Evident DEF Get, StartFails, Fault, Stage, Stages, ProcessStates
    <3> QED
      BY <2>7, <3>1, <3>2 DEF Get
  <2>8. ASSUME NEW f \in Calls, Send(f) PROVE Typed'
    BY <2>8 DEF Send, Stage, Stages
  <2>9. ASSUME NEW f \in Calls, Receive(f) PROVE Typed'
    BY <2>9, Evident DEF Receive, Stage, PutBack, Stages
  <2>10. ASSUME NEW f \in Calls, Broken(f) PROVE Typed'
    BY <2>10, Evident DEF Broken, Stage, Evidence, Stages
  <2>11. ASSUME NEW f \in Calls, Stop(f) PROVE Typed'
    BY <2>11, Evident DEF Stop, Stage, PutBack, Stages, ProcessStates
  <2>12. ASSUME NEW f \in Calls, StopFails(f) PROVE Typed'
    BY <2>12, Evident DEF StopFails, Stage, Fault, Stages, ProcessStates
  <2>13. ASSUME NEW f \in Calls, Write(f) PROVE Typed'
    BY <2>13, Asked, Recorded DEF Write, Stage, Stages
  <2>14. ASSUME NEW f \in Calls, WriteFails(f) PROVE Typed'
    BY <2>14, Asked, Recorded DEF WriteFails, Stage, Fault, Stages
  <2>15. ASSUME NEW f \in Calls, Forget(f) PROVE Typed'
    BY <2>15, Asked DEF Forget
  <2>16. ASSUME NEW f \in Calls, Release(f) PROVE Typed'
    BY <2>16 DEF Release
  <2>17. ASSUME NEW s \in Slots, Answer(s) PROVE Typed'
    BY <2>17, Evident DEF Answer, Evidence
  <2>18. ASSUME NEW s \in Slots, Die(s) PROVE Typed'
    BY <2>18, Evident DEF Die, Fault, ProcessStates
  <2>19. ASSUME Open PROVE Typed'
    BY <2>19, NoEvidence DEF Open, ProcessStates
  <2>20. ASSUME Close PROVE Typed'
    BY <2>20 DEF Close, Stages
  <2>21. ASSUME Reclaim PROVE Typed'
    BY <2>21, NoEvidence DEF Reclaim, Fault, ProcessStates
  <2>22. ASSUME Gone PROVE Typed'
    BY <2>22, NoEvidence DEF Gone, Stages, ProcessStates, CallStates
  <2>23. ASSUME UNCHANGED vars PROVE Typed'
    BY <2>23 DEF vars
  <2> QED
    BY <2>1, <2>2, <2>3, <2>4, <2>5, <2>6, <2>7, <2>8, <2>9, <2>10, <2>11, <2>12, <2>13,
       <2>14, <2>15, <2>16, <2>17, <2>18, <2>19, <2>20, <2>21, <2>22, <2>23 DEF Next,
       CallStep, RunStep
<1> QED
  BY <1>1, <1>2, PTL DEF Spec

(***************************************************************************)
(* The books: which futures are in flight and which permits are out.       *)
(***************************************************************************)
\* A call names its future when it has queued it, and registers its callback once.
NoFutureYet == \A c \in Calls : pc[c] = "idle" => future[c] = "none"
OwnFuture == \A c \in Calls : pc[c] = "registering" => future[c] # "none" /\ handle[c] = c
Unregistered == \A c \in Calls : pc[c] \in {"idle", "registering"} => hook[c] = "unset"

\* The callback is that of a future, and runs after its end.
Hooked == \A f \in Calls :
  /\ hook[f] # "unset" => future[f] # "none"
  /\ hook[f] \in {"popped", "released"} => Ended(f)

\* An attempt is in flight from its admission to its callback.
InFlight == \A f \in Calls :
  future[f] # "none" /\ hook[f] \in {"unset", "set"} => inflight[Key(f)] = f
Listed == \A k \in Keys : inflight[k] # None => Key(inflight[k]) = k /\ future[inflight[k]] # "none"

\* Without a controller there is no future.
NoPool == pool = "none" => \A f \in Calls : future[f] = "none"

Books == NoFutureYet /\ OwnFuture /\ Unregistered /\ Hooked /\ InFlight /\ Listed /\ NoPool

\* No call asks for something else later.
LEMMA AskKept ==
  ASSUME Typed, [Next]_vars
  PROVE UNCHANGED ask /\ \A c \in Calls : /\ Key(c) \in Keys /\ Key(c)' = Key(c)
                                          /\ Fingerprint(c)' = Fingerprint(c)
<1>1. UNCHANGED ask
  BY DEF Next, CallStep, RunStep, vars, submitters, Wait, Rejected, Refuse, Join, Admit,
     Register,
     Return, Begin, Get, Send, Receive, Broken, Stop, StopFails, Write, WriteFails, Forget, Release,
     Answer, Die, Open, Close, Reclaim, Gone
<1> QED
  BY <1>1, Asked DEF Typed, Key, Fingerprint

\* Futures and their callbacks agree with the map of attempts in flight.
THEOREM BooksInvariance == Spec => []Books
<1>1. Init => Books
  BY Constants DEF Init, Books, NoFutureYet, OwnFuture, Unregistered, Hooked, InFlight,
     Listed, NoPool
<1>2. Typed /\ Books /\ [Next]_vars => Books'
  <2> SUFFICES ASSUME Typed, Books, [Next]_vars PROVE Books'
    OBVIOUS
  <2>a. \A c \in Calls : Key(c) \in Keys /\ Key(c)' = Key(c)
    BY AskKept
  <2> USE Constants, <2>a DEF Typed, Submitters, Files, Threads, Controller, submitters,
      threads,
      books, slots, workers, Wait, Ended, Books, NoFutureYet, OwnFuture, Unregistered, Hooked,
      InFlight, Listed, NoPool
  <2>1. ASSUME NEW c \in Calls, Rejected(c) PROVE Books'
    BY <2>1 DEF Rejected, Refuse, Known
  <2>2. ASSUME NEW c \in Calls, Join(c) PROVE Books'
    BY <2>2 DEF Join, Known
  <2>3. ASSUME NEW c \in Calls, Admit(c) PROVE Books'
    BY <2>3 DEF Admit, MayAdmit, Known, Stage
  <2>4. ASSUME NEW c \in Calls, Register(c) PROVE Books'
    BY <2>4 DEF Register
  <2>5. ASSUME NEW c \in Calls, Return(c) PROVE Books'
    BY <2>5 DEF Return
  <2>6. ASSUME NEW f \in Calls, Begin(f) PROVE Books'
    <3>1. /\ future[f] = "queued" /\ \E state \in {"get", "failed", "done"} : Stage(f, state)
          /\ UNCHANGED <<pool, pc, handle, hook, inflight>>
      BY <2>6 DEF Begin
    <3> QED
      BY <3>1 DEF Stage
  <2>7. ASSUME NEW f \in Calls, NEW s \in Slots, Get(f, s) PROVE Books'
    BY <2>7 DEF Get, Stage, Live, Start, StartFails, Fault
  <2>8. ASSUME NEW f \in Calls, Send(f) PROVE Books'
    BY <2>8 DEF Send, Stage
  <2>9. ASSUME NEW f \in Calls, Receive(f) PROVE Books'
    BY <2>9 DEF Receive, Stage, PutBack
  <2>10. ASSUME NEW f \in Calls, Broken(f) PROVE Books'
    BY <2>10 DEF Broken, Stage
  <2>11. ASSUME NEW f \in Calls, Stop(f) PROVE Books'
    BY <2>11 DEF Stop, Stage, PutBack
  <2>12. ASSUME NEW f \in Calls, StopFails(f) PROVE Books'
    BY <2>12 DEF StopFails, Stage, Fault
  <2>13. ASSUME NEW f \in Calls, Write(f) PROVE Books'
    BY <2>13 DEF Write, Stage
  <2>14. ASSUME NEW f \in Calls, WriteFails(f) PROVE Books'
    BY <2>14 DEF WriteFails, Stage, Fault
  <2>15. ASSUME NEW f \in Calls, Forget(f) PROVE Books'
    BY <2>15 DEF Forget
  <2>16. ASSUME NEW f \in Calls, Release(f) PROVE Books'
    BY <2>16 DEF Release
  <2>17. ASSUME NEW s \in Slots, Answer(s) PROVE Books'
    BY <2>17 DEF Answer
  <2>18. ASSUME NEW s \in Slots, Die(s) PROVE Books'
    BY <2>18 DEF Die, Fault
  <2>19. ASSUME Open PROVE Books'
    BY <2>19 DEF Open
  <2>20. ASSUME Close PROVE Books'
    BY <2>20 DEF Close
  <2>21. ASSUME Reclaim PROVE Books'
    BY <2>21 DEF Reclaim, Fault
  <2>22. ASSUME Gone PROVE Books'
    BY <2>22 DEF Gone
  <2>23. ASSUME UNCHANGED vars PROVE Books'
    BY <2>23 DEF vars
  <2> QED
    BY <2>1, <2>2, <2>3, <2>4, <2>5, <2>6, <2>7, <2>8, <2>9, <2>10, <2>11, <2>12, <2>13,
       <2>14, <2>15, <2>16, <2>17, <2>18, <2>19, <2>20, <2>21, <2>22, <2>23 DEF Next,
       CallStep, RunStep
<1> QED
  BY <1>1, <1>2, TypeInvariance, PTL DEF Spec

\* An attempt is in flight once.
LEMMA OnceInFlight == ASSUME Typed, Books PROVE InFlightOnce
  BY DEF Typed, Threads, Books, InFlight, Hooked, InFlightOnce, Unfinished, Running, Ended

(***************************************************************************)
(* The permits.                                                            *)
(***************************************************************************)
Permits == permits + Cardinality(Outstanding) = Limit

\* Permits can be counted.
LEMMA OutstandingFinite == IsFiniteSet(Outstanding) /\ Cardinality(Outstanding) \in Nat
<1>1. Outstanding \subseteq Calls
  BY DEF Outstanding
<1> QED
  BY <1>1, Constants, FS_Subset, FS_CardinalityType

\* Every permit is free or belongs to one future.
THEOREM PermitInvariance == Spec => []Permits
<1>1. Init => Permits
  <2> SUFFICES ASSUME Init PROVE Permits
    OBVIOUS
  <2>1. Outstanding = {}
    BY DEF Init, Outstanding
  <2> QED
    BY <2>1, FS_EmptySet, Constants DEF Init, Permits
<1>2. Typed /\ Books /\ Permits /\ [Next]_vars => Permits'
  <2> SUFFICES ASSUME Typed, Books, Permits, [Next]_vars PROVE Permits'
    OBVIOUS
  <2>0. UNCHANGED <<Outstanding, permits>> => Permits'
    BY DEF Permits
  <2>a. ASSUME \A f \in Calls : future'[f] = "none" <=> future[f] = "none",
               UNCHANGED <<hook, permits>>
        PROVE  Permits'
    BY <2>0, <2>a DEF Outstanding
  <2>b. ASSUME permits' = Limit, Outstanding' = {} PROVE Permits'
    BY <2>b, FS_EmptySet, Constants DEF Permits
  <2> USE DEF Typed, Threads, Controller, submitters, threads, books, slots, workers, Wait,
      Stage
  <2>1. ASSUME NEW c \in Calls, Rejected(c) PROVE Permits'
    BY <2>1, <2>0 DEF Outstanding, Rejected, Refuse
  <2>2. ASSUME NEW c \in Calls, Join(c) PROVE Permits'
    BY <2>2, <2>0 DEF Outstanding, Join
  <2>3. ASSUME NEW c \in Calls, Admit(c) PROVE Permits'
    <3>1. c \notin Outstanding /\ Outstanding' = Outstanding \cup {c}
      BY <2>3 DEF Admit, Books, NoFutureYet, Unregistered, Outstanding
    <3>2. Cardinality(Outstanding') = Cardinality(Outstanding) + 1
      BY <3>1, OutstandingFinite, FS_AddElement
    <3> QED
      BY <2>3, <3>2, OutstandingFinite DEF Admit, MayAdmit, Permits
  <2>4. ASSUME NEW c \in Calls, Register(c) PROVE Permits'
    BY <2>4, <2>0 DEF Outstanding, Register, Books, Unregistered
  <2>5. ASSUME NEW c \in Calls, Return(c) PROVE Permits'
    BY <2>5, <2>0 DEF Outstanding, Return
  <2>6. ASSUME NEW f \in Calls, Begin(f) PROVE Permits'
    BY <2>6, <2>a DEF Begin
  <2>7. ASSUME NEW f \in Calls, NEW s \in Slots, Get(f, s) PROVE Permits'
    BY <2>7, <2>a DEF Get, Live, Start, StartFails
  <2>8. ASSUME NEW f \in Calls, Send(f) PROVE Permits'
    BY <2>8, <2>a DEF Send
  <2>9. ASSUME NEW f \in Calls, Receive(f) PROVE Permits'
    BY <2>9, <2>a DEF Receive, PutBack
  <2>10. ASSUME NEW f \in Calls, Broken(f) PROVE Permits'
    BY <2>10, <2>a DEF Broken
  <2>11. ASSUME NEW f \in Calls, Stop(f) PROVE Permits'
    BY <2>11, <2>a DEF Stop, PutBack
  <2>12. ASSUME NEW f \in Calls, StopFails(f) PROVE Permits'
    BY <2>12, <2>a DEF StopFails
  <2>13. ASSUME NEW f \in Calls, Write(f) PROVE Permits'
    BY <2>13, <2>a DEF Write
  <2>14. ASSUME NEW f \in Calls, WriteFails(f) PROVE Permits'
    BY <2>14, <2>a DEF WriteFails
  <2>15. ASSUME NEW f \in Calls, Forget(f) PROVE Permits'
    BY <2>15, <2>0 DEF Outstanding, Forget, Books, Hooked
  <2>16. ASSUME NEW f \in Calls, Release(f) PROVE Permits'
    <3>1. f \in Outstanding /\ Outstanding' = Outstanding \ {f}
      BY <2>16 DEF Release, Books, Hooked, Outstanding
    <3>2. Cardinality(Outstanding') = Cardinality(Outstanding) - 1
      BY <3>1, OutstandingFinite, FS_RemoveElement
    <3> QED
      BY <2>16, <3>2, OutstandingFinite DEF Release, Permits
  <2>17. ASSUME NEW s \in Slots, Answer(s) PROVE Permits'
    BY <2>17, <2>0 DEF Outstanding, Answer
  <2>18. ASSUME NEW s \in Slots, Die(s) PROVE Permits'
    BY <2>18, <2>0 DEF Outstanding, Die
  <2>19. ASSUME Open PROVE Permits'
    BY <2>19, <2>b DEF Open, Books, NoPool, Outstanding
  <2>20. ASSUME Close PROVE Permits'
    BY <2>20, <2>a DEF Close
  <2>21. ASSUME Reclaim PROVE Permits'
    BY <2>21, <2>0 DEF Outstanding, Reclaim
  <2>22. ASSUME Gone PROVE Permits'
    BY <2>22, <2>b DEF Gone, Outstanding
  <2>23. ASSUME UNCHANGED vars PROVE Permits'
    BY <2>23, <2>0 DEF vars, Outstanding
  <2> QED
    BY <2>1, <2>2, <2>3, <2>4, <2>5, <2>6, <2>7, <2>8, <2>9, <2>10, <2>11, <2>12, <2>13,
       <2>14, <2>15, <2>16, <2>17, <2>18, <2>19, <2>20, <2>21, <2>22, <2>23 DEF Next,
       CallStep, RunStep
<1> QED
  BY <1>1, <1>2, TypeInvariance, BooksInvariance, PTL DEF Spec

\* The 32 permits come back.
THEOREM PermitsConservedHolds == Spec => []PermitsConserved
<1>1. Permits => PermitsConserved
  BY DEF Permits, PermitsConserved
<1> QED
  BY <1>1, PermitInvariance, PTL

(***************************************************************************)
(* The slots: idle, in the hands of one run, or lost.                      *)
(***************************************************************************)
Serving == pool \in {"open", "join"}
Holding(f) == future[f] \in {"send", "receive", "stop"}
Lost(f) == future[f] = "failed" /\ process[slot[f]] = "stuck"

\* Only runs between Get and PutBack have a slot, and those whose reclamation failed.
Held == \A f \in Calls :
  /\ slot[f] # None => Holding(f) \/ future[f] = "failed"
  /\ Serving /\ slot[f] # None => Holding(f) \/ Lost(f)

\* A slot is idle or has one holder.
OneHolder ==
  Serving => /\ \A f \in Calls : slot[f] \notin free
             /\ \A s \in Slots \ free : \E f \in Calls : slot[f] = s
             /\ \A f, g \in Calls : slot[f] # None /\ slot[f] = slot[g] => f = g

\* A channel holds a request or an answer, and neither before a request was sent.
Channels == Serving => \A s \in Slots : busy[s] = None \/ out[s] = None
Unsent ==
  Serving => \A f \in Calls :
    /\ future[f] = "send" => busy[slot[f]] = None /\ out[slot[f]] = None
    /\ future[f] \in {"send", "receive"} => process[slot[f]] # "stuck"

\* The end of close() waits for the threads; nothing is queued from its beginning.
Joined ==
  /\ pool # "open" => \A f \in Calls : future[f] # "queued"
  /\ ~Serving => \A f \in Calls : ~Running(f)

SlotInv == Held /\ OneHolder /\ Channels /\ Unsent /\ IdleIsClean /\ Joined

\* Slots, their holders and their channels agree.
THEOREM SlotInvariance == Spec => []SlotInv
<1>1. Init => SlotInv
  BY Constants DEF Init, SlotInv, Held, OneHolder, Channels, Unsent, IdleIsClean, Joined,
     Serving, Running
<1>2. Typed /\ Books /\ SlotInv /\ [Next]_vars => SlotInv'
  <2> SUFFICES ASSUME Typed, Books, SlotInv, [Next]_vars PROVE SlotInv'
    OBVIOUS
  <2> USE Constants DEF Typed, Threads, Processes, Controller, submitters, threads, books,
      slots, workers,
      Wait, Stage, Renew, RenewAll, Same, SlotInv, Held, OneHolder, Channels, Unsent,
      IdleIsClean, Joined,
      Serving, Holding, Lost, Running
  <2>1. ASSUME NEW c \in Calls, Rejected(c) PROVE SlotInv'
    BY <2>1 DEF Rejected, Refuse, Known
  <2>2. ASSUME NEW c \in Calls, Join(c) PROVE SlotInv'
    BY <2>2 DEF Join, Known
  <2>3. ASSUME NEW c \in Calls, Admit(c) PROVE SlotInv'
    BY <2>3 DEF Books, NoPool, NoFutureYet, Admit, MayAdmit, Known
  <2>4. ASSUME NEW c \in Calls, Register(c) PROVE SlotInv'
    BY <2>4 DEF Register
  <2>5. ASSUME NEW c \in Calls, Return(c) PROVE SlotInv'
    BY <2>5 DEF Return
  <2>6. ASSUME NEW f \in Calls, Begin(f) PROVE SlotInv'
    <3>1. /\ future[f] = "queued" /\ \E state \in {"get", "failed", "done"} : Stage(f, state)
          /\ UNCHANGED <<pool, slot, free, process, busy, out>>
      BY <2>6 DEF Begin
    <3> QED
      BY <3>1
  <2>7. ASSUME NEW f \in Calls, NEW s \in Slots, Get(f, s) PROVE SlotInv'
    BY <2>7 DEF Get, Live, Start, StartFails, Fault
  <2>8. ASSUME NEW f \in Calls, Send(f) PROVE SlotInv'
    BY <2>8 DEF Send
  <2>9. ASSUME NEW f \in Calls, Receive(f) PROVE SlotInv'
    BY <2>9 DEF Receive, PutBack
  <2>10. ASSUME NEW f \in Calls, Broken(f) PROVE SlotInv'
    BY <2>10 DEF Broken
  <2>11. ASSUME NEW f \in Calls, Stop(f) PROVE SlotInv'
    BY <2>11 DEF Stop, PutBack
  <2>12. ASSUME NEW f \in Calls, StopFails(f) PROVE SlotInv'
    BY <2>12 DEF StopFails, Fault
  <2>13. ASSUME NEW f \in Calls, Write(f) PROVE SlotInv'
    BY <2>13 DEF Write
  <2>14. ASSUME NEW f \in Calls, WriteFails(f) PROVE SlotInv'
    BY <2>14 DEF WriteFails, Fault
  <2>15. ASSUME NEW f \in Calls, Forget(f) PROVE SlotInv'
    BY <2>15 DEF Forget
  <2>16. ASSUME NEW f \in Calls, Release(f) PROVE SlotInv'
    BY <2>16 DEF Release
  <2>17. ASSUME NEW s \in Slots, Answer(s) PROVE SlotInv'
    BY <2>17 DEF Answer
  <2>18. ASSUME NEW s \in Slots, Die(s) PROVE SlotInv'
    BY <2>18 DEF Die, Fault
  <2>19. ASSUME Open PROVE SlotInv'
    BY <2>19 DEF Books, NoPool, Open
  <2>20. ASSUME Close PROVE SlotInv'
    BY <2>20 DEF Close
  <2>21. ASSUME Reclaim PROVE SlotInv'
    BY <2>21 DEF Reclaim, Fault, ThreadsGone
  <2>22. ASSUME Gone PROVE SlotInv'
    BY <2>22 DEF Gone
  <2>23. ASSUME UNCHANGED vars PROVE SlotInv'
    BY <2>23 DEF vars
  <2> QED
    BY <2>1, <2>2, <2>3, <2>4, <2>5, <2>6, <2>7, <2>8, <2>9, <2>10, <2>11, <2>12, <2>13,
       <2>14, <2>15, <2>16, <2>17, <2>18, <2>19, <2>20, <2>21, <2>22, <2>23 DEF Next,
       CallStep, RunStep
<1> QED
  BY <1>1, <1>2, TypeInvariance, BooksInvariance, PTL DEF Spec

\* Every slot is idle, in the hands of one run, or lost to a failed reclamation.
THEOREM SlotsAccountedHolds == Spec => []SlotsAccounted
<1>1. Typed /\ SlotInv => SlotsAccounted
  BY Constants DEF Typed, Threads, SlotInv, Held, OneHolder, Serving, Holding, Lost,
     SlotsAccounted
<1> QED
  BY <1>1, TypeInvariance, SlotInvariance, PTL

\* Types, clean idle slots and attempts in flight once.
THEOREM SafeHolds == Spec => []Safe
<1>1. Typed /\ Permits => TypeOK
  <2> SUFFICES ASSUME Typed, Permits PROVE permits \in 0 .. Limit
    BY DEF Typed, Controller, Submitters, Files, Processes, Threads, TypeOK
  <2> QED
    BY OutstandingFinite, Constants DEF Typed, Controller, Permits
<1>2. Typed /\ Books /\ Permits /\ SlotInv => Safe
  BY <1>1, OnceInFlight DEF SlotInv, Safe
<1> QED
  BY <1>2, TypeInvariance, BooksInvariance, PermitInvariance, SlotInvariance, PTL

(***************************************************************************)
(* The answers: whose evidence is where.                                   *)
(***************************************************************************)
\* Two calls ask the same of the same attempt.
SameAsk(f, c) == Key(f) = Key(c) /\ Fingerprint(f) = Fingerprint(c)

\* A submitter waits for a future of its own request.
Tickets == \A c \in Calls :
  pc[c] = "waiting" => future[handle[c]] # "none" /\ SameAsk(handle[c], c)

\* A result file holds evidence made for its own request.
OwnFile == \A k \in Keys : record[k] # None =>
  LET f == record[k].value[1] IN
  f \in Calls /\ Key(f) = k /\ Fingerprint(f) = record[k].print

\* What a run received or made up is evidence of its own request, and so is what is in the
\* channel of its slot.
OwnEvidence == \A f \in Calls : future[f] \in {"stop", "write"} => got[f][1] = f
OwnChannel ==
  Serving => \A f \in Calls : future[f] = "receive" =>
    /\ busy[slot[f]] \in {None, f}
    /\ out[slot[f]] # None => out[slot[f]][1] = f

\* A run is done when its evidence is on disk.
DoneIsDurable == \A f \in Calls : future[f] = "done" => record[Key(f)] = Result(f)

Answered == \A c \in Calls :
  pc[c] = "done" => record[Key(c)] = [print |-> Fingerprint(c), value |-> answer[c]]

AnswerInv == Tickets /\ OwnFile /\ OwnEvidence /\ OwnChannel /\ DoneIsDurable /\ Answered

\* Evidence goes from the request that made it to the file and the waiters of that request.
THEOREM AnswerInvariance == Spec => []AnswerInv
<1>1. Init => AnswerInv
  BY Constants DEF Init, AnswerInv, Tickets, OwnFile, OwnEvidence, OwnChannel, DoneIsDurable,
     Answered, Serving
<1>2. Typed /\ Books /\ SlotInv /\ AnswerInv /\ [Next]_vars => AnswerInv'
  <2> SUFFICES ASSUME Typed, Books, SlotInv, AnswerInv, [Next]_vars PROVE AnswerInv'
    OBVIOUS
  <2>a. /\ UNCHANGED ask
        /\ \A c \in Calls : /\ ask[c].key \in Keys /\ Result(c) \in Results
                             /\ [print |-> ask[c].print, value |-> answer[c]] \in Results
    BY AskKept, Asked, Recorded DEF Typed, Submitters, Key, Fingerprint, Results
  <2>b. ASSUME UNCHANGED <<record, pc, handle, answer>>,
                 \A f \in Calls : /\ future[f] # "none" => future'[f] # "none"
                                  /\ future'[f] = "done" => future[f] = "done" /\ got'[f] = got[f],
                 OwnEvidence', OwnChannel'
          PROVE AnswerInv'
    BY <2>a, <2>b DEF AnswerInv, Tickets, OwnFile, DoneIsDurable, Answered, SameAsk, Result,
       Typed, Submitters, Key, Fingerprint
  <2>c. ASSUME NEW f \in Calls, future[f] = "write", Publishable(f),
               NEW state \in {"done", "failed"},
                 future' = [future EXCEPT ![f] = state],
                 UNCHANGED <<pool, pc, handle, answer, slot, got, process, busy, out>>,
                 \/ record' = [record EXCEPT ![Key(f)] = Result(f)]
                 \/ state = "failed" /\ record' = record
          PROVE AnswerInv'
    <3> USE <2>a, <2>c, Constants DEF Typed, Files, Threads, Submitters, Result, Key,
    Fingerprint
    <3>1. \A k \in Keys : record[k] # None => record'[k] = record[k]
      BY DEF Publishable
    <3>2. DoneIsDurable'
      <4> SUFFICES ASSUME NEW g \in Calls, future'[g] = "done"
                   PROVE record'[Key(g)] = [print |-> Fingerprint(g), value |-> got[g]]
        BY DEF DoneIsDurable
      <4>1. CASE g = f
        BY <4>1
      <4>2. CASE g # f
        <5>1. record[Key(g)] = Result(g)
          BY <4>2 DEF AnswerInv, DoneIsDurable
        <5>2. record[Key(g)] # None
          BY <5>1
        <5> QED
          BY <3>1, <5>1, <5>2
      <4> QED
        BY <4>1, <4>2
    <3>3. Answered'
      <4> SUFFICES ASSUME NEW c \in Calls, pc[c] = "done"
                   PROVE record'[Key(c)] = [print |-> Fingerprint(c), value |-> answer[c]]
        BY DEF Answered
      <4>1. record[Key(c)] = [print |-> Fingerprint(c), value |-> answer[c]]
        BY DEF AnswerInv, Answered
      <4>2. record[Key(c)] # None
        BY <4>1
      <4> QED
        BY <3>1, <4>1, <4>2
    <3>4. OwnFile'
      BY <3>1 DEF AnswerInv, OwnFile, OwnEvidence
    <3>5. Tickets' /\ OwnEvidence' /\ OwnChannel'
      BY DEF AnswerInv, Tickets, OwnEvidence, OwnChannel, SameAsk, Serving
    <3> QED
      BY <3>2, <3>3, <3>4, <3>5 DEF AnswerInv
  <2>d. ASSUME NEW f \in Calls, future' = [future EXCEPT ![f] = "done"],
                 record[Key(f)] = [print |-> Fingerprint(f), value |-> got'[f]],
                 \A g \in Calls \ {f} : got'[g] = got[g],
                 UNCHANGED <<pool, pc, handle, answer, slot, record, process, busy, out>>
          PROVE AnswerInv'
    <3> USE <2>a, <2>d DEF Typed, Threads, Submitters, AnswerInv, Key, Fingerprint
    <3>1. DoneIsDurable'
      BY DEF DoneIsDurable, Result
    <3>2. Tickets' /\ OwnEvidence' /\ OwnChannel'
      BY DEF Tickets, OwnEvidence, OwnChannel, SameAsk, Serving
    <3>3. Answered' /\ OwnFile'
      BY DEF Answered, OwnFile
    <3> QED
      BY <3>1, <3>2, <3>3
  <2>e. ASSUME NEW c \in Calls, Join(c)
          PROVE LET f == inflight[Key(c)] IN f \in Calls /\ future[f] # "none" /\ SameAsk(f, c)
    BY <2>e, Asked DEF Join, Known, Typed, Files, Books, Listed, SameAsk
  <2> USE Constants DEF Typed, Submitters, Files, Threads, Processes, submitters, threads,
      books, slots,
      workers, Wait, Stage, Renew, RenewAll, Same, SlotInv, Held, OneHolder, Unsent, Joined,
      Channels,
      Serving, Holding, Lost, Running,
      AnswerInv, Tickets, OwnFile, OwnEvidence, OwnChannel, DoneIsDurable, Answered, SameAsk,
      Key, Fingerprint
  <2>1. ASSUME NEW c \in Calls, Rejected(c) PROVE AnswerInv'
    BY <2>1, <2>a DEF Rejected, Refuse, Result
  <2>2. ASSUME NEW c \in Calls, Join(c) PROVE AnswerInv'
    <3>1. /\ pc' = [pc EXCEPT ![c] = "waiting"] /\ handle' = [handle EXCEPT ![c] = inflight[Key(c)]]
          /\ UNCHANGED <<pool, record, answer, future, slot, got, busy, out>>
      BY <2>2 DEF Join
    <3>2. Tickets'
      BY <3>1, <2>2, <2>e, <2>a
    <3>3. OwnFile' /\ OwnEvidence' /\ OwnChannel' /\ DoneIsDurable' /\ Answered'
      BY <3>1, <2>a DEF Result
    <3> QED
      BY <3>2, <3>3
  <2>3. ASSUME NEW c \in Calls, Admit(c) PROVE AnswerInv'
    BY <2>3, <2>a DEF Admit, MayAdmit, Known, Books, NoFutureYet, Result
  <2>4. ASSUME NEW c \in Calls, Register(c) PROVE AnswerInv'
    BY <2>4, <2>a DEF Register, Books, OwnFuture, Result
  <2>5. ASSUME NEW c \in Calls, Return(c) PROVE AnswerInv'
    BY <2>5, <2>a DEF Return, Books, Result
  <2>6. ASSUME NEW f \in Calls, Begin(f) PROVE AnswerInv'
    <3>1. CASE future'[f] # "done"
      BY <2>6, <3>1, <2>b DEF Begin
    <3>2. CASE future'[f] = "done"
      <4>1. record[Key(f)] = [print |-> Fingerprint(f), value |-> got'[f]]
        BY <2>6, <3>2, <2>a DEF Begin, SameRequest, Results
      <4>2. /\ future' = [future EXCEPT ![f] = "done"] /\ \A g \in Calls \ {f} : got'[g] = got[g]
            /\ UNCHANGED <<pool, pc, handle, answer, slot, record, process, busy, out>>
        BY <2>6, <3>2 DEF Begin
      <4> QED
        BY <4>1, <4>2, <2>d
    <3> QED
      BY <3>1, <3>2
  <2>7. ASSUME NEW f \in Calls, NEW s \in Slots, Get(f, s) PROVE AnswerInv'
    <3>1. OwnEvidence' /\ OwnChannel'
      BY <2>7 DEF Get, Live, Start, StartFails, Evidence
    <3> QED
      BY <2>7, <3>1, <2>b DEF Get, Live, Start, StartFails, Evidence
  <2>8. ASSUME NEW f \in Calls, Send(f) PROVE AnswerInv'
    <3>1. OwnEvidence' /\ OwnChannel'
      BY <2>8 DEF Send
    <3> QED
      BY <2>8, <3>1, <2>b DEF Send
  <2>9. ASSUME NEW f \in Calls, Receive(f) PROVE AnswerInv'
    <3>1. OwnEvidence' /\ OwnChannel'
      BY <2>9 DEF Receive, PutBack
    <3> QED
      BY <2>9, <3>1, <2>b DEF Receive, PutBack
  <2>10. ASSUME NEW f \in Calls, Broken(f) PROVE AnswerInv'
    <3>1. OwnEvidence' /\ OwnChannel'
      BY <2>10 DEF Broken, Evidence
    <3> QED
      BY <2>10, <3>1, <2>b DEF Broken, Evidence
  <2>11. ASSUME NEW f \in Calls, Stop(f) PROVE AnswerInv'
    <3>1. OwnEvidence' /\ OwnChannel'
      BY <2>11 DEF Stop, PutBack
    <3> QED
      BY <2>11, <3>1, <2>b DEF Stop, PutBack
  <2>12. ASSUME NEW f \in Calls, StopFails(f) PROVE AnswerInv'
    <3>1. OwnEvidence' /\ OwnChannel'
      BY <2>12 DEF StopFails, Fault
    <3> QED
      BY <2>12, <3>1, <2>b DEF StopFails, Fault
  <2>13. ASSUME NEW f \in Calls, Write(f) PROVE AnswerInv'
    BY <2>13, <2>c DEF Write
  <2>14. ASSUME NEW f \in Calls, WriteFails(f) PROVE AnswerInv'
    <3>1. CASE Publishable(f)
      BY <2>14, <3>1, <2>c DEF WriteFails, Fault
    <3>2. CASE ~Publishable(f)
      BY <2>14, <3>2, <2>b DEF WriteFails
    <3> QED
      BY <3>1, <3>2
  <2>15. ASSUME NEW f \in Calls, Forget(f) PROVE AnswerInv'
    <3>1. OwnEvidence' /\ OwnChannel'
      BY <2>15 DEF Forget
    <3> QED
      BY <2>15, <3>1, <2>b DEF Forget
  <2>16. ASSUME NEW f \in Calls, Release(f) PROVE AnswerInv'
    <3>1. OwnEvidence' /\ OwnChannel'
      BY <2>16 DEF Release
    <3> QED
      BY <2>16, <3>1, <2>b DEF Release
  <2>17. ASSUME NEW s \in Slots, Answer(s) PROVE AnswerInv'
    <3>1. OwnEvidence' /\ OwnChannel'
      BY <2>17 DEF Answer, Evidence
    <3> QED
      BY <2>17, <3>1, <2>b DEF Answer, Evidence
  <2>18. ASSUME NEW s \in Slots, Die(s) PROVE AnswerInv'
    <3>1. OwnEvidence' /\ OwnChannel'
      BY <2>18 DEF Die, Fault
    <3> QED
      BY <2>18, <3>1, <2>b DEF Die, Fault
  <2>19. ASSUME Open PROVE AnswerInv'
    BY <2>19, <2>a DEF Open, Result, Books, NoPool
  <2>20. ASSUME Close PROVE AnswerInv'
    <3>1. OwnEvidence' /\ OwnChannel'
      BY <2>20 DEF Close
    <3> QED
      BY <2>20, <3>1, <2>b DEF Close
  <2>21. ASSUME Reclaim PROVE AnswerInv'
    <3>1. OwnEvidence' /\ OwnChannel'
      BY <2>21 DEF Reclaim, Fault
    <3> QED
      BY <2>21, <3>1, <2>b DEF Reclaim, Fault
  <2>22. ASSUME Gone PROVE AnswerInv'
    BY <2>22, <2>a DEF Gone, Result
  <2>23. ASSUME UNCHANGED vars PROVE AnswerInv'
    BY <2>23, <2>a DEF vars, Result
  <2> QED
    BY <2>1, <2>2, <2>3, <2>4, <2>5, <2>6, <2>7, <2>8, <2>9, <2>10, <2>11, <2>12, <2>13,
       <2>14, <2>15, <2>16, <2>17, <2>18, <2>19, <2>20, <2>21, <2>22, <2>23 DEF Next,
       CallStep, RunStep
<1> QED
  BY <1>1, <1>2, TypeInvariance, BooksInvariance, SlotInvariance, PTL DEF Spec

\* All answers to an attempt are the one on disk, made for that request.
THEOREM AnswersAgreeHolds == Spec => []AnswersAgree
<1>1. Typed /\ AnswerInv => AnswersAgree
  <2> SUFFICES ASSUME Typed, AnswerInv, NEW c \in Calls, pc[c] = "done"
               PROVE /\ record[Key(c)] = [print |-> Fingerprint(c), value |-> answer[c]]
                     /\ Key(answer[c][1]) = Key(c) /\ Fingerprint(answer[c][1]) = Fingerprint(c)
    BY DEF AnswersAgree
  <2>1. record[Key(c)] = [print |-> Fingerprint(c), value |-> answer[c]]
    BY DEF AnswerInv, Answered
  <2>2. record[Key(c)] # None
    BY <2>1, Asked, Constants DEF Typed, Submitters, Results
  <2> QED
    BY <2>1, <2>2, Asked DEF Typed, AnswerInv, OwnFile
<1> QED
  BY <1>1, TypeInvariance, AnswerInvariance, PTL
=============================================================================
