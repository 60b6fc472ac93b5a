----------------------- MODULE GeneralizationLearner -----------------------
(***************************************************************************)
(* A learner that debits its token budget before it works, over crashes    *)
(* and resumes: Ledger (generalization/budgets.py), train_updates and      *)
(* run_torch (pipeline_validation/generalization_training.py), the journal *)
(* of the hourly policy (generalization_persistence.py), pin_plan          *)
(* (generalization/checkpoints.py) and the generations of                  *)
(* GeneralizationCheckpointStore (fresh/bigint_state.py).  Each invocation *)
(* has a store of its own; a resume reads the last one that is usable.     *)
(* Weights are the sequence of batches trained on; clocks, random state,   *)
(* replay and bytes are left out: time is the choice of when to stop, and  *)
(* a full disk or a failing update is a crash.                             *)
(***************************************************************************)
EXTENDS Integers, Sequences, FiniteSets, FiniteSetsExt

CONSTANTS
  Tokens,         \* what charge_tokens says of each batch of the frozen order
  Cap,            \* target_tokens
  Milestones,     \* exposures whose last complete update is kept
  MaxSaves,       \* generations of a history (a bound)
  MaxInvocations, \* learners of a history (a bound)
  None

Gens == 1 .. MaxSaves
Batches == 1 .. Len(Tokens)

ASSUME LearnerAssumption ==
  /\ Tokens \in Seq(Nat \ {0}) /\ Cap \in Nat \ {0}
  /\ Milestones \subseteq 1 .. Cap
  /\ MaxSaves \in Nat /\ MaxInvocations \in Nat

Ledgers == [consumed : 0 .. Cap, updates : 0 .. Len(Tokens), pending : Nat, debited : BOOLEAN]
\* The state.json of a generation, and the journal of the hourly policy.
Generations ==
  [weights : Seq(Batches), ledger : Ledgers, cursor : 0 .. Len(Tokens), batch : 0 .. Len(Tokens),
   exposures : [Gens -> Nat \cup {None}], miles : [Milestones -> Gens \cup {None}],
   pins : SUBSET Gens, discarded : 0 .. Cap, redo : BOOLEAN]
Journals ==
  [checkpoint : Gens \cup {None}, ledger : Ledgers, discarded : 0 .. Cap, closed : BOOLEAN]

ASSUME NoneIsNothing == /\ None \notin Nat /\ None \notin Ledgers
                        /\ None \notin Generations /\ None \notin Journals

VARIABLES
  policy,      \* "per-update" or "hourly"
  disk,        \* the store a resume would read, see NoStore
  own,         \* the store of the live invocation
  live,        \* its memory, see Fresh; pc is "none" when there is no process
  saves,       \* generations written, the last one's id
  invocations, \* learners started
  published    \* history: tokens of the updates published, but for a Redo

vars == <<policy, disk, own, live, saves, invocations, published>>

---------------------------------------------------------------------------
(* The ledger.                                                             *)

NewLedger == [consumed |-> 0, updates |-> 0, pending |-> 0, debited |-> FALSE]

\* Exposure of complete updates, without a debit that is not yet worked off.
Effective(l) == l.consumed - (IF l.debited THEN l.pending ELSE 0)

\* Variant: a batch that is pending is debited again.
Reserve_again(l, tokens) ==
  LET debit == l.consumed + tokens <= Cap IN
  [l EXCEPT !.pending = tokens, !.debited = debit, !.consumed = IF debit THEN @ + tokens ELSE @]
Reserve(l, tokens) ==
  IF l.pending # 0 THEN l
  ELSE LET debit == l.consumed + tokens <= Cap IN
       [l EXCEPT !.pending = tokens, !.debited = debit,
                 !.consumed = IF debit THEN @ + tokens ELSE @]
Commit(l) == [l EXCEPT !.pending = 0, !.debited = FALSE, !.updates = @ + 1]
Exhausted(l) == l.consumed = Cap \/ (l.pending # 0 /\ ~l.debited)

---------------------------------------------------------------------------
(* Stores and memory.                                                      *)

NoStore == [gens |-> [g \in Gens |-> None], latest |-> None, journal |-> None]
NoMap(S) == [x \in S |-> None]

Fresh ==
  [pc |-> "save", after |-> "loop", ledger |-> NewLedger, weights |-> <<>>, cursor |-> 0,
   batch |-> 0, dirty |-> TRUE, history |-> {}, permanent |-> {}, miles |-> NoMap(Milestones),
   exposures |-> NoMap(Gens), initial |-> None, saved |-> NewLedger, full |-> None,
   discarded |-> 0, stopped |-> FALSE, redo |-> FALSE]
NoProcess == [Fresh EXCEPT !.pc = "none"]

Usable(store) == store.latest # None /\ (policy = "hourly" => store.journal # None)

Init ==
  /\ policy \in {"per-update", "hourly"}
  /\ disk = NoStore /\ own = NoStore /\ live = NoProcess
  /\ saves = 0 /\ invocations = 0 /\ published = 0

---------------------------------------------------------------------------
(* Starting and resuming.                                                  *)

Crossed(l) == {m \in Milestones : l.pending # 0 /\ Effective(l) <= m /\ m < Effective(l) + l.pending}
\* Variant: a milestone inside a batch is not seen coming.
Due_exact(l, miles) == {m \in Milestones : miles[m] = None /\ m = Effective(l)}
Due(l, miles) == {m \in Milestones : miles[m] = None /\ (m = Effective(l) \/ m \in Crossed(l))}
KeepMilestones(l, miles, g) == [m \in Milestones |-> IF m \in Due(l, miles) THEN g ELSE miles[m]]

\* recover: weights roll back, what was spent does not.
JournalRefused(gen, ref, j) ==
  \/ ref # j.checkpoint /\ (gen.ledger.consumed < j.ledger.consumed
                              \/ gen.ledger.updates < j.ledger.updates)
  \/ j.closed /\ ref = j.checkpoint /\ gen.ledger # j.ledger
\* Variant: the exposure that earlier crashes discarded is forgotten.
Total_ledger(gen, j) == Max({gen.ledger.consumed, j.ledger.consumed})
Total(gen, j) == Max({gen.ledger.consumed + gen.discarded, j.ledger.consumed + j.discarded})
Discarded(gen, j) == IF policy = "hourly" THEN Total(gen, j) - gen.ledger.consumed ELSE 0

Start ==
  /\ live.pc = "none" /\ invocations < MaxInvocations /\ ~Usable(disk)
  /\ live' = Fresh /\ own' = NoStore /\ invocations' = invocations + 1
  /\ UNCHANGED <<policy, disk, saves, published>>

\* History: the batch a generation is about to train was trained and published before.  It
\* is trained again for that one debit.
Redo(gen) ==
  /\ gen.ledger.debited
  /\ gen.redo \/ (policy = "hourly" /\ disk.journal.ledger.updates > gen.ledger.updates)

\* The pinned generations are copied; the one resumed from joins them when it is itself
\* a pin, which its own state cannot say yet.
Restored(ref, gen) ==
  LET first == {g \in Gens : gen.exposures[g] # None}
      exposures == [gen.exposures EXCEPT ![ref] = Effective(gen.ledger)]
      initial == IF first = {} THEN ref ELSE Min(first)
      miles == KeepMilestones(gen.ledger, gen.miles, ref)
      need == initial = ref \/ miles # gen.miles
      pins == gen.pins \cup (IF need THEN {ref} ELSE {})
  IN [Fresh EXCEPT !.ledger = gen.ledger, !.weights = gen.weights, !.cursor = gen.cursor,
        !.batch = gen.batch, !.exposures = exposures, !.initial = initial, !.miles = miles,
        !.permanent = pins, !.history = pins, !.saved = gen.ledger,
        !.discarded = Discarded(gen, disk.journal), !.redo = Redo(gen)]

Resume ==
  LET ref == disk.latest  gen == disk.gens[ref] IN
  /\ live.pc = "none" /\ invocations < MaxInvocations /\ Usable(disk)
  /\ policy = "hourly" => ~JournalRefused(gen, ref, disk.journal)
  /\ live' = Restored(ref, gen)
  /\ own' = [NoStore EXCEPT !.gens = [g \in Gens |-> IF g \in live'.permanent THEN disk.gens[g]
                                                                             ELSE None]]
  /\ invocations' = invocations + 1
  /\ UNCHANGED <<policy, disk, saves, published>>

---------------------------------------------------------------------------
(* save: a full generation, or in the hourly policy mostly the journal.    *)

AtBoundary == live.ledger.pending = 0
MustBeFull == policy = "per-update" \/ own.latest = None \/ Due(live.ledger, live.miles) # {}

\* A full save is also due every hour and where the owner asked to stop.
ChooseSave ==
  /\ live.pc = "save"
  /\ \E full \in BOOLEAN, stopped \in BOOLEAN :
       /\ MustBeFull => full
       /\ (full /\ ~MustBeFull) => AtBoundary
       /\ stopped => AtBoundary /\ full
       /\ live' = [live EXCEPT !.pc = IF full THEN "full" ELSE "journal", !.stopped = stopped]
  /\ UNCHANGED <<policy, disk, own, saves, invocations, published>>

Unchanged == own.latest # None /\ ~live.dirty /\ live.ledger.pending # 0
DebitTransition == Reserve(own.gens[own.latest].ledger, live.ledger.pending) = live.ledger

\* GeneralizationCheckpointStore.save: everything is written and verified before the
\* pointer moves.  Unchanged tensors are those of the latest generation.
Generation ==
  [weights |-> IF Unchanged THEN own.gens[own.latest].weights ELSE live.weights,
   ledger |-> live.ledger, cursor |-> live.cursor, batch |-> live.batch,
   exposures |-> live.exposures, miles |-> live.miles, pins |-> live.permanent,
   discarded |-> live.discarded, redo |-> live.redo]

Journal(closed) == [checkpoint |-> own.latest, ledger |-> live.ledger,
                    discarded |-> live.discarded, closed |-> closed]
\* What the save of a finished update makes durable for the first time.
Publishes == IF live.after = "next" /\ ~live.redo THEN Tokens[live.cursor] ELSE 0

WriteGeneration ==
  LET g == saves + 1 IN
  /\ live.pc = "full" /\ saves < MaxSaves /\ saves' = g
  /\ Unchanged => DebitTransition
  /\ own' = [own EXCEPT !.gens[g] = Generation, !.latest = g]
  /\ LET miles == KeepMilestones(live.ledger, live.miles, g)
         first == live.initial = None
     IN live' = [live EXCEPT !.pc = "retain", !.history = @ \cup {g},
                   !.exposures[g] = Effective(live.ledger),
                   !.initial = IF first THEN g ELSE @, !.miles = miles,
                   !.permanent = @ \cup (IF first \/ miles # live.miles THEN {g} ELSE {})]
  /\ published' = published + Publishes
  /\ UNCHANGED <<policy, disk, invocations>>

\* The store refuses tensors it was told are unchanged: the learner dies of the exception.
Leave == /\ live' = NoProcess /\ own' = NoStore
         /\ disk' = IF Usable(own) THEN own ELSE disk

SaveRefused ==
  /\ live.pc = "full" /\ Unchanged /\ ~DebitTransition
  /\ Leave /\ UNCHANGED <<policy, saves, invocations, published>>

\* pin_plan and retain.  A milestone must be named or hit exactly by some generation.
PlanHolds ==
  \A m \in Milestones : m <= Effective(live.ledger) =>
    \/ live.miles[m] # None /\ live.exposures[live.miles[m]] # None
         /\ live.exposures[live.miles[m]] <= m
    \/ \E g \in Gens : live.exposures[g] = m
Exact(m) == {g \in Gens : live.exposures[g] = m}
Pins == {live.initial, own.latest} \cup
        {IF live.miles[m] # None THEN live.miles[m] ELSE Min(Exact(m)) :
           m \in {n \in Milestones : n <= Effective(live.ledger)}}
\* Variant: the generation the run started from is not kept.
Keep_newest == (Pins \ {live.initial}) \cup {own.latest}
Keep == Pins \cup live.permanent

Retain ==
  /\ live.pc = "retain" /\ PlanHolds /\ Keep \subseteq live.history
  /\ own' = [own EXCEPT !.gens = [g \in Gens |-> IF g \in live.history \ Keep THEN None
                                                                             ELSE own.gens[g]]]
  /\ live' = [live EXCEPT !.history = Keep, !.dirty = FALSE, !.full = live.ledger,
                          !.pc = IF live.after = "close" THEN "close" ELSE "journal"]
  /\ UNCHANGED <<policy, disk, saves, invocations, published>>

\* saved_ledger moves and, in the hourly policy, so does the journal.
WriteJournal ==
  /\ live.pc = "journal"
  /\ live' = [live EXCEPT !.saved = live.ledger,
                          !.pc = IF live.stopped THEN "terminal" ELSE live.after]
  /\ own' = IF policy = "hourly"
            THEN [own EXCEPT !.journal = Journal(FALSE)] ELSE own
  /\ published' = published + (IF live.full # live.ledger THEN Publishes ELSE 0)
  /\ UNCHANGED <<policy, disk, saves, invocations>>

---------------------------------------------------------------------------
(* train_updates                                                           *)

\* The deadline, the budget or the batches end; so does a save that exhausted the ledger.
Spent == live.ledger.consumed + live.discarded = Cap /\ ~live.ledger.debited
EndTraining ==
  /\ \/ live.pc \in {"loop", "update"}
     \/ live.pc = "next" /\ Exhausted(live.ledger)
  /\ live' = [live EXCEPT !.pc = "terminal"]
  /\ UNCHANGED <<policy, disk, own, saves, invocations, published>>

NextUpdate ==
  /\ live.pc = "next" /\ ~Exhausted(live.ledger)
  /\ live' = [live EXCEPT !.pc = "loop"]
  /\ UNCHANGED <<policy, disk, own, saves, invocations, published>>

\* The next batch, or the pending one of a resumed ledger, is debited; a batch that does
\* not fit next to what was discarded stays pending without a debit.
\* Variant: the exposure that crashes discarded takes no room.
Fits_ledger(tokens) == live.ledger.consumed + tokens <= Cap
Fits(tokens) == live.ledger.consumed + tokens + live.discarded <= Cap

TakeBatch ==
  /\ live.pc = "loop" /\ ~Spent
  /\ live.batch = 0 => live.cursor < Len(Tokens)
  /\ LET cursor == IF live.batch = 0 THEN live.cursor + 1 ELSE live.cursor
         l == live.ledger
         tokens == Tokens[cursor]
         ledger == IF l.pending = 0 /\ ~Fits(tokens)
                   THEN [l EXCEPT !.pending = tokens, !.debited = FALSE]
                   ELSE Reserve(l, tokens)
     IN live' = [live EXCEPT !.cursor = cursor, !.batch = cursor, !.ledger = ledger,
                             !.redo = @ /\ live.batch # 0,
                             !.pc = "save", !.after = "update"]
  /\ UNCHANGED <<policy, disk, own, saves, invocations, published>>

Update ==
  /\ live.pc = "update" /\ live.ledger.debited
  /\ live' = [live EXCEPT !.weights = Append(@, live.batch), !.dirty = TRUE, !.batch = 0,
                          !.ledger = Commit(@), !.pc = "save", !.after = "next"]
  /\ UNCHANGED <<policy, disk, own, saves, invocations, published>>

\* Orderly end: the live state is published once more if the last generation is older.
FinalSave ==
  /\ live.pc = "terminal"
  /\ live' = [live EXCEPT !.pc = IF policy = "hourly" /\ live.full # live.saved THEN "full"
                                 ELSE "close", !.after = "close"]
  /\ UNCHANGED <<policy, disk, own, saves, invocations, published>>

Finish ==
  /\ live.pc = "close"
  /\ disk' = IF policy = "hourly"
             THEN [own EXCEPT !.journal = Journal(TRUE)] ELSE own
  /\ live' = NoProcess /\ own' = NoStore
  /\ UNCHANGED <<policy, saves, invocations, published>>

Crash ==
  /\ live.pc # "none"
  /\ Leave /\ UNCHANGED <<policy, saves, invocations, published>>

Next ==
  \/ Start \/ Resume \/ ChooseSave \/ WriteGeneration \/ SaveRefused \/ Retain \/ WriteJournal
  \/ EndTraining \/ NextUpdate \/ TakeBatch \/ Update \/ FinalSave \/ Finish \/ Crash

Spec == Init /\ [][Next]_vars

---------------------------------------------------------------------------
(* Properties.                                                             *)

Exposure[k \in 0 .. Len(Tokens)] == IF k = 0 THEN 0 ELSE Exposure[k - 1] + Tokens[k]
\* The last complete update at or below an exposure.
Boundary(m) == Max({Exposure[k] : k \in {j \in 0 .. Len(Tokens) : Exposure[j] <= m}})

TypeOK ==
  /\ policy \in {"per-update", "hourly"} /\ saves \in 0 .. MaxSaves
  /\ invocations \in 0 .. MaxInvocations /\ published \in Nat
  /\ live.ledger \in Ledgers /\ live.saved \in Ledgers /\ live.full \in Ledgers \cup {None}
  /\ live.weights \in Seq(Batches) /\ live.cursor \in 0 .. Len(Tokens)
  /\ live.history \subseteq Gens /\ live.permanent \subseteq Gens
  /\ live.discarded \in 0 .. Cap
  /\ live.pc \in {"none", "save", "full", "retain", "journal", "loop", "next", "update",
                  "terminal", "close"}

\* A generation holds the weights its ledger claims: the batches in their frozen order, each
\* once, the pending one next.  Reused tensors, rolled back updates and resumes keep that.
Faithful(gen) ==
  /\ gen.weights = [i \in 1 .. gen.ledger.updates |-> i]
  /\ Effective(gen.ledger) = Exposure[gen.ledger.updates]
  /\ gen.batch = 0 <=> gen.ledger.pending = 0
  /\ gen.cursor = gen.ledger.updates + (IF gen.batch = 0 THEN 0 ELSE 1)
  /\ gen.batch # 0 => gen.batch = gen.cursor /\ gen.ledger.pending = Tokens[gen.batch]
GenerationsFaithful ==
  \A store \in {disk, own} : \A g \in Gens : store.gens[g] # None => Faithful(store.gens[g])

\* What a resume now would start from.
Charge(store) == IF policy = "hourly" THEN Total(store.gens[store.latest], store.journal)
                                      ELSE store.gens[store.latest].ledger.consumed
Current == IF live.pc # "none" /\ Usable(own) THEN own ELSE disk
Charged == IF Usable(Current) THEN Charge(Current) ELSE 0

Safe == TypeOK /\ GenerationsFaithful

\* Every update ever published, also one that a crash rolled back, stays charged (but for
\* the redo of one debited batch), within the cap; and no update runs before its debit is on disk.
WorkIsCharged ==
  /\ published <= Charged /\ Charged <= Cap
  /\ live.pc = "update" /\ live.ledger.debited =>
       LET kept == IF policy = "hourly" THEN own.journal.ledger ELSE own.gens[own.latest].ledger
       IN kept = live.ledger

\* Weights roll back at a crash; the budget never does, as long as the operator resumes the
\* last usable store (the code takes it as an argument).
NeverRefunded == [][Charged' >= Charged]_vars

\* Whatever crashes and resumes did, a milestone names a generation of this store at the last
\* complete update at or below it, and none is missed.
MilestonesExact ==
  /\ \A m \in Milestones : live.miles[m] # None /\ live.pc # "none" =>
       /\ own.gens[live.miles[m]] # None
       /\ Effective(own.gens[live.miles[m]].ledger) = Boundary(m)
  /\ live.pc \in {"loop", "update", "next", "terminal", "close"} =>
       \A m \in Milestones : m <= Effective(live.ledger) => live.miles[m] # None

\* A resume finds every generation it copies, recover() accepts the journal, and retain()
\* never misses a pin.
Resumable ==
  /\ Usable(disk) => /\ \A g \in disk.gens[disk.latest].pins : disk.gens[g] # None
                     /\ policy = "hourly" =>
                          ~JournalRefused(disk.gens[disk.latest], disk.latest, disk.journal)
  /\ live.pc = "retain" => PlanHolds /\ Keep \subseteq live.history

\* "unchanged tensor debit transition required" (the store's check of its caller).
UnchangedIsADebit == live.pc = "full" /\ Unchanged => DebitTransition
=============================================================================
