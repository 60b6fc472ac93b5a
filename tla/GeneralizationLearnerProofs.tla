-------------------- MODULE GeneralizationLearnerProofs --------------------
(* Proofs about GeneralizationLearner for every frozen order of batches, cap, set of     *)
(* milestones, and all numbers of saves and invocations.                                 *)
EXTENDS GeneralizationLearner, SequenceTheorems, WellFoundedInduction, TLAPS

\* A set of natural numbers has a least element.
LEMMA Least == ASSUME NEW S \in SUBSET Nat, S # {} PROVE \E m \in S : \A k \in S : m <= k
<1>1. PICK m \in S : \A k \in S : ~ (<<k, m>> \in OpToRel(<, Nat))
  BY NatLessThanWellFounded, WFMin
<1>2. OpToRel(<, Nat) = {p \in Nat \X Nat : p[1] < p[2]}
  BY DEF OpToRel
<1>3. ASSUME NEW k \in S PROVE m <= k
  <2>1. <<k, m>> \notin OpToRel(<, Nat)
    BY <1>1
  <2>2. ~ (k < m)
    BY <1>2, <2>1
  <2> QED
    BY <2>2
<1> QED
  BY <1>3

\* Min of FiniteSetsExt returns it.
LEMMA MinIsLeast ==
  ASSUME NEW S \in SUBSET Nat, S # {}
  PROVE  Min(S) \in S /\ \A k \in S : Min(S) <= k
<1>1. \E m \in S : \A k \in S : m <= k
  BY Least
<1> QED
  BY <1>1 DEF Min

\* Max of FiniteSetsExt returns the only upper bound that is a member.
LEMMA MaxIs ==
  ASSUME NEW S \in SUBSET Nat, NEW m \in S, \A k \in S : k <= m
  PROVE  Max(S) = m
<1>1. \A k \in S : m >= k
  OBVIOUS
<1>2. Max(S) \in S /\ \A k \in S : Max(S) >= k
  BY <1>1 DEF Max
<1>3. Max(S) \in Nat /\ m \in Nat /\ Max(S) >= m /\ m >= Max(S)
  BY <1>1, <1>2
<1> QED
  BY <1>3

(***************************************************************************)
(* The exposure after each batch.                                          *)
(***************************************************************************)
LEMMA Sizes ==
  /\ Len(Tokens) \in Nat /\ \A k \in 1 .. Len(Tokens) : Tokens[k] \in Nat /\ Tokens[k] > 0
  /\ Cap \in Nat /\ MaxSaves \in Nat /\ MaxInvocations \in Nat
  /\ \A m \in Milestones : m \in Nat /\ m >= 1 /\ m <= Cap
  /\ Gens \subseteq Nat /\ None \notin Gens
<1>1. Tokens \in Seq(Nat \ {0})
  BY LearnerAssumption DEF LearnerAssumption
<1>2. Len(Tokens) \in Nat /\ \A k \in 1 .. Len(Tokens) : Tokens[k] \in Nat \ {0}
  BY <1>1
<1>3. Gens \subseteq Nat
  BY LearnerAssumption DEF LearnerAssumption, Gens
<1>4. Cap \in Nat /\ MaxSaves \in Nat /\ MaxInvocations \in Nat /\ Milestones \subseteq 1 .. Cap
  BY LearnerAssumption DEF LearnerAssumption
<1>5. None \notin Gens
  BY <1>3, NoneIsNothing DEF NoneIsNothing
<1>6. \A m \in Milestones : m \in Nat /\ m >= 1 /\ m <= Cap
  BY <1>4
<1>7. \A k \in 1 .. Len(Tokens) : Tokens[k] \in Nat /\ Tokens[k] > 0
  BY <1>2
<1> QED
  BY <1>2, <1>3, <1>4, <1>5, <1>6, <1>7

\* The functions that sum the first n batches.
Sums(n) == {f \in [0 .. n -> Nat] : f[0] = 0 /\ \A k \in 1 .. n : f[k] = f[k - 1] + Tokens[k]}

\* Partial sums of the batches exist up to every length, so that Exposure is what it says.
LEMMA SumsExist == \A n \in 0 .. Len(Tokens) : Sums(n) # {}
<1> DEFINE Bad == {n \in 0 .. Len(Tokens) : Sums(n) = {}}
<1> SUFFICES ASSUME Bad # {} PROVE FALSE
  OBVIOUS
<1>1. PICK n \in Bad : \A k \in Bad : n <= k
  <2>1. Bad \in SUBSET Nat
    BY Sizes
  <2> QED
    BY <2>1, Least
<1>2. n \in Nat /\ n <= Len(Tokens) /\ Sums(n) = {} /\ Len(Tokens) \in Nat
  BY <1>1, Sizes
<1>3. CASE n = 0
  <2>1. [k \in 0 .. 0 |-> 0] \in Sums(0)
    BY DEF Sums
  <2> QED
    BY <1>2, <1>3, <2>1
<1>4. CASE n # 0
  <2>1. n - 1 \in 0 .. Len(Tokens) /\ ~ (n <= n - 1)
    BY <1>2, <1>4
  <2>2. n - 1 \notin Bad
    BY <1>1, <2>1
  <2>3. PICK f \in Sums(n - 1) : TRUE
    BY <2>1, <2>2
  <2>4. f \in [0 .. n - 1 -> Nat] /\ f[0] = 0 /\ \A k \in 1 .. n - 1 : f[k] = f[k - 1] + Tokens[k]
    BY <2>3 DEF Sums
  <2> DEFINE g == [k \in 0 .. n |-> IF k = n THEN f[n - 1] + Tokens[n] ELSE f[k]]
  <2>5. Tokens[n] \in Nat /\ f[n - 1] \in Nat
    <3>1. n \in 1 .. Len(Tokens) /\ n - 1 \in 0 .. n - 1
      BY <1>2, <1>4
    <3> QED
      BY <2>4, <3>1, Sizes
  <2>6. g \in [0 .. n -> Nat]
    <3>1. ASSUME NEW k \in 0 .. n PROVE (IF k = n THEN f[n - 1] + Tokens[n] ELSE f[k]) \in Nat
      <4>1. CASE k = n
        BY <2>5, <4>1
      <4>2. CASE k # n
        <5>1. k \in 0 .. n - 1
          BY <1>2, <4>2
        <5> QED
          BY <2>4, <4>2, <5>1
      <4> QED
        BY <4>1, <4>2
    <3> QED
      BY <3>1
  <2>7. ASSUME NEW k \in 1 .. n PROVE g[k] = g[k - 1] + Tokens[k]
    <3>1. k - 1 \in 0 .. n /\ k \in 0 .. n /\ k - 1 # n /\ k - 1 \in 0 .. n - 1
      BY <1>2
    <3>2. g[k - 1] = f[k - 1]
      BY <3>1
    <3>3. CASE k = n
      BY <3>1, <3>2, <3>3
    <3>4. CASE k # n
      <4>1. k \in 1 .. n - 1
        BY <1>2, <3>4
      <4> QED
        BY <2>4, <3>1, <3>2, <3>4, <4>1
    <3> QED
      BY <3>3, <3>4
  <2>8. g[0] = 0
    BY <1>2, <1>4, <2>4
  <2>9. g \in Sums(n)
    <3> HIDE DEF g
    <3> QED
      BY <2>6, <2>7, <2>8 DEF Sums
  <2> QED
    BY <1>2, <2>9
<1> QED
  BY <1>3, <1>4

\* Exposure is the sum of the batches.
LEMMA ExposureSums ==
  /\ Exposure \in [0 .. Len(Tokens) -> Nat] /\ Exposure[0] = 0
  /\ \A k \in 1 .. Len(Tokens) : Exposure[k] = Exposure[k - 1] + Tokens[k]
<1> DEFINE N == Len(Tokens)
           Rec(f) == [k \in 0 .. N |-> IF k = 0 THEN 0 ELSE f[k - 1] + Tokens[k]]
<1>1. N \in Nat
  BY Sizes
<1>2. PICK f \in Sums(N) : TRUE
  BY <1>1, SumsExist
<1>3. f \in [0 .. N -> Nat] /\ f[0] = 0 /\ \A k \in 1 .. N : f[k] = f[k - 1] + Tokens[k]
  BY <1>2 DEF Sums
<1>4. f = Rec(f)
  <2>1. ASSUME NEW k \in 0 .. N PROVE f[k] = IF k = 0 THEN 0 ELSE f[k - 1] + Tokens[k]
    <3>1. CASE k = 0
      BY <1>3, <3>1
    <3>2. CASE k # 0
      <4>1. k \in 1 .. N
        BY <1>1, <3>2
      <4> QED
        BY <1>3, <3>2, <4>1
    <3> QED
      BY <3>1, <3>2
  <2> QED
    BY <1>3, <2>1
<1>5. Exposure = Rec(Exposure)
  BY <1>4 DEF Exposure
<1>6. ASSUME NEW h, h = Rec(h) PROVE h = f
  <2>1. ASSUME NEW n \in 0 .. N, h[n] # f[n] PROVE FALSE
    <3> DEFINE Bad == {k \in 0 .. N : h[k] # f[k]}
    <3>1. PICK b \in Bad : \A k \in Bad : b <= k
      <4>1. Bad \in SUBSET Nat /\ Bad # {}
        BY <1>1, <2>1
      <4> HIDE DEF Bad
      <4> QED
        BY <4>1, Least
    <3>2. b \in 0 .. N /\ h[b] # f[b]
      BY <3>1
    <3>3. h[b] = IF b = 0 THEN 0 ELSE h[b - 1] + Tokens[b]
      BY <1>6, <3>2
    <3>4. f[b] = IF b = 0 THEN 0 ELSE f[b - 1] + Tokens[b]
      BY <1>4, <3>2
    <3>5. b # 0
      BY <3>2, <3>3, <3>4
    <3>6. b - 1 \in 0 .. N /\ ~ (b <= b - 1)
      BY <1>1, <3>2, <3>5
    <3>7. h[b - 1] = f[b - 1]
      BY <3>1, <3>6
    <3> QED
      BY <3>2, <3>3, <3>4, <3>5, <3>7
  <2> QED
    BY <1>3, <1>6, <2>1
<1>7. Exposure = f
  BY <1>5, <1>6
<1> QED
  BY <1>3, <1>7

\* It grows with every batch.
LEMMA ExposureGrows ==
  ASSUME NEW i \in 0 .. Len(Tokens), NEW j \in 0 .. Len(Tokens), i < j
  PROVE  Exposure[i] < Exposure[j]
<1> DEFINE Bad == {n \in 0 .. Len(Tokens) : i < n /\ ~ (Exposure[i] < Exposure[n])}
<1> SUFFICES ASSUME Bad # {} PROVE FALSE
  OBVIOUS
<1>1. PICK n \in Bad : \A k \in Bad : n <= k
  <2>1. Bad \in SUBSET Nat
    BY Sizes
  <2> HIDE DEF Bad
  <2> QED
    BY <2>1, Least
<1>2. /\ n \in 1 .. Len(Tokens) /\ i < n /\ n - 1 \in 0 .. Len(Tokens)
      /\ ~ (Exposure[i] < Exposure[n])
  BY <1>1, Sizes
<1>3. /\ Exposure[n] = Exposure[n - 1] + Tokens[n] /\ Tokens[n] \in Nat /\ Tokens[n] > 0
      /\ Exposure[n] \in Nat /\ Exposure[n - 1] \in Nat /\ Exposure[i] \in Nat
  BY <1>2, ExposureSums, Sizes
<1>4. CASE i = n - 1
  BY <1>2, <1>3, <1>4
<1>5. CASE i # n - 1
  <2>1. n - 1 \in Bad
    BY <1>2, <1>3, <1>5
  <2>2. ~ (n <= n - 1)
    BY <1>2
  <2> QED
    BY <1>1, <2>1, <2>2
<1> QED
  BY <1>4, <1>5

\* The last complete update at or below an exposure, seen from that update.
LEMMA BoundaryIs ==
  ASSUME NEW u \in 0 .. Len(Tokens), NEW m \in Nat, Exposure[u] <= m,
         m = Exposure[u] \/ (u < Len(Tokens) /\ m < Exposure[u] + Tokens[u + 1])
  PROVE  Boundary(m) = Exposure[u]
<1> DEFINE S == {Exposure[k] : k \in {j \in 0 .. Len(Tokens) : Exposure[j] <= m}}
<1>1. S \in SUBSET Nat /\ Exposure[u] \in S
  BY ExposureSums
<1>2. ASSUME NEW k \in 0 .. Len(Tokens), Exposure[k] <= m PROVE Exposure[k] <= Exposure[u]
  <2>1. Exposure[k] \in Nat /\ Exposure[u] \in Nat /\ k \in Nat /\ u \in Nat /\ Len(Tokens) \in Nat
    <3>1. Len(Tokens) \in Nat /\ k \in Nat /\ u \in Nat
      BY Sizes
    <3>2. Exposure \in [0 .. Len(Tokens) -> Nat]
      BY ExposureSums
    <3> QED
      BY <3>1, <3>2
  <2>2. CASE k <= u
    <3>1. CASE k = u
      BY <2>1, <3>1
    <3>2. CASE k # u
      <4>1. k < u
        BY <2>1, <2>2, <3>2
      <4> QED
        BY <2>1, <4>1, ExposureGrows
    <3> QED
      BY <3>1, <3>2
  <2>3. CASE u < k /\ m # Exposure[u]
    <3>1. u + 1 \in 1 .. Len(Tokens) /\ (u + 1) - 1 = u
      BY <2>1, <2>3
    <3>2. Exposure[u + 1] = Exposure[u] + Tokens[u + 1] /\ Exposure[u + 1] \in Nat
      BY <3>1, ExposureSums
    <3>3. Exposure[u + 1] <= Exposure[k]
      <4>1. CASE k = u + 1
        BY <3>2, <4>1
      <4>2. CASE k # u + 1
        <5>1. u + 1 < k /\ u + 1 \in 0 .. Len(Tokens)
          BY <2>1, <2>3, <3>1, <4>2
        <5> QED
          BY <2>1, <3>2, <5>1, ExposureGrows
      <4> QED
        BY <4>1, <4>2
    <3> QED
      BY <1>2, <2>1, <2>3, <3>2, <3>3
  <2>4. CASE m = Exposure[u]
    BY <1>2, <2>4
  <2> QED
    BY <2>1, <2>2, <2>3, <2>4
<1>3. \A x \in S : x <= Exposure[u]
  BY <1>2
<1> HIDE DEF S
<1>4. Max(S) = Exposure[u]
  BY <1>1, <1>3, MaxIs
<1> QED
  BY <1>4 DEF S, Boundary


(***************************************************************************)
(* The memory of a learner and the stores, as sets of records, and what    *)
(* each action does to their fields.                                       *)
(***************************************************************************)
PCs == {"none", "save", "full", "retain", "journal", "loop", "next", "update", "terminal", "close"}
Lives ==
  [pc : PCs, after : {"loop", "update", "next", "close"}, ledger : Ledgers, weights : Seq(Batches),
   cursor : 0 .. Len(Tokens), batch : 0 .. Len(Tokens), dirty : BOOLEAN, history : SUBSET Gens,
   permanent : SUBSET Gens, miles : [Milestones -> Gens \cup {None}],
   exposures : [Gens -> Nat \cup {None}], initial : Gens \cup {None}, saved : Ledgers,
   full : Ledgers \cup {None}, discarded : 0 .. Cap, stopped : BOOLEAN, redo : BOOLEAN]
Stores ==
  [gens : [Gens -> Generations \cup {None}], latest : Gens \cup {None},
   journal : Journals \cup {None}]

\* The training state, the pins, and the ledgers of the last saves.
Work == <<live.ledger, live.weights, live.cursor, live.batch, live.redo>>
PinBooks == <<live.permanent, live.miles, live.exposures, live.initial>>
Saved == <<live.saved, live.full>>

\* The steps of the loop that leave the pins and what a crash discarded alone.
LEMMA OfChooseSave ==
  ASSUME live \in Lives, ChooseSave
  PROVE  /\ live.pc = "save" /\ live'.pc \in {"full", "journal"}
         /\ live'.pc = "journal" => ~MustBeFull
         /\ UNCHANGED <<policy, disk, own, saves, invocations, published>>
         /\ UNCHANGED <<Work, PinBooks, Saved, live.history, live.dirty, live.after,
                        live.discarded>>
         /\ live' \in Lives
<1>1. PICK full \in BOOLEAN, stopped \in BOOLEAN :
        /\ MustBeFull => full
        /\ live' = [live EXCEPT !.pc = IF full THEN "full" ELSE "journal", !.stopped = stopped]
  BY DEF ChooseSave
<1>2. live.pc = "save" /\ UNCHANGED <<policy, disk, own, saves, invocations, published>>
  BY DEF ChooseSave
<1> QED
  BY <1>1, <1>2 DEF Lives, PCs, Work, PinBooks, Saved

\* Training ends where it is in the loop; nothing but the pc moves.
LEMMA OfEndTraining ==
  ASSUME live \in Lives, EndTraining
  PROVE  /\ live.pc \in {"loop", "update", "next"} /\ live'.pc = "terminal"
         /\ UNCHANGED <<policy, disk, own, saves, invocations, published>>
         /\ UNCHANGED <<Work, PinBooks, Saved, live.history, live.dirty, live.after,
                        live.discarded>>
         /\ live' \in Lives
BY DEF EndTraining, Lives, PCs, Work, PinBooks, Saved

\* The loop goes on after an update.
LEMMA OfNextUpdate ==
  ASSUME live \in Lives, NextUpdate
  PROVE  /\ live.pc = "next" /\ live'.pc = "loop"
         /\ UNCHANGED <<policy, disk, own, saves, invocations, published>>
         /\ UNCHANGED <<Work, PinBooks, Saved, live.history, live.dirty, live.after,
                        live.discarded>>
         /\ live' \in Lives
BY DEF NextUpdate, Lives, PCs, Work, PinBooks, Saved

\* The orderly end publishes once more or closes.
LEMMA OfFinalSave ==
  ASSUME live \in Lives, FinalSave
  PROVE  /\ live.pc = "terminal" /\ live'.after = "close"
         /\ live'.pc = IF policy = "hourly" /\ live.full # live.saved THEN "full" ELSE "close"
         /\ UNCHANGED <<policy, disk, own, saves, invocations, published>>
         /\ UNCHANGED <<Work, PinBooks, Saved, live.history, live.dirty, live.discarded>>
         /\ live' \in Lives
BY DEF FinalSave, Lives, PCs, Work, PinBooks, Saved

\* saved_ledger follows the ledger; the journal does so in the hourly policy.
LEMMA OfWriteJournal ==
  ASSUME live \in Lives, WriteJournal
  PROVE  /\ live.pc = "journal" /\ live'.pc \in {"terminal", live.after}
         /\ live'.saved = live.ledger
         /\ own' = IF policy = "hourly" THEN [own EXCEPT !.journal = Journal(FALSE)] ELSE own
         /\ published' = published + (IF live.full # live.ledger THEN Publishes ELSE 0)
         /\ UNCHANGED <<policy, disk, saves, invocations>>
         /\ UNCHANGED <<Work, PinBooks, live.full, live.history, live.dirty, live.after,
                        live.discarded>>
         /\ live' \in Lives
BY DEF WriteJournal, Lives, PCs, Work, PinBooks, Saved

\* The ledger TakeBatch leaves: the batch is debited, or pends without a debit.
LEMMA OfTakeBatch ==
  ASSUME live \in Lives, TakeBatch
  PROVE  /\ live.pc = "loop" /\ live'.pc = "save" /\ live'.after = "update"
         /\ live'.cursor = (IF live.batch = 0 THEN live.cursor + 1 ELSE live.cursor)
         /\ live.batch = 0 => live.cursor < Len(Tokens)
         /\ live'.batch = live'.cursor
         /\ LET l == live.ledger  tokens == Tokens[live'.cursor] IN
              live'.ledger = IF l.pending = 0 /\ ~Fits(tokens)
                             THEN [l EXCEPT !.pending = tokens, !.debited = FALSE]
                             ELSE Reserve(l, tokens)
         /\ live'.redo = (live.redo /\ live.batch # 0)
         /\ UNCHANGED <<policy, disk, own, saves, invocations, published>>
         /\ UNCHANGED <<PinBooks, Saved, live.history, live.weights, live.dirty, live.discarded>>
         /\ live'.ledger \in Ledgers /\ live'.cursor \in 0 .. Len(Tokens) => live' \in Lives
<1>1. PICK cursor, ledger, redo :
        /\ cursor = IF live.batch = 0 THEN live.cursor + 1 ELSE live.cursor
        /\ ledger = IF live.ledger.pending = 0 /\ ~Fits(Tokens[cursor])
                    THEN [live.ledger EXCEPT !.pending = Tokens[cursor], !.debited = FALSE]
                    ELSE Reserve(live.ledger, Tokens[cursor])
        /\ redo = (live.redo /\ live.batch # 0)
        /\ live' = [live EXCEPT !.cursor = cursor, !.batch = cursor, !.ledger = ledger,
                                !.redo = redo, !.pc = "save", !.after = "update"]
  BY DEF TakeBatch
<1>2. /\ live.pc = "loop"
      /\ live.batch = 0 => live.cursor < Len(Tokens)
      /\ UNCHANGED <<policy, disk, own, saves, invocations, published>>
  BY DEF TakeBatch
<1>3. /\ live'.pc = "save" /\ live'.after = "update" /\ live'.cursor = cursor
      /\ live'.batch = cursor /\ live'.ledger = ledger /\ live'.redo = redo
      /\ UNCHANGED <<PinBooks, Saved, live.history, live.weights, live.dirty, live.discarded>>
  BY <1>1 DEF Lives, PinBooks, Saved
<1>4. ledger \in Ledgers /\ cursor \in 0 .. Len(Tokens) => live' \in Lives
  <2>1. redo \in BOOLEAN
    BY <1>1
  <2>2. live' = [live EXCEPT !.cursor = cursor, !.batch = cursor, !.ledger = ledger,
                             !.redo = redo, !.pc = "save", !.after = "update"]
    BY <1>1
  <2> QED
    BY <2>1, <2>2 DEF Lives, PCs
<1>5. live'.redo = (live.redo /\ live.batch # 0)
  BY <1>1, <1>3
<1>6. live'.ledger = IF live.ledger.pending = 0 /\ ~Fits(Tokens[live'.cursor])
                     THEN [live.ledger EXCEPT !.pending = Tokens[live'.cursor], !.debited = FALSE]
                     ELSE Reserve(live.ledger, Tokens[live'.cursor])
  BY <1>1, <1>3
<1>7. live'.cursor = IF live.batch = 0 THEN live.cursor + 1 ELSE live.cursor
  BY <1>1, <1>3
<1> QED
  BY <1>2, <1>3, <1>4, <1>5, <1>6, <1>7

\* An update trains the pending batch and commits its debit.
LEMMA OfUpdate ==
  ASSUME live \in Lives, Update
  PROVE  /\ live.pc = "update" /\ live.ledger.debited
         /\ live'.pc = "save" /\ live'.after = "next" /\ live'.dirty = TRUE /\ live'.batch = 0
         /\ live'.weights = Append(live.weights, live.batch)
         /\ live'.ledger = Commit(live.ledger)
         /\ UNCHANGED <<policy, disk, own, saves, invocations, published>>
         /\ UNCHANGED <<PinBooks, Saved, live.history, live.cursor, live.redo, live.discarded>>
         /\ live'.ledger \in Ledgers /\ live'.weights \in Seq(Batches) => live' \in Lives
<1>1. PICK weights, ledger :
        /\ weights = Append(live.weights, live.batch) /\ ledger = Commit(live.ledger)
        /\ live' = [live EXCEPT !.weights = weights, !.dirty = TRUE, !.batch = 0,
                                !.ledger = ledger, !.pc = "save", !.after = "next"]
  BY DEF Update
<1>2. /\ live.pc = "update" /\ live.ledger.debited
      /\ UNCHANGED <<policy, disk, own, saves, invocations, published>>
  BY DEF Update
<1>3. /\ live'.pc = "save" /\ live'.after = "next" /\ live'.dirty = TRUE /\ live'.batch = 0
      /\ live'.weights = weights /\ live'.ledger = ledger
      /\ UNCHANGED <<PinBooks, Saved, live.history, live.cursor, live.redo, live.discarded>>
  BY <1>1 DEF Lives, PinBooks, Saved
<1>4. ledger \in Ledgers /\ weights \in Seq(Batches) => live' \in Lives
  <2>1. 0 \in 0 .. Len(Tokens)
    BY Sizes
  <2> QED
    BY <1>1, <2>1 DEF Lives, PCs
<1> QED
  BY <1>1, <1>2, <1>3, <1>4

\* The two steps of a full save.
LEMMA OfWriteGeneration ==
  ASSUME live \in Lives, own \in Stores, saves \in Nat, Effective(live.ledger) \in Nat,
         WriteGeneration
  PROVE  LET g == saves + 1 IN
         /\ live.pc = "full" /\ live'.pc = "retain" /\ saves < MaxSaves /\ saves' = g
         /\ Unchanged => DebitTransition
         /\ own' \in [gens : {[own.gens EXCEPT ![g] = Generation]}, latest : {g},
                      journal : {own.journal}]
         /\ live'.history = live.history \cup {g}
         /\ live'.exposures = [live.exposures EXCEPT ![g] = Effective(live.ledger)]
         /\ live'.initial = (IF live.initial = None THEN g ELSE live.initial)
         /\ live'.miles = KeepMilestones(live.ledger, live.miles, g)
         /\ live'.permanent = live.permanent
              \cup (IF live.initial = None \/ live'.miles # live.miles THEN {g} ELSE {})
         /\ published' = published + Publishes
         /\ UNCHANGED <<policy, disk, invocations>>
         /\ UNCHANGED <<Work, Saved, live.after, live.dirty, live.discarded>>
         /\ g \in Gens /\ live' \in Lives
<1>1. PICK g, miles :
        /\ g = saves + 1 /\ miles = KeepMilestones(live.ledger, live.miles, g)
        /\ live' = [live EXCEPT !.pc = "retain", !.history = @ \cup {g},
                      !.exposures[g] = Effective(live.ledger),
                      !.initial = IF live.initial = None THEN g ELSE @, !.miles = miles,
                      !.permanent = @ \cup (IF live.initial = None \/ miles # live.miles
                                            THEN {g} ELSE {})]
  BY DEF WriteGeneration
<1>2. /\ live.pc = "full" /\ saves < MaxSaves /\ saves' = saves + 1
      /\ Unchanged => DebitTransition
      /\ own' = [own EXCEPT !.gens[saves + 1] = Generation, !.latest = saves + 1]
      /\ published' = published + Publishes
      /\ UNCHANGED <<policy, disk, invocations>>
  BY DEF WriteGeneration
<1>3. own' \in [gens : {[own.gens EXCEPT ![saves + 1] = Generation]}, latest : {saves + 1},
                journal : {own.journal}]
  BY <1>2 DEF Stores
<1>4. /\ live'.pc = "retain" /\ live'.history = live.history \cup {g}
      /\ live'.exposures = [live.exposures EXCEPT ![g] = Effective(live.ledger)]
      /\ live'.initial = (IF live.initial = None THEN g ELSE live.initial)
      /\ live'.miles = miles
      /\ live'.permanent = live.permanent
           \cup (IF live.initial = None \/ miles # live.miles THEN {g} ELSE {})
      /\ UNCHANGED <<Work, Saved, live.after, live.dirty, live.discarded>>
  BY <1>1 DEF Lives, Work, Saved
<1>5. g \in Gens
  BY <1>1, <1>2, Sizes DEF Gens
<1>6. miles \in [Milestones -> Gens \cup {None}]
  BY <1>1, <1>5 DEF KeepMilestones, Lives
<1>7. PICK e \in Nat : e = Effective(live.ledger)
  OBVIOUS
<1>8. [live.exposures EXCEPT ![g] = e] \in [Gens -> Nat \cup {None}]
  BY <1>5 DEF Lives
<1>9. live' \in Lives
  <2>1. live' = [live EXCEPT !.pc = "retain", !.history = @ \cup {g}, !.exposures[g] = e,
                   !.initial = IF live.initial = None THEN g ELSE @, !.miles = miles,
                   !.permanent = @ \cup (IF live.initial = None \/ miles # live.miles
                                         THEN {g} ELSE {})]
    BY <1>1, <1>7
  <2> QED
    BY <1>5, <1>6, <1>8, <2>1 DEF Lives, PCs
<1> QED
  BY <1>1, <1>2, <1>3, <1>4, <1>5, <1>9

\* retain() drops the generations of the history that are not kept.
LEMMA OfRetain ==
  ASSUME live \in Lives, own \in Stores, Retain
  PROVE  /\ live.pc = "retain" /\ PlanHolds /\ Keep \subseteq live.history
         /\ live'.pc = (IF live.after = "close" THEN "close" ELSE "journal")
         /\ live'.history = Keep /\ live'.dirty = FALSE /\ live'.full = live.ledger
         /\ own' \in [gens : {[g \in Gens |-> IF g \in live.history \ Keep THEN None
                                                                        ELSE own.gens[g]]},
                      latest : {own.latest}, journal : {own.journal}]
         /\ UNCHANGED <<policy, disk, saves, invocations, published>>
         /\ UNCHANGED <<Work, PinBooks, live.saved, live.after, live.discarded>>
         /\ live' \in Lives
<1>1. /\ live.pc = "retain" /\ PlanHolds /\ Keep \subseteq live.history
      /\ own' = [own EXCEPT !.gens = [g \in Gens |-> IF g \in live.history \ Keep THEN None
                                                                        ELSE own.gens[g]]]
      /\ live' = [live EXCEPT !.history = Keep, !.dirty = FALSE, !.full = live.ledger,
                              !.pc = IF live.after = "close" THEN "close" ELSE "journal"]
      /\ UNCHANGED <<policy, disk, saves, invocations, published>>
  BY DEF Retain
<1>2. Keep \in SUBSET Gens /\ live.ledger \in Ledgers \cup {None}
  BY <1>1 DEF Lives
<1>3. PICK keep : keep = Keep
  OBVIOUS
<1>4. /\ live'.pc = (IF live.after = "close" THEN "close" ELSE "journal")
      /\ live'.history = keep /\ live'.dirty = FALSE /\ live'.full = live.ledger
      /\ UNCHANGED <<Work, PinBooks, live.saved, live.after, live.discarded>>
      /\ live' \in Lives
  BY <1>1, <1>2, <1>3 DEF Lives, PCs, Work, PinBooks
<1>5. own' \in [gens : {[g \in Gens |-> IF g \in live.history \ Keep THEN None
                                                                  ELSE own.gens[g]]},
                latest : {own.latest}, journal : {own.journal}]
  BY <1>1 DEF Stores
<1> QED
  BY <1>1, <1>3, <1>4, <1>5


(***************************************************************************)
(* The first layer: types, and what a generation holds.                    *)
(***************************************************************************)
Within(x) == x.ledger.consumed + x.discarded <= Cap

\* Training state and ledger of a learner or a generation agree, within the cap.
Right(x) == Faithful(x) /\ Within(x) /\ (x.ledger.debited => x.ledger.pending # 0)

\* The generation a resume of the store starts from.
Top(s) == s.gens[s.latest]

Whole(s, n) ==
  /\ s \in Stores
  /\ \A g \in Gens : s.gens[g] # None => Right(s.gens[g]) /\ g <= n
  /\ s.latest # None => s.gens[s.latest] # None
  /\ s.journal # None => Within(s.journal)

Linkable == own.latest # None /\ Top(own).weights = live.weights

Sound ==
  /\ policy \in {"per-update", "hourly"} /\ saves \in 0 .. MaxSaves
  /\ invocations \in 0 .. MaxInvocations /\ published \in Nat
  /\ Whole(disk, saves) /\ Whole(own, saves)
  /\ live \in Lives /\ Right(live)
  /\ live.after = "next" => live.batch = 0 /\ live.ledger.updates >= 1
  /\ ~live.dirty \/ live.pc = "retain" => Linkable

\* A learner and a store at their start.
LEMMA AtFirst ==
  /\ Fresh \in Lives /\ NoProcess \in Lives /\ Right(Fresh) /\ Right(NoProcess)
  /\ NoProcess.pc = "none" /\ NoProcess.after = "loop" /\ NoProcess.dirty = TRUE
  /\ NoStore \in Stores /\ \A n : Whole(NoStore, n)
  /\ NoStore.latest = None /\ NoStore.journal = None /\ \A g \in Gens : NoStore.gens[g] = None
<1>1. NewLedger \in Ledgers
  BY Sizes DEF NewLedger, Ledgers
<1>2. <<>> \in Seq(Batches) /\ 0 \in 0 .. Len(Tokens) /\ 0 \in 0 .. Cap
  BY Sizes
<1>3. /\ NoMap(Milestones) \in [Milestones -> Gens \cup {None}]
      /\ NoMap(Gens) \in [Gens -> Nat \cup {None}]
  BY DEF NoMap
<1>4. Fresh \in Lives
  BY <1>1, <1>2, <1>3 DEF Fresh, Lives, PCs
<1>5. NoProcess \in Lives /\ NoProcess = [Fresh EXCEPT !.pc = "none"]
  BY <1>4 DEF NoProcess, Lives, PCs
<1>6. /\ NoProcess.ledger = NewLedger /\ NoProcess.weights = <<>> /\ NoProcess.cursor = 0
      /\ NoProcess.batch = 0 /\ NoProcess.discarded = 0 /\ NoProcess.pc = "none"
      /\ NoProcess.after = "loop" /\ NoProcess.dirty = TRUE
  BY DEF NoProcess, Fresh
<1>7. /\ Fresh.ledger = NewLedger /\ Fresh.weights = <<>> /\ Fresh.cursor = 0
      /\ Fresh.batch = 0 /\ Fresh.discarded = 0
  BY DEF Fresh
<1>8. ASSUME NEW x, x.ledger = NewLedger, x.weights = <<>>, x.cursor = 0, x.batch = 0,
             x.discarded = 0
      PROVE  Right(x)
  <2>1. Effective(NewLedger) = 0 /\ NewLedger.updates = 0 /\ NewLedger.pending = 0
        /\ NewLedger.consumed = 0 /\ NewLedger.debited = FALSE
    BY DEF Effective, NewLedger
  <2>2. <<>> = [i \in 1 .. 0 |-> i]
    OBVIOUS
  <2>3. Faithful(x)
    BY <1>8, <2>1, <2>2, ExposureSums DEF Faithful
  <2>4. 0 + 0 <= Cap
    BY Sizes
  <2> QED
    BY <1>8, <2>1, <2>3, <2>4 DEF Right, Within
<1>9. Right(Fresh) /\ Right(NoProcess)
  BY <1>6, <1>7, <1>8
<1>10. /\ NoStore \in Stores /\ NoStore.latest = None /\ NoStore.journal = None
       /\ \A g \in Gens : NoStore.gens[g] = None
  BY DEF NoStore, Stores
<1>11. \A n : Whole(NoStore, n)
  BY <1>10 DEF Whole
<1> QED
  BY <1>4, <1>5, <1>6, <1>9, <1>10, <1>11

\* What the fields of a learner or a generation are.
LEMMA RightIs ==
  ASSUME NEW x, Right(x), x.ledger \in Ledgers, x.cursor \in 0 .. Len(Tokens),
         x.batch \in 0 .. Len(Tokens), x.discarded \in 0 .. Cap
  PROVE  /\ x.weights = [i \in 1 .. x.ledger.updates |-> i]
         /\ x.ledger.consumed \in Nat /\ x.ledger.updates \in 0 .. Len(Tokens)
         /\ x.ledger.pending \in Nat /\ x.ledger.debited \in BOOLEAN /\ x.discarded \in Nat
         /\ x.ledger.consumed + x.discarded <= Cap
         /\ Effective(x.ledger) = Exposure[x.ledger.updates]
         /\ Exposure[x.ledger.updates] \in Nat /\ Effective(x.ledger) \in Nat
         /\ x.batch = 0 => /\ x.ledger.pending = 0 /\ ~x.ledger.debited
                           /\ x.cursor = x.ledger.updates
                           /\ x.ledger.consumed = Exposure[x.ledger.updates]
         /\ x.batch # 0 => /\ x.ledger.updates < Len(Tokens) /\ x.cursor = x.ledger.updates + 1
                           /\ x.batch = x.cursor
                           /\ x.ledger.pending = Tokens[x.ledger.updates + 1]
                           /\ x.ledger.pending > 0
         /\ x.ledger.debited =>
              x.ledger.consumed = Exposure[x.ledger.updates] + x.ledger.pending
         /\ ~x.ledger.debited => x.ledger.consumed = Exposure[x.ledger.updates]
<1>1. /\ x.ledger.consumed \in 0 .. Cap /\ x.ledger.updates \in 0 .. Len(Tokens)
      /\ x.ledger.pending \in Nat /\ x.ledger.debited \in BOOLEAN
  BY DEF Ledgers
<1>2. Exposure \in [0 .. Len(Tokens) -> Nat]
  BY ExposureSums
<1>3. /\ x.weights = [i \in 1 .. x.ledger.updates |-> i]
      /\ Effective(x.ledger) = Exposure[x.ledger.updates]
      /\ x.batch = 0 <=> x.ledger.pending = 0
      /\ x.cursor = x.ledger.updates + (IF x.batch = 0 THEN 0 ELSE 1)
      /\ x.batch # 0 => x.batch = x.cursor /\ x.ledger.pending = Tokens[x.batch]
      /\ x.ledger.consumed + x.discarded <= Cap
      /\ x.ledger.debited => x.ledger.pending # 0
  BY DEF Right, Faithful, Within
<1>4. Exposure[x.ledger.updates] \in Nat
  BY <1>1, <1>2
<1>5. x.ledger.consumed - (IF x.ledger.debited THEN x.ledger.pending ELSE 0)
        = Exposure[x.ledger.updates]
  BY <1>3 DEF Effective
<1>6. /\ x.ledger.debited => x.ledger.consumed = Exposure[x.ledger.updates] + x.ledger.pending
      /\ ~x.ledger.debited => x.ledger.consumed = Exposure[x.ledger.updates]
  BY <1>1, <1>4, <1>5
<1>7. x.batch = 0 => /\ x.ledger.pending = 0 /\ ~x.ledger.debited
                     /\ x.cursor = x.ledger.updates
  BY <1>1, <1>3
<1>8. x.batch # 0 => /\ x.ledger.updates < Len(Tokens) /\ x.cursor = x.ledger.updates + 1
                     /\ x.batch = x.cursor
                     /\ x.ledger.pending = Tokens[x.ledger.updates + 1]
                     /\ x.ledger.pending > 0
  <2>1. Len(Tokens) \in Nat
    BY Sizes
  <2> QED
    BY <1>1, <1>3, <2>1
<1>9. x.discarded \in Nat /\ x.ledger.consumed \in Nat
  BY <1>1
<1> QED
  BY <1>1, <1>3, <1>4, <1>6, <1>7, <1>8, <1>9

\* The same for the live learner and for every generation of a store.
LEMMA LiveIs ==
  ASSUME Sound
  PROVE  /\ Right(live) /\ live.ledger \in Ledgers /\ live.cursor \in 0 .. Len(Tokens)
         /\ live.batch \in 0 .. Len(Tokens) /\ live.discarded \in 0 .. Cap
BY DEF Sound, Lives

\* So for every generation of a store.
LEMMA GenerationIs ==
  ASSUME NEW s, NEW n, Whole(s, n), NEW g \in Gens, s.gens[g] # None
  PROVE  /\ s.gens[g] \in Generations /\ Right(s.gens[g]) /\ s.gens[g].ledger \in Ledgers
         /\ s.gens[g].cursor \in 0 .. Len(Tokens) /\ s.gens[g].batch \in 0 .. Len(Tokens)
         /\ s.gens[g].discarded \in 0 .. Cap /\ g <= n
<1>1. s.gens[g] \in Generations
  BY DEF Whole, Stores
<1> QED
  BY <1>1 DEF Whole, Generations

\* A pointer leads to a generation.
LEMMA TopIs ==
  ASSUME NEW s, NEW n, Whole(s, n), s.latest # None
  PROVE  s.latest \in Gens /\ Top(s) # None /\ s.gens[s.latest] = Top(s)
BY DEF Whole, Stores, Top


\* What TakeBatch does to the ledger: a resumed batch is left as it is; a new one that fits is
\* debited; a new one that does not fit pends without a debit.
Taken ==
  \/ /\ live.batch # 0 /\ UNCHANGED <<live.ledger, live.cursor, live.batch, live.redo>>
  \/ /\ live.batch = 0 /\ live'.ledger.debited /\ live'.redo = FALSE
     /\ live'.ledger.consumed = live.ledger.consumed + live'.ledger.pending
     /\ live'.ledger.consumed + live.discarded <= Cap
  \/ /\ live.batch = 0 /\ ~live'.ledger.debited /\ live'.redo = FALSE
     /\ live'.ledger.consumed = live.ledger.consumed

\* The batch that is taken is the next of the frozen order, and its tokens the pending ones.
LEMMA TakeIs ==
  ASSUME Sound, TakeBatch
  PROVE  /\ live'.ledger \in Ledgers /\ live'.cursor \in 1 .. Len(Tokens)
         /\ live'.ledger.updates = live.ledger.updates
         /\ live'.cursor = live.ledger.updates + 1 /\ live'.batch = live'.cursor
         /\ live'.ledger.pending = Tokens[live'.cursor] /\ live'.ledger.pending > 0
         /\ live'.ledger.consumed >= live.ledger.consumed
         /\ Taken
<1> DEFINE l == live.ledger
           c == live'.cursor
           t == Tokens[c]
<1>1. /\ live.batch = 0 => live.cursor < Len(Tokens)
      /\ c = (IF live.batch = 0 THEN live.cursor + 1 ELSE live.cursor)
      /\ live'.batch = c
      /\ live'.ledger = IF l.pending = 0 /\ ~Fits(t)
                        THEN [l EXCEPT !.pending = t, !.debited = FALSE] ELSE Reserve(l, t)
      /\ live'.redo = (live.redo /\ live.batch # 0)
  BY OfTakeBatch DEF Sound
<1>2. /\ l \in Ledgers /\ live.cursor \in 0 .. Len(Tokens) /\ Len(Tokens) \in Nat /\ Cap \in Nat
      /\ live.batch \in 0 .. Len(Tokens)
  BY LiveIs, Sizes
<1>3. /\ l.consumed \in Nat /\ l.updates \in 0 .. Len(Tokens) /\ live.discarded \in Nat
      /\ live.batch = 0 => l.pending = 0 /\ live.cursor = l.updates
      /\ live.batch # 0 => /\ l.pending > 0 /\ l.pending = Tokens[live.cursor] /\ live.cursor >= 1
                           /\ live.cursor = l.updates + 1
                           /\ live.batch = live.cursor /\ l.pending \in Nat
  <2>1. /\ l.consumed \in Nat /\ l.updates \in 0 .. Len(Tokens) /\ live.discarded \in Nat
        /\ live.batch = 0 => l.pending = 0 /\ live.cursor = l.updates
        /\ l.pending \in Nat
    BY LiveIs, RightIs
  <2>2. live.batch # 0 => /\ l.pending > 0 /\ l.pending = Tokens[l.updates + 1]
                          /\ live.cursor = l.updates + 1 /\ live.batch = live.cursor
    BY LiveIs, RightIs
  <2>3. live.batch # 0 => l.pending = Tokens[live.cursor] /\ live.cursor >= 1
    BY <1>2, <2>1, <2>2
  <2> QED
    BY <2>1, <2>2, <2>3
<1>4. CASE live.batch # 0
  <2>1. c = live.cursor /\ c \in 1 .. Len(Tokens) /\ l.pending # 0
    BY <1>1, <1>2, <1>3, <1>4
  <2>2. live'.ledger = l
    BY <1>1, <2>1 DEF Reserve
  <2>3. UNCHANGED <<live.ledger, live.cursor, live.batch>>
    BY <1>1, <1>3, <1>4, <2>1, <2>2
  <2>4. live.redo \in BOOLEAN
    BY DEF Sound, Lives
  <2>5. UNCHANGED live.redo
    BY <1>1, <1>4, <2>4
  <2>6. Taken
    BY <1>4, <2>3, <2>5 DEF Taken
  <2> QED
    BY <1>1, <1>2, <1>3, <1>4, <2>1, <2>2, <2>6
<1>5. CASE live.batch = 0
  <2>1. c = live.cursor + 1 /\ c \in 1 .. Len(Tokens) /\ l.pending = 0 /\ c = l.updates + 1
    BY <1>1, <1>2, <1>3, <1>5
  <2>2. t \in Nat /\ t > 0
    BY <2>1, Sizes
  <2>3. live'.redo = FALSE
    BY <1>1, <1>5
  <2>4. CASE Fits(t)
    <3>1. l.consumed + t + live.discarded <= Cap /\ l.consumed + t <= Cap
      BY <1>2, <1>3, <2>2, <2>4 DEF Fits
    <3>2. live'.ledger = [l EXCEPT !.pending = t, !.debited = TRUE, !.consumed = l.consumed + t]
      BY <1>1, <1>2, <2>1, <2>4, <3>1 DEF Reserve, Ledgers
    <3>3. l.consumed + t \in 0 .. Cap
      BY <1>2, <1>3, <2>2, <3>1
    <3>4. /\ live'.ledger \in Ledgers /\ live'.ledger.updates = l.updates
          /\ live'.ledger.pending = t /\ live'.ledger.debited
          /\ live'.ledger.consumed = l.consumed + t
      BY <1>2, <2>2, <3>2, <3>3 DEF Ledgers
    <3>5. Taken
      <4>1. live'.ledger.consumed + live.discarded <= Cap
        BY <1>3, <2>2, <3>1, <3>4
      <4> QED
        BY <1>5, <2>3, <3>4, <4>1 DEF Taken
    <3> QED
      BY <1>1, <1>3, <2>1, <2>2, <3>4, <3>5
  <2>5. CASE ~Fits(t)
    <3>1. live'.ledger = [l EXCEPT !.pending = t, !.debited = FALSE]
      BY <1>1, <2>1, <2>5
    <3>2. /\ live'.ledger \in Ledgers /\ live'.ledger.updates = l.updates
          /\ live'.ledger.pending = t /\ ~live'.ledger.debited
          /\ live'.ledger.consumed = l.consumed
      BY <1>2, <2>2, <3>1 DEF Ledgers
    <3>3. Taken
      BY <1>5, <2>3, <3>2 DEF Taken
    <3> QED
      BY <1>1, <1>3, <2>1, <2>2, <3>2, <3>3
  <2> QED
    BY <2>4, <2>5
<1> QED
  BY <1>4, <1>5

\* What Update does to the ledger: the debit is worked off.
LEMMA UpdateIs ==
  ASSUME Sound, Update
  PROVE  /\ live'.ledger \in Ledgers /\ live'.ledger.updates = live.ledger.updates + 1
         /\ live'.ledger.pending = 0 /\ ~live'.ledger.debited
         /\ live'.ledger.consumed = live.ledger.consumed
         /\ live'.weights \in Seq(Batches)
         /\ live'.weights = [i \in 1 .. live.ledger.updates + 1 |-> i]
         /\ live.ledger.updates < Len(Tokens) /\ live.cursor = live.ledger.updates + 1
         /\ live.ledger.pending = Tokens[live.cursor]
         /\ live.ledger.consumed = Exposure[live.ledger.updates + 1]
         /\ Exposure[live.ledger.updates + 1]
              = Exposure[live.ledger.updates] + live.ledger.pending
         /\ live.batch # 0
<1> DEFINE l == live.ledger
           u == live.ledger.updates
<1>1. /\ l.debited /\ live'.ledger = Commit(l) /\ live'.weights = Append(live.weights, live.batch)
  BY OfUpdate DEF Sound
<1>2. /\ l \in Ledgers /\ Len(Tokens) \in Nat /\ live.weights \in Seq(Batches)
  BY LiveIs, Sizes DEF Sound, Lives
<1>3. /\ live.weights = [i \in 1 .. u |-> i] /\ u \in 0 .. Len(Tokens) /\ l.debited
      /\ live.batch # 0 /\ u < Len(Tokens) /\ live.cursor = u + 1 /\ live.batch = live.cursor
      /\ l.pending = Tokens[u + 1] /\ l.pending \in Nat
      /\ l.consumed = Exposure[u] + l.pending
  BY <1>1, LiveIs, RightIs
<1>4. u + 1 \in 1 .. Len(Tokens) /\ (u + 1) - 1 = u
  BY <1>2, <1>3
<1>5. Exposure[u + 1] = Exposure[u] + Tokens[u + 1]
  BY <1>4, ExposureSums
<1>6. /\ live'.ledger \in Ledgers /\ live'.ledger.updates = u + 1
      /\ live'.ledger.pending = 0 /\ ~live'.ledger.debited /\ live'.ledger.consumed = l.consumed
  <2>1. l.updates + 1 \in 0 .. Len(Tokens) /\ 0 \in Nat
    BY <1>2, <1>4
  <2>2. PICK v \in 0 .. Len(Tokens) : v = l.updates + 1
    BY <2>1
  <2>3. live'.ledger = [l EXCEPT !.pending = 0, !.debited = FALSE, !.updates = v]
    BY <1>1, <2>2 DEF Commit
  <2>4. live'.ledger.updates = v /\ live'.ledger.pending = 0 /\ ~live'.ledger.debited
        /\ live'.ledger.consumed = l.consumed
    BY <1>2, <2>3 DEF Ledgers
  <2>5. live'.ledger \in Ledgers
    <3>1. live'.ledger = [consumed |-> l.consumed, updates |-> v, pending |-> 0,
                          debited |-> FALSE]
      BY <1>2, <2>3 DEF Ledgers
    <3>2. l.consumed \in 0 .. Cap
      BY <1>2 DEF Ledgers
    <3> QED
      BY <3>1, <3>2 DEF Ledgers
  <2> QED
    BY <2>2, <2>4, <2>5
<1>7. /\ live'.weights \in Seq(Batches)
      /\ live'.weights = [i \in 1 .. u + 1 |-> i]
  <2>1. live.batch \in Batches /\ live.batch = u + 1
    BY <1>3, <1>4 DEF Batches
  <2>2. Len(live.weights) = u
    <3>1. DOMAIN live.weights = 1 .. u
      BY <1>3
    <3> QED
      BY <1>2, <1>3, <3>1
  <2>3. /\ live'.weights \in Seq(Batches) /\ Len(live'.weights) = u + 1
        /\ \A i \in 1 .. u : live'.weights[i] = live.weights[i]
        /\ live'.weights[u + 1] = u + 1
    BY <1>1, <1>2, <2>1, <2>2, AppendProperties
  <2>4. ASSUME NEW i \in 1 .. u + 1 PROVE live'.weights[i] = i
    <3>1. CASE i = u + 1
      BY <2>3, <3>1
    <3>2. CASE i # u + 1
      <4>1. i \in 1 .. u
        BY <1>3, <3>2
      <4> QED
        BY <1>3, <2>3, <4>1
    <3> QED
      BY <3>1, <3>2
  <2>5. /\ DOMAIN live'.weights = 1 .. u + 1
        /\ live'.weights = [i \in DOMAIN live'.weights |-> live'.weights[i]]
    BY <2>3
  <2> QED
    BY <2>3, <2>4, <2>5
<1> QED
  BY <1>3, <1>5, <1>6, <1>7

\* What the save of a finished update publishes is a number.
LEMMA PublishesIs ==
  ASSUME Sound
  PROVE  /\ Publishes \in Nat
         /\ live.after = "next" => live.cursor \in 1 .. Len(Tokens) /\ live.batch = 0
<1>1. ASSUME live.after = "next" PROVE live.cursor \in 1 .. Len(Tokens) /\ live.batch = 0
  <2>1. live.batch = 0 /\ live.ledger.updates >= 1
    BY <1>1 DEF Sound
  <2>2. live.cursor = live.ledger.updates /\ live.ledger.updates \in 0 .. Len(Tokens)
    BY <2>1, LiveIs, RightIs
  <2> QED
    BY <2>1, <2>2, Sizes
<1>2. Publishes \in Nat
  BY <1>1, Sizes DEF Publishes
<1> QED
  BY <1>1, <1>2

\* The generation that is written holds the live weights, linked or not.
LEMMA GenerationHolds ==
  ASSUME Sound
  PROVE  /\ Generation \in Generations /\ Right(Generation)
         /\ Generation.weights = live.weights /\ Generation.ledger = live.ledger
         /\ Generation.exposures = live.exposures /\ Generation.miles = live.miles
         /\ Generation.pins = live.permanent /\ Generation.discarded = live.discarded
         /\ Generation.redo = live.redo
         /\ Generation.cursor = live.cursor /\ Generation.batch = live.batch
<1>1. Unchanged => own.gens[own.latest].weights = live.weights
  BY DEF Sound, Unchanged, Linkable, Top
<1>2. Generation = [weights |-> live.weights, ledger |-> live.ledger, cursor |-> live.cursor,
                    batch |-> live.batch, exposures |-> live.exposures, miles |-> live.miles,
                    pins |-> live.permanent, discarded |-> live.discarded, redo |-> live.redo]
  BY <1>1 DEF Generation
<1>3. Generation \in Generations
  BY <1>2 DEF Sound, Lives, Generations
<1>4. Right(live)
  BY DEF Sound
<1>5. Right(Generation)
  BY <1>2, <1>4 DEF Right, Faithful, Within
<1> QED
  BY <1>2, <1>3, <1>5


(***************************************************************************)
(* Starting, resuming and leaving.                                         *)
(***************************************************************************)
LEMMA MaxOfTwo ==
  ASSUME NEW a \in Nat, NEW b \in Nat
  PROVE  Max({a, b}) = IF a >= b THEN a ELSE b
<1>1. CASE a >= b
  BY <1>1, MaxIs
<1>2. CASE ~ (a >= b)
  <2>1. \A k \in {a, b} : k <= b
    BY <1>2
  <2> QED
    BY <1>2, <2>1, MaxIs
<1> QED
  BY <1>1, <1>2

\* What a resume charges: the larger of what the generation and the journal name.
LEMMA TotalIs ==
  ASSUME NEW gen, NEW j, gen.ledger.consumed \in Nat, gen.discarded \in Nat,
         j.ledger.consumed \in Nat, j.discarded \in Nat
  PROVE  /\ Total(gen, j) \in Nat
         /\ Total(gen, j) >= gen.ledger.consumed + gen.discarded
         /\ Total(gen, j) >= j.ledger.consumed + j.discarded
         /\ Total(gen, j) \in {gen.ledger.consumed + gen.discarded,
                               j.ledger.consumed + j.discarded}
<1> DEFINE a == gen.ledger.consumed + gen.discarded
           b == j.ledger.consumed + j.discarded
<1>1. a \in Nat /\ b \in Nat
  OBVIOUS
<1>2. Total(gen, j) = Max({a, b})
  BY DEF Total
<1>3. Max({a, b}) = IF a >= b THEN a ELSE b
  <2> HIDE DEF a, b
  <2> QED
    BY <1>1, MaxOfTwo
<1>4. CASE a >= b
  <2>1. Total(gen, j) = a
    BY <1>2, <1>3, <1>4
  <2> QED
    BY <1>1, <1>4, <2>1
<1>5. CASE ~ (a >= b)
  <2>1. Total(gen, j) = b
    BY <1>2, <1>3, <1>5
  <2> QED
    BY <1>1, <1>5, <2>1
<1> QED
  BY <1>4, <1>5

\* What a resume would charge, when the store has what it needs.
LEMMA ChargeIs ==
  ASSUME NEW s, NEW n, Whole(s, n), Usable(s)
  PROVE  /\ s.latest \in Gens /\ Top(s) # None /\ Top(s) \in Generations
         /\ Right(Top(s)) /\ Top(s).ledger \in Ledgers
         /\ Top(s).ledger.consumed \in Nat /\ Top(s).discarded \in Nat
         /\ Top(s).ledger.consumed + Top(s).discarded <= Cap
         /\ policy = "hourly" =>
              /\ s.journal \in Journals /\ s.journal.ledger \in Ledgers
              /\ s.journal.ledger.consumed \in Nat /\ s.journal.discarded \in Nat
              /\ s.journal.ledger.consumed + s.journal.discarded <= Cap
              /\ Charge(s) = Total(Top(s), s.journal)
              /\ Charge(s) >= s.journal.ledger.consumed + s.journal.discarded
              /\ Charge(s) >= Top(s).ledger.consumed + Top(s).discarded
              /\ Charge(s) \in {Top(s).ledger.consumed + Top(s).discarded,
                                s.journal.ledger.consumed + s.journal.discarded}
         /\ policy # "hourly" => Charge(s) = Top(s).ledger.consumed
         /\ Charge(s) \in Nat /\ Charge(s) <= Cap /\ Charge(s) >= Top(s).ledger.consumed
<1>1. s.latest # None /\ (policy = "hourly" => s.journal # None)
  BY DEF Usable
<1>2. s.latest \in Gens /\ Top(s) # None /\ s.gens[s.latest] = Top(s)
  BY <1>1, TopIs
<1>3. /\ Top(s) \in Generations /\ Right(Top(s)) /\ Top(s).ledger \in Ledgers
      /\ Top(s).discarded \in 0 .. Cap
  BY <1>2, GenerationIs
<1>4. /\ Top(s).ledger.consumed \in Nat /\ Top(s).discarded \in Nat /\ Cap \in Nat
      /\ Top(s).ledger.consumed + Top(s).discarded <= Cap
  BY <1>3, Sizes DEF Right, Within, Ledgers
<1>5. ASSUME policy = "hourly"
      PROVE  /\ s.journal \in Journals /\ s.journal.ledger \in Ledgers
             /\ s.journal.ledger.consumed \in Nat /\ s.journal.discarded \in Nat
             /\ s.journal.ledger.consumed + s.journal.discarded <= Cap
             /\ Charge(s) = Total(Top(s), s.journal)
             /\ Charge(s) >= s.journal.ledger.consumed + s.journal.discarded
             /\ Charge(s) >= Top(s).ledger.consumed + Top(s).discarded
             /\ Charge(s) \in {Top(s).ledger.consumed + Top(s).discarded,
                               s.journal.ledger.consumed + s.journal.discarded}
  <2>1. s.journal \in Journals /\ Within(s.journal)
    BY <1>1, <1>5 DEF Whole, Stores
  <2>2. /\ s.journal.ledger \in Ledgers
        /\ s.journal.ledger.consumed \in Nat /\ s.journal.discarded \in Nat
        /\ s.journal.ledger.consumed + s.journal.discarded <= Cap
    BY <2>1, Sizes DEF Journals, Ledgers, Within
  <2>3. Charge(s) = Total(Top(s), s.journal)
    BY <1>2, <1>5 DEF Charge
  <2> QED
    BY <1>4, <2>1, <2>2, <2>3, TotalIs
<1>6. policy # "hourly" => Charge(s) = Top(s).ledger.consumed
  BY <1>2 DEF Charge
<1>7. CASE policy = "hourly"
  <2>1. Charge(s) \in Nat /\ Charge(s) <= Cap /\ Charge(s) >= Top(s).ledger.consumed
    BY <1>4, <1>5, <1>7
  <2> QED
    BY <1>2, <1>3, <1>4, <1>5, <1>6, <2>1
<1>8. CASE policy # "hourly"
  <2>1. Charge(s) \in Nat /\ Charge(s) <= Cap /\ Charge(s) >= Top(s).ledger.consumed
    BY <1>4, <1>6, <1>8
  <2> QED
    BY <1>2, <1>3, <1>4, <1>6, <1>8, <2>1
<1> QED
  BY <1>7, <1>8

\* The fields a resumed learner has.
LEMMA OfResume ==
  ASSUME Sound, Resume
  PROVE  LET ref == disk.latest
             gen == Top(disk)
             first == {g \in Gens : gen.exposures[g] # None}
         IN
         /\ live.pc = "none" /\ Usable(disk) /\ ref \in Gens /\ gen # None
         /\ policy = "hourly" => ~JournalRefused(gen, ref, disk.journal)
         /\ live'.pc = "save" /\ live'.after = "loop" /\ live'.dirty = TRUE
         /\ live'.ledger = gen.ledger /\ live'.weights = gen.weights
         /\ live'.cursor = gen.cursor /\ live'.batch = gen.batch
         /\ live'.full = None /\ live'.saved = gen.ledger
         /\ live'.discarded = Discarded(gen, disk.journal) /\ live'.redo = Redo(gen)
         /\ live'.exposures = [gen.exposures EXCEPT ![ref] = Effective(gen.ledger)]
         /\ live'.initial = (IF first = {} THEN ref ELSE Min(first))
         /\ live'.miles = KeepMilestones(gen.ledger, gen.miles, ref)
         /\ live'.permanent = gen.pins
              \cup (IF live'.initial = ref \/ live'.miles # gen.miles THEN {ref} ELSE {})
         /\ live'.history = live'.permanent
         /\ own' \in [gens : {[g \in Gens |-> IF g \in live'.permanent THEN disk.gens[g]
                                                                       ELSE None]},
                      latest : {None}, journal : {None}]
         /\ invocations' = invocations + 1 /\ invocations < MaxInvocations
         /\ UNCHANGED <<policy, disk, saves, published>>
         /\ Discarded(gen, disk.journal) \in 0 .. Cap
         /\ gen.ledger.consumed + Discarded(gen, disk.journal) = Charge(disk)
         /\ Discarded(gen, disk.journal) >= gen.discarded \/ policy # "hourly"
         /\ live' \in Lives
<1> DEFINE ref == disk.latest
           gen == Top(disk)
           first == {g \in Gens : gen.exposures[g] # None}
<1>1. /\ live.pc = "none" /\ Usable(disk) /\ invocations < MaxInvocations
      /\ policy = "hourly" => ~JournalRefused(gen, ref, disk.journal)
      /\ live' = Restored(ref, gen)
      /\ own' = [NoStore EXCEPT !.gens = [g \in Gens |-> IF g \in live'.permanent
                                                         THEN disk.gens[g] ELSE None]]
      /\ invocations' = invocations + 1
      /\ UNCHANGED <<policy, disk, saves, published>>
  BY DEF Resume, Top
<1>2. /\ ref \in Gens /\ gen # None /\ gen \in Generations /\ Right(gen) /\ gen.ledger \in Ledgers
      /\ gen.ledger.consumed \in Nat /\ gen.discarded \in Nat /\ Cap \in Nat
      /\ Charge(disk) \in Nat /\ Charge(disk) <= Cap /\ Charge(disk) >= gen.ledger.consumed
  BY <1>1, ChargeIs, Sizes DEF Sound
<1>3. /\ gen.ledger.consumed + Discarded(gen, disk.journal) = Charge(disk)
      /\ Discarded(gen, disk.journal) \in 0 .. Cap
      /\ Discarded(gen, disk.journal) >= gen.discarded \/ policy # "hourly"
  <2>1. CASE policy = "hourly"
    <3>1. /\ Charge(disk) = Total(gen, disk.journal)
          /\ Charge(disk) >= gen.ledger.consumed + gen.discarded
      BY <1>1, <2>1, ChargeIs DEF Sound
    <3>2. Discarded(gen, disk.journal) = Charge(disk) - gen.ledger.consumed
      BY <2>1, <3>1 DEF Discarded
    <3> QED
      BY <1>2, <3>1, <3>2
  <2>2. CASE policy # "hourly"
    <3>1. Charge(disk) = gen.ledger.consumed /\ Discarded(gen, disk.journal) = 0
      BY <1>1, <2>2, ChargeIs DEF Sound, Discarded
    <3> QED
      BY <1>2, <2>2, <3>1
  <2> QED
    BY <2>1, <2>2
<1> DEFINE exposures == [gen.exposures EXCEPT ![ref] = Effective(gen.ledger)]
           initial == IF first = {} THEN ref ELSE Min(first)
           miles == KeepMilestones(gen.ledger, gen.miles, ref)
           pins == gen.pins \cup (IF initial = ref \/ miles # gen.miles THEN {ref} ELSE {})
           redo == Redo(gen)
           discarded == Discarded(gen, disk.journal)
<1>4. live' = [Fresh EXCEPT !.ledger = gen.ledger, !.weights = gen.weights,
             !.cursor = gen.cursor, !.batch = gen.batch, !.exposures = exposures,
             !.initial = initial, !.miles = miles, !.permanent = pins, !.history = pins,
             !.saved = gen.ledger, !.discarded = discarded, !.redo = redo]
  BY <1>1 DEF Restored
<1>5. live' = [pc |-> "save", after |-> "loop", ledger |-> gen.ledger, weights |-> gen.weights,
        cursor |-> gen.cursor, batch |-> gen.batch, dirty |-> TRUE, history |-> pins,
        permanent |-> pins, miles |-> miles, exposures |-> exposures, initial |-> initial,
        saved |-> gen.ledger, full |-> None, discarded |-> discarded, stopped |-> FALSE,
        redo |-> redo]
  <2> HIDE DEF exposures, initial, miles, pins, redo, discarded, gen, ref
  <2>1. PICK led, w, c, b, n : /\ led = gen.ledger /\ w = gen.weights /\ c = gen.cursor
                               /\ b = gen.batch /\ n = NewLedger
    OBVIOUS
  <2>2. Fresh = [pc |-> "save", after |-> "loop", ledger |-> n, weights |-> <<>>, cursor |-> 0,
         batch |-> 0, dirty |-> TRUE, history |-> {}, permanent |-> {},
         miles |-> NoMap(Milestones), exposures |-> NoMap(Gens), initial |-> None, saved |-> n,
         full |-> None, discarded |-> 0, stopped |-> FALSE, redo |-> FALSE]
    BY <2>1 DEF Fresh
  <2>3. live' = [Fresh EXCEPT !.ledger = led, !.weights = w,
             !.cursor = c, !.batch = b, !.exposures = exposures,
             !.initial = initial, !.miles = miles, !.permanent = pins, !.history = pins,
             !.saved = led, !.discarded = discarded, !.redo = redo]
    BY <1>4, <2>1
  <2>4. live' = [pc |-> "save", after |-> "loop", ledger |-> led, weights |-> w,
        cursor |-> c, batch |-> b, dirty |-> TRUE, history |-> pins,
        permanent |-> pins, miles |-> miles, exposures |-> exposures, initial |-> initial,
        saved |-> led, full |-> None, discarded |-> discarded, stopped |-> FALSE,
        redo |-> redo]
    BY <2>2, <2>3
  <2> QED
    BY <2>1, <2>4
<1>6. Effective(gen.ledger) \in Nat
  <2>1. /\ gen.cursor \in 0 .. Len(Tokens) /\ gen.batch \in 0 .. Len(Tokens)
        /\ gen.discarded \in 0 .. Cap
    BY <1>2 DEF Generations
  <2> QED
    BY <1>2, <2>1, RightIs
<1>7. exposures \in [Gens -> Nat \cup {None}]
  <2>1. gen.exposures \in [Gens -> Nat \cup {None}]
    BY <1>2 DEF Generations
  <2>2. PICK e \in Nat : e = Effective(gen.ledger)
    BY <1>6
  <2>3. exposures = [gen.exposures EXCEPT ![ref] = e]
    BY <1>4, <2>2
  <2> QED
    BY <1>2, <2>1, <2>3
<1>8. miles \in [Milestones -> Gens \cup {None}]
  <2>1. gen.miles \in [Milestones -> Gens \cup {None}]
    BY <1>2 DEF Generations
  <2> QED
    BY <1>2, <1>4, <2>1 DEF KeepMilestones
<1>9. initial \in Gens
  <2>1. first # {} => Min(first) \in first
    <3>1. first \in SUBSET Nat
      BY Sizes
    <3> QED
      BY <3>1, MinIsLeast
  <2> QED
    BY <1>2, <1>4, <2>1
<1>10. pins \in SUBSET Gens
  <2>1. gen.pins \in SUBSET Gens
    BY <1>2 DEF Generations
  <2> QED
    BY <1>2, <1>4, <2>1
<1>11. redo \in BOOLEAN
  BY <1>4 DEF Redo
<1>12. live' \in Lives
  <2>1. /\ gen.ledger \in Ledgers /\ gen.weights \in Seq(Batches)
        /\ gen.cursor \in 0 .. Len(Tokens)
        /\ gen.batch \in 0 .. Len(Tokens)
    BY <1>2 DEF Generations
  <2>2. discarded \in 0 .. Cap
    BY <1>3, <1>4
  <2> QED
    BY <1>5, <1>7, <1>8, <1>9, <1>10, <1>11, <2>1, <2>2 DEF Lives, PCs
<1>13. own' \in [gens : {[g \in Gens |-> IF g \in live'.permanent THEN disk.gens[g] ELSE None]},
                 latest : {None}, journal : {None}]
  <2>1. PICK f : f = [g \in Gens |-> IF g \in live'.permanent THEN disk.gens[g] ELSE None]
    OBVIOUS
  <2>2. own' = [NoStore EXCEPT !.gens = f]
    BY <1>1, <2>1
  <2>3. own' \in [gens : {f}, latest : {None}, journal : {None}]
    BY <2>2 DEF NoStore
  <2> QED
    BY <2>1, <2>3
<1>14. /\ live'.pc = "save" /\ live'.after = "loop" /\ live'.dirty = TRUE
       /\ live'.ledger = gen.ledger /\ live'.weights = gen.weights
       /\ live'.cursor = gen.cursor /\ live'.batch = gen.batch
       /\ live'.full = None /\ live'.saved = gen.ledger
       /\ live'.discarded = discarded /\ live'.redo = redo /\ live'.exposures = exposures
       /\ live'.initial = initial /\ live'.miles = miles /\ live'.permanent = pins
       /\ live'.history = pins
  BY <1>5
<1> QED
  <2> HIDE DEF ref, gen, first
  <2>1. /\ live'.discarded = Discarded(gen, disk.journal) /\ live'.redo = Redo(gen)
        /\ live'.exposures = [gen.exposures EXCEPT ![ref] = Effective(gen.ledger)]
        /\ live'.initial = (IF first = {} THEN ref ELSE Min(first))
        /\ live'.miles = KeepMilestones(gen.ledger, gen.miles, ref)
        /\ live'.permanent = gen.pins
             \cup (IF live'.initial = ref \/ live'.miles # gen.miles THEN {ref} ELSE {})
        /\ live'.history = live'.permanent
    BY <1>4, <1>14
  <2>2. /\ live'.pc = "save" /\ live'.after = "loop" /\ live'.dirty = TRUE
        /\ live'.ledger = gen.ledger /\ live'.weights = gen.weights
        /\ live'.cursor = gen.cursor /\ live'.batch = gen.batch
        /\ live'.full = None /\ live'.saved = gen.ledger
    BY <1>14
  <2> QED
    BY <1>1, <1>2, <1>3, <1>12, <1>13, <2>1, <2>2 DEF ref, gen, first

\* An orderly end leaves the own store behind, its journal closed.
LEMMA OfFinish ==
  ASSUME live \in Lives, own \in Stores, Finish
  PROVE  /\ live.pc = "close" /\ live' = NoProcess /\ own' = NoStore
         /\ disk'.gens = own.gens /\ disk'.latest = own.latest
         /\ disk'.journal = (IF policy = "hourly" THEN Journal(TRUE) ELSE own.journal)
         /\ disk' \in Stores
         /\ UNCHANGED <<policy, saves, invocations, published>>
<1>1. /\ live.pc = "close" /\ live' = NoProcess /\ own' = NoStore
      /\ disk' = IF policy = "hourly" THEN [own EXCEPT !.journal = Journal(TRUE)] ELSE own
      /\ UNCHANGED <<policy, saves, invocations, published>>
  BY DEF Finish
<1>2. Journal(TRUE) \in Journals
  BY DEF Journal, Journals, Lives, Stores
<1>3. PICK j \in Journals : j = Journal(TRUE)
  BY <1>2
<1>4. /\ disk'.gens = own.gens /\ disk'.latest = own.latest
      /\ disk'.journal = (IF policy = "hourly" THEN j ELSE own.journal)
      /\ disk' \in Stores
  BY <1>1, <1>3 DEF Stores
<1> QED
  BY <1>1, <1>3, <1>4

\* The exception of a refused save and a crash: the own store is what is left, if it is usable.
LEMMA OfLeaving ==
  ASSUME SaveRefused \/ Crash
  PROVE  /\ live.pc # "none" /\ live' = NoProcess /\ own' = NoStore
         /\ disk' = (IF Usable(own) THEN own ELSE disk)
         /\ UNCHANGED <<policy, saves, invocations, published>>
BY DEF SaveRefused, Crash, Leave

\* The journal names the live ledger.
LEMMA JournalIs ==
  ASSUME live \in Lives, own \in Stores, NEW closed \in BOOLEAN
  PROVE  /\ Journal(closed) \in Journals /\ Journal(closed).checkpoint = own.latest
         /\ Journal(closed).ledger = live.ledger /\ Journal(closed).discarded = live.discarded
         /\ Journal(closed).closed = closed /\ Journal(closed) # None
<1>1. Journal(closed) \in Journals
  BY DEF Journal, Journals, Lives, Stores
<1> QED
  BY <1>1, NoneIsNothing DEF Journal, NoneIsNothing


(***************************************************************************)
(* Every step keeps the first layer.                                       *)
(***************************************************************************)
LEMMA RightSame ==
  ASSUME NEW x, NEW y, Right(x), y.ledger = x.ledger, y.weights = x.weights,
         y.cursor = x.cursor, y.batch = x.batch, Within(y)
  PROVE  Right(y)
BY DEF Right, Faithful

\* Later saves have higher numbers.
LEMMA WholeGrows ==
  ASSUME NEW s, NEW n \in Nat, NEW m \in Nat, n <= m, Whole(s, n)
  PROVE  Whole(s, m)
<1>1. ASSUME NEW g \in Gens, s.gens[g] # None PROVE Right(s.gens[g]) /\ g <= m
  <2>1. g <= n /\ Right(s.gens[g]) /\ g \in Nat
    BY <1>1, Sizes DEF Whole
  <2> QED
    BY <2>1
<1> QED
  BY <1>1 DEF Whole

\* A store whose generations are some of another's is as whole.
LEMMA WholeCopy ==
  ASSUME NEW s, NEW n, Whole(s, n), NEW t \in Stores,
         \A g \in Gens : t.gens[g] # None => t.gens[g] = s.gens[g],
         t.latest # None => t.gens[t.latest] # None, t.journal # None => Within(t.journal)
  PROVE  Whole(t, n)
BY DEF Whole

\* A copy of some generations of a store is a store.
LEMMA CopyIsStore ==
  ASSUME NEW s \in Stores, NEW K, NEW latest \in Gens \cup {None},
         NEW journal \in Journals \cup {None},
         NEW t \in [gens : {[g \in Gens |-> IF g \in K THEN s.gens[g] ELSE None]},
                    latest : {latest}, journal : {journal}]
  PROVE  /\ t \in Stores /\ t.latest = latest /\ t.journal = journal
         /\ \A g \in Gens : t.gens[g] = IF g \in K THEN s.gens[g] ELSE None
<1>1. \A g \in Gens : s.gens[g] \in Generations \cup {None}
  BY DEF Stores
<1>2. PICK f : f = [g \in Gens |-> IF g \in K THEN s.gens[g] ELSE None]
  OBVIOUS
<1>3. f \in [Gens -> Generations \cup {None}]
  BY <1>1, <1>2
<1>4. t \in [gens : {f}, latest : {latest}, journal : {journal}]
  BY <1>2
<1>5. t \in Stores /\ t.latest = latest /\ t.journal = journal /\ t.gens = f
  BY <1>3, <1>4 DEF Stores
<1> QED
  BY <1>2, <1>5

\* A store after its own learner wrote generation g.
LEMMA WrittenIs ==
  ASSUME NEW s \in Stores, NEW n \in Nat, Whole(s, n), n + 1 \in Gens,
         NEW x \in Generations, Right(x),
         NEW t \in [gens : {[s.gens EXCEPT ![n + 1] = x]}, latest : {n + 1},
                    journal : {s.journal}]
  PROVE  /\ Whole(t, n + 1) /\ t.latest = n + 1 /\ t.journal = s.journal
         /\ t.gens[n + 1] = x /\ \A g \in Gens \ {n + 1} : t.gens[g] = s.gens[g]
<1>1. PICK f : f = [s.gens EXCEPT ![n + 1] = x]
  OBVIOUS
<1>2. s.gens \in [Gens -> Generations \cup {None}] /\ s.journal \in Journals \cup {None}
  BY DEF Stores
<1>3. /\ f \in [Gens -> Generations \cup {None}] /\ f[n + 1] = x
      /\ \A g \in Gens \ {n + 1} : f[g] = s.gens[g]
  BY <1>1, <1>2
<1>4. t \in [gens : {f}, latest : {n + 1}, journal : {s.journal}]
  BY <1>1
<1>5. t \in Stores /\ t.latest = n + 1 /\ t.journal = s.journal /\ t.gens = f
  BY <1>2, <1>3, <1>4 DEF Stores
<1>6. x # None
  BY NoneIsNothing DEF NoneIsNothing
<1>7. ASSUME NEW g \in Gens, t.gens[g] # None PROVE Right(t.gens[g]) /\ g <= n + 1
  <2>1. CASE g = n + 1
    BY <1>3, <1>5, <2>1
  <2>2. CASE g # n + 1
    <3>1. s.gens[g] # None /\ t.gens[g] = s.gens[g]
      BY <1>3, <1>5, <1>7, <2>2
    <3>2. Right(s.gens[g]) /\ g <= n /\ g \in Nat
      BY <3>1, Sizes DEF Whole
    <3> QED
      BY <3>1, <3>2
  <2> QED
    BY <2>1, <2>2
<1>8. t.journal # None => Within(t.journal)
  BY <1>5 DEF Whole
<1>9. Whole(t, n + 1)
  BY <1>3, <1>5, <1>6, <1>7, <1>8 DEF Whole
<1> QED
  BY <1>3, <1>5, <1>9

\* The steps that leave the training state, the stores and the counters alone.
LEMMA LoopKeepsSound ==
  ASSUME Sound, live' \in Lives, UNCHANGED <<policy, disk, own, saves, invocations, published>>,
         UNCHANGED <<Work, live.dirty, live.discarded>>, live'.pc # "retain",
         live'.after = "next" => live.after = "next"
  PROVE  Sound'
<1>1. /\ live'.ledger = live.ledger /\ live'.weights = live.weights
      /\ live'.cursor = live.cursor /\ live'.batch = live.batch
      /\ live'.dirty = live.dirty /\ live'.discarded = live.discarded
  BY DEF Work
<1>2. Right(live')
  <2>1. Within(live')
    BY <1>1 DEF Sound, Right, Within
  <2> QED
    BY <1>1, <2>1, RightSame DEF Sound
<1>3. Whole(disk', saves') /\ Whole(own', saves')
  BY DEF Sound
<1>4. ~live'.dirty \/ live'.pc = "retain" => Linkable'
  BY <1>1 DEF Sound, Linkable, Top
<1>5. live'.after = "next" => live'.batch = 0 /\ live'.ledger.updates >= 1
  BY <1>1 DEF Sound
<1> QED
  BY <1>2, <1>3, <1>4, <1>5 DEF Sound

\* Without a process.
LEMMA LeavingKeepsSound ==
  ASSUME Sound, live' = NoProcess, own' = NoStore, Whole(disk', saves),
         UNCHANGED <<policy, saves, invocations, published>>
  PROVE  Sound'
<1>1. /\ live' \in Lives /\ Right(live') /\ Whole(own', saves') /\ Whole(disk', saves')
      /\ live'.after = "loop" /\ live'.dirty = TRUE /\ live'.pc = "none"
  BY AtFirst
<1> QED
  BY <1>1 DEF Sound

\* A new learner has trained nothing and spent nothing.
LEMMA StartKeepsSound ==
  ASSUME Sound, Start
  PROVE  Sound'
<1>1. /\ live' = Fresh /\ own' = NoStore /\ invocations' = invocations + 1
      /\ invocations < MaxInvocations /\ UNCHANGED <<policy, disk, saves, published>>
  BY DEF Start
<1>2. Fresh.after = "loop" /\ Fresh.dirty = TRUE /\ Fresh.pc = "save"
  BY DEF Fresh
<1>3. /\ live' \in Lives /\ Right(live') /\ Whole(own', saves') /\ Whole(disk', saves')
  BY <1>1, AtFirst DEF Sound
<1>4. invocations' \in 0 .. MaxInvocations
  BY <1>1, Sizes DEF Sound
<1> QED
  BY <1>1, <1>2, <1>3, <1>4 DEF Sound

\* A resumed learner is the generation it reads, with what was discarded within the cap.
LEMMA ResumeKeepsSound ==
  ASSUME Sound, Resume
  PROVE  Sound'
<1> DEFINE gen == Top(disk)
<1>1. /\ disk.latest \in Gens /\ gen # None /\ Usable(disk)
      /\ live'.pc = "save" /\ live'.after = "loop" /\ live'.dirty = TRUE
      /\ live'.ledger = gen.ledger /\ live'.weights = gen.weights
      /\ live'.cursor = gen.cursor /\ live'.batch = gen.batch
      /\ live'.discarded = Discarded(gen, disk.journal)
      /\ own' \in [gens : {[g \in Gens |-> IF g \in live'.permanent THEN disk.gens[g]
                                                                    ELSE None]},
                   latest : {None}, journal : {None}]
      /\ invocations' = invocations + 1 /\ invocations < MaxInvocations
      /\ UNCHANGED <<policy, disk, saves, published>>
      /\ gen.ledger.consumed + Discarded(gen, disk.journal) = Charge(disk)
      /\ live' \in Lives
  BY OfResume
<1>2. disk \in Stores /\ Whole(disk, saves)
  BY DEF Sound, Whole
<1>3. /\ own' \in Stores /\ own'.latest = None /\ own'.journal = None
      /\ \A g \in Gens : own'.gens[g] = IF g \in live'.permanent THEN disk.gens[g] ELSE None
  BY <1>1, <1>2, CopyIsStore
<1>4. Whole(own', saves')
  <2>1. saves' = saves
    BY <1>1
  <2>2. Whole(own', saves)
    BY <1>2, <1>3, WholeCopy
  <2> QED
    BY <2>1, <2>2
<1>5. Right(live')
  <2>1. Right(gen) /\ Charge(disk) <= Cap
    BY <1>1, <1>2, ChargeIs
  <2>2. Within(live')
    BY <1>1, <2>1 DEF Within
  <2> QED
    BY <1>1, <2>1, <2>2, RightSame
<1>6. invocations' \in 0 .. MaxInvocations
  BY <1>1, Sizes DEF Sound
<1>7. Whole(disk', saves')
  BY <1>1, <1>2
<1> QED
  BY <1>1, <1>4, <1>5, <1>6, <1>7 DEF Sound

\* The store of an orderly end becomes the one that a resume reads, its journal closed.
LEMMA FinishKeepsSound ==
  ASSUME Sound, Finish
  PROVE  Sound'
<1>1. /\ live' = NoProcess /\ own' = NoStore
      /\ disk'.gens = own.gens /\ disk'.latest = own.latest
      /\ disk'.journal = (IF policy = "hourly" THEN Journal(TRUE) ELSE own.journal)
      /\ disk' \in Stores /\ UNCHANGED <<policy, saves, invocations, published>>
  BY OfFinish DEF Sound, Whole
<1>2. Within(Journal(TRUE))
  <2>1. Journal(TRUE).ledger = live.ledger /\ Journal(TRUE).discarded = live.discarded
    BY DEF Journal
  <2> QED
    BY <2>1 DEF Sound, Right, Within
<1>3. disk'.journal # None => Within(disk'.journal)
  BY <1>1, <1>2 DEF Sound, Whole
<1>4. Whole(disk', saves)
  <2>1. Whole(own, saves)
    BY DEF Sound
  <2>2. disk'.latest # None => disk'.gens[disk'.latest] # None
    BY <1>1, <2>1 DEF Whole
  <2> QED
    BY <1>1, <1>3, <2>1, <2>2, WholeCopy
<1> QED
  BY <1>1, <1>4, LeavingKeepsSound

\* The store of a crash does so when it is usable.
LEMMA CrashKeepsSound ==
  ASSUME Sound, SaveRefused \/ Crash
  PROVE  Sound'
<1>1. /\ live' = NoProcess /\ own' = NoStore
      /\ disk' = (IF Usable(own) THEN own ELSE disk)
      /\ UNCHANGED <<policy, saves, invocations, published>>
  BY OfLeaving
<1>2. Whole(disk', saves)
  BY <1>1 DEF Sound
<1> QED
  BY <1>1, <1>2, LeavingKeepsSound


\* The batch taken is the next one, and a debit only happens where it fits.
LEMMA TakeKeepsSound ==
  ASSUME Sound, TakeBatch
  PROVE  Sound'
<1> DEFINE u == live.ledger.updates
<1>1. /\ live'.pc = "save" /\ live'.after = "update" /\ live'.weights = live.weights
      /\ live'.dirty = live.dirty /\ live'.discarded = live.discarded
      /\ UNCHANGED <<policy, disk, own, saves, invocations, published>>
      /\ live'.ledger \in Ledgers /\ live'.cursor \in 0 .. Len(Tokens) => live' \in Lives
  BY OfTakeBatch DEF Sound
<1>2. /\ live'.ledger \in Ledgers /\ live'.cursor \in 1 .. Len(Tokens)
      /\ live'.ledger.updates = u /\ live'.cursor = u + 1 /\ live'.batch = live'.cursor
      /\ live'.ledger.pending = Tokens[live'.cursor] /\ live'.ledger.pending > 0 /\ Taken
  BY TakeIs
<1>3. live' \in Lives
  <2>1. live'.cursor \in 0 .. Len(Tokens)
    BY <1>2, Sizes
  <2> QED
    BY <1>1, <1>2, <2>1
<1>4. /\ live.weights = [i \in 1 .. u |-> i] /\ u \in 0 .. Len(Tokens)
      /\ live.ledger.consumed \in Nat /\ live.discarded \in Nat /\ Exposure[u] \in Nat
      /\ live.ledger.consumed + live.discarded <= Cap
      /\ Effective(live.ledger) = Exposure[u]
      /\ live.batch = 0 => live.ledger.consumed = Exposure[u]
      /\ live.batch = 0 => ~live.ledger.debited
      /\ live.batch # 0 => live.ledger.pending > 0
  BY LiveIs, RightIs
<1>5. Effective(live'.ledger) = Exposure[u] /\ Within(live')
  <2>1. CASE live.batch # 0
    <3>1. live'.ledger = live.ledger
      BY <2>1, <1>2 DEF Taken
    <3> QED
      BY <1>1, <1>4, <3>1 DEF Within
  <2>2. CASE live.batch = 0 /\ live'.ledger.debited
    <3>1. /\ live'.ledger.consumed = live.ledger.consumed + live'.ledger.pending
          /\ live'.ledger.consumed + live.discarded <= Cap
      BY <2>2, <1>2 DEF Taken
    <3>2. live'.ledger.pending \in Nat
      BY <1>2 DEF Ledgers
    <3>3. Effective(live'.ledger) = live'.ledger.consumed - live'.ledger.pending
      BY <2>2 DEF Effective
    <3>4. Effective(live'.ledger) = Exposure[u]
      BY <1>4, <2>2, <3>1, <3>2, <3>3
    <3> QED
      BY <1>1, <3>1, <3>4 DEF Within
  <2>3. CASE live.batch = 0 /\ ~live'.ledger.debited
    <3>1. live'.ledger.consumed = live.ledger.consumed
      BY <2>3, <1>2 DEF Taken
    <3>2. Effective(live'.ledger) = live'.ledger.consumed - 0
      BY <2>3 DEF Effective
    <3>3. Effective(live'.ledger) = Exposure[u]
      BY <1>4, <2>3, <3>1, <3>2
    <3> QED
      BY <1>1, <1>4, <3>1, <3>3 DEF Within
  <2> QED
    BY <2>1, <2>2, <2>3
<1>6. live'.batch # 0 /\ live'.ledger.pending # 0
  BY <1>2
<1>7. Faithful(live')
  BY <1>1, <1>2, <1>4, <1>5, <1>6 DEF Faithful
<1>8. Right(live')
  BY <1>5, <1>6, <1>7 DEF Right
<1>9. Whole(disk', saves') /\ Whole(own', saves')
  BY <1>1 DEF Sound
<1>10. ~live'.dirty \/ live'.pc = "retain" => Linkable'
  BY <1>1 DEF Sound, Linkable, Top
<1> QED
  BY <1>1, <1>3, <1>8, <1>9, <1>10 DEF Sound

\* The batch trained is the one the ledger then counts.
LEMMA UpdateKeepsSound ==
  ASSUME Sound, Update
  PROVE  Sound'
<1> DEFINE u == live.ledger.updates
<1>1. /\ live'.pc = "save" /\ live'.after = "next" /\ live'.dirty = TRUE /\ live'.batch = 0
      /\ live'.cursor = live.cursor /\ live'.discarded = live.discarded
      /\ UNCHANGED <<policy, disk, own, saves, invocations, published>>
      /\ live'.ledger \in Ledgers /\ live'.weights \in Seq(Batches) => live' \in Lives
  BY OfUpdate DEF Sound
<1>2. /\ live'.ledger \in Ledgers /\ live'.ledger.updates = u + 1
      /\ live'.ledger.pending = 0 /\ ~live'.ledger.debited
      /\ live'.ledger.consumed = live.ledger.consumed
      /\ live'.weights \in Seq(Batches) /\ live'.weights = [i \in 1 .. u + 1 |-> i]
      /\ live.cursor = u + 1 /\ live.ledger.consumed = Exposure[u + 1]
  BY UpdateIs
<1>3. u \in Nat /\ live.ledger.consumed \in Nat /\ Within(live)
  <2>1. u \in 0 .. Len(Tokens) /\ live.ledger.consumed \in Nat
    BY LiveIs, RightIs
  <2> QED
    BY <2>1 DEF Sound, Right
<1>4. Effective(live'.ledger) = Exposure[live'.ledger.updates]
  <2>1. Effective(live'.ledger) = live'.ledger.consumed - 0
    BY <1>2 DEF Effective
  <2> QED
    BY <1>2, <1>3, <2>1
<1>5. Faithful(live')
  <2>1. live'.cursor = live'.ledger.updates + 0
    BY <1>1, <1>2, <1>3
  <2> QED
    BY <1>1, <1>2, <1>4, <2>1 DEF Faithful
<1>6. Right(live')
  BY <1>1, <1>2, <1>3, <1>5 DEF Right, Within
<1>7. Whole(disk', saves') /\ Whole(own', saves')
  BY <1>1 DEF Sound
<1>8. live'.ledger.updates >= 1
  BY <1>2, <1>3
<1> QED
  BY <1>1, <1>2, <1>6, <1>7, <1>8 DEF Sound

\* The exposure of complete updates is the sum of the batches trained.
LEMMA LiveExposure ==
  ASSUME Sound
  PROVE  /\ Effective(live.ledger) \in Nat /\ saves \in Nat
         /\ Effective(live.ledger) = Exposure[live.ledger.updates]
         /\ live.ledger.updates \in 0 .. Len(Tokens)
<1>1. /\ Effective(live.ledger) \in Nat /\ live.ledger.updates \in 0 .. Len(Tokens)
      /\ Effective(live.ledger) = Exposure[live.ledger.updates]
  BY LiveIs, RightIs
<1> QED
  BY <1>1, Sizes DEF Sound

\* The store after the write of a generation.
LEMMA WroteIs ==
  ASSUME Sound, WriteGeneration
  PROVE  /\ saves' = saves + 1 /\ saves + 1 \in Gens /\ saves \in Nat
         /\ Whole(own', saves + 1) /\ own'.latest = saves + 1 /\ own'.journal = own.journal
         /\ own'.gens[saves + 1] = Generation /\ Top(own') = Generation
         /\ \A g \in Gens \ {saves + 1} : own'.gens[g] = own.gens[g]
<1>1. /\ saves' = saves + 1 /\ saves + 1 \in Gens
      /\ own' \in [gens : {[own.gens EXCEPT ![saves + 1] = Generation]}, latest : {saves + 1},
                   journal : {own.journal}]
  BY OfWriteGeneration, LiveExposure DEF Sound, Whole
<1>2. own \in Stores /\ Whole(own, saves) /\ saves \in Nat
  BY LiveExposure DEF Sound, Whole
<1>3. Generation \in Generations /\ Right(Generation)
  BY GenerationHolds
<1>4. /\ Whole(own', saves + 1) /\ own'.latest = saves + 1 /\ own'.journal = own.journal
      /\ own'.gens[saves + 1] = Generation
      /\ \A g \in Gens \ {saves + 1} : own'.gens[g] = own.gens[g]
  BY <1>1, <1>2, <1>3, WrittenIs
<1> QED
  BY <1>1, <1>2, <1>4 DEF Top

\* The generation written holds the live weights, also when the tensors are linked.
LEMMA WriteKeepsSound ==
  ASSUME Sound, WriteGeneration
  PROVE  Sound'
<1>1. /\ live'.pc = "retain" /\ saves < MaxSaves /\ live' \in Lives
      /\ published' = published + Publishes
      /\ UNCHANGED <<policy, disk, invocations>>
      /\ UNCHANGED <<Work, live.after, live.dirty, live.discarded>>
  BY OfWriteGeneration, LiveExposure DEF Sound, Whole
<1>2. /\ saves' = saves + 1 /\ saves \in Nat /\ saves + 1 \in Gens
      /\ Whole(own', saves + 1) /\ own'.latest = saves + 1 /\ Top(own') = Generation
  BY WroteIs
<1>3. /\ live'.ledger = live.ledger /\ live'.weights = live.weights
      /\ live'.cursor = live.cursor /\ live'.batch = live.batch
      /\ live'.discarded = live.discarded
  BY <1>1 DEF Work
<1>4. Right(live')
  <2>1. Within(live')
    BY <1>3 DEF Sound, Right, Within
  <2> QED
    BY <1>3, <2>1, RightSame DEF Sound
<1>5. Linkable'
  <2>1. own'.latest # None
    BY <1>2, Sizes
  <2>2. Top(own').weights = live'.weights
    BY <1>2, <1>3, GenerationHolds
  <2> QED
    BY <2>1, <2>2 DEF Linkable, Top
<1>6. Whole(disk', saves')
  <2>1. saves <= saves + 1 /\ saves + 1 \in Nat
    BY <1>2
  <2> QED
    BY <1>1, <1>2, <2>1, WholeGrows DEF Sound
<1>7. published' \in Nat
  BY <1>1, PublishesIs DEF Sound
<1>8. saves' \in 0 .. MaxSaves
  BY <1>1, <1>2, Sizes
<1>9. Whole(own', saves')
  BY <1>2
<1> QED
  BY <1>1, <1>3, <1>4, <1>5, <1>6, <1>7, <1>8, <1>9 DEF Sound

\* The store after retain: what is not kept is gone, the latest generation is kept.
LEMMA RetainedIs ==
  ASSUME Sound, Retain
  PROVE  /\ Whole(own', saves) /\ own'.latest = own.latest /\ own'.journal = own.journal
         /\ own.latest # None /\ Top(own') = Top(own)
         /\ \A g \in Gens : own'.gens[g] = IF g \in live.history \ Keep THEN None
                                                                       ELSE own.gens[g]
<1>1. /\ live.pc = "retain" /\ Keep \subseteq live.history
      /\ own' \in [gens : {[g \in Gens |-> IF g \in live.history \ Keep THEN None
                                                                        ELSE own.gens[g]]},
                   latest : {own.latest}, journal : {own.journal}]
  BY OfRetain DEF Sound, Whole
<1>2. own.latest # None /\ Whole(own, saves) /\ own \in Stores
  BY <1>1 DEF Sound, Linkable, Whole
<1>3. own.latest \in Gens /\ Top(own) # None
  BY <1>2, TopIs
<1> DEFINE K == Gens \ (live.history \ Keep)
<1>4. [g \in Gens |-> IF g \in live.history \ Keep THEN None ELSE own.gens[g]]
        = [g \in Gens |-> IF g \in K THEN own.gens[g] ELSE None]
  OBVIOUS
<1>5. own.journal \in Journals \cup {None}
  BY <1>2 DEF Stores
<1>6. /\ own' \in Stores /\ own'.latest = own.latest /\ own'.journal = own.journal
      /\ \A g \in Gens : own'.gens[g] = IF g \in K THEN own.gens[g] ELSE None
  <2>1. own' \in [gens : {[g \in Gens |-> IF g \in K THEN own.gens[g] ELSE None]},
                  latest : {own.latest}, journal : {own.journal}]
    BY <1>1, <1>4
  <2> HIDE DEF K
  <2> QED
    BY <1>2, <1>3, <1>5, <2>1, CopyIsStore
<1>7. own.latest \in Keep
  BY DEF Keep, Pins
<1>8. own'.gens[own.latest] = own.gens[own.latest]
  BY <1>3, <1>6, <1>7
<1>9. Whole(own', saves)
  <2>1. own'.journal # None => Within(own'.journal)
    BY <1>2, <1>6 DEF Whole
  <2>2. own'.gens[own'.latest] # None
    BY <1>3, <1>6, <1>8 DEF Top
  <2>3. \A g \in Gens : own'.gens[g] # None => own'.gens[g] = own.gens[g]
    BY <1>6
  <2> QED
    BY <1>2, <1>6, <2>1, <2>2, <2>3, WholeCopy
<1>10. \A g \in Gens : own'.gens[g] = IF g \in live.history \ Keep THEN None ELSE own.gens[g]
  BY <1>6
<1> QED
  BY <1>2, <1>6, <1>8, <1>9, <1>10 DEF Top

\* The latest generation is kept, and unchanged tensors may be linked to it.
LEMMA RetainKeepsSound ==
  ASSUME Sound, Retain
  PROVE  Sound'
<1>1. /\ live.pc = "retain" /\ live'.pc \in {"close", "journal"} /\ live' \in Lives
      /\ UNCHANGED <<policy, disk, saves, invocations, published>>
      /\ UNCHANGED <<Work, live.after, live.discarded>>
  BY OfRetain DEF Sound, Whole
<1>2. /\ Whole(own', saves) /\ own'.latest = own.latest /\ Top(own') = Top(own)
      /\ own.latest # None
  BY RetainedIs
<1>3. /\ live'.ledger = live.ledger /\ live'.weights = live.weights
      /\ live'.cursor = live.cursor /\ live'.batch = live.batch
      /\ live'.discarded = live.discarded
  BY <1>1 DEF Work
<1>4. Right(live')
  <2>1. Within(live')
    BY <1>3 DEF Sound, Right, Within
  <2> QED
    BY <1>3, <2>1, RightSame DEF Sound
<1>5. Linkable'
  <2>1. Linkable
    BY <1>1 DEF Sound
  <2> QED
    BY <1>2, <1>3, <2>1 DEF Linkable, Top
<1>6. Whole(disk', saves') /\ Whole(own', saves')
  BY <1>1, <1>2 DEF Sound
<1> QED
  BY <1>1, <1>3, <1>4, <1>5, <1>6 DEF Sound

\* The store after the journal is written.
LEMMA JournalledIs ==
  ASSUME Sound, WriteJournal
  PROVE  /\ Whole(own', saves) /\ own'.gens = own.gens /\ own'.latest = own.latest
         /\ Top(own') = Top(own)
         /\ own'.journal = IF policy = "hourly" THEN Journal(FALSE) ELSE own.journal
<1>1. own' = IF policy = "hourly" THEN [own EXCEPT !.journal = Journal(FALSE)] ELSE own
  BY OfWriteJournal DEF Sound
<1>2. own \in Stores /\ Whole(own, saves)
  BY DEF Sound, Whole
<1>3. PICK j \in Journals : j = Journal(FALSE) /\ Within(j)
  <2>1. /\ Journal(FALSE) \in Journals /\ Journal(FALSE).ledger = live.ledger
        /\ Journal(FALSE).discarded = live.discarded
    BY <1>2, JournalIs DEF Sound
  <2>2. Within(Journal(FALSE))
    BY <2>1 DEF Sound, Right, Within
  <2> QED
    BY <2>1, <2>2
<1>4. /\ own' \in Stores /\ own'.gens = own.gens /\ own'.latest = own.latest
      /\ own'.journal = IF policy = "hourly" THEN j ELSE own.journal
  BY <1>1, <1>2, <1>3 DEF Stores
<1>5. own'.journal # None => Within(own'.journal)
  BY <1>2, <1>3, <1>4 DEF Whole
<1>6. own'.latest # None => own'.gens[own'.latest] # None
  BY <1>2, <1>4 DEF Whole
<1>7. Whole(own', saves)
  BY <1>2, <1>4, <1>5, <1>6, WholeCopy
<1> QED
  BY <1>3, <1>4, <1>7 DEF Top

\* A journal is within the cap as its ledger is.
LEMMA JournalKeepsSound ==
  ASSUME Sound, WriteJournal
  PROVE  Sound'
<1>1. /\ live.pc = "journal" /\ live'.pc \in {"terminal", live.after} /\ live' \in Lives
      /\ published' = published + (IF live.full # live.ledger THEN Publishes ELSE 0)
      /\ UNCHANGED <<policy, disk, saves, invocations>>
      /\ UNCHANGED <<Work, live.after, live.dirty, live.discarded>>
  BY OfWriteJournal DEF Sound
<1>2. Whole(own', saves) /\ own'.latest = own.latest /\ Top(own') = Top(own)
  BY JournalledIs
<1>3. /\ live'.ledger = live.ledger /\ live'.weights = live.weights
      /\ live'.cursor = live.cursor /\ live'.batch = live.batch
      /\ live'.discarded = live.discarded
  BY <1>1 DEF Work
<1>4. Right(live')
  <2>1. Within(live')
    BY <1>3 DEF Sound, Right, Within
  <2> QED
    BY <1>3, <2>1, RightSame DEF Sound
<1>5. live'.pc # "retain"
  BY <1>1 DEF Sound, Lives
<1>6. ~live'.dirty \/ live'.pc = "retain" => Linkable'
  BY <1>1, <1>2, <1>3, <1>5 DEF Sound, Linkable, Top
<1>7. published' \in Nat
  BY <1>1, PublishesIs DEF Sound
<1>8. Whole(disk', saves') /\ Whole(own', saves')
  BY <1>1, <1>2 DEF Sound
<1> QED
  BY <1>1, <1>3, <1>4, <1>6, <1>7, <1>8 DEF Sound

\* Every step keeps the first layer, which needs no other.
LEMMA KeepsSound ==
  ASSUME Sound, Next
  PROVE  Sound'
<1>1. ASSUME ChooseSave PROVE Sound'
  <2>1. live' \in Lives /\ live'.pc # "retain" /\ live'.after = live.after
    BY <1>1, OfChooseSave DEF Sound
  <2> QED
    BY <1>1, <2>1, OfChooseSave, LoopKeepsSound DEF Sound
<1>2. ASSUME EndTraining PROVE Sound'
  <2>1. live' \in Lives /\ live'.pc # "retain" /\ live'.after = live.after
    BY <1>2, OfEndTraining DEF Sound
  <2> QED
    BY <1>2, <2>1, OfEndTraining, LoopKeepsSound DEF Sound
<1>3. ASSUME NextUpdate PROVE Sound'
  <2>1. live' \in Lives /\ live'.pc # "retain" /\ live'.after = live.after
    BY <1>3, OfNextUpdate DEF Sound
  <2> QED
    BY <1>3, <2>1, OfNextUpdate, LoopKeepsSound DEF Sound
<1>4. ASSUME FinalSave PROVE Sound'
  <2>1. live' \in Lives /\ live'.pc # "retain" /\ live'.after # "next"
    BY <1>4, OfFinalSave DEF Sound
  <2> QED
    BY <1>4, <2>1, OfFinalSave, LoopKeepsSound DEF Sound
<1> QED
  BY <1>1, <1>2, <1>3, <1>4, StartKeepsSound, ResumeKeepsSound, WriteKeepsSound,
     CrashKeepsSound, RetainKeepsSound, JournalKeepsSound, TakeKeepsSound, UpdateKeepsSound,
     FinishKeepsSound DEF Next

\* There is nothing at first.
LEMMA InitSound == Init => Sound
<1> SUFFICES ASSUME Init PROVE Sound
  OBVIOUS
<1>1. /\ policy \in {"per-update", "hourly"} /\ disk = NoStore /\ own = NoStore
      /\ live = NoProcess /\ saves = 0 /\ invocations = 0 /\ published = 0
  BY DEF Init
<1>2. saves \in 0 .. MaxSaves /\ invocations \in 0 .. MaxInvocations
  BY <1>1, Sizes
<1> QED
  BY <1>1, <1>2, AtFirst DEF Sound

\* The first layer is about the variables of the model.
LEMMA SameSound == ASSUME Sound, UNCHANGED vars PROVE Sound'
<1>1. UNCHANGED <<policy, disk, own, live, saves, invocations, published>>
  BY DEF vars
<1> QED
  BY <1>1 DEF Sound, Linkable, Top


(***************************************************************************)
(* The second layer: where in a save or an update the learner is, and what *)
(* its own store then holds of its ledger.                                 *)
(***************************************************************************)
Going == live.pc \in {"loop", "update", "next", "terminal", "close"}

Flow ==
  /\ live.pc = "none" => live = NoProcess /\ own = NoStore
  /\ live.pc = "close" => live.after = "close"
  /\ live.after = "close" => live.pc \in {"full", "retain", "close"}
  /\ live.after = "close" /\ live.pc # "close" => policy = "hourly"
  /\ Going \/ live.after = "close" => live.saved = live.ledger

\* The latest generation of the live invocation is not ahead of its memory, and the same
\* where a save has just been made.
Latest ==
  /\ live.pc = "journal" => own.latest # None
  /\ live.full # None /\ live.pc # "retain" => own.latest # None /\ Top(own).ledger = live.full
  /\ live.pc = "retain" \/ (live.pc = "close" /\ policy = "hourly") =>
       own.latest # None /\ Top(own).ledger = live.ledger
  /\ policy = "per-update" /\ (Going \/ live.pc = "journal") =>
       own.latest # None /\ live.full = live.ledger
  /\ policy = "per-update" /\ own.latest = None => live.after = "loop"
  /\ own.latest # None => /\ Top(own).ledger.consumed <= live.ledger.consumed
                          /\ Top(own).ledger.updates <= live.ledger.updates
                          /\ Top(own).discarded = live.discarded
  /\ /\ own.latest # None /\ Top(own).ledger.debited
     /\ Top(own).ledger.updates = live.ledger.updates
     =>
       Top(own).ledger = live.ledger /\ Top(own).redo = live.redo

\* So for its journal, in the hourly policy.
Journalled ==
  /\ policy = "hourly" /\ (Going \/ live.after # "loop") => own.journal # None
  /\ policy = "hourly" /\ (Going \/ live.after = "close") => own.journal.ledger = live.ledger
  /\ policy = "per-update" => live.discarded = 0
  /\ own.journal # None => /\ own.journal.ledger.consumed <= live.ledger.consumed
                           /\ own.journal.ledger.updates <= live.ledger.updates
                           /\ own.journal.discarded = live.discarded
                           /\ ~own.journal.closed /\ own.latest # None

\* recover() would accept the journal next to the latest generation.
Accepts(s) ==
  s.latest # None /\ s.journal # None => ~JournalRefused(Top(s), s.latest, s.journal)
Accepted ==
  /\ Accepts(own) /\ Accepts(disk)
  /\ policy = "per-update" => own.journal = None /\ disk.journal = None

Place == Flow /\ Latest /\ Journalled /\ Accepted

\* The books of a new learner.
LEMMA FreshIs ==
  /\ Fresh.pc = "save" /\ Fresh.after = "loop" /\ Fresh.full = None /\ Fresh.discarded = 0
  /\ Fresh.ledger = NewLedger /\ Fresh.redo = FALSE /\ Fresh.permanent = {}
  /\ Fresh.history = {} /\ Fresh.initial = None /\ Fresh.miles = NoMap(Milestones)
  /\ Fresh.exposures = NoMap(Gens)
BY DEF Fresh

\* And of none.
LEMMA NoProcessIs ==
  /\ NoProcess.pc = "none" /\ NoProcess.after = "loop" /\ NoProcess.full = None
  /\ NoProcess.discarded = 0
BY DEF NoProcess, Fresh

\* What Work and Saved are made of.
LEMMA WorkIs ==
  /\ UNCHANGED Work => /\ live'.ledger = live.ledger /\ live'.weights = live.weights
                       /\ live'.cursor = live.cursor /\ live'.batch = live.batch
                       /\ live'.redo = live.redo
  /\ UNCHANGED Saved => live'.saved = live.saved /\ live'.full = live.full
  /\ UNCHANGED PinBooks => /\ live'.permanent = live.permanent /\ live'.miles = live.miles
                           /\ live'.exposures = live.exposures /\ live'.initial = live.initial
BY DEF Work, Saved, PinBooks

\* The numbers in the ledgers of the learner, its latest generation and its journal.
LEMMA NumbersAre ==
  ASSUME Sound
  PROVE  /\ live.ledger.consumed \in Nat /\ live.ledger.updates \in Nat
         /\ live.ledger.pending \in Nat /\ live.ledger.debited \in BOOLEAN
         /\ live.discarded \in Nat
         /\ own.latest # None =>
              /\ Top(own).ledger \in Ledgers /\ Top(own).ledger.consumed \in Nat
              /\ Top(own).ledger.updates \in Nat /\ Top(own).ledger.pending \in Nat
              /\ Top(own).ledger.debited \in BOOLEAN /\ Top(own).discarded \in Nat
              /\ own.latest \in Gens
         /\ own.journal # None =>
              /\ own.journal.ledger \in Ledgers /\ own.journal.ledger.consumed \in Nat
              /\ own.journal.ledger.updates \in Nat /\ own.journal.discarded \in Nat
<1>1. Len(Tokens) \in Nat /\ Cap \in Nat
  BY Sizes
<1>2. ASSUME NEW l \in Ledgers
      PROVE  l.consumed \in Nat /\ l.updates \in Nat /\ l.pending \in Nat /\ l.debited \in BOOLEAN
  BY <1>1 DEF Ledgers
<1>3. live.ledger \in Ledgers /\ live.discarded \in 0 .. Cap
  BY DEF Sound, Lives
<1>4. ASSUME own.latest # None
      PROVE  Top(own).ledger \in Ledgers /\ Top(own).discarded \in 0 .. Cap /\ own.latest \in Gens
  <2>1. own.latest \in Gens /\ own.gens[own.latest] # None /\ own.gens[own.latest] = Top(own)
    BY <1>4, TopIs DEF Sound
  <2> QED
    BY <2>1, GenerationIs DEF Sound
<1>5. ASSUME own.journal # None
      PROVE  own.journal.ledger \in Ledgers /\ own.journal.discarded \in 0 .. Cap
  BY <1>5 DEF Sound, Whole, Stores, Journals
<1>6. \A d \in 0 .. Cap : d \in Nat
  BY <1>1
<1> QED
  BY <1>2, <1>3, <1>4, <1>5, <1>6

(***************************************************************************)
(* The steps of the loop.                                                  *)
(***************************************************************************)
LEMMA LoopKeepsPlace ==
  ASSUME Place, UNCHANGED <<policy, disk, own, saves, invocations, published>>,
         UNCHANGED <<Work, Saved, live.discarded>>, Flow',
         live'.pc = "journal" => own.latest # None /\ policy # "per-update",
         Going' => Going, live'.after # "loop" => Going \/ live.after # "loop",
         live'.after = "close" => Going \/ live.after = "close",
         live'.pc # "retain" /\ live.pc # "retain",
         live'.pc = "close" /\ policy = "hourly" =>
           own.latest # None /\ Top(own).ledger = live.ledger
  PROVE  Place'
<1>1. /\ live'.ledger = live.ledger /\ live'.redo = live.redo /\ live'.full = live.full
      /\ live'.discarded = live.discarded /\ own' = own /\ policy' = policy
  BY WorkIs
<1>2. Top(own') = Top(own)
  BY <1>1
<1>3. Latest'
  <2>1. policy' = "per-update" /\ (Going' \/ live'.pc = "journal") =>
          own'.latest # None /\ live'.full = live'.ledger
    BY <1>1 DEF Place, Latest
  <2>2. policy' = "per-update" /\ own'.latest = None => live'.after = "loop"
    BY <1>1 DEF Place, Latest
  <2>3. live'.full # None => own'.latest # None /\ Top(own').ledger = live'.full
    BY <1>1, <1>2 DEF Place, Latest
  <2>4. own'.latest # None => /\ Top(own').ledger.consumed <= live'.ledger.consumed
                              /\ Top(own').ledger.updates <= live'.ledger.updates
                              /\ Top(own').discarded = live'.discarded
    BY <1>1, <1>2 DEF Place, Latest
  <2>5. own'.latest # None /\ Top(own').ledger.updates = live'.ledger.updates
          /\ Top(own').ledger.debited =>
            Top(own').ledger = live'.ledger /\ Top(own').redo = live'.redo
    BY <1>1, <1>2 DEF Place, Latest
  <2> QED
    BY <1>1, <1>2, <2>1, <2>2, <2>3, <2>4, <2>5 DEF Latest, Top
<1>4. Journalled'
  BY <1>1 DEF Place, Journalled
<1>5. Accepted'
  BY DEF Place, Accepted, Accepts, Top, JournalRefused
<1> QED
  BY <1>3, <1>4, <1>5 DEF Place

\* A save that is not full has a generation before it.
LEMMA ChooseKeepsPlace == ASSUME Sound, Place, ChooseSave PROVE Place'
<1>1. /\ live.pc = "save" /\ live'.pc \in {"full", "journal"}
      /\ live'.pc = "journal" => ~MustBeFull
      /\ UNCHANGED <<policy, disk, own, saves, invocations, published>>
      /\ UNCHANGED <<Work, PinBooks, Saved, live.history, live.dirty, live.after, live.discarded>>
  BY OfChooseSave DEF Sound
<1>2. live'.after = live.after /\ live.after # "close"
  BY <1>1 DEF Place, Flow
<1>3. live'.pc = "journal" => own.latest # None /\ policy # "per-update"
  BY <1>1 DEF MustBeFull
<1>4. Flow'
  BY <1>1, <1>2 DEF Flow, Going
<1>5. ~Going'
  BY <1>1 DEF Going
<1> QED
  BY <1>1, <1>2, <1>3, <1>4, <1>5, LoopKeepsPlace

\* The loop only goes on after a save, so the ledger that it ends with is saved.
LEMMA EndKeepsPlace == ASSUME Sound, Place, EndTraining PROVE Place'
<1>1. /\ live.pc \in {"loop", "update", "next"} /\ live'.pc = "terminal"
      /\ UNCHANGED <<policy, disk, own, saves, invocations, published>>
      /\ UNCHANGED <<Work, PinBooks, Saved, live.history, live.dirty, live.after, live.discarded>>
  BY OfEndTraining DEF Sound
<1>2. live'.after = live.after /\ live.after # "close" /\ Going
  BY <1>1 DEF Place, Flow, Going
<1>3. Flow'
  BY <1>1, <1>2, WorkIs DEF Place, Flow
<1> QED
  BY <1>1, <1>2, <1>3, LoopKeepsPlace

\* So for its next round.
LEMMA NextKeepsPlace == ASSUME Sound, Place, NextUpdate PROVE Place'
<1>1. /\ live.pc = "next" /\ live'.pc = "loop"
      /\ UNCHANGED <<policy, disk, own, saves, invocations, published>>
      /\ UNCHANGED <<Work, PinBooks, Saved, live.history, live.dirty, live.after, live.discarded>>
  BY OfNextUpdate DEF Sound
<1>2. live'.after = live.after /\ live.after # "close" /\ Going
  BY <1>1 DEF Place, Flow, Going
<1>3. Flow'
  BY <1>1, <1>2, WorkIs DEF Place, Flow
<1> QED
  BY <1>1, <1>2, <1>3, LoopKeepsPlace

\* Only the hourly policy publishes once more.
LEMMA FinalKeepsPlace == ASSUME Sound, Place, FinalSave PROVE Place'
<1>1. /\ live.pc = "terminal" /\ live'.after = "close"
      /\ live'.pc = IF policy = "hourly" /\ live.full # live.saved THEN "full" ELSE "close"
      /\ UNCHANGED <<policy, disk, own, saves, invocations, published>>
      /\ UNCHANGED <<Work, PinBooks, Saved, live.history, live.dirty, live.discarded>>
  BY OfFinalSave DEF Sound
<1>2. Going /\ live.saved = live.ledger
  BY <1>1 DEF Place, Flow, Going
<1>3. Flow'
  BY <1>1, <1>2, WorkIs DEF Place, Flow
<1>4. live'.pc = "close" /\ policy = "hourly" =>
        own.latest # None /\ Top(own).ledger = live.ledger
  <2>1. live.ledger # None
    BY NoneIsNothing DEF NoneIsNothing, Sound, Lives
  <2>2. live'.pc = "close" /\ policy = "hourly" => live.full = live.ledger
    BY <1>1, <1>2
  <2> QED
    BY <1>1, <2>1, <2>2 DEF Place, Latest
<1> QED
  BY <1>1, <1>2, <1>3, <1>4, LoopKeepsPlace


\* A debit puts the learner ahead of its latest generation and its journal.
LEMMA TakeKeepsPlace == ASSUME Sound, Place, TakeBatch PROVE Place'
<1>1. /\ live.pc = "loop" /\ live'.pc = "save" /\ live'.after = "update"
      /\ UNCHANGED <<policy, disk, own, saves, invocations, published>>
      /\ UNCHANGED <<PinBooks, Saved, live.history, live.weights, live.dirty, live.discarded>>
  BY OfTakeBatch DEF Sound
<1>2. /\ live'.ledger.updates = live.ledger.updates
      /\ live'.ledger.consumed >= live.ledger.consumed /\ live'.ledger \in Ledgers /\ Taken
  BY TakeIs
<1>3. Going /\ live'.full = live.full /\ live'.discarded = live.discarded /\ Top(own') = Top(own)
  BY <1>1, WorkIs DEF Going
<1>4. Flow'
  BY <1>1 DEF Flow, Going
<1>5. live'.ledger.consumed \in Nat
  BY <1>2, Sizes DEF Ledgers
<1>6. own.latest # None => /\ Top(own).ledger.consumed <= live'.ledger.consumed
                           /\ Top(own).ledger.updates <= live'.ledger.updates
                           /\ Top(own).discarded = live'.discarded
  BY <1>2, <1>3, <1>5, NumbersAre DEF Place, Latest
<1>7. own.latest # None /\ Top(own).ledger.updates = live'.ledger.updates
        /\ Top(own).ledger.debited => Top(own).ledger = live'.ledger /\ Top(own).redo = live'.redo
  <2>1. SUFFICES ASSUME own.latest # None, Top(own).ledger.updates = live'.ledger.updates,
                        Top(own).ledger.debited
                 PROVE  Top(own).ledger = live'.ledger /\ Top(own).redo = live'.redo
    OBVIOUS
  <2>2. Top(own).ledger = live.ledger /\ Top(own).redo = live.redo
    BY <1>2, <2>1 DEF Place, Latest
  <2>3. live.batch # 0
    <3>1. live.batch = 0 => ~live.ledger.debited
      BY LiveIs, RightIs
    <3> QED
      BY <2>1, <2>2, <3>1
  <2>4. live'.ledger = live.ledger /\ live'.redo = live.redo
    BY <1>2, <2>3 DEF Taken
  <2> QED
    BY <2>2, <2>4
<1>8. Latest'
  BY <1>1, <1>3, <1>6, <1>7 DEF Place, Latest, Going, Top
<1>9. own.journal # None => /\ own.journal.ledger.consumed <= live'.ledger.consumed
                            /\ own.journal.ledger.updates <= live'.ledger.updates
  BY <1>2, <1>5, NumbersAre DEF Place, Journalled
<1>10. Journalled'
  BY <1>1, <1>3, <1>9 DEF Place, Journalled, Going
<1>11. Accepted'
  BY <1>1 DEF Place, Accepted, Accepts, Top, JournalRefused
<1> QED
  BY <1>4, <1>8, <1>10, <1>11 DEF Place

\* So does an update.
LEMMA UpdateKeepsPlace == ASSUME Sound, Place, Update PROVE Place'
<1>1. /\ live.pc = "update" /\ live'.pc = "save" /\ live'.after = "next"
      /\ UNCHANGED <<policy, disk, own, saves, invocations, published>>
      /\ UNCHANGED <<PinBooks, Saved, live.history, live.cursor, live.redo, live.discarded>>
  BY OfUpdate DEF Sound
<1>2. /\ live'.ledger.updates = live.ledger.updates + 1
      /\ live'.ledger.consumed = live.ledger.consumed /\ live'.ledger \in Ledgers
  BY UpdateIs
<1>3. Going /\ live'.full = live.full /\ live'.discarded = live.discarded /\ Top(own') = Top(own)
  BY <1>1, WorkIs DEF Going
<1>4. Flow'
  BY <1>1 DEF Flow, Going
<1>5. own.latest # None => /\ Top(own).ledger.consumed <= live'.ledger.consumed
                           /\ Top(own).ledger.updates <= live'.ledger.updates
                           /\ Top(own).discarded = live'.discarded
                           /\ Top(own).ledger.updates # live'.ledger.updates
  BY <1>2, <1>3, NumbersAre DEF Place, Latest
<1>6. Latest'
  BY <1>1, <1>3, <1>5 DEF Place, Latest, Going, Top
<1>7. own.journal # None => /\ own.journal.ledger.consumed <= live'.ledger.consumed
                            /\ own.journal.ledger.updates <= live'.ledger.updates
  BY <1>2, NumbersAre DEF Place, Journalled
<1>8. Journalled'
  BY <1>1, <1>3, <1>7 DEF Place, Journalled, Going
<1>9. Accepted'
  BY <1>1 DEF Place, Accepted, Accepts, Top, JournalRefused
<1> QED
  BY <1>4, <1>6, <1>8, <1>9 DEF Place

\* The journal catches up; recover() would accept it with the latest generation.
LEMMA JournalKeepsPlace == ASSUME Sound, Place, WriteJournal PROVE Place'
<1>1. /\ live.pc = "journal" /\ live'.pc \in {"terminal", live.after}
      /\ live'.saved = live.ledger
      /\ UNCHANGED <<policy, disk, saves, invocations>>
      /\ UNCHANGED <<Work, PinBooks, live.full, live.history, live.dirty, live.after,
                     live.discarded>>
  BY OfWriteJournal DEF Sound
<1>2. /\ own'.latest = own.latest /\ Top(own') = Top(own)
      /\ own'.journal = IF policy = "hourly" THEN Journal(FALSE) ELSE own.journal
  BY JournalledIs
<1>3. /\ Journal(FALSE).checkpoint = own.latest /\ Journal(FALSE).closed = FALSE
      /\ Journal(FALSE).ledger = live.ledger /\ Journal(FALSE).discarded = live.discarded
      /\ Journal(FALSE) # None
  BY JournalIs DEF Sound, Whole
<1>4. live.after \in {"loop", "update", "next"}
  BY <1>1 DEF Sound, Lives, Place, Flow
<1>5. /\ live'.pc \in {"loop", "update", "next", "terminal"} /\ live'.after = live.after
      /\ live'.ledger = live.ledger /\ live'.redo = live.redo /\ live'.full = live.full
      /\ live'.discarded = live.discarded
  BY <1>1, <1>4, WorkIs
<1>6. Flow'
  BY <1>1, <1>4, <1>5 DEF Flow, Going
<1>7. own.latest # None
  BY <1>1 DEF Place, Latest
<1>8. Latest'
  BY <1>1, <1>2, <1>5, <1>7 DEF Place, Latest, Top
<1>9. Journalled'
  <2>1. live.ledger.consumed \in Nat /\ live.ledger.updates \in Nat
    BY NumbersAre
  <2>2. CASE policy = "hourly"
    <3>1. /\ own'.journal # None /\ own'.journal.ledger = live'.ledger
          /\ own'.journal.discarded = live'.discarded /\ own'.journal.closed = FALSE
          /\ own'.latest # None /\ policy' = "hourly"
      BY <1>1, <1>2, <1>3, <1>5, <1>7, <2>2
    <3>2. /\ own'.journal.ledger.consumed <= live'.ledger.consumed
          /\ own'.journal.ledger.updates <= live'.ledger.updates
      BY <1>5, <2>1, <3>1
    <3> QED
      BY <3>1, <3>2 DEF Journalled
  <2>3. CASE policy # "hourly"
    <3>1. policy = "per-update" /\ own'.journal = None
      BY <1>2, <2>3 DEF Sound, Place, Accepted
    <3> QED
      BY <1>1, <1>5, <3>1 DEF Place, Journalled
  <2> QED
    BY <2>2, <2>3
<1>10. Accepted'
  <2>1. CASE policy = "hourly"
    <3>1. Accepts(own')
      BY <1>2, <1>3, <2>1 DEF Accepts, JournalRefused
    <3> QED
      BY <1>1, <2>1, <3>1 DEF Place, Accepted, Accepts, Top, JournalRefused
  <2>2. CASE policy # "hourly"
    <3>1. policy = "per-update" /\ own'.journal = None
      BY <1>2, <2>2 DEF Sound, Place, Accepted
    <3> QED
      BY <1>1, <3>1 DEF Place, Accepted, Accepts, Top, JournalRefused
  <2> QED
    BY <2>1, <2>2
<1> QED
  BY <1>6, <1>8, <1>9, <1>10 DEF Place

\* The latest generation catches up, and the journal is not ahead of it.
LEMMA WriteKeepsPlace == ASSUME Sound, Place, WriteGeneration PROVE Place'
<1>1. /\ live.pc = "full" /\ live'.pc = "retain"
      /\ UNCHANGED <<policy, disk, invocations>>
      /\ UNCHANGED <<Work, Saved, live.after, live.dirty, live.discarded>>
  BY OfWriteGeneration, LiveExposure DEF Sound, Whole
<1>2. /\ saves + 1 \in Gens /\ own'.latest = saves + 1 /\ own'.journal = own.journal
      /\ Top(own') = Generation
  BY WroteIs
<1>3. /\ live'.ledger = live.ledger /\ live'.redo = live.redo /\ live'.full = live.full
      /\ live'.discarded = live.discarded /\ live'.saved = live.saved /\ live'.after = live.after
  BY <1>1, WorkIs
<1>4. /\ Generation.ledger = live.ledger /\ Generation.discarded = live.discarded
      /\ Generation.redo = live.redo
  BY GenerationHolds
<1>5. own'.latest # None
  BY <1>2, Sizes
<1>6. Flow'
  BY <1>1, <1>3 DEF Place, Flow, Going
<1>7. live.ledger.consumed \in Nat /\ live.ledger.updates \in Nat
  BY NumbersAre
<1>8. Latest'
  BY <1>1, <1>2, <1>3, <1>4, <1>5, <1>7 DEF Latest, Going, Top
<1>9. Journalled'
  BY <1>1, <1>2, <1>3, <1>5 DEF Place, Journalled, Going
<1>10. Accepted'
  <2>1. ASSUME own.journal # None
        PROVE  ~JournalRefused(Generation, saves + 1, own.journal)
    BY <1>4, <1>7, <2>1, NumbersAre DEF Place, Journalled, JournalRefused
  <2>2. Accepts(own')
    BY <1>2, <2>1 DEF Accepts
  <2> QED
    BY <1>1, <1>2, <2>2 DEF Place, Accepted, Accepts, Top, JournalRefused
<1> QED
  BY <1>6, <1>8, <1>9, <1>10 DEF Place

\* retain() keeps the latest generation.
LEMMA RetainKeepsPlace == ASSUME Sound, Place, Retain PROVE Place'
<1>1. /\ live.pc = "retain" /\ live'.pc = (IF live.after = "close" THEN "close" ELSE "journal")
      /\ live'.full = live.ledger
      /\ UNCHANGED <<policy, disk, saves, invocations, published>>
      /\ UNCHANGED <<Work, PinBooks, live.saved, live.after, live.discarded>>
  BY OfRetain DEF Sound, Whole
<1>2. /\ own'.latest = own.latest /\ own'.journal = own.journal /\ own.latest # None
      /\ Top(own') = Top(own)
  BY RetainedIs
<1>3. /\ live'.ledger = live.ledger /\ live'.redo = live.redo
      /\ live'.discarded = live.discarded /\ live'.saved = live.saved /\ live'.after = live.after
  BY <1>1, WorkIs
<1>4. Flow'
  BY <1>1, <1>3 DEF Place, Flow, Going
<1>5. Top(own).ledger = live.ledger
  BY <1>1 DEF Place, Latest
<1>6. Latest'
  BY <1>1, <1>2, <1>3, <1>5 DEF Place, Latest, Going, Top
<1>7. Journalled'
  BY <1>1, <1>2, <1>3 DEF Place, Journalled, Going
<1>8. Accepted'
  <2>1. Accepts(own')
    BY <1>2 DEF Place, Accepted, Accepts
  <2> QED
    BY <1>1, <1>2, <2>1 DEF Place, Accepted, Accepts, Top, JournalRefused
<1> QED
  BY <1>4, <1>6, <1>7, <1>8 DEF Place

\* At the start of an invocation its store is empty but for copies, and it saved nothing.
LEMMA BeginKeepsPlace ==
  ASSUME Place, live'.pc = "save", live'.after = "loop", live'.full = None,
         policy = "per-update" => live'.discarded = 0,
         own'.latest = None, own'.journal = None, UNCHANGED <<policy, disk>>
  PROVE  Place'
<1>1. Flow'
  BY DEF Flow, Going
<1>2. Latest'
  BY DEF Latest, Going
<1>3. Journalled'
  BY DEF Journalled, Going
<1>4. Accepted'
  BY DEF Place, Accepted, Accepts, Top, JournalRefused
<1> QED
  BY <1>1, <1>2, <1>3, <1>4 DEF Place

\* The death of the learner leaves no memory and no store of its own.
LEMMA LeavingKeepsPlace ==
  ASSUME live' = NoProcess, own' = NoStore, policy' = policy,
         Accepts(disk'), policy = "per-update" => disk'.journal = None
  PROVE  Place'
<1>1. NoStore.latest = None /\ NoStore.journal = None
  BY AtFirst
<1>2. Flow'
  BY NoProcessIs DEF Flow, Going
<1>3. Latest'
  BY <1>1, NoProcessIs DEF Latest, Going
<1>4. Journalled'
  BY <1>1, NoProcessIs DEF Journalled, Going
<1>5. Accepted'
  BY <1>1 DEF Accepted, Accepts, Top, JournalRefused
<1> QED
  BY <1>2, <1>3, <1>4, <1>5 DEF Place

\* The closed journal has the ledger of the latest generation.
LEMMA FinishKeepsPlace == ASSUME Sound, Place, Finish PROVE Place'
<1>1. /\ live.pc = "close" /\ live' = NoProcess /\ own' = NoStore /\ policy' = policy
      /\ disk'.gens = own.gens /\ disk'.latest = own.latest
      /\ disk'.journal = (IF policy = "hourly" THEN Journal(TRUE) ELSE own.journal)
  BY OfFinish DEF Sound, Whole
<1>2. Top(disk') = Top(own)
  BY <1>1 DEF Top
<1>3. CASE policy = "hourly"
  <2>1. Journal(TRUE).checkpoint = own.latest /\ Journal(TRUE).ledger = live.ledger
    BY DEF Journal
  <2>2. Top(own).ledger = live.ledger
    BY <1>1, <1>3 DEF Place, Latest
  <2>3. Accepts(disk')
    BY <1>1, <1>2, <1>3, <2>1, <2>2 DEF Accepts, JournalRefused
  <2> QED
    BY <1>1, <1>3, <2>3, LeavingKeepsPlace
<1>4. CASE policy # "hourly"
  <2>1. policy = "per-update" /\ own.journal = None
    BY <1>4 DEF Sound, Place, Accepted
  <2>2. disk'.journal = None
    BY <1>1, <1>4, <2>1
  <2>3. Accepts(disk')
    BY <2>2 DEF Accepts
  <2> QED
    BY <1>1, <2>2, <2>3, LeavingKeepsPlace
<1> QED
  BY <1>3, <1>4

\* Every step keeps the second layer, given the first.
LEMMA KeepsPlace ==
  ASSUME Sound, Place, Next
  PROVE  Place'
<1>1. ASSUME Start PROVE Place'
  <2>1. live' = Fresh /\ own' = NoStore /\ UNCHANGED <<policy, disk>>
    BY <1>1 DEF Start
  <2> QED
    BY <2>1, AtFirst, FreshIs, BeginKeepsPlace
<1>2. ASSUME Resume PROVE Place'
  <2>1. /\ live'.pc = "save" /\ live'.after = "loop" /\ live'.full = None
        /\ live'.discarded = Discarded(Top(disk), disk.journal)
        /\ own' \in [gens : {[g \in Gens |-> IF g \in live'.permanent THEN disk.gens[g]
                                                                      ELSE None]},
                     latest : {None}, journal : {None}]
        /\ UNCHANGED <<policy, disk>>
    BY <1>2, OfResume
  <2>2. own'.latest = None /\ own'.journal = None
    <3>1. PICK f : f = [g \in Gens |-> IF g \in live'.permanent THEN disk.gens[g] ELSE None]
      OBVIOUS
    <3>2. own' \in [gens : {f}, latest : {None}, journal : {None}]
      BY <2>1, <3>1
    <3> QED
      BY <3>2
  <2>3. policy = "per-update" => live'.discarded = 0
    BY <2>1 DEF Discarded
  <2> QED
    BY <2>1, <2>2, <2>3, BeginKeepsPlace
<1>3. ASSUME SaveRefused \/ Crash PROVE Place'
  <2>1. /\ live' = NoProcess /\ own' = NoStore /\ policy' = policy
        /\ disk' = own \/ disk' = disk
    BY <1>3, OfLeaving
  <2>2. Accepts(disk') /\ (policy = "per-update" => disk'.journal = None)
    BY <2>1 DEF Place, Accepted
  <2> QED
    BY <2>1, <2>2, LeavingKeepsPlace
<1> QED
  BY <1>1, <1>2, <1>3, ChooseKeepsPlace, WriteKeepsPlace, RetainKeepsPlace, JournalKeepsPlace,
     EndKeepsPlace, NextKeepsPlace, TakeKeepsPlace, UpdateKeepsPlace, FinalKeepsPlace,
     FinishKeepsPlace DEF Next

\* There is no learner at first.
LEMMA InitPlace == Init => Place
<1> SUFFICES ASSUME Init PROVE Place
  OBVIOUS
<1>1. /\ live = NoProcess /\ own = NoStore /\ disk = NoStore
      /\ NoStore.latest = None /\ NoStore.journal = None
  BY AtFirst DEF Init
<1>2. Flow
  BY <1>1, NoProcessIs DEF Flow, Going
<1>3. Latest
  BY <1>1, NoProcessIs DEF Latest, Going
<1>4. Journalled
  BY <1>1, NoProcessIs DEF Journalled, Going
<1>5. Accepted
  BY <1>1 DEF Accepted, Accepts
<1> QED
  BY <1>2, <1>3, <1>4, <1>5 DEF Place

\* The second layer is about the variables of the model.
LEMMA SamePlace == ASSUME Place, UNCHANGED vars PROVE Place'
<1>1. UNCHANGED <<policy, disk, own, live, saves, invocations, published>>
  BY DEF vars
<1>2. Flow' /\ Journalled'
  BY <1>1 DEF Place, Flow, Journalled, Going
<1>3. Latest'
  BY <1>1 DEF Place, Latest, Going, Top
<1>4. Accepted'
  BY <1>1 DEF Place, Accepted, Accepts, Top, JournalRefused
<1> QED
  BY <1>2, <1>3, <1>4 DEF Place


(***************************************************************************)
(* The third layer: what was published is covered by what a resume would   *)
(* charge.                                                                 *)
(***************************************************************************)
\* Usable, Charge and the redo of a resume, of a store under a policy.
UsableAt(p, s) == s.latest # None /\ (p = "hourly" => s.journal # None)
ChargeAt(p, s) == IF p = "hourly" THEN Total(Top(s), s.journal) ELSE Top(s).ledger.consumed
ChargeOf(p, s) == IF UsableAt(p, s) THEN ChargeAt(p, s) ELSE 0
RedoAt(p, s) == Top(s).redo \/ (p = "hourly" /\ s.journal.ledger.updates > Top(s).ledger.updates)

\* What a resumed learner would publish on the debit that the generation already holds.
OwedAt(p, s) == IF Top(s).ledger.debited /\ ~RedoAt(p, s) THEN Top(s).ledger.pending ELSE 0

\* The store that a crash now would leave for the next resume.
Left == IF UsableAt(policy, own) THEN own ELSE disk

\* What the live learner was debited, and the part of it that it has yet to publish.
Worked == live.ledger.consumed + live.discarded
Saving == live.pc \in {"save", "full"} \/ (live.pc = "journal" /\ live.full # live.ledger)
Unpublished ==
  IF live.redo THEN 0
  ELSE IF live.ledger.debited THEN live.ledger.pending
  ELSE IF live.after = "next" /\ Saving THEN Tokens[live.cursor] ELSE 0

Charges ==
  /\ live.pc # "none" => published + Unpublished <= Worked /\ ChargeOf(policy, Left) <= Worked
  /\ UsableAt(policy, Left) => published + OwedAt(policy, Left) <= ChargeAt(policy, Left)
  /\ ~UsableAt(policy, Left) => published = 0

\* Never less than before.
Grows == ChargeOf(policy', Left') >= ChargeOf(policy, Left)

\* Left is the store of Current, and ChargeOf what Charged says of it.
LEMMA ChargedIs ==
  /\ Flow => Charged = ChargeOf(policy, Left)
  /\ Flow' => Charged' = ChargeOf(policy', Left')
<1>1. ASSUME Flow PROVE Charged = ChargeOf(policy, Left)
  <2>1. Usable(own) <=> UsableAt(policy, own)
    BY DEF Usable, UsableAt
  <2>2. live.pc = "none" => ~UsableAt(policy, own)
    BY <1>1, AtFirst DEF Flow, UsableAt
  <2>3. Current = Left
    BY <2>1, <2>2 DEF Current, Left
  <2>4. Usable(Left) <=> UsableAt(policy, Left)
    BY DEF Usable, UsableAt
  <2>5. Charge(Left) = ChargeAt(policy, Left)
    BY DEF Charge, ChargeAt, Top
  <2> QED
    BY <2>3, <2>4, <2>5 DEF Charged, ChargeOf
<1>2. ASSUME Flow' PROVE Charged' = ChargeOf(policy', Left')
  <2>1. Usable(own)' <=> UsableAt(policy', own')
    BY DEF Usable, UsableAt
  <2>2. live'.pc = "none" => ~UsableAt(policy', own')
    BY <1>2, AtFirst DEF Flow, UsableAt
  <2>3. Current' = Left'
    BY <2>1, <2>2 DEF Current, Left
  <2>4. Usable(Left)' <=> UsableAt(policy', Left')
    BY DEF Usable, UsableAt
  <2>5. Charge(Left)' = ChargeAt(policy', Left')
    BY DEF Charge, ChargeAt, Top
  <2> QED
    BY <2>3, <2>4, <2>5 DEF Charged, ChargeOf
<1> QED
  BY <1>1, <1>2

\* The numbers of a usable store.
LEMMA StoreCharge ==
  ASSUME Sound, NEW s \in {own, disk, Left}, UsableAt(policy, s)
  PROVE  /\ s.latest \in Gens /\ s.gens[s.latest] # None
         /\ Top(s) \in Generations /\ Right(Top(s)) /\ Top(s).ledger \in Ledgers
         /\ Top(s).ledger.consumed \in Nat /\ Top(s).discarded \in Nat
         /\ Top(s).ledger.pending \in Nat
         /\ ChargeAt(policy, s) \in Nat /\ ChargeAt(policy, s) <= Cap
         /\ OwedAt(policy, s) \in Nat
<1>1. Usable(s) /\ Charge(s) = ChargeAt(policy, s)
  BY DEF UsableAt, Usable, Charge, ChargeAt, Top
<1>2. Whole(s, saves)
  BY DEF Sound, Left
<1>3. /\ s.latest \in Gens /\ Top(s) # None /\ Top(s) \in Generations
      /\ Right(Top(s)) /\ Top(s).ledger \in Ledgers
      /\ Top(s).ledger.consumed \in Nat /\ Top(s).discarded \in Nat
      /\ Charge(s) \in Nat /\ Charge(s) <= Cap
  BY <1>1, <1>2, ChargeIs
<1>4. Top(s).ledger.pending \in Nat
  BY <1>3 DEF Ledgers
<1>5. OwedAt(policy, s) \in Nat
  BY <1>4 DEF OwedAt
<1>6. s.gens[s.latest] # None
  BY <1>3 DEF Top
<1> QED
  BY <1>1, <1>3, <1>4, <1>5, <1>6

\* The numbers of the live learner.
LEMMA LiveCharge ==
  ASSUME Sound
  PROVE  /\ Worked \in Nat /\ Unpublished \in Nat /\ published \in Nat
         /\ ChargeOf(policy, Left) \in Nat
         /\ live.ledger.pending \in Nat /\ live.ledger.debited \in BOOLEAN
         /\ live.after = "next" => Tokens[live.cursor] \in Nat /\ ~live.ledger.debited
         /\ ~live.redo /\ live.ledger.debited => Unpublished = live.ledger.pending
<1>1. /\ live.ledger.consumed \in Nat /\ live.discarded \in Nat /\ live.ledger.pending \in Nat
      /\ live.ledger.debited \in BOOLEAN
  BY NumbersAre
<1>2. live.after = "next" => Tokens[live.cursor] \in Nat /\ ~live.ledger.debited
  <2>1. live.after = "next" => live.cursor \in 1 .. Len(Tokens) /\ live.batch = 0
    BY PublishesIs
  <2>2. live.batch = 0 => ~live.ledger.debited
    BY LiveIs, RightIs
  <2> QED
    BY <2>1, <2>2, Sizes
<1>3. Unpublished \in Nat /\ Worked \in Nat
  BY <1>1, <1>2 DEF Unpublished, Worked
<1>4. ChargeOf(policy, Left) \in Nat
  BY StoreCharge DEF ChargeOf
<1>5. ~live.redo /\ live.ledger.debited => Unpublished = live.ledger.pending
  BY DEF Unpublished
<1>6. published \in Nat
  BY DEF Sound
<1> QED
  BY <1>1, <1>2, <1>3, <1>4, <1>5, <1>6

\* Two stores with the same pointer, generation behind it and journal charge the same.
LEMMA AlikeIs ==
  ASSUME NEW p, NEW s, NEW t, t.latest = s.latest, Top(t) = Top(s), t.journal = s.journal
  PROVE  /\ UsableAt(p, t) = UsableAt(p, s) /\ ChargeAt(p, t) = ChargeAt(p, s)
         /\ ChargeOf(p, t) = ChargeOf(p, s) /\ OwedAt(p, t) = OwedAt(p, s)
BY DEF UsableAt, ChargeAt, ChargeOf, OwedAt, RedoAt

\* Dropping old generations does not change what a resume would charge.
LEMMA AlikeLeft ==
  ASSUME policy' = policy, disk' = disk, own'.latest = own.latest, Top(own') = Top(own),
         own'.journal = own.journal
  PROVE  /\ UsableAt(policy', Left') = UsableAt(policy, Left)
         /\ ChargeAt(policy', Left') = ChargeAt(policy, Left)
         /\ ChargeOf(policy', Left') = ChargeOf(policy, Left)
         /\ OwedAt(policy', Left') = OwedAt(policy, Left)
<1>1. UsableAt(policy', own') = UsableAt(policy, own)
  BY AlikeIs
<1>2. CASE UsableAt(policy, own)
  <2>1. Left = own /\ Left' = own'
    BY <1>1, <1>2 DEF Left
  <2> QED
    BY <2>1, AlikeIs
<1>3. CASE ~UsableAt(policy, own)
  <2>1. Left = disk /\ Left' = disk'
    BY <1>1, <1>3 DEF Left
  <2> QED
    BY <2>1
<1> QED
  BY <1>2, <1>3

\* A step that leaves what a resume would find alone, and publishes nothing.
LEMMA QuietKeepsCharges ==
  ASSUME Sound, Sound', Charges, policy' = policy, disk' = disk, published' = published,
         own'.latest = own.latest, Top(own') = Top(own), own'.journal = own.journal,
         live.pc # "none",
         published + Unpublished <= Worked => published + Unpublished' <= Worked',
         Worked' >= Worked, Worked' \in Nat
  PROVE  Charges' /\ Grows
<1>1. /\ UsableAt(policy', Left') = UsableAt(policy, Left)
      /\ ChargeAt(policy', Left') = ChargeAt(policy, Left)
      /\ ChargeOf(policy', Left') = ChargeOf(policy, Left)
      /\ OwedAt(policy', Left') = OwedAt(policy, Left)
  BY AlikeLeft
<1>2. /\ Worked \in Nat /\ ChargeOf(policy, Left) \in Nat
  BY LiveCharge
<1>3. published' + Unpublished' <= Worked' /\ ChargeOf(policy', Left') <= Worked'
  BY <1>1, <1>2 DEF Charges
<1>4. UsableAt(policy', Left') => published' + OwedAt(policy', Left') <= ChargeAt(policy', Left')
  BY <1>1 DEF Charges
<1>5. ~UsableAt(policy', Left') => published' = 0
  BY <1>1 DEF Charges
<1> QED
  BY <1>1, <1>2, <1>3, <1>4, <1>5 DEF Charges, Grows

\* A save after which a resume would charge all that the learner was debited.
LEMMA SavingKeepsCharges ==
  ASSUME Sound, Charges, policy' = policy, live.pc # "none",
         UsableAt(policy, own'), ChargeAt(policy, own') = Worked, Worked' = Worked,
         published' + Unpublished' <= Worked, OwedAt(policy, own') <= Unpublished',
         Unpublished' \in Nat, published' \in Nat, OwedAt(policy, own') \in Nat
  PROVE  Charges' /\ Grows
<1>1. /\ Worked \in Nat /\ ChargeOf(policy, Left) \in Nat /\ ChargeOf(policy, Left) <= Worked
  BY LiveCharge DEF Charges
<1>2. Left' = own' /\ UsableAt(policy', Left')
  BY DEF Left
<1>3. ChargeAt(policy', Left') = Worked /\ ChargeOf(policy', Left') = Worked
  BY <1>2 DEF ChargeOf
<1>4. OwedAt(policy', Left') = OwedAt(policy, own')
  BY <1>2
<1> DEFINE w == Worked
           u == Unpublished'
           o == OwedAt(policy, own')
           p == published'
<1>5. w \in Nat /\ u \in Nat /\ o \in Nat /\ p \in Nat /\ p + u <= w /\ o <= u
  BY <1>1
<1>6. p + o <= w /\ w <= w
  <2> HIDE DEF w, u, o, p
  <2> QED
    BY <1>5
<1>7. published' + OwedAt(policy', Left') <= ChargeAt(policy', Left')
  <2>1. OwedAt(policy', Left') = o /\ ChargeAt(policy', Left') = w
    BY <1>3, <1>4
  <2> QED
    BY <1>6, <2>1
<1>8. published' + Unpublished' <= Worked'
  OBVIOUS
<1>9. ChargeOf(policy', Left') <= Worked'
  <2>1. ChargeOf(policy', Left') = w /\ Worked' = w
    BY <1>3
  <2> QED
    BY <1>6, <2>1
<1> QED
  BY <1>1, <1>2, <1>3, <1>7, <1>8, <1>9 DEF Charges, Grows


(***************************************************************************)
(* The steps of the loop.                                                  *)
(***************************************************************************)
LEMMA LoopKeepsCharges ==
  ASSUME Sound, Sound', Charges, live.pc # "none",
         UNCHANGED <<policy, disk, own, saves, invocations, published>>,
         UNCHANGED <<Work, live.discarded>>,
         live'.after = "next" /\ Saving' => live.after = "next" /\ Saving
  PROVE  Charges' /\ Grows
<1>1. /\ live'.ledger = live.ledger /\ live'.redo = live.redo /\ live'.cursor = live.cursor
      /\ live'.discarded = live.discarded /\ Top(own') = Top(own)
  BY WorkIs
<1>2. Worked' = Worked /\ Worked \in Nat /\ Worked' >= Worked
  BY <1>1, LiveCharge DEF Worked
<1>3. /\ Unpublished \in Nat /\ published \in Nat /\ live.ledger.pending \in Nat
      /\ live.ledger.debited \in BOOLEAN /\ live.redo \in BOOLEAN
      /\ live.after = "next" => Tokens[live.cursor] \in Nat
  BY LiveCharge DEF Sound, Lives
<1>4. Unpublished' = Unpublished \/ Unpublished' = 0
  BY <1>1 DEF Unpublished
<1>5. published + Unpublished <= Worked => published + Unpublished' <= Worked'
  BY <1>2, <1>3, <1>4
<1> QED
  BY <1>1, <1>2, <1>5, QuietKeepsCharges

\* What a save will publish is not published before it.
LEMMA ChooseKeepsCharges ==
  ASSUME Sound, Sound', Charges, ChooseSave
  PROVE  Charges' /\ Grows
<1>1. /\ live.pc = "save"
      /\ UNCHANGED <<policy, disk, own, saves, invocations, published>>
      /\ UNCHANGED <<Work, PinBooks, Saved, live.history, live.dirty, live.after, live.discarded>>
  BY OfChooseSave DEF Sound
<1>2. Saving
  BY <1>1 DEF Saving
<1> QED
  BY <1>1, <1>2, LoopKeepsCharges

\* In the loop nothing waits to be published.
LEMMA EndKeepsCharges ==
  ASSUME Sound, Sound', Charges, EndTraining
  PROVE  Charges' /\ Grows
<1>1. /\ live.pc \in {"loop", "update", "next"} /\ live'.pc = "terminal"
      /\ UNCHANGED <<policy, disk, own, saves, invocations, published>>
      /\ UNCHANGED <<Work, PinBooks, Saved, live.history, live.dirty, live.after, live.discarded>>
  BY OfEndTraining DEF Sound
<1>2. ~Saving'
  BY <1>1 DEF Saving
<1> QED
  BY <1>1, <1>2, LoopKeepsCharges

\* So for its next round.
LEMMA NextKeepsCharges ==
  ASSUME Sound, Sound', Charges, NextUpdate
  PROVE  Charges' /\ Grows
<1>1. /\ live.pc = "next" /\ live'.pc = "loop"
      /\ UNCHANGED <<policy, disk, own, saves, invocations, published>>
      /\ UNCHANGED <<Work, PinBooks, Saved, live.history, live.dirty, live.after, live.discarded>>
  BY OfNextUpdate DEF Sound
<1>2. ~Saving'
  BY <1>1 DEF Saving
<1> QED
  BY <1>1, <1>2, LoopKeepsCharges

\* The save of the orderly end publishes no update.
LEMMA FinalKeepsCharges ==
  ASSUME Sound, Sound', Charges, FinalSave
  PROVE  Charges' /\ Grows
<1>1. /\ live.pc = "terminal" /\ live'.after = "close"
      /\ UNCHANGED <<policy, disk, own, saves, invocations, published>>
      /\ UNCHANGED <<Work, PinBooks, Saved, live.history, live.dirty, live.discarded>>
  BY OfFinalSave DEF Sound
<1> QED
  BY <1>1, LoopKeepsCharges

\* A debit is spent, whether its update is ever published or not.
LEMMA TakeKeepsCharges ==
  ASSUME Sound, Sound', Charges, TakeBatch
  PROVE  Charges' /\ Grows
<1>1. /\ live.pc = "loop" /\ live'.after = "update"
      /\ UNCHANGED <<policy, disk, own, saves, invocations, published>>
      /\ live'.discarded = live.discarded /\ Top(own') = Top(own)
  BY OfTakeBatch DEF Sound
<1>2. Taken /\ live'.ledger \in Ledgers
  BY TakeIs
<1>3. /\ live.ledger.consumed \in Nat /\ live.discarded \in Nat /\ Worked \in Nat
      /\ Unpublished \in Nat /\ published \in Nat
      /\ live.redo \in BOOLEAN /\ live.ledger.debited \in BOOLEAN /\ live.ledger.pending \in Nat
  BY NumbersAre, LiveCharge DEF Sound, Lives
<1>4. live'.ledger.pending \in Nat /\ live'.ledger.debited \in BOOLEAN
  BY <1>2 DEF Ledgers
<1>5. CASE live.batch # 0
  <2>1. live'.ledger = live.ledger /\ live'.redo = live.redo
    BY <1>2, <1>5 DEF Taken
  <2>2. Worked' = Worked
    BY <1>1, <2>1 DEF Worked
  <2>3. Unpublished' = Unpublished \/ Unpublished' = 0
    BY <1>1, <2>1 DEF Unpublished
  <2>4. /\ published + Unpublished <= Worked => published + Unpublished' <= Worked'
        /\ Worked' >= Worked /\ Worked' \in Nat
    BY <1>3, <2>2, <2>3
  <2> QED
    BY <1>1, <2>4, QuietKeepsCharges
<1>6. CASE live.batch = 0 /\ live'.ledger.debited
  <2>1. live'.ledger.consumed = live.ledger.consumed + live'.ledger.pending /\ live'.redo = FALSE
    BY <1>2, <1>6 DEF Taken
  <2>2. Worked' = Worked + live'.ledger.pending
    BY <1>1, <1>3, <1>4, <2>1 DEF Worked
  <2>3. Unpublished' = live'.ledger.pending
    BY <1>6, <2>1 DEF Unpublished
  <2>4. /\ published + Unpublished <= Worked => published + Unpublished' <= Worked'
        /\ Worked' >= Worked /\ Worked' \in Nat
    BY <1>3, <1>4, <2>2, <2>3
  <2> QED
    BY <1>1, <2>4, QuietKeepsCharges
<1>7. CASE live.batch = 0 /\ ~live'.ledger.debited
  <2>1. live'.ledger.consumed = live.ledger.consumed /\ live'.redo = FALSE
    BY <1>2, <1>7 DEF Taken
  <2>2. Worked' = Worked
    BY <1>1, <2>1 DEF Worked
  <2>3. Unpublished' = 0
    BY <1>1, <1>7, <2>1 DEF Unpublished
  <2>4. /\ published + Unpublished <= Worked => published + Unpublished' <= Worked'
        /\ Worked' >= Worked /\ Worked' \in Nat
    BY <1>3, <2>2, <2>3
  <2> QED
    BY <1>1, <2>4, QuietKeepsCharges
<1> QED
  BY <1>5, <1>6, <1>7

\* What the update was debited is what its save publishes.
LEMMA UpdateKeepsCharges ==
  ASSUME Sound, Sound', Charges, Update
  PROVE  Charges' /\ Grows
<1>1. /\ live.pc = "update" /\ live'.pc = "save" /\ live'.after = "next" /\ live.ledger.debited
      /\ UNCHANGED <<policy, disk, own, saves, invocations, published>>
      /\ live'.discarded = live.discarded /\ live'.cursor = live.cursor
      /\ live'.redo = live.redo /\ Top(own') = Top(own)
  BY OfUpdate DEF Sound
<1>2. /\ ~live'.ledger.debited /\ live'.ledger.consumed = live.ledger.consumed
      /\ live.ledger.pending = Tokens[live.cursor]
  BY UpdateIs
<1>3. Unpublished' = Unpublished
  <2>1. Unpublished = IF live.redo THEN 0 ELSE Tokens[live.cursor]
    BY <1>1, <1>2 DEF Unpublished
  <2>2. Unpublished' = IF live'.redo THEN 0 ELSE Tokens[live'.cursor]
    BY <1>1, <1>2 DEF Unpublished, Saving
  <2> QED
    BY <1>1, <2>1, <2>2
<1>4. Worked' = Worked /\ Worked \in Nat
  BY <1>1, <1>2, LiveCharge DEF Worked
<1>5. Worked' >= Worked
  BY <1>4
<1> QED
  BY <1>1, <1>3, <1>4, <1>5, QuietKeepsCharges

\* The generation written has published the update.
LEMMA RetainKeepsCharges ==
  ASSUME Sound, Sound', Charges, Retain
  PROVE  Charges' /\ Grows
<1>1. /\ live.pc = "retain" /\ live'.pc = (IF live.after = "close" THEN "close" ELSE "journal")
      /\ live'.full = live.ledger
      /\ UNCHANGED <<policy, disk, saves, invocations, published>>
      /\ UNCHANGED <<Work, PinBooks, live.saved, live.after, live.discarded>>
  BY OfRetain DEF Sound, Whole
<1>2. /\ own'.latest = own.latest /\ own'.journal = own.journal /\ Top(own') = Top(own)
  BY RetainedIs
<1>3. /\ live'.ledger = live.ledger /\ live'.redo = live.redo /\ live'.cursor = live.cursor
      /\ live'.discarded = live.discarded
  BY <1>1, WorkIs
<1>4. ~Saving'
  BY <1>1, <1>3 DEF Saving
<1>5. Unpublished' = Unpublished \/ Unpublished' = 0
  BY <1>3, <1>4 DEF Unpublished
<1>6. Worked' = Worked /\ Worked \in Nat /\ Unpublished \in Nat /\ published \in Nat
  BY <1>3, LiveCharge DEF Worked
<1>7. /\ published + Unpublished <= Worked => published + Unpublished' <= Worked'
      /\ Worked' >= Worked /\ Worked' \in Nat
  BY <1>5, <1>6
<1> QED
  BY <1>1, <1>2, <1>7, QuietKeepsCharges


\* The save of a finished update publishes what was unpublished, any other nothing.
LEMMA PublishedIs ==
  ASSUME Sound, Saving, live'.ledger = live.ledger, live'.redo = live.redo,
         live'.cursor = live.cursor, ~Saving'
  PROVE  /\ Publishes \in Nat /\ Unpublished' \in Nat
         /\ Publishes + Unpublished' = Unpublished
         /\ live.ledger.debited /\ ~live.redo => Unpublished' = live.ledger.pending
<1>1. /\ Unpublished \in Nat /\ live.ledger.pending \in Nat
      /\ live.after = "next" => Tokens[live.cursor] \in Nat /\ ~live.ledger.debited
      /\ live.redo \in BOOLEAN /\ live.ledger.debited \in BOOLEAN
  BY LiveCharge DEF Sound, Lives
<1>2. CASE live.redo
  <2>1. Publishes = 0 /\ Unpublished = 0 /\ Unpublished' = 0
    BY <1>2 DEF Publishes, Unpublished
  <2> QED
    BY <1>2, <2>1
<1>3. CASE ~live.redo /\ live.ledger.debited
  <2>1. Publishes = 0
    BY <1>1, <1>3 DEF Publishes
  <2>2. Unpublished = live.ledger.pending /\ Unpublished' = live.ledger.pending
    BY <1>3 DEF Unpublished
  <2> QED
    BY <1>1, <2>1, <2>2
<1>4. CASE ~live.redo /\ ~live.ledger.debited
  <2>1. Publishes = (IF live.after = "next" THEN Tokens[live.cursor] ELSE 0)
    BY <1>4 DEF Publishes
  <2>2. Unpublished = IF live.after = "next" THEN Tokens[live.cursor] ELSE 0
    BY <1>4 DEF Unpublished
  <2>3. Unpublished' = 0
    BY <1>4 DEF Unpublished
  <2> QED
    BY <1>1, <1>4, <2>1, <2>2, <2>3
<1> QED
  BY <1>1, <1>2, <1>3, <1>4

\* Of two charges of which one is the larger in both parts.
LEMMA TotalOf ==
  ASSUME NEW x, NEW j, x.ledger.consumed \in Nat, x.discarded \in Nat,
         j.ledger.consumed \in Nat, j.discarded \in Nat
  PROVE  /\ x.ledger.consumed + x.discarded >= j.ledger.consumed + j.discarded =>
              Total(x, j) = x.ledger.consumed + x.discarded
         /\ j.ledger.consumed + j.discarded >= x.ledger.consumed + x.discarded =>
              Total(x, j) = j.ledger.consumed + j.discarded
<1> DEFINE m == x.ledger.consumed + x.discarded
           n == j.ledger.consumed + j.discarded
<1>1. /\ Total(x, j) \in Nat /\ Total(x, j) >= m /\ Total(x, j) >= n
      /\ Total(x, j) \in {m, n}
  BY TotalIs
<1>2. m \in Nat /\ n \in Nat
  OBVIOUS
<1>3. PICK t \in Nat : t = Total(x, j)
  BY <1>1
<1>4. /\ m >= n => t = m
      /\ n >= m => t = n
  <2>1. t >= m /\ t >= n /\ (t = m \/ t = n)
    BY <1>1, <1>3
  <2> HIDE DEF m, n
  <2> QED
    BY <1>2, <1>3, <2>1
<1> QED
  BY <1>3, <1>4

\* What is published moves out of what is unpublished.
LEMMA Moves ==
  ASSUME NEW a \in Nat, NEW b \in Nat, NEW c \in Nat, NEW d \in Nat, NEW w \in Nat,
         c + d = b, a + b <= w
  PROVE  a + c \in Nat /\ (a + c) + d = a + b /\ (a + c) + d <= w
OBVIOUS

\* A full save makes the ledger of the learner what a resume would charge.
LEMMA WriteKeepsCharges ==
  ASSUME Sound, Sound', Place, Charges, WriteGeneration
  PROVE  Charges' /\ Grows
<1>1. /\ live.pc = "full" /\ live'.pc = "retain" /\ published' = published + Publishes
      /\ UNCHANGED <<policy, disk, invocations>>
      /\ UNCHANGED <<Work, Saved, live.after, live.dirty, live.discarded>>
  BY OfWriteGeneration, LiveExposure DEF Sound, Whole
<1>2. /\ saves + 1 \in Gens /\ own'.latest = saves + 1 /\ own'.journal = own.journal
      /\ Top(own') = Generation
  BY WroteIs
<1>3. /\ live'.ledger = live.ledger /\ live'.redo = live.redo /\ live'.cursor = live.cursor
      /\ live'.discarded = live.discarded
  BY <1>1, WorkIs
<1>4. /\ Generation.ledger = live.ledger /\ Generation.discarded = live.discarded
      /\ Generation.redo = live.redo
  BY GenerationHolds
<1>5. Saving /\ ~Saving'
  BY <1>1 DEF Saving
<1>6. /\ Publishes \in Nat /\ Unpublished' \in Nat /\ Publishes + Unpublished' = Unpublished
      /\ live.ledger.debited /\ ~live.redo => Unpublished' = live.ledger.pending
  BY <1>3, <1>5, PublishedIs
<1>7. /\ Worked \in Nat /\ published \in Nat /\ Unpublished \in Nat
      /\ live.ledger.consumed \in Nat /\ live.ledger.updates \in Nat /\ live.discarded \in Nat
      /\ live.ledger.pending \in Nat
  BY LiveCharge, NumbersAre
<1>8. Worked' = Worked
  BY <1>3 DEF Worked
<1>9. published' + Unpublished' <= Worked' /\ published' \in Nat
  <2>1. published + Unpublished <= Worked
    BY <1>1 DEF Charges
  <2>2. /\ published + Publishes \in Nat
        /\ (published + Publishes) + Unpublished' <= Worked
    BY <1>6, <1>7, <2>1, Moves
  <2> QED
    BY <1>1, <1>8, <2>2
<1>10. own'.latest # None
  BY <1>2, Sizes
<1>11. CASE policy # "hourly" \/ own.journal # None
  <2>1. UsableAt(policy, own')
    BY <1>2, <1>10, <1>11 DEF UsableAt
  <2>2. ChargeAt(policy, own') = Worked
    <3>1. CASE policy = "hourly"
      <4>1. /\ own.journal.ledger.consumed \in Nat /\ own.journal.discarded = live.discarded
            /\ own.journal.ledger.consumed <= live.ledger.consumed
        BY <1>11, <3>1, NumbersAre DEF Place, Journalled
      <4>2. live.ledger.consumed + live.discarded
              >= own.journal.ledger.consumed + own.journal.discarded
        BY <1>7, <4>1
      <4>3. Total(Generation, own.journal) = live.ledger.consumed + live.discarded
        BY <1>4, <1>7, <4>1, <4>2, TotalOf
      <4> QED
        BY <1>2, <3>1, <4>3 DEF ChargeAt, Worked
    <3>2. CASE policy # "hourly"
      <4>1. live.discarded = 0
        BY <3>2 DEF Sound, Place, Journalled
      <4> QED
        BY <1>2, <1>4, <1>7, <3>2, <4>1 DEF ChargeAt, Worked
    <3> QED
      BY <3>1, <3>2
  <2>3. OwedAt(policy, own') \in Nat /\ OwedAt(policy, own') <= Unpublished'
    <3>1. OwedAt(policy, own') = 0 \/ (live.ledger.debited /\ ~live.redo
                                         /\ OwedAt(policy, own') = live.ledger.pending)
      BY <1>2, <1>4 DEF OwedAt, RedoAt
    <3> QED
      BY <1>6, <1>7, <3>1
  <2> QED
    BY <1>1, <1>6, <1>7, <1>8, <1>9, <2>1, <2>2, <2>3, SavingKeepsCharges
<1>12. CASE policy = "hourly" /\ own.journal = None
  <2>1. ~UsableAt(policy, own) /\ ~UsableAt(policy', own')
    BY <1>1, <1>2, <1>12 DEF UsableAt
  <2>2. Left = disk /\ Left' = disk
    BY <1>1, <2>1 DEF Left
  <2>3. live.after = "loop"
    BY <1>12 DEF Place, Journalled
  <2>4. Publishes = 0 /\ published' = published
    BY <1>1, <1>7, <2>3 DEF Publishes
  <2>5. ChargeOf(policy', Left') <= Worked'
    BY <1>1, <1>8, <2>2 DEF Charges
  <2>6. UsableAt(policy', Left') =>
          published' + OwedAt(policy', Left') <= ChargeAt(policy', Left')
    BY <1>1, <2>2, <2>4 DEF Charges
  <2>7. ~UsableAt(policy', Left') => published' = 0
    BY <1>1, <2>2, <2>4 DEF Charges
  <2>8. Grows
    BY <1>1, <2>2, LiveCharge DEF Grows
  <2> QED
    BY <1>9, <2>5, <2>6, <2>7, <2>8 DEF Charges
<1> QED
  BY <1>11, <1>12

\* So does the journal, whose generation may be older.
LEMMA JournalKeepsCharges ==
  ASSUME Sound, Sound', Place, Charges, WriteJournal
  PROVE  Charges' /\ Grows
<1>1. /\ live.pc = "journal" /\ live'.pc \in {"terminal", live.after}
      /\ published' = published + (IF live.full # live.ledger THEN Publishes ELSE 0)
      /\ UNCHANGED <<policy, disk, saves, invocations>>
      /\ UNCHANGED <<Work, PinBooks, live.full, live.history, live.dirty, live.after,
                     live.discarded>>
  BY OfWriteJournal DEF Sound
<1>2. /\ own'.latest = own.latest /\ Top(own') = Top(own)
      /\ own'.journal = IF policy = "hourly" THEN Journal(FALSE) ELSE own.journal
  BY JournalledIs
<1>3. /\ live'.ledger = live.ledger /\ live'.redo = live.redo /\ live'.cursor = live.cursor
      /\ live'.discarded = live.discarded /\ live'.full = live.full /\ live'.after = live.after
  BY <1>1, WorkIs
<1>4. ~Saving'
  <2>1. live.after # "close" /\ live.after \in {"loop", "update", "next", "close"}
    BY <1>1 DEF Sound, Lives, Place, Flow
  <2>2. live'.pc \in {"terminal", "loop", "update", "next"}
    BY <1>1, <2>1
  <2> QED
    BY <2>2 DEF Saving
<1>5. /\ Worked \in Nat /\ published \in Nat /\ Unpublished \in Nat
      /\ live.ledger.consumed \in Nat /\ live.ledger.updates \in Nat /\ live.discarded \in Nat
      /\ live.ledger.pending \in Nat
  BY LiveCharge, NumbersAre
<1>6. Worked' = Worked
  BY <1>3 DEF Worked
<1>8. published + Unpublished <= Worked
  BY <1>1 DEF Charges
<1>7. /\ published' \in Nat /\ Unpublished' \in Nat
      /\ published' + Unpublished' = published + Unpublished
      /\ live.ledger.debited /\ ~live.redo => Unpublished' = live.ledger.pending
  <2>1. CASE live.full # live.ledger
    <3>1. Saving
      BY <1>1, <2>1 DEF Saving
    <3>2. /\ Publishes \in Nat /\ Unpublished' \in Nat /\ Publishes + Unpublished' = Unpublished
          /\ live.ledger.debited /\ ~live.redo => Unpublished' = live.ledger.pending
      BY <1>3, <1>4, <3>1, PublishedIs
    <3>3. published' = published + Publishes
      BY <1>1, <2>1
    <3>4. /\ published + Publishes \in Nat
          /\ (published + Publishes) + Unpublished' = published + Unpublished
      <4> DEFINE a == published
                 b == Unpublished
                 c == Publishes
                 d == Unpublished'
      <4>1. a \in Nat /\ b \in Nat /\ c \in Nat /\ d \in Nat /\ c + d = b
        BY <1>5, <3>2
      <4>2. a + c \in Nat /\ (a + c) + d = a + b
        <5> HIDE DEF a, b, c, d
        <5> QED
          BY <4>1
      <4> QED
        BY <4>2
    <3> QED
      BY <3>2, <3>3, <3>4
  <2>2. CASE live.full = live.ledger
    <3>1. published' = published
      BY <1>1, <1>5, <2>2
    <3>2. ~Saving
      BY <1>1, <2>2 DEF Saving
    <3>3. Unpublished' = Unpublished
      BY <1>3, <1>4, <3>2 DEF Unpublished
    <3>4. live.ledger.debited /\ ~live.redo => Unpublished = live.ledger.pending
      BY DEF Unpublished
    <3> QED
      BY <1>5, <3>1, <3>3, <3>4
  <2> QED
    BY <2>1, <2>2
<1>9. own.latest # None
  BY <1>1 DEF Place, Latest
<1>10. CASE policy = "hourly"
  <2>1. /\ Journal(FALSE).ledger = live.ledger /\ Journal(FALSE).discarded = live.discarded
        /\ Journal(FALSE) # None
    BY JournalIs DEF Sound, Whole
  <2>2. UsableAt(policy, own')
    BY <1>2, <1>9, <1>10, <2>1 DEF UsableAt
  <2>3. /\ Top(own).ledger.consumed \in Nat /\ Top(own).discarded = live.discarded
        /\ Top(own).ledger.consumed <= live.ledger.consumed
        /\ Top(own).ledger.updates \in Nat /\ Top(own).ledger.updates <= live.ledger.updates
        /\ Top(own).ledger.updates = live.ledger.updates /\ Top(own).ledger.debited =>
             Top(own).ledger = live.ledger /\ Top(own).redo = live.redo
    BY <1>9, NumbersAre DEF Place, Latest
  <2>4. ChargeAt(policy, own') = Worked
    <3>1. live.ledger.consumed + live.discarded
            >= Top(own).ledger.consumed + Top(own).discarded
      BY <1>5, <2>3
    <3>2. Total(Top(own), Journal(FALSE)) = live.ledger.consumed + live.discarded
      <4>1. /\ Journal(FALSE).ledger.consumed \in Nat /\ Journal(FALSE).discarded \in Nat
            /\ Top(own).discarded \in Nat
            /\ Journal(FALSE).ledger.consumed + Journal(FALSE).discarded
                 >= Top(own).ledger.consumed + Top(own).discarded
        BY <1>5, <2>1, <2>3, <3>1
      <4>2. Total(Top(own), Journal(FALSE))
              = Journal(FALSE).ledger.consumed + Journal(FALSE).discarded
        BY <2>3, <4>1, TotalOf
      <4> QED
        BY <2>1, <4>2
    <3> QED
      BY <1>2, <1>10, <3>2 DEF ChargeAt, Worked
  <2>5. OwedAt(policy, own') = 0 \/ (live.ledger.debited /\ ~live.redo
                                       /\ OwedAt(policy, own') = live.ledger.pending)
    <3>1. SUFFICES ASSUME Top(own).ledger.debited, ~RedoAt(policy, own')
                   PROVE  /\ live.ledger.debited /\ ~live.redo
                          /\ OwedAt(policy, own') = live.ledger.pending
      BY <1>2 DEF OwedAt
    <3>2. ~Top(own).redo /\ ~(live.ledger.updates > Top(own).ledger.updates)
      BY <1>2, <1>10, <2>1, <3>1 DEF RedoAt
    <3>3. Top(own).ledger.updates = live.ledger.updates
      BY <1>5, <2>3, <3>2
    <3>4. Top(own).ledger = live.ledger /\ Top(own).redo = live.redo
      BY <2>3, <3>1, <3>3
    <3> QED
      BY <1>2, <3>1, <3>2, <3>4 DEF OwedAt
  <2>6. OwedAt(policy, own') \in Nat /\ OwedAt(policy, own') <= Unpublished'
    BY <1>5, <1>7, <2>5
  <2>7. published' + Unpublished' <= Worked
    BY <1>7, <1>8
  <2> QED
    BY <1>1, <1>5, <1>6, <1>7, <2>2, <2>4, <2>6, <2>7, SavingKeepsCharges
<1>11. CASE policy # "hourly"
  <2>1. live.full = live.ledger
    BY <1>1, <1>11 DEF Sound, Place, Latest
  <2>2. published' = published
    BY <1>1, <1>5, <2>1
  <2>3. published + Unpublished' <= Worked'
    BY <1>6, <1>7, <1>8, <2>2
  <2>4. own'.journal = own.journal
    BY <1>2, <1>11
  <2>5. Worked' >= Worked /\ Worked' \in Nat
    BY <1>5, <1>6
  <2> QED
    BY <1>1, <1>2, <2>2, <2>3, <2>4, <2>5, QuietKeepsCharges
<1> QED
  BY <1>10, <1>11

\* Where no process is, or where a resume would now find as much as before.
LEMMA LeavingKeepsCharges ==
  ASSUME Charges, policy' = policy, published' = published, live'.pc = "none",
         Left' = Left, ChargeOf(policy, Left) \in Nat
  PROVE  Charges' /\ Grows
<1>1. /\ UsableAt(policy', Left') =>
           published' + OwedAt(policy', Left') <= ChargeAt(policy', Left')
      /\ ~UsableAt(policy', Left') => published' = 0
  BY DEF Charges
<1>2. Grows
  BY DEF Grows
<1> QED
  BY <1>1, <1>2 DEF Charges

\* A crash leaves the store that Left says.
LEMMA CrashKeepsCharges ==
  ASSUME Sound, Charges, SaveRefused \/ Crash
  PROVE  Charges' /\ Grows
<1>1. /\ live' = NoProcess /\ own' = NoStore
      /\ disk' = (IF Usable(own) THEN own ELSE disk) /\ policy' = policy
      /\ published' = published
  BY OfLeaving
<1>2. ~UsableAt(policy', own')
  BY <1>1, AtFirst DEF UsableAt
<1>3. Left' = Left
  BY <1>1, <1>2 DEF Left, Usable, UsableAt
<1> QED
  BY <1>1, <1>3, NoProcessIs, LiveCharge, LeavingKeepsCharges

\* A new learner starts where no store is usable, and nothing was published.
LEMMA StartKeepsCharges ==
  ASSUME Sound, Place, Charges, Start
  PROVE  Charges' /\ Grows
<1>1. /\ live.pc = "none" /\ ~Usable(disk) /\ live' = Fresh /\ own' = NoStore
      /\ UNCHANGED <<policy, disk, saves, published>>
  BY DEF Start
<1>2. own = NoStore
  BY <1>1 DEF Place, Flow
<1>3. ~UsableAt(policy, own) /\ ~UsableAt(policy', own') /\ ~UsableAt(policy, disk)
  BY <1>1, <1>2, AtFirst DEF UsableAt, Usable
<1>4. Left = disk /\ Left' = disk
  BY <1>1, <1>3 DEF Left
<1>5. published = 0 /\ ChargeOf(policy, Left) = 0 /\ ~UsableAt(policy', Left')
      /\ ChargeOf(policy', Left') = 0
  BY <1>1, <1>3, <1>4 DEF Charges, ChargeOf
<1>6. NewLedger.consumed = 0 /\ NewLedger.debited = FALSE /\ NewLedger.pending = 0
  BY DEF NewLedger
<1>7. Worked' = 0
  BY <1>1, <1>6, FreshIs DEF Worked
<1>8. Unpublished' = 0
  BY <1>1, <1>6, FreshIs DEF Unpublished
<1>9. Grows
  BY <1>5 DEF Grows
<1>10. published' + Unpublished' <= Worked' /\ ChargeOf(policy', Left') <= Worked'
  BY <1>1, <1>5, <1>7, <1>8
<1> QED
  BY <1>1, <1>5, <1>9, <1>10 DEF Charges

\* What the resume discards is charged with what its ledger says.
LEMMA ResumeKeepsCharges ==
  ASSUME Sound, Place, Charges, Resume
  PROVE  Charges' /\ Grows
<1> DEFINE gen == Top(disk)
<1>1. /\ live.pc = "none" /\ Usable(disk)
      /\ live'.pc = "save" /\ live'.after = "loop"
      /\ live'.ledger = gen.ledger
      /\ live'.discarded = Discarded(gen, disk.journal) /\ live'.redo = Redo(gen)
      /\ own' \in [gens : {[g \in Gens |-> IF g \in live'.permanent THEN disk.gens[g]
                                                                    ELSE None]},
                   latest : {None}, journal : {None}]
      /\ UNCHANGED <<policy, disk, saves, published>>
      /\ gen.ledger.consumed + Discarded(gen, disk.journal) = Charge(disk)
  BY OfResume
<1>2. own'.latest = None
  <2>1. PICK f : f = [g \in Gens |-> IF g \in live'.permanent THEN disk.gens[g] ELSE None]
    OBVIOUS
  <2>2. own' \in [gens : {f}, latest : {None}, journal : {None}]
    BY <1>1, <2>1
  <2> QED
    BY <2>2
<1>3. own = NoStore
  BY <1>1 DEF Place, Flow
<1>4. ~UsableAt(policy, own) /\ ~UsableAt(policy', own') /\ UsableAt(policy, disk)
  BY <1>1, <1>2, <1>3, AtFirst DEF UsableAt, Usable
<1>5. Left = disk /\ Left' = disk
  BY <1>1, <1>4 DEF Left
<1>6. /\ ChargeAt(policy, disk) \in Nat /\ OwedAt(policy, disk) \in Nat /\ published \in Nat
  BY <1>4, StoreCharge, LiveCharge
<1>7. Worked' = ChargeAt(policy, disk)
  BY <1>1 DEF Worked, Charge, ChargeAt, Top
<1>8. Unpublished' = OwedAt(policy, disk)
  <2>1. Redo(gen) <=> gen.ledger.debited /\ RedoAt(policy, disk)
    BY DEF Redo, RedoAt
  <2>2. Unpublished' = IF Redo(gen) THEN 0 ELSE IF gen.ledger.debited THEN gen.ledger.pending
                                                                      ELSE 0
    BY <1>1 DEF Unpublished
  <2> QED
    BY <2>1, <2>2 DEF OwedAt
<1>9. published + OwedAt(policy, disk) <= ChargeAt(policy, disk)
  BY <1>4, <1>5 DEF Charges
<1>10. ChargeOf(policy', Left') = ChargeAt(policy, disk)
       /\ ChargeOf(policy, Left) = ChargeAt(policy, disk)
  BY <1>1, <1>4, <1>5 DEF ChargeOf
<1>11. published' + Unpublished' <= Worked'
  BY <1>1, <1>7, <1>8, <1>9
<1>12. ChargeOf(policy', Left') <= Worked' /\ Grows
  BY <1>6, <1>7, <1>10 DEF Grows
<1>13. UsableAt(policy', Left') /\ published' + OwedAt(policy', Left') <= ChargeAt(policy', Left')
  BY <1>1, <1>4, <1>5, <1>9
<1> QED
  BY <1>11, <1>12, <1>13 DEF Charges

\* The closed journal charges what the learner was debited.
LEMMA FinishKeepsCharges ==
  ASSUME Sound, Place, Charges, Finish
  PROVE  Charges' /\ Grows
<1>1. /\ live.pc = "close" /\ live' = NoProcess /\ own' = NoStore /\ policy' = policy
      /\ published' = published
      /\ disk'.gens = own.gens /\ disk'.latest = own.latest
      /\ disk'.journal = (IF policy = "hourly" THEN Journal(TRUE) ELSE own.journal)
  BY OfFinish DEF Sound, Whole
<1>2. Top(disk') = Top(own)
  BY <1>1 DEF Top
<1>3. Left' = disk'
  BY <1>1, AtFirst DEF Left, UsableAt
<1>4. own.latest # None
  BY <1>1 DEF Sound, Place, Latest, Going
<1>5. /\ published + Unpublished <= Worked /\ ChargeOf(policy, Left) <= Worked
      /\ Worked \in Nat /\ ChargeOf(policy, Left) \in Nat /\ published \in Nat
      /\ Unpublished \in Nat /\ live.ledger.pending \in Nat
      /\ live.ledger.consumed \in Nat /\ live.discarded \in Nat
  BY <1>1, LiveCharge, NumbersAre DEF Charges
<1>6. live'.pc = "none"
  BY <1>1, NoProcessIs
<1>7. CASE policy = "hourly"
  <2>1. /\ Journal(TRUE).ledger = live.ledger /\ Journal(TRUE).discarded = live.discarded
        /\ Journal(TRUE) # None
    BY JournalIs DEF Sound, Whole
  <2>2. Top(own).ledger = live.ledger /\ Top(own).discarded = live.discarded
    BY <1>1, <1>4, <1>7 DEF Place, Latest
  <2>3. UsableAt(policy', Left')
    BY <1>1, <1>3, <1>4, <1>7, <2>1 DEF UsableAt
  <2>4. ChargeAt(policy', Left') = Worked
    <3>1. Total(Top(own), Journal(TRUE)) = live.ledger.consumed + live.discarded
      <4>0. /\ Journal(TRUE).ledger.consumed = live.ledger.consumed
            /\ Journal(TRUE).discarded = live.discarded
            /\ Top(own).ledger.consumed = live.ledger.consumed
            /\ Top(own).discarded = live.discarded
        BY <2>1, <2>2
      <4>1. /\ Journal(TRUE).ledger.consumed \in Nat /\ Journal(TRUE).discarded \in Nat
            /\ Top(own).ledger.consumed \in Nat /\ Top(own).discarded \in Nat
            /\ Journal(TRUE).ledger.consumed + Journal(TRUE).discarded
                 >= Top(own).ledger.consumed + Top(own).discarded
        <5>1. live.ledger.consumed + live.discarded >= live.ledger.consumed + live.discarded
          BY <1>5
        <5> QED
          BY <1>5, <4>0, <5>1
      <4>2. Total(Top(own), Journal(TRUE))
              = Journal(TRUE).ledger.consumed + Journal(TRUE).discarded
        BY <4>1, TotalOf
      <4> QED
        BY <2>1, <4>2
    <3> QED
      BY <1>1, <1>2, <1>3, <1>7, <3>1 DEF ChargeAt, Worked
  <2>5. OwedAt(policy', Left') = 0 \/ OwedAt(policy', Left') = Unpublished
    <3>1. SUFFICES ASSUME Top(own).ledger.debited, ~RedoAt(policy', Left')
                   PROVE  OwedAt(policy', Left') = Unpublished
      BY <1>2, <1>3 DEF OwedAt
    <3>2. Top(own).redo = live.redo
      BY <1>4, <2>2, <3>1 DEF Place, Latest
    <3>3. ~live.redo
      BY <1>2, <1>3, <3>1, <3>2 DEF RedoAt
    <3>4. Unpublished = live.ledger.pending
      BY <2>2, <3>1, <3>3 DEF Unpublished
    <3>5. OwedAt(policy', Left') = Top(own).ledger.pending
      BY <1>2, <1>3, <3>1 DEF OwedAt
    <3> QED
      BY <2>2, <3>4, <3>5
  <2>6. published' + OwedAt(policy', Left') <= ChargeAt(policy', Left')
    <3>1. OwedAt(policy', Left') \in Nat /\ OwedAt(policy', Left') <= Unpublished
      BY <1>5, <2>5
    <3> QED
      BY <1>1, <1>5, <2>4, <3>1
  <2>7. Grows
    BY <1>5, <2>3, <2>4 DEF Grows, ChargeOf
  <2> QED
    BY <1>6, <2>3, <2>6, <2>7 DEF Charges
<1>8. CASE policy # "hourly"
  <2>1. UsableAt(policy, own) /\ Left = own
    BY <1>4, <1>8 DEF UsableAt, Left
  <2>2. /\ UsableAt(policy, Left') = UsableAt(policy, Left)
        /\ ChargeAt(policy, Left') = ChargeAt(policy, Left)
        /\ ChargeOf(policy, Left') = ChargeOf(policy, Left)
        /\ OwedAt(policy, Left') = OwedAt(policy, Left)
    <3>1. disk'.journal = own.journal
      BY <1>1, <1>8
    <3> QED
      BY <1>1, <1>2, <1>3, <2>1, <3>1, AlikeIs
  <2>3. /\ UsableAt(policy', Left') =>
             published' + OwedAt(policy', Left') <= ChargeAt(policy', Left')
        /\ ~UsableAt(policy', Left') => published' = 0
    BY <1>1, <2>2 DEF Charges
  <2>4. Grows
    BY <1>1, <1>5, <2>2 DEF Grows
  <2> QED
    BY <1>6, <2>3, <2>4 DEF Charges
<1> QED
  BY <1>7, <1>8

\* Every step keeps the third layer, given the first two, and lowers no charge.
LEMMA KeepsCharges ==
  ASSUME Sound, Sound', Place, Charges, Next
  PROVE  Charges' /\ Grows
BY ChooseKeepsCharges, EndKeepsCharges, NextKeepsCharges, FinalKeepsCharges, TakeKeepsCharges,
   UpdateKeepsCharges, RetainKeepsCharges, WriteKeepsCharges, JournalKeepsCharges,
   CrashKeepsCharges, StartKeepsCharges, ResumeKeepsCharges, FinishKeepsCharges DEF Next

\* Nothing is published at first.
LEMMA InitCharges == Init => Charges
<1> SUFFICES ASSUME Init PROVE Charges
  OBVIOUS
<1>1. /\ own = NoStore /\ disk = NoStore /\ live.pc = "none" /\ published = 0
  BY NoProcessIs DEF Init
<1>2. ~UsableAt(policy, Left)
  BY <1>1, AtFirst DEF UsableAt, Left
<1> QED
  BY <1>1, <1>2 DEF Charges

\* The third layer is about the variables of the model.
LEMMA SameCharges ==
  ASSUME Sound, Charges, UNCHANGED vars
  PROVE  Charges' /\ Grows
<1>1. UNCHANGED <<policy, disk, own, live, saves, invocations, published>>
  BY DEF vars
<1>2. /\ Left' = Left /\ Worked' = Worked /\ Unpublished' = Unpublished /\ policy' = policy
      /\ live' = live /\ published' = published
  BY <1>1 DEF Left, Worked, Unpublished, Saving
<1>3. Grows
  BY <1>2, LiveCharge DEF Grows
<1> QED
  BY <1>2, <1>3 DEF Charges


(***************************************************************************)
(* The fourth layer: milestones, and the generations they pin.             *)
(***************************************************************************)
\* No milestone that x has passed is without a generation.
Done(x) == \A m \in Milestones : m < Effective(x.ledger) => x.miles[m] # None

\* A milestone of x names a generation of the store at the last complete update below it.
Marks(x, s) ==
  \A m \in Milestones : x.miles[m] # None =>
    /\ x.miles[m] \in Gens /\ s.gens[x.miles[m]] # None
    /\ Effective(s.gens[x.miles[m]].ledger) = Boundary(m)
    /\ x.exposures[x.miles[m]] # None /\ x.exposures[x.miles[m]] <= m

\* The generations whose exposure x knows; the first of them and those named are pins.
Known(x) == {g \in Gens : x.exposures[g] # None}
PinsOf(pins, x, s) ==
  /\ \A g \in pins : g \in Gens /\ s.gens[g] # None
  /\ \A m \in Milestones : x.miles[m] # None => x.miles[m] \in pins
  /\ Known(x) # {} => Min(Known(x)) \in pins

Pinned(s) ==
  s.latest # None =>
    /\ Done(Top(s)) /\ Marks(Top(s), s) /\ PinsOf(Top(s).pins, Top(s), s)
    /\ \A g \in Known(Top(s)) \cup Top(s).pins : g < s.latest

Booked ==
  live.pc # "none" =>
    /\ Done(live) /\ Marks(live, own) /\ PinsOf(live.permanent, live, own)
    /\ live.permanent \subseteq live.history
    /\ \A g \in live.history : own.gens[g] # None
    /\ \A g \in Known(live) : g <= saves
    /\ live.initial = IF Known(live) = {} THEN None ELSE Min(Known(live))
    /\ own.latest # None =>
         /\ live.initial # None /\ own.latest \in live.history
         /\ Top(own).pins \subseteq live.permanent

\* After a save no milestone is due.
NoneDue == live.pc \in {"retain", "journal"} \/ Going => Due(live.ledger, live.miles) = {}

Pinning == Pinned(own) /\ Pinned(disk) /\ Booked /\ NoneDue

\* A larger number does not change the least.
LEMMA MinOfMore ==
  ASSUME NEW S \in SUBSET Nat, S # {}, NEW g \in Nat, \A k \in S : k <= g
  PROVE  Min(S \cup {g}) = Min(S)
<1>1. Min(S) \in S /\ \A k \in S : Min(S) <= k
  BY MinIsLeast
<1>2. S \cup {g} \in SUBSET Nat /\ S \cup {g} # {}
  OBVIOUS
<1>3. Min(S \cup {g}) \in S \cup {g} /\ \A k \in S \cup {g} : Min(S \cup {g}) <= k
  BY <1>2, MinIsLeast
<1>4. PICK a \in Nat, b \in Nat : a = Min(S) /\ b = Min(S \cup {g})
  BY <1>1, <1>3
<1>5. a \in S /\ b \in S \cup {g} /\ b <= a
  BY <1>1, <1>3, <1>4
<1>6. b \in S => a <= b
  BY <1>1, <1>4
<1>7. b \notin S => b = g /\ a <= g
  BY <1>5
<1>8. a = b
  BY <1>5, <1>6, <1>7
<1> QED
  BY <1>4, <1>8

\* A milestone that is due lies between the last complete update and the next one.
LEMMA DueIs ==
  ASSUME NEW x, Right(x), x.ledger \in Ledgers, x.cursor \in 0 .. Len(Tokens),
         x.batch \in 0 .. Len(Tokens), x.discarded \in 0 .. Cap,
         NEW miles, NEW m \in Due(x.ledger, miles)
  PROVE  /\ m \in Milestones /\ miles[m] = None
         /\ Boundary(m) = Effective(x.ledger) /\ Effective(x.ledger) <= m
<1> DEFINE u == x.ledger.updates
           l == x.ledger
<1>1. /\ u \in 0 .. Len(Tokens) /\ Effective(l) = Exposure[u] /\ Effective(l) \in Nat
      /\ l.pending # 0 => u < Len(Tokens) /\ l.pending = Tokens[u + 1]
  BY RightIs
<1>2. /\ m \in Milestones /\ miles[m] = None
      /\ \/ m = Effective(l)
         \/ l.pending # 0 /\ Effective(l) <= m /\ m < Effective(l) + l.pending
  BY DEF Due, Crossed
<1>3. m \in Nat
  BY <1>2, Sizes
<1>4. Effective(l) <= m
  BY <1>1, <1>2, <1>3
<1>5. m = Exposure[u] \/ (u < Len(Tokens) /\ m < Exposure[u] + Tokens[u + 1])
  BY <1>1, <1>2
<1>6. Boundary(m) = Exposure[u]
  BY <1>1, <1>3, <1>4, <1>5, BoundaryIs
<1> QED
  BY <1>1, <1>2, <1>4, <1>6

\* Books in order, of a learner or a generation x with store s, into which g can enter.
Ready(x, s, g, pins) ==
  /\ Right(x) /\ x.ledger \in Ledgers /\ x.cursor \in 0 .. Len(Tokens)
  /\ x.batch \in 0 .. Len(Tokens) /\ x.discarded \in 0 .. Cap
  /\ x.miles \in [Milestones -> Gens \cup {None}]
  /\ x.exposures \in [Gens -> Nat \cup {None}]
  /\ g \in Gens /\ pins \in SUBSET Gens
  /\ Done(x) /\ Marks(x, s) /\ PinsOf(pins, x, s) /\ \A k \in Known(x) \cup pins : k < g

\* y is x after it.
Joined(x, g, pins, y) ==
  /\ y.ledger = x.ledger /\ y.miles = KeepMilestones(x.ledger, x.miles, g)
  /\ y.exposures = [x.exposures EXCEPT ![g] = Effective(x.ledger)]
  /\ y.initial = (IF Known(x) = {} THEN g ELSE Min(Known(x)))
  /\ y.permanent = pins \cup (IF Known(x) = {} \/ y.miles # x.miles THEN {g} ELSE {})

\* The books after generation g joined them, at a save or at a resume.
LEMMA JoinIs ==
  ASSUME NEW x, NEW s, NEW g, NEW pins, Ready(x, s, g, pins), NEW y, Joined(x, g, pins, y),
         NEW t, t.gens[g] # None, t.gens[g].ledger = x.ledger,
         \A k \in pins : t.gens[k] = s.gens[k]
  PROVE  /\ Done(y) /\ Marks(y, t) /\ PinsOf(y.permanent, y, t)
         /\ Known(y) = Known(x) \cup {g} /\ y.initial = Min(Known(y)) /\ y.initial \in Gens
         /\ Due(y.ledger, y.miles) = {}
<1> DEFINE initial == y.initial
           more == y.permanent
<1>0. /\ Right(x) /\ x.ledger \in Ledgers /\ x.cursor \in 0 .. Len(Tokens)
      /\ x.batch \in 0 .. Len(Tokens) /\ x.discarded \in 0 .. Cap
      /\ x.miles \in [Milestones -> Gens \cup {None}]
      /\ x.exposures \in [Gens -> Nat \cup {None}]
      /\ g \in Gens /\ pins \in SUBSET Gens
      /\ Done(x) /\ Marks(x, s) /\ PinsOf(pins, x, s) /\ \A k \in Known(x) \cup pins : k < g
      /\ y.ledger = x.ledger /\ y.miles = KeepMilestones(x.ledger, x.miles, g)
      /\ y.exposures = [x.exposures EXCEPT ![g] = Effective(x.ledger)]
      /\ y.initial = (IF Known(x) = {} THEN g ELSE Min(Known(x)))
      /\ y.permanent = pins \cup (IF Known(x) = {} \/ y.miles # x.miles THEN {g} ELSE {})
  BY DEF Ready, Joined
<1> USE <1>0
<1>1. g # None /\ Gens \subseteq Nat /\ None \notin Gens
  BY Sizes
<1>2. Effective(x.ledger) \in Nat
  BY RightIs
<1>3. /\ \A m \in Milestones : y.miles[m] = IF m \in Due(x.ledger, x.miles) THEN g ELSE x.miles[m]
      /\ DOMAIN y.miles = Milestones
  BY DEF KeepMilestones
<1>4. /\ y.exposures[g] = Effective(x.ledger)
      /\ \A k \in Gens : k # g => y.exposures[k] = x.exposures[k]
  OBVIOUS
<1>5. Effective(x.ledger) # None
  BY <1>2, NoneIsNothing DEF NoneIsNothing
<1>6. Done(y)
  BY <1>1, <1>3 DEF Done
<1>7. Known(y) = Known(x) \cup {g}
  BY <1>4, <1>5 DEF Known
<1>8. initial = Min(Known(y)) /\ initial \in Gens /\ initial \in more
  <2>1. CASE Known(x) = {}
    <3>1. Known(y) = {g} /\ initial = g
      BY <1>7, <2>1
    <3>2. Min({g}) = g
      <4>1. {g} \in SUBSET Nat /\ {g} # {}
        BY <1>1
      <4> QED
        BY <4>1, MinIsLeast
    <3> QED
      BY <2>1, <3>1, <3>2
  <2>2. CASE Known(x) # {}
    <3>1. Known(x) \in SUBSET Nat /\ g \in Nat
      BY <1>1 DEF Known
    <3>2. \A k \in Known(x) : k <= g
      BY <3>1
    <3>3. Min(Known(x) \cup {g}) = Min(Known(x))
      BY <2>2, <3>1, <3>2, MinOfMore
    <3>4. Min(Known(x)) \in pins
      BY <2>2 DEF PinsOf
    <3> QED
      BY <1>7, <2>2, <3>3, <3>4
  <2> QED
    BY <2>1, <2>2
<1>9. ASSUME NEW m \in Due(x.ledger, x.miles) PROVE y.miles # x.miles /\ g \in more
  <2>1. m \in Milestones /\ x.miles[m] = None
    BY <1>9 DEF Due
  <2>2. y.miles[m] = g
    BY <1>3, <2>1
  <2> QED
    BY <1>1, <2>1, <2>2
<1>10. PinsOf(more, y, t)
  <2>1. ASSUME NEW k \in more PROVE k \in Gens /\ t.gens[k] # None
    <3>1. CASE k \in pins
      BY <3>1 DEF PinsOf
    <3>2. CASE k \notin pins
      <4>1. k = g
        BY <3>2
      <4> QED
        BY <4>1
    <3> QED
      BY <3>1, <3>2
  <2>2. ASSUME NEW m \in Milestones, y.miles[m] # None PROVE y.miles[m] \in more
    <3>1. CASE m \in Due(x.ledger, x.miles)
      BY <1>3, <1>9, <3>1
    <3>2. CASE m \notin Due(x.ledger, x.miles)
      BY <1>3, <2>2, <3>2 DEF PinsOf
    <3> QED
      BY <3>1, <3>2
  <2> QED
    BY <1>8, <2>1, <2>2 DEF PinsOf
<1>11. Marks(y, t)
  <2>1. SUFFICES ASSUME NEW m \in Milestones, y.miles[m] # None
                 PROVE  /\ y.miles[m] \in Gens /\ t.gens[y.miles[m]] # None
                        /\ Effective(t.gens[y.miles[m]].ledger) = Boundary(m)
                        /\ y.exposures[y.miles[m]] # None /\ y.exposures[y.miles[m]] <= m
    BY DEF Marks
  <2>2. CASE m \in Due(x.ledger, x.miles)
    <3>1. Boundary(m) = Effective(x.ledger) /\ Effective(x.ledger) <= m
      BY <2>2, DueIs
    <3>2. y.miles[m] = g
      BY <1>3, <2>2
    <3> QED
      BY <1>4, <1>5, <3>1, <3>2
  <2>3. CASE m \notin Due(x.ledger, x.miles)
    <3>1. PICK k : k = x.miles[m] /\ y.miles[m] = k /\ k # None
      BY <1>3, <2>1, <2>3
    <3>2. k \in pins /\ k \in Gens
      BY <3>1 DEF PinsOf
    <3>3. k # g
      BY <1>1, <3>2
    <3>4. /\ s.gens[k] # None /\ Effective(s.gens[k].ledger) = Boundary(m)
          /\ x.exposures[k] # None /\ x.exposures[k] <= m
      BY <3>1 DEF Marks
    <3>5. t.gens[k] = s.gens[k] /\ y.exposures[k] = x.exposures[k]
      BY <1>4, <3>2, <3>3
    <3> QED
      BY <3>1, <3>2, <3>4, <3>5
  <2> QED
    BY <2>2, <2>3
<1>12. ASSUME NEW m \in Due(y.ledger, y.miles) PROVE FALSE
  <2>1. m \in Milestones /\ y.miles[m] = None
    BY <1>12 DEF Due
  <2>2. m \notin Due(x.ledger, x.miles) /\ x.miles[m] = None
    BY <1>1, <1>3, <2>1
  <2> QED
    BY <1>12, <2>1, <2>2 DEF Due
<1> QED
  BY <1>6, <1>7, <1>8, <1>10, <1>11, <1>12


\* A store that still has the pinned generations serves as well.
LEMMA CopyServes ==
  ASSUME NEW x, NEW pins, NEW s, NEW t, Marks(x, s), PinsOf(pins, x, s),
         \A k \in pins : t.gens[k] = s.gens[k]
  PROVE  Marks(x, t) /\ PinsOf(pins, x, t)
<1>1. PinsOf(pins, x, t)
  BY DEF PinsOf
<1>2. ASSUME NEW m \in Milestones, x.miles[m] # None
      PROVE  t.gens[x.miles[m]] = s.gens[x.miles[m]]
  BY <1>2 DEF PinsOf
<1> QED
  BY <1>1, <1>2 DEF Marks

\* So do the pins of its latest generation.
LEMMA PinnedSame ==
  ASSUME NEW s, NEW t, Pinned(s), t.latest = s.latest, Top(t) = Top(s),
         s.latest # None => \A k \in Top(s).pins : t.gens[k] = s.gens[k]
  PROVE  Pinned(t)
<1> SUFFICES ASSUME s.latest # None PROVE Pinned(t)
  BY DEF Pinned
<1>1. /\ Done(Top(s)) /\ Marks(Top(s), s) /\ PinsOf(Top(s).pins, Top(s), s)
      /\ \A g \in Known(Top(s)) \cup Top(s).pins : g < s.latest
  BY DEF Pinned
<1>2. Marks(Top(s), t) /\ PinsOf(Top(s).pins, Top(s), t)
  BY <1>1, CopyServes
<1> QED
  BY <1>1, <1>2 DEF Pinned

\* The books are about the miles, exposures and ledger of a learner.
LEMMA BooksSame ==
  ASSUME NEW x, NEW y, y.miles = x.miles, y.exposures = x.exposures
  PROVE  /\ Known(y) = Known(x)
         /\ \A s : Marks(x, s) => Marks(y, s)
         /\ \A pins, s : PinsOf(pins, x, s) => PinsOf(pins, y, s)
<1>1. Known(y) = Known(x)
  BY DEF Known
<1>2. \A s : Marks(x, s) => Marks(y, s)
  BY DEF Marks
<1>3. \A pins, s : PinsOf(pins, x, s) => PinsOf(pins, y, s)
  BY <1>1 DEF PinsOf
<1> QED
  BY <1>1, <1>2, <1>3

\* The steps that leave the generations and the books alone.
LEMMA LoopKeepsPinning ==
  ASSUME Sound, Pinning, disk' = disk, saves' = saves, own'.latest = own.latest,
         own'.gens = own.gens, live.pc # "none", UNCHANGED <<PinBooks, live.history>>,
         Done(live'), NoneDue'
  PROVE  Pinning'
<1>1. /\ live'.permanent = live.permanent /\ live'.miles = live.miles
      /\ live'.exposures = live.exposures /\ live'.initial = live.initial
      /\ live'.history = live.history
  BY WorkIs
<1>2. Top(own') = Top(own)
  BY DEF Top
<1>3. Pinned(own') /\ Pinned(disk')
  BY <1>2, PinnedSame DEF Pinning
<1>4. /\ Marks(live, own) /\ PinsOf(live.permanent, live, own)
      /\ live.permanent \subseteq live.history
      /\ \A g \in live.history : own.gens[g] # None
      /\ \A g \in Known(live) : g <= saves
      /\ live.initial = IF Known(live) = {} THEN None ELSE Min(Known(live))
      /\ own.latest # None =>
           /\ live.initial # None /\ own.latest \in live.history
           /\ Top(own).pins \subseteq live.permanent
  BY DEF Pinning, Booked
<1>5. /\ Marks(live', own) /\ PinsOf(live.permanent, live', own) /\ Known(live') = Known(live)
  BY <1>1, <1>4, BooksSame
<1>6. /\ Marks(live', own') /\ PinsOf(live'.permanent, live', own')
  <2>1. Marks(live', own') /\ PinsOf(live.permanent, live', own')
    BY <1>5, CopyServes
  <2> QED
    BY <1>1, <2>1
<1>7. /\ live'.permanent \subseteq live'.history
      /\ \A g \in live'.history : own'.gens[g] # None
      /\ \A g \in Known(live') : g <= saves'
      /\ live'.initial = IF Known(live') = {} THEN None ELSE Min(Known(live'))
  BY <1>1, <1>4, <1>5
<1>8. own'.latest # None => /\ live'.initial # None /\ own'.latest \in live'.history
                            /\ Top(own').pins \subseteq live'.permanent
  BY <1>1, <1>2, <1>4
<1>9. Booked'
  BY <1>6, <1>7, <1>8 DEF Booked, Top
<1>10. Pinned(own)' /\ Pinned(disk)'
  BY <1>3
<1> QED
  BY <1>9, <1>10 DEF Pinning

\* The steps that move no ledger either.
LEMMA QuietKeepsPinning ==
  ASSUME Sound, Pinning, UNCHANGED <<policy, disk, own, saves>>, live.pc # "none",
         UNCHANGED <<Work, PinBooks, live.history>>,
         live'.pc \in {"retain", "journal"} \/ Going' =>
           \/ live.pc \in {"retain", "journal"} \/ Going
           \/ Due(live.ledger, live.miles) = {}
  PROVE  Pinning'
<1>1. live'.ledger = live.ledger /\ live'.miles = live.miles
  BY WorkIs
<1>2. Done(live')
  BY <1>1 DEF Pinning, Booked, Done
<1>3. NoneDue'
  <2>1. live'.pc \in {"retain", "journal"} \/ Going' => Due(live.ledger, live.miles) = {}
    BY DEF Pinning, NoneDue
  <2> QED
    BY <1>1, <2>1 DEF NoneDue, Due, Crossed, Effective
<1> QED
  BY <1>2, <1>3, LoopKeepsPinning

\* A save that a milestone is due at is full.
LEMMA ChooseKeepsPinning == ASSUME Sound, Pinning, ChooseSave PROVE Pinning'
<1>1. /\ live.pc = "save" /\ live'.pc \in {"full", "journal"}
      /\ live'.pc = "journal" => ~MustBeFull
      /\ UNCHANGED <<policy, disk, own, saves, invocations, published>>
      /\ UNCHANGED <<Work, PinBooks, Saved, live.history, live.dirty, live.after, live.discarded>>
  BY OfChooseSave DEF Sound
<1>2. live'.pc \in {"retain", "journal"} \/ Going' => Due(live.ledger, live.miles) = {}
  BY <1>1 DEF Going, MustBeFull
<1> QED
  BY <1>1, <1>2, QuietKeepsPinning

\* No milestone is due where training ends.
LEMMA EndKeepsPinning == ASSUME Sound, Pinning, EndTraining PROVE Pinning'
<1>1. /\ live.pc \in {"loop", "update", "next"}
      /\ UNCHANGED <<policy, disk, own, saves, invocations, published>>
      /\ UNCHANGED <<Work, PinBooks, Saved, live.history, live.dirty, live.after, live.discarded>>
  BY OfEndTraining DEF Sound
<1>2. Going
  BY <1>1 DEF Going
<1> QED
  BY <1>1, <1>2, QuietKeepsPinning

\* Nor in the next round of the loop.
LEMMA NextKeepsPinning == ASSUME Sound, Pinning, NextUpdate PROVE Pinning'
<1>1. /\ live.pc = "next"
      /\ UNCHANGED <<policy, disk, own, saves, invocations, published>>
      /\ UNCHANGED <<Work, PinBooks, Saved, live.history, live.dirty, live.after, live.discarded>>
  BY OfNextUpdate DEF Sound
<1>2. Going
  BY <1>1 DEF Going
<1> QED
  BY <1>1, <1>2, QuietKeepsPinning

\* Nor at the orderly end.
LEMMA FinalKeepsPinning == ASSUME Sound, Pinning, FinalSave PROVE Pinning'
<1>1. /\ live.pc = "terminal"
      /\ UNCHANGED <<policy, disk, own, saves, invocations, published>>
      /\ UNCHANGED <<Work, PinBooks, Saved, live.history, live.dirty, live.discarded>>
  BY OfFinalSave DEF Sound
<1>2. Going
  BY <1>1 DEF Going
<1> QED
  BY <1>1, <1>2, QuietKeepsPinning

\* The journal names no milestone.
LEMMA JournalKeepsPinning == ASSUME Sound, Place, Pinning, WriteJournal PROVE Pinning'
<1>1. /\ live.pc = "journal"
      /\ UNCHANGED <<policy, disk, saves, invocations>>
      /\ UNCHANGED <<Work, PinBooks, live.full, live.history, live.dirty, live.after,
                     live.discarded>>
  BY OfWriteJournal DEF Sound
<1>2. own'.gens = own.gens /\ own'.latest = own.latest
  BY JournalledIs
<1>3. live'.ledger = live.ledger /\ live'.miles = live.miles
  BY <1>1, WorkIs
<1>4. Done(live')
  BY <1>1, <1>3 DEF Pinning, Booked, Done
<1>5. NoneDue'
  BY <1>1, <1>3 DEF Pinning, NoneDue, Due, Crossed, Effective
<1> QED
  BY <1>1, <1>2, <1>4, <1>5, LoopKeepsPinning

\* A batch that is taken completes no update: the exposure stays.
LEMMA TakeKeepsPinning == ASSUME Sound, Sound', Pinning, TakeBatch PROVE Pinning'
<1>1. /\ live.pc = "loop" /\ live'.pc = "save"
      /\ UNCHANGED <<policy, disk, own, saves, invocations, published>>
      /\ UNCHANGED <<PinBooks, Saved, live.history, live.weights, live.dirty, live.discarded>>
  BY OfTakeBatch DEF Sound
<1>2. live'.ledger.updates = live.ledger.updates
  BY TakeIs
<1>3. Effective(live.ledger) = Exposure[live.ledger.updates]
  BY LiveExposure
<1>4. Effective(live'.ledger) = Exposure[live'.ledger.updates]
  BY DEF Sound, Right, Faithful
<1>5. Effective(live'.ledger) = Effective(live.ledger) /\ live'.miles = live.miles
  BY <1>1, <1>2, <1>3, <1>4, WorkIs
<1>6. Done(live')
  BY <1>1, <1>5 DEF Pinning, Booked, Done
<1>7. NoneDue'
  BY <1>1 DEF NoneDue, Going
<1> QED
  BY <1>1, <1>6, <1>7, LoopKeepsPinning

\* An update passes the milestones in its batch, none of which was due any more.
LEMMA UpdateKeepsPinning == ASSUME Sound, Sound', Pinning, Update PROVE Pinning'
<1> DEFINE u == live.ledger.updates
<1>1. /\ live.pc = "update" /\ live'.pc = "save"
      /\ UNCHANGED <<policy, disk, own, saves, invocations, published>>
      /\ UNCHANGED <<PinBooks, Saved, live.history, live.cursor, live.redo, live.discarded>>
  BY OfUpdate DEF Sound
<1>2. /\ live'.ledger.updates = u + 1
      /\ Exposure[u + 1] = Exposure[u] + live.ledger.pending /\ live.batch # 0
  BY UpdateIs
<1>3. /\ Effective(live.ledger) = Exposure[u] /\ Effective(live.ledger) \in Nat
  BY LiveExposure
<1>4. Effective(live'.ledger) = Exposure[live'.ledger.updates]
  BY DEF Sound, Right, Faithful
<1>5. /\ Effective(live'.ledger) = Effective(live.ledger) + live.ledger.pending
      /\ live'.miles = live.miles
  BY <1>1, <1>2, <1>3, <1>4, WorkIs
<1>6. live.ledger.pending > 0 /\ live.ledger.pending \in Nat
  BY <1>2, LiveIs, RightIs
<1>7. Due(live.ledger, live.miles) = {}
  BY <1>1 DEF Pinning, NoneDue, Going
<1>8. ASSUME NEW m \in Milestones, m < Effective(live'.ledger) PROVE live'.miles[m] # None
  <2>1. m \in Nat
    BY Sizes
  <2>2. CASE m < Effective(live.ledger)
    BY <1>1, <1>5, <2>2 DEF Pinning, Booked, Done
  <2>3. CASE ~ (m < Effective(live.ledger))
    <3>1. Effective(live.ledger) <= m /\ m < Effective(live.ledger) + live.ledger.pending
          /\ live.ledger.pending # 0
      BY <1>3, <1>5, <1>6, <1>8, <2>1, <2>3
    <3>2. m \in Crossed(live.ledger)
      BY <3>1 DEF Crossed
    <3> QED
      BY <1>5, <1>7, <3>2 DEF Due
  <2> QED
    BY <2>2, <2>3
<1>9. Done(live')
  BY <1>8 DEF Done
<1>10. NoneDue'
  BY <1>1 DEF NoneDue, Going
<1> QED
  BY <1>1, <1>9, <1>10, LoopKeepsPinning


\* The generation written takes every milestone that is due, and is then a pin.
LEMMA WriteKeepsPinning == ASSUME Sound, Pinning, WriteGeneration PROVE Pinning'
<1> DEFINE g == saves + 1
<1>1. /\ live.pc = "full" /\ live'.pc = "retain" /\ saves' = g /\ g \in Gens
      /\ live'.history = live.history \cup {g}
      /\ live'.exposures = [live.exposures EXCEPT ![g] = Effective(live.ledger)]
      /\ live'.initial = (IF live.initial = None THEN g ELSE live.initial)
      /\ live'.miles = KeepMilestones(live.ledger, live.miles, g)
      /\ live'.permanent = live.permanent
           \cup (IF live.initial = None \/ live'.miles # live.miles THEN {g} ELSE {})
      /\ UNCHANGED <<policy, disk, invocations>>
      /\ UNCHANGED <<Work, Saved, live.after, live.dirty, live.discarded>>
  BY OfWriteGeneration, LiveExposure DEF Sound, Whole
<1>2. /\ own'.latest = g /\ own'.gens[g] = Generation /\ Top(own') = Generation
      /\ \A k \in Gens \ {g} : own'.gens[k] = own.gens[k] /\ saves \in Nat
  BY WroteIs
<1>3. /\ Generation \in Generations /\ Generation.ledger = live.ledger
      /\ Generation.exposures = live.exposures /\ Generation.miles = live.miles
      /\ Generation.pins = live.permanent
  BY GenerationHolds
<1>4. /\ Done(live) /\ Marks(live, own) /\ PinsOf(live.permanent, live, own)
      /\ live.permanent \subseteq live.history
      /\ \A k \in live.history : own.gens[k] # None
      /\ \A k \in Known(live) : k <= saves
      /\ live.initial = IF Known(live) = {} THEN None ELSE Min(Known(live))
  BY <1>1 DEF Pinning, Booked
<1>5. /\ live.history \subseteq Gens /\ live.permanent \in SUBSET Gens
      /\ live.miles \in [Milestones -> Gens \cup {None}]
      /\ live.exposures \in [Gens -> Nat \cup {None}]
  BY DEF Sound, Lives
<1>6. \A k \in live.history : k <= saves /\ k \in Nat /\ k # g
  <2>1. ASSUME NEW k \in live.history PROVE k <= saves /\ k \in Nat
    <3>1. k \in Gens /\ own.gens[k] # None
      BY <1>4, <1>5
    <3> QED
      BY <3>1, Sizes DEF Sound, Whole
  <2>2. saves \in Nat
    BY LiveExposure
  <2> QED
    BY <2>1, <2>2
<1>7. \A k \in Known(live) \cup live.permanent : k < g
  <2>1. saves \in Nat
    BY LiveExposure
  <2>2. \A k \in Known(live) : k \in Nat
    BY Sizes DEF Known
  <2> QED
    BY <1>4, <1>6, <2>1, <2>2
<1>8. \A k \in live.permanent : own'.gens[k] = own.gens[k]
  BY <1>2, <1>4, <1>5, <1>6
<1>9. live'.ledger = live.ledger
  BY <1>1, WorkIs
<1>10. Generation # None
  BY <1>3, NoneIsNothing DEF NoneIsNothing
<1>11. live.initial = None <=> Known(live) = {}
  <2>1. Known(live) # {} => Min(Known(live)) \in Gens
    <3>1. Known(live) \in SUBSET Nat /\ Known(live) \subseteq Gens
      BY Sizes DEF Known
    <3> QED
      BY <3>1, MinIsLeast
  <2> QED
    BY <1>4, <2>1, Sizes
<1>12. /\ Done(live') /\ Marks(live', own') /\ PinsOf(live'.permanent, live', own')
       /\ Known(live') = Known(live) \cup {g} /\ live'.initial = Min(Known(live'))
       /\ live'.initial \in Gens /\ Due(live'.ledger, live'.miles) = {}
  <2>1. Right(live) /\ live.ledger \in Ledgers /\ live.cursor \in 0 .. Len(Tokens)
        /\ live.batch \in 0 .. Len(Tokens) /\ live.discarded \in 0 .. Cap
    BY LiveIs
  <2>2. own'.gens[g] # None /\ own'.gens[g].ledger = live.ledger
    BY <1>2, <1>3, <1>10
  <2>3. live'.initial = (IF Known(live) = {} THEN g ELSE Min(Known(live)))
    BY <1>1, <1>4, <1>11
  <2>4. live'.permanent = live.permanent
          \cup (IF Known(live) = {} \/ live'.miles # live.miles THEN {g} ELSE {})
    BY <1>1, <1>11
  <2>5. Ready(live, own, g, live.permanent)
    BY <1>1, <1>4, <1>5, <1>7, <2>1 DEF Ready
  <2>6. Joined(live, g, live.permanent, live')
    BY <1>1, <1>9, <2>3, <2>4 DEF Joined
  <2> DEFINE t == own'
             y == live'
  <2>7. /\ Ready(live, own, g, live.permanent) /\ Joined(live, g, live.permanent, y)
        /\ t.gens[g] # None /\ t.gens[g].ledger = live.ledger
        /\ \A k \in live.permanent : t.gens[k] = own.gens[k]
    BY <1>8, <2>2, <2>5, <2>6
  <2>8. /\ Done(y) /\ Marks(y, t) /\ PinsOf(y.permanent, y, t)
        /\ Known(y) = Known(live) \cup {g} /\ y.initial = Min(Known(y))
        /\ y.initial \in Gens /\ Due(y.ledger, y.miles) = {}
    <3> DEFINE x == live
               s == own
               pins == live.permanent
    <3>1. /\ Ready(x, s, g, pins) /\ Joined(x, g, pins, y)
          /\ t.gens[g] # None /\ t.gens[g].ledger = x.ledger
          /\ \A k \in pins : t.gens[k] = s.gens[k]
      BY <2>7
    <3>2. /\ Done(y) /\ Marks(y, t) /\ PinsOf(y.permanent, y, t)
          /\ Known(y) = Known(x) \cup {g} /\ y.initial = Min(Known(y))
          /\ y.initial \in Gens /\ Due(y.ledger, y.miles) = {}
      <4> HIDE DEF g, t, y, x, s, pins
      <4> QED
        BY <3>1, JoinIs
    <3> QED
      BY <3>2
  <2> QED
    BY <2>8
<1>13. Pinned(own')
  <2>1. Known(Generation) = Known(live) /\ Marks(Generation, own)
        /\ PinsOf(live.permanent, Generation, own)
    BY <1>3, <1>4, BooksSame
  <2>2. Marks(Generation, own') /\ PinsOf(live.permanent, Generation, own')
    BY <1>8, <2>1, CopyServes
  <2>3. Done(Generation)
    BY <1>3, <1>4 DEF Done
  <2>4. \A k \in Known(Generation) \cup Generation.pins : k < own'.latest
    BY <1>2, <1>3, <1>7, <2>1
  <2> QED
    BY <1>2, <1>3, <2>2, <2>3, <2>4 DEF Pinned
<1>14. /\ live'.permanent \subseteq live'.history
       /\ \A k \in live'.history : own'.gens[k] # None
       /\ \A k \in Known(live') : k <= saves'
  <2>1. live'.permanent \subseteq live'.history
    BY <1>1, <1>4
  <2>2. ASSUME NEW k \in live'.history PROVE own'.gens[k] # None
    <3>1. CASE k = g
      BY <1>2, <1>10, <3>1
    <3>2. CASE k # g
      <4>1. k \in live.history /\ k \in Gens
        BY <1>1, <1>5, <3>2
      <4> QED
        BY <1>2, <1>4, <3>2, <4>1
    <3> QED
      BY <3>1, <3>2
  <2>3. ASSUME NEW k \in Known(live') PROVE k <= saves'
    <3>1. k = g \/ k < g
      BY <1>7, <1>12
    <3>2. g \in Nat /\ k \in Nat
      BY <1>1, Sizes DEF Known
    <3> QED
      BY <1>1, <3>1, <3>2
  <2> QED
    BY <2>1, <2>2, <2>3
<1>15. /\ live'.initial # None /\ own'.latest \in live'.history
       /\ Top(own').pins \subseteq live'.permanent
  BY <1>1, <1>2, <1>3, <1>12, Sizes
<1>16. live'.initial = IF Known(live') = {} THEN None ELSE Min(Known(live'))
  BY <1>12
<1>17. Booked'
  BY <1>12, <1>14, <1>15, <1>16 DEF Booked, Top
<1>18. NoneDue'
  BY <1>12 DEF NoneDue, Due, Crossed, Effective
<1>19. Pinned(own)' /\ Pinned(disk)'
  BY <1>1, <1>13 DEF Pinning
<1> QED
  BY <1>17, <1>18, <1>19 DEF Pinning

\* Outside of a save, a milestone that was reached has its generation.
LEMMA NoneMissed ==
  ASSUME Sound, Pinning, live.pc \in {"retain", "journal"} \/ Going,
         NEW m \in Milestones, m <= Effective(live.ledger)
  PROVE  live.miles[m] # None
<1>1. Done(live) /\ Due(live.ledger, live.miles) = {}
  BY DEF Pinning, Booked, NoneDue, Going
<1>2. m \in Nat /\ Effective(live.ledger) \in Nat
  BY Sizes, LiveExposure
<1>3. CASE m = Effective(live.ledger)
  BY <1>1, <1>3 DEF Due
<1>4. CASE m # Effective(live.ledger)
  <2>1. m < Effective(live.ledger)
    BY <1>2, <1>4
  <2> QED
    BY <1>1, <2>1 DEF Done
<1> QED
  BY <1>3, <1>4

\* pin_plan finds what it looks for, and retain() misses nothing it names.
LEMMA RetainFinds ==
  ASSUME Sound, Place, Pinning, live.pc = "retain"
  PROVE  PlanHolds /\ Keep \subseteq live.history
<1>1. /\ Done(live) /\ Marks(live, own) /\ PinsOf(live.permanent, live, own)
      /\ live.permanent \subseteq live.history
      /\ live.initial = IF Known(live) = {} THEN None ELSE Min(Known(live))
      /\ own.latest # None => live.initial # None /\ own.latest \in live.history
  BY DEF Pinning, Booked
<1>2. own.latest # None
  BY DEF Place, Latest
<1>3. \A m \in Milestones : m <= Effective(live.ledger) => live.miles[m] # None
  BY NoneMissed
<1>5. PlanHolds
  BY <1>1, <1>3 DEF PlanHolds, Marks
<1>6. live.initial \in live.permanent
  BY <1>1, <1>2 DEF PinsOf
<1>7. ASSUME NEW m \in Milestones, m <= Effective(live.ledger)
      PROVE  (IF live.miles[m] # None THEN live.miles[m] ELSE Min(Exact(m))) \in live.permanent
  BY <1>1, <1>3, <1>7 DEF PinsOf
<1>8. Pins \subseteq live.history
  <2>1. ASSUME NEW k \in Pins PROVE k \in live.history
    <3>1. \/ k = live.initial \/ k = own.latest
          \/ \E m \in Milestones : /\ m <= Effective(live.ledger)
                                   /\ k = IF live.miles[m] # None THEN live.miles[m]
                                                                  ELSE Min(Exact(m))
      BY DEF Pins
    <3> QED
      BY <1>1, <1>2, <1>6, <1>7, <3>1
  <2> QED
    BY <2>1
<1> QED
  BY <1>1, <1>5, <1>8 DEF Keep

\* retain() keeps the pins.
LEMMA RetainKeepsPinning == ASSUME Sound, Place, Pinning, Retain PROVE Pinning'
<1>1. /\ live.pc = "retain" /\ Keep \subseteq live.history /\ live'.history = Keep
      /\ UNCHANGED <<policy, disk, saves, invocations, published>>
      /\ UNCHANGED <<Work, PinBooks, live.saved, live.after, live.discarded>>
  BY OfRetain DEF Sound, Whole
<1>2. /\ own'.latest = own.latest /\ own.latest # None /\ Top(own') = Top(own)
      /\ \A g \in Gens : own'.gens[g] = IF g \in live.history \ Keep THEN None ELSE own.gens[g]
  BY RetainedIs
<1>3. /\ live'.permanent = live.permanent /\ live'.miles = live.miles
      /\ live'.exposures = live.exposures /\ live'.initial = live.initial
      /\ live'.ledger = live.ledger
  BY <1>1, WorkIs
<1>4. /\ Done(live) /\ Marks(live, own) /\ PinsOf(live.permanent, live, own)
      /\ \A g \in live.history : own.gens[g] # None
      /\ \A g \in Known(live) : g <= saves
      /\ live.initial = IF Known(live) = {} THEN None ELSE Min(Known(live))
      /\ live.initial # None /\ Top(own).pins \subseteq live.permanent
  BY <1>1, <1>2 DEF Pinning, Booked
<1>5. live.permanent \subseteq Keep /\ own.latest \in Keep
  BY DEF Keep, Pins
<1>6. live.history \subseteq Gens /\ live.permanent \subseteq Gens
  BY DEF Sound, Lives
<1>7. \A k \in live.permanent : own'.gens[k] = own.gens[k]
  BY <1>2, <1>5, <1>6
<1>8. Pinned(own')
  BY <1>2, <1>4, <1>7, PinnedSame DEF Pinning
<1>9. /\ Marks(live', own) /\ PinsOf(live.permanent, live', own) /\ Known(live') = Known(live)
  BY <1>3, <1>4, BooksSame
<1>10. Marks(live', own') /\ PinsOf(live'.permanent, live', own')
  BY <1>3, <1>7, <1>9, CopyServes
<1>11. Done(live')
  BY <1>3, <1>4 DEF Done
<1>12. /\ live'.permanent \subseteq live'.history
       /\ \A k \in live'.history : own'.gens[k] # None
       /\ \A k \in Known(live') : k <= saves'
       /\ live'.initial = IF Known(live') = {} THEN None ELSE Min(Known(live'))
  <2>1. ASSUME NEW k \in live'.history PROVE own'.gens[k] # None
    <3>1. k \in Keep /\ k \in live.history /\ k \in Gens
      BY <1>1, <1>6
    <3> QED
      BY <1>2, <1>4, <3>1
  <2> QED
    BY <1>1, <1>3, <1>4, <1>5, <1>9, <2>1
<1>13. live'.initial # None /\ own'.latest \in live'.history
       /\ Top(own').pins \subseteq live'.permanent
  BY <1>1, <1>2, <1>3, <1>4, <1>5
<1>14. Booked'
  BY <1>10, <1>11, <1>12, <1>13 DEF Booked, Top
<1>15. NoneDue'
  <2>1. Due(live.ledger, live.miles) = {}
    BY <1>1 DEF Pinning, NoneDue
  <2> QED
    BY <1>3, <2>1 DEF NoneDue, Due, Crossed, Effective
<1>16. Pinned(own)' /\ Pinned(disk)'
  BY <1>1, <1>8 DEF Pinning
<1> QED
  BY <1>14, <1>15, <1>16 DEF Pinning

\* The death of the learner leaves the disk.
LEMMA LeavingKeepsPinning ==
  ASSUME live' = NoProcess, own' = NoStore, Pinned(disk')
  PROVE  Pinning'
<1>1. own'.latest = None /\ live'.pc = "none"
  BY AtFirst
<1>2. Pinned(own)' /\ Pinned(disk)'
  BY <1>1 DEF Pinned
<1>3. Booked' /\ NoneDue'
  BY <1>1 DEF Booked, NoneDue, Going
<1> QED
  BY <1>2, <1>3 DEF Pinning

\* The store of an orderly end keeps its pins.
LEMMA FinishKeepsPinning == ASSUME Sound, Pinning, Finish PROVE Pinning'
<1>1. /\ live' = NoProcess /\ own' = NoStore
      /\ disk'.gens = own.gens /\ disk'.latest = own.latest
  BY OfFinish DEF Sound, Whole
<1>2. Top(disk') = Top(own)
  BY <1>1 DEF Top
<1>3. Pinned(disk')
  BY <1>1, <1>2, PinnedSame DEF Pinning
<1> QED
  BY <1>1, <1>3, LeavingKeepsPinning

\* So does that of a crash.
LEMMA CrashKeepsPinning == ASSUME Pinning, SaveRefused \/ Crash PROVE Pinning'
<1>1. live' = NoProcess /\ own' = NoStore /\ (disk' = own \/ disk' = disk)
  BY OfLeaving
<1>2. Pinned(disk')
  BY <1>1 DEF Pinning
<1> QED
  BY <1>1, <1>2, LeavingKeepsPinning

\* A new learner knows no generation.
LEMMA StartKeepsPinning == ASSUME Sound, Pinning, Start PROVE Pinning'
<1>1. live' = Fresh /\ own' = NoStore /\ UNCHANGED <<disk, saves>>
  BY DEF Start
<1>2. own'.latest = None
  BY <1>1, AtFirst
<1>3. /\ \A m \in Milestones : live'.miles[m] = None
      /\ \A g \in Gens : live'.exposures[g] = None
      /\ live'.permanent = {} /\ live'.history = {} /\ live'.initial = None
  BY <1>1, FreshIs DEF NoMap
<1>4. Effective(live'.ledger) = 0
  BY <1>1, FreshIs DEF Effective, NewLedger
<1>5. Done(live')
  BY <1>4, Sizes DEF Done
<1>6. Known(live') = {}
  BY <1>3 DEF Known
<1>7. Marks(live', own')
  BY <1>3 DEF Marks
<1>8. PinsOf(live'.permanent, live', own')
  BY <1>3, <1>6 DEF PinsOf
<1>9. live'.initial = IF Known(live') = {} THEN None ELSE Min(Known(live'))
  BY <1>3, <1>6
<1>10. Booked'
  BY <1>2, <1>3, <1>5, <1>6, <1>7, <1>8, <1>9 DEF Booked
<1>11. NoneDue'
  BY <1>1, FreshIs DEF NoneDue, Going
<1>12. Pinned(own)' /\ Pinned(disk)'
  BY <1>1, <1>2 DEF Pinned, Pinning
<1> QED
  BY <1>10, <1>11, <1>12 DEF Pinning

\* A resume copies the pins, and adds the generation it reads when it is one itself.
LEMMA ResumeKeepsPinning == ASSUME Sound, Pinning, Resume PROVE Pinning'
<1> DEFINE ref == disk.latest
           gen == Top(disk)
<1>1. /\ Usable(disk) /\ ref \in Gens /\ gen # None
      /\ live'.pc = "save" /\ live'.ledger = gen.ledger
      /\ live'.exposures = [gen.exposures EXCEPT ![ref] = Effective(gen.ledger)]
      /\ live'.initial = (IF {g \in Gens : gen.exposures[g] # None} = {} THEN ref
                          ELSE Min({g \in Gens : gen.exposures[g] # None}))
      /\ live'.miles = KeepMilestones(gen.ledger, gen.miles, ref)
      /\ live'.permanent = gen.pins
           \cup (IF live'.initial = ref \/ live'.miles # gen.miles THEN {ref} ELSE {})
      /\ live'.history = live'.permanent
      /\ own' \in [gens : {[g \in Gens |-> IF g \in live'.permanent THEN disk.gens[g]
                                                                    ELSE None]},
                   latest : {None}, journal : {None}]
      /\ UNCHANGED <<policy, disk, saves, published>> /\ live' \in Lives
  BY OfResume
<1>2. /\ disk \in Stores /\ Whole(disk, saves) /\ disk.gens[ref] = gen
  BY DEF Sound, Whole, Top
<1>3. /\ own'.latest = None
      /\ \A g \in Gens : own'.gens[g] = IF g \in live'.permanent THEN disk.gens[g] ELSE None
  BY <1>1, <1>2, CopyIsStore
<1>4. /\ gen \in Generations /\ Right(gen) /\ gen.ledger \in Ledgers
      /\ gen.cursor \in 0 .. Len(Tokens) /\ gen.batch \in 0 .. Len(Tokens)
      /\ gen.discarded \in 0 .. Cap /\ ref <= saves
  BY <1>1, <1>2, GenerationIs
<1>5. /\ gen.miles \in [Milestones -> Gens \cup {None}]
      /\ gen.exposures \in [Gens -> Nat \cup {None}] /\ gen.pins \in SUBSET Gens
  BY <1>4 DEF Generations
<1>6. /\ Done(gen) /\ Marks(gen, disk) /\ PinsOf(gen.pins, gen, disk)
      /\ \A k \in Known(gen) \cup gen.pins : k < ref
  BY <1>1 DEF Pinning, Pinned, Usable
<1>7. live'.initial = (IF Known(gen) = {} THEN ref ELSE Min(Known(gen)))
  BY <1>1 DEF Known
<1>8. live'.initial = ref <=> Known(gen) = {}
  <2>1. Known(gen) # {} => Min(Known(gen)) \in Known(gen)
    <3>1. Known(gen) \in SUBSET Nat
      BY Sizes DEF Known
    <3> QED
      BY <3>1, MinIsLeast
  <2>2. \A k \in Known(gen) : k # ref
    <3>1. \A k \in Known(gen) : k < ref /\ k \in Nat
      BY <1>6, Sizes DEF Known
    <3>2. ref \in Nat
      BY <1>1, Sizes
    <3> QED
      BY <3>1, <3>2
  <2> QED
    BY <1>7, <2>1, <2>2
<1>9. live'.permanent = gen.pins
        \cup (IF Known(gen) = {} \/ live'.miles # gen.miles THEN {ref} ELSE {})
  BY <1>1, <1>8
\* The copy, to which the generation resumed from is added for the argument.
<1> DEFINE t == [gens |-> [g \in Gens |-> IF g = ref THEN gen ELSE own'.gens[g]]]
<1>10. \A k \in gen.pins : k \in Gens /\ k # ref /\ t.gens[k] = disk.gens[k]
  <2>1. ASSUME NEW k \in gen.pins PROVE k \in Gens /\ k # ref /\ t.gens[k] = disk.gens[k]
    <3>1. k \in Gens /\ k < ref /\ k \in Nat /\ ref \in Nat
      BY <1>1, <1>5, <1>6, Sizes
    <3>2. k # ref
      BY <3>1
    <3>3. k \in live'.permanent
      BY <1>9
    <3> QED
      BY <1>3, <3>1, <3>2, <3>3
  <2> QED
    BY <2>1
<1>11. t.gens[ref] = gen /\ gen # None
  BY <1>1
<1>12. /\ Done(live') /\ Marks(live', t) /\ PinsOf(live'.permanent, live', t)
       /\ Known(live') = Known(gen) \cup {ref} /\ live'.initial = Min(Known(live'))
       /\ live'.initial \in Gens
  <2>1. Ready(gen, disk, ref, gen.pins)
    BY <1>1, <1>4, <1>5, <1>6 DEF Ready
  <2>2. Joined(gen, ref, gen.pins, live')
    BY <1>1, <1>7, <1>9 DEF Joined
  <2> HIDE DEF t, ref, gen
  <2>3. t.gens[ref] # None /\ t.gens[ref].ledger = gen.ledger
        /\ \A k \in gen.pins : t.gens[k] = disk.gens[k]
    BY <1>10, <1>11
  <2> QED
    BY <2>1, <2>2, <2>3, JoinIs
<1>13. \A k \in live'.permanent : k \in Gens /\ own'.gens[k] = t.gens[k] /\ own'.gens[k] # None
  <2>1. ASSUME NEW k \in live'.permanent
        PROVE  k \in Gens /\ own'.gens[k] = t.gens[k]
    <3>1. k \in Gens
      BY <1>1 DEF Lives
    <3>2. own'.gens[k] = disk.gens[k]
      BY <1>3, <3>1
    <3>3. CASE k = ref
      BY <1>2, <3>1, <3>2, <3>3
    <3>4. CASE k # ref
      BY <3>1, <3>4
    <3> QED
      BY <3>1, <3>3, <3>4
  <2>2. \A k \in live'.permanent : t.gens[k] # None
    BY <1>12 DEF PinsOf
  <2> HIDE DEF t
  <2> QED
    BY <2>1, <2>2
<1>14. Marks(live', own') /\ PinsOf(live'.permanent, live', own')
  <2> HIDE DEF t
  <2> QED
    BY <1>12, <1>13, CopyServes
<1>15. \A k \in Known(live') : k <= saves'
  <2>1. ASSUME NEW k \in Known(live') PROVE k <= saves'
    <3>1. k = ref \/ k < ref
      BY <1>6, <1>12
    <3>2. k \in Nat /\ ref \in Nat /\ ref <= saves /\ saves \in Nat
      BY <1>1, <1>4, Sizes, LiveExposure DEF Known
    <3> QED
      BY <1>1, <3>1, <3>2
  <2> QED
    BY <2>1
<1>16. Booked'
  <2>1. live'.initial = IF Known(live') = {} THEN None ELSE Min(Known(live'))
    BY <1>12
  <2>2. /\ live'.permanent \subseteq live'.history
        /\ \A k \in live'.history : own'.gens[k] # None
    BY <1>1, <1>13
  <2> QED
    BY <1>3, <1>12, <1>14, <1>15, <2>1, <2>2 DEF Booked
<1>17. NoneDue'
  BY <1>1 DEF NoneDue, Going
<1>18. Pinned(own)' /\ Pinned(disk)'
  BY <1>1, <1>3 DEF Pinned, Pinning
<1> QED
  BY <1>16, <1>17, <1>18 DEF Pinning

\* Every step keeps the fourth layer, given the first two.
LEMMA KeepsPinning ==
  ASSUME Sound, Sound', Place, Pinning, Next
  PROVE  Pinning'
BY ChooseKeepsPinning, EndKeepsPinning, NextKeepsPinning, FinalKeepsPinning, TakeKeepsPinning,
   UpdateKeepsPinning, RetainKeepsPinning, WriteKeepsPinning, JournalKeepsPinning,
   CrashKeepsPinning, StartKeepsPinning, ResumeKeepsPinning, FinishKeepsPinning DEF Next

\* There is no generation at first.
LEMMA InitPinning == Init => Pinning
<1> SUFFICES ASSUME Init PROVE Pinning
  OBVIOUS
<1>1. own.latest = None /\ disk.latest = None /\ live.pc = "none"
  BY AtFirst DEF Init
<1> QED
  BY <1>1 DEF Pinning, Pinned, Booked, NoneDue, Going

\* The fourth layer is about the variables of the model.
LEMMA SamePinning == ASSUME Pinning, UNCHANGED vars PROVE Pinning'
<1>1. own' = own /\ disk' = disk /\ live' = live /\ saves' = saves
  BY DEF vars
<1>2. Pinned(own)' /\ Pinned(disk)'
  BY <1>1 DEF Pinning
<1>3. Booked'
  BY <1>1 DEF Pinning, Booked, Top
<1>4. NoneDue'
  BY <1>1 DEF Pinning, NoneDue, Going, Due, Crossed, Effective
<1> QED
  BY <1>2, <1>3, <1>4 DEF Pinning


(***************************************************************************)
(* The theorems.                                                           *)
(***************************************************************************)
\* Training state, place in a save, charge and pins hold together: the charge needs the place,
\* a milestone the training state, and a resume the pins of the generation it starts from.
IInv == Sound /\ Place /\ Charges /\ Pinning

\* Every step keeps the layers, in their order, and never lowers the charge.
LEMMA StepKeeps == ASSUME IInv, [Next]_vars PROVE IInv' /\ Grows
<1>1. Sound /\ Place /\ Charges /\ Pinning
  BY DEF IInv
<1>2. Sound'
  BY <1>1, KeepsSound, SameSound
<1>3. Place'
  BY <1>1, KeepsPlace, SamePlace
<1>4. Charges' /\ Grows
  BY <1>1, <1>2, KeepsCharges, SameCharges
<1>5. Pinning'
  BY <1>1, <1>2, KeepsPinning, SamePinning
<1> QED
  BY <1>2, <1>3, <1>4, <1>5 DEF IInv

\* The layers together are an inductive invariant of the learner.
THEOREM BooksInvariance == Spec => []IInv
<1>1. Init => IInv
  BY InitSound, InitPlace, InitCharges, InitPinning DEF IInv
<1>2. IInv /\ [Next]_vars => IInv'
  BY StepKeeps
<1> QED
  BY <1>1, <1>2, PTL DEF Spec

\* Whatever crashes and resumes did, and linked tensors or not, each generation of either store
\* holds the weights, the cursor and the pending batch that its ledger claims.
THEOREM SafeHolds == Spec => []Safe
<1>1. IInv => Safe
  <2> SUFFICES ASSUME Sound PROVE Safe
    BY DEF IInv
  <2>1. TypeOK
    BY DEF Sound, Lives, PCs, TypeOK
  <2>2. ASSUME NEW store \in {disk, own}, NEW g \in Gens, store.gens[g] # None
        PROVE  Faithful(store.gens[g])
    <3>1. Whole(store, saves)
      BY DEF Sound
    <3>2. Right(store.gens[g])
      BY <2>2, <3>1, GenerationIs
    <3> QED
      BY <3>2 DEF Right
  <2> QED
    BY <2>1, <2>2 DEF Safe, GenerationsFaithful
<1> QED
  BY <1>1, BooksInvariance, PTL

\* What was ever published stays charged, also over a crash that rolled it back, within the cap;
\* and the debit of an update is on disk before the update runs.
THEOREM WorkIsChargedHolds == Spec => []WorkIsCharged
<1>1. IInv => WorkIsCharged
  <2> SUFFICES ASSUME IInv PROVE WorkIsCharged
    OBVIOUS
  <2>1. Sound /\ Place /\ Charges
    BY DEF IInv
  <2>2. Charged = ChargeOf(policy, Left)
    BY <2>1, ChargedIs DEF Place
  <2>3. published <= Charged /\ Charged <= Cap
    <3>1. CASE UsableAt(policy, Left)
      <4>1. /\ ChargeAt(policy, Left) \in Nat /\ ChargeAt(policy, Left) <= Cap
            /\ OwedAt(policy, Left) \in Nat
        BY <2>1, <3>1, StoreCharge
      <4>2. published \in Nat /\ published + OwedAt(policy, Left) <= ChargeAt(policy, Left)
        BY <2>1, <3>1 DEF Sound, Charges
      <4>3. Charged = ChargeAt(policy, Left)
        BY <2>2, <3>1 DEF ChargeOf
      <4> QED
        BY <4>1, <4>2, <4>3
    <3>2. CASE ~UsableAt(policy, Left)
      <4>1. published = 0 /\ Charged = 0
        BY <2>1, <2>2, <3>2 DEF Charges, ChargeOf
      <4> QED
        BY <4>1, Sizes
    <3> QED
      BY <3>1, <3>2
  <2>4. ASSUME live.pc = "update", policy = "hourly" PROVE own.journal.ledger = live.ledger
    BY <2>1, <2>4 DEF Place, Journalled, Going
  <2>5. ASSUME live.pc = "update", policy # "hourly"
        PROVE  own.gens[own.latest].ledger = live.ledger
    <3>1. policy = "per-update"
      BY <2>1, <2>5 DEF Sound
    <3>2. own.latest # None /\ live.full = live.ledger
      BY <2>1, <2>5, <3>1 DEF Place, Latest, Going
    <3>3. live.full # None
      BY <2>1, <3>2, NoneIsNothing, LiveIs DEF NoneIsNothing
    <3> QED
      BY <2>1, <2>5, <3>2, <3>3 DEF Place, Latest, Top
  <2> QED
    BY <2>3, <2>4, <2>5 DEF WorkIsCharged
<1> QED
  BY <1>1, BooksInvariance, PTL

\* No step of the learner, crash or resume lowers what the next resume would charge.
THEOREM NeverRefundedHolds == Spec => NeverRefunded
<1>1. IInv /\ IInv' /\ [Next]_vars => [Charged' >= Charged]_vars
  <2> SUFFICES ASSUME IInv, IInv', [Next]_vars PROVE Charged' >= Charged
    OBVIOUS
  <2>1. Charged = ChargeOf(policy, Left) /\ Charged' = ChargeOf(policy', Left')
    BY ChargedIs DEF IInv, Place
  <2>2. Grows
    BY StepKeeps
  <2> QED
    BY <2>1, <2>2 DEF Grows
<1> QED
  BY <1>1, BooksInvariance, PTL DEF Spec, NeverRefunded

\* A milestone names a generation that this store still has, at the last complete update at or
\* below it, and outside of a save no milestone that was reached is without one.
THEOREM MilestonesExactHolds == Spec => []MilestonesExact
<1>1. IInv => MilestonesExact
  <2> SUFFICES ASSUME IInv PROVE MilestonesExact
    OBVIOUS
  <2>1. Sound /\ Pinning
    BY DEF IInv
  <2>2. ASSUME NEW m \in Milestones, live.miles[m] # None, live.pc # "none"
        PROVE  /\ own.gens[live.miles[m]] # None
               /\ Effective(own.gens[live.miles[m]].ledger) = Boundary(m)
    BY <2>1, <2>2 DEF Pinning, Booked, Marks
  <2>3. ASSUME live.pc \in {"loop", "update", "next", "terminal", "close"},
               NEW m \in Milestones, m <= Effective(live.ledger)
        PROVE  live.miles[m] # None
    BY <2>1, <2>3, NoneMissed DEF Going
  <2> QED
    BY <2>2, <2>3 DEF MilestonesExact
<1> QED
  BY <1>1, BooksInvariance, PTL

\* A resume finds every generation it copies and recover() accepts the journal next to it;
\* pin_plan finds a generation for every milestone and retain() all that it pins.
THEOREM ResumableHolds == Spec => []Resumable
<1>1. IInv => Resumable
  <2> SUFFICES ASSUME IInv PROVE Resumable
    OBVIOUS
  <2>1. Sound /\ Place /\ Pinning
    BY DEF IInv
  <2>2. ASSUME Usable(disk), NEW g \in disk.gens[disk.latest].pins PROVE disk.gens[g] # None
    <3>1. disk.latest # None
      BY <2>2 DEF Usable
    <3>2. PinsOf(Top(disk).pins, Top(disk), disk)
      BY <2>1, <3>1 DEF Pinning, Pinned
    <3> QED
      BY <2>2, <3>2 DEF PinsOf, Top
  <2>3. ASSUME Usable(disk), policy = "hourly"
        PROVE  ~JournalRefused(disk.gens[disk.latest], disk.latest, disk.journal)
    <3>1. disk.latest # None /\ disk.journal # None
      BY <2>3 DEF Usable
    <3> QED
      BY <2>1, <3>1 DEF Place, Accepted, Accepts, Top
  <2>4. live.pc = "retain" => PlanHolds /\ Keep \subseteq live.history
    BY <2>1, RetainFinds
  <2> QED
    BY <2>2, <2>3, <2>4 DEF Resumable
<1> QED
  BY <1>1, BooksInvariance, PTL
=============================================================================
