---------------------------- MODULE StorageProofs ----------------------------
(* Proofs about the two stores of a run: CheckpointStore for all numbers of saves,   *)
(* crashes and damaged blobs, and, in the second half, EventLog for all events,      *)
(* sizes and faults.                                                                 *)
EXTENDS CheckpointStore, EventLog, FiniteSetTheorems, SequenceTheorems,
        WellFoundedInduction, TLAPS

\* A set of natural numbers has a least element.
LEMMA Least == ASSUME NEW S \in SUBSET Nat, S # {} PROVE \E m \in S : \A k \in S : m <= k
<1>1. PICK m \in S : \A k \in S : ~ (<<k, m>> \in OpToRel(<, Nat))
  BY NatLessThanWellFounded, WFMin
<1>2. OpToRel(<, Nat) = {p \in Nat \X Nat : p[1] < p[2]}
  BY DEF OpToRel
<1>3. ASSUME NEW k \in S PROVE m <= k
  <2>1. <<k, m>> \notin OpToRel(<, Nat)
    BY <1>1
  <2>2. ~ (k < m)
    BY <1>2, <2>1
  <2> QED
    BY <2>2
<1> QED
  BY <1>3

\* A set of generations has a greatest one, and Max returns it.
LEMMA Greatest ==
  ASSUME NEW S \in SUBSET Generations, S # {}
  PROVE  Max(S) \in S /\ \A g \in S : g <= Max(S)
<1> DEFINE T == {k \in Nat : MaxGeneration - k \in S}
<1>1. MaxGeneration \in Nat /\ S \subseteq 0..MaxGeneration
  BY BoundsOK DEF BoundsOK, Generations
<1>2. PICK g \in S : TRUE
  OBVIOUS
<1>3. MaxGeneration - g \in T
  BY <1>1, <1>2
<1>4. PICK m \in T : \A k \in T : m <= k
  <2>1. T \in SUBSET Nat /\ T # {}
    BY <1>3
  <2> QED
    BY <2>1, Least
<1>5. m \in Nat /\ MaxGeneration - m \in S
  BY <1>4
<1>6. ASSUME NEW x \in S PROVE MaxGeneration - m >= x
  <2>1. x \in 0..MaxGeneration /\ MaxGeneration - x \in T
    BY <1>1
  <2>2. m <= MaxGeneration - x
    BY <1>4, <2>1
  <2> QED
    BY <1>1, <1>5, <2>1, <2>2
<1>7. Max(S) \in S /\ \A x \in S : Max(S) >= x
  BY <1>5, <1>6 DEF Max
<1> QED
  BY <1>1, <1>7

\* What the file system shows after operations on some names.
LEMMA Shown ==
  ASSUME NEW names, NEW ops
  PROVE  \A x : x \in Apply(names, ops)
                  <=> \/ x \in names /\ \A op \in ops : x \notin op.del
                      \/ \E op \in ops : x \in op.add
BY DEF Apply

(***************************************************************************)
(* Types, with the operations that may be waiting for an fsync.            *)
(***************************************************************************)
Names == {"pending", "blob", "base", "manifest"} \X Generations

\* Only a pending file and the unlinks of prune are ever left to the next fsync.
Waiting(op) ==
  \E g \in Generations :
    \/ op = Op({Pending(g)}, {})
    \/ g \in published /\ \E file \in {Blob(g), Base(g), Manifest(g)} : op = Op({}, {file})

Saving == {"write", "blob", "base", "manifest", "latest", "pin", "prune", "unlink", "unlinkBase",
           "unlinkManifest"}
Linked == {"latest", "pin", "prune", "unlink", "unlinkBase", "unlinkManifest"}
Pruning == {"unlink", "unlinkBase", "unlinkManifest"}

Typed ==
  /\ TypeOK
  /\ \A op \in volatile : Waiting(op)
  /\ pc \in Saving => gen # None
  /\ pc \in Linked => gen \in published
  /\ doomed # {} => pc \in Pruning
  /\ pc \in {"unlinkBase", "unlinkManifest"} => doomed # {}
  /\ doomed \subseteq published
  /\ \A g \in Generations : Manifest(g) \in disk \cup jail => g \in published
  /\ \A g \in Generations : number[g] <= g

\* Nothing but a pending file is added by an operation that waits, and nothing but a part of a
\* published generation is deleted.
LEMMA WaitingShapes ==
  ASSUME Typed, NEW op \in volatile
  PROVE  /\ \A x \in op.add : \E g \in Generations : x = Pending(g)
         /\ \A x \in op.del : \E g \in published : x \in {Blob(g), Base(g), Manifest(g)}
         /\ op.add \cap op.del = {} /\ op.add \subseteq Names /\ op.del \subseteq Names
<1>1. PICK g \in Generations :
        \/ op = Op({Pending(g)}, {})
        \/ g \in published /\ \E file \in {Blob(g), Base(g), Manifest(g)} : op = Op({}, {file})
  BY DEF Typed, Waiting
<1>2. Pending(g) \in Names /\ Blob(g) \in Names /\ Base(g) \in Names /\ Manifest(g) \in Names
  BY DEF Pending, Blob, Base, Manifest, Names
<1>3. CASE op = Op({Pending(g)}, {})
  <2>1. op.add = {Pending(g)} /\ op.del = {}
    BY <1>3 DEF Op
  <2> QED
    BY <1>2, <2>1
<1>4. CASE g \in published /\ \E file \in {Blob(g), Base(g), Manifest(g)} : op = Op({}, {file})
  <2>1. PICK file \in {Blob(g), Base(g), Manifest(g)} : op.add = {} /\ op.del = {file}
    BY <1>4 DEF Op
  <2> QED
    BY <1>2, <1>4, <2>1
<1> QED
  BY <1>1, <1>3, <1>4

\* The names that wait or survive are names of the store, and its manifests were published.
LEMMA OnlyPublished ==
  ASSUME Typed, NEW ops \in SUBSET volatile
  PROVE  /\ Apply(disk, ops) \subseteq Names
         /\ \A g \in Generations : Manifest(g) \in Apply(disk, ops) => g \in published
<1>1. disk \subseteq Names
  BY DEF Typed, TypeOK, Names
<1>2. ASSUME NEW g \in Generations, Manifest(g) \in Apply(disk, ops) PROVE g \in published
  <2>1. ASSUME NEW op \in ops PROVE Manifest(g) \notin op.add
    <3>1. \A h \in Generations : Manifest(g) # Pending(h)
      BY DEF Manifest, Pending
    <3> QED
      BY <3>1, WaitingShapes
  <2>2. Manifest(g) \in disk
    BY <1>2, <2>1, Shown
  <2> QED
    BY <2>2 DEF Typed
<1> QED
  BY <1>1, <1>2, Shown, WaitingShapes

\* The files of one generation are names of the store.
LEMMA Files ==
  ASSUME NEW g \in Generations
  PROVE  Pending(g) \in Names /\ Blob(g) \in Names /\ Base(g) \in Names /\ Manifest(g) \in Names
BY DEF Pending, Blob, Base, Manifest, Names

\* A sync or a power loss leaves names of the store, and manifests that were published.
LEMMA NamesOnDisk ==
  ASSUME Typed, disk' = Dir \/ disk' \in Survivors, volatile' = {}, published \subseteq published'
  PROVE  /\ disk' \subseteq Names /\ \A op \in volatile' : Waiting(op)'
         /\ \A g \in Generations : Manifest(g) \in disk' => g \in published'
<1>1. CASE disk' = Dir
  BY <1>1, OnlyPublished DEF Dir
<1>2. CASE disk' \in Survivors
  <2>1. PICK kept \in SUBSET volatile : disk' = Apply(disk, kept)
    BY <1>2 DEF Survivors
  <2> QED
    BY <2>1, OnlyPublished
<1> QED
  BY <1>1, <1>2

\* A step that syncs an operation leaves such a directory.
LEMMA Written ==
  ASSUME Typed, NEW op, op.add \subseteq Names, Durably(op), published \subseteq published',
         \A g \in Generations : Manifest(g) \in op.add => g \in published'
  PROVE  /\ disk' \subseteq Names /\ \A o \in volatile' : Waiting(o)'
         /\ \A g \in Generations : Manifest(g) \in disk' => g \in published'
<1>1. disk' = Apply(Dir, {op}) /\ volatile' = {}
  BY DEF Durably, Dir
<1>2. Dir \subseteq Names /\ \A g \in Generations : Manifest(g) \in Dir => g \in published
  BY OnlyPublished DEF Dir
<1> QED
  BY <1>1, <1>2, Shown

\* So does a step that adds no operation of another kind.
LEMMA Kept ==
  ASSUME Typed, UNCHANGED disk, published \subseteq published',
         \A op \in volatile' : op \in volatile \/ Waiting(op)'
  PROVE  /\ disk' \subseteq Names /\ \A op \in volatile' : Waiting(op)'
         /\ \A g \in Generations : Manifest(g) \in disk' => g \in published'
<1>1. ASSUME NEW op \in volatile' PROVE Waiting(op)'
  BY <1>1 DEF Typed, Waiting
<1> QED
  BY <1>1 DEF Typed, TypeOK, Names

\* And a step that syncs a deletion.
LEMMA Removed ==
  ASSUME Typed, NEW x, Durably(Op({}, {x})), published \subseteq published'
  PROVE  /\ disk' \subseteq Names /\ \A o \in volatile' : Waiting(o)'
         /\ \A g \in Generations : Manifest(g) \in disk' => g \in published'
<1>1. Op({}, {x}).add = {}
  BY DEF Op
<1> QED
  BY <1>1, Written

\* The three facts these lemmas keep.
Directory ==
  /\ disk \subseteq Names /\ \A op \in volatile : Waiting(op)
  /\ \A g \in Generations : Manifest(g) \in disk => g \in published

\* Every step leaves names of the store, and manifests that were published.
LEMMA KeepsDirectory == ASSUME Typed, [Next]_vars PROVE Directory'
<1>1. ASSUME Begin PROVE Directory'
  BY <1>1, Kept DEF Begin, background, Directory
<1>2. ASSUME QuotaExhausted PROVE Directory'
  BY <1>2, Kept DEF QuotaExhausted, Raise, background, Directory
<1>3. ASSUME WriteBlob PROVE Directory'
  <2>1. PICK g \in Generations : g = gen
    BY <1>3 DEF WriteBlob, Typed, TypeOK, Saving
  <2>2. UNCHANGED <<disk, published>> /\ volatile' = volatile \cup {Op({Pending(g)}, {})}
    BY <1>3, <2>1 DEF WriteBlob, Lazily, background
  <2>3. Waiting(Op({Pending(g)}, {}))'
    BY DEF Waiting
  <2> QED
    BY <2>2, <2>3, Kept DEF Directory
<1>4. ASSUME PublishBlob PROVE Directory'
  <2>1. gen \in Generations /\ Durably(Op({Blob(gen)}, {Pending(gen)}))
    BY <1>4 DEF PublishBlob, Typed, TypeOK, Saving
  <2>2. Op({Blob(gen)}, {Pending(gen)}).add \subseteq Names
    BY <2>1, Files DEF Op
  <2>3. /\ published \subseteq published'
        /\ \A h \in Generations :
            Manifest(h) \in Op({Blob(gen)}, {Pending(gen)}).add => h \in published'
    BY <1>4
       DEF PublishBlob, background, Op, Manifest, Blob, Base
  <2> QED
    BY <2>1, <2>2, <2>3, Written DEF Directory
<1>5. ASSUME PublishBase PROVE Directory'
  <2>1. gen \in Generations /\ Durably(Op({Base(gen)}, {}))
    BY <1>5 DEF PublishBase, Typed, TypeOK, Saving
  <2>2. Op({Base(gen)}, {}).add \subseteq Names
    BY <2>1, Files DEF Op
  <2>3. /\ published \subseteq published'
        /\ \A h \in Generations :
            Manifest(h) \in Op({Base(gen)}, {}).add => h \in published'
    BY <1>5
       DEF PublishBase, background, Op, Manifest, Blob, Base
  <2> QED
    BY <2>1, <2>2, <2>3, Written DEF Directory
<1>6. ASSUME PublishManifest PROVE Directory'
  <2>1. gen \in Generations /\ Durably(Op({Manifest(gen)}, {}))
    BY <1>6 DEF PublishManifest, Typed, TypeOK, Saving
  <2>2. Op({Manifest(gen)}, {}).add \subseteq Names
    BY <2>1, Files DEF Op
  <2>3. /\ published \subseteq published'
        /\ \A h \in Generations :
            Manifest(h) \in Op({Manifest(gen)}, {}).add => h \in published'
    BY <1>6
       DEF PublishManifest, background, Op, Manifest, Blob, Base
  <2> QED
    BY <2>1, <2>2, <2>3, Written DEF Directory
<1>7. ASSUME AdvertiseLatest PROVE Directory'
  BY <1>7, NamesOnDisk DEF AdvertiseLatest, background, Directory
<1>8. ASSUME CheckFails PROVE Directory'
  BY <1>8, Kept DEF CheckFails, Raise, background, Directory
<1>9. ASSUME PinFinal PROVE Directory'
  BY <1>9, Kept DEF PinFinal, background, Directory
<1>10. ASSUME PruneBegin PROVE Directory'
  BY <1>10, Kept DEF PruneBegin, background, Directory
<1>11. ASSUME PruneRefused PROVE Directory'
  BY <1>11, Kept DEF PruneRefused, Raise, background, Directory
<1>12. ASSUME UnlinkBlob PROVE Directory'
  <2>1. Max(doomed) \in doomed
    BY <1>12, Greatest DEF UnlinkBlob, UnlinkPart, Typed, TypeOK
  <2>2. PICK g \in Generations : /\ g \in published /\ UNCHANGED <<disk, published>>
                                /\ volatile' = volatile \cup {Op({}, {Blob(g)})}
    BY <1>12, <2>1 DEF UnlinkBlob, UnlinkPart, Lazily, background, Typed, TypeOK
  <2>3. Waiting(Op({}, {Blob(g)}))'
    BY <2>2 DEF Waiting
  <2> QED
    BY <2>2, <2>3, Kept DEF Directory
<1>13. ASSUME UnlinkBase PROVE Directory'
  <2>1. Max(doomed) \in doomed
    BY <1>13, Greatest DEF UnlinkBase, UnlinkPart, Typed, TypeOK
  <2>2. PICK g \in Generations : /\ g \in published /\ UNCHANGED <<disk, published>>
                                /\ volatile' = volatile \cup {Op({}, {Base(g)})}
    BY <1>13, <2>1 DEF UnlinkBase, UnlinkPart, Lazily, background, Typed, TypeOK
  <2>3. Waiting(Op({}, {Base(g)}))'
    BY <2>2 DEF Waiting
  <2> QED
    BY <2>2, <2>3, Kept DEF Directory
<1>14. ASSUME UnlinkMissing PROVE Directory'
  BY <1>14, Kept DEF UnlinkMissing, Raise, background, Directory
<1>15. ASSUME UnlinkManifest PROVE Directory'
  <2>1. Max(doomed) \in doomed
    BY <1>15, Greatest DEF UnlinkManifest, Typed, TypeOK
  <2>2. PICK g \in Generations : /\ g \in published /\ UNCHANGED <<disk, published>>
                                /\ volatile' = volatile \cup {Op({}, {Manifest(g)})}
    BY <1>15, <2>1 DEF UnlinkManifest, Lazily, background, Typed, TypeOK
  <2>3. Waiting(Op({}, {Manifest(g)}))'
    BY <2>2 DEF Waiting
  <2> QED
    BY <2>2, <2>3, Kept DEF Directory
<1>16. ASSUME SaveReturns PROVE Directory'
  BY <1>16, NamesOnDisk DEF SaveReturns, background, Directory
<1>17. ASSUME QuarantinePending PROVE Directory'
  BY <1>17, Removed DEF QuarantinePending, Quarantine, recovering, background, Directory
<1>18. ASSUME QuarantineOrphan PROVE Directory'
  BY <1>18, Removed DEF QuarantineOrphan, Quarantine, recovering, background, Directory
<1>19. ASSUME RejectBlob PROVE Directory'
  BY <1>19, Removed DEF RejectBlob, Quarantine, recovering, background, Directory
<1>20. ASSUME RejectBase PROVE Directory'
  BY <1>20, Removed DEF RejectBase, Quarantine, recovering, background, Directory
<1>21. ASSUME RejectManifest PROVE Directory'
  BY <1>21, Removed DEF RejectManifest, Quarantine, recovering, background, Directory
<1>22. ASSUME Select PROVE Directory'
  <2>1. UNCHANGED published /\ (UNCHANGED <<disk, volatile>> \/ (disk' = Dir /\ volatile' = {}))
    BY <1>22 DEF Select, background
  <2> QED
    BY <2>1, NamesOnDisk, Kept DEF Directory
<1>23. ASSUME NothingLeft PROVE Directory'
  BY <1>23, Kept DEF NothingLeft, background, Directory, Scanning
<1>24. ASSUME Kill PROVE Directory'
  BY <1>24, Kept DEF Kill, Stop, background, Directory
<1>25. ASSUME PowerLoss PROVE Directory'
  BY <1>25, NamesOnDisk DEF PowerLoss, Stop, background, Directory
<1>26. ASSUME Damage PROVE Directory'
  BY <1>26, Kept DEF Damage, background, Directory
<1>27. ASSUME UNCHANGED vars PROVE Directory'
  BY <1>27, Kept DEF vars, background, Directory
<1> QED
  BY <1>1, <1>2, <1>3, <1>4, <1>5, <1>6, <1>7, <1>8, <1>9, <1>10, <1>11, <1>12, <1>13,
     <1>14, <1>15, <1>16, <1>17, <1>18, <1>19, <1>20, <1>21, <1>22, <1>23, <1>24, <1>25,
     <1>26, <1>27 DEF Next, Save, Prune, Recover

\* The types but for the directory.
Control ==
  /\ kind \in {"foundation", "qualified"} /\ damaged \subseteq Generations
  /\ final \in Generations \cup {None} /\ gen \in Generations \cup {None}
  /\ pc \in Saving \cup {"up", "down", "lost"} /\ doomed \subseteq published
  /\ resumed \in Generations \cup {None} /\ wantFinal \in BOOLEAN
  /\ error \in {"none", "quota", "invalid", "missing"}
  /\ acked \subseteq published /\ published \subseteq Generations /\ crashes \in 0..MaxCrashes
  /\ pc \in Saving => gen # None
  /\ pc \in Linked => gen \in published
  /\ doomed # {} => pc \in Pruning
  /\ pc \in {"unlinkBase", "unlinkManifest"} => doomed # {}

\* They are kept: one step per action.
LEMMA KeepsControl == ASSUME Typed, [Next]_vars PROVE Control'
<1>c. Control
  BY DEF Typed, TypeOK, Control, Saving
<1>n. None \notin Generations /\ MaxCrashes \in Nat
  BY BoundsOK DEF BoundsOK, Generations
<1>1. ASSUME Begin PROVE Control'
  BY <1>1, <1>c, <1>n DEF Begin, background, Control, Saving, Linked, Pruning
<1>2. ASSUME QuotaExhausted PROVE Control'
  BY <1>2, <1>c, <1>n DEF QuotaExhausted, Raise, background, Control, Saving, Linked, Pruning
<1>3. ASSUME WriteBlob PROVE Control'
  BY <1>3, <1>c, <1>n DEF WriteBlob, background, Control, Saving, Linked, Pruning
<1>4. ASSUME PublishBlob PROVE Control'
  BY <1>4, <1>c, <1>n DEF PublishBlob, background, Control, Saving, Linked, Pruning
<1>5. ASSUME PublishBase PROVE Control'
  BY <1>5, <1>c, <1>n DEF PublishBase, background, Control, Saving, Linked, Pruning
<1>6. ASSUME PublishManifest PROVE Control'
  BY <1>6, <1>c, <1>n DEF PublishManifest, background, Control, Saving, Linked, Pruning
<1>7. ASSUME AdvertiseLatest PROVE Control'
  BY <1>7, <1>c, <1>n DEF AdvertiseLatest, background, Control, Saving, Linked, Pruning
<1>8. ASSUME CheckFails PROVE Control'
  BY <1>8, <1>c, <1>n DEF CheckFails, Raise, background, Control, Saving, Linked, Pruning
<1>9. ASSUME PinFinal PROVE Control'
  BY <1>9, <1>c, <1>n DEF PinFinal, background, Control, Saving, Linked, Pruning
<1>10. ASSUME PruneBegin PROVE Control'
  <2>1. Doomed \subseteq Generations /\ Doomed \subseteq published
    BY OnlyPublished DEF Doomed, Manifests, Dir
  <2> QED
    BY <1>10, <1>c, <1>n, <2>1 DEF PruneBegin, background, Control, Saving, Linked, Pruning
<1>11. ASSUME PruneRefused PROVE Control'
  BY <1>11, <1>c, <1>n DEF PruneRefused, Raise, background, Control, Saving, Linked, Pruning
<1>12. ASSUME UnlinkBlob PROVE Control'
  BY <1>12, <1>c, <1>n DEF UnlinkBlob, UnlinkPart, background, Control, Saving, Linked, Pruning
<1>13. ASSUME UnlinkBase PROVE Control'
  BY <1>13, <1>c, <1>n DEF UnlinkBase, UnlinkPart, background, Control, Saving, Linked, Pruning
<1>14. ASSUME UnlinkMissing PROVE Control'
  BY <1>14, <1>c, <1>n DEF UnlinkMissing, Raise, background, Control, Saving, Linked, Pruning
<1>15. ASSUME UnlinkManifest PROVE Control'
  <2>1. Max(doomed) \in doomed
    BY <1>15, Greatest DEF UnlinkManifest, Typed, TypeOK
  <2> QED
    BY <1>15, <1>c, <1>n, <2>1 DEF UnlinkManifest, background, Control, Saving, Linked, Pruning
<1>16. ASSUME SaveReturns PROVE Control'
  BY <1>16, <1>c, <1>n DEF SaveReturns, background, Control, Saving, Linked, Pruning
<1>17. ASSUME QuarantinePending PROVE Control'
  BY <1>17, <1>c, <1>n
     DEF QuarantinePending, recovering, background, Control, Saving, Linked, Pruning
<1>18. ASSUME QuarantineOrphan PROVE Control'
  BY <1>18, <1>c, <1>n
     DEF QuarantineOrphan, recovering, background, Control, Saving, Linked, Pruning
<1>19. ASSUME RejectBlob PROVE Control'
  BY <1>19, <1>c, <1>n
     DEF RejectBlob, recovering, background, Control, Saving, Linked, Pruning, Scanning
<1>20. ASSUME RejectBase PROVE Control'
  BY <1>20, <1>c, <1>n
     DEF RejectBase, recovering, background, Control, Saving, Linked, Pruning, Scanning
<1>21. ASSUME RejectManifest PROVE Control'
  BY <1>21, <1>c, <1>n
     DEF RejectManifest, recovering, background, Control, Saving, Linked, Pruning, Scanning
<1>22. ASSUME Select PROVE Control'
  <2>1. Candidate(Dir) \in Generations
    BY <1>22, Greatest DEF Select, Candidate, Manifests
  <2> QED
    BY <1>22, <1>c, <1>n, <2>1 DEF Select, Scanning, background, Control, Saving, Linked, Pruning
<1>23. ASSUME NothingLeft PROVE Control'
  BY <1>23, <1>c, <1>n DEF NothingLeft, background, Control, Saving, Linked, Pruning, Scanning
<1>24. ASSUME Kill PROVE Control'
  <2>1. crashes' \in 0..MaxCrashes
    <3>1. crashes \in 0..MaxCrashes
      BY DEF Typed, TypeOK
    <3>2. crashes < MaxCrashes /\ crashes' = crashes + 1
      BY <1>24 DEF Kill, Stop
    <3> QED
      BY <1>n, <3>1, <3>2
  <2>2. /\ pc' = "down" /\ gen' = None /\ doomed' = {} /\ wantFinal' = FALSE /\ error' = "none"
        /\ UNCHANGED <<damaged, final, resumed, kind, acked, published>>
    BY <1>24 DEF Kill, Stop
  <2> QED
    BY <1>c, <1>n, <2>1, <2>2 DEF Control, Saving, Linked, Pruning
<1>25. ASSUME PowerLoss PROVE Control'
  <2>1. crashes' \in 0..MaxCrashes
    <3>1. crashes \in 0..MaxCrashes
      BY DEF Typed, TypeOK
    <3>2. crashes < MaxCrashes /\ crashes' = crashes + 1
      BY <1>25 DEF PowerLoss, Stop
    <3> QED
      BY <1>n, <3>1, <3>2
  <2>2. /\ pc' = "down" /\ gen' = None /\ doomed' = {} /\ wantFinal' = FALSE /\ error' = "none"
        /\ UNCHANGED <<damaged, final, resumed, kind, acked, published>>
    BY <1>25 DEF PowerLoss, Stop
  <2> QED
    BY <1>c, <1>n, <2>1, <2>2 DEF Control, Saving, Linked, Pruning
<1>26. ASSUME Damage PROVE Control'
  BY <1>26, <1>c, <1>n DEF Damage, background, Control, Saving, Linked, Pruning
<1>27. ASSUME UNCHANGED vars PROVE Control'
  BY <1>27, <1>c, <1>n DEF vars, background, Control, Saving, Linked, Pruning
<1> QED
  BY <1>1, <1>2, <1>3, <1>4, <1>5, <1>6, <1>7, <1>8, <1>9, <1>10, <1>11, <1>12, <1>13,
     <1>14, <1>15, <1>16, <1>17, <1>18, <1>19, <1>20, <1>21, <1>22, <1>23, <1>24, <1>25,
     <1>26, <1>27 DEF Next, Save, Prune, Recover

\* Which steps change the numbers and what is in quarantine.
Moving ==
  /\ published \subseteq published'
  /\ UNCHANGED number \/ Begin
  /\ UNCHANGED cells \/ PowerLoss \/ \E file \in Dir : Jailed(file) /\ UNCHANGED forgotten

\* Every step is of that kind.
LEMMA Moves == ASSUME [Next]_vars PROVE Moving
<1>1. ASSUME Begin PROVE Moving
  BY <1>1 DEF Begin, background, Moving
<1>2. ASSUME QuotaExhausted PROVE Moving
  BY <1>2 DEF QuotaExhausted, Raise, background, Moving
<1>3. ASSUME WriteBlob PROVE Moving
  BY <1>3 DEF WriteBlob, background, Moving
<1>4. ASSUME PublishBlob PROVE Moving
  BY <1>4 DEF PublishBlob, background, Moving
<1>5. ASSUME PublishBase PROVE Moving
  BY <1>5 DEF PublishBase, background, Moving
<1>6. ASSUME PublishManifest PROVE Moving
  BY <1>6 DEF PublishManifest, background, Moving
<1>7. ASSUME AdvertiseLatest PROVE Moving
  BY <1>7 DEF AdvertiseLatest, background, Moving
<1>8. ASSUME CheckFails PROVE Moving
  BY <1>8 DEF CheckFails, Raise, background, Moving
<1>9. ASSUME PinFinal PROVE Moving
  BY <1>9 DEF PinFinal, background, Moving
<1>10. ASSUME PruneBegin PROVE Moving
  BY <1>10 DEF PruneBegin, background, Moving
<1>11. ASSUME PruneRefused PROVE Moving
  BY <1>11 DEF PruneRefused, Raise, background, Moving
<1>12. ASSUME UnlinkBlob PROVE Moving
  BY <1>12 DEF UnlinkBlob, UnlinkPart, background, Moving
<1>13. ASSUME UnlinkBase PROVE Moving
  BY <1>13 DEF UnlinkBase, UnlinkPart, background, Moving
<1>14. ASSUME UnlinkMissing PROVE Moving
  BY <1>14 DEF UnlinkMissing, Raise, background, Moving
<1>15. ASSUME UnlinkManifest PROVE Moving
  BY <1>15 DEF UnlinkManifest, background, Moving
<1>16. ASSUME SaveReturns PROVE Moving
  BY <1>16 DEF SaveReturns, background, Moving
<1>17. ASSUME QuarantinePending PROVE Moving
  BY <1>17 DEF QuarantinePending, Leftovers, Quarantine, recovering, background, Moving
<1>18. ASSUME QuarantineOrphan PROVE Moving
  BY <1>18 DEF QuarantineOrphan, Orphans, Quarantine, recovering, background, Moving
<1>19. ASSUME RejectBlob PROVE Moving
  BY <1>19 DEF RejectBlob, Quarantine, recovering, background, Moving
<1>20. ASSUME RejectBase PROVE Moving
  BY <1>20 DEF RejectBase, Quarantine, recovering, background, Moving
<1>21. ASSUME RejectManifest PROVE Moving
  <2>1. Max(Manifests(Dir)) \in Manifests(Dir)
    BY <1>21, Greatest DEF RejectManifest, Manifests
  <2> QED
    BY <1>21, <2>1 DEF RejectManifest, Manifests, Quarantine, recovering, background, Moving
<1>22. ASSUME Select PROVE Moving
  BY <1>22 DEF Select, background, Moving
<1>23. ASSUME NothingLeft PROVE Moving
  BY <1>23 DEF NothingLeft, background, Moving
<1>24. ASSUME Kill PROVE Moving
  BY <1>24 DEF Kill, Stop, background, Moving
<1>25. ASSUME PowerLoss PROVE Moving
  BY <1>25 DEF PowerLoss, Stop, background, Moving
<1>26. ASSUME Damage PROVE Moving
  BY <1>26 DEF Damage, background, Moving
<1>27. ASSUME UNCHANGED vars PROVE Moving
  BY <1>27 DEF vars, background, Moving
<1> QED
  BY <1>1, <1>2, <1>3, <1>4, <1>5, <1>6, <1>7, <1>8, <1>9, <1>10, <1>11, <1>12, <1>13,
     <1>14, <1>15, <1>16, <1>17, <1>18, <1>19, <1>20, <1>21, <1>22, <1>23, <1>24, <1>25,
     <1>26, <1>27 DEF Next, Save, Prune, Recover

\* A number after all of S.
LEMMA LaterThan ==
  ASSUME NEW S \in SUBSET Generations
  PROVE  /\ Later(S) \in Nat /\ \A g \in S : g < Later(S)
         /\ S = {} => Later(S) = 0
         /\ S # {} => \E g \in S : Later(S) = g + 1
<1>1. Generations \subseteq Nat
  BY BoundsOK DEF BoundsOK, Generations
<1>2. CASE S = {}
  BY <1>2 DEF Later
<1>3. CASE S # {}
  <2>1. Max(S) \in S /\ \A g \in S : g <= Max(S)
    BY <1>3, Greatest
  <2>2. Later(S) = Max(S) + 1
    BY <1>3 DEF Later
  <2>3. Max(S) \in Nat /\ S \subseteq Nat
    BY <1>1, <2>1
  <2> QED
    BY <1>3, <2>1, <2>2, <2>3
<1> QED
  BY <1>2, <1>3

\* The number a save takes is higher than those in use, and no higher than its place in the
\* order of saves.
LEMMA NextNumber ==
  ASSUME Typed
  PROVE  /\ NextGeneration \in Nat /\ NextGeneration <= Later(published \cup Used)
         /\ \A g \in Used : number[g] < NextGeneration
         /\ \A g \in published : g < Later(published \cup Used)
<1> DEFINE S == {number[g] : g \in Used}
           n == Later(S)
           T == published \cup Used
           m == Later(T)
<1>1. /\ published \in SUBSET Generations /\ Used \in SUBSET Generations
      /\ number \in [Generations -> Generations] /\ \A g \in Generations : number[g] <= g
  BY DEF Typed, TypeOK, Used
<1>2. S \in SUBSET Generations
  BY <1>1
<1>3. Generations \subseteq Nat
  BY BoundsOK DEF BoundsOK, Generations
<1>4. T \in SUBSET Generations /\ Used \subseteq T /\ published \subseteq T
  BY <1>1
<1>5. \A g \in Used : number[g] \in S
  OBVIOUS
<1>6. \A k \in S : \E g \in Used : k = number[g]
  OBVIOUS
<1>7. NextGeneration = n
  BY DEF NextGeneration
<1> HIDE DEF S, T
<1>8. /\ n \in Nat /\ \A k \in S : k < n
      /\ S = {} => n = 0
      /\ S # {} => \E k \in S : n = k + 1
  BY <1>2, LaterThan
<1>9. m \in Nat /\ \A g \in T : g < m
  BY <1>4, LaterThan
<1> HIDE DEF n, m
<1>10. n <= m
  <2>1. CASE S = {}
    BY <1>8, <1>9, <2>1
  <2>2. CASE S # {}
    <3>1. PICK k \in S : n = k + 1
      BY <1>8, <2>2
    <3>2. PICK g \in Used : k = number[g]
      BY <1>6, <3>1
    <3>3. k <= g /\ g < m /\ k \in Nat /\ g \in Nat
      BY <1>1, <1>3, <1>4, <1>9, <3>2
    <3> QED
      BY <1>9, <3>1, <3>3
  <2> QED
    BY <2>1, <2>2
<1> QED
  BY <1>4, <1>5, <1>7, <1>8, <1>9, <1>10 DEF m, T

\* The numbers and what is in quarantine.
Cells ==
  /\ jail \subseteq Names /\ loose \subseteq jail /\ forgotten \subseteq published
  /\ number \in [Generations -> Generations] /\ \A g \in Generations : number[g] <= g
  /\ \A g \in Generations : Manifest(g) \in jail => g \in published

\* They are kept.
LEMMA KeepsCells == ASSUME Typed, [Next]_vars PROVE Cells'
<1>1. Moving /\ published \subseteq published'
  BY Moves DEF Moving
<1>2. Cells
  BY DEF Typed, TypeOK, Cells, Names
<1>3. /\ number' \in [Generations -> Generations]
      /\ \A g \in Generations : number'[g] <= g
  <2>1. CASE UNCHANGED number
    BY <1>2, <2>1 DEF Cells
  <2>2. CASE Begin
    <3>1. PICK g \in Generations :
            /\ g = Later(published \cup Used)
            /\ number' = [number EXCEPT ![g] = NextGeneration]
      BY <2>2 DEF Begin
    <3>2. NextGeneration \in Nat /\ NextGeneration <= g
      BY <3>1, NextNumber
    <3>3. NextGeneration \in Generations
      BY <3>1, <3>2, BoundsOK DEF BoundsOK, Generations
    <3> QED
      BY <1>2, <3>1, <3>2, <3>3 DEF Cells
  <2> QED
    BY <1>1, <2>1, <2>2 DEF Moving
<1>4. /\ jail' \subseteq Names /\ loose' \subseteq jail' /\ forgotten' \subseteq published'
      /\ \A g \in Generations : Manifest(g) \in jail' => g \in published'
  <2>1. CASE UNCHANGED cells
    BY <1>1, <1>2, <2>1 DEF Cells, cells
  <2>2. CASE PowerLoss
    <3>1. PICK gone \in SUBSET loose :
            /\ jail' = jail \ gone /\ loose' = {}
            /\ forgotten' = forgotten \cup {g \in Generations : Manifest(g) \in gone}
      BY <2>2 DEF PowerLoss
    <3> QED
      BY <1>1, <1>2, <3>1 DEF Cells
  <2>3. CASE \E file \in Dir : Jailed(file) /\ UNCHANGED forgotten
    <3>1. PICK file \in Dir : Jailed(file) /\ UNCHANGED forgotten
      BY <2>3
    <3>2. jail' \subseteq jail \cup {file} /\ loose' \subseteq jail'
      BY <1>2, <3>1 DEF Jailed, Cells
    <3>3. file \in Names /\ \A g \in Generations : file = Manifest(g) => g \in published
      BY <3>1, OnlyPublished DEF Dir
    <3> QED
      BY <1>1, <1>2, <3>1, <3>2, <3>3 DEF Cells
  <2> QED
    BY <1>1, <2>1, <2>2, <2>3 DEF Moving
<1> QED
  BY <1>3, <1>4 DEF Cells

\* So are all the types.
LEMMA KeepsTyped == ASSUME Typed, [Next]_vars PROVE Typed'
<1>1. Control' /\ Directory' /\ Cells'
  BY KeepsControl, KeepsDirectory, KeepsCells
<1>2. \A op \in volatile' : op.add \cap op.del = {}
  <2>1. ASSUME NEW op \in volatile' PROVE op.add \cap op.del = {}
    <3>1. PICK g \in Generations :
            \/ op = Op({Pending(g)}, {}) \/ \E file : op = Op({}, {file})
      BY <1>1 DEF Directory, Waiting
    <3> QED
      BY <3>1 DEF Op
  <2> QED
    BY <2>1
<1>3. TypeOK'
  <2>1. doomed' \subseteq Generations
    BY <1>1 DEF Control
  <2> QED
    BY <1>1, <1>2, <2>1 DEF Control, Directory, Cells, Names, TypeOK, Saving
<1>4. doomed' \subseteq published'
  BY <1>1 DEF Control
<1> QED
  BY <1>1, <1>3, <1>4 DEF Control, Directory, Cells, Typed


\* The store is empty at first.
LEMMA TypedAtFirst == ASSUME Init PROVE Typed
<1>1. TypeOK
  <2>1. crashes \in 0..MaxCrashes
    BY BoundsOK DEF Init, BoundsOK
  <2>2. disk \subseteq Names
    BY DEF Init
  <2>3. 0 \in Generations
    BY BoundsOK DEF BoundsOK, Generations
  <2> QED
    BY <2>1, <2>2, <2>3 DEF Init, TypeOK, Names
<1>2. \A g \in Generations : number[g] <= g
  BY BoundsOK DEF Init, BoundsOK, Generations
<1> QED
  BY <1>1, <1>2 DEF Init, Typed, Saving, Linked, Pruning

\* The types, and what waits for an fsync: a pending file or an unlink of prune.
THEOREM TypeInvariance == Spec => []Typed
<1>1. Init => Typed
  BY TypedAtFirst
<1> QED
  BY <1>1, KeepsTyped, PTL DEF Spec

(***************************************************************************)
(* What no crash takes away: names on disk that no waiting unlink deletes. *)
(***************************************************************************)
Lasting(x) == x \in disk /\ \A op \in volatile : x \notin op.del

\* Every file of the generation is there for good.
Firm(g) == \A x \in Parts(g) : Lasting(x)

\* A lasting name survives every power loss.
LEMMA Outlasts ==
  ASSUME NEW x, Lasting(x), NEW ops \in SUBSET volatile
  PROVE  x \in Apply(disk, ops)
BY Shown DEF Lasting

\* The files of a firm generation are shown after every crash.
LEMMA FirmShown ==
  ASSUME NEW g, Firm(g), NEW ops \in SUBSET volatile
  PROVE  Parts(g) \subseteq Apply(disk, ops)
BY Outlasts DEF Firm

\* A sync of the directory or a power loss takes away no lasting name.
LEMMA LastsSync ==
  ASSUME NEW x, Lasting(x), disk' = Dir \/ disk' \in Survivors, volatile' = {}
  PROVE  Lasting(x)'
BY Outlasts DEF Lasting, Dir, Survivors

\* The same for an operation that is synced.
LEMMA LastsWrite ==
  ASSUME NEW x, Lasting(x), NEW op, Durably(op), x \notin op.del
  PROVE  Lasting(x)'
<1>1. x \in Dir
  BY Outlasts DEF Dir
<1>2. disk' = Apply(Dir, {op}) /\ volatile' = {}
  BY DEF Durably, Dir
<1> QED
  BY <1>1, <1>2, Shown DEF Lasting

\* The same for an operation that waits.
LEMMA LastsQueue ==
  ASSUME NEW x, Lasting(x), NEW op, Lazily(op), x \notin op.del
  PROVE  Lasting(x)'
BY DEF Lasting, Lazily

\* The same for a step that leaves the directory alone.
LEMMA LastsStay ==
  ASSUME NEW x, Lasting(x), UNCHANGED <<disk, volatile>>
  PROVE  Lasting(x)'
BY DEF Lasting

\* What a step may take away: a pending file, a part of a generation that prune deletes, or a
\* part of one that does not load, whose manifest is then in quarantine.
Lost(x) ==
  \/ \E g \in Generations : x = Pending(g)
  \/ /\ doomed # {}
     /\ x \in {Blob(Max(doomed)), Base(Max(doomed)), Manifest(Max(doomed))}
  \/ /\ pc = "down" /\ UNCHANGED damaged
     /\ \E g \in Generations :
          /\ ~Valid(Dir, g)
          /\ \/ x \in {Blob(g), Base(g)}
             \/ x = Manifest(g) /\ x \in jail'

\* No step takes away a lasting name for another reason.
LEMMA Losses == ASSUME Typed, [Next]_vars, NEW x, Lasting(x) PROVE Lasting(x)' \/ Lost(x)
<1>1. ASSUME Begin PROVE Lasting(x)' \/ Lost(x)
  BY <1>1, LastsStay DEF Begin, background
<1>2. ASSUME QuotaExhausted PROVE Lasting(x)' \/ Lost(x)
  BY <1>2, LastsStay DEF QuotaExhausted, Raise, background
<1>3. ASSUME WriteBlob PROVE Lasting(x)' \/ Lost(x)
  <2>1. PICK op : Lazily(op) /\ op.del = {}
    BY <1>3 DEF WriteBlob, Op
  <2> QED
    BY <2>1, LastsQueue
<1>4. ASSUME PublishBlob PROVE Lasting(x)' \/ Lost(x)
  <2>1. PICK g \in Generations : Durably(Op({Blob(g)}, {Pending(g)}))
    BY <1>4 DEF PublishBlob, Typed, TypeOK, Saving
  <2>2. Op({Blob(g)}, {Pending(g)}).del \subseteq {Pending(g)}
    BY DEF Op
  <2> QED
    BY <2>1, <2>2, LastsWrite DEF Lost
<1>5. ASSUME PublishBase PROVE Lasting(x)' \/ Lost(x)
  <2>1. PICK g \in Generations : Durably(Op({Base(g)}, {}))
    BY <1>5 DEF PublishBase, Typed, TypeOK, Saving
  <2>2. Op({Base(g)}, {}).del \subseteq {Pending(g)}
    BY DEF Op
  <2> QED
    BY <2>1, <2>2, LastsWrite DEF Lost
<1>6. ASSUME PublishManifest PROVE Lasting(x)' \/ Lost(x)
  <2>1. PICK g \in Generations : Durably(Op({Manifest(g)}, {}))
    BY <1>6 DEF PublishManifest, Typed, TypeOK, Saving
  <2>2. Op({Manifest(g)}, {}).del \subseteq {Pending(g)}
    BY DEF Op
  <2> QED
    BY <2>1, <2>2, LastsWrite DEF Lost
<1>7. ASSUME AdvertiseLatest PROVE Lasting(x)' \/ Lost(x)
  BY <1>7, LastsSync DEF AdvertiseLatest, background
<1>8. ASSUME CheckFails PROVE Lasting(x)' \/ Lost(x)
  BY <1>8, LastsStay DEF CheckFails, Raise, background
<1>9. ASSUME PinFinal PROVE Lasting(x)' \/ Lost(x)
  BY <1>9, LastsStay DEF PinFinal, background
<1>10. ASSUME PruneBegin PROVE Lasting(x)' \/ Lost(x)
  BY <1>10, LastsStay DEF PruneBegin, background
<1>11. ASSUME PruneRefused PROVE Lasting(x)' \/ Lost(x)
  BY <1>11, LastsStay DEF PruneRefused, Raise, background
<1>12. ASSUME UnlinkBlob PROVE Lasting(x)' \/ Lost(x)
  <2>1. doomed # {}
    BY <1>12 DEF UnlinkBlob, UnlinkPart, Typed
  <2>2. Lazily(Op({}, {Blob(Max(doomed))}))
    BY <1>12 DEF UnlinkBlob, UnlinkPart
  <2>3. Op({}, {Blob(Max(doomed))}).del = {Blob(Max(doomed))}
    BY DEF Op
  <2> QED
    BY <2>1, <2>2, <2>3, LastsQueue DEF Lost
<1>13. ASSUME UnlinkBase PROVE Lasting(x)' \/ Lost(x)
  <2>1. doomed # {}
    BY <1>13 DEF UnlinkBase, UnlinkPart, Typed
  <2>2. Lazily(Op({}, {Base(Max(doomed))}))
    BY <1>13 DEF UnlinkBase, UnlinkPart
  <2>3. Op({}, {Base(Max(doomed))}).del = {Base(Max(doomed))}
    BY DEF Op
  <2> QED
    BY <2>1, <2>2, <2>3, LastsQueue DEF Lost
<1>14. ASSUME UnlinkMissing PROVE Lasting(x)' \/ Lost(x)
  BY <1>14, LastsStay DEF UnlinkMissing, Raise, background
<1>15. ASSUME UnlinkManifest PROVE Lasting(x)' \/ Lost(x)
  <2>1. doomed # {}
    BY <1>15 DEF UnlinkManifest, Typed
  <2>2. Lazily(Op({}, {Manifest(Max(doomed))}))
    BY <1>15 DEF UnlinkManifest
  <2>3. Op({}, {Manifest(Max(doomed))}).del = {Manifest(Max(doomed))}
    BY DEF Op
  <2> QED
    BY <2>1, <2>2, <2>3, LastsQueue DEF Lost
<1>16. ASSUME SaveReturns PROVE Lasting(x)' \/ Lost(x)
  BY <1>16, LastsSync DEF SaveReturns, background
<1>17. ASSUME QuarantinePending PROVE Lasting(x)' \/ Lost(x)
  <2>1. PICK g \in Generations : Durably(Op({}, {Pending(g)}))
    BY <1>17 DEF QuarantinePending, Quarantine, Leftovers
  <2>2. Op({}, {Pending(g)}).del = {Pending(g)}
    BY DEF Op
  <2> QED
    BY <2>1, <2>2, LastsWrite DEF Lost
<1>18. ASSUME QuarantineOrphan PROVE Lasting(x)' \/ Lost(x)
  <2>1. PICK g \in Generations : Durably(Op({}, {Blob(g)})) /\ ~Valid(Dir, g)
    BY <1>18 DEF QuarantineOrphan, Quarantine, Orphans, Valid, Parts
  <2>2. pc = "down" /\ UNCHANGED damaged
    BY <1>18 DEF QuarantineOrphan, recovering
  <2>3. Op({}, {Blob(g)}).del = {Blob(g)}
    BY DEF Op
  <2> QED
    BY <2>1, <2>2, <2>3, LastsWrite DEF Lost
<1>19. ASSUME RejectBlob PROVE Lasting(x)' \/ Lost(x)
  <2>1. PICK g \in Generations : Durably(Op({}, {Blob(g)})) /\ ~Valid(Dir, g)
    <3>1. PICK g \in Generations : g = Max(Manifests(Dir))
      BY <1>19, Greatest DEF RejectBlob, Manifests
    <3> QED
      BY <1>19, <3>1 DEF RejectBlob, Quarantine, Valid, Parts
  <2>2. pc = "down" /\ UNCHANGED damaged
    BY <1>19 DEF RejectBlob, Scanning, recovering
  <2>3. Op({}, {Blob(g)}).del = {Blob(g)}
    BY DEF Op
  <2> QED
    BY <2>1, <2>2, <2>3, LastsWrite DEF Lost
<1>20. ASSUME RejectBase PROVE Lasting(x)' \/ Lost(x)
  <2>1. PICK g \in Generations : Durably(Op({}, {Base(g)})) /\ ~Valid(Dir, g)
    <3>1. PICK g \in Generations : g = Max(Manifests(Dir))
      BY <1>20, Greatest DEF RejectBase, Manifests
    <3> QED
      BY <1>20, <3>1 DEF RejectBase, Quarantine, Valid, Parts
  <2>2. pc = "down" /\ UNCHANGED damaged
    BY <1>20 DEF RejectBase, Scanning, recovering
  <2>3. Op({}, {Base(g)}).del = {Base(g)}
    BY DEF Op
  <2> QED
    BY <2>1, <2>2, <2>3, LastsWrite DEF Lost
<1>21. ASSUME RejectManifest PROVE Lasting(x)' \/ Lost(x)
  <2>1. PICK g \in Generations : Durably(Op({}, {Manifest(g)})) /\ ~Valid(Dir, g) /\ Manifest(g) \in jail'
    <3>1. PICK g \in Generations : g = Max(Manifests(Dir))
      BY <1>21, Greatest DEF RejectManifest, Manifests
    <3> QED
      BY <1>21, <3>1 DEF RejectManifest, Quarantine, Jailed, Named, Valid, Parts
  <2>2. pc = "down" /\ UNCHANGED damaged
    BY <1>21 DEF RejectManifest, Scanning, recovering
  <2>3. Op({}, {Manifest(g)}).del = {Manifest(g)}
    BY DEF Op
  <2> QED
    BY <2>1, <2>2, <2>3, LastsWrite DEF Lost
<1>22. ASSUME Select PROVE Lasting(x)' \/ Lost(x)
  <2>1. UNCHANGED <<disk, volatile>> \/ (disk' = Dir /\ volatile' = {})
    BY <1>22 DEF Select
  <2> QED
    BY <2>1, LastsSync, LastsStay
<1>23. ASSUME NothingLeft PROVE Lasting(x)' \/ Lost(x)
  BY <1>23, LastsStay DEF NothingLeft, background
<1>24. ASSUME Kill PROVE Lasting(x)' \/ Lost(x)
  BY <1>24, LastsStay DEF Kill, Stop, background
<1>25. ASSUME PowerLoss PROVE Lasting(x)' \/ Lost(x)
  BY <1>25, LastsSync DEF PowerLoss, Stop, background
<1>26. ASSUME Damage PROVE Lasting(x)' \/ Lost(x)
  BY <1>26, LastsStay DEF Damage, background
<1>27. ASSUME UNCHANGED vars PROVE Lasting(x)' \/ Lost(x)
  BY <1>27, LastsStay DEF vars, background
<1> QED
  BY <1>1, <1>2, <1>3, <1>4, <1>5, <1>6, <1>7, <1>8, <1>9, <1>10, <1>11, <1>12, <1>13,
     <1>14, <1>15, <1>16, <1>17, <1>18, <1>19, <1>20, <1>21, <1>22, <1>23, <1>24, <1>25,
     <1>26, <1>27 DEF Next, Save, Prune, Recover

(***************************************************************************)
(* The numbers.  A save comes after every published one, and its number is *)
(* higher than those of the manifests in the root; a number that is no     *)
(* longer covered by a manifest went with one that a power loss took from  *)
(* quarantine.                                                             *)
(***************************************************************************)
Marked(h) == Lasting(Manifest(h)) \/ Manifest(h) \in jail \/ h \in forgotten

\* A save that has its number and did not publish it yet.
Numbering == {"write", "blob", "base", "manifest"}

Newer == pc \in Numbering => \A g \in published : g < gen

Order ==
  /\ NumbersInOrder
  /\ pc \in Numbering => \A g \in Manifests(Dir) : number[g] < number[gen]

Covered ==
  \A g \in published :
    \E h \in published : h >= g /\ number[h] >= number[g] /\ Marked(h)

Excused ==
  pc \in Numbering =>
    \A g \in published :
      \/ number[g] < number[gen]
      \/ \E h \in forgotten : h >= g /\ number[h] >= number[gen]

\* What prune deletes leaves a newer manifest in the root.
Deleted ==
  \A g \in doomed : \E h \in published \ doomed : h > g /\ Lasting(Manifest(h))

\* Generations that nothing but the storage can take away.
Good == {g \in published : g \in damaged \/ Firm(g)}

\* Two newer ones in S.
Two(g, S) == \E h, i \in S : g < h /\ h < i

\* Which steps change what.
Onward ==
  /\ UNCHANGED kind
  /\ UNCHANGED published \/ (PublishManifest /\ published' = published \cup {gen})
  /\ damaged \subseteq damaged' \/ (pc = "blob" /\ damaged' = damaged \ {gen})
  /\ doomed' \subseteq doomed \/ PruneBegin
  /\ UNCHANGED final \/ PinFinal
  /\ pc' = "pin" => AdvertiseLatest \/ UNCHANGED <<pc, gen>>
  /\ pc' \in Numbering =>
       \/ Begin
       \/ /\ pc \in Numbering /\ UNCHANGED gen
          /\ UNCHANGED <<disk, volatile>> \/ WriteBlob \/ PublishBlob \/ PublishBase

\* Every step is of that kind.
LEMMA Changes == ASSUME [Next]_vars PROVE Onward
<1>1. ASSUME Begin PROVE Onward
  BY <1>1 DEF Begin, background, Onward, Numbering
<1>2. ASSUME QuotaExhausted PROVE Onward
  BY <1>2 DEF QuotaExhausted, Raise, background, Onward, Numbering
<1>3. ASSUME WriteBlob PROVE Onward
  BY <1>3 DEF WriteBlob, background, Onward, Numbering
<1>4. ASSUME PublishBlob PROVE Onward
  BY <1>4 DEF PublishBlob, background, Onward, Numbering
<1>5. ASSUME PublishBase PROVE Onward
  BY <1>5 DEF PublishBase, background, Onward, Numbering
<1>6. ASSUME PublishManifest PROVE Onward
  BY <1>6 DEF PublishManifest, background, Onward, Numbering
<1>7. ASSUME AdvertiseLatest PROVE Onward
  BY <1>7 DEF AdvertiseLatest, background, Onward, Numbering
<1>8. ASSUME CheckFails PROVE Onward
  BY <1>8 DEF CheckFails, Raise, background, Onward, Numbering
<1>9. ASSUME PinFinal PROVE Onward
  BY <1>9 DEF PinFinal, background, Onward, Numbering
<1>10. ASSUME PruneBegin PROVE Onward
  BY <1>10 DEF PruneBegin, background, Onward, Numbering
<1>11. ASSUME PruneRefused PROVE Onward
  BY <1>11 DEF PruneRefused, Raise, background, Onward, Numbering
<1>12. ASSUME UnlinkBlob PROVE Onward
  BY <1>12 DEF UnlinkBlob, UnlinkPart, background, Onward, Numbering
<1>13. ASSUME UnlinkBase PROVE Onward
  BY <1>13 DEF UnlinkBase, UnlinkPart, background, Onward, Numbering
<1>14. ASSUME UnlinkMissing PROVE Onward
  BY <1>14 DEF UnlinkMissing, Raise, background, Onward, Numbering
<1>15. ASSUME UnlinkManifest PROVE Onward
  BY <1>15 DEF UnlinkManifest, background, Onward, Numbering
<1>16. ASSUME SaveReturns PROVE Onward
  BY <1>16 DEF SaveReturns, background, Onward, Numbering
<1>17. ASSUME QuarantinePending PROVE Onward
  BY <1>17 DEF QuarantinePending, recovering, background, Onward, Numbering
<1>18. ASSUME QuarantineOrphan PROVE Onward
  BY <1>18 DEF QuarantineOrphan, recovering, background, Onward, Numbering
<1>19. ASSUME RejectBlob PROVE Onward
  BY <1>19 DEF RejectBlob, Scanning, recovering, background, Onward, Numbering
<1>20. ASSUME RejectBase PROVE Onward
  BY <1>20 DEF RejectBase, Scanning, recovering, background, Onward, Numbering
<1>21. ASSUME RejectManifest PROVE Onward
  BY <1>21 DEF RejectManifest, Scanning, recovering, background, Onward, Numbering
<1>22. ASSUME Select PROVE Onward
  BY <1>22 DEF Select, background, Onward, Numbering
<1>23. ASSUME NothingLeft PROVE Onward
  BY <1>23 DEF NothingLeft, background, Onward, Numbering
<1>24. ASSUME Kill PROVE Onward
  BY <1>24 DEF Kill, Stop, background, Onward, Numbering
<1>25. ASSUME PowerLoss PROVE Onward
  BY <1>25 DEF PowerLoss, Stop, background, Onward, Numbering
<1>26. ASSUME Damage PROVE Onward
  BY <1>26 DEF Damage, background, Onward, Numbering
<1>27. ASSUME UNCHANGED vars PROVE Onward
  BY <1>27 DEF vars, background, Onward, Numbering
<1> QED
  BY <1>1, <1>2, <1>3, <1>4, <1>5, <1>6, <1>7, <1>8, <1>9, <1>10, <1>11, <1>12, <1>13,
     <1>14, <1>15, <1>16, <1>17, <1>18, <1>19, <1>20, <1>21, <1>22, <1>23, <1>24, <1>25,
     <1>26, <1>27 DEF Next, Save, Prune, Recover

\* A good generation stays good unless prune is deleting it.
LEMMA StaysGood ==
  ASSUME Typed, Newer, [Next]_vars, NEW g \in Good, g \notin doomed
  PROVE  g \in Good'
<1>1. g \in published /\ g \in published' /\ UNCHANGED kind
  BY Changes DEF Onward, Good
<1>2. ASSUME g \in damaged PROVE g \in damaged'
  <2>1. damaged \subseteq damaged' \/ (pc = "blob" /\ damaged' = damaged \ {gen})
    BY Changes DEF Onward
  <2>2. ASSUME pc = "blob" PROVE g # gen
    <3>1. g < gen
      BY <1>1, <2>2 DEF Newer, Numbering
    <3>2. g \in 0..MaxGeneration
      BY <1>1 DEF Typed, TypeOK, Generations
    <3> QED
      BY <3>1, <3>2
  <2> QED
    BY <1>2, <2>1, <2>2
<1>3. ASSUME g \notin damaged PROVE g \in damaged' \/ Firm(g)'
  <2>1. Firm(g)
    BY <1>3 DEF Good
  <2>2. ASSUME NEW x \in Parts(g) PROVE Lasting(x)'
    <3>1. Lasting(x)
      BY <2>1, <2>2 DEF Firm
    <3>2. x \in {Manifest(g), Blob(g), Base(g)}
      BY <2>2 DEF Parts
    <3>3. \A h \in Generations : x # Pending(h)
      BY <3>2 DEF Manifest, Blob, Base, Pending
    <3>4. ASSUME NEW h, x \in {Manifest(h), Blob(h), Base(h)} PROVE h = g
      BY <3>2, <3>4 DEF Manifest, Blob, Base
    <3>5. ASSUME doomed # {} PROVE Max(doomed) # g
      BY <3>5, Greatest DEF Typed, TypeOK
    <3>6. Valid(Dir, g)
      BY <1>3, <2>1, FirmShown DEF Valid, Dir
    <3>7. ~Lost(x)
      BY <3>3, <3>4, <3>5, <3>6 DEF Lost
    <3> QED
      BY <3>1, <3>7, Losses
  <2> QED
    BY <1>1, <2>2 DEF Firm, Parts, Qualified
<1> QED
  BY <1>1, <1>2, <1>3 DEF Good


(***************************************************************************)
(* The files a save has already put in place.                              *)
(***************************************************************************)
Places ==
  /\ pc \in {"base", "manifest"} => Lasting(Blob(gen))
  /\ pc = "manifest" /\ Qualified => Lasting(Base(gen))
  /\ pc \in {"pin", "prune"} => volatile = {}

\* A file in place stays there while the save goes on.
LEMMA KeepsPlaces == ASSUME Typed, Places, [Next]_vars PROVE Places'
<1>1. ASSUME Begin PROVE Places'
  BY <1>1 DEF Begin, background, Places
<1>2. ASSUME QuotaExhausted PROVE Places'
  BY <1>2 DEF QuotaExhausted, Raise, background, Places
<1>3. ASSUME WriteBlob PROVE Places'
  BY <1>3 DEF WriteBlob, background, Places
<1>4. ASSUME PublishBlob PROVE Places'
  <2>1. Durably(Op({Blob(gen)}, {Pending(gen)})) /\ UNCHANGED <<gen, kind>>
        /\ pc' = IF Qualified THEN "base" ELSE "manifest"
    BY <1>4 DEF PublishBlob, background
  <2>2. Lasting(Blob(gen))'
    BY <2>1, Shown DEF Durably, Op, Lasting
  <2> QED
    BY <2>1, <2>2 DEF Places, Qualified
<1>5. ASSUME PublishBase PROVE Places'
  <2>1. pc = "base" /\ pc' = "manifest" /\ UNCHANGED <<gen, kind>>
        /\ Durably(Op({Base(gen)}, {}))
    BY <1>5 DEF PublishBase, background
  <2>2. Lasting(Base(gen))'
    BY <2>1, Shown DEF Durably, Op, Lasting
  <2>3. Op({Base(gen)}, {}).del = {}
    BY DEF Op
  <2>4. Lasting(Blob(gen))
    BY <2>1 DEF Places
  <2>5. PICK x : x = Blob(gen)
    OBVIOUS
  <2>6. Lasting(x)'
    BY <2>1, <2>3, <2>4, <2>5, LastsWrite
  <2>7. Lasting(Blob(gen))'
    BY <2>1, <2>5, <2>6 DEF Lasting, Blob
  <2> QED
    BY <2>1, <2>2, <2>7 DEF Places
<1>6. ASSUME PublishManifest PROVE Places'
  BY <1>6 DEF PublishManifest, background, Places
<1>7. ASSUME AdvertiseLatest PROVE Places'
  BY <1>7 DEF AdvertiseLatest, background, Places
<1>8. ASSUME CheckFails PROVE Places'
  BY <1>8 DEF CheckFails, Raise, background, Places
<1>9. ASSUME PinFinal PROVE Places'
  BY <1>9 DEF PinFinal, background, Places
<1>10. ASSUME PruneBegin PROVE Places'
  BY <1>10 DEF PruneBegin, background, Places
<1>11. ASSUME PruneRefused PROVE Places'
  BY <1>11 DEF PruneRefused, Raise, background, Places
<1>12. ASSUME UnlinkBlob PROVE Places'
  BY <1>12 DEF UnlinkBlob, UnlinkPart, background, Places
<1>13. ASSUME UnlinkBase PROVE Places'
  BY <1>13 DEF UnlinkBase, UnlinkPart, background, Places
<1>14. ASSUME UnlinkMissing PROVE Places'
  BY <1>14 DEF UnlinkMissing, Raise, background, Places
<1>15. ASSUME UnlinkManifest PROVE Places'
  BY <1>15 DEF UnlinkManifest, background, Places
<1>16. ASSUME SaveReturns PROVE Places'
  BY <1>16 DEF SaveReturns, background, Places
<1>17. ASSUME QuarantinePending PROVE Places'
  BY <1>17 DEF QuarantinePending, recovering, background, Places
<1>18. ASSUME QuarantineOrphan PROVE Places'
  BY <1>18 DEF QuarantineOrphan, recovering, background, Places
<1>19. ASSUME RejectBlob PROVE Places'
  BY <1>19 DEF RejectBlob, recovering, background, Places, Scanning
<1>20. ASSUME RejectBase PROVE Places'
  BY <1>20 DEF RejectBase, recovering, background, Places, Scanning
<1>21. ASSUME RejectManifest PROVE Places'
  BY <1>21 DEF RejectManifest, recovering, background, Places, Scanning
<1>22. ASSUME Select PROVE Places'
  BY <1>22 DEF Select, background, Places
<1>23. ASSUME NothingLeft PROVE Places'
  BY <1>23 DEF NothingLeft, background, Places, Scanning
<1>24. ASSUME Kill PROVE Places'
  BY <1>24 DEF Kill, Stop, background, Places
<1>25. ASSUME PowerLoss PROVE Places'
  BY <1>25 DEF PowerLoss, Stop, background, Places
<1>26. ASSUME Damage PROVE Places'
  BY <1>26 DEF Damage, background, Places, Lasting, Blob, Base, Qualified
<1>27. ASSUME UNCHANGED vars PROVE Places'
  BY <1>27 DEF vars, background, Places, Lasting, Blob, Base, Qualified
<1> QED
  BY <1>1, <1>2, <1>3, <1>4, <1>5, <1>6, <1>7, <1>8, <1>9, <1>10, <1>11, <1>12, <1>13,
     <1>14, <1>15, <1>16, <1>17, <1>18, <1>19, <1>20, <1>21, <1>22, <1>23, <1>24, <1>25,
     <1>26, <1>27 DEF Next, Save, Prune, Recover

(***************************************************************************)
(* The fallback.                                                           *)
(***************************************************************************)

\* A published generation is good, or two newer ones are; prune deletes only such as leave two
\* newer good ones.
Fallback ==
  /\ \A g \in published : g \in Good \/ Two(g, Good)
  /\ \A g \in doomed : Two(g, Good \ doomed)

\* The pinned generation is good, and prune does not delete it.
Pinned ==
  /\ final # None => final \in Good /\ final \notin doomed
  /\ pc = "pin" => gen \in Good

\* A member of a set of generations with two newer ones has two of the newest two above it.
LEMMA TwoNewest ==
  ASSUME NEW S \in SUBSET Generations, NEW g \in S, ~ (Cardinality({h \in S : h > g}) < 2)
  PROVE  \E h, i \in S : /\ g < h /\ h < i
                         /\ Cardinality({k \in S : k > h}) < 2
                         /\ Cardinality({k \in S : k > i}) < 2
<1> DEFINE Above(x) == {k \in S : k > x}
<1>1. MaxGeneration \in Nat /\ Generations = 0..MaxGeneration
  BY BoundsOK DEF BoundsOK, Generations
<1>2. IsFiniteSet(S) /\ S \subseteq Nat
  <2>1. IsFiniteSet(0..MaxGeneration) /\ 0..MaxGeneration \subseteq Nat
    BY <1>1, FS_Interval
  <2> QED
    BY <1>1, <2>1, FS_Subset
<1>3. Above(g) # {}
  BY FS_EmptySet
<1>4. PICK i \in Above(g) : \A k \in Above(g) : k <= i
  BY <1>3, Greatest
<1>5. Above(g) \ {i} # {}
  <2>1. ASSUME Above(g) = {i} PROVE FALSE
    <3>1. Cardinality(Above(g)) = 1
      BY <2>1, FS_Singleton
    <3> QED
      BY <3>1
  <2> QED
    BY <1>4, <2>1
<1>6. PICK h \in Above(g) \ {i} : \A k \in Above(g) \ {i} : k <= h
  BY <1>5, Greatest
<1>7. g < h /\ h < i /\ h \in S /\ i \in S
  BY <1>1, <1>4, <1>6
<1>8. ASSUME NEW k \in S PROVE ~ (k > i) /\ (k > h <=> k = i)
  <2>1. k \in Nat /\ g \in Nat /\ h \in Nat /\ i \in Nat
    BY <1>2, <1>7
  <2>2. k > g => k <= i
    BY <1>4
  <2>3. k > g /\ k # i => k <= h
    BY <1>6
  <2> QED
    BY <1>7, <2>1, <2>2, <2>3
<1>9. Above(i) = {} /\ Above(h) = {i}
  BY <1>7, <1>8
<1>10. Cardinality(Above(h)) < 2 /\ Cardinality(Above(i)) < 2
  BY <1>9, FS_EmptySet, FS_Singleton
<1> QED
  BY <1>7, <1>10

\* What prune deletes leaves two newer ones that are kept, and what it keeps is good.
LEMMA PruneLeavesTwo ==
  ASSUME Typed, Places, PruneBegin
  PROVE  /\ \A g \in Doomed : Two(g, Good \ Doomed)
         /\ final \notin Doomed
<1>1. volatile = {} /\ Trusted
  BY DEF Places, PruneBegin
<1>2. ASSUME NEW g \in Keep(Dir), g \in Manifests(Dir) PROVE g \in Good \ Doomed
  <2>1. Valid(Dir, g)
    BY <1>1, <1>2 DEF Trusted
  <2>2. Dir = disk
    BY <1>1 DEF Dir, Apply
  <2>3. Firm(g)
    BY <1>1, <2>1, <2>2 DEF Valid, Firm, Lasting
  <2>4. g \in published
    BY <1>2, OnlyPublished DEF Dir, Manifests
  <2> QED
    BY <1>2, <2>3, <2>4 DEF Good, Doomed
<1>3. ASSUME NEW g \in Doomed PROVE Two(g, Good \ Doomed)
  <2>1. g \in Manifests(Dir) /\ ~ (Cardinality({h \in Manifests(Dir) : h > g}) < 2)
    BY <1>3 DEF Doomed, Keep, Newest
  <2>2. Manifests(Dir) \in SUBSET Generations
    BY DEF Manifests
  <2>3. PICK h, i \in Manifests(Dir) :
          /\ g < h /\ h < i
          /\ Cardinality({k \in Manifests(Dir) : k > h}) < 2
          /\ Cardinality({k \in Manifests(Dir) : k > i}) < 2
    BY <2>1, <2>2, TwoNewest
  <2>4. h \in Keep(Dir) /\ i \in Keep(Dir)
    BY <2>3 DEF Keep, Newest
  <2> QED
    BY <1>2, <2>3, <2>4 DEF Two
<1>4. final \notin Doomed
  <2>1. None \notin Generations
    BY BoundsOK DEF BoundsOK, Generations
  <2> QED
    BY <2>1 DEF Doomed, Keep, Manifests
<1> QED
  BY <1>3, <1>4

\* The manifest that is linked belongs to a generation whose files are all in place.
LEMMA PublishedIsGood ==
  ASSUME Typed, Places, PublishManifest, UNCHANGED kind, published' = published \cup {gen}
  PROVE  gen \in Good' /\ Marked(gen)'
<1>1. PICK g \in Generations : g = gen
  BY DEF PublishManifest, Typed, Saving, TypeOK
<1>2. Durably(Op({Manifest(g)}, {})) /\ pc = "manifest"
  BY <1>1 DEF PublishManifest
<1>3. Op({Manifest(g)}, {}).del = {}
  BY DEF Op
<1>4. Lasting(Manifest(g))'
  BY <1>2, Shown DEF Durably, Op, Lasting
<1>5. Lasting(Blob(g))'
  BY <1>1, <1>2, <1>3, LastsWrite DEF Places
<1>6. Qualified => Lasting(Base(g))'
  BY <1>1, <1>2, <1>3, LastsWrite DEF Places
<1>7. Firm(g)'
  BY <1>4, <1>5, <1>6 DEF Firm, Parts, Qualified
<1>8. gen' = gen
  BY DEF PublishManifest
<1>9. g \in Good' /\ Marked(g)'
  BY <1>1, <1>4, <1>7 DEF Good, Marked
<1> QED
  BY <1>1, <1>8, <1>9

\* A good generation that prune does not delete stays good, and a step deletes no more than
\* prune chose.
LEMMA KeepsFallback ==
  ASSUME Typed, Places, Newer, Fallback, [Next]_vars
  PROVE  Fallback'
<1>1. Good \ doomed \subseteq Good'
  BY StaysGood
<1>2. ASSUME NEW g \in doomed PROVE Two(g, Good \ doomed)
  BY DEF Fallback
<1>n. Good \subseteq Generations /\ Generations \subseteq Nat /\ published \subseteq Generations
  <2>1. published \subseteq Generations
    BY DEF Typed, TypeOK
  <2>2. Generations \subseteq Nat
    BY BoundsOK DEF BoundsOK, Generations
  <2> QED
    BY <2>1, <2>2 DEF Good
<1>3. ASSUME NEW g \in published PROVE g \in Good' \/ Two(g, Good')
  <2>1. CASE g \in Good
    BY <1>1, <1>2, <2>1 DEF Two
  <2>2. ASSUME NEW h \in Good, NEW i \in Good, g < h, h < i PROVE Two(g, Good')
    <3>1. CASE h \in doomed
      <4>1. PICK j, k \in Good \ doomed : h < j /\ j < k
        BY <1>2, <3>1 DEF Two
      <4>2. g < j
        BY <1>n, <2>2, <4>1
      <4> QED
        BY <1>1, <4>1, <4>2 DEF Two
    <3>2. CASE i \in doomed
      <4>1. PICK j, k \in Good \ doomed : i < j /\ j < k
        BY <1>2, <3>2 DEF Two
      <4>2. g < j
        BY <1>n, <2>2, <4>1
      <4> QED
        BY <1>1, <4>1, <4>2 DEF Two
    <3>3. CASE h \notin doomed /\ i \notin doomed
      BY <1>1, <2>2, <3>3 DEF Two
    <3> QED
      BY <3>1, <3>2, <3>3
  <2> QED
    BY <2>1, <2>2 DEF Fallback, Two
<1>4. ASSUME NEW g \in published' PROVE g \in Good' \/ Two(g, Good')
  <2>1. CASE g \in published
    BY <1>3, <2>1
  <2>2. CASE g \notin published
    <3>1. PublishManifest /\ UNCHANGED kind /\ published' = published \cup {gen}
      BY <2>2, <1>4, Changes DEF Onward
    <3> QED
      BY <1>4, <2>2, <3>1, PublishedIsGood
  <2> QED
    BY <2>1, <2>2
<1>5. ASSUME NEW g \in doomed' PROVE Two(g, Good' \ doomed')
  <2>1. CASE doomed' \subseteq doomed
    <3>1. PICK h, i \in Good \ doomed : g < h /\ h < i
      BY <1>2, <1>5, <2>1 DEF Two
    <3> QED
      BY <1>1, <2>1, <3>1 DEF Two
  <2>2. CASE PruneBegin
    <3>1. doomed = {} /\ doomed' = Doomed
      BY <2>2 DEF PruneBegin, Typed, Pruning
    <3>2. PICK h, i \in Good \ Doomed : g < h /\ h < i
      BY <1>5, <2>2, <3>1, PruneLeavesTwo DEF Two
    <3>3. h \in Good' /\ i \in Good'
      BY <1>1, <3>1, <3>2
    <3> QED
      BY <3>1, <3>2, <3>3 DEF Two
  <2> QED
    BY <2>1, <2>2, Changes DEF Onward
<1> QED
  BY <1>4, <1>5 DEF Fallback, Two

\* The pin is kept: it names a generation that the consumer's check has just passed.
LEMMA KeepsPinned == ASSUME Typed, Places, Newer, Pinned, [Next]_vars PROVE Pinned'
<1>1. Good \ doomed \subseteq Good'
  BY StaysGood
<1>2. ASSUME pc' = "pin" PROVE gen' \in Good'
  <2>1. CASE AdvertiseLatest
    <3>1. PICK g \in published : g = gen
      BY <2>1 DEF AdvertiseLatest, Typed, Linked
    <3>2. Valid(Dir, g) /\ disk' = Dir /\ volatile' = {} /\ UNCHANGED <<gen, kind, published>>
      BY <2>1, <3>1 DEF AdvertiseLatest, background
    <3>3. Firm(g)'
      BY <3>2 DEF Valid, Firm, Lasting, Parts, Qualified
    <3> QED
      BY <3>1, <3>2, <3>3 DEF Good
  <2>2. CASE UNCHANGED <<pc, gen>>
    <3>1. gen \in Good /\ doomed = {}
      BY <1>2, <2>2 DEF Pinned, Typed, Pruning
    <3> QED
      BY <1>1, <2>2, <3>1
  <2> QED
    BY <1>2, <2>1, <2>2, Changes DEF Onward
<1>3. ASSUME final' # None PROVE final' \in Good' /\ final' \notin doomed'
  <2>1. CASE PinFinal
    <3>1. final' = gen /\ gen \in Good /\ doomed = {} /\ doomed' = {}
      BY <2>1 DEF PinFinal, Pinned, Typed, Pruning
    <3> QED
      BY <1>1, <3>1
  <2>2. CASE UNCHANGED final
    <3>1. final \in Good'
      BY <1>1, <1>3, <2>2 DEF Pinned
    <3>2. CASE doomed' \subseteq doomed
      BY <1>3, <2>2, <3>1, <3>2 DEF Pinned
    <3>3. CASE PruneBegin
      <4>1. doomed' = Doomed
        BY <3>3 DEF PruneBegin
      <4> QED
        BY <2>2, <3>1, <3>3, <4>1, PruneLeavesTwo
    <3> QED
      BY <3>2, <3>3, Changes DEF Onward
  <2> QED
    BY <2>1, <2>2, Changes DEF Onward
<1> QED
  BY <1>2, <1>3 DEF Pinned

\* The manifests of the directory are those that last.
LEMMA ShownManifests ==
  ASSUME Typed, NEW g \in Generations
  PROVE  /\ Manifest(g) \in Dir <=> Lasting(Manifest(g))
         /\ Manifest(g) \in Dir => Manifest(g) \in disk
<1>1. ASSUME NEW op \in volatile PROVE Manifest(g) \notin op.add
  <2>1. \A h : Manifest(g) # Pending(h)
    BY DEF Manifest, Pending
  <2> QED
    BY <2>1, WaitingShapes
<1> QED
  BY <1>1, Shown DEF Dir, Lasting

\* What a step may do to the names on disk, unless it links a manifest: a sync of the
\* directory and a power loss are among the survivors.
Rewriting ==
  \/ UNCHANGED disk \/ disk' \in Survivors
  \/ \E op : Durably(op) /\ \A g \in Generations : Manifest(g) \notin op.add
  \/ PublishManifest

\* A sync of the directory is one of the outcomes of a power loss.
LEMMA SyncSurvives == Dir \in Survivors
BY DEF Dir, Survivors

\* No other step adds a manifest.
LEMMA Rewrites == ASSUME [Next]_vars PROVE Rewriting
<1>1. ASSUME Begin PROVE Rewriting
  BY <1>1 DEF Begin, background, Rewriting
<1>2. ASSUME QuotaExhausted PROVE Rewriting
  BY <1>2 DEF QuotaExhausted, Raise, background, Rewriting
<1>3. ASSUME WriteBlob PROVE Rewriting
  BY <1>3 DEF WriteBlob, Lazily, Rewriting
<1>4. ASSUME PublishBlob PROVE Rewriting
  <2>1. PICK op : op = Op({Blob(gen)}, {Pending(gen)})
    OBVIOUS
  <2>2. Durably(op)
    BY <1>4, <2>1 DEF PublishBlob
  <2>3. \A g \in Generations : Manifest(g) \notin op.add
    BY <2>1 DEF Op, Manifest, Blob, Base
  <2> QED
    BY <2>2, <2>3 DEF Rewriting
<1>5. ASSUME PublishBase PROVE Rewriting
  <2>1. PICK op : op = Op({Base(gen)}, {})
    OBVIOUS
  <2>2. Durably(op)
    BY <1>5, <2>1 DEF PublishBase
  <2>3. \A g \in Generations : Manifest(g) \notin op.add
    BY <2>1 DEF Op, Manifest, Blob, Base
  <2> QED
    BY <2>2, <2>3 DEF Rewriting
<1>6. ASSUME PublishManifest PROVE Rewriting
  BY <1>6 DEF Rewriting
<1>7. ASSUME AdvertiseLatest PROVE Rewriting
  BY <1>7, SyncSurvives DEF AdvertiseLatest, Rewriting
<1>8. ASSUME CheckFails PROVE Rewriting
  BY <1>8 DEF CheckFails, Raise, background, Rewriting
<1>9. ASSUME PinFinal PROVE Rewriting
  BY <1>9 DEF PinFinal, background, Rewriting
<1>10. ASSUME PruneBegin PROVE Rewriting
  BY <1>10 DEF PruneBegin, background, Rewriting
<1>11. ASSUME PruneRefused PROVE Rewriting
  BY <1>11 DEF PruneRefused, Raise, background, Rewriting
<1>12. ASSUME UnlinkBlob PROVE Rewriting
  BY <1>12 DEF UnlinkBlob, UnlinkPart, Lazily, Rewriting
<1>13. ASSUME UnlinkBase PROVE Rewriting
  BY <1>13 DEF UnlinkBase, UnlinkPart, Lazily, Rewriting
<1>14. ASSUME UnlinkMissing PROVE Rewriting
  BY <1>14 DEF UnlinkMissing, Raise, background, Rewriting
<1>15. ASSUME UnlinkManifest PROVE Rewriting
  BY <1>15 DEF UnlinkManifest, Lazily, Rewriting
<1>16. ASSUME SaveReturns PROVE Rewriting
  BY <1>16, SyncSurvives DEF SaveReturns, Rewriting
<1>17. ASSUME QuarantinePending PROVE Rewriting
  <2>1. PICK file : Durably(Op({}, {file}))
    BY <1>17 DEF QuarantinePending, Quarantine
  <2>2. Op({}, {file}).add = {}
    BY DEF Op
  <2> QED
    BY <2>1, <2>2 DEF Rewriting
<1>18. ASSUME QuarantineOrphan PROVE Rewriting
  <2>1. PICK file : Durably(Op({}, {file}))
    BY <1>18 DEF QuarantineOrphan, Quarantine
  <2>2. Op({}, {file}).add = {}
    BY DEF Op
  <2> QED
    BY <2>1, <2>2 DEF Rewriting
<1>19. ASSUME RejectBlob PROVE Rewriting
  <2>1. PICK file : Durably(Op({}, {file}))
    BY <1>19 DEF RejectBlob, Quarantine
  <2>2. Op({}, {file}).add = {}
    BY DEF Op
  <2> QED
    BY <2>1, <2>2 DEF Rewriting
<1>20. ASSUME RejectBase PROVE Rewriting
  <2>1. PICK file : Durably(Op({}, {file}))
    BY <1>20 DEF RejectBase, Quarantine
  <2>2. Op({}, {file}).add = {}
    BY DEF Op
  <2> QED
    BY <2>1, <2>2 DEF Rewriting
<1>21. ASSUME RejectManifest PROVE Rewriting
  <2>1. PICK file : Durably(Op({}, {file}))
    BY <1>21 DEF RejectManifest, Quarantine
  <2>2. Op({}, {file}).add = {}
    BY DEF Op
  <2> QED
    BY <2>1, <2>2 DEF Rewriting
<1>22. ASSUME Select PROVE Rewriting
  BY <1>22, SyncSurvives DEF Select, Rewriting
<1>23. ASSUME NothingLeft PROVE Rewriting
  BY <1>23 DEF NothingLeft, background, Rewriting
<1>24. ASSUME Kill PROVE Rewriting
  BY <1>24 DEF Kill, Stop, background, Rewriting
<1>25. ASSUME PowerLoss PROVE Rewriting
  BY <1>25 DEF PowerLoss, Stop, background, Rewriting
<1>26. ASSUME Damage PROVE Rewriting
  BY <1>26 DEF Damage, background, Rewriting
<1>27. ASSUME UNCHANGED vars PROVE Rewriting
  BY <1>27 DEF vars, background, Rewriting
<1> QED
  BY <1>1, <1>2, <1>3, <1>4, <1>5, <1>6, <1>7, <1>8, <1>9, <1>10, <1>11, <1>12, <1>13,
     <1>14, <1>15, <1>16, <1>17, <1>18, <1>19, <1>20, <1>21, <1>22, <1>23, <1>24, <1>25,
     <1>26, <1>27 DEF Next, Save, Prune, Recover

\* So the manifests on disk after a step were there before it, unless it linked one.
LEMMA ManifestsOnDisk ==
  ASSUME Typed, [Next]_vars, ~PublishManifest, NEW g \in Generations, Manifest(g) \in disk'
  PROVE  Manifest(g) \in disk
<1>1. ASSUME NEW ops \in SUBSET volatile, Manifest(g) \in Apply(disk, ops)
      PROVE  Manifest(g) \in disk
  <2>1. ASSUME NEW op \in ops PROVE Manifest(g) \notin op.add
    <3>1. \A h : Manifest(g) # Pending(h)
      BY DEF Manifest, Pending
    <3> QED
      BY <3>1, WaitingShapes
  <2> QED
    BY <1>1, <2>1, Shown
<1>2. CASE disk' \in Survivors
  BY <1>1, <1>2 DEF Survivors
<1>3. ASSUME NEW op, Durably(op), Manifest(g) \notin op.add PROVE Manifest(g) \in disk
  <2>1. disk' = Apply(Dir, {op})
    BY <1>3 DEF Durably, Dir
  <2>2. Manifest(g) \in Dir
    BY <1>3, <2>1, Shown
  <2> QED
    BY <1>1, <2>2 DEF Dir
<1> QED
  BY <1>2, <1>3, Rewrites DEF Rewriting

\* Numbers are natural, and a published generation keeps its own.
LEMMA KeepsNumber ==
  ASSUME Typed, [Next]_vars
  PROVE  /\ \A g \in Generations : g \in Nat /\ number[g] \in Nat /\ number'[g] \in Nat
         /\ \A g \in published : g \in Generations /\ number'[g] = number[g]
         /\ ~Begin => number' = number
<1>1. number \in [Generations -> Generations] /\ published \subseteq Generations
  BY DEF Typed, TypeOK
<1>2. Generations \subseteq Nat
  BY BoundsOK DEF BoundsOK, Generations
<1>3. number' \in [Generations -> Generations]
  BY KeepsCells DEF Cells
<1>4. UNCHANGED number \/ Begin
  BY Moves DEF Moving
<1>5. ASSUME Begin, NEW g \in published PROVE number'[g] = number[g]
  <2>1. PICK n \in Generations : /\ n = Later(published \cup Used)
                                 /\ number' = [number EXCEPT ![n] = NextGeneration]
    BY <1>5 DEF Begin
  <2>2. g < n
    BY <2>1, NextNumber
  <2>3. g # n
    BY <1>1, <1>2, <2>1, <2>2
  <2> QED
    BY <1>1, <2>1, <2>3
<1> QED
  BY <1>1, <1>2, <1>3, <1>4, <1>5

\* A save comes after every published one.
LEMMA KeepsNewer == ASSUME Typed, Newer, [Next]_vars PROVE Newer'
<1> SUFFICES ASSUME pc' \in Numbering PROVE \A g \in published' : g < gen'
  BY DEF Newer
<1>1. UNCHANGED published
  <2>1. ~PublishManifest
    BY DEF PublishManifest, Numbering
  <2> QED
    BY <2>1, Changes DEF Onward
<1>2. CASE Begin
  <2>1. gen' = Later(published \cup Used)
    BY <1>2 DEF Begin
  <2> QED
    BY <1>1, <2>1, NextNumber
<1>3. CASE pc \in Numbering /\ UNCHANGED gen
  BY <1>1, <1>3 DEF Newer
<1> QED
  BY <1>2, <1>3, Changes DEF Onward

\* Before the manifest of a save is linked, no manifest is added to the directory.
LEMMA NoManifestShown ==
  ASSUME Typed, [Next]_vars, pc' \in Numbering, NEW g \in Generations, Manifest(g) \in Dir'
  PROVE  Manifest(g) \in Dir
<1>1. ASSUME NEW op, Durably(op), Manifest(g) \notin op.add PROVE Manifest(g) \in Dir
  <2>1. disk' = Apply(Dir, {op}) /\ volatile' = {}
    BY <1>1 DEF Durably, Dir
  <2>2. Dir' = disk'
    BY <2>1 DEF Dir, Apply
  <2> QED
    BY <1>1, <2>1, <2>2, Shown
<1>2. CASE Begin
  BY <1>2 DEF Begin, Dir
<1>3. CASE UNCHANGED <<disk, volatile>>
  BY <1>3 DEF Dir
<1>4. CASE WriteBlob
  <2>1. PICK op : op = Op({Pending(gen)}, {})
    OBVIOUS
  <2>2. disk' = disk /\ volatile' = volatile \cup {op}
    BY <1>4, <2>1 DEF WriteBlob, Lazily
  <2>3. Manifest(g) \notin op.add
    BY <2>1 DEF Op, Manifest, Pending
  <2>4. Manifest(g) \in Apply(disk, volatile \cup {op})
    BY <2>2 DEF Dir
  <2> QED
    BY <2>3, <2>4, Shown DEF Dir
<1>5. CASE PublishBlob
  <2>1. PICK op : op = Op({Blob(gen)}, {Pending(gen)})
    OBVIOUS
  <2> QED
    BY <1>1, <1>5, <2>1 DEF PublishBlob, Op, Manifest, Blob
<1>6. CASE PublishBase
  <2>1. PICK op : op = Op({Base(gen)}, {})
    OBVIOUS
  <2> QED
    BY <1>1, <1>6, <2>1 DEF PublishBase, Op, Manifest, Base
<1> QED
  BY <1>2, <1>3, <1>4, <1>5, <1>6, Changes DEF Onward

\* The manifests stay numbered in the order of their saves.
LEMMA KeepsOrder == ASSUME Typed, Newer, Order, [Next]_vars PROVE Order'
<1>n. /\ \A g \in Generations : g \in Nat /\ number[g] \in Nat /\ number'[g] \in Nat
      /\ \A g \in published : g \in Generations /\ number'[g] = number[g]
      /\ ~Begin => number' = number
  BY KeepsNumber
<1>d. \A g \in Manifests(Dir) : g \in Generations /\ g \in published /\ g \in Manifests(disk)
  BY OnlyPublished, ShownManifests DEF Dir, Manifests
<1>p. \A g \in Manifests(disk) : g \in Generations /\ g \in published
  BY DEF Manifests, Typed
<1>1. ASSUME NEW g \in Manifests(disk'), NEW h \in Manifests(disk'), g < h
      PROVE  number'[g] < number'[h]
  <2>1. CASE PublishManifest
    <3>1. PICK k \in Generations : k = gen
      BY <2>1 DEF PublishManifest, Typed, TypeOK, Saving
    <3>2. disk' = Apply(Dir, {Op({Manifest(k)}, {})})
      BY <2>1, <3>1 DEF PublishManifest, Durably, Dir
    <3>3. \A i \in Manifests(disk') : i = k \/ i \in Manifests(Dir)
      <4>1. ASSUME NEW i \in Generations, Manifest(i) \in disk' PROVE i = k \/ Manifest(i) \in Dir
        <5>1. \/ Manifest(i) \in Dir
              \/ \E op \in {Op({Manifest(k)}, {})} : Manifest(i) \in op.add
          <6>1. Manifest(i) \in Apply(Dir, {Op({Manifest(k)}, {})})
            BY <3>2, <4>1
          <6> QED
            BY <6>1 DEF Apply
        <5> QED
          BY <5>1 DEF Op, Manifest
      <4> QED
        BY <4>1 DEF Manifests
    <3>4. \A i \in Manifests(Dir) : i < k /\ number[i] < number[k]
      BY <1>d, <2>1, <3>1 DEF PublishManifest, Numbering, Newer, Order
    <3>5. number' = number /\ h \in Generations /\ g \in Generations
      BY <1>n, <2>1 DEF PublishManifest, Begin, Manifests
    <3>6. CASE h = k
      <4>1. g # k
        BY <1>1, <1>n, <3>5, <3>6
      <4> QED
        BY <3>3, <3>4, <3>5, <3>6, <4>1
    <3>7. CASE h # k
      <4>1. h \in Manifests(Dir) /\ h < k
        BY <3>3, <3>4, <3>7
      <4>2. g # k
        BY <1>1, <1>n, <3>1, <3>5, <4>1
      <4>3. g \in Manifests(disk) /\ h \in Manifests(disk)
        BY <1>d, <3>3, <4>1, <4>2
      <4> QED
        BY <1>1, <3>5, <4>3 DEF Order, NumbersInOrder
    <3> QED
      BY <3>6, <3>7
  <2>2. CASE ~PublishManifest
    <3>1. g \in Manifests(disk) /\ h \in Manifests(disk)
      BY <2>2, ManifestsOnDisk DEF Manifests
    <3>2. number[g] < number[h]
      BY <1>1, <3>1 DEF Order, NumbersInOrder
    <3> QED
      BY <1>n, <1>p, <3>1, <3>2
  <2> QED
    BY <2>1, <2>2
<1>2. ASSUME pc' \in Numbering, NEW g \in Manifests(Dir') PROVE number'[g] < number'[gen']
  <2>1. g \in Manifests(Dir)
    BY <1>2, NoManifestShown DEF Manifests
  <2>2. CASE Begin
    <3>1. PICK n \in Generations : /\ gen' = n /\ n = Later(published \cup Used)
                                   /\ number' = [number EXCEPT ![n] = NextGeneration]
      BY <2>2 DEF Begin
    <3>2. g \in Used
      BY <2>1 DEF Used, Named, Manifests
    <3>3. number[g] < NextGeneration
      BY <3>2, NextNumber
    <3>4. number'[n] = NextGeneration
      BY <3>1 DEF Typed, TypeOK
    <3> QED
      BY <1>n, <1>d, <2>1, <3>1, <3>3, <3>4
  <2>3. CASE pc \in Numbering /\ UNCHANGED gen
    <3>1. number' = number
      BY <1>n, <2>3 DEF Begin, Numbering
    <3> QED
      BY <2>1, <2>3, <3>1 DEF Order
  <2> QED
    BY <1>2, <2>2, <2>3, Changes DEF Onward
<1> QED
  BY <1>1, <1>2 DEF Order, NumbersInOrder

\* While prune deletes, a manifest that it spares stays.
LEMMA SparedLasts ==
  ASSUME Typed, [Next]_vars, doomed # {}, NEW h \in published \ doomed, Lasting(Manifest(h))
  PROVE  Lasting(Manifest(h))'
<1>1. /\ \A g : Manifest(h) # Pending(g) /\ Manifest(h) # Blob(g) /\ Manifest(h) # Base(g)
      /\ \A g : Manifest(h) = Manifest(g) => g = h
  BY DEF Pending, Blob, Base, Manifest
<1>2. Max(doomed) # h
  BY Greatest DEF Typed, TypeOK
<1>3. pc # "down"
  BY DEF Typed, Pruning
<1>4. ~Lost(Manifest(h))
  BY <1>1, <1>2, <1>3 DEF Lost
<1> QED
  BY <1>4, Losses

\* Prune leaves a newer manifest.
LEMMA KeepsDeleted == ASSUME Typed, Places, Deleted, [Next]_vars PROVE Deleted'
<1> SUFFICES ASSUME NEW g \in doomed'
             PROVE  \E h \in published' \ doomed' : h > g /\ Lasting(Manifest(h))'
  BY DEF Deleted
<1>1. published \subseteq published'
  BY Moves DEF Moving
<1>2. CASE doomed' \subseteq doomed
  <2>1. PICK h \in published \ doomed : h > g /\ Lasting(Manifest(h))
    BY <1>2 DEF Deleted
  <2>2. Lasting(Manifest(h))'
    BY <1>2, <2>1, SparedLasts
  <2> QED
    BY <1>1, <1>2, <2>1, <2>2
<1>3. CASE PruneBegin
  <2>1. doomed' = Doomed /\ volatile = {} /\ volatile' = {} /\ disk' = disk
    BY <1>3 DEF PruneBegin, Places
  <2>2. g \in Manifests(Dir) /\ ~ (Cardinality({k \in Manifests(Dir) : k > g}) < 2)
    BY <2>1 DEF Doomed, Keep, Newest
  <2>3. Manifests(Dir) \in SUBSET Generations
    BY DEF Manifests
  <2>4. PICK h \in Manifests(Dir) : g < h /\ Cardinality({k \in Manifests(Dir) : k > h}) < 2
    BY <2>2, <2>3, TwoNewest
  <2>5. h \in Generations /\ g \in Generations /\ Manifest(h) \in Dir /\ h \notin Doomed
    BY <2>2, <2>3, <2>4 DEF Keep, Newest, Doomed, Manifests
  <2>6. h \in published /\ h > g
    <3>1. h \in Nat /\ g \in Nat
      BY <2>5, BoundsOK DEF BoundsOK, Generations
    <3> QED
      BY <2>4, <2>5, <3>1, OnlyPublished DEF Dir
  <2>7. Lasting(Manifest(h))'
    BY <2>1, <2>5, ShownManifests DEF Lasting, Manifest
  <2> QED
    BY <1>1, <2>1, <2>5, <2>6, <2>7
<1> QED
  BY <1>2, <1>3, Changes DEF Onward

\* A manifest goes to quarantine or stays, or prune leaves a newer one with a higher number;
\* one that a power loss takes from quarantine is among the forgotten.
LEMMA KeepsCovered ==
  ASSUME Typed, Places, Order, Deleted, Covered, [Next]_vars
  PROVE  Covered'
<1> SUFFICES ASSUME NEW g \in published'
             PROVE  \E h \in published' : h >= g /\ number'[h] >= number'[g] /\ Marked(h)'
  BY DEF Covered
<1>n. /\ \A k \in Generations : k \in Nat /\ number[k] \in Nat /\ number'[k] \in Nat
      /\ \A k \in published : k \in Generations /\ number'[k] = number[k]
  BY KeepsNumber
<1>m. Moving /\ published \subseteq published'
  BY Moves DEF Moving
<1>1. CASE g \in published
  <2>1. PICK h \in published : h >= g /\ number[h] >= number[g] /\ Marked(h)
    BY <1>1 DEF Covered
  <2>2. ASSUME h \in forgotten \/ Manifest(h) \in jail PROVE Marked(h)'
    <3>1. CASE UNCHANGED cells
      BY <2>2, <3>1 DEF cells, Marked, Manifest
    <3>2. CASE PowerLoss
      <4>1. PICK gone \in SUBSET loose :
              /\ jail' = jail \ gone
              /\ forgotten' = forgotten \cup {k \in Generations : Manifest(k) \in gone}
        BY <3>2 DEF PowerLoss
      <4>2. h \in forgotten' \/ Manifest(h) \in jail'
        BY <1>n, <2>1, <2>2, <4>1
      <4> QED
        BY <4>2 DEF Marked, Manifest
    <3>3. CASE \E file \in Dir : Jailed(file) /\ UNCHANGED forgotten
      <4>1. h \in forgotten' \/ Manifest(h) \in jail'
        BY <2>2, <3>3 DEF Jailed
      <4> QED
        BY <4>1 DEF Marked, Manifest
    <3> QED
      BY <1>m, <3>1, <3>2, <3>3 DEF Moving
  <2>3. CASE Marked(h)'
    BY <1>1, <1>m, <1>n, <2>1, <2>3
  <2>4. CASE Lasting(Manifest(h)) /\ ~Marked(h)'
    <3>1. /\ \A k : Manifest(h) # Pending(k) /\ Manifest(h) # Blob(k) /\ Manifest(h) # Base(k)
          /\ \A k : Manifest(h) = Manifest(k) => k = h
      BY DEF Pending, Blob, Base, Manifest
    <3>2. Lost(Manifest(h)) /\ Manifest(h) \notin jail'
      BY <2>4, Losses DEF Marked, Manifest
    <3>3. doomed # {} /\ h = Max(doomed)
      BY <3>1, <3>2 DEF Lost
    <3>4. h \in doomed
      BY <3>3, Greatest DEF Typed, TypeOK
    <3>5. PICK i \in published \ doomed : i > h /\ Lasting(Manifest(i))
      BY <3>4 DEF Deleted
    <3>6. number[h] < number[i]
      <4>1. h \in Manifests(disk) /\ i \in Manifests(disk)
        BY <1>n, <2>1, <2>4, <3>5 DEF Lasting, Manifests
      <4>2. h < i
        BY <1>n, <2>1, <3>5
      <4> QED
        BY <4>1, <4>2 DEF Order, NumbersInOrder
    <3>7. Marked(i)'
      BY <3>4, <3>5, SparedLasts DEF Marked
    <3>8. i >= g /\ number'[i] >= number'[g]
      BY <1>1, <1>n, <2>1, <3>5, <3>6
    <3> QED
      BY <1>m, <3>5, <3>7, <3>8
  <2> QED
    BY <2>1, <2>2, <2>3, <2>4 DEF Marked
<1>2. CASE g \notin published
  <2>1. PublishManifest /\ UNCHANGED kind /\ published' = published \cup {gen} /\ g = gen
    BY <1>2, Changes DEF Onward
  <2>2. Marked(gen)' /\ gen' = gen
    BY <2>1, PublishedIsGood DEF PublishManifest
  <2>3. g \in Generations
    BY KeepsTyped DEF Typed, TypeOK
  <2>4. g >= g /\ number'[g] >= number'[g]
    BY <1>n, <2>3
  <2>5. Marked(g)'
    BY <2>1, <2>2
  <2> QED
    BY <2>4, <2>5
<1> QED
  BY <1>1, <1>2

\* A number that is given again was taken from quarantine by a power loss.
LEMMA KeepsExcused == ASSUME Typed, Covered, Excused, [Next]_vars PROVE Excused'
<1> SUFFICES ASSUME pc' \in Numbering, NEW g \in published'
             PROVE  \/ number'[g] < number'[gen']
                    \/ \E h \in forgotten' : h >= g /\ number'[h] >= number'[gen']
  BY DEF Excused
<1>n. /\ \A k \in Generations : k \in Nat /\ number[k] \in Nat /\ number'[k] \in Nat
      /\ \A k \in published : k \in Generations /\ number'[k] = number[k]
      /\ ~Begin => number' = number
  BY KeepsNumber
<1>1. UNCHANGED published
  <2>1. ~PublishManifest
    BY DEF PublishManifest, Numbering
  <2> QED
    BY <2>1, Changes DEF Onward
<1>2. forgotten \subseteq forgotten' /\ forgotten \subseteq published
  <2>1. forgotten \subseteq published
    BY DEF Typed, TypeOK
  <2> QED
    BY <2>1, Moves DEF Moving, PowerLoss, cells
<1>3. CASE Begin
  <2>1. PICK n \in Generations : /\ gen' = n
                                 /\ number' = [number EXCEPT ![n] = NextGeneration]
    BY <1>3 DEF Begin
  <2>2. number'[n] = NextGeneration
    BY <2>1 DEF Typed, TypeOK
  <2>3. NextGeneration \in Nat /\ \A k \in Used : number[k] < NextGeneration
    BY NextNumber
  <2>4. PICK h \in published : h >= g /\ number[h] >= number[g] /\ Marked(h)
    BY <1>1 DEF Covered
  <2>5. CASE Lasting(Manifest(h)) \/ Manifest(h) \in jail
    <3>1. h \in Used
      BY <1>n, <2>4, <2>5, ShownManifests DEF Used, Named
    <3>2. number[h] < NextGeneration
      BY <2>3, <3>1
    <3> QED
      BY <1>1, <1>n, <2>1, <2>2, <2>3, <2>4, <3>2
  <2>6. CASE h \in forgotten
    <3>1. number[g] < NextGeneration \/ number[h] >= NextGeneration
      BY <1>1, <1>n, <2>3, <2>4
    <3> QED
      BY <1>1, <1>2, <1>n, <2>1, <2>2, <2>4, <2>6, <3>1
  <2> QED
    BY <2>4, <2>5, <2>6 DEF Marked
<1>4. CASE pc \in Numbering /\ UNCHANGED gen
  <2>1. number' = number
    BY <1>4, <1>n DEF Begin, Numbering
  <2> QED
    BY <1>1, <1>2, <1>4, <2>1 DEF Excused
<1> QED
  BY <1>3, <1>4, Changes DEF Onward

(***************************************************************************)
(* The inductive invariant, and what follows from it.                      *)
(***************************************************************************)
Numbers == Newer /\ Order /\ Covered /\ Excused

IInv == Typed /\ Places /\ Numbers /\ Fallback /\ Deleted /\ Pinned

\* The files a save put in place last, and every published generation is there for good, damaged
\* by the storage, or has two newer such ones.  Manifests are numbered in the order of their
\* saves, and every published number is covered by a manifest in the root or in quarantine, or
\* by one that a power loss took from quarantine.  (save, prune, recover, next_generation,
\* _quarantine and their qualified counterparts)
THEOREM FallbackInvariance == Spec => []IInv
<1>1. Init => IInv
  <2> SUFFICES ASSUME Init PROVE IInv
    OBVIOUS
  <2>1. Typed
    BY TypedAtFirst
  <2>2. Places /\ Newer /\ Covered /\ Excused /\ Fallback /\ Deleted /\ Pinned
    BY DEF Init, Places, Newer, Covered, Excused, Numbering, Fallback, Deleted, Pinned
  <2>3. Order
    BY DEF Init, Order, NumbersInOrder, Manifests, Numbering
  <2> QED
    BY <2>1, <2>2, <2>3 DEF IInv, Numbers
<1>2. IInv /\ [Next]_vars => IInv'
  <2> SUFFICES ASSUME IInv, [Next]_vars PROVE IInv'
    OBVIOUS
  <2>1. /\ Typed /\ Places /\ Fallback /\ Deleted /\ Pinned
        /\ Newer /\ Order /\ Covered /\ Excused
    BY DEF IInv, Numbers
  <2>2. Typed' /\ Places'
    BY <2>1, KeepsTyped, KeepsPlaces
  <2>3. Newer' /\ Order' /\ Covered' /\ Excused'
    BY <2>1, KeepsNewer, KeepsOrder, KeepsCovered, KeepsExcused
  <2>4. Fallback' /\ Deleted' /\ Pinned'
    BY <2>1, KeepsFallback, KeepsDeleted, KeepsPinned
  <2> QED
    BY <2>2, <2>3, <2>4 DEF IInv, Numbers
<1> QED
  BY <1>1, <1>2, PTL DEF Spec

\* A good generation is complete after every crash, unless the storage damaged it.
LEMMA GoodIsComplete ==
  ASSUME Typed, NEW names \in Survivors
  PROVE  Good \ damaged \subseteq Complete(names)
<1>1. PICK kept \in SUBSET volatile : names = Apply(disk, kept)
  BY DEF Survivors
<1>2. published \subseteq Generations
  BY DEF Typed, TypeOK
<1>3. ASSUME NEW g \in Good \ damaged PROVE g \in Complete(names)
  <2>1. g \in Generations /\ Firm(g)
    BY <1>2, <1>3 DEF Good
  <2>2. Parts(g) \subseteq names
    BY <1>1, <2>1, FirmShown
  <2> QED
    BY <1>3, <2>1, <2>2 DEF Complete, Valid
<1> QED
  BY <1>3

\* The good generations are complete or damaged, and two or all published ones are good.
LEMMA FallbackFollows == ASSUME IInv PROVE FallbackKept
<1> SUFFICES ASSUME NEW names \in Survivors
             PROVE  Cardinality(Complete(names)) + Cardinality(damaged)
                      >= IF Cardinality(acked) < 2 THEN Cardinality(acked) ELSE 2
  BY DEF FallbackKept
<1> DEFINE C == Complete(names)
<1>1. /\ acked \subseteq published /\ published \subseteq Generations
      /\ damaged \subseteq Generations /\ C \subseteq Generations
  BY DEF IInv, Typed, TypeOK, Complete
<1>2. Good \subseteq C \cup damaged
  BY GoodIsComplete DEF IInv
<1> HIDE DEF C
<1>3. IsFiniteSet(Generations)
  BY BoundsOK, FS_Interval DEF BoundsOK, Generations
<1>4. IsFiniteSet(C) /\ IsFiniteSet(damaged) /\ IsFiniteSet(acked)
  <2>1. acked \subseteq Generations
    BY <1>1
  <2> QED
    BY <1>1, <1>3, <2>1, FS_Subset
<1>5. /\ IsFiniteSet(C \cup damaged)
      /\ Cardinality(C \cup damaged) <= Cardinality(C) + Cardinality(damaged)
      /\ Cardinality(C) \in Nat /\ Cardinality(damaged) \in Nat
      /\ Cardinality(C \cup damaged) \in Nat /\ Cardinality(acked) \in Nat
  <2>1. /\ Cardinality(C) \in Nat /\ Cardinality(damaged) \in Nat /\ Cardinality(acked) \in Nat
    BY <1>4, FS_CardinalityType
  <2>2. IsFiniteSet(C \cap damaged)
    BY <1>4, FS_Subset
  <2>3. Cardinality(C \cap damaged) \in Nat
    BY <2>2, FS_CardinalityType
  <2>4. /\ IsFiniteSet(C \cup damaged)
        /\ Cardinality(C \cup damaged)
             = Cardinality(C) + Cardinality(damaged) - Cardinality(C \cap damaged)
    BY <1>4, FS_Union
  <2>5. Cardinality(C \cup damaged) \in Nat
    BY <2>4, FS_CardinalityType
  <2> QED
    BY <2>1, <2>3, <2>4, <2>5
<1>6. CASE published \subseteq Good
  <2>1. Cardinality(acked) <= Cardinality(C \cup damaged)
    <3>1. acked \subseteq C \cup damaged
      BY <1>1, <1>2, <1>6
    <3> QED
      BY <1>5, <3>1, FS_Subset
  <2> QED
    BY <1>5, <2>1 DEF C
<1>7. CASE ~ (published \subseteq Good)
  <2>1. PICK g \in published : g \notin Good
    BY <1>7
  <2>2. PICK h, i \in Good : g < h /\ h < i
    BY <2>1 DEF IInv, Fallback, Two
  <2>3. h # i
    <3>1. h \in Nat /\ i \in Nat
      BY <1>1, BoundsOK DEF Good, BoundsOK, Generations
    <3> QED
      BY <2>2, <3>1
  <2>4. Cardinality({h, i}) = 2
    <3>1. IsFiniteSet({h}) /\ Cardinality({h}) = 1
      BY FS_Singleton
    <3>2. {h} \cup {i} = {h, i}
      OBVIOUS
    <3> QED
      BY <2>3, <3>1, <3>2, FS_AddElement
  <2>5. Cardinality({h, i}) <= Cardinality(C \cup damaged)
    <3>1. {h, i} \subseteq C \cup damaged
      BY <1>2, <2>2
    <3> QED
      BY <1>5, <3>1, FS_Subset
  <2> QED
    BY <1>5, <2>4, <2>5 DEF C
<1> QED
  BY <1>6, <1>7

\* The pin is good.
LEMMA PinFollows == ASSUME IInv PROVE PinSurvives
<1> SUFFICES ASSUME final # None, final \notin damaged, NEW names \in Survivors
             PROVE  Valid(names, final)
  BY DEF PinSurvives
<1>1. final \in Good \ damaged /\ Typed
  BY DEF IInv, Pinned
<1>2. final \in Complete(names)
  BY <1>1, GoodIsComplete
<1> QED
  BY <1>2 DEF Complete

\* After any number of saves, kills, power losses and damaged blobs, what a crash would leave
\* holds two generations that load, less the damaged ones, and the pinned one, and the highest
\* number is that of the newest save.  (prune, prune_learning, _quarantine)
THEOREM SafeHolds == Spec => []Safe
<1>1. IInv => Safe
  BY FallbackFollows, PinFollows DEF Safe, IInv, Numbers, Order, Typed
<1> QED
  BY <1>1, FallbackInvariance, PTL

\* A number is published again only if a power loss took from quarantine the manifest of the
\* checkpoint that had it, or of a newer one with no lower number.  (next_generation, save,
\* save_learning, _quarantine)
THEOREM GenerationsFreshHolds == Spec => GenerationsFresh
<1> DEFINE Reused(g) == \E h \in forgotten : h >= g /\ number[h] >= number[gen]
<1>1. IInv /\ [Next]_vars
        => [PublishManifest =>
              \A g \in published : number[g] = number[gen] =>
                \E h \in forgotten : h >= g /\ number[h] >= number[gen]]_vars
  <2> SUFFICES ASSUME IInv, PublishManifest, NEW g \in published, number[g] = number[gen]
               PROVE  Reused(g)
    OBVIOUS
  <2>1. number[g] < number[gen] \/ Reused(g)
    BY DEF IInv, Numbers, Excused, PublishManifest, Numbering
  <2>2. number[g] \in Nat
    <3>1. number[g] \in Generations
      BY DEF IInv, Typed, TypeOK
    <3> QED
      BY <3>1, BoundsOK DEF BoundsOK, Generations
  <2>3. ~ (number[g] < number[gen])
    BY <2>2
  <2> QED
    BY <2>1, <2>3
<1> QED
  BY <1>1, FallbackInvariance, PTL DEF Spec, GenerationsFresh

\* recover() never goes back behind an undamaged generation whose save() returned, unless the
\* storage damaged two newer ones.  (recover, recover_learning)
THEOREM NoRollbackHolds == Spec => NoRollback
<1> DEFINE Forth == pc = "down" /\ pc' = "up" =>
                      \A g \in acked \ damaged :
                        resumed' >= g \/ \E h, i \in damaged : g < h /\ h < i
<1>1. ASSUME IInv, [Next]_vars PROVE Forth
  <2> SUFFICES ASSUME pc = "down", pc' = "up", NEW g \in acked \ damaged
               PROVE  resumed' >= g \/ \E h, i \in damaged : g < h /\ h < i
    OBVIOUS
  <2>1. Select
    <3>1. ASSUME Begin PROVE Select
      BY <3>1 DEF Begin, background
    <3>2. ASSUME QuotaExhausted PROVE Select
      BY <3>2 DEF QuotaExhausted, Raise, background
    <3>3. ASSUME WriteBlob PROVE Select
      BY <3>3 DEF WriteBlob, background
    <3>4. ASSUME PublishBlob PROVE Select
      BY <3>4 DEF PublishBlob, background
    <3>5. ASSUME PublishBase PROVE Select
      BY <3>5 DEF PublishBase, background
    <3>6. ASSUME PublishManifest PROVE Select
      BY <3>6 DEF PublishManifest, background
    <3>7. ASSUME AdvertiseLatest PROVE Select
      BY <3>7 DEF AdvertiseLatest, background
    <3>8. ASSUME CheckFails PROVE Select
      BY <3>8 DEF CheckFails, Raise, background
    <3>9. ASSUME PinFinal PROVE Select
      BY <3>9 DEF PinFinal, background
    <3>10. ASSUME PruneBegin PROVE Select
      BY <3>10 DEF PruneBegin, background
    <3>11. ASSUME PruneRefused PROVE Select
      BY <3>11 DEF PruneRefused, Raise, background
    <3>12. ASSUME UnlinkBlob PROVE Select
      BY <3>12 DEF UnlinkBlob, UnlinkPart, background
    <3>13. ASSUME UnlinkBase PROVE Select
      BY <3>13 DEF UnlinkBase, UnlinkPart, background
    <3>14. ASSUME UnlinkMissing PROVE Select
      BY <3>14 DEF UnlinkMissing, Raise, background
    <3>15. ASSUME UnlinkManifest PROVE Select
      BY <3>15 DEF UnlinkManifest, background
    <3>16. ASSUME SaveReturns PROVE Select
      BY <3>16 DEF SaveReturns, background
    <3>17. ASSUME QuarantinePending PROVE Select
      BY <3>17 DEF QuarantinePending, recovering, background
    <3>18. ASSUME QuarantineOrphan PROVE Select
      BY <3>18 DEF QuarantineOrphan, recovering, background
    <3>19. ASSUME RejectBlob PROVE Select
      BY <3>19 DEF RejectBlob, recovering, background
    <3>20. ASSUME RejectBase PROVE Select
      BY <3>20 DEF RejectBase, recovering, background
    <3>21. ASSUME RejectManifest PROVE Select
      BY <3>21 DEF RejectManifest, recovering, background
    <3>22. ASSUME Select PROVE Select
      BY <3>22 DEF Select, background
    <3>23. ASSUME NothingLeft PROVE Select
      BY <3>23 DEF NothingLeft, background
    <3>24. ASSUME Kill PROVE Select
      BY <3>24 DEF Kill, Stop, background
    <3>25. ASSUME PowerLoss PROVE Select
      BY <3>25 DEF PowerLoss, Stop, background
    <3>26. ASSUME Damage PROVE Select
      BY <3>26 DEF Damage, background
    <3>27. ASSUME UNCHANGED vars PROVE Select
      BY <3>27 DEF vars, background
    <3> QED
      BY <1>1, <3>1, <3>2, <3>3, <3>4, <3>5, <3>6, <3>7, <3>8, <3>9, <3>10, <3>11, <3>12, <3>13,
         <3>14, <3>15, <3>16, <3>17, <3>18, <3>19, <3>20, <3>21, <3>22, <3>23, <3>24,
         <3>25, <3>26, <3>27 DEF Next, Save, Prune, Recover
  <2>2. Typed /\ g \in published /\ Good \subseteq published /\ published \subseteq Generations
    BY <1>1 DEF IInv, Typed, TypeOK, Good
  <2>3. Generations \subseteq Nat
    BY BoundsOK DEF BoundsOK, Generations
  <2>4. resumed' = Max(Manifests(Dir)) /\ Manifests(Dir) # {}
    BY <2>1 DEF Select, Candidate
  <2>5. Max(Manifests(Dir)) \in Generations /\ \A h \in Manifests(Dir) : h <= Max(Manifests(Dir))
    <3>1. Manifests(Dir) \in SUBSET Generations
      BY DEF Manifests
    <3> QED
      BY <2>4, <3>1, Greatest
  <2>6. ASSUME NEW h \in Good \ damaged PROVE resumed' >= h
    <3>1. Manifest(h) \in Dir
      <4>1. Firm(h)
        BY <2>6 DEF Good
      <4> QED
        BY <4>1, FirmShown DEF Parts, Dir
    <3>2. h <= Max(Manifests(Dir)) /\ h \in Nat /\ Max(Manifests(Dir)) \in Nat
      BY <2>2, <2>3, <2>5, <3>1 DEF Manifests
    <3> QED
      BY <2>4, <3>2
  <2>7. CASE g \in Good
    BY <2>6, <2>7
  <2>8. ASSUME NEW h \in Good, NEW i \in Good, g < h, h < i
        PROVE  resumed' >= g \/ (h \in damaged /\ i \in damaged)
    <3>1. g \in Nat /\ h \in Nat /\ i \in Nat /\ resumed' \in Nat
      BY <2>2, <2>3, <2>4, <2>5
    <3>2. ASSUME h \notin damaged PROVE resumed' >= g
      <4>1. resumed' >= h
        BY <2>6, <3>2
      <4> QED
        BY <2>8, <3>1, <4>1
    <3>3. ASSUME i \notin damaged PROVE resumed' >= g
      <4>1. resumed' >= i
        BY <2>6, <3>3
      <4> QED
        BY <2>8, <3>1, <4>1
    <3> QED
      BY <3>2, <3>3
  <2>9. g \in Good \/ Two(g, Good)
    BY <1>1, <2>2 DEF IInv, Fallback
  <2> QED
    BY <2>7, <2>8, <2>9 DEF Two
<1>2. IInv /\ [Next]_vars
        => [pc = "down" /\ pc' = "up" =>
              \A g \in acked \ damaged :
                \/ resumed' >= g
                \/ \E h, i \in damaged : g < h /\ h < i]_vars
  BY <1>1
<1> QED
  BY <1>2, FallbackInvariance, PTL DEF Spec, NoRollback

-----------------------------------------------------------------------------
\* The event log, which is the other store of a run, for all events, segment sizes,
\* quotas and sets of faults.

\* What a recursion over the rows of q computes up to row n.
Flattened(q, n, f) ==
  /\ DOMAIN f = 1 .. n /\ f[1] = q[1]
  /\ \A k \in 2 .. n : f[k] = f[k - 1] \o q[k]

\* q and r have the same first m rows.
SameRows(q, r, m) == \A k \in 1 .. m : q[k] = r[k]

\* There is such a function for every number of rows.
LEMMA FlattenedExists ==
  ASSUME NEW S, NEW q \in Seq(Seq(S))
  PROVE  \A n \in 1 .. Len(q) : \E f \in [1 .. n -> Seq(S)] : Flattened(q, n, f)
<1> DEFINE Has(n) == \E f \in [1 .. n -> Seq(S)] : Flattened(q, n, f)
           Bad == {n \in 1 .. Len(q) : ~ Has(n)}
<1>0. Len(q) \in Nat /\ \A k \in 1 .. Len(q) : q[k] \in Seq(S)
  OBVIOUS
<1> SUFFICES ASSUME Bad # {} PROVE FALSE
  OBVIOUS
<1>1. PICK n \in Bad : \A k \in Bad : n <= k
  <2>1. Bad \in SUBSET Nat
    BY <1>0
  <2> HIDE DEF Bad
  <2> QED
    BY <2>1, Least
<1>2. n \in 1 .. Len(q) /\ ~ Has(n) /\ n \in Nat
  BY <1>0, <1>1
<1>3. CASE n = 1
  <2>1. [k \in 1 .. 1 |-> q[1]] \in [1 .. 1 -> Seq(S)] /\ q[1] \in Seq(S)
    BY <1>0, <1>2
  <2>2. Flattened(q, 1, [k \in 1 .. 1 |-> q[1]])
    BY DEF Flattened
  <2> QED
    BY <1>2, <1>3, <2>1, <2>2
<1>4. CASE n # 1
  <2>1. n - 1 \in 1 .. Len(q) /\ ~ (n <= n - 1)
    BY <1>0, <1>2, <1>4
  <2>2. n - 1 \notin Bad
    BY <1>1, <2>1
  <2>3. PICK f \in [1 .. n - 1 -> Seq(S)] : Flattened(q, n - 1, f)
    BY <2>1, <2>2
  <2>4. f[1] = q[1] /\ \A k \in 2 .. n - 1 : f[k] = f[k - 1] \o q[k]
    BY <2>3 DEF Flattened
  <2> DEFINE g == [k \in 1 .. n |-> IF k = n THEN f[n - 1] \o q[n] ELSE f[k]]
  <2>5. q[n] \in Seq(S) /\ f[n - 1] \in Seq(S)
    BY <1>0, <1>2, <1>4
  <2>6. f[n - 1] \o q[n] \in Seq(S)
    BY <2>5, ConcatProperties
  <2>7. g \in [1 .. n -> Seq(S)]
    <3>1. ASSUME NEW k \in 1 .. n PROVE (IF k = n THEN f[n - 1] \o q[n] ELSE f[k]) \in Seq(S)
      <4>1. CASE k = n
        BY <2>6, <4>1
      <4>2. CASE k # n
        <5>1. k \in 1 .. n - 1
          BY <1>2, <4>2
        <5> QED
          BY <4>2, <5>1
      <4> QED
        BY <4>1, <4>2
    <3> QED
      BY <3>1
  <2>8. ASSUME NEW k \in 2 .. n PROVE g[k] = g[k - 1] \o q[k]
    <3>1. k - 1 \in 1 .. n /\ k \in 1 .. n /\ k - 1 # n /\ k - 1 \in 1 .. n - 1
      BY <1>2
    <3>2. g[k - 1] = f[k - 1]
      BY <3>1
    <3>3. CASE k = n
      BY <3>1, <3>2, <3>3
    <3>4. CASE k # n
      <4>1. k \in 2 .. n - 1
        BY <1>2, <3>4
      <4>2. g[k] = f[k]
        BY <3>1, <3>4
      <4> QED
        BY <2>4, <3>2, <4>1, <4>2
    <3> QED
      BY <3>3, <3>4
  <2>9. g[1] = q[1] /\ DOMAIN g = 1 .. n
    BY <1>2, <1>4, <2>4
  <2>10. Flattened(q, n, g)
    <3> HIDE DEF g
    <3> QED
      BY <2>8, <2>9 DEF Flattened
  <2> QED
    <3> HIDE DEF g
    <3> QED
      BY <1>2, <2>7, <2>10
<1> QED
  BY <1>3, <1>4

\* Two of them agree on the rows they share.
LEMMA FlattenedAgree ==
  ASSUME NEW n \in Nat, NEW q, NEW r, NEW f, NEW g, NEW m \in 1 .. n,
         SameRows(q, r, m), Flattened(q, m, f), Flattened(r, n, g)
  PROVE  f[m] = g[m]
<1> DEFINE Bad == {k \in 1 .. m : f[k] # g[k]}
<1> SUFFICES ASSUME Bad # {} PROVE FALSE
  OBVIOUS
<1>1. PICK b \in Bad : \A k \in Bad : b <= k
  <2>1. Bad \in SUBSET Nat
    OBVIOUS
  <2> HIDE DEF Bad
  <2> QED
    BY <2>1, Least
<1>2. b \in 1 .. m /\ f[b] # g[b]
  BY <1>1
<1>3. b # 1
  BY <1>2 DEF Flattened, SameRows
<1>4. b - 1 \in 1 .. m /\ ~ (b <= b - 1) /\ b \in 2 .. m /\ b \in 2 .. n
  BY <1>2, <1>3
<1>5. f[b - 1] = g[b - 1]
  BY <1>1, <1>4
<1>6. f[b] = f[b - 1] \o q[b] /\ g[b] = g[b - 1] \o r[b] /\ q[b] = r[b]
  BY <1>2, <1>4 DEF Flattened, SameRows
<1> QED
  BY <1>2, <1>5, <1>6

\* FlattenSeq is the last value of that recursion.
LEMMA FlattenIsLast ==
  ASSUME NEW S, NEW q \in Seq(Seq(S)), q # << >>
  PROVE  \E f \in [1 .. Len(q) -> Seq(S)] :
           Flattened(q, Len(q), f) /\ FlattenSeq(q) = f[Len(q)]
<1> DEFINE N == Len(q)
           Rec(h) == [i \in 1 .. N |-> IF i = 1 THEN q[i] ELSE h[i - 1] \o q[i]]
           flat == CHOOSE h : h = Rec(h)
<1>1. N \in Nat /\ N \in 1 .. N
  OBVIOUS
<1>2. PICK f \in [1 .. N -> Seq(S)] : Flattened(q, N, f)
  BY <1>1, FlattenedExists
<1>3. f = Rec(f)
  <2>1. ASSUME NEW k \in 1 .. N PROVE f[k] = IF k = 1 THEN q[k] ELSE f[k - 1] \o q[k]
    <3>1. CASE k = 1
      BY <1>2, <3>1 DEF Flattened
    <3>2. CASE k # 1
      <4>1. k \in 2 .. N
        BY <1>1, <3>2
      <4> QED
        BY <1>2, <3>2, <4>1 DEF Flattened
    <3> QED
      BY <3>1, <3>2
  <2> QED
    BY <1>2, <2>1
<1>4. flat = Rec(flat)
  BY <1>3
<1>5. FlattenSeq(q) = flat[N]
  BY <1>1 DEF FlattenSeq
<1>6. Flattened(q, N, flat)
  <2> HIDE DEF flat
  <2>1. DOMAIN flat = 1 .. N
    BY <1>4
  <2>2. ASSUME NEW k \in 1 .. N PROVE flat[k] = IF k = 1 THEN q[k] ELSE flat[k - 1] \o q[k]
    BY <1>4
  <2>3. flat[1] = q[1]
    BY <1>1, <2>2
  <2>4. ASSUME NEW k \in 2 .. N PROVE flat[k] = flat[k - 1] \o q[k]
    <3>1. k \in 1 .. N /\ k # 1
      BY <1>1
    <3> QED
      BY <2>2, <3>1
  <2> QED
    BY <2>1, <2>3, <2>4 DEF Flattened
<1>7. flat[N] = f[N]
  <2>1. SameRows(q, q, N)
    BY DEF SameRows
  <2> HIDE DEF flat, N
  <2> QED
    BY <1>1, <1>2, <1>6, <2>1, FlattenedAgree
<1> QED
  BY <1>2, <1>5, <1>7

\* A row more is what it holds more.
LEMMA FlattenAppend ==
  ASSUME NEW S, NEW q \in Seq(Seq(S)), NEW x \in Seq(S)
  PROVE  /\ FlattenSeq(q) \in Seq(S)
         /\ FlattenSeq(Append(q, x)) = FlattenSeq(q) \o x
<1> DEFINE r == Append(q, x)
           n == Len(q)
<1>1. /\ r \in Seq(Seq(S)) /\ r # << >> /\ Len(r) = n + 1 /\ n \in Nat
      /\ r[n + 1] = x /\ \A k \in 1 .. n : r[k] = q[k]
  BY AppendProperties
<1>2. PICK g \in [1 .. n + 1 -> Seq(S)] :
        Flattened(r, n + 1, g) /\ FlattenSeq(r) = g[n + 1]
  <2> HIDE DEF r, n
  <2> QED
    BY <1>1, FlattenIsLast
<1>3. CASE q = << >>
  <2>1. FlattenSeq(q) = << >>
    BY <1>3 DEF FlattenSeq
  <2>2. n = 0 /\ g[1] = r[1]
    BY <1>2, <1>3 DEF Flattened
  <2>3. FlattenSeq(r) = x
    BY <1>1, <1>2, <2>2
  <2>4. << >> \o x = x
    OBVIOUS
  <2> QED
    BY <2>1, <2>3, <2>4
<1>4. CASE q # << >>
  <2>1. PICK f \in [1 .. n -> Seq(S)] : Flattened(q, n, f) /\ FlattenSeq(q) = f[n]
    BY <1>4, FlattenIsLast
  <2>2. n \in 1 .. n + 1 /\ n \in 1 .. n /\ n + 1 \in 2 .. n + 1
    BY <1>1, <1>4
  <2>3. f[n] = g[n]
    <3> DEFINE m == n + 1  F == f  G == g
    <3>1. n \in 1 .. m /\ m \in Nat /\ SameRows(q, r, n)
      BY <1>1, <2>2 DEF SameRows
    <3>2. Flattened(q, n, F) /\ Flattened(r, m, G)
      BY <1>2, <2>1
    <3>3. F[n] = G[n]
      <4> HIDE DEF r, n, m, F, G
      <4> QED
        BY <3>1, <3>2, FlattenedAgree
    <3> QED
      BY <3>3
  <2>4. g[n + 1] = g[n] \o x
    <3>1. g[n + 1] = g[(n + 1) - 1] \o r[n + 1]
      BY <1>2, <2>2 DEF Flattened
    <3>2. (n + 1) - 1 = n
      BY <1>1
    <3> QED
      BY <1>1, <3>1, <3>2
  <2>5. f[n] \in Seq(S)
    BY <2>1, <2>2
  <2> QED
    BY <1>2, <2>1, <2>3, <2>4, <2>5
<1> QED
  BY <1>3, <1>4

Row == Line \cup {Merged}
Segment == [lines : Seq(Row), tail : 0 .. 2]
LinesOf(s) == FlattenSeq([i \in DOMAIN s |-> s[i].lines])

\* A log without segments has no lines.
LEMMA LinesEmpty == LinesOf(<< >>) = << >>
<1>1. [i \in DOMAIN << >> |-> << >>[i].lines] = << >>
  OBVIOUS
<1> QED
  BY <1>1 DEF LinesOf, FlattenSeq

\* A segment more brings its lines.
LEMMA LinesAppend ==
  ASSUME NEW s \in Seq(Segment), NEW x \in Segment
  PROVE  LinesOf(s) \in Seq(Row) /\ LinesOf(Append(s, x)) = LinesOf(s) \o x.lines
<1> DEFINE q == [i \in DOMAIN s |-> s[i].lines]
           t == Append(s, x)
           r == [i \in DOMAIN t |-> t[i].lines]
<1>1. x.lines \in Seq(Row) /\ \A i \in DOMAIN s : s[i].lines \in Seq(Row)
  <2>1. \A z \in Segment : z.lines \in Seq(Row)
    BY DEF Segment
  <2>2. \A i \in DOMAIN s : s[i] \in Segment
    OBVIOUS
  <2> QED
    BY <2>1, <2>2
<1>2. q \in Seq(Seq(Row)) /\ DOMAIN q = 1 .. Len(s) /\ Len(q) = Len(s) /\ Len(s) \in Nat
  BY <1>1
<1>3. /\ DOMAIN t = 1 .. Len(s) + 1 /\ t[Len(s) + 1] = x
      /\ \A i \in 1 .. Len(s) : t[i] = s[i]
  BY <1>2, AppendProperties
<1>4. r = Append(q, x.lines)
  <2> DEFINE a == Append(q, x.lines)
  <2>1. DOMAIN a = 1 .. Len(s) + 1 /\ a[Len(s) + 1] = x.lines /\ a \in Seq(Seq(Row))
    BY <1>1, <1>2, AppendProperties
  <2>2. \A i \in 1 .. Len(s) : a[i] = q[i] /\ q[i] = s[i].lines
    BY <1>1, <1>2, AppendProperties
  <2>3. DOMAIN r = 1 .. Len(s) + 1 /\ \A i \in DOMAIN r : r[i] = t[i].lines
    BY <1>3
  <2>4. ASSUME NEW i \in 1 .. Len(s) + 1 PROVE r[i] = a[i]
    <3>1. CASE i = Len(s) + 1
      BY <1>3, <2>1, <2>3, <3>1
    <3>2. CASE i # Len(s) + 1
      <4>1. i \in 1 .. Len(s)
        BY <1>2, <3>2
      <4>2. a[i] = s[i].lines /\ t[i] = s[i]
        BY <1>3, <2>2, <4>1
      <4> QED
        BY <2>3, <4>2
    <3> QED
      BY <3>1, <3>2
  <2>5. a = [i \in 1 .. Len(s) + 1 |-> a[i]]
    <3> HIDE DEF a, q, t, r
    <3>1. a = [i \in 1 .. Len(a) |-> a[i]] /\ DOMAIN a = 1 .. Len(a)
      BY <2>1
    <3> QED
      BY <2>1, <3>1
  <2>6. r = [i \in 1 .. Len(s) + 1 |-> r[i]]
    BY <2>3
  <2> HIDE DEF a, q, t, r
  <2>7. r = a
    BY <2>4, <2>5, <2>6
  <2> QED
    BY <2>7 DEF a
<1>5. LinesOf(s) = FlattenSeq(q) /\ LinesOf(Append(s, x)) = FlattenSeq(r)
  BY DEF LinesOf
<1> HIDE DEF q, r, t
<1>6. /\ FlattenSeq(q) \in Seq(Row)
      /\ FlattenSeq(Append(q, x.lines)) = FlattenSeq(q) \o x.lines
  BY <1>1, <1>2, FlattenAppend
<1> QED
  BY <1>4, <1>5, <1>6

\* A log and the log with another last segment have what comes before in common.
LEMMA LinesReplace ==
  ASSUME NEW s \in Seq(Segment), s # << >>, NEW y \in Segment
  PROVE  /\ Len(s) \in 1 .. Len(s) /\ s[Len(s)] \in Segment
         /\ [s EXCEPT ![Len(s)] = y] \in Seq(Segment)
         /\ \E p \in Seq(Row) : /\ LinesOf(s) = p \o s[Len(s)].lines
                                /\ LinesOf([s EXCEPT ![Len(s)] = y]) = p \o y.lines
<1> DEFINE n == Len(s)
           p == SubSeq(s, 1, n - 1)
           z == s[n]
           t == [s EXCEPT ![n] = y]
<1>1. n \in Nat /\ n \in 1 .. n /\ z \in Segment /\ n - 1 \in Nat /\ t \in Seq(Segment)
  OBVIOUS
<1>2. p \in Seq(Segment) /\ Len(p) = n - 1 /\ \A i \in 1 .. n - 1 : p[i] = s[i]
  <2> DEFINE k == n - 1
  <2>1. 1 \in Int /\ k \in Int /\ k \in Nat /\ \A i \in 1 .. k : s[i] \in Segment
    BY <1>1
  <2>2. /\ SubSeq(s, 1, k) \in Seq(Segment)
        /\ Len(SubSeq(s, 1, k)) = IF 1 <= k THEN k - 1 + 1 ELSE 0
        /\ \A i \in 1 .. k - 1 + 1 : SubSeq(s, 1, k)[i] = s[1 + i - 1]
    <3> HIDE DEF k
    <3> QED
      BY <2>1, SubSeqProperties
  <2> HIDE DEF k
  <2>3. Len(SubSeq(s, 1, k)) = k /\ \A i \in 1 .. k : SubSeq(s, 1, k)[i] = s[i]
    BY <2>1, <2>2
  <2> QED
    BY <2>2, <2>3 DEF k
<1>3. ASSUME NEW w \in Segment, NEW u \in Seq(Segment), Len(u) = n, u[n] = w,
             \A i \in 1 .. n - 1 : u[i] = s[i]
      PROVE  u = Append(p, w)
  <2> HIDE DEF p, n
  <2> DEFINE a == Append(p, w)
  <2>1. /\ a \in Seq(Segment) /\ Len(a) = n /\ a[n] = w
        /\ \A i \in 1 .. n - 1 : a[i] = p[i]
    BY <1>1, <1>2, AppendProperties
  <2> HIDE DEF a
  <2>2. ASSUME NEW i \in 1 .. n PROVE u[i] = a[i]
    <3>1. CASE i = n
      BY <1>3, <2>1, <3>1
    <3>2. CASE i # n
      <4>1. i \in 1 .. n - 1
        BY <1>1, <3>2
      <4> QED
        BY <1>2, <1>3, <2>1, <4>1
    <3> QED
      BY <3>1, <3>2
  <2>3. u = a
    BY <1>3, <2>1, <2>2
  <2> QED
    BY <2>3 DEF a
<1>4. s = Append(p, z)
  <2>1. Len(s) = n /\ s[n] = z /\ \A i \in 1 .. n - 1 : s[i] = s[i]
    OBVIOUS
  <2> HIDE DEF p, z, n
  <2> QED
    BY <1>1, <1>3, <2>1
<1>5. t = Append(p, y)
  <2>1. Len(t) = n /\ t[n] = y /\ \A i \in 1 .. n - 1 : t[i] = s[i]
    BY <1>1
  <2> HIDE DEF p, t, n
  <2> QED
    BY <1>1, <1>3, <2>1
<1>6. LinesOf(p) \in Seq(Row) /\ LinesOf(s) = LinesOf(p) \o z.lines
  <2> HIDE DEF p, z, n
  <2>1. LinesOf(p) \in Seq(Row) /\ LinesOf(Append(p, z)) = LinesOf(p) \o z.lines
    BY <1>1, <1>2, LinesAppend
  <2> QED
    BY <1>4, <2>1
<1>7. LinesOf(t) = LinesOf(p) \o y.lines
  <2> HIDE DEF p, t, n
  <2>1. LinesOf(Append(p, y)) = LinesOf(p) \o y.lines
    BY <1>2, LinesAppend
  <2> QED
    BY <1>5, <2>1
<1> HIDE DEF p
<1> QED
  BY <1>1, <1>6, <1>7

\* One line more in the last segment is one line more in the log.
LEMMA LinesGrow ==
  ASSUME NEW s \in Seq(Segment), s # << >>, NEW y \in Segment, NEW l \in Row,
         y.lines = Append(s[Len(s)].lines, l)
  PROVE  LinesOf([s EXCEPT ![Len(s)] = y]) = Append(LinesOf(s), l)
<1>1. PICK p \in Seq(Row) : /\ LinesOf(s) = p \o s[Len(s)].lines
                            /\ LinesOf([s EXCEPT ![Len(s)] = y]) = p \o y.lines
  BY LinesReplace
<1>2. s[Len(s)].lines \in Seq(Row)
  BY LinesReplace DEF Segment
<1> DEFINE b == s[Len(s)].lines
<1>3. p \o Append(b, l) = Append(p \o b, l)
  <2> HIDE DEF b
  <2>1. b \in Seq(Row)
    BY <1>2 DEF b
  <2> QED
    BY <2>1
<1> QED
  BY <1>1, <1>3

\* Another tail changes no line, and an empty segment adds none.
LEMMA LinesSame ==
  ASSUME NEW s \in Seq(Segment), s # << >>, NEW y \in Segment, y.lines = s[Len(s)].lines
  PROVE  LinesOf([s EXCEPT ![Len(s)] = y]) = LinesOf(s)
<1>1. PICK p \in Seq(Row) : /\ LinesOf(s) = p \o s[Len(s)].lines
                            /\ LinesOf([s EXCEPT ![Len(s)] = y]) = p \o y.lines
  BY LinesReplace
<1> QED
  BY <1>1

\* The identities of readable lines are events.
LEMMA IdsTyped ==
  ASSUME NEW r \in Seq(Row), \A i \in DOMAIN r : r[i].n = i - 1
  PROVE  /\ [i \in DOMAIN r |-> r[i].id] \in Seq(Events)
         /\ Len([i \in DOMAIN r |-> r[i].id]) = Len(r)
<1>1. ASSUME NEW i \in DOMAIN r PROVE r[i].id \in Events
  <2>1. i \in Nat /\ i - 1 # -1 /\ r[i] \in Row /\ r[i].n = i - 1
    OBVIOUS
  <2>2. r[i] # Merged
    BY <2>1 DEF Merged
  <2>3. r[i] \in Line
    BY <2>1, <2>2 DEF Row
  <2> QED
    BY <2>3 DEF Line
<1>2. DOMAIN r = 1 .. Len(r) /\ Len(r) \in Nat
  OBVIOUS
<1> QED
  BY <1>1, <1>2

\* Complete lines in every segment, and where the writer is.
SegsTyped == segs \in Seq(Segment)
Placed == writer \in {"write", "sync", "truncate"} => segs # << >>
Truncating == writer = "truncate" => Readable
LogTyped == LogTypeOK /\ Placed /\ Truncating

\* The lines a reader finds are those of the segments.
LEMMA AllLinesAre ==
  /\ AllLines = LinesOf(segs)
  /\ AllLines' = LinesOf(segs')
BY DEF AllLines, LinesOf

\* What TypeOK says of the segments.
LEMMA SegmentsTyped == LogTypeOK => /\ segs \in Seq(Segment) /\ LinesOf(segs) \in Seq(Row)
                                    /\ Len(segs) \in Nat /\ DOMAIN segs = 1 .. Len(segs)
<1> SUFFICES ASSUME LogTypeOK PROVE /\ segs \in Seq(Segment) /\ LinesOf(segs) \in Seq(Row)
                                    /\ Len(segs) \in Nat /\ DOMAIN segs = 1 .. Len(segs)
  OBVIOUS
<1>1. segs \in Seq(Segment)
  BY DEF LogTypeOK, Segment, Row
<1>2. LinesOf(segs) \in Seq(Row)
  <2>1. [lines |-> << >>, tail |-> 0] \in Segment
    BY DEF Segment
  <2> QED
    BY <1>1, <2>1, LinesAppend
<1> QED
  BY <1>1, <1>2

\* The segment a record goes to is the last one or a new one without lines.
LEMMA OpenedIs ==
  ASSUME LogTypeOK
  PROVE  /\ Opened \in Seq(Segment) /\ Opened # << >>
         /\ LinesOf(Opened) = LinesOf(segs)
         /\ \/ Opened = segs
            \/ Opened = Append(segs, Empty)
<1>1. segs \in Seq(Segment) /\ LinesOf(segs) \in Seq(Row)
  BY SegmentsTyped
<1>2. Empty \in Segment /\ Empty.lines = << >>
  BY DEF Empty, Segment
<1>3. LinesOf(Append(segs, Empty)) = LinesOf(segs)
  <2>1. LinesOf(Append(segs, Empty)) = LinesOf(segs) \o << >>
    BY <1>1, <1>2, LinesAppend
  <2> QED
    BY <1>1, <2>1
<1>4. Append(segs, Empty) \in Seq(Segment) /\ Append(segs, Empty) # << >>
  BY <1>1, <1>2, AppendProperties
<1>5. (Opened = segs /\ segs # << >>) \/ Opened = Append(segs, Empty)
  BY DEF Opened
<1> QED
  BY <1>1, <1>3, <1>4, <1>5

\* The first bytes of a record make a torn tail of the last segment and no line.
LEMMA StartWriteSegs ==
  ASSUME LogTypeOK, NEW e, StartWrite(e)
  PROVE  /\ segs' \in Seq(Segment) /\ segs' # << >>
         /\ LinesOf(segs') = LinesOf(segs)
         /\ \/ Len(segs') = Len(segs)
            \/ Len(segs') = Len(segs) + 1
         /\ \A i \in 1 .. Len(segs') : i # Len(segs') =>
              i \in 1 .. Len(segs) /\ segs'[i].tail = segs[i].tail
         /\ segs'[Len(segs')].tail > 0
         /\ Len(segs') = Len(segs) + 1 \/ segs[Len(segs)].tail = 0 =>
              segs'[Len(segs')].tail = 1
         /\ unsynced' = unsynced \cup {Len(segs')}
<1> DEFINE o == Opened
           n == Len(o)
           z == o[n]
           y == [z EXCEPT !.tail = IF @ = 0 THEN 1 ELSE 2]
<1>1. /\ o \in Seq(Segment) /\ o # << >> /\ LinesOf(o) = LinesOf(segs)
      /\ \/ o = segs
         \/ o = Append(segs, Empty)
  BY OpenedIs
<1>2. n \in Nat /\ n \in 1 .. n /\ z \in Segment
  <2> HIDE DEF o
  <2> QED
    BY <1>1
<1>3. y \in Segment /\ y.lines = z.lines /\ y.tail = IF z.tail = 0 THEN 1 ELSE 2
  <2> HIDE DEF z
  <2> QED
    BY <1>2 DEF Segment
<1>4. segs' = [o EXCEPT ![n] = y] /\ unsynced' = unsynced \cup {n}
  BY DEF StartWrite
<1>5. /\ segs' \in Seq(Segment) /\ Len(segs') = n /\ segs' # << >> /\ segs'[n] = y
      /\ \A i \in 1 .. n : i # n => segs'[i] = o[i]
  <2> HIDE DEF y, n, o
  <2> QED
    BY <1>1, <1>2, <1>3, <1>4 DEF n
<1>6. LinesOf(segs') = LinesOf(segs)
  <2>1. LinesOf([o EXCEPT ![Len(o)] = y]) = LinesOf(o)
    <3>1. y.lines = o[Len(o)].lines
      BY <1>3
    <3> HIDE DEF y, o
    <3> QED
      BY <1>1, <1>3, <3>1, LinesSame DEF y
  <2> QED
    BY <1>1, <1>4, <2>1
<1>7. segs \in Seq(Segment) /\ Len(segs) \in Nat
  BY SegmentsTyped
<1>8. CASE o = segs
  <2>1. n = Len(segs) /\ z = segs[Len(segs)]
    BY <1>8
  <2>2. \A i \in 1 .. n : i # n => i \in 1 .. Len(segs) /\ segs'[i].tail = segs[i].tail
    BY <1>5, <1>8, <2>1
  <2>3. y.tail > 0 /\ (segs[Len(segs)].tail = 0 => y.tail = 1) /\ n # Len(segs) + 1
    BY <1>3, <1>7, <2>1
  <2> HIDE DEF o, n, z, y
  <2> QED
    BY <1>4, <1>5, <1>6, <2>1, <2>2, <2>3
<1>9. CASE o = Append(segs, Empty)
  <2>0. Empty \in Segment /\ Empty.tail = 0
    BY DEF Empty, Segment
  <2>1. /\ n = Len(segs) + 1 /\ z = Empty
        /\ \A i \in 1 .. Len(segs) : o[i] = segs[i]
    BY <1>7, <1>9, <2>0, AppendProperties
  <2>2. ASSUME NEW i \in 1 .. n, i # n PROVE i \in 1 .. Len(segs) /\ segs'[i].tail = segs[i].tail
    <3> HIDE DEF o, n, z, y
    <3>1. i \in 1 .. Len(segs)
      BY <1>7, <2>1, <2>2
    <3> QED
      BY <1>5, <2>1, <2>2, <3>1
  <2>3. y.tail = 1
    BY <1>3, <2>0, <2>1
  <2> HIDE DEF o, n, z, y
  <2> QED
    BY <1>4, <1>5, <1>6, <2>1, <2>2, <2>3
<1> QED
  BY <1>1, <1>8, <1>9

\* The rest of a record completes a line of the last segment.
LEMMA FinishWriteSegs ==
  ASSUME LogTyped, FinishWrite
  PROVE  /\ segs' \in Seq(Segment) /\ segs' # << >> /\ Len(segs') = Len(segs)
         /\ segs'[Len(segs')].tail = 0
         /\ \A i \in 1 .. Len(segs) : i # Len(segs) => segs'[i] = segs[i]
         /\ \E l \in Row :
              /\ LinesOf(segs') = Append(LinesOf(segs), l)
              /\ segs[Len(segs)].tail = 1 => l = [n |-> Len(events), id |-> cur]
<1> DEFINE n == Len(segs)
           z == segs[n]
           l == IF z.tail > 1 THEN Merged ELSE [n |-> Len(events), id |-> cur]
           y == [lines |-> Append(z.lines, l), tail |-> 0]
<1>1. /\ segs \in Seq(Segment) /\ segs # << >> /\ cur \in Events /\ Len(events) \in Nat
      /\ n \in Nat
  <2>1. writer = "write" /\ LogTypeOK /\ Placed
    BY DEF FinishWrite, LogTyped
  <2>2. segs # << >>
    BY <2>1 DEF Placed
  <2>3. cur \in Events /\ Len(events) \in Nat
    <3>1. cur # NoEvent /\ cur \in Events \cup {NoEvent} /\ events \in Seq(Events)
      BY <2>1 DEF LogTypeOK
    <3> QED
      BY <3>1
  <2> QED
    BY <2>1, <2>2, <2>3, SegmentsTyped
<1>2. z \in Segment /\ n \in 1 .. n
  BY <1>1
<1>3. l \in Row /\ z.lines \in Seq(Row) /\ (z.tail = 1 => l = [n |-> Len(events), id |-> cur])
  <2>1. [n |-> Len(events), id |-> cur] \in Line
    BY <1>1 DEF Line
  <2>2. z.lines \in Seq(Row)
    BY <1>2 DEF Segment
  <2> QED
    BY <2>1, <2>2 DEF Row
<1>4. y \in Segment /\ y.lines = Append(z.lines, l) /\ y.tail = 0
  <2>1. Append(z.lines, l) \in Seq(Row)
    BY <1>3, AppendProperties
  <2> QED
    BY <2>1 DEF Segment
<1>5. segs' = [segs EXCEPT ![n] = y]
  BY DEF FinishWrite
<1>6. LinesOf(segs') = Append(LinesOf(segs), l)
  <2>1. y.lines = Append(segs[Len(segs)].lines, l)
    BY <1>4
  <2>2. segs' = [segs EXCEPT ![Len(segs)] = y]
    BY <1>5
  <2> HIDE DEF y, l, z, n
  <2> QED
    BY <1>1, <1>3, <1>4, <2>1, <2>2, LinesGrow
<1>7. /\ segs' \in Seq(Segment) /\ segs' # << >> /\ Len(segs') = Len(segs)
      /\ segs'[Len(segs')] = y
      /\ \A i \in 1 .. Len(segs) : i # Len(segs) => segs'[i] = segs[i]
  <2> HIDE DEF y, l, z
  <2> QED
    BY <1>1, <1>2, <1>4, <1>5
<1>8. segs'[Len(segs')].tail = 0
  BY <1>4, <1>7
<1> HIDE DEF l, y
<1> QED
  BY <1>3, <1>6, <1>7, <1>8

\* The quarantine leaves every line where it is.
LEMMA TruncateSegs ==
  ASSUME LogTyped, Truncate
  PROVE  /\ segs' \in Seq(Segment) /\ segs' # << >> /\ Len(segs') = Len(segs)
         /\ segs'[Len(segs')].tail = 0
         /\ \A i \in 1 .. Len(segs) : i # Len(segs) => segs'[i] = segs[i]
         /\ LinesOf(segs') = LinesOf(segs)
<1> DEFINE n == Len(segs)
           z == segs[n]
           y == [z EXCEPT !.tail = 0]
<1>1. segs \in Seq(Segment) /\ segs # << >> /\ n \in Nat
  <2>1. writer = "truncate" /\ LogTypeOK /\ Placed
    BY DEF Truncate, LogTyped
  <2>2. segs # << >>
    BY <2>1 DEF Placed
  <2> QED
    BY <2>1, <2>2, SegmentsTyped
<1>2. z \in Segment /\ n \in 1 .. n
  BY <1>1
<1>3. y \in Segment /\ y.lines = z.lines /\ y.tail = 0
  <2> HIDE DEF z
  <2> QED
    BY <1>2 DEF Segment
<1>4. segs' = [segs EXCEPT ![n] = y]
  BY DEF Truncate, Truncated
<1>5. LinesOf(segs') = LinesOf(segs)
  <2>1. y.lines = segs[Len(segs)].lines /\ segs' = [segs EXCEPT ![Len(segs)] = y]
    BY <1>3, <1>4
  <2> HIDE DEF y, z, n
  <2> QED
    BY <1>1, <1>3, <2>1, LinesSame
<1>6. /\ segs' \in Seq(Segment) /\ segs' # << >> /\ Len(segs') = Len(segs)
      /\ segs'[Len(segs')] = y
      /\ \A i \in 1 .. Len(segs) : i # Len(segs) => segs'[i] = segs[i]
  <2> HIDE DEF y, z
  <2> QED
    BY <1>1, <1>2, <1>3, <1>4
<1> QED
  BY <1>3, <1>5, <1>6

\* What a power loss leaves of a segment: all lines, or all but the last.
LEMMA RemainsIs ==
  ASSUME NEW seg \in Segment, NEW r \in Remains(seg)
  PROVE  /\ r \in Segment
         /\ \/ r.lines = seg.lines
            \/ /\ seg.tail = 0 /\ seg.lines # << >>
               /\ r.lines = SubSeq(seg.lines, 1, Len(seg.lines) - 1)
<1>1. CASE r = seg
  BY <1>1
<1>2. CASE r = [seg EXCEPT !.tail = 0]
  BY <1>2 DEF Segment
<1>3. ASSUME ~ (seg.tail > 0 \/ seg.lines = << >>), NEW t \in {0, 1},
             r = [lines |-> Front(seg.lines), tail |-> t]
      PROVE  /\ r \in Segment /\ seg.tail = 0 /\ seg.lines # << >>
             /\ r.lines = SubSeq(seg.lines, 1, Len(seg.lines) - 1)
  <2>1. seg.lines \in Seq(Row) /\ seg.tail \in 0 .. 2
    BY DEF Segment
  <2>2. Front(seg.lines) = SubSeq(seg.lines, 1, Len(seg.lines) - 1)
    BY DEF Front
  <2>3. SubSeq(seg.lines, 1, Len(seg.lines) - 1) \in Seq(Row)
    <3> DEFINE b == seg.lines
    <3> HIDE DEF b
    <3>1. b \in Seq(Row)
      BY <2>1 DEF b
    <3>2. SubSeq(b, 1, Len(b) - 1) \in Seq(Row)
      BY <3>1
    <3> QED
      BY <3>2 DEF b
  <2>4. r \in Segment
    BY <1>3, <2>2, <2>3 DEF Segment
  <2> QED
    BY <1>3, <2>1, <2>2, <2>4
<1>4. \/ r = seg
      \/ r = [seg EXCEPT !.tail = 0]
      \/ /\ ~ (seg.tail > 0 \/ seg.lines = << >>)
         /\ \E t \in {0, 1} : r = [lines |-> Front(seg.lines), tail |-> t]
  BY DEF Remains
<1> QED
  BY <1>1, <1>2, <1>3, <1>4

\* A power loss leaves as many segments, each one whole or without its last line.
LEMMA PowerLossSegs ==
  ASSUME LogTypeOK, LosePower
  PROVE  /\ segs' \in Seq(Segment) /\ Len(segs') = Len(segs)
         /\ \A i \in 1 .. Len(segs) : i \notin unsynced => segs'[i] = segs[i]
         /\ \A i \in 1 .. Len(segs) : i \in unsynced => segs'[i] \in Remains(segs[i])
<1>1. segs \in Seq(Segment) /\ Len(segs) \in Nat /\ DOMAIN segs = 1 .. Len(segs)
  BY SegmentsTyped
<1>2. PICK left \in [unsynced -> UNION {Remains(segs[i]) : i \in unsynced}] :
        /\ \A i \in unsynced : left[i] \in Remains(segs[i])
        /\ segs' = [i \in DOMAIN segs |-> IF i \in unsynced THEN left[i] ELSE segs[i]]
  BY DEF LosePower
<1>3. ASSUME NEW i \in 1 .. Len(segs)
      PROVE  (IF i \in unsynced THEN left[i] ELSE segs[i]) \in Segment
  <2>1. segs[i] \in Segment
    BY <1>1
  <2>2. CASE i \in unsynced
    BY <1>2, <2>1, <2>2, RemainsIs
  <2>3. CASE i \notin unsynced
    BY <2>1, <2>3
  <2> QED
    BY <2>2, <2>3
<1>4. segs' \in Seq(Segment) /\ Len(segs') = Len(segs)
  BY <1>1, <1>2, <1>3
<1> QED
  BY <1>1, <1>2, <1>4

\* The parts of TypeOK after a step.
LEMMA TypedAfter ==
  ASSUME segs' \in Seq(Segment),
         unsynced' \subseteq 1 .. Len(segs'), evidence' \subseteq 1 .. Len(segs'),
         writer' \in {"up", "write", "sync", "truncate", "down", "refused"},
         cur' \in Events \cup {NoEvent}, cur' # NoEvent <=> writer' \in {"write", "sync"},
         events' \in Seq(Events), sure' \in Nat, kinds' \in Faults, faults' \in 0 .. MaxFaults
  PROVE  LogTypeOK'
<1>1. DOMAIN segs' = 1 .. Len(segs')
  OBVIOUS
<1> QED
  BY <1>1 DEF LogTypeOK, Segment, Row

\* An identity of the writer's memory has a place, and Max takes the later place.
LEMMA AgainCounts ==
  ASSUME LogTypeOK, NEW e, AppendAgain(e)
  PROVE  /\ sure' \in Nat /\ sure' >= sure
         /\ sure' = sure \/ sure' \in 1 .. Len(events)
<1> DEFINE i == CHOOSE k \in DOMAIN events : events[k] = e
           m == Max({sure, i})
<1>1. events \in Seq(Events) /\ sure \in Nat /\ sure' = m
  BY DEF LogTypeOK, AppendAgain
<1>2. i \in 1 .. Len(events)
  <2>1. \E k \in DOMAIN events : events[k] = e
    BY DEF AppendAgain, Range
  <2>2. i \in DOMAIN events
    BY <2>1
  <2> QED
    BY <1>1, <2>2
<1>3. m \in {sure, i} /\ \A x \in {sure, i} : m >= x
  <2> HIDE DEF i
  <2>1. i \in Nat /\ sure \in Nat
    BY <1>1, <1>2
  <2>2. \E x \in {sure, i} : \A y \in {sure, i} : x >= y
    BY <2>1
  <2> QED
    BY <2>2 DEF Max
<1> HIDE DEF i, m
<1>4. sure' \in Nat /\ sure' >= sure /\ (sure' = sure \/ sure' = i)
  BY <1>1, <1>2, <1>3
<1> QED
  BY <1>2, <1>4

\* The types and the places of the writer are kept by every step.
LEMMA LogTypedStep ==
  ASSUME LogTyped, [LogNext]_logVars
  PROVE  LogTyped'
<1>0. /\ segs \in Seq(Segment) /\ Len(segs) \in Nat /\ DOMAIN segs = 1 .. Len(segs)
      /\ unsynced \subseteq 1 .. Len(segs) /\ evidence \subseteq 1 .. Len(segs)
      /\ writer \in {"up", "write", "sync", "truncate", "down", "refused"}
      /\ cur \in Events \cup {NoEvent} /\ (cur # NoEvent <=> writer \in {"write", "sync"})
      /\ events \in Seq(Events) /\ sure \in Nat /\ kinds \in Faults
      /\ faults \in 0 .. MaxFaults
      /\ MaxFaults \in Nat /\ NoEvent \notin Events
  <2>1. segs \in Seq(Segment) /\ Len(segs) \in Nat /\ DOMAIN segs = 1 .. Len(segs)
    BY SegmentsTyped DEF LogTyped
  <2> QED
    BY <2>1, LogBoundsOK DEF LogTyped, LogTypeOK
<1>t. LogTypeOK /\ Placed /\ Truncating
  BY DEF LogTyped
<1>p. ASSUME LogTypeOK', writer' # "truncate", writer' \in {"write", "sync"} => segs' # << >>
      PROVE  LogTyped'
  BY <1>p DEF LogTyped, Placed, Truncating
<1>1. ASSUME NEW e \in Events, StartWrite(e) PROVE LogTyped'
  <2>1. /\ segs' \in Seq(Segment) /\ segs' # << >>
        /\ \/ Len(segs') = Len(segs)
           \/ Len(segs') = Len(segs) + 1
        /\ unsynced' = unsynced \cup {Len(segs')}
    BY <1>1, <1>t, StartWriteSegs
  <2>2. /\ writer' = "write" /\ cur' = e /\ evidence' = evidence /\ events' = events
        /\ sure' = sure /\ kinds' = kinds /\ faults' = faults
    BY <1>1 DEF StartWrite
  <2>3. cur' # NoEvent
    BY <1>0, <1>1, <2>2 DEF StartWrite
  <2>4. Len(segs') \in 1 .. Len(segs') /\ 1 .. Len(segs) \subseteq 1 .. Len(segs')
    <3>1. Len(segs') \in Nat /\ Len(segs') # 0
      BY <2>1
    <3> QED
      BY <1>0, <2>1, <3>1
  <2>5. LogTypeOK'
    <3>1. unsynced' \subseteq 1 .. Len(segs') /\ evidence' \subseteq 1 .. Len(segs')
      BY <1>0, <2>1, <2>2, <2>4
    <3> QED
      BY <1>0, <1>1, <2>1, <2>2, <2>3, <3>1, TypedAfter
  <2> QED
    BY <1>p, <2>1, <2>2, <2>5
<1>2. ASSUME NEW e \in Events, AppendAgain(e) PROVE LogTyped'
  <2>1. sure' \in Nat
    BY <1>2, <1>t, AgainCounts
  <2>2. /\ writer = "up" /\ writer' = writer /\ UNCHANGED <<segs, unsynced, evidence, cur>>
        /\ UNCHANGED <<events, kinds, faults>>
    BY <1>2 DEF AppendAgain
  <2>3. LogTypeOK'
    BY <1>0, <2>1, <2>2, TypedAfter
  <2> QED
    BY <1>p, <2>2, <2>3
<1>3. CASE FinishWrite
  <2>1. segs' \in Seq(Segment) /\ segs' # << >> /\ Len(segs') = Len(segs)
    BY <1>3, FinishWriteSegs
  <2>2. /\ writer = "write" /\ writer' = "sync" /\ UNCHANGED <<unsynced, evidence, cur>>
        /\ UNCHANGED <<events, sure, kinds, faults>>
    BY <1>3 DEF FinishWrite
  <2>3. LogTypeOK'
    BY <1>0, <2>1, <2>2, TypedAfter
  <2> QED
    BY <1>p, <2>1, <2>2, <2>3
<1>4. CASE Sync
  <2>1. /\ writer = "sync" /\ writer' = "up" /\ UNCHANGED <<segs, evidence, kinds, faults>>
        /\ unsynced' \subseteq unsynced /\ events' = Append(events, cur)
        /\ sure' = Len(events) + 1 /\ cur' = NoEvent
    BY <1>4 DEF Sync
  <2>2. events' \in Seq(Events) /\ sure' \in Nat
    <3>1. cur \in Events
      BY <1>0, <2>1
    <3> QED
      BY <1>0, <2>1, <3>1
  <2>3. LogTypeOK'
    BY <1>0, <2>1, <2>2, TypedAfter
  <2> QED
    BY <1>p, <2>1, <2>3
<1>5. CASE Open
  <2>1. /\ writer = "down" /\ writer' = "up" /\ UNCHANGED <<segs, unsynced, evidence, cur>>
        /\ UNCHANGED <<sure, kinds, faults>> /\ events' = Ids /\ Readable
    BY <1>5 DEF Open
  <2>2. events' \in Seq(Events)
    <3>1. AllLines \in Seq(Row)
      BY <1>t, SegmentsTyped, AllLinesAre
    <3>2. \A i \in DOMAIN AllLines : AllLines[i].n = i - 1
      BY <2>1 DEF Readable
    <3>3. [i \in DOMAIN AllLines |-> AllLines[i].id] \in Seq(Events)
      BY <3>1, <3>2, IdsTyped
    <3> QED
      BY <2>1, <3>3 DEF Ids
  <2>3. LogTypeOK'
    BY <1>0, <2>1, <2>2, TypedAfter
  <2> QED
    BY <1>p, <2>1, <2>3
<1>6. CASE SaveEvidence
  <2>1. /\ writer = "down" /\ writer' = "truncate" /\ UNCHANGED <<segs, unsynced, cur, events>>
        /\ UNCHANGED <<sure, kinds, faults>> /\ evidence' = evidence \cup {Len(segs)}
        /\ segs # << >> /\ Readable
    BY <1>6 DEF SaveEvidence, PartialOf, Torn
  <2>2. Len(segs) \in 1 .. Len(segs)
    BY <1>0, <2>1
  <2>3. LogTypeOK'
    <3>1. evidence' \subseteq 1 .. Len(segs')
      BY <1>0, <2>1, <2>2
    <3> QED
      BY <1>0, <2>1, <3>1, TypedAfter
  <2>4. Readable'
    BY <2>1 DEF Readable, Ids, AllLines
  <2> QED
    BY <2>1, <2>3, <2>4 DEF LogTyped, Placed, Truncating
<1>7. CASE Truncate
  <2>1. /\ writer = "truncate" /\ writer' = "up" /\ UNCHANGED <<evidence, cur>>
        /\ UNCHANGED <<sure, kinds, faults>> /\ unsynced' \subseteq unsynced
        /\ events' = Ids'
    BY <1>7 DEF Truncate
  <2>2. /\ segs' \in Seq(Segment) /\ Len(segs') = Len(segs)
        /\ LinesOf(segs') = LinesOf(segs)
    BY <1>7, TruncateSegs
  <2>3. events' \in Seq(Events)
    <3>1. AllLines' = AllLines /\ AllLines \in Seq(Row)
      BY <1>t, <2>2, SegmentsTyped, AllLinesAre
    <3>2. \A i \in DOMAIN AllLines : AllLines[i].n = i - 1
      BY <1>t, <2>1 DEF Readable, Truncating
    <3>3. [i \in DOMAIN AllLines |-> AllLines[i].id] \in Seq(Events)
      BY <3>1, <3>2, IdsTyped
    <3> QED
      BY <2>1, <3>1, <3>3 DEF Ids
  <2>4. LogTypeOK'
    BY <1>0, <2>1, <2>2, <2>3, TypedAfter
  <2> QED
    BY <1>p, <2>1, <2>4
<1>8. CASE Refuse
  <2>1. /\ writer = "down" /\ writer' = "refused" /\ UNCHANGED <<segs, unsynced, evidence, cur>>
        /\ UNCHANGED <<events, sure, kinds, faults>>
    BY <1>8 DEF Refuse
  <2>2. LogTypeOK'
    BY <1>0, <2>1, TypedAfter
  <2> QED
    BY <1>p, <2>1, <2>2
<1>f. ASSUME NEW f, Fault(f) PROVE faults' \in 0 .. MaxFaults /\ kinds' = kinds
  BY <1>0, <1>f DEF Fault
<1>d. ASSUME Dies
      PROVE  writer' = "down" /\ cur' = NoEvent /\ events' \in Seq(Events) /\ sure' = sure
  BY <1>d DEF Dies
<1>9. CASE KillWriter
  <2>1. UNCHANGED <<segs, unsynced, evidence>> /\ Dies /\ Fault("kill")
    BY <1>9 DEF KillWriter
  <2>2. LogTypeOK'
    BY <1>0, <1>f, <1>d, <2>1, TypedAfter
  <2> QED
    BY <1>p, <1>d, <2>1, <2>2
<1>10. CASE LosePower
  <2>1. /\ unsynced' = {} /\ evidence' \subseteq evidence /\ Dies /\ Fault("power")
    BY <1>10 DEF LosePower
  <2>2. segs' \in Seq(Segment) /\ Len(segs') = Len(segs)
    BY <1>10, <1>t, PowerLossSegs
  <2>3. LogTypeOK'
    BY <1>0, <1>f, <1>d, <2>1, <2>2, TypedAfter
  <2> QED
    BY <1>p, <1>d, <2>1, <2>3
<1>11. CASE AppendFails
  <2>1. /\ writer' = "up" /\ cur' = NoEvent /\ UNCHANGED <<segs, unsynced, evidence>>
        /\ UNCHANGED <<events, sure>> /\ Fault("error")
    BY <1>11 DEF AppendFails
  <2>2. LogTypeOK'
    BY <1>0, <1>f, <2>1, TypedAfter
  <2> QED
    BY <1>p, <2>1, <2>2
<1>12. CASE UNCHANGED logVars
  <2>1. UNCHANGED <<segs, unsynced, evidence, writer, cur>> /\ UNCHANGED <<events, sure, kinds, faults>>
    BY <1>12 DEF logVars
  <2>2. LogTypeOK'
    BY <1>0, <2>1, TypedAfter
  <2> QED
    BY <1>t, <2>1, <2>2 DEF LogTyped, Placed, Truncating, Readable, Ids, AllLines
<1> QED
  BY <1>1, <1>2, <1>3, <1>4, <1>5, <1>6, <1>7, <1>8, <1>9, <1>10, <1>11, <1>12 DEF LogNext

\* For all constants, the type invariant of the log, and a torn tail is only moved away
\* in a log that can be read.  (__init__, append)
THEOREM LogTypeInvariance == LogSpec => []LogTyped
<1>1. LogInit => LogTyped
  <2> SUFFICES ASSUME LogInit PROVE LogTyped
    OBVIOUS
  <2>1. /\ segs = << >> /\ unsynced = {} /\ evidence = {} /\ writer = "up" /\ cur = NoEvent
        /\ events = << >> /\ sure = 0 /\ kinds \in Faults /\ faults = 0
    BY DEF LogInit
  <2>2. /\ segs \in Seq(Segment) /\ unsynced \subseteq DOMAIN segs
        /\ evidence \subseteq DOMAIN segs /\ events \in Seq(Events) /\ sure \in Nat
    BY <2>1
  <2>3. faults \in 0 .. MaxFaults
    BY <2>1, LogBoundsOK
  <2>4. LogTypeOK
    BY <2>1, <2>2, <2>3 DEF LogTypeOK, Segment, Row
  <2> QED
    BY <2>1, <2>4 DEF LogTyped, Placed, Truncating
<1>2. LogTyped /\ [LogNext]_logVars => LogTyped'
  BY LogTypedStep
<1> QED
  BY <1>1, <1>2, PTL DEF LogSpec

\* What a step does to the lines: only a power loss takes one away.
LEMMA LinesStep ==
  ASSUME LogTyped, [LogNext]_logVars
  PROVE  \/ LosePower
         \/ AllLines' = AllLines
         \/ \E l \in Row : AllLines' = Append(AllLines, l)
<1>t. LogTypeOK
  BY DEF LogTyped
<1>1. ASSUME NEW e, StartWrite(e) PROVE AllLines' = AllLines
  BY <1>1, <1>t, StartWriteSegs, AllLinesAre
<1>2. CASE FinishWrite
  <2>1. PICK l \in Row : LinesOf(segs') = Append(LinesOf(segs), l)
    BY <1>2, FinishWriteSegs
  <2> QED
    BY <2>1, AllLinesAre
<1>3. CASE Truncate
  BY <1>3, TruncateSegs, AllLinesAre
<1>4. CASE UNCHANGED segs
  BY <1>4 DEF AllLines
<1>5. ASSUME NEW e, AppendAgain(e) PROVE UNCHANGED segs
  BY <1>5 DEF AppendAgain
<1>6. Sync \/ Open \/ SaveEvidence \/ Refuse => UNCHANGED segs
  BY DEF Sync, Open, SaveEvidence, Refuse
<1>7. KillWriter \/ AppendFails \/ UNCHANGED logVars => UNCHANGED segs
  BY DEF KillWriter, AppendFails, logVars
<1> QED
  BY <1>1, <1>2, <1>3, <1>4, <1>5, <1>6, <1>7 DEF LogNext

\* A sequence is a prefix of itself and of itself with one element more.
LEMMA PrefixGrows ==
  ASSUME NEW S, NEW s \in Seq(S)
  PROVE  /\ IsPrefix(s, s)
         /\ \A x \in S : IsPrefix(s, Append(s, x))
<1>1. SubSeq(s, 1, Len(s)) = s /\ Len(s) <= Len(s)
  OBVIOUS
<1>2. ASSUME NEW x \in S
      PROVE  Len(s) <= Len(Append(s, x)) /\ SubSeq(Append(s, x), 1, Len(s)) = s
  OBVIOUS
<1> QED
  BY <1>1, <1>2 DEF IsPrefix

\* For all constants and any faults, a complete line stays where it is, whatever is
\* written, killed, failed or quarantined; only a power loss takes one.
\* (append, __init__)
THEOREM LogAppendOnlyHolds == LogSpec => AppendOnly
<1>1. LogTyped /\ [LogNext]_logVars
        => [LosePower \/ IsPrefix(AllLines, AllLines')]_logVars
  <2> SUFFICES ASSUME LogTyped, [LogNext]_logVars
               PROVE  LosePower \/ IsPrefix(AllLines, AllLines')
    OBVIOUS
  <2>1. AllLines \in Seq(Row)
    BY SegmentsTyped, AllLinesAre DEF LogTyped
  <2>2. \/ LosePower
        \/ AllLines' = AllLines
        \/ \E l \in Row : AllLines' = Append(AllLines, l)
    BY LinesStep
  <2> QED
    BY <2>1, <2>2, PrefixGrows
<1> QED
  BY <1>1, LogTypeInvariance, PTL DEF LogSpec, AppendOnly

-----------------------------------------------------------------------------
\* The lines and what the reader makes of them.

IdsOf(r) == [i \in DOMAIN r |-> r[i].id]
Ordered(r) == \A i \in DOMAIN r : r[i].n = i - 1
Unique(r) == IsInjective(IdsOf(r))
TornLast == \A i \in DOMAIN segs : segs[i].tail > 0 => i = Len(segs)

\* Readable in these words.
LEMMA ReadableIs ==
  /\ Ids = IdsOf(AllLines)
  /\ Readable <=> Ordered(AllLines) /\ Unique(AllLines) /\ TornLast
BY DEF Readable, Ids, IdsOf, Ordered, Unique, TornLast

\* The same after a step.
LEMMA ReadableAfter ==
  /\ Ids' = IdsOf(AllLines')
  /\ Readable' <=> Ordered(AllLines') /\ Unique(AllLines') /\ TornLast'
BY DEF Readable, Ids, IdsOf, Ordered, Unique, TornLast

\* A record with the next number and a new identity keeps the lines in order.
LEMMA RecordFits ==
  ASSUME NEW r \in Seq(Row), Ordered(r), Unique(r), NEW e \in Events,
         e \notin Range(IdsOf(r)), NEW l, l = [n |-> Len(r), id |-> e]
  PROVE  /\ IdsOf(Append(r, l)) = Append(IdsOf(r), e)
         /\ Ordered(Append(r, l)) /\ Unique(Append(r, l))
<1> DEFINE n == Len(r)
           a == Append(r, l)
           b == IdsOf(r)
           c == IdsOf(a)
<1>1. /\ n \in Nat /\ DOMAIN r = 1 .. n /\ DOMAIN a = 1 .. n + 1 /\ a[n + 1] = l
      /\ \A i \in 1 .. n : a[i] = r[i]
  BY AppendProperties
<1>2. /\ b \in Seq(Events) /\ Len(b) = n /\ DOMAIN b = 1 .. n
      /\ \A i \in 1 .. n : b[i] = r[i].id
  BY <1>1, IdsTyped DEF IdsOf, Ordered
<1>3. DOMAIN c = 1 .. n + 1 /\ c[n + 1] = e /\ \A i \in 1 .. n : c[i] = b[i]
  <2>1. DOMAIN c = 1 .. n + 1 /\ \A i \in 1 .. n + 1 : c[i] = a[i].id
    BY <1>1 DEF IdsOf
  <2>2. n + 1 \in 1 .. n + 1 /\ \A i \in 1 .. n : i \in 1 .. n + 1
    BY <1>1
  <2>3. l.id = e
    OBVIOUS
  <2> HIDE DEF a, b, c, n
  <2> QED
    BY <1>1, <1>2, <2>1, <2>2, <2>3
<1>4. c = Append(b, e)
  <2> DEFINE d == Append(b, e)
  <2>1. d \in Seq(Events) /\ Len(d) = n + 1 /\ d[n + 1] = e /\ \A i \in 1 .. n : d[i] = b[i]
    <3> HIDE DEF b, n
    <3> QED
      BY <1>1, <1>2, AppendProperties
  <2>2. c = [i \in DOMAIN c |-> c[i]]
    BY DEF IdsOf
  <2> HIDE DEF b, c, d, n
  <2>3. ASSUME NEW i \in 1 .. n + 1 PROVE c[i] = d[i]
    <3>1. CASE i = n + 1
      BY <1>3, <2>1, <3>1
    <3>2. CASE i # n + 1
      <4>1. i \in 1 .. n
        BY <1>1, <3>2
      <4> QED
        BY <1>3, <2>1, <4>1
    <3> QED
      BY <3>1, <3>2
  <2>4. d = [i \in 1 .. n + 1 |-> d[i]]
    BY <2>1
  <2>5. c = d
    BY <1>3, <2>2, <2>3, <2>4
  <2> QED
    BY <2>5 DEF d
<1>5. Ordered(a)
  <2>1. ASSUME NEW i \in 1 .. n + 1 PROVE a[i].n = i - 1
    <3>1. CASE i = n + 1
      BY <1>1, <3>1
    <3>2. CASE i # n + 1
      <4>1. i \in 1 .. n
        BY <1>1, <3>2
      <4> QED
        BY <1>1, <4>1 DEF Ordered
    <3> QED
      BY <3>1, <3>2
  <2> QED
    BY <1>1, <2>1 DEF Ordered
<1>6. Unique(a)
  <2>1. \A i \in 1 .. n : b[i] # e
    BY <1>2 DEF Range
  <2>2. \A i, j \in 1 .. n : b[i] = b[j] => i = j
    BY <1>2 DEF Unique, IsInjective
  <2> HIDE DEF b, c, n
  <2>3. ASSUME NEW i \in 1 .. n + 1, NEW j \in 1 .. n + 1, c[i] = c[j] PROVE i = j
    <3>1. i = n + 1 \/ i \in 1 .. n
      BY <1>1
    <3>2. j = n + 1 \/ j \in 1 .. n
      BY <1>1
    <3> QED
      BY <1>3, <2>1, <2>2, <2>3, <3>1, <3>2
  <2>4. IsInjective(c)
    BY <1>3, <2>3 DEF IsInjective
  <2> QED
    BY <2>4 DEF Unique, c
<1> QED
  BY <1>4, <1>5, <1>6

\* Without its last line a log stays in order.
LEMMA LineLost ==
  ASSUME NEW r \in Seq(Row), NEW l \in Row, Ordered(Append(r, l)), Unique(Append(r, l))
  PROVE  /\ Ordered(r) /\ Unique(r)
         /\ Len(IdsOf(r)) = Len(r) /\ Len(IdsOf(Append(r, l))) = Len(r) + 1
         /\ IdsOf(r) = SubSeq(IdsOf(Append(r, l)), 1, Len(r))
<1> DEFINE n == Len(r)
           a == Append(r, l)
           b == IdsOf(r)
           c == IdsOf(a)
<1>1. /\ n \in Nat /\ DOMAIN r = 1 .. n /\ DOMAIN a = 1 .. n + 1 /\ a \in Seq(Row)
      /\ Len(a) = n + 1 /\ \A i \in 1 .. n : i \in 1 .. n + 1 /\ a[i] = r[i]
  BY AppendProperties
<1>2. Ordered(r)
  BY <1>1 DEF Ordered
<1>3. /\ b \in Seq(Events) /\ Len(b) = n /\ DOMAIN b = 1 .. n
      /\ \A i \in 1 .. n : b[i] = r[i].id
  BY <1>1, <1>2, IdsTyped DEF IdsOf, Ordered
<1>4. /\ c \in Seq(Events) /\ Len(c) = n + 1 /\ DOMAIN c = 1 .. n + 1
      /\ \A i \in 1 .. n : c[i] = r[i].id
  <2>1. c \in Seq(Events) /\ Len(c) = Len(a)
    <3> HIDE DEF a
    <3> QED
      BY <1>1, IdsTyped DEF IdsOf, Ordered, a
  <2>2. \A i \in 1 .. n : c[i] = a[i].id
    BY <1>1 DEF IdsOf
  <2> HIDE DEF a, c, n
  <2> QED
    BY <1>1, <2>1, <2>2
<1>5. Unique(r)
  <2>1. \A i, j \in 1 .. n + 1 : c[i] = c[j] => i = j
    BY <1>4 DEF Unique, IsInjective
  <2> HIDE DEF b, c, n
  <2>2. ASSUME NEW i \in 1 .. n, NEW j \in 1 .. n, b[i] = b[j] PROVE i = j
    BY <1>1, <1>3, <1>4, <2>1, <2>2
  <2>3. IsInjective(b)
    BY <1>3, <2>2 DEF IsInjective
  <2> QED
    BY <2>3 DEF Unique, b
<1>6. b = SubSeq(c, 1, n)
  <2> DEFINE d == SubSeq(c, 1, n)
  <2> HIDE DEF b, c, n
  <2>1. d \in Seq(Events) /\ Len(d) = n /\ \A i \in 1 .. n : d[i] = c[i]
    BY <1>1, <1>4
  <2> HIDE DEF d
  <2>2. \A i \in 1 .. n : b[i] = d[i]
    BY <1>3, <1>4, <2>1
  <2>3. b = d
    BY <1>1, <1>3, <2>1, <2>2
  <2> QED
    BY <2>3 DEF d
<1> QED
  BY <1>2, <1>3, <1>4, <1>5, <1>6

\* A power loss that finds nothing but the last segment unsynced takes one line at most,
\* and that one only from a segment whose last write was complete.
LEMMA PowerLossLines ==
  ASSUME LogTypeOK, LosePower, unsynced \subseteq {Len(segs)}
  PROVE  /\ LinesOf(segs') \in Seq(Row)
         /\ \A i \in 1 .. Len(segs) : i # Len(segs) => segs'[i] = segs[i]
         /\ \/ LinesOf(segs') = LinesOf(segs)
            \/ /\ unsynced = {Len(segs)} /\ segs[Len(segs)].tail = 0
               /\ \E l \in Row : LinesOf(segs) = Append(LinesOf(segs'), l)
<1>1. segs \in Seq(Segment) /\ Len(segs) \in Nat /\ DOMAIN segs = 1 .. Len(segs)
  BY SegmentsTyped
<1>2. /\ segs' \in Seq(Segment) /\ Len(segs') = Len(segs)
      /\ \A i \in 1 .. Len(segs) : i \notin unsynced => segs'[i] = segs[i]
      /\ \A i \in 1 .. Len(segs) : i \in unsynced => segs'[i] \in Remains(segs[i])
  BY PowerLossSegs
<1>3. LinesOf(segs') \in Seq(Row)
  <2>1. [lines |-> << >>, tail |-> 0] \in Segment
    BY DEF Segment
  <2> QED
    BY <1>2, <2>1, LinesAppend
<1>4. \A i \in 1 .. Len(segs) : i # Len(segs) => segs'[i] = segs[i]
  BY <1>2
<1>5. CASE unsynced = {}
  <2>1. segs' = segs
    <3> DEFINE t == segs'
    <3>1. t \in Seq(Segment) /\ Len(t) = Len(segs) /\ \A i \in 1 .. Len(segs) : t[i] = segs[i]
      BY <1>2, <1>5
    <3> HIDE DEF t
    <3>2. t = segs
      BY <1>1, <3>1
    <3> QED
      BY <3>2 DEF t
  <2>2. LinesOf(segs') = LinesOf(segs)
    BY <2>1
  <2> QED
    BY <1>3, <1>4, <2>2
<1>6. CASE unsynced # {}
  <2> DEFINE n == Len(segs)
             z == segs[n]
             t == segs'
             y == t[n]
  <2>1. unsynced = {n} /\ n \in 1 .. n /\ segs # << >>
    <3>1. unsynced \subseteq DOMAIN segs
      BY DEF LogTypeOK
    <3> QED
      BY <1>1, <1>6, <3>1
  <2>2. /\ z \in Segment /\ y \in Remains(z) /\ y \in Segment
        /\ \/ y.lines = z.lines
           \/ /\ z.tail = 0 /\ z.lines # << >>
              /\ y.lines = SubSeq(z.lines, 1, Len(z.lines) - 1)
    <3>0. n \in 1 .. Len(segs) /\ n \in unsynced
      BY <2>1
    <3>1. z \in Segment /\ y \in Remains(z)
      BY <1>1, <1>2, <3>0
    <3> HIDE DEF y, z
    <3> QED
      BY <3>1, RemainsIs
  <2>3. t = [segs EXCEPT ![n] = y] /\ segs = [t EXCEPT ![n] = z]
    <3> DEFINE u == [segs EXCEPT ![n] = y]
               v == [t EXCEPT ![n] = z]
    <3>1. /\ t \in Seq(Segment) /\ Len(t) = n /\ t[n] = y /\ segs[n] = z /\ n \in Nat
          /\ segs \in Seq(Segment) /\ Len(segs) = n
          /\ \A i \in 1 .. n : i # n => t[i] = segs[i]
      BY <1>1, <1>2, <1>4
    <3> HIDE DEF t, y, z, n
    <3>2. /\ u \in Seq(Segment) /\ Len(u) = n /\ u[n] = y
          /\ \A i \in 1 .. n : i # n => u[i] = segs[i]
      BY <2>1, <2>2, <3>1
    <3>3. /\ v \in Seq(Segment) /\ Len(v) = n /\ v[n] = z
          /\ \A i \in 1 .. n : i # n => v[i] = t[i]
      BY <2>1, <2>2, <3>1
    <3> HIDE DEF u, v
    <3>4. \A i \in 1 .. n : t[i] = u[i] /\ segs[i] = v[i]
      BY <3>1, <3>2, <3>3
    <3>5. t = u /\ segs = v
      BY <3>1, <3>2, <3>3, <3>4
    <3> QED
      BY <3>5 DEF u, v
  <2>4. CASE y.lines = z.lines
    <3>1. y.lines = segs[Len(segs)].lines /\ t = [segs EXCEPT ![Len(segs)] = y]
      BY <2>3, <2>4
    <3>2. LinesOf(t) = LinesOf(segs)
      <4> HIDE DEF y, t, z, n
      <4> QED
        BY <1>1, <2>1, <2>2, <3>1, LinesSame
    <3> QED
      BY <1>3, <1>4, <3>2
  <2>5. CASE /\ z.tail = 0 /\ z.lines # << >>
             /\ y.lines = SubSeq(z.lines, 1, Len(z.lines) - 1)
    <3> DEFINE q == z.lines
               l == q[Len(q)]
    <3>1. q \in Seq(Row) /\ q # << >>
      BY <2>2, <2>5 DEF Segment
    <3>2. l \in Row /\ q = Append(SubSeq(q, 1, Len(q) - 1), l)
      <4> HIDE DEF q
      <4> QED
        BY <3>1
    <3>3. z.lines = Append(t[Len(t)].lines, l) /\ segs = [t EXCEPT ![Len(t)] = z]
      <4>1. Len(t) = n
        BY <1>2
      <4> QED
        BY <2>3, <2>5, <3>2, <4>1
    <3>4. t \in Seq(Segment) /\ t # << >>
      <4>1. t \in Seq(Segment) /\ Len(t) = n
        BY <1>2
      <4> HIDE DEF t, n
      <4> QED
        BY <2>1, <4>1
    <3>5. LinesOf(segs) = Append(LinesOf(t), l)
      <4> HIDE DEF y, t, z, n, q, l
      <4> QED
        BY <2>2, <3>2, <3>3, <3>4, LinesGrow
    <3> HIDE DEF l, q
    <3> QED
      BY <1>3, <1>4, <2>1, <2>5, <3>2, <3>5
  <2> QED
    BY <2>2, <2>4, <2>5
<1> QED
  BY <1>5, <1>6

-----------------------------------------------------------------------------
\* What holds of the log beside the types, by the faults of the behaviour.

\* Without kills and failed writes only a record under way is unsynced.
OneUnsynced ==
  "error" \notin kinds /\ "kill" \notin kinds =>
    unsynced = IF writer \in {"write", "sync"} THEN {Len(segs)} ELSE {}

\* The segments can be read and the writer's memory is what a reader would find.
WholeSegs == \A i \in DOMAIN segs : segs[i].tail = 0
InOrder ==
  Orderly =>
    /\ Readable
    /\ writer \in {"up", "write"} => events = Ids
    /\ writer = "sync" => Ids = Append(events, cur)
    /\ writer = "write" => cur \notin Range(events) /\ segs[Len(segs)].tail = 1
    /\ writer \in {"up", "sync"} => WholeSegs

\* An acknowledged record is complete, and not the one whose fsync is still to come.
Acknowledged ==
  Machine => /\ sure <= Len(AllLines)
             /\ writer = "sync" => sure < Len(AllLines)

LogInv == LogTyped /\ OneUnsynced /\ InOrder /\ Acknowledged

\* The faults of a behaviour are fixed.
LEMMA KindsFixed == [LogNext]_logVars => kinds' = kinds
<1> SUFFICES ASSUME [LogNext]_logVars PROVE kinds' = kinds
  OBVIOUS
<1>1. ASSUME NEW e, StartWrite(e) \/ AppendAgain(e) PROVE kinds' = kinds
  BY <1>1 DEF StartWrite, AppendAgain
<1>2. FinishWrite \/ Sync \/ Open \/ SaveEvidence => kinds' = kinds
  BY DEF FinishWrite, Sync, Open, SaveEvidence
<1>3. Truncate \/ Refuse \/ UNCHANGED logVars => kinds' = kinds
  BY DEF Truncate, Refuse, logVars
<1>4. KillWriter \/ LosePower \/ AppendFails => kinds' = kinds
  BY DEF KillWriter, LosePower, AppendFails, Fault
<1> QED
  BY <1>1, <1>2, <1>3, <1>4 DEF LogNext

\* Only kinds of the behaviour happen.
LEMMA FaultOfKind ==
  /\ KillWriter => "kill" \in kinds
  /\ LosePower => "power" \in kinds
  /\ AppendFails => "error" \in kinds
BY DEF KillWriter, LosePower, AppendFails, Fault

\* The unsynced segment is the one that is written.
LEMMA OneUnsyncedStep ==
  ASSUME LogTyped, OneUnsynced, [LogNext]_logVars
  PROVE  OneUnsynced'
<1> SUFFICES ASSUME "error" \notin kinds, "kill" \notin kinds
             PROVE  unsynced' = IF writer' \in {"write", "sync"} THEN {Len(segs')} ELSE {}
  BY KindsFixed DEF OneUnsynced
<1>1. unsynced = IF writer \in {"write", "sync"} THEN {Len(segs)} ELSE {}
  BY DEF OneUnsynced
<1>t. LogTypeOK
  BY DEF LogTyped
<1>2. ASSUME NEW e, StartWrite(e)
      PROVE  unsynced' = IF writer' \in {"write", "sync"} THEN {Len(segs')} ELSE {}
  <2>1. unsynced' = unsynced \cup {Len(segs')}
    BY <1>2, <1>t, StartWriteSegs
  <2>2. writer = "up" /\ writer' = "write"
    BY <1>2 DEF StartWrite
  <2> QED
    BY <1>1, <2>1, <2>2
<1>3. ASSUME NEW e, AppendAgain(e)
      PROVE  unsynced' = IF writer' \in {"write", "sync"} THEN {Len(segs')} ELSE {}
  BY <1>1, <1>3 DEF AppendAgain
<1>4. CASE FinishWrite
  <2>1. Len(segs') = Len(segs)
    BY <1>4, FinishWriteSegs
  <2> QED
    BY <1>1, <1>4, <2>1 DEF FinishWrite
<1>5. CASE Sync
  BY <1>1, <1>5 DEF Sync, Synced
<1>6. CASE Open
  BY <1>1, <1>6 DEF Open
<1>7. CASE SaveEvidence
  BY <1>1, <1>7 DEF SaveEvidence
<1>8. CASE Truncate
  BY <1>1, <1>8 DEF Truncate
<1>9. CASE Refuse
  BY <1>1, <1>9 DEF Refuse
<1>10. CASE LosePower
  BY <1>10 DEF LosePower, Dies
<1>11. CASE UNCHANGED logVars
  BY <1>1, <1>11 DEF logVars
<1>12. ~ KillWriter /\ ~ AppendFails
  BY FaultOfKind
<1> QED
  BY <1>2, <1>3, <1>4, <1>5, <1>6, <1>7, <1>8, <1>9, <1>10, <1>11, <1>12 DEF LogNext

\* When nothing but the tail of the last segment could be there, and it is not, no
\* segment is torn.
LEMMA TailGone ==
  ASSUME segs \in Seq(Segment), TornLast, segs' \in Seq(Segment), Len(segs') = Len(segs),
         segs'[Len(segs')].tail = 0,
         \A i \in 1 .. Len(segs) : i # Len(segs) => segs'[i] = segs[i]
  PROVE  WholeSegs' /\ TornLast'
<1>1. DOMAIN segs' = 1 .. Len(segs) /\ DOMAIN segs = 1 .. Len(segs)
  OBVIOUS
<1>2. ASSUME NEW i \in DOMAIN segs' PROVE segs'[i].tail = 0
  <2>1. CASE i = Len(segs)
    BY <2>1
  <2>2. CASE i # Len(segs)
    <3>1. segs'[i] = segs[i] /\ i \in DOMAIN segs
      BY <1>1, <2>2
    <3>2. ~ (segs[i].tail > 0)
      BY <2>2, <3>1 DEF TornLast
    <3>3. segs[i].tail \in 0 .. 2
      <4>1. segs[i] \in Segment
        BY <3>1
      <4> QED
        BY <4>1 DEF Segment
    <3> QED
      BY <3>1, <3>2, <3>3
  <2> QED
    BY <2>1, <2>2
<1> QED
  BY <1>2 DEF WholeSegs, TornLast

\* Every step leaves an orderly log readable.
LEMMA InOrderStep ==
  ASSUME LogTyped, OneUnsynced, InOrder, [LogNext]_logVars
  PROVE  InOrder'
<1> DEFINE Goal == /\ Readable'
                   /\ writer' \in {"up", "write"} => events' = Ids'
                   /\ writer' = "sync" => Ids' = Append(events', cur')
                   /\ writer' = "write" => /\ cur' \notin Range(events')
                                           /\ segs'[Len(segs')].tail = 1
                   /\ writer' \in {"up", "sync"} => WholeSegs'
<1> SUFFICES ASSUME Orderly PROVE Goal
  <2>1. Orderly' => Orderly
    BY KindsFixed DEF Orderly
  <2> QED
    BY <2>1 DEF InOrder, Range
<1>t. LogTypeOK
  BY DEF LogTyped
<1>0. /\ segs \in Seq(Segment) /\ Len(segs) \in Nat /\ DOMAIN segs = 1 .. Len(segs)
      /\ AllLines \in Seq(Row) /\ events \in Seq(Events)
  BY <1>t, SegmentsTyped, AllLinesAre DEF LogTypeOK
<1>1. /\ Readable
      /\ writer \in {"up", "write"} => events = Ids
      /\ writer = "sync" => Ids = Append(events, cur)
      /\ writer = "write" => cur \notin Range(events) /\ segs[Len(segs)].tail = 1
      /\ writer \in {"up", "sync"} => WholeSegs
  BY DEF InOrder
<1>2. /\ Ordered(AllLines) /\ Unique(AllLines) /\ TornLast
      /\ Ids = IdsOf(AllLines)
  BY <1>1, ReadableIs
<1>s. ASSUME UNCHANGED segs PROVE Readable' /\ Ids' = Ids /\ (WholeSegs => WholeSegs')
  <2>1. AllLines' = AllLines
    BY <1>s, AllLinesAre
  <2>2. (TornLast => TornLast') /\ (WholeSegs => WholeSegs')
    BY <1>s DEF TornLast, WholeSegs
  <2> QED
    BY <1>2, <2>1, <2>2, ReadableAfter
<1>3. ASSUME NEW e \in Events, StartWrite(e) PROVE Goal
  <2>1. writer = "up" /\ writer' = "write" /\ cur' = e /\ events' = events
    BY <1>3 DEF StartWrite
  <2>2. e \notin Range(events)
    BY <1>3 DEF StartWrite, New
  <2>3. /\ segs' \in Seq(Segment) /\ segs' # << >>
        /\ LinesOf(segs') = LinesOf(segs)
        /\ \/ Len(segs') = Len(segs)
           \/ Len(segs') = Len(segs) + 1
        /\ \A i \in 1 .. Len(segs') : i # Len(segs') =>
              i \in 1 .. Len(segs) /\ segs'[i].tail = segs[i].tail
        /\ (Len(segs') = Len(segs) + 1 \/ segs[Len(segs)].tail = 0) =>
              segs'[Len(segs')].tail = 1
    BY <1>3, <1>t, StartWriteSegs
  <2>4. WholeSegs
    BY <1>1, <2>1
  <2>5. segs'[Len(segs')].tail = 1
    <3>1. CASE Len(segs') = Len(segs) + 1
      BY <2>3, <3>1
    <3>2. CASE Len(segs') = Len(segs)
      <4>1. Len(segs') \in Nat /\ Len(segs') # 0
        BY <2>3
      <4>2. Len(segs) \in DOMAIN segs
        BY <1>0, <3>2, <4>1
      <4> QED
        BY <2>3, <2>4, <4>2 DEF WholeSegs
    <3> QED
      BY <2>3, <3>1, <3>2
  <2>6. TornLast'
    <3>1. DOMAIN segs' = 1 .. Len(segs')
      BY <2>3
    <3>2. ASSUME NEW i \in DOMAIN segs', segs'[i].tail > 0, i # Len(segs') PROVE FALSE
      <4>1. i \in 1 .. Len(segs) /\ segs'[i].tail = segs[i].tail
        BY <2>3, <3>1, <3>2
      <4>2. segs[i].tail = 0
        BY <1>0, <2>4, <4>1 DEF WholeSegs
      <4> QED
        BY <3>2, <4>1, <4>2
    <3> QED
      BY <3>2 DEF TornLast
  <2>7. AllLines' = AllLines
    BY <2>3, AllLinesAre
  <2>8. Readable' /\ Ids' = Ids
    BY <1>2, <2>6, <2>7, ReadableAfter
  <2> QED
    BY <1>1, <2>1, <2>2, <2>5, <2>8
<1>4. ASSUME NEW e \in Events, AppendAgain(e) PROVE Goal
  BY <1>1, <1>4, <1>s DEF AppendAgain
<1>5. CASE FinishWrite
  <2>1. writer = "write" /\ writer' = "sync" /\ cur' = cur /\ events' = events
    BY <1>5 DEF FinishWrite
  <2>2. /\ segs' \in Seq(Segment) /\ segs' # << >> /\ Len(segs') = Len(segs)
        /\ segs'[Len(segs')].tail = 0
        /\ \A i \in 1 .. Len(segs) : i # Len(segs) => segs'[i] = segs[i]
        /\ \E l \in Row :
             /\ LinesOf(segs') = Append(LinesOf(segs), l)
             /\ segs[Len(segs)].tail = 1 => l = [n |-> Len(events), id |-> cur]
    BY <1>5, FinishWriteSegs
  <2>3. PICK l \in Row : /\ AllLines' = Append(AllLines, l)
                         /\ l = [n |-> Len(events), id |-> cur]
    <3>1. segs[Len(segs)].tail = 1
      BY <1>1, <2>1
    <3> QED
      BY <2>2, <3>1, AllLinesAre
  <2>4. /\ events = IdsOf(AllLines) /\ cur \notin Range(IdsOf(AllLines))
        /\ cur \in Events
    <3>1. cur \in Events
      BY <1>t, <2>1 DEF LogTypeOK
    <3> QED
      BY <1>1, <1>2, <2>1, <3>1
  <2>5. Len(events) = Len(AllLines)
    BY <1>0, <1>2, <2>4, IdsTyped DEF IdsOf, Ordered
  <2>6. /\ IdsOf(Append(AllLines, l)) = Append(IdsOf(AllLines), cur)
        /\ Ordered(Append(AllLines, l)) /\ Unique(Append(AllLines, l))
    <3> DEFINE r == AllLines
    <3>1. /\ r \in Seq(Row) /\ Ordered(r) /\ Unique(r) /\ l = [n |-> Len(r), id |-> cur]
          /\ cur \in Events /\ cur \notin Range(IdsOf(r))
      BY <1>0, <1>2, <2>3, <2>4, <2>5
    <3> HIDE DEF r
    <3>2. /\ IdsOf(Append(r, l)) = Append(IdsOf(r), cur)
          /\ Ordered(Append(r, l)) /\ Unique(Append(r, l))
      BY <3>1, RecordFits
    <3> QED
      BY <3>2 DEF r
  <2>7. WholeSegs' /\ TornLast'
    BY <1>0, <1>2, <2>2, TailGone
  <2>8. Readable' /\ Ids' = Append(events', cur')
    BY <2>1, <2>3, <2>4, <2>6, <2>7, ReadableAfter
  <2> QED
    BY <2>1, <2>7, <2>8
<1>6. CASE Sync
  <2>1. writer = "sync" /\ writer' = "up" /\ UNCHANGED segs /\ events' = Append(events, cur)
    BY <1>6 DEF Sync
  <2> QED
    BY <1>1, <1>s, <2>1
<1>7. CASE Open
  <2>1. writer' = "up" /\ UNCHANGED segs /\ events' = Ids /\ ~ Torn
    BY <1>7 DEF Open
  <2>2. WholeSegs
    <3>1. ASSUME NEW i \in DOMAIN segs PROVE segs[i].tail = 0
      <4>1. segs[i].tail \in 0 .. 2 /\ segs # << >>
        <5>1. segs[i] \in Segment /\ segs # << >>
          BY <1>0
        <5> QED
          BY <5>1 DEF Segment
      <4>2. CASE segs[i].tail > 0
        <5>1. i = Len(segs)
          BY <1>2, <4>2 DEF TornLast
        <5> QED
          BY <2>1, <4>1, <4>2, <5>1 DEF Torn, Last
      <4> QED
        BY <4>1, <4>2
    <3> QED
      BY <3>1 DEF WholeSegs
  <2> QED
    BY <1>s, <2>1, <2>2
<1>8. CASE SaveEvidence
  BY <1>8, <1>s DEF SaveEvidence
<1>9. CASE Truncate
  <2>1. writer' = "up" /\ events' = Ids'
    BY <1>9 DEF Truncate
  <2>2. /\ segs' \in Seq(Segment) /\ segs' # << >> /\ Len(segs') = Len(segs)
        /\ segs'[Len(segs')].tail = 0
        /\ \A i \in 1 .. Len(segs) : i # Len(segs) => segs'[i] = segs[i]
        /\ LinesOf(segs') = LinesOf(segs)
    BY <1>9, TruncateSegs
  <2>3. WholeSegs' /\ TornLast'
    BY <1>0, <1>2, <2>2, TailGone
  <2>4. AllLines' = AllLines
    BY <2>2, AllLinesAre
  <2>5. Readable'
    BY <1>2, <2>3, <2>4, ReadableAfter
  <2> QED
    BY <2>1, <2>3, <2>5
<1>10. CASE Refuse
  BY <1>10, <1>s DEF Refuse
<1>11. CASE KillWriter
  BY <1>11, <1>s DEF KillWriter, Dies
<1>12. CASE LosePower
  <2>1. writer' = "down"
    BY <1>12 DEF LosePower, Dies
  <2>2. unsynced \subseteq {Len(segs)}
    BY <1>12, FaultOfKind DEF OneUnsynced, Orderly
  <2>3. /\ LinesOf(segs') \in Seq(Row)
        /\ \A i \in 1 .. Len(segs) : i # Len(segs) => segs'[i] = segs[i]
        /\ \/ LinesOf(segs') = LinesOf(segs)
           \/ \E l \in Row : LinesOf(segs) = Append(LinesOf(segs'), l)
    BY <1>12, <1>t, <2>2, PowerLossLines
  <2>4. segs' \in Seq(Segment) /\ Len(segs') = Len(segs)
    BY <1>12, <1>t, PowerLossSegs
  <2>5. TornLast'
    <3>1. DOMAIN segs' = 1 .. Len(segs)
      BY <2>4
    <3>2. ASSUME NEW i \in DOMAIN segs', segs'[i].tail > 0 PROVE i = Len(segs')
      BY <1>0, <1>2, <2>3, <2>4, <3>1, <3>2 DEF TornLast
    <3> QED
      BY <3>2 DEF TornLast
  <2>6. Ordered(LinesOf(segs')) /\ Unique(LinesOf(segs'))
    <3> DEFINE r == LinesOf(segs')
    <3>1. CASE r = LinesOf(segs)
      BY <1>2, <3>1, AllLinesAre
    <3>2. ASSUME NEW l \in Row, LinesOf(segs) = Append(r, l) PROVE Ordered(r) /\ Unique(r)
      <4>1. r \in Seq(Row) /\ Ordered(Append(r, l)) /\ Unique(Append(r, l))
        BY <1>2, <2>3, <3>2, AllLinesAre
      <4> HIDE DEF r
      <4> QED
        BY <4>1, LineLost
    <3> QED
      BY <2>3, <3>1, <3>2
  <2>7. Readable'
    BY <2>5, <2>6, AllLinesAre, ReadableAfter
  <2> QED
    BY <2>1, <2>7
<1>13. CASE UNCHANGED logVars
  BY <1>1, <1>13, <1>s DEF logVars
<1>14. ~ AppendFails
  BY FaultOfKind DEF Orderly
<1> HIDE DEF Goal
<1> QED
  BY <1>3, <1>4, <1>5, <1>6, <1>7, <1>8, <1>9, <1>10, <1>11, <1>12, <1>13, <1>14 DEF LogNext

\* An acknowledged record stays, and the one a power loss takes was not acknowledged.
LEMMA AcknowledgedStep ==
  ASSUME LogInv, LogTyped', [LogNext]_logVars
  PROVE  Acknowledged'
<1> SUFFICES ASSUME Machine
             PROVE  /\ sure' <= Len(AllLines')
                    /\ writer' = "sync" => sure' < Len(AllLines')
  <2>1. Machine' => Machine
    BY KindsFixed DEF Machine
  <2> QED
    BY <2>1 DEF Acknowledged
<1>t. LogTyped /\ LogTypeOK /\ OneUnsynced /\ InOrder
  BY DEF LogInv, LogTyped
<1>k. "error" \notin kinds /\ "kill" \notin kinds /\ Orderly
  BY DEF Machine, Orderly
<1>0. /\ sure <= Len(AllLines)
      /\ writer = "sync" => sure < Len(AllLines)
      /\ sure \in Nat /\ events \in Seq(Events)
      /\ AllLines \in Seq(Row) /\ Len(AllLines) \in Nat
  <2>1. AllLines \in Seq(Row) /\ sure \in Nat /\ events \in Seq(Events)
    BY <1>t, SegmentsTyped, AllLinesAre DEF LogTypeOK
  <2> QED
    BY <2>1 DEF LogInv, Acknowledged
<1>1. /\ Len(Ids) = Len(AllLines)
      /\ writer = "up" => events = Ids
      /\ writer = "sync" => Ids = Append(events, cur)
  <2>1. Ordered(AllLines) /\ Ids = IdsOf(AllLines)
    BY <1>t, <1>k, ReadableIs DEF InOrder
  <2>2. Len(Ids) = Len(AllLines)
    BY <1>0, <2>1, IdsTyped DEF IdsOf, Ordered
  <2> QED
    BY <1>t, <1>k, <2>2 DEF InOrder
<1>2. ASSUME NEW e, StartWrite(e)
      PROVE  sure' <= Len(AllLines') /\ writer' # "sync"
  <2>1. sure' = sure /\ writer' = "write"
    BY <1>2 DEF StartWrite
  <2>2. AllLines' = AllLines
    BY <1>2, <1>t, StartWriteSegs, AllLinesAre
  <2> QED
    BY <1>0, <2>1, <2>2
<1>3. ASSUME NEW e, AppendAgain(e)
      PROVE  sure' <= Len(AllLines') /\ writer' # "sync"
  <2>1. writer = "up" /\ writer' = "up" /\ UNCHANGED segs
    BY <1>3 DEF AppendAgain
  <2>2. AllLines' = AllLines
    BY <2>1, AllLinesAre
  <2>3. sure' = sure \/ sure' \in 1 .. Len(events)
    BY <1>3, <1>t, AgainCounts
  <2>4. Len(events) = Len(AllLines)
    BY <1>1, <2>1
  <2> QED
    BY <1>0, <2>1, <2>2, <2>3, <2>4
<1>4. ASSUME FinishWrite PROVE sure' < Len(AllLines')
  <2>1. sure' = sure
    BY <1>4 DEF FinishWrite
  <2>2. PICK l \in Row : AllLines' = Append(AllLines, l)
    BY <1>4, <1>t, FinishWriteSegs, AllLinesAre
  <2>3. Len(Append(AllLines, l)) = Len(AllLines) + 1
    BY <1>0
  <2> QED
    BY <1>0, <2>1, <2>2, <2>3
<1>5. ASSUME Sync PROVE sure' <= Len(AllLines') /\ writer' # "sync"
  <2>1. /\ writer = "sync" /\ writer' = "up" /\ UNCHANGED segs
        /\ sure' = Len(events) + 1
    BY <1>5 DEF Sync
  <2>2. Len(AllLines) = Len(events) + 1
    BY <1>0, <1>1, <2>1
  <2>3. AllLines' = AllLines
    BY <2>1, AllLinesAre
  <2> QED
    BY <1>0, <2>1, <2>2, <2>3
<1>6. ASSUME UNCHANGED sure, AllLines' = AllLines, writer' # "sync"
      PROVE  sure' <= Len(AllLines') /\ writer' # "sync"
  BY <1>0, <1>6
<1>7. CASE Open \/ SaveEvidence \/ Refuse
  <2>1. UNCHANGED <<segs, sure>> /\ writer' # "sync"
    BY <1>7 DEF Open, SaveEvidence, Refuse
  <2> QED
    BY <1>6, <2>1, AllLinesAre
<1>8. CASE Truncate
  <2>1. UNCHANGED sure /\ writer' # "sync"
    BY <1>8 DEF Truncate
  <2>2. AllLines' = AllLines
    BY <1>8, <1>t, TruncateSegs, AllLinesAre
  <2> QED
    BY <1>6, <2>1, <2>2
<1>9. ASSUME LosePower PROVE sure' <= Len(AllLines') /\ writer' # "sync"
  <2>1. writer' = "down" /\ sure' = sure
    BY <1>9 DEF LosePower, Dies
  <2>2. unsynced = IF writer \in {"write", "sync"} THEN {Len(segs)} ELSE {}
    BY <1>t, <1>k DEF OneUnsynced
  <2>3. /\ LinesOf(segs') \in Seq(Row)
        /\ \/ LinesOf(segs') = LinesOf(segs)
           \/ /\ unsynced = {Len(segs)} /\ segs[Len(segs)].tail = 0
              /\ \E l \in Row : LinesOf(segs) = Append(LinesOf(segs'), l)
    BY <1>9, <1>t, <2>2, PowerLossLines
  <2>4. CASE LinesOf(segs') = LinesOf(segs)
    BY <1>6, <2>1, <2>4, AllLinesAre
  <2>5. CASE LinesOf(segs') # LinesOf(segs)
    <3>1. PICK l \in Row : AllLines = Append(AllLines', l)
      BY <2>3, <2>5, AllLinesAre
    <3>2. writer = "sync"
      <4>1. writer # "write"
        BY <1>t, <1>k, <2>3, <2>5 DEF InOrder
      <4> QED
        BY <2>2, <2>3, <2>5, <4>1
    <3>3. Len(AllLines') \in Nat /\ Len(AllLines) = Len(AllLines') + 1
      <4> DEFINE r == AllLines'
      <4>1. r \in Seq(Row) /\ AllLines = Append(r, l)
        BY <2>3, <3>1, AllLinesAre
      <4> HIDE DEF r
      <4>2. Len(r) \in Nat /\ Len(AllLines) = Len(r) + 1
        BY <4>1
      <4> QED
        BY <4>2 DEF r
    <3> QED
      BY <1>0, <2>1, <3>2, <3>3
  <2> QED
    BY <2>4, <2>5
<1>10. CASE UNCHANGED logVars
  <2>1. UNCHANGED <<segs, sure, writer>>
    BY <1>10 DEF logVars
  <2>2. AllLines' = AllLines
    BY <2>1, AllLinesAre
  <2> QED
    BY <1>0, <2>1, <2>2
<1>11. ~ KillWriter /\ ~ AppendFails
  BY <1>k, FaultOfKind
<1>12. ASSUME sure' < Len(AllLines') PROVE sure' <= Len(AllLines')
  <2>1. sure' \in Nat /\ Len(AllLines') \in Nat
    <3>1. LogTypeOK'
      BY DEF LogTyped
    <3>2. sure' \in Nat /\ segs' \in Seq(Segment)
      BY <3>1 DEF LogTypeOK, Segment, Row
    <3>3. [lines |-> << >>, tail |-> 0] \in Segment
      BY DEF Segment
    <3>4. LinesOf(segs') \in Seq(Row)
      BY <3>2, <3>3, LinesAppend
    <3> QED
      BY <3>2, <3>4, AllLinesAre
  <2> QED
    BY <1>12, <2>1
<1> QED
  BY <1>2, <1>3, <1>4, <1>5, <1>7, <1>8, <1>9, <1>10, <1>11, <1>12 DEF LogNext

\* For all constants, the inductive invariant of the log: types; without kills and failed
\* writes only a record under way is unsynced; without failed writes, and without kills
\* or without power losses, the segments can be read and the memory is what a reader
\* finds; and when every crash is a power loss, acknowledged records are complete.
\* (append, __init__)
THEOREM LogInvariance == LogSpec => []LogInv
<1>1. LogInit => OneUnsynced /\ InOrder /\ Acknowledged
  <2> SUFFICES ASSUME LogInit PROVE OneUnsynced /\ InOrder /\ Acknowledged
    OBVIOUS
  <2>1. segs = << >> /\ unsynced = {} /\ writer = "up" /\ events = << >> /\ sure = 0
    BY DEF LogInit
  <2>2. AllLines = << >>
    BY <2>1, LinesEmpty, AllLinesAre
  <2>3. Ids = << >> /\ Readable
    <3>1. IdsOf(<< >>) = << >> /\ Ordered(<< >>) /\ Unique(<< >>)
      BY DEF IdsOf, Ordered, Unique, IsInjective
    <3>2. TornLast
      BY <2>1 DEF TornLast
    <3> QED
      BY <2>2, <3>1, <3>2, ReadableIs
  <2>4. OneUnsynced
    BY <2>1 DEF OneUnsynced
  <2>5. WholeSegs
    BY <2>1 DEF WholeSegs
  <2>6. InOrder
    BY <2>1, <2>3, <2>5 DEF InOrder
  <2>7. Len(<< >>) = 0
    OBVIOUS
  <2>8. Acknowledged
    BY <2>1, <2>2, <2>7 DEF Acknowledged
  <2> QED
    BY <2>4, <2>6, <2>8
<1>2. LogInv /\ LogTyped' /\ [LogNext]_logVars => LogInv'
  <2> SUFFICES ASSUME LogInv, LogTyped', [LogNext]_logVars PROVE LogInv'
    OBVIOUS
  <2>1. LogTyped /\ OneUnsynced /\ InOrder
    BY DEF LogInv
  <2>2. OneUnsynced' /\ InOrder'
    BY <2>1, OneUnsyncedStep, InOrderStep
  <2>3. Acknowledged'
    BY AcknowledgedStep
  <2> QED
    BY <2>2, <2>3 DEF LogInv
<1>3. LogTyped /\ OneUnsynced /\ InOrder /\ Acknowledged => LogInv
  BY DEF LogInv
<1> QED
  BY <1>1, <1>2, <1>3, LogTypeInvariance, PTL DEF LogSpec

\* For all constants, the next process can read the log unless a write failed in a
\* writer that went on, or kills met power losses.  (append, __init__)
THEOREM LogSafeHolds == LogSpec => []LogSafe
<1>1. LogInv => LogSafe
  BY DEF LogInv, LogTyped, InOrder, LogSafe, AlwaysReadable
<1> QED
  BY <1>1, LogInvariance, PTL

-----------------------------------------------------------------------------
\* What the abstract log is told: identities, when every crash is a power loss.
AbsLog  == IF Machine THEN Ids ELSE << >>
AbsSure == IF Machine THEN sure ELSE 0

\* Every step of the log is a step of the abstract one, or leaves it as it is.
LEMMA LogStepImplements ==
  ASSUME LogInv, LogInv', [LogNext]_logVars
  PROVE  [Evidence!Next]_(<<AbsLog, AbsSure>>)
<1> DEFINE Goal == [Evidence!Next]_(<<AbsLog, AbsSure>>)
<1>k. Machine' <=> Machine
  BY KindsFixed DEF Machine
<1>1. CASE ~ Machine
  BY <1>1, <1>k DEF AbsLog, AbsSure
<1>2. CASE Machine
  <2>t. LogTyped /\ LogTypeOK /\ InOrder /\ OneUnsynced
    BY DEF LogInv, LogTyped
  <2>k. "error" \notin kinds /\ "kill" \notin kinds /\ Orderly
    BY <1>2 DEF Machine, Orderly
  <2>i. AbsLog = Ids /\ AbsLog' = Ids' /\ AbsSure = sure /\ AbsSure' = sure'
    BY <1>2, <1>k DEF AbsLog, AbsSure
  <2>0. /\ Ordered(AllLines) /\ Unique(AllLines) /\ Ids = IdsOf(AllLines)
        /\ AllLines \in Seq(Row) /\ sure \in Nat /\ sure' \in Nat
        /\ sure <= Len(AllLines) /\ sure' <= Len(AllLines')
    <3>1. Ordered(AllLines) /\ Unique(AllLines) /\ Ids = IdsOf(AllLines)
      BY <2>t, <2>k, ReadableIs DEF InOrder
    <3>2. AllLines \in Seq(Row) /\ sure \in Nat
      BY <2>t, SegmentsTyped, AllLinesAre DEF LogTypeOK
    <3>3. sure' \in Nat
      BY DEF LogInv, LogTyped, LogTypeOK
    <3>4. sure <= Len(AllLines) /\ sure' <= Len(AllLines')
      BY <1>2, <1>k DEF LogInv, Acknowledged
    <3> QED
      BY <3>1, <3>2, <3>3, <3>4
  <2>1. Ids \in Seq(Events) /\ Len(Ids) = Len(AllLines)
    BY <2>0, IdsTyped DEF IdsOf, Ordered
  <2>2. ASSUME AllLines' = AllLines, sure' >= sure PROVE Goal
    <3>1. Ids' = Ids
      BY <2>0, <2>2, ReadableAfter
    <3>2. sure' \in sure .. Len(Ids)
      BY <2>0, <2>1, <2>2
    <3>3. Evidence!Acknowledge
      BY <1>2, <1>k, <3>1, <3>2 DEF Evidence!Acknowledge
    <3> QED
      BY <3>3 DEF Evidence!Next
  <2>3. ASSUME UNCHANGED <<segs, sure>> PROVE Goal
    BY <2>0, <2>2, <2>3, AllLinesAre
  <2>4. ASSUME NEW e, StartWrite(e) PROVE Goal
    <3>1. sure' = sure
      BY <2>4 DEF StartWrite
    <3>2. AllLines' = AllLines
      BY <2>4, <2>t, StartWriteSegs, AllLinesAre
    <3> QED
      BY <2>0, <2>2, <3>1, <3>2
  <2>5. ASSUME NEW e, AppendAgain(e) PROVE Goal
    <3>1. UNCHANGED segs
      BY <2>5 DEF AppendAgain
    <3>2. sure' >= sure
      BY <2>5, <2>t, AgainCounts
    <3> QED
      BY <2>2, <3>1, <3>2, AllLinesAre
  <2>6. ASSUME FinishWrite PROVE Goal
    <3>1. writer = "write" /\ sure' = sure
      BY <2>6 DEF FinishWrite
    <3>2. /\ events = Ids /\ cur \notin Range(events)
          /\ segs[Len(segs)].tail = 1 /\ cur \in Events
      <4>1. cur \in Events
        BY <2>t, <3>1 DEF LogTypeOK
      <4> QED
        BY <2>t, <2>k, <3>1, <4>1 DEF InOrder
    <3>3. PICK l \in Row : /\ AllLines' = Append(AllLines, l)
                           /\ l = [n |-> Len(events), id |-> cur]
      BY <2>6, <2>t, <3>2, FinishWriteSegs, AllLinesAre
    <3>4. Ids' = Append(Ids, cur)
      <4> DEFINE r == AllLines
      <4>1. /\ r \in Seq(Row) /\ Ordered(r) /\ Unique(r) /\ l = [n |-> Len(r), id |-> cur]
            /\ cur \in Events /\ cur \notin Range(IdsOf(r))
        BY <2>0, <2>1, <3>2, <3>3
      <4> HIDE DEF r
      <4>2. IdsOf(Append(r, l)) = Append(IdsOf(r), cur)
        BY <4>1, RecordFits
      <4> QED
        BY <2>0, <3>3, <4>2, ReadableAfter DEF r
    <3>5. Evidence!Write(cur)
      <4>1. cur \notin Evidence!Range(Ids)
        BY <3>2 DEF Range, Evidence!Range
      <4> QED
        BY <1>2, <1>k, <3>1, <3>4, <4>1 DEF Evidence!Write
    <3> QED
      BY <3>2, <3>5 DEF Evidence!Next
  <2>7. ASSUME Sync PROVE Goal
    <3>1. writer = "sync" /\ UNCHANGED segs /\ sure' = Len(events) + 1
      BY <2>7 DEF Sync
    <3>2. Len(AllLines) = Len(events) + 1
      <4>1. Ids = Append(events, cur) /\ events \in Seq(Events)
        BY <2>t, <2>k, <3>1 DEF InOrder, LogTypeOK
      <4> QED
        BY <2>1, <4>1
    <3> QED
      BY <2>0, <2>2, <3>1, <3>2, AllLinesAre
  <2>8. ASSUME Open \/ SaveEvidence \/ Refuse PROVE Goal
    BY <2>3, <2>8 DEF Open, SaveEvidence, Refuse
  <2>9. ASSUME Truncate PROVE Goal
    <3>1. sure' = sure
      BY <2>9 DEF Truncate
    <3>2. AllLines' = AllLines
      BY <2>9, <2>t, TruncateSegs, AllLinesAre
    <3> QED
      BY <2>0, <2>2, <3>1, <3>2
  <2>10. ASSUME LosePower PROVE Goal
    <3>1. sure' = sure
      BY <2>10 DEF LosePower, Dies
    <3>2. unsynced \subseteq {Len(segs)}
      BY <2>t, <2>k DEF OneUnsynced
    <3>3. /\ AllLines' \in Seq(Row)
          /\ \/ AllLines' = AllLines
             \/ \E l \in Row : AllLines = Append(AllLines', l)
      BY <2>10, <2>t, <3>2, PowerLossLines, AllLinesAre
    <3>4. CASE AllLines' = AllLines
      BY <2>0, <2>2, <3>1, <3>4
    <3>5. ASSUME NEW l \in Row, AllLines = Append(AllLines', l) PROVE Goal
      <4> DEFINE r == AllLines'
                 n == Len(r)
      <4>1. r \in Seq(Row) /\ Ordered(Append(r, l)) /\ Unique(Append(r, l)) /\ n \in Nat
        BY <2>0, <3>3, <3>5
      <4>2. Ids' = IdsOf(r) /\ Ids = IdsOf(Append(r, l))
        BY <2>0, <3>5, ReadableAfter
      <4>3. IdsOf(r) = SubSeq(IdsOf(Append(r, l)), 1, n)
            /\ Len(IdsOf(Append(r, l))) = n + 1
        <5> HIDE DEF r
        <5> QED
          BY <4>1, LineLost
      <4>4. n \in sure .. Len(Ids)
        <5>1. sure <= n
          BY <2>0, <3>1
        <5> HIDE DEF n, r
        <5> QED
          BY <2>0, <4>1, <4>2, <4>3, <5>1
      <4>5. Ids' = SubSeq(Ids, 1, n)
        BY <4>2, <4>3
      <4> HIDE DEF n, r
      <4>6. Evidence!Lose
        BY <1>2, <1>k, <3>1, <4>4, <4>5 DEF Evidence!Lose
      <4> QED
        BY <4>6 DEF Evidence!Next
    <3> QED
      BY <3>3, <3>4, <3>5
  <2>11. ASSUME UNCHANGED logVars PROVE Goal
    BY <2>3, <2>11 DEF logVars
  <2>12. ~ KillWriter /\ ~ AppendFails
    BY <2>k, FaultOfKind
  <2> HIDE DEF Goal
  <2>13. Goal
    BY <2>4, <2>5, <2>6, <2>7, <2>8, <2>9, <2>10, <2>11, <2>12 DEF LogNext
  <2> QED
    BY <2>13 DEF Goal
<1> QED
  BY <1>1, <1>2

\* For all constants, when every crash is a power loss the log implements the promise of
\* DurableLog: no identity comes twice, records only accumulate, and a record whose
\* append was acknowledged is found at its place for ever.  (append, __init__)
THEOREM KeepsEvidenceHolds == LogSpec => KeepsEvidence
<1>1. LogInit => AbsLog = << >> /\ AbsSure = 0
  <2> SUFFICES ASSUME LogInit PROVE AbsLog = << >> /\ AbsSure = 0
    OBVIOUS
  <2>1. segs = << >> /\ sure = 0
    BY DEF LogInit
  <2>2. AllLines = << >>
    BY <2>1, LinesEmpty, AllLinesAre
  <2>3. Ids = << >>
    BY <2>2, ReadableIs DEF IdsOf
  <2> QED
    BY <2>1, <2>3 DEF AbsLog, AbsSure
<1>2. LogInit => Evidence!Init
  BY <1>1 DEF Evidence!Init, AbsLog, AbsSure
<1>3. LogInv /\ LogInv' /\ [LogNext]_logVars => [Evidence!Next]_(<<AbsLog, AbsSure>>)
  BY LogStepImplements
<1> QED
  BY <1>2, <1>3, LogInvariance, PTL
  DEF LogSpec, KeepsEvidence, Evidence!Spec, AbsLog, AbsSure
=============================================================================
