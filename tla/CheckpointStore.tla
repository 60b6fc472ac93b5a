--------------------------- MODULE CheckpointStore ---------------------------
(***************************************************************************)
(* CheckpointStore of tracking/training_checkpoint.py: save(), prune(),    *)
(* recover(), and its subclass QualifiedCheckpointStore: save_learning(),  *)
(* prune_learning(), recover_learning(), which has a third file between    *)
(* blob and manifest, no pin, and a recovery that only looks at manifests. *)
(* One process at a time uses a store.  It may be killed                   *)
(* between any two file operations, and the machine may lose power: then   *)
(* the directory operations that no fsync covered survive in any           *)
(* combination.  An operation that the code follows by an fsync of the     *)
(* root before it does anything else is one step here, and a crash leaves  *)
(* the names of before or of after it.  _quarantine syncs the root and the *)
(* directory it makes in quarantine/, never quarantine/ itself: the file   *)
(* leaves the root for good, but its place in quarantine may be gone after *)
(* a power loss.                                                           *)
(*                                                                         *)
(* Left out: a kill between an operation and its fsync, followed by a      *)
(* qualified recovery (which syncs nothing) and by a power loss; what is   *)
(* lost then is the last generation, whose save did not return.  And a     *)
(* power loss within _quarantine that leaves the file in both places.      *)
(*                                                                         *)
(* A generation is told by its place in the order of saves, and number is  *)
(* the one in the names of its files, which may be given twice.            *)
(*                                                                         *)
(* A generation is complete when its files are there and pass the loader   *)
(* of the class; storage may damage a published blob.                      *)
(***************************************************************************)
EXTENDS Integers, FiniteSets, FiniteSetsExt

CONSTANTS MaxGeneration,  \* bound: saves of one run
          MaxCrashes,     \* bound: kills and power losses
          MaxDamage,      \* bound: blobs damaged by the storage
          None

ASSUME BoundsOK == /\ MaxGeneration \in Nat /\ MaxCrashes \in Nat /\ MaxDamage \in Nat
                   /\ None \notin Nat

Generations == 0..MaxGeneration

\* File names: .pending-<n>, <n>.pt, <n>-base.json, <n>.json, in the root or in quarantine/*/
Pending(g)  == <<"pending", g>>
Blob(g)     == <<"blob", g>>
Manifest(g) == <<"manifest", g>>
Base(g)     == <<"base", g>>

VARIABLES
  kind,      \* the class of the store, "foundation" or "qualified"
  disk,      \* the names in the root that survive any crash
  volatile,  \* directory operations on the root not covered by an fsync yet
  jail,      \* the files in quarantine/*/ whose names the numbering reads
  loose,     \* those whose directory in quarantine/ no fsync covers
  number,    \* the number in the names of a generation's files
  damaged,   \* generations whose published blob is not what was written
  final,     \* final.json
  pc, gen, doomed,   \* the process: where it is, its generation, what prune deletes
  wantFinal,         \* argument final of save()
  resumed,           \* the generation recover() returned last
  error,             \* what the last call raised
  acked,             \* history: generations whose save() returned
  published,         \* history: generations whose manifest was ever linked
  forgotten,         \* history: those whose quarantined manifest a power loss took
  crashes

cells == <<jail, loose, forgotten>>

vars == <<kind, disk, volatile, cells, number, damaged, final, pc, gen, doomed, wantFinal,
          resumed, error, acked, published, crashes>>

\* What most steps leave alone: the class of the store, the numbers and the histories.
background == <<kind, number, acked, published, crashes>>

Apply(names, ops) == (names \ UNION {op.del : op \in ops}) \cup UNION {op.add : op \in ops}
Dir == Apply(disk, volatile)    \* what the running system sees

Manifests(names) == {g \in Generations : Manifest(g) \in names}
Qualified == kind = "qualified"
Parts(g) == {Manifest(g), Blob(g)} \cup (IF Qualified THEN {Base(g)} ELSE {})
Valid(names, g)  == Parts(g) \subseteq names /\ g \notin damaged
Complete(names)  == {g \in Generations : Valid(names, g)}

\* What the names may be after a power loss.
Survivors == {Apply(disk, kept) : kept \in SUBSET volatile}

TypeOK ==
  /\ kind \in {"foundation", "qualified"}
  /\ disk \cup jail \subseteq {"pending", "blob", "base", "manifest"} \X Generations
  /\ loose \subseteq jail /\ forgotten \subseteq published
  /\ number \in [Generations -> Generations]
  /\ \A op \in volatile : op.add \cap op.del = {}
  /\ damaged \subseteq Generations /\ final \in Generations \cup {None}
  /\ pc \in {"up", "write", "blob", "base", "manifest", "latest", "pin", "prune", "unlink",
             "unlinkBase", "unlinkManifest", "down", "lost"}
  /\ gen \in Generations \cup {None} /\ doomed \subseteq Generations
  /\ resumed \in Generations \cup {None} /\ wantFinal \in BOOLEAN
  /\ error \in {"none", "quota", "invalid", "missing"}
  /\ acked \subseteq published /\ published \subseteq Generations /\ crashes \in 0..MaxCrashes

Init ==
  /\ kind \in {"foundation", "qualified"}
  /\ disk = {} /\ volatile = {} /\ jail = {} /\ loose = {} /\ forgotten = {}
  /\ number = [g \in Generations |-> 0] /\ damaged = {} /\ final = None
  /\ pc = "up" /\ gen = None /\ doomed = {} /\ wantFinal = FALSE
  /\ resumed = None /\ error = "none"
  /\ acked = {} /\ published = {} /\ crashes = 0

-----------------------------------------------------------------------------
Op(add, del) == [add |-> add, del |-> del]

\* A directory operation followed at once by an fsync of the directory.
Durably(op) == disk' = Apply(Apply(disk, volatile), {op}) /\ volatile' = {}

\* A directory operation that nothing has synced yet.
Lazily(op) == volatile' = volatile \cup {op} /\ UNCHANGED disk

Raise(reason) ==
  /\ pc' = "down" /\ error' = reason /\ gen' = None /\ doomed' = {} /\ wantFinal' = FALSE
  /\ UNCHANGED <<cells, damaged, final, resumed, background>>

\* The files in whose names the numbering looks for numbers: the manifest, but a qualified
\* store takes the name of any file.
Named(g) == {Manifest(g)} \cup IF Qualified THEN {Pending(g), Blob(g), Base(g)} ELSE {}

Later(S) == IF S = {} THEN 0 ELSE Max(S) + 1

NextGeneration_root == Later({number[g] : g \in Manifests(Dir)}) \* mutant: quarantine not searched

\* One more than every number under the root, the quarantined ones included.
Used == {g \in Generations : Named(g) \cap (Dir \cup jail) # {}}
NextGeneration == Later({number[g] : g \in Used})

Begin ==
  /\ pc = "up" /\ Later(published \cup Used) \in Generations
  /\ wantFinal' \in BOOLEAN /\ (Qualified => ~wantFinal')
  /\ pc' = "write" /\ gen' = Later(published \cup Used) /\ error' = "none"
  /\ number' = [number EXCEPT ![gen'] = NextGeneration]
  /\ UNCHANGED <<disk, volatile, cells, damaged, final, doomed, resumed,
                 kind, acked, published, crashes>>

\* No room for two more blobs, or (not looked at again by save_learning) the run is over its
\* quota once this one is written.
QuotaExhausted ==
  /\ pc = "write" \/ (pc = "blob" /\ ~Qualified)
  /\ Raise("quota") /\ UNCHANGED <<disk, volatile>>

WriteBlob ==
  /\ pc = "write" /\ pc' = "blob"
  /\ Lazily(Op({Pending(gen)}, {}))
  /\ UNCHANGED <<cells, damaged, final, gen, doomed, wantFinal, resumed, error, background>>

PublishBlob ==
  /\ pc = "blob" /\ pc' = IF Qualified THEN "base" ELSE "manifest"
  /\ Durably(Op({Blob(gen)}, {Pending(gen)}))
  /\ damaged' = damaged \ {gen}
  /\ UNCHANGED <<cells, final, gen, doomed, wantFinal, resumed, error, background>>

PublishBase ==
  /\ pc = "base" /\ pc' = "manifest"
  /\ Durably(Op({Base(gen)}, {}))
  /\ UNCHANGED <<cells, damaged, final, gen, doomed, wantFinal, resumed, error, background>>

PublishManifest ==
  /\ pc = "manifest" /\ pc' = "latest"
  /\ Durably(Op({Manifest(gen)}, {}))
  /\ published' = published \cup {gen}
  /\ UNCHANGED <<cells, number, damaged, final, gen, doomed, wantFinal, resumed, error,
                 kind, acked, crashes>>

\* The consumer's check, then latest.json or qualified-latest.json (a hint nobody reads) and
\* its fsync.
AdvertiseLatest ==
  /\ pc = "latest" /\ Valid(Dir, gen)
  /\ pc' = IF wantFinal THEN "pin" ELSE "prune"
  /\ disk' = Dir /\ volatile' = {}
  /\ UNCHANGED <<cells, damaged, final, gen, doomed, wantFinal, resumed, error, background>>

CheckFails ==
  /\ pc = "latest" /\ ~Valid(Dir, gen)
  /\ Raise("invalid") /\ UNCHANGED <<disk, volatile>>

PinFinal ==
  /\ pc = "pin" /\ pc' = "prune"
  /\ final' = gen
  /\ UNCHANGED <<disk, volatile, cells, damaged, gen, doomed, wantFinal, resumed, error,
                 background>>

-----------------------------------------------------------------------------
\* The two newest manifests.
Newest(names) == {g \in Manifests(names) : Cardinality({h \in Manifests(names) : h > g}) < 2}

Keep(names) == Newest(names) \cup ({final} \ {None})

\* mutant: one generation is kept
Doomed_one == {g \in Manifests(Dir) : \E h \in Manifests(Dir) : h > g} \ {final}

Doomed == Manifests(Dir) \ Keep(Dir)

\* The pin is a manifest of the store, and everything kept loads.
Trusted == \A g \in Keep(Dir) : Valid(Dir, g)

PruneBegin ==
  /\ pc = "prune" /\ Trusted
  /\ pc' = "unlink" /\ doomed' = Doomed
  /\ UNCHANGED <<disk, volatile, cells, damaged, final, gen, wantFinal, resumed, error,
                 background>>

PruneRefused ==
  /\ pc = "prune" /\ ~Trusted
  /\ Raise("invalid") /\ UNCHANGED <<disk, volatile>>

\* Newest first; per generation the blob, the base of a qualified one, then the manifest.
UnlinkPart(file, now, next) ==
  /\ pc = now /\ doomed # {} /\ file \in Dir
  /\ Lazily(Op({}, {file})) /\ pc' = next
  /\ UNCHANGED <<cells, damaged, final, gen, doomed, wantFinal, resumed, error, background>>
UnlinkBlob ==
  UnlinkPart(Blob(Max(doomed)), "unlink", IF Qualified THEN "unlinkBase" ELSE "unlinkManifest")
UnlinkBase == UnlinkPart(Base(Max(doomed)), "unlinkBase", "unlinkManifest")

UnlinkMissing ==
  /\ doomed # {}
  /\ \/ pc = "unlink" /\ Blob(Max(doomed)) \notin Dir
     \/ pc = "unlinkBase" /\ Base(Max(doomed)) \notin Dir
  /\ Raise("missing") /\ UNCHANGED <<disk, volatile>>

UnlinkManifest ==
  /\ pc = "unlinkManifest" /\ pc' = "unlink"
  /\ Lazily(Op({}, {Manifest(Max(doomed))}))
  /\ doomed' = doomed \ {Max(doomed)}
  /\ UNCHANGED <<cells, damaged, final, gen, wantFinal, resumed, error, background>>

\* fsync of the directory; save() returns the generation.
SaveReturns ==
  /\ pc = "unlink" /\ doomed = {}
  /\ disk' = Dir /\ volatile' = {}
  /\ pc' = "up" /\ acked' = acked \cup {gen} /\ gen' = None /\ wantFinal' = FALSE
  /\ UNCHANGED <<cells, number, damaged, final, doomed, resumed, error,
                 kind, published, crashes>>

-----------------------------------------------------------------------------
\* recover() and recover_learning(): every step is a quarantine, so a recovery that is killed
\* half way is continued by the next one from the files it finds.

Leftovers == {g \in Generations : Pending(g) \in Dir}
Orphans   == {g \in Generations : Blob(g) \in Dir /\ Manifest(g) \notin Dir}

recovering ==
  <<forgotten, damaged, final, pc, gen, doomed, wantFinal, resumed, error, background>>

Jailed(file) ==
  LET new == {file} \cap UNION {Named(g) : g \in Generations}
  IN jail' = jail \cup new /\ loose' = loose \cup (new \ jail)

\* mutant: copied into quarantine, not moved
Quarantine_copied(file) == Durably(Op({}, {})) /\ Jailed(file)

\* The file moves to a new directory in quarantine/.
Quarantine(file) == Durably(Op({}, {file})) /\ Jailed(file)

QuarantinePending ==
  /\ pc = "down" /\ ~Qualified /\ Leftovers # {}
  /\ \E g \in Leftovers : Quarantine(Pending(g))
  /\ UNCHANGED recovering

QuarantineOrphan ==
  /\ pc = "down" /\ ~Qualified /\ Leftovers = {}
  /\ \E g \in Orphans : Quarantine(Blob(g))
  /\ UNCHANGED recovering

Scanning == pc = "down" /\ (~Qualified => Leftovers \cup Orphans = {})

\* The newest manifest does not load: first its blob, then its base, then the manifest goes.
RejectBlob ==
  /\ Scanning /\ Manifests(Dir) # {}
  /\ LET g == Max(Manifests(Dir))
     IN /\ ~Valid(Dir, g) /\ Blob(g) \in Dir
        /\ Quarantine(Blob(g))
  /\ UNCHANGED recovering

RejectBase ==
  /\ Scanning /\ Manifests(Dir) # {}
  /\ LET g == Max(Manifests(Dir))
     IN /\ Blob(g) \notin Dir /\ Base(g) \in Dir
        /\ Quarantine(Base(g))
  /\ UNCHANGED recovering

RejectManifest ==
  /\ Scanning /\ Manifests(Dir) # {}
  /\ LET g == Max(Manifests(Dir))
     IN /\ {Blob(g), Base(g)} \cap Dir = {}
        /\ Quarantine(Manifest(g))
  /\ UNCHANGED recovering

Candidate_oldest(names) == Min(Manifests(names)) \* mutant: glob order, oldest first

\* The manifest recover() tries next: newest first.
Candidate(names) == Max(Manifests(names))

\* The scan reaches a manifest that loads; the older ones are left as they are.  recover()
\* writes latest.json, and that syncs the directory.
Select ==
  /\ Scanning /\ Manifests(Dir) # {} /\ Valid(Dir, Candidate(Dir))
  /\ pc' = "up" /\ resumed' = Candidate(Dir) /\ error' = "none"
  /\ IF Qualified THEN UNCHANGED <<disk, volatile>> ELSE disk' = Dir /\ volatile' = {}
  /\ UNCHANGED <<cells, damaged, final, gen, doomed, wantFinal, background>>

NothingLeft ==
  /\ Scanning /\ Manifests(Dir) = {}
  /\ pc' = "lost"
  /\ UNCHANGED <<disk, volatile, cells, damaged, final, gen, doomed, wantFinal, resumed, error,
                 background>>

-----------------------------------------------------------------------------
Stop ==
  /\ crashes < MaxCrashes /\ pc # "lost"
  /\ crashes' = crashes + 1 /\ pc' = "down"
  /\ gen' = None /\ doomed' = {} /\ wantFinal' = FALSE /\ error' = "none"
  /\ UNCHANGED <<number, damaged, final, resumed, kind, acked, published>>

Kill == Stop /\ UNCHANGED <<disk, volatile, cells>>

PowerLoss ==
  /\ Stop
  /\ disk' \in Survivors /\ volatile' = {}
  /\ \E gone \in SUBSET loose :
       /\ jail' = jail \ gone
       /\ forgotten' = forgotten \cup {g \in Generations : Manifest(g) \in gone}
  /\ loose' = {}

Damage ==
  /\ Cardinality(damaged) < MaxDamage
  /\ \E g \in Generations \ damaged : Blob(g) \in Dir /\ damaged' = damaged \cup {g}
  /\ UNCHANGED <<disk, volatile, cells, final, pc, gen, doomed, wantFinal, resumed, error,
                 background>>

Save == \/ Begin \/ QuotaExhausted \/ WriteBlob \/ PublishBlob \/ PublishBase
        \/ PublishManifest \/ AdvertiseLatest \/ CheckFails \/ PinFinal

Prune == \/ PruneBegin \/ PruneRefused \/ UnlinkBlob \/ UnlinkBase \/ UnlinkMissing
         \/ UnlinkManifest \/ SaveReturns

Recover == \/ QuarantinePending \/ QuarantineOrphan \/ RejectBlob \/ RejectBase
           \/ RejectManifest \/ Select \/ NothingLeft

Next == Save \/ Prune \/ Recover \/ Kill \/ PowerLoss \/ Damage

Spec == Init /\ [][Next]_vars

\* A controller that restarts runs recover() to its end.
FairSpec == Spec /\ WF_vars(Recover)

-----------------------------------------------------------------------------
\* Two generations that load survive every crash, as soon as two saves
\* returned, less the ones the storage damaged: prune never takes the fallback
\* away, wherever it is interrupted.  (save, prune, _quarantine)
FallbackKept ==
  \A names \in Survivors :
    Cardinality(Complete(names)) + Cardinality(damaged)
      >= IF Cardinality(acked) < 2 THEN Cardinality(acked) ELSE 2

\* The pinned final checkpoint is neither pruned nor quarantined while its
\* blob is what was written.  (prune, recover)
PinSurvives ==
  final # None /\ final \notin damaged => \A names \in Survivors : Valid(names, final)

\* The manifests in the root are numbered in the order of their saves, so that
\* the highest number, which prune keeps and recover() tries first, is the
\* newest save, also after numbers were given twice.  (manifests, prune)
NumbersInOrder == \A g, h \in Manifests(disk) : g < h => number[g] < number[h]

\* What prune leaves behind: the fallback and the pin, in order.
Safe == TypeOK /\ FallbackKept /\ PinSurvives /\ NumbersInOrder

\* recover() never rolls back an undamaged generation whose save() returned, as
\* long as the storage did not damage two newer ones: prune keeps no third.
NoRollback ==
  [][pc = "down" /\ pc' = "up" =>
       \A g \in acked \ damaged :
         \/ resumed' >= g
         \/ \E h, i \in damaged : g < h /\ h < i]_vars

\* A number comes back for another checkpoint only if a power loss took from
\* quarantine the manifest of the checkpoint that had it, or of a newer one with
\* no lower number.  (next_generation, _quarantine)
GenerationsFresh ==
  [][PublishManifest =>
       \A g \in published : number[g] = number[gen] =>
         \E h \in forgotten : h >= g /\ number[h] >= number[gen]]_vars

\* Quarantined generations are never reused after rollback.
NumbersNotReused == [][PublishManifest => \A g \in published : number[g] # number[gen]]_vars

\* What recover() hands to the learner holds only whole pairs, so that the
\* prune of the next save finds the files it deletes.
PruneFindsItsFiles == error # "missing"

\* Every recovery ends: with a checkpoint or with none left.
RecoveryEnds == pc = "down" ~> pc \in {"up", "lost"}
=============================================================================
