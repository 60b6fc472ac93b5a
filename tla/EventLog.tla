------------------------------ MODULE EventLog ------------------------------
(***************************************************************************)
(* EventLog of tracking/foundation_metrics.py: segments of lines, one      *)
(* writer, append with fsync, and the constructor that reads the segments  *)
(* back and moves a torn last line into a .partial file.                   *)
(*                                                                         *)
(* The writer may be killed between any two steps (the page cache stays),  *)
(* the machine may lose power (a tail that no fsync covered is kept, torn  *)
(* or lost), and a write or an fsync may raise while the writer goes on.   *)
(* Sizes are counted in lines; a torn tail and a .partial file count one.  *)
(***************************************************************************)
EXTENDS Integers, Sequences, SequencesExt, FiniteSets, FiniteSetsExt, Functions

CONSTANTS Events,         \* event identities
          SegmentLines,   \* segment_bytes
          Quota,          \* quota_bytes
          Faults,         \* sets of faults of one behaviour: "kill", "power", "error"
          MaxFaults,      \* bound on the faults of a behaviour
          NoEvent

ASSUME LogBoundsOK == /\ SegmentLines \in Nat \ {0} /\ Quota \in Nat /\ MaxFaults \in Nat
                      /\ NoEvent \notin Events

VARIABLES
  segs,      \* the segment files: complete lines, and the partial writes after them
  unsynced,  \* segments whose last line or tail no fsync covers
  evidence,  \* segments that have a .partial file
  writer, cur,  \* where the writer is, and the event it appends
  events,    \* the writer's memory: identities in order
  sure,      \* history: records acknowledged to the caller
  kinds,     \* the faults of this behaviour
  faults

logVars == <<segs, unsynced, evidence, writer, cur, events, sure, kinds, faults>>

Line   == [n : Nat, id : Events]
Merged == [n |-> -1, id |-> NoEvent]    \* a torn tail and the line written after it

AllLines == FlattenSeq([i \in DOMAIN segs |-> segs[i].lines])
Ids      == [i \in DOMAIN AllLines |-> AllLines[i].id]

LogTypeOK ==
  /\ segs \in Seq([lines : Seq(Line \cup {Merged}), tail : 0..2])
  /\ unsynced \subseteq DOMAIN segs /\ evidence \subseteq DOMAIN segs
  /\ writer \in {"up", "write", "sync", "truncate", "down", "refused"}
  /\ cur \in Events \cup {NoEvent} /\ (cur # NoEvent <=> writer \in {"write", "sync"})
  /\ events \in Seq(Events) /\ sure \in Nat /\ kinds \in Faults /\ faults \in 0..MaxFaults

LogInit ==
  /\ segs = << >> /\ unsynced = {} /\ evidence = {}
  /\ writer = "up" /\ cur = NoEvent /\ events = << >> /\ sure = 0
  /\ kinds \in Faults /\ faults = 0

-----------------------------------------------------------------------------
\* append()

Size(seg)  == Len(seg.lines) + IF seg.tail > 0 THEN 1 ELSE 0
TotalSize  == FoldFunction(+, 0, [i \in DOMAIN segs |-> Size(segs[i])]) + Cardinality(evidence)
Empty      == [lines |-> << >>, tail |-> 0]

WithinQuota == TotalSize + 1 <= Quota

\* The segment files once the one to write to is open: the last, or a new one
\* when the line does not fit.
Opened == IF segs # << >> /\ Size(Last(segs)) + 1 <= SegmentLines THEN segs
          ELSE Append(segs, Empty)

New_any(e) == TRUE \* mutant: the identity is not looked up

New(e) == e \notin Range(events)

\* The first bytes of the line reach the file.
StartWrite(e) ==
  /\ writer = "up" /\ New(e) /\ WithinQuota
  /\ writer' = "write" /\ cur' = e
  /\ segs' = [Opened EXCEPT ![Len(Opened)].tail = IF @ = 0 THEN 1 ELSE 2]
  /\ unsynced' = unsynced \cup {Len(Opened)}
  /\ UNCHANGED <<evidence, events, sure, kinds, faults>>

\* The rest of the line; what a failed append left before it is on that line too.
FinishWrite ==
  /\ writer = "write" /\ writer' = "sync"
  /\ LET line(seg) == IF seg.tail > 1 THEN Merged ELSE [n |-> Len(events), id |-> cur]
     IN segs' = [segs EXCEPT ![Len(segs)] = [lines |-> Append(@.lines, line(@)), tail |-> 0]]
  /\ UNCHANGED <<unsynced, evidence, cur, events, sure, kinds, faults>>

Synced_none == {} \* mutant: flushed, not synced

\* The segments whose content is durable once fsync returned.
Synced == {Len(segs)}

\* fsync of the file and of the directory; append() returns True.
Sync ==
  /\ writer = "sync" /\ writer' = "up"
  /\ unsynced' = unsynced \ Synced
  /\ events' = Append(events, cur) /\ sure' = Len(events) + 1 /\ cur' = NoEvent
  /\ UNCHANGED <<segs, evidence, kinds, faults>>

\* append() of an identity that is there returns False: the caller goes on.
AppendAgain(e) ==
  /\ writer = "up" /\ e \in Range(events)
  /\ sure' = Max({sure, CHOOSE i \in DOMAIN events : events[i] = e})
  /\ UNCHANGED <<segs, unsynced, evidence, writer, cur, events, kinds, faults>>

-----------------------------------------------------------------------------
\* The constructor.

\* Sequence numbers count up from 0, no identity comes twice, and only the last
\* segment ends in a partial line.
Readable ==
  /\ \A i \in DOMAIN AllLines : AllLines[i].n = i - 1
  /\ IsInjective(Ids)
  /\ \A i \in DOMAIN segs : segs[i].tail > 0 => i = Len(segs)

Torn == segs # << >> /\ Last(segs).tail > 0

Open ==
  /\ writer = "down" /\ Readable /\ ~Torn
  /\ writer' = "up" /\ events' = Ids
  /\ UNCHANGED <<segs, unsynced, evidence, cur, sure, kinds, faults>>


\* The segment whose name the .partial file gets.
PartialOf == Len(segs)

\* open("xb") of the .partial file, which is written and synced first.
SaveEvidence ==
  /\ writer = "down" /\ Readable /\ Torn /\ PartialOf \notin evidence
  /\ evidence' = evidence \cup {PartialOf} /\ writer' = "truncate"
  /\ UNCHANGED <<segs, unsynced, cur, events, sure, kinds, faults>>

Truncated_line(seg) == [lines |-> IF seg.lines = << >> THEN << >> ELSE Front(seg.lines), tail |-> 0] \* mutant: the offset is one line early

\* The segment up to the end of its last complete line.
Truncated(seg) == [seg EXCEPT !.tail = 0]

Truncate ==
  /\ writer = "truncate"
  /\ segs' = [segs EXCEPT ![Len(segs)] = Truncated(@)]
  /\ unsynced' = unsynced \ {Len(segs)}
  /\ writer' = "up" /\ events' = Ids'
  /\ UNCHANGED <<evidence, cur, sure, kinds, faults>>

\* An invalid line raises ValueError, an existing .partial file FileExistsError.
Refuse ==
  /\ writer = "down" /\ (~Readable \/ (Torn /\ PartialOf \in evidence))
  /\ writer' = "refused"
  /\ UNCHANGED <<segs, unsynced, evidence, cur, events, sure, kinds, faults>>

-----------------------------------------------------------------------------
Fault(kind) == kind \in kinds /\ faults < MaxFaults /\ faults' = faults + 1 /\ UNCHANGED kinds

Dies == writer' = "down" /\ cur' = NoEvent /\ events' = << >> /\ UNCHANGED sure

KillWriter == writer # "refused" /\ Fault("kill") /\ Dies /\ UNCHANGED <<segs, unsynced, evidence>>

\* What a power loss may leave of a segment whose end was not synced.
Remains(seg) ==
  {seg, [seg EXCEPT !.tail = 0]} \cup
  IF seg.tail > 0 \/ seg.lines = << >> THEN {}
  ELSE {[lines |-> Front(seg.lines), tail |-> t] : t \in {0, 1}}

LosePower ==
  /\ writer # "refused" /\ Fault("power") /\ Dies
  /\ unsynced' = {}
  /\ evidence' \in {evidence, IF writer = "truncate" THEN evidence \ {PartialOf} ELSE evidence}
  /\ \E left \in [unsynced -> UNION {Remains(segs[i]) : i \in unsynced}] :
       /\ \A i \in unsynced : left[i] \in Remains(segs[i])
       /\ segs' = [i \in DOMAIN segs |-> IF i \in unsynced THEN left[i] ELSE segs[i]]

\* write() or fsync() raises in append(); the writer keeps the log object.
AppendFails ==
  /\ writer \in {"write", "sync"} /\ Fault("error")
  /\ writer' = "up" /\ cur' = NoEvent
  /\ UNCHANGED <<segs, unsynced, evidence, events, sure>>

LogNext ==
  \/ \E e \in Events : StartWrite(e) \/ AppendAgain(e)
  \/ FinishWrite \/ Sync
  \/ Open \/ SaveEvidence \/ Truncate \/ Refuse
  \/ KillWriter \/ LosePower \/ AppendFails

LogSpec == LogInit /\ [][LogNext]_logVars

-----------------------------------------------------------------------------
\* When every crash is a power loss, an acknowledged record is found at its place
\* after it, no identity is written twice, and records only accumulate; a kill
\* followed by a power loss breaks that, see AcknowledgedIsDurable.
\* (append, __init__)
Machine == kinds = {"power"}

Evidence == INSTANCE DurableLog WITH log <- IF Machine THEN Ids ELSE << >>,
                                     sure <- IF Machine THEN sure ELSE 0
KeepsEvidence == Evidence!Spec

\* Only a power loss takes a complete line away, whatever was killed, failed or
\* truncated on the way.  (append, __init__)
AppendOnly == [][LosePower \/ IsPrefix(AllLines, AllLines')]_logVars

\* The constructor finds sequence numbers, identities and historical segments in
\* order, unless a write raised in a writer that went on, or a kill and a power
\* loss met: see ReadableUnlessFailed.  (append, __init__)
Orderly == "error" \notin kinds /\ ("kill" \notin kinds \/ "power" \notin kinds)
AlwaysReadable == Orderly => Readable

\* The log can be read by the next process.
LogSafe == LogTypeOK /\ AlwaysReadable

\* A record the caller was told is durable is not one a power loss may take.
AcknowledgedIsDurable ==
  \A i \in unsynced : segs[i].tail = 0 /\ segs[i].lines # << >> =>
    sure < Len(FlattenSeq([j \in 1..i |-> segs[j].lines]))

\* Only a failed write spoils a log.  (A killed writer leaves an unsynced line that
\* fills its segment, the next writer opens a new one, and a power loss takes the line.)
ReadableUnlessFailed == "error" \notin kinds => Readable

\* A log can be opened again after every crash: a torn last line is moved away.
OpensAgain == writer # "refused"
=============================================================================
