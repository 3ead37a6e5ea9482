---------------------------- MODULE FileExporter ----------------------------
(***************************************************************************)
(* internal/export/file.go: one JSON line per batch, appended to a file    *)
(* that is rotated by size into numbered backups.                          *)
(*                                                                         *)
(* Export holds the mutex from beginning to end, so its steps interleave   *)
(* with nothing but the operating system: any of them may fail, and the    *)
(* process may be killed between any two.  Each system call is therefore a *)
(* step.  Faults names the calls that may fail; at most MaxFaults do.      *)
(*                                                                         *)
(* Batches are numbered over all boots of the process, which is finer than *)
(* batch_seq (that restarts at 1) and tells their lines apart on disk.     *)
(***************************************************************************)
EXTENDS Integers, Sequences, FiniteSets, SequencesExt

CONSTANTS
  MaxBytes,     \* rotation threshold
  BackupLimits, \* values EXPORT_FILE_MAX_BACKUPS may have
  Sync,         \* EXPORT_FILE_FSYNC
  Lens,         \* lengths an encoded line may have
  Faults,       \* subset of FaultKinds
  MaxBatches, MaxFaults, MaxCrashes   \* bounds

FaultKinds == {"open", "write", "close", "remove", "rename", "stat", "fsync"}

ASSUME ConstantsAssumption ==
  /\ MaxBytes \in Nat /\ BackupLimits \subseteq Nat /\ Sync \in BOOLEAN
  /\ Lens \subseteq Nat \ {0, 1}
  /\ Faults \subseteq FaultKinds
  /\ MaxBatches \in Nat /\ MaxFaults \in Nat /\ MaxCrashes \in Nat

VARIABLES
  maxBackups,  \* backups kept, path.1 .. path.maxBackups; configured once
  disk,        \* disk[0] is the live file, disk[i] is path.i; NoFile when missing
  pc,          \* the step of Export (or of start-up) that comes next
  shiftFrom,   \* loop variable of rotate
  line,        \* length of the line being exported
  file,        \* e.file: "nil", "open", or "stale" (closed, yet not nil)
  wErr,        \* the buffered writer has failed; bufio keeps the error
  size,        \* e.size
  needsReopen,
  seq,         \* batches handed to Export
  exported, dropped,   \* the counters, as the sets of batches they count
  faults, crashes,     \* how many have happened
  faulted,     \* a call failed during this Export
  failed,      \* the kinds of call that have failed
  destroyed    \* backups removed by rotate since the live file was last opened

procVars == <<pc, shiftFrom, line, file, wErr, size, needsReopen>>
vars == <<maxBackups, disk, procVars, seq, exported, dropped, faults, crashes, faulted, failed, destroyed>>

NoFile == [lines |-> <<>>, bytes |-> -1]
EmptyFile == [lines |-> <<>>, bytes |-> 0]
Exists(i) == disk[i] # NoFile

\* A line on disk: the batch it was written for, whether it is exactly that
\* batch's record, and whether it ends in a newline.
Line(b, whole, newline) == [batch |-> b, whole |-> whole, newline |-> newline]

EndsCleanly(f) == f.lines # <<>> => Last(f.lines).newline

\* Mutant of AppendWhole: the encoded line lacks its newline.
AppendUnterminated(f, b, len) ==
  [lines |-> Append(f.lines, Line(b, EndsCleanly(f), FALSE)), bytes |-> f.bytes + len - 1]

\* An append to a file whose last line was cut short runs into that line.
AppendWhole(f, b, len) ==
  [lines |-> Append(f.lines, Line(b, EndsCleanly(f), TRUE)), bytes |-> f.bytes + len]
AppendTorn(f, b, len) ==
  [lines |-> Append(f.lines, Line(b, FALSE, FALSE)), bytes |-> f.bytes + len - 1]

Init ==
  /\ maxBackups \in BackupLimits
  /\ disk = [i \in 0..maxBackups |-> NoFile]
  /\ pc = "down" /\ shiftFrom = 0 /\ line = 0
  /\ file = "nil" /\ wErr = FALSE /\ size = 0 /\ needsReopen = FALSE
  /\ seq = 0 /\ exported = {} /\ dropped = {}
  /\ faults = 0 /\ crashes = 0 /\ faulted = FALSE /\ failed = {} /\ destroyed = 0

\* A system call of this kind fails.
Fails(kind) ==
  /\ kind \in Faults /\ faults < MaxFaults
  /\ faults' = faults + 1
  /\ faulted' = TRUE /\ failed' = failed \cup {kind}

Works == UNCHANGED <<faults, faulted, failed>>

\* Export returns an error; the batch is counted as dropped.
ReturnDropped ==
  /\ pc' = "idle"
  /\ dropped' = dropped \cup {seq}
  /\ UNCHANGED exported

-----------------------------------------------------------------------------
(* open *)

\* Mutant of OpenSucceeds: with O_TRUNC.
OpenTruncates ==
  /\ disk' = [disk EXCEPT ![0] = EmptyFile]
  /\ size' = 0 /\ Works
  /\ file' = "open" /\ wErr' = FALSE
  /\ destroyed' = 0

\* The live file is created if missing; its size is taken as 0 when it cannot
\* be read; a reset writer forgets its error.
OpenSucceeds ==
  /\ disk' = IF Exists(0) THEN disk ELSE [disk EXCEPT ![0] = EmptyFile]
  /\ \/ size' = disk'[0].bytes /\ Works
     \/ size' = 0 /\ Fails("stat")
  /\ file' = "open" /\ wErr' = FALSE
  /\ destroyed' = 0

OpenFails ==
  /\ Fails("open")
  /\ UNCHANGED <<disk, size, file, wErr, destroyed>>

\* NewFileExporter; a failure is a refusal to start.
Start ==
  /\ pc = "down"
  /\ \/ OpenSucceeds /\ pc' = "idle"
     \/ OpenFails /\ UNCHANGED pc
  /\ UNCHANGED <<shiftFrom, line, needsReopen, seq, exported, dropped, crashes>>

-----------------------------------------------------------------------------
(* Export *)

\* Mutant of MustRotate: the file is rotated once it is over the threshold.
MustRotateLate(sz, len) == MaxBytes > 0 /\ sz > MaxBytes

\* The rotation test of Export, for a file of this size.
MustRotate(sz, len) == MaxBytes > 0 /\ sz > 0 /\ sz + len > MaxBytes

\* The context is over: nothing is written and nothing is counted.
ExportRefused ==
  /\ pc \in {"idle", "closed"} /\ seq < MaxBatches
  /\ seq' = seq + 1
  /\ UNCHANGED <<disk, procVars, exported, dropped, faults, crashes, faulted, failed, destroyed>>

\* The batch cannot be encoded, or the exporter is closed.
ExportDropped ==
  /\ pc \in {"idle", "closed"} /\ seq < MaxBatches
  /\ seq' = seq + 1
  /\ dropped' = dropped \cup {seq + 1}
  /\ UNCHANGED <<disk, procVars, exported, faults, crashes, faulted, failed, destroyed>>

\* The mutex is taken and the first decision made.
ExportBegin ==
  /\ pc = "idle" /\ seq < MaxBatches
  /\ seq' = seq + 1
  /\ faulted' = FALSE
  /\ \E len \in Lens :
       /\ line' = len
       /\ pc' = IF needsReopen THEN "reopen"
                ELSE IF MustRotate(size, len) THEN "flush" ELSE "write"
  /\ UNCHANGED <<disk, shiftFrom, file, wErr, size, needsReopen, exported, dropped, faults, crashes,
                 failed, destroyed>>

\* Finish a rotation whose reopen failed.
Reopen ==
  /\ pc = "reopen"
  /\ \/ /\ OpenSucceeds
        /\ needsReopen' = FALSE
        /\ pc' = IF MustRotate(size', line) THEN "flush" ELSE "write"
        /\ UNCHANGED <<exported, dropped>>
     \/ OpenFails /\ ReturnDropped /\ UNCHANGED needsReopen
  /\ UNCHANGED <<shiftFrom, line, seq, crashes>>

\* rotate flushes first: its buffer is empty, so this fails only on an error
\* the writer has kept.
RotateFlush ==
  /\ pc = "flush"
  /\ \/ wErr /\ ReturnDropped
     \/ ~wErr /\ pc' = "close" /\ UNCHANGED <<exported, dropped>>
  /\ UNCHANGED <<disk, shiftFrom, line, file, wErr, size, needsReopen, seq, faults, crashes, faulted, failed,
                 destroyed>>

\* Closing a file twice is an error, and a failed close leaves it closed.
RotateClose ==
  /\ pc = "close"
  /\ \/ file = "nil" /\ pc' = "remove" /\ Works /\ UNCHANGED <<file, exported, dropped>>
     \/ file = "open" /\ pc' = "remove" /\ file' = "nil" /\ Works /\ UNCHANGED <<exported, dropped>>
     \/ file = "open" /\ Fails("close") /\ file' = "stale" /\ ReturnDropped
     \/ file = "stale" /\ Works /\ UNCHANGED file /\ ReturnDropped
  /\ UNCHANGED <<disk, shiftFrom, line, wErr, size, needsReopen, seq, crashes, destroyed>>

\* The disk without its oldest generation.
Removed == [disk EXCEPT ![maxBackups] = NoFile]

\* Remove the oldest generation: the last backup, or the live file itself
\* when no backups are kept.
RotateRemove ==
  /\ pc = "remove"
  /\ \/ /\ Works
        /\ disk' = Removed
        /\ destroyed' = IF Exists(maxBackups) THEN destroyed + 1 ELSE destroyed
        /\ shiftFrom' = maxBackups - 1
        /\ pc' = IF maxBackups = 0 THEN "rotopen" ELSE "shift"
        /\ UNCHANGED <<exported, dropped>>
     \/ Exists(maxBackups) /\ Fails("remove") /\ ReturnDropped /\ UNCHANGED <<disk, destroyed, shiftFrom>>
  /\ UNCHANGED <<line, file, wErr, size, needsReopen, seq, crashes>>

\* Mutant of Renamed: the generation is copied.
RenamedCopies(i) == [disk EXCEPT ![i + 1] = disk[i]]

Renamed(i) == [disk EXCEPT ![i + 1] = disk[i], ![i] = NoFile]

\* One step of the shift, path.i to path.(i+1); i = 0 is the live file.  A
\* missing file is skipped, and so is a backup whose stat fails.
ShiftSkips ==
  /\ \/ ~Exists(shiftFrom) /\ Works
     \/ shiftFrom >= 1 /\ Exists(shiftFrom) /\ Fails("stat")
  /\ UNCHANGED disk

ShiftRenames ==
  /\ Exists(shiftFrom) /\ Works
  /\ disk' = Renamed(shiftFrom)

RotateShift ==
  /\ pc = "shift"
  /\ \/ /\ ShiftSkips \/ ShiftRenames
        /\ IF shiftFrom = 0 THEN pc' = "rotopen" /\ UNCHANGED shiftFrom
                            ELSE shiftFrom' = shiftFrom - 1 /\ UNCHANGED pc
        /\ UNCHANGED <<exported, dropped>>
     \/ Exists(shiftFrom) /\ Fails("rename") /\ ReturnDropped /\ UNCHANGED <<disk, shiftFrom>>
  /\ UNCHANGED <<line, file, wErr, size, needsReopen, seq, crashes, destroyed>>

\* Mutant of RotateReopen: a failed open is not remembered.
RotateReopenForgets ==
  /\ pc = "rotopen"
  /\ \/ OpenSucceeds /\ pc' = "write" /\ UNCHANGED <<exported, dropped>>
     \/ OpenFails /\ ReturnDropped
  /\ UNCHANGED <<shiftFrom, line, needsReopen, seq, crashes>>

\* reopen: needsReopen is set first, so only the open is retried.
RotateReopen ==
  /\ pc = "rotopen"
  /\ \/ OpenSucceeds /\ needsReopen' = FALSE /\ pc' = "write" /\ UNCHANGED <<exported, dropped>>
     \/ OpenFails /\ needsReopen' = TRUE /\ ReturnDropped
  /\ UNCHANGED <<shiftFrom, line, seq, crashes>>

\* Write and Flush.  The writer keeps its first error, and a write through a
\* file that is no longer open fails.  A line that fits the buffer counts
\* towards size before the flush that fails, a longer one as far as it got.
Write ==
  /\ pc = "write"
  /\ \/ /\ ~wErr /\ file = "open" /\ Works
        /\ disk' = [disk EXCEPT ![0] = AppendWhole(@, seq, line)]
        /\ size' = size + line
        /\ IF Sync THEN pc' = "fsync" /\ UNCHANGED exported
                   ELSE pc' = "idle" /\ exported' = exported \cup {seq}
        /\ UNCHANGED <<wErr, dropped>>
     \/ /\ ~wErr /\ file = "open" /\ Fails("write")
        /\ disk' \in {disk, [disk EXCEPT ![0] = AppendTorn(@, seq, line)]}
        /\ size' \in {size + line, size + disk'[0].bytes - disk[0].bytes}
        /\ wErr' = TRUE /\ ReturnDropped
     \/ /\ wErr \/ file # "open"
        /\ Works
        /\ size' \in {size} \cup (IF wErr THEN {} ELSE {size + line})
        /\ wErr' = TRUE /\ ReturnDropped
        /\ UNCHANGED disk
  /\ UNCHANGED <<shiftFrom, line, file, needsReopen, seq, crashes, destroyed>>

Fsync ==
  /\ pc = "fsync"
  /\ \/ Works /\ pc' = "idle" /\ exported' = exported \cup {seq} /\ UNCHANGED dropped
     \/ Fails("fsync") /\ ReturnDropped
  /\ UNCHANGED <<disk, shiftFrom, line, file, wErr, size, needsReopen, seq, crashes, destroyed>>

-----------------------------------------------------------------------------
\* Close; what it returns does not change the disk, every line being flushed.
Close ==
  /\ pc = "idle"
  /\ pc' = "closed" /\ file' = "nil"
  /\ UNCHANGED <<disk, shiftFrom, line, wErr, size, needsReopen, seq, exported, dropped, faults, crashes,
                 faulted, failed, destroyed>>

\* The process ends, by itself or killed at any step; killed inside a write,
\* it may leave part of the line behind.
ProcessEnds ==
  /\ pc # "down" /\ crashes < MaxCrashes
  /\ crashes' = crashes + 1
  /\ disk' \in {disk} \cup (IF pc = "write" /\ file = "open" /\ ~wErr
                            THEN {[disk EXCEPT ![0] = AppendTorn(@, seq, line)]} ELSE {})
  /\ pc' = "down" /\ file' = "nil" /\ wErr' = FALSE /\ size' = 0 /\ needsReopen' = FALSE
  /\ shiftFrom' = 0 /\ line' = 0
  /\ UNCHANGED <<seq, exported, dropped, faults, faulted, failed, destroyed>>

Rotate == RotateFlush \/ RotateClose \/ RotateRemove \/ RotateShift \/ RotateReopen

Export == ExportRefused \/ ExportDropped \/ ExportBegin \/ Reopen \/ Rotate \/ Write \/ Fsync

Next == (Start \/ Export \/ Close \/ ProcessEnds) /\ UNCHANGED maxBackups

Spec == Init /\ [][Next]_vars

-----------------------------------------------------------------------------
(* Properties *)

Generations == 0..maxBackups
BatchesIn(i) == {disk[i].lines[k].batch : k \in DOMAIN disk[i].lines}
OnDisk == UNION {BatchesIn(i) : i \in Generations}

\* Reading the backups from the highest number down and the live file last
\* gives the batches in the order they were collected, whatever failed in the
\* middle of however many rotations (TestFileExporter_Rotation checks it for
\* rotations that work).
GenerationsOrdered ==
  /\ \A i, j \in Generations : i < j => \A b \in BatchesIn(i), c \in BatchesIn(j) : c < b
  /\ \A i \in Generations : \A k, l \in DOMAIN disk[i].lines :
       k < l => disk[i].lines[k].batch < disk[i].lines[l].batch

\* A stat that fails hides a backup from the shift, which then overwrites it,
\* or the size of the live file from the rotation test.
SizesSeen == "stat" \notin failed

\* Rotation happens before the write, so a file exceeds the threshold only
\* when it holds a single line, also after failed writes, kills and restarts.
FilesBounded ==
  SizesSeen => \A i \in Generations :
    disk[i].bytes > MaxBytes => Len(disk[i].lines) = 1

\* README, file mode: after a rotation that shifted the backups and did not
\* get as far as a live file, the shift is not replayed, which would consume
\* another generation each cycle without having written anything.  It holds as
\* long as it is not a rename that fails: needsReopen covers the open alone.
ShiftNotReplayed == "rename" \notin failed => destroyed <= 1

\* A batch leaves the disk only as one of the oldest: what disappears in a
\* step is older than everything that stays (README: rotation deletes path.N).
OldestGoesFirst ==
  [][SizesSeen => \A b \in OnDisk \ OnDisk', c \in OnDisk' : b < c]_vars

\* Export's comment has a kill lose at most the batch being written.  It may
\* also cost the batch exported next, whose line runs into the torn one, and
\* never more: the writer keeps its error, so nothing follows a torn line before
\* the process has been restarted, and each restart damages one exported batch.
DamageBounded ==
  Cardinality({b \in exported : \E i \in Generations : \E k \in DOMAIN disk[i].lines :
                 disk[i].lines[k].batch = b /\ ~disk[i].lines[k].whole}) <= crashes

\* A write, flush or rotation failure is surfaced in the next batch's
\* last_export_error (README).  For that a batch must get through once the
\* volume works again: an Export none of whose calls fails writes its line.
NextBatchSurfaces ==
  [][(pc \notin {"idle", "down"} /\ pc' = "idle" /\ ~faulted') => seq \in exported']_vars
=============================================================================
