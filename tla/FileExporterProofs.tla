------------------------- MODULE FileExporterProofs -------------------------
(***************************************************************************)
(* Proofs about FileExporter, for every threshold, number of backups, set  *)
(* of line lengths, set of calls that may fail and number of failures and  *)
(* kills.                                                                  *)
(***************************************************************************)
EXTENDS FileExporter, TLAPS, SequenceTheorems, FiniteSetTheorems

LineRecs == [batch : Nat, whole : BOOLEAN, newline : BOOLEAN]
Files == [lines : Seq(LineRecs), bytes : Int]

\* The steps of an Export that come before its line is written.
BeforeWrite == {"reopen", "flush", "close", "remove", "shift", "rotopen", "write"}

Types ==
  /\ maxBackups \in Nat
  /\ disk \in [0..maxBackups -> Files]
  /\ seq \in Nat /\ size \in Int /\ shiftFrom \in Int /\ line \in Nat
  /\ pc \in BeforeWrite \cup {"down", "idle", "closed", "fsync"}
  /\ pc = "shift" => shiftFrom \in 0..(maxBackups - 1)
  /\ pc \in BeforeWrite => line \in Lens

\* What a step may do to the disk: nothing, create the live file, remove the
\* oldest generation, shift one generation, or add a line to the live file.
Creates == disk[0] = NoFile /\ disk' = [disk EXCEPT ![0] = EmptyFile]
Removes == pc = "remove" /\ disk' = Removed
Shifts == pc = "shift" /\ Exists(shiftFrom) /\ disk' = Renamed(shiftFrom)
Adds(r, n) ==
  /\ pc = "write" /\ file = "open" /\ ~wErr
  /\ disk' = [disk EXCEPT ![0] = [lines |-> Append(disk[0].lines, r), bytes |-> disk[0].bytes + n]]

\* The records an Export may leave in the live file, whole or torn.
Torn == Line(seq, FALSE, FALSE)
Whole == Line(seq, EndsCleanly(disk[0]), TRUE)

LEMMA LensArePositive == \A n \in Lens : n \in Nat /\ n >= 2
<1>1. Lens \subseteq Nat \ {0, 1}
  BY ConstantsAssumption
<1> QED
  BY <1>1

LEMMA EmptyFilesAreFiles == NoFile \in Files /\ EmptyFile \in Files
<1>1. <<>> \in Seq(LineRecs)
  BY EmptySeq
<1> QED
  BY <1>1 DEF NoFile, EmptyFile, Files

LEMMA LinesAreLineRecs ==
  ASSUME Types
  PROVE  Torn \in LineRecs /\ Whole \in LineRecs
<1>1. EndsCleanly(disk[0]) \in BOOLEAN
  <2>1. disk[0] \in Files
    BY DEF Types
  <2>2. CASE disk[0].lines = <<>>
    BY <2>2 DEF EndsCleanly
  <2>3. CASE disk[0].lines # <<>>
    <3>1. disk[0].lines \in Seq(LineRecs) /\ Len(disk[0].lines) \in 1..Len(disk[0].lines)
      BY <2>1, <2>3, EmptySeq DEF Files
    <3>2. disk[0].lines[Len(disk[0].lines)] \in LineRecs
      BY <3>1, ElementOfSeq
    <3>3. Last(disk[0].lines).newline \in BOOLEAN
      BY <3>2 DEF LineRecs, Last
    <3> QED
      BY <3>3 DEF EndsCleanly
  <2> QED
    BY <2>2, <2>3
<1>2. seq \in Nat
  BY DEF Types
<1> QED
  BY <1>1, <1>2 DEF Torn, Whole, Line, LineRecs

\* Every step is one of those.
LEMMA StepsOnDisk ==
  ASSUME Types, Next
  PROVE  \/ disk' = disk \/ Creates \/ Removes \/ Shifts
         \/ Adds(Torn, line - 1) \/ Adds(Whole, line)
<1>a. AppendTorn(disk[0], seq, line)
        = [lines |-> Append(disk[0].lines, Torn), bytes |-> disk[0].bytes + (line - 1)]
  <2>1. disk[0].bytes \in Int /\ line \in Int
    BY DEF Types, Files
  <2>2. disk[0].bytes + line - 1 = disk[0].bytes + (line - 1)
    BY <2>1
  <2> QED
    BY <2>2 DEF AppendTorn, Torn
<1>b. AppendWhole(disk[0], seq, line)
        = [lines |-> Append(disk[0].lines, Whole), bytes |-> disk[0].bytes + line]
  BY DEF AppendWhole, Whole
<1>1. OpenSucceeds => disk' = disk \/ Creates
  BY DEF OpenSucceeds, Creates, Exists
<1>2. OpenFails => disk' = disk
  BY DEF OpenFails
<1>3. CASE Start
  BY <1>1, <1>2, <1>3 DEF Start
<1>4. CASE ExportRefused \/ ExportDropped \/ ExportBegin \/ RotateFlush \/ RotateClose \/ Fsync \/ Close
  BY <1>4 DEF ExportRefused, ExportDropped, ExportBegin, RotateFlush, RotateClose, Fsync, Close
<1>5. CASE Reopen
  BY <1>1, <1>2, <1>5 DEF Reopen
<1>6. CASE RotateRemove
  BY <1>6 DEF RotateRemove, Removes
<1>7. CASE RotateShift
  BY <1>7 DEF RotateShift, ShiftSkips, ShiftRenames, Shifts
<1>8. CASE RotateReopen
  BY <1>1, <1>2, <1>8 DEF RotateReopen
<1>9. CASE Write
  <2>1. CASE ~wErr /\ file = "open" /\ disk' = [disk EXCEPT ![0] = AppendWhole(@, seq, line)]
    BY <1>b, <1>9, <2>1 DEF Write, Adds
  <2>2. CASE ~wErr /\ file = "open" /\ disk' = [disk EXCEPT ![0] = AppendTorn(@, seq, line)]
    BY <1>a, <1>9, <2>2 DEF Write, Adds
  <2>3. CASE disk' = disk
    BY <2>3
  <2> QED
    BY <1>9, <2>1, <2>2, <2>3 DEF Write
<1>10. CASE ProcessEnds
  <2>1. CASE disk' = disk
    BY <2>1
  <2>2. CASE /\ pc = "write" /\ file = "open" /\ ~wErr
             /\ disk' = [disk EXCEPT ![0] = AppendTorn(@, seq, line)]
    BY <1>a, <2>2 DEF Adds
  <2> QED
    BY <1>10, <2>1, <2>2 DEF ProcessEnds
<1> QED
  BY <1>3, <1>4, <1>5, <1>6, <1>7, <1>8, <1>9, <1>10 DEF Next, Export, Rotate

\* The disk stays well formed.
LEMMA DiskKeepsItsType ==
  ASSUME Types, Next
  PROVE  disk' \in [0..maxBackups -> Files]
<1>1. CASE disk' = disk
  BY <1>1 DEF Types
<1>2. CASE Creates
  BY <1>2, EmptyFilesAreFiles DEF Types, Creates
<1>3. CASE Removes
  BY <1>3, EmptyFilesAreFiles DEF Types, Removes, Removed
<1>4. CASE Shifts
  <2>1. shiftFrom \in 0..maxBackups /\ disk[shiftFrom] \in Files
    BY <1>4 DEF Types, Shifts
  <2> QED
    BY <1>4, <2>1, EmptyFilesAreFiles DEF Types, Shifts, Renamed
<1>5. ASSUME NEW r \in LineRecs, NEW n \in Int, Adds(r, n)
      PROVE  disk' \in [0..maxBackups -> Files]
  <2>1. disk[0] \in Files /\ 0 \in 0..maxBackups
    BY DEF Types
  <2>2. Append(disk[0].lines, r) \in Seq(LineRecs) /\ disk[0].bytes + n \in Int
    BY <2>1 DEF Files
  <2>3. [lines |-> Append(disk[0].lines, r), bytes |-> disk[0].bytes + n] \in Files
    BY <2>2 DEF Files
  <2> QED
    BY <1>5, <2>3 DEF Adds, Types
<1>6. line \in Int /\ line - 1 \in Int
  BY DEF Types
<1> QED
  BY <1>1, <1>2, <1>3, <1>4, <1>5, <1>6, StepsOnDisk, LinesAreLineRecs

LEMMA TypesStep ==
  ASSUME Types, Next
  PROVE  Types'
<1>1. maxBackups' = maxBackups /\ disk' \in [0..maxBackups -> Files]
  BY DiskKeepsItsType DEF Next
<1>d. disk[0] \in Files /\ disk'[0] \in Files /\ disk[0].bytes \in Int /\ disk'[0].bytes \in Int
  BY <1>1 DEF Types, Files
<1> DEFINE Rest == /\ seq' \in Nat /\ size' \in Int /\ shiftFrom' \in Int /\ line' \in Nat
                   /\ pc' \in BeforeWrite \cup {"down", "idle", "closed", "fsync"}
                   /\ pc' = "shift" => shiftFrom' \in 0..(maxBackups - 1)
                   /\ pc' \in BeforeWrite => line' \in Lens
<1>o. OpenSucceeds \/ OpenFails => size' \in Int
  BY <1>d DEF OpenSucceeds, OpenFails, Types
<1>2. Rest
  <2> USE DEF Types, procVars, BeforeWrite, ReturnDropped
  <2>1. CASE Start
    BY <2>1, <1>o DEF Start
  <2>2. CASE ExportRefused \/ ExportDropped
    BY <2>2 DEF ExportRefused, ExportDropped
  <2>3. CASE ExportBegin
    BY <2>3, LensArePositive DEF ExportBegin
  <2>4. CASE Reopen
    BY <2>4, <1>o DEF Reopen
  <2>5. CASE RotateFlush
    BY <2>5 DEF RotateFlush
  <2>6. CASE RotateClose
    BY <2>6 DEF RotateClose
  <2>7. CASE RotateRemove
    BY <2>7 DEF RotateRemove
  <2>8. CASE RotateShift
    BY <2>8 DEF RotateShift
  <2>9. CASE RotateReopen
    BY <2>9, <1>o DEF RotateReopen
  <2>10. CASE Write
    BY <2>10, <1>d DEF Write
  <2>11. CASE Fsync
    BY <2>11 DEF Fsync
  <2>12. CASE Close
    BY <2>12 DEF Close
  <2>13. CASE ProcessEnds
    BY <2>13 DEF ProcessEnds
  <2> QED
    BY <2>1, <2>2, <2>3, <2>4, <2>5, <2>6, <2>7, <2>8, <2>9, <2>10, <2>11, <2>12, <2>13
    DEF Next, Export, Rotate
<1> QED
  BY <1>1, <1>2 DEF Types

\* The variables stay in their types.
LEMMA TypesInvariant == Spec => []Types
<1>1. Init => Types
  BY EmptyFilesAreFiles, ConstantsAssumption DEF Init, Types, BeforeWrite
<1>2. Types /\ [Next]_vars => Types'
  <2>1. ASSUME Types, UNCHANGED vars PROVE Types'
    BY <2>1 DEF vars, procVars, Types
  <2> QED
    BY <2>1, TypesStep
<1> QED
  BY <1>1, <1>2, PTL DEF Spec

-----------------------------------------------------------------------------
(* The order of the batches *)

Rows(i) == 1..Len(disk[i].lines)

\* GenerationsOrdered, by generation and row.
Sorted ==
  /\ \A i, j \in 0..maxBackups : i < j =>
       \A k \in Rows(i), l \in Rows(j) : disk[j].lines[l].batch < disk[i].lines[k].batch
  /\ \A i \in 0..maxBackups : \A k, l \in Rows(i) :
       k < l => disk[i].lines[k].batch < disk[i].lines[l].batch

\* Nothing on disk is newer than the batch at hand, which is not there itself
\* before its line is written.
Behind ==
  \A i \in 0..maxBackups : \A k \in Rows(i) :
    disk[i].lines[k].batch <= seq /\ (pc \in BeforeWrite => disk[i].lines[k].batch < seq)

LEMMA DiskShape ==
  ASSUME Types, NEW i \in 0..maxBackups
  PROVE  /\ disk[i].lines \in Seq(LineRecs) /\ Len(disk[i].lines) \in Nat
         /\ DOMAIN disk[i].lines = Rows(i)
         /\ \A k \in Rows(i) : disk[i].lines[k].batch \in Nat /\ disk[i].lines[k] \in LineRecs
<1>1. disk[i].lines \in Seq(LineRecs)
  BY DEF Types, Files
<1>2. \A k \in Rows(i) : disk[i].lines[k] \in LineRecs
  BY <1>1, ElementOfSeq DEF Rows
<1> QED
  BY <1>1, <1>2, LenProperties DEF Rows, LineRecs

\* A generation that a step leaves empty, and one that it leaves alone.
LEMMA NoRows ==
  ASSUME NEW i, disk[i].lines = <<>>
  PROVE  Rows(i) = {}
  BY DEF Rows

LEMMA EmptyFilesHaveNoLines == NoFile.lines = <<>> /\ EmptyFile.lines = <<>>
  BY DEF NoFile, EmptyFile

\* What each effect on the disk means for a generation and its rows.
LEMMA AfterClearing ==
  ASSUME Types, NEW c \in 0..maxBackups, NEW f \in {NoFile, EmptyFile},
         disk' = [disk EXCEPT ![c] = f]
  PROVE  /\ Rows(c)' = {}
         /\ \A i \in 0..maxBackups : i # c => disk'[i] = disk[i] /\ Rows(i)' = Rows(i)
<1>1. disk'[c] = f /\ \A i \in 0..maxBackups : i # c => disk'[i] = disk[i]
  BY DEF Types
<1>2. f.lines = <<>>
  BY EmptyFilesHaveNoLines
<1> QED
  BY <1>1, <1>2 DEF Rows

LEMMA AfterShifting ==
  ASSUME Types, Shifts, NEW s, s = shiftFrom
  PROVE  /\ s \in 0..(maxBackups - 1)
         /\ Rows(s)' = {} /\ disk'[s] = NoFile
         /\ disk'[s + 1] = disk[s] /\ Rows(s + 1)' = Rows(s)
         /\ \A i \in 0..maxBackups : i # s /\ i # s + 1 => disk'[i] = disk[i] /\ Rows(i)' = Rows(i)
<1>1. s \in 0..(maxBackups - 1) /\ maxBackups \in Nat
  BY DEF Types, Shifts
<1>2. /\ disk'[s] = NoFile /\ disk'[s + 1] = disk[s]
      /\ \A i \in 0..maxBackups : i # s /\ i # s + 1 => disk'[i] = disk[i]
  BY <1>1 DEF Types, Shifts, Renamed
<1> QED
  BY <1>1, <1>2, EmptyFilesHaveNoLines DEF Rows

LEMMA AfterAdding ==
  ASSUME Types, NEW r \in LineRecs, NEW n \in Int, Adds(r, n)
  PROVE  /\ 0 \in 0..maxBackups
         /\ Len(disk'[0].lines) = Len(disk[0].lines) + 1
         /\ disk'[0].bytes = disk[0].bytes + n
         /\ Rows(0)' = Rows(0) \cup {Len(disk[0].lines) + 1}
         /\ \A k \in Rows(0) : disk'[0].lines[k] = disk[0].lines[k]
         /\ disk'[0].lines[Len(disk[0].lines) + 1] = r
         /\ \A i \in 0..maxBackups : i # 0 => disk'[i] = disk[i] /\ Rows(i)' = Rows(i)
<1>1. 0 \in 0..maxBackups
  BY DEF Types
<1>2. disk[0].lines \in Seq(LineRecs) /\ Len(disk[0].lines) \in Nat
  BY <1>1, DiskShape
<1>3. /\ disk'[0].lines = Append(disk[0].lines, r) /\ disk'[0].bytes = disk[0].bytes + n
      /\ \A i \in 0..maxBackups : i # 0 => disk'[i] = disk[i]
  BY <1>1 DEF Types, Adds
<1>4. Len(disk'[0].lines) = Len(disk[0].lines) + 1
  BY <1>2, <1>3, AppendProperties
<1>5. /\ \A k \in Rows(0) : disk'[0].lines[k] = disk[0].lines[k]
      /\ disk'[0].lines[Len(disk[0].lines) + 1] = r
  BY <1>2, <1>3, AppendProperties DEF Rows
<1>6. Rows(0)' = Rows(0) \cup {Len(disk[0].lines) + 1}
  <2>1. \A m \in Nat : 1..(m + 1) = (1..m) \cup {m + 1}
    OBVIOUS
  <2>2. Rows(0)' = 1..(Len(disk[0].lines) + 1)
    BY <1>4 DEF Rows
  <2> QED
    BY <1>2, <2>1, <2>2 DEF Rows
<1>7. \A i \in 0..maxBackups : i # 0 => Rows(i)' = Rows(i)
  BY <1>3 DEF Rows
<1> QED
  BY <1>1, <1>3, <1>4, <1>5, <1>6, <1>7

\* A disk in order stays in order, and behind the batch at hand.
LEMMA OrderStep ==
  ASSUME Types, Sorted, Behind, Next
  PROVE  Sorted' /\ Behind'
<1>0. maxBackups' = maxBackups /\ maxBackups \in Nat /\ seq \in Nat
  BY DEF Next, Types
<1>p. \/ seq' = seq /\ (pc' \in BeforeWrite => pc \in BeforeWrite)
      \/ seq' = seq + 1 /\ disk' = disk
  <2> USE DEF BeforeWrite, ReturnDropped, procVars
  <2>1. CASE Start \/ ExportRefused \/ ExportDropped \/ ExportBegin \/ Reopen
    BY <2>1 DEF Start, ExportRefused, ExportDropped, ExportBegin, Reopen
  <2>2. CASE RotateFlush \/ RotateClose \/ RotateRemove \/ RotateShift \/ RotateReopen
    BY <2>2 DEF RotateFlush, RotateClose, RotateRemove, RotateShift, RotateReopen
  <2>3. CASE Write
    BY <2>3 DEF Write
  <2>4. CASE Fsync \/ Close \/ ProcessEnds
    BY <2>4 DEF Fsync, Close, ProcessEnds
  <2> QED
    BY <2>1, <2>2, <2>3, <2>4 DEF Next, Export, Rotate
<1>w. pc = "write" => pc' \notin BeforeWrite /\ seq' = seq
  <2> USE DEF BeforeWrite, ReturnDropped
  <2>1. CASE Write \/ ProcessEnds
    BY <2>1 DEF Write, ProcessEnds
  <2>2. CASE ~(Write \/ ProcessEnds)
    BY <2>2 DEF Next, Export, Rotate, Start, ExportRefused, ExportDropped, ExportBegin, Reopen,
       RotateFlush, RotateClose, RotateRemove, RotateShift, RotateReopen, Fsync, Close
  <2> QED
    BY <2>1, <2>2
<1>1. CASE disk' = disk
  <2>1. Sorted'
    BY <1>0, <1>1 DEF Sorted, Rows
  <2>2. \A i \in 0..maxBackups : Rows(i)' = Rows(i) /\ \A k \in Rows(i) : disk[i].lines[k].batch \in Nat
    BY <1>1, DiskShape DEF Rows
  <2>3. Behind'
    BY <1>0, <1>1, <1>p, <2>2 DEF Behind
  <2> QED
    BY <2>1, <2>3
<1>2. ASSUME NEW c \in 0..maxBackups, NEW f \in {NoFile, EmptyFile},
             disk' = [disk EXCEPT ![c] = f], seq' = seq, pc' \in BeforeWrite => pc \in BeforeWrite
      PROVE  Sorted' /\ Behind'
  <2>1. /\ Rows(c)' = {}
        /\ \A i \in 0..maxBackups : i # c => disk'[i] = disk[i] /\ Rows(i)' = Rows(i)
    BY <1>2, AfterClearing
  <2>2. Sorted'
    BY <1>0, <2>1 DEF Sorted
  <2>3. Behind'
    BY <1>0, <1>2, <2>1 DEF Behind
  <2> QED
    BY <2>2, <2>3
<1>3. CASE Shifts /\ seq' = seq /\ (pc' \in BeforeWrite => pc \in BeforeWrite)
  <2> PICK s : s = shiftFrom
    OBVIOUS
  <2>1. /\ s \in 0..(maxBackups - 1)
        /\ Rows(s)' = {}
        /\ disk'[s + 1] = disk[s] /\ Rows(s + 1)' = Rows(s)
        /\ \A i \in 0..maxBackups : i # s /\ i # s + 1 => disk'[i] = disk[i] /\ Rows(i)' = Rows(i)
    BY <1>3, AfterShifting
  <2> DEFINE from(i) == IF i = s + 1 THEN s ELSE i
  <2>2. \A i \in 0..maxBackups : i # s =>
          from(i) \in 0..maxBackups /\ disk'[i] = disk[from(i)] /\ Rows(i)' = Rows(from(i))
    BY <1>0, <2>1
  <2>3. \A i, j \in 0..maxBackups : i # s /\ j # s /\ i < j => from(i) < from(j)
    BY <1>0, <2>1
  <2> HIDE DEF from
  <2>4. Sorted'
    BY <1>0, <2>1, <2>2, <2>3 DEF Sorted
  <2>5. Behind'
    BY <1>0, <1>3, <2>1, <2>2 DEF Behind
  <2> QED
    BY <2>4, <2>5
<1>4. ASSUME NEW r \in LineRecs, NEW n \in Int, Adds(r, n), r.batch = seq
      PROVE  Sorted' /\ Behind'
  <2>1. /\ 0 \in 0..maxBackups
        /\ Rows(0)' = Rows(0) \cup {Len(disk[0].lines) + 1}
        /\ \A k \in Rows(0) : disk'[0].lines[k] = disk[0].lines[k]
        /\ disk'[0].lines[Len(disk[0].lines) + 1] = r
        /\ \A i \in 0..maxBackups : i # 0 => disk'[i] = disk[i] /\ Rows(i)' = Rows(i)
    BY <1>4, AfterAdding
  <2>2. \A i \in 0..maxBackups : \A k \in Rows(i) :
          disk[i].lines[k].batch \in Nat /\ disk[i].lines[k].batch < seq
    BY <1>4, DiskShape DEF Behind, Adds, BeforeWrite
  <2>3. \A k \in Rows(0) : k < Len(disk[0].lines) + 1
    BY <2>1, DiskShape DEF Rows
  <2> DEFINE top == Len(disk[0].lines) + 1
  <2>n. top \in Nat
    BY <2>1, DiskShape
  <2> HIDE DEF top
  <2>4. \A i \in 0..maxBackups : i # 0 => \A k \in Rows(0)', l \in Rows(i)' :
          disk'[i].lines[l].batch < disk'[0].lines[k].batch
    <3> SUFFICES ASSUME NEW i \in 0..maxBackups, i # 0, NEW k \in Rows(0)', NEW l \in Rows(i)'
                 PROVE  disk'[i].lines[l].batch < disk'[0].lines[k].batch
      OBVIOUS
    <3>1. disk'[i] = disk[i] /\ l \in Rows(i) /\ 0 < i
      BY <1>0, <2>1
    <3>2. CASE k \in Rows(0)
      BY <2>1, <3>1, <3>2 DEF Sorted
    <3>3. CASE k = top
      BY <1>4, <2>1, <2>2, <3>1, <3>3 DEF top
    <3> QED
      BY <2>1, <3>2, <3>3 DEF top
  <2>5. \A k, l \in Rows(0)' : k < l => disk'[0].lines[k].batch < disk'[0].lines[l].batch
    <3> SUFFICES ASSUME NEW k \in Rows(0)', NEW l \in Rows(0)', k < l
                 PROVE  disk'[0].lines[k].batch < disk'[0].lines[l].batch
      OBVIOUS
    <3>1. k \in Rows(0) /\ k \in Nat
      <4>1. \A x \in Rows(0) : x \in Nat /\ x < top
        BY <2>3 DEF Rows, top
      <4> QED
        BY <2>1, <2>n, <4>1 DEF top
    <3>2. CASE l \in Rows(0)
      BY <2>1, <3>1, <3>2 DEF Sorted
    <3>3. CASE l = top
      BY <1>4, <2>1, <2>2, <3>1, <3>3 DEF top
    <3> QED
      BY <2>1, <3>2, <3>3 DEF top
  <2>6. Sorted'
    <3> SUFFICES /\ \A i, j \in 0..maxBackups : i < j =>
                      \A k \in Rows(i)', l \in Rows(j)' : disk'[j].lines[l].batch < disk'[i].lines[k].batch
                 /\ \A i \in 0..maxBackups : \A k, l \in Rows(i)' :
                      k < l => disk'[i].lines[k].batch < disk'[i].lines[l].batch
      BY <1>0 DEF Sorted
    <3>1. ASSUME NEW i \in 0..maxBackups, NEW j \in 0..maxBackups, i < j,
                 NEW k \in Rows(i)', NEW l \in Rows(j)'
          PROVE  disk'[j].lines[l].batch < disk'[i].lines[k].batch
      <4>1. j # 0
        BY <1>0, <3>1
      <4>2. CASE i = 0
        BY <2>4, <3>1, <4>1, <4>2
      <4>3. CASE i # 0
        BY <2>1, <3>1, <4>1, <4>3 DEF Sorted
      <4> QED
        BY <4>2, <4>3
    <3>2. ASSUME NEW i \in 0..maxBackups, NEW k \in Rows(i)', NEW l \in Rows(i)', k < l
          PROVE  disk'[i].lines[k].batch < disk'[i].lines[l].batch
      <4>1. CASE i = 0
        BY <2>5, <3>2, <4>1
      <4>2. CASE i # 0
        BY <2>1, <3>2, <4>2 DEF Sorted
      <4> QED
        BY <4>1, <4>2
    <3> QED
      BY <3>1, <3>2
  <2>7. Behind'
    <3>1. seq' = seq /\ pc' \notin BeforeWrite
      BY <1>4, <1>w DEF Adds
    <3>2. \A i \in 0..maxBackups : \A k \in Rows(i)' : disk'[i].lines[k].batch <= seq
      <4>1. ASSUME NEW k \in Rows(0)' PROVE disk'[0].lines[k].batch <= seq
        BY <1>0, <1>4, <2>1, <2>2
      <4>2. ASSUME NEW i \in 0..maxBackups, i # 0, NEW k \in Rows(i)'
            PROVE  disk'[i].lines[k].batch <= seq
        BY <1>0, <4>2, <2>1, <2>2
      <4> QED
        BY <4>1, <4>2
    <3> QED
      BY <1>0, <3>1, <3>2 DEF Behind
  <2> QED
    BY <2>6, <2>7
<1>5. CASE disk' # disk
  <2>1. seq' = seq /\ (pc' \in BeforeWrite => pc \in BeforeWrite)
    BY <1>5, <1>p
  <2>2. CASE Creates
    <3>1. disk' = [disk EXCEPT ![0] = EmptyFile] /\ 0 \in 0..maxBackups
      BY <1>0, <2>2 DEF Creates
    <3> QED
      BY <1>2, <2>1, <3>1
  <2>3. CASE Removes
    <3>1. disk' = [disk EXCEPT ![maxBackups] = NoFile] /\ maxBackups \in 0..maxBackups
      BY <1>0, <2>3 DEF Removes, Removed
    <3> QED
      BY <1>2, <2>1, <3>1
  <2>4. CASE Shifts
    BY <1>3, <2>1, <2>4
  <2>5. Torn.batch = seq /\ Whole.batch = seq
    BY DEF Torn, Whole, Line
  <2>6. line \in Int /\ line - 1 \in Int
    BY DEF Types
  <2> QED
    BY <1>4, <1>5, <2>2, <2>3, <2>4, <2>5, <2>6, StepsOnDisk, LinesAreLineRecs
<1> QED
  BY <1>1, <1>5

LEMMA OrderInvariant == Spec => [](Types /\ Sorted /\ Behind)
<1>1. Init => Sorted /\ Behind
  <2> SUFFICES ASSUME Init PROVE Sorted /\ Behind
    OBVIOUS
  <2>1. \A i \in 0..maxBackups : Rows(i) = {}
    BY EmptyFilesHaveNoLines DEF Init, Rows
  <2> QED
    BY <2>1 DEF Sorted, Behind
<1>2. Types /\ Sorted /\ Behind /\ [Next]_vars => Sorted' /\ Behind'
  <2>1. ASSUME Sorted, Behind, UNCHANGED vars
        PROVE  Sorted' /\ Behind'
    BY <2>1 DEF vars, procVars, Sorted, Behind, Rows
  <2> QED
    BY <2>1, OrderStep
<1> QED
  BY <1>1, <1>2, TypesInvariant, PTL DEF Spec

LEMMA SortedIsOrdered ==
  ASSUME Types, Sorted
  PROVE  GenerationsOrdered
<1>1. \A i \in 0..maxBackups : DOMAIN disk[i].lines = Rows(i)
  BY DiskShape
<1> QED
  BY <1>1 DEF Sorted, GenerationsOrdered, Generations, BatchesIn

\* The backups from the highest number down and the live file last hold the
\* batches in the order they were collected, whatever fails in the middle of
\* however many rotations, restarts included.
THEOREM GenerationsStayOrdered == Spec => []GenerationsOrdered
<1>1. Types /\ Sorted => GenerationsOrdered
  BY SortedIsOrdered
<1> QED
  BY <1>1, OrderInvariant, PTL

-----------------------------------------------------------------------------
(* Where rotation stands *)

\* While generations move the live file is closed; it is gone when the reopen is
\* due, and stays gone until one succeeds; the shift moves into a free place,
\* unless a failed stat has hidden what is there.
Rotation ==
  /\ pc \in {"remove", "shift", "rotopen", "down"} => file = "nil"
  /\ pc = "rotopen" => disk[0] = NoFile
  /\ needsReopen => pc \in {"idle", "closed", "reopen"} /\ disk[0] = NoFile
  /\ pc = "reopen" => needsReopen
  /\ pc = "down" => ~wErr
  /\ SizesSeen /\ pc = "shift" => disk[shiftFrom + 1] = NoFile

LEMMA RotationStep ==
  ASSUME Types, Rotation, Next
  PROVE  Rotation'
<1> USE DEF procVars, ReturnDropped, Works, SizesSeen
<1>0. maxBackups' = maxBackups /\ maxBackups \in Nat /\ 0 \in 0..maxBackups
  BY DEF Next, Types
<1>f. \A kind : Fails(kind) => failed \subseteq failed'
  BY DEF Fails
<1>1. CASE Start
  BY <1>1 DEF Start, Rotation, OpenSucceeds, OpenFails, Fails
<1>2. CASE ExportRefused
  BY <1>2 DEF ExportRefused, Rotation
<1>3. CASE ExportDropped
  BY <1>3 DEF ExportDropped, Rotation
<1>4. CASE ExportBegin
  BY <1>4 DEF ExportBegin, Rotation
<1>5. CASE Reopen
  <2>1. CASE OpenSucceeds /\ needsReopen' = FALSE /\ pc' \in {"flush", "write"}
    BY <2>1 DEF Rotation
  <2>2. CASE OpenFails /\ pc' = "idle" /\ needsReopen' = needsReopen
    BY <1>5, <2>2 DEF Reopen, Rotation, OpenFails, Fails
  <2> QED
    BY <1>5, <2>1, <2>2 DEF Reopen
<1>6. CASE RotateFlush
  BY <1>6 DEF RotateFlush, Rotation
<1>7. CASE RotateClose
  BY <1>7 DEF RotateClose, Rotation
<1>8. CASE RotateRemove
  <2>1. ~needsReopen /\ needsReopen' = needsReopen /\ file = "nil" /\ file' = file
    BY <1>8 DEF RotateRemove, Rotation
  <2>2. CASE pc' = "idle"
    BY <2>1, <2>2 DEF Rotation
  <2>3. CASE /\ disk' = [disk EXCEPT ![maxBackups] = NoFile] /\ shiftFrom' = maxBackups - 1
             /\ pc' = IF maxBackups = 0 THEN "rotopen" ELSE "shift"
    <3>1. disk'[maxBackups] = NoFile
      BY <1>0, <2>3 DEF Types
    <3>2. shiftFrom' + 1 = maxBackups
      BY <1>0, <2>3
    <3> QED
      BY <1>0, <2>1, <2>3, <3>1, <3>2 DEF Rotation
  <2> QED
    BY <1>8, <2>2, <2>3 DEF RotateRemove, Removed
<1>9. CASE RotateShift
  <2>1. ~needsReopen /\ needsReopen' = needsReopen /\ file = "nil" /\ file' = file
    BY <1>9 DEF RotateShift, Rotation
  <2>2. CASE pc' = "idle"
    BY <2>1, <2>2 DEF Rotation
  <2>3. CASE pc' # "idle"
    <3> PICK s : s = shiftFrom
      OBVIOUS
    <3>1. s \in 0..(maxBackups - 1) /\ pc = "shift"
      BY <1>9 DEF RotateShift, Types
    <3>2. /\ ShiftSkips \/ ShiftRenames
          /\ \/ s = 0 /\ pc' = "rotopen"
             \/ s # 0 /\ pc' = "shift" /\ shiftFrom' = s - 1
      BY <1>9, <2>3 DEF RotateShift
    <3>3. disk'[s] = NoFile \/ ("stat" \in failed' /\ s # 0)
      <4>1. CASE ShiftRenames
        BY <4>1, <3>1 DEF ShiftRenames, Renamed, Types
      <4>2. CASE ShiftSkips
        BY <4>2, <3>1 DEF ShiftSkips, Exists, Fails
      <4> QED
        BY <3>2, <4>1, <4>2
    <3>4. CASE s = 0
      BY <2>1, <3>2, <3>3, <3>4 DEF Rotation
    <3>5. CASE s # 0
      <4>1. shiftFrom' + 1 = s
        BY <3>1, <3>2, <3>5
      <4> QED
        BY <2>1, <3>2, <3>3, <3>5, <4>1 DEF Rotation
    <3> QED
      BY <3>4, <3>5
  <2> QED
    BY <2>2, <2>3
<1>10. CASE RotateReopen
  <2>1. CASE OpenSucceeds /\ needsReopen' = FALSE /\ pc' = "write"
    BY <2>1 DEF Rotation
  <2>2. CASE OpenFails /\ pc' = "idle"
    BY <1>10, <2>2 DEF RotateReopen, Rotation, OpenFails
  <2> QED
    BY <1>10, <2>1, <2>2 DEF RotateReopen
<1>11. CASE Write
  BY <1>11 DEF Write, Rotation
<1>12. CASE Fsync
  BY <1>12 DEF Fsync, Rotation
<1>13. CASE Close
  BY <1>13 DEF Close, Rotation
<1>14. CASE ProcessEnds
  BY <1>14 DEF ProcessEnds, Rotation
<1> QED
  BY <1>1, <1>2, <1>3, <1>4, <1>5, <1>6, <1>7, <1>8, <1>9, <1>10, <1>11, <1>12, <1>13, <1>14
  DEF Next, Export, Rotate

LEMMA RotationInvariant == Spec => []Rotation
<1>1. Init => Rotation
  BY DEF Init, Rotation
<1>2. Types /\ Rotation /\ [Next]_vars => Rotation'
  <2>1. ASSUME Rotation, UNCHANGED vars PROVE Rotation'
    BY <2>1 DEF vars, procVars, Rotation, SizesSeen
  <2> QED
    BY <2>1, RotationStep
<1> QED
  BY <1>1, <1>2, TypesInvariant, PTL DEF Spec

LEMMA BatchesOfDisk ==
  ASSUME NEW n \in Nat, NEW d \in [0..n -> Files]
  PROVE  UNION {{d[i].lines[k].batch : k \in DOMAIN d[i].lines} : i \in 0..n}
           = {b \in Nat : \E i \in 0..n : \E k \in 1..Len(d[i].lines) : b = d[i].lines[k].batch}
<1>1. ASSUME NEW i \in 0..n
      PROVE  /\ DOMAIN d[i].lines = 1..Len(d[i].lines)
             /\ \A k \in 1..Len(d[i].lines) : d[i].lines[k].batch \in Nat
  <2>1. d[i].lines \in Seq(LineRecs)
    BY DEF Files
  <2>2. \A k \in 1..Len(d[i].lines) : d[i].lines[k] \in LineRecs
    BY <2>1, ElementOfSeq
  <2> QED
    BY <2>1, <2>2, LenProperties DEF LineRecs
<1> QED
  BY <1>1

LEMMA OnDiskMeans ==
  ASSUME Types
  PROVE  OnDisk = {b \in Nat : \E i \in 0..maxBackups : \E k \in Rows(i) : b = disk[i].lines[k].batch}
  BY BatchesOfDisk DEF Types, OnDisk, BatchesIn, Generations, Rows

\* A batch leaves the disk only as one of the oldest, as long as stat works: what
\* a step makes disappear is older than everything it leaves.
THEOREM OldestLeaveFirst == Spec => OldestGoesFirst
<1>1. Types /\ Types' /\ Sorted /\ Rotation /\ [Next]_vars
        => [SizesSeen => \A b \in OnDisk \ OnDisk', c \in OnDisk' : b < c]_vars
  <2> SUFFICES ASSUME Types, Types', Sorted, Rotation, Next, SizesSeen,
                      NEW b \in OnDisk \ OnDisk', NEW c \in OnDisk'
               PROVE  b < c
    OBVIOUS
  <2>0. maxBackups' = maxBackups /\ maxBackups \in Nat /\ 0 \in 0..maxBackups
    BY DEF Next, Types
  <2>1. PICK i \in 0..maxBackups : \E k \in Rows(i) : b = disk[i].lines[k].batch
    BY OnDiskMeans
  <2>2. PICK k \in Rows(i) : b = disk[i].lines[k].batch
    BY <2>1
  <2>3. OnDisk' = {x \in Nat : \E j \in 0..maxBackups : \E l \in Rows(j)' : x = disk'[j].lines[l].batch}
    <3>1. maxBackups \in Nat /\ disk' \in [0..maxBackups -> Files]
      BY <2>0 DEF Types
    <3>2. UNION {{disk'[j].lines[l].batch : l \in DOMAIN disk'[j].lines} : j \in 0..maxBackups}
           = {x \in Nat : \E j \in 0..maxBackups : \E l \in 1..Len(disk'[j].lines) : x = disk'[j].lines[l].batch}
      BY <3>1, BatchesOfDisk
    <3> QED
      BY <2>0, <3>2 DEF OnDisk, BatchesIn, Generations, Rows
  <2>4. b \in Nat
    BY OnDiskMeans
  <2>5. \A j \in 0..maxBackups : \A l \in Rows(j)' : disk'[j].lines[l].batch # b
    BY <2>3, <2>4
  <2>6. CASE disk' = disk
    <3>1. Rows(i)' = Rows(i)
      BY <2>6 DEF Rows
    <3> QED
      BY <2>1, <2>2, <2>5, <2>6, <3>1
  <2>7. CASE Creates
    <3>1. i # 0
      BY <2>2, <2>7, EmptyFilesHaveNoLines DEF Creates, Rows
    <3>2. disk'[i] = disk[i] /\ Rows(i)' = Rows(i)
      BY <2>0, <2>7, <3>1, AfterClearing DEF Creates
    <3> QED
      BY <2>1, <2>2, <2>5, <3>2
  <2>8. CASE Removes
    <3> PICK m : m = maxBackups
      OBVIOUS
    <3>1. /\ Rows(m)' = {}
          /\ \A j \in 0..maxBackups : j # m => disk'[j] = disk[j] /\ Rows(j)' = Rows(j)
      <4>1. disk' = [disk EXCEPT ![m] = NoFile] /\ m \in 0..maxBackups
        BY <2>0, <2>8 DEF Removes, Removed
      <4> QED
        BY <4>1, AfterClearing
    <3>2. i = m
      BY <2>1, <2>2, <2>5, <3>1
    <3>3. PICK j \in 0..maxBackups : \E l \in Rows(j)' : c = disk'[j].lines[l].batch
      BY <2>3
    <3>4. PICK l \in Rows(j)' : c = disk'[j].lines[l].batch
      BY <3>3
    <3>5. j # m /\ j < i
      BY <2>0, <3>1, <3>2, <3>3, <3>4
    <3>6. l \in Rows(j) /\ c = disk[j].lines[l].batch
      BY <3>1, <3>4, <3>5
    <3> QED
      BY <2>2, <3>5, <3>6 DEF Sorted
  <2>9. CASE Shifts
    <3> PICK s : s = shiftFrom
      OBVIOUS
    <3>1. /\ s \in 0..(maxBackups - 1)
          /\ disk'[s + 1] = disk[s] /\ Rows(s + 1)' = Rows(s)
          /\ \A j \in 0..maxBackups : j # s /\ j # s + 1 => disk'[j] = disk[j] /\ Rows(j)' = Rows(j)
      BY <2>9, AfterShifting
    <3>2. disk[s + 1] = NoFile
      BY <2>9 DEF Shifts, Rotation
    <3>3. i # s + 1
      BY <2>2, <3>2, EmptyFilesHaveNoLines DEF Rows
    <3>4. s + 1 \in 0..maxBackups
      BY <2>0, <3>1
    <3>5. i # s
      BY <2>2, <2>5, <3>1, <3>4
    <3> QED
      BY <2>2, <2>5, <3>1, <3>3, <3>5
  <2>10. ASSUME NEW r \in LineRecs, NEW n \in Int, Adds(r, n)
         PROVE  FALSE
    <3>1. /\ Rows(0)' = Rows(0) \cup {Len(disk[0].lines) + 1}
          /\ \A l \in Rows(0) : disk'[0].lines[l] = disk[0].lines[l]
          /\ \A j \in 0..maxBackups : j # 0 => disk'[j] = disk[j] /\ Rows(j)' = Rows(j)
      BY <2>10, AfterAdding
    <3>2. CASE i = 0
      BY <2>2, <2>5, <3>1, <3>2
    <3>3. CASE i # 0
      BY <2>2, <2>5, <3>1, <3>3
    <3> QED
      BY <3>2, <3>3
  <2>11. line \in Int /\ line - 1 \in Int
    BY DEF Types
  <2> QED
    BY <2>6, <2>7, <2>8, <2>9, <2>10, <2>11, StepsOnDisk, LinesAreLineRecs
<1> QED
  BY <1>1, OrderInvariant, RotationInvariant, PTL DEF Spec, OldestGoesFirst

-----------------------------------------------------------------------------
(* What a rotation consumes *)

\* A generation removed since the live file was last opened is paid for by a
\* reopen that is due.
Consumed ==
  /\ destroyed \in 0..1
  /\ destroyed = 1 => pc \in {"shift", "rotopen", "down"} \/ needsReopen

LEMMA FailedGrows ==
  ASSUME Next
  PROVE  failed \subseteq failed'
<1>1. \A kind : Fails(kind) => failed \subseteq failed'
  BY DEF Fails
<1> QED
  BY <1>1 DEF Next, Start, Export, ExportRefused, ExportDropped, ExportBegin, Reopen, Rotate, RotateFlush,
     RotateClose, RotateRemove, RotateShift, RotateReopen, Write, Fsync, Close, ProcessEnds,
     OpenSucceeds, OpenFails, ShiftSkips, ShiftRenames, Works, procVars

LEMMA ConsumedStep ==
  ASSUME Rotation, Next, "rename" \notin failed', "rename" \notin failed => Consumed
  PROVE  Consumed'
<1> USE DEF procVars, ReturnDropped, Works
<1>0. "rename" \notin failed
  BY FailedGrows
<1>1. CASE Start
  BY <1>0, <1>1 DEF Start, Consumed, OpenSucceeds, OpenFails
<1>2. CASE ExportRefused \/ ExportDropped \/ ExportBegin \/ RotateFlush \/ RotateClose
  BY <1>0, <1>2 DEF ExportRefused, ExportDropped, ExportBegin, RotateFlush, RotateClose, Consumed
<1>3. CASE Reopen
  BY <1>0, <1>3 DEF Reopen, Consumed, OpenSucceeds, OpenFails
<1>4. CASE RotateRemove
  <2>1. destroyed = 0
    BY <1>0, <1>4 DEF RotateRemove, Consumed, Rotation
  <2> QED
    BY <1>4, <2>1 DEF RotateRemove, Consumed
<1>5. CASE RotateShift
  BY <1>0, <1>5 DEF RotateShift, Consumed, Fails
<1>6. CASE RotateReopen
  BY <1>0, <1>6 DEF RotateReopen, Consumed, OpenSucceeds, OpenFails
<1>7. CASE Write
  BY <1>0, <1>7 DEF Write, Consumed
<1>8. CASE Fsync \/ Close
  BY <1>0, <1>8 DEF Fsync, Close, Consumed
<1>9. CASE ProcessEnds
  BY <1>0, <1>9 DEF ProcessEnds, Consumed
<1> QED
  BY <1>1, <1>2, <1>3, <1>4, <1>5, <1>6, <1>7, <1>8, <1>9 DEF Next, Export, Rotate

\* As long as no rename fails, a rotation consumes at most one generation before
\* there is a live file again: a failed open, or a kill, does not replay the shift.
THEOREM ShiftIsNotReplayed == Spec => []ShiftNotReplayed
<1> DEFINE C == "rename" \notin failed => Consumed
<1>1. Init => C
  BY DEF Init, Consumed
<1>2. Rotation /\ C /\ [Next]_vars => C'
  <2>1. ASSUME C, UNCHANGED vars PROVE C'
    BY <2>1 DEF vars, procVars, Consumed
  <2>2. ASSUME Rotation, C, Next PROVE C'
    BY <2>2, ConsumedStep
  <2> QED
    BY <2>1, <2>2
<1>3. C => ShiftNotReplayed
  BY DEF Consumed, ShiftNotReplayed
<1> HIDE DEF C
<1> QED
  BY <1>1, <1>2, <1>3, RotationInvariant, PTL DEF Spec

-----------------------------------------------------------------------------
(* The sizes *)

\* A file that exists has a size, and its lines make it positive.
Weights ==
  \A i \in 0..maxBackups :
    /\ disk[i] = NoFile \/ disk[i].bytes >= 0
    /\ Len(disk[i].lines) > 0 => disk[i].bytes >= 1

\* While lines can be written the exporter knows the size of the live file, and
\* has asked whether the next line fits.
Measured ==
  /\ file = "open" => disk[0] # NoFile
  /\ SizesSeen /\ file = "open" /\ ~wErr =>
       /\ size = disk[0].bytes
       /\ pc = "write" => ~MustRotate(size, line)

Bounded ==
  SizesSeen => \A i \in 0..maxBackups : disk[i].bytes > MaxBytes => Len(disk[i].lines) = 1

LEMMA EmptyFilesWeighNothing ==
  /\ NoFile.bytes = -1 /\ EmptyFile.bytes = 0 /\ EmptyFile # NoFile
  /\ Len(NoFile.lines) = 0 /\ Len(EmptyFile.lines) = 0
  BY DEF NoFile, EmptyFile

LEMMA WeightsStep ==
  ASSUME Types, Weights, Measured, Next
  PROVE  Weights'
<1>0. maxBackups' = maxBackups /\ maxBackups \in Nat /\ 0 \in 0..maxBackups
  BY DEF Next, Types
<1>1. CASE disk' = disk
  BY <1>0, <1>1 DEF Weights
<1>2. ASSUME NEW c \in 0..maxBackups, NEW f \in {NoFile, EmptyFile}, disk' = [disk EXCEPT ![c] = f]
      PROVE  Weights'
  <2>1. disk'[c] = f /\ \A i \in 0..maxBackups : i # c => disk'[i] = disk[i]
    BY <1>2 DEF Types
  <2>2. (f = NoFile \/ f.bytes >= 0) /\ (Len(f.lines) > 0 => f.bytes >= 1)
    BY EmptyFilesWeighNothing
  <2> QED
    BY <1>0, <2>1, <2>2 DEF Weights
<1>3. CASE Creates \/ Removes
  BY <1>0, <1>2, <1>3 DEF Creates, Removes, Removed
<1>4. CASE Shifts
  <2> PICK s : s = shiftFrom
    OBVIOUS
  <2>1. /\ s \in 0..(maxBackups - 1) /\ disk'[s] = NoFile /\ disk'[s + 1] = disk[s]
        /\ \A i \in 0..maxBackups : i # s /\ i # s + 1 => disk'[i] = disk[i]
    BY <1>4, AfterShifting
  <2>2. \A i \in 0..maxBackups : disk'[i] = NoFile \/ \E j \in 0..maxBackups : disk'[i] = disk[j]
    BY <1>0, <2>1
  <2> QED
    BY <1>0, <2>2, EmptyFilesWeighNothing DEF Weights
<1>5. ASSUME NEW r \in LineRecs, NEW n \in Nat \ {0}, Adds(r, n)
      PROVE  Weights'
  <2>1. /\ Len(disk'[0].lines) = Len(disk[0].lines) + 1
        /\ disk'[0].bytes = disk[0].bytes + n
        /\ \A i \in 0..maxBackups : i # 0 => disk'[i] = disk[i]
    BY <1>5, AfterAdding
  <2>2. disk[0].bytes >= 0 /\ disk[0].bytes \in Int
    BY <1>0, <1>5 DEF Adds, Measured, Weights, Types, Files
  <2>3. disk'[0].bytes >= 1 /\ disk'[0].bytes >= 0
    BY <2>1, <2>2
  <2> QED
    BY <1>0, <2>1, <2>3 DEF Weights
<1>6. pc = "write" => line \in Nat \ {0} /\ line - 1 \in Nat \ {0}
  BY LensArePositive DEF Types, BeforeWrite
<1> QED
  BY <1>1, <1>3, <1>4, <1>5, <1>6, StepsOnDisk, LinesAreLineRecs DEF Adds

LEMMA BoundedStep ==
  ASSUME MaxBytes > 0, Types, Weights, Measured, Bounded, Next
  PROVE  Bounded'
<1> SUFFICES ASSUME SizesSeen'
             PROVE  \A i \in 0..maxBackups : disk'[i].bytes > MaxBytes => Len(disk'[i].lines) = 1
  BY DEF Bounded, Next
<1>0. maxBackups' = maxBackups /\ maxBackups \in Nat /\ 0 \in 0..maxBackups /\ MaxBytes \in Nat
  BY ConstantsAssumption DEF Next, Types
<1>b. SizesSeen /\ \A i \in 0..maxBackups : disk[i].bytes > MaxBytes => Len(disk[i].lines) = 1
  BY FailedGrows DEF SizesSeen, Bounded
<1>1. CASE disk' = disk
  BY <1>b, <1>1
<1>2. ASSUME NEW c \in 0..maxBackups, NEW f \in {NoFile, EmptyFile}, disk' = [disk EXCEPT ![c] = f],
             NEW i \in 0..maxBackups, disk'[i].bytes > MaxBytes
      PROVE  Len(disk'[i].lines) = 1
  <2>1. disk'[c] = f /\ \A j \in 0..maxBackups : j # c => disk'[j] = disk[j]
    BY <1>2 DEF Types
  <2>2. ~(f.bytes > MaxBytes)
    BY <1>0, EmptyFilesWeighNothing
  <2> QED
    BY <1>b, <1>2, <2>1, <2>2
<1>3. CASE Creates \/ Removes
  BY <1>0, <1>2, <1>3 DEF Creates, Removes, Removed
<1>4. CASE Shifts
  <2> PICK s : s = shiftFrom
    OBVIOUS
  <2>1. /\ s \in 0..(maxBackups - 1) /\ disk'[s] = NoFile /\ disk'[s + 1] = disk[s]
        /\ \A i \in 0..maxBackups : i # s /\ i # s + 1 => disk'[i] = disk[i]
    BY <1>4, AfterShifting
  <2>2. \A i \in 0..maxBackups : disk'[i] = NoFile \/ \E j \in 0..maxBackups : disk'[i] = disk[j]
    BY <1>0, <2>1
  <2>3. ~(NoFile.bytes > MaxBytes)
    BY <1>0, EmptyFilesWeighNothing
  <2> QED
    BY <1>b, <2>2, <2>3
<1>5. ASSUME NEW r \in LineRecs, NEW n \in Nat, n <= line, Adds(r, n)
      PROVE  \A i \in 0..maxBackups : disk'[i].bytes > MaxBytes => Len(disk'[i].lines) = 1
  <2>1. /\ Len(disk'[0].lines) = Len(disk[0].lines) + 1
        /\ disk'[0].bytes = disk[0].bytes + n
        /\ \A i \in 0..maxBackups : i # 0 => disk'[i] = disk[i]
    BY <1>5, AfterAdding
  <2>2. /\ size = disk[0].bytes /\ ~MustRotate(size, line)
        /\ disk[0] # NoFile
    BY <1>b, <1>5 DEF Adds, Measured
  <2>3. /\ disk[0].bytes \in Int /\ disk[0].bytes >= 0 /\ line \in Nat
        /\ Len(disk[0].lines) \in Nat /\ (Len(disk[0].lines) > 0 => disk[0].bytes >= 1)
    BY <1>0, <2>2, DiskShape DEF Types, Files, Weights
  <2>4. disk[0].bytes = 0 \/ disk[0].bytes + line <= MaxBytes
    BY <1>0, <2>2, <2>3 DEF MustRotate
  <2>5. disk'[0].bytes > MaxBytes => Len(disk'[0].lines) = 1
    BY <1>0, <1>5, <2>1, <2>3, <2>4
  <2> QED
    BY <1>b, <2>1, <2>5
<1>6. pc = "write" => line \in Nat /\ line - 1 \in Nat /\ line <= line /\ line - 1 <= line
  BY LensArePositive DEF Types, BeforeWrite
<1> QED
  BY <1>1, <1>3, <1>4, <1>5, <1>6, StepsOnDisk, LinesAreLineRecs DEF Adds

LEMMA MeasuredStep ==
  ASSUME Types, Rotation, Measured, Next
  PROVE  Measured'
<1> USE DEF procVars, ReturnDropped, Works
<1>0. maxBackups \in Nat /\ 0 \in 0..maxBackups /\ disk[0].bytes \in Int /\ size \in Int /\ line \in Nat
  BY DEF Types, Files
<1>s. SizesSeen' => SizesSeen
  BY FailedGrows DEF SizesSeen
<1>o. ASSUME OpenSucceeds, pc' = "write" => (SizesSeen' => ~MustRotate(size', line')) PROVE Measured'
  <2>1. disk'[0] # NoFile
    BY <1>0, <1>o, EmptyFilesWeighNothing DEF OpenSucceeds, Exists, Types
  <2>2. size' = disk'[0].bytes \/ "stat" \in failed'
    BY <1>o DEF OpenSucceeds, Fails
  <2> QED
    BY <1>o, <2>1, <2>2 DEF Measured, SizesSeen
<1>k. ASSUME disk' = disk, file' = file, wErr' = wErr, size' = size, pc' # "write" PROVE Measured'
  BY <1>k, <1>s DEF Measured
<1>c. ASSUME file' # "open" PROVE Measured'
  BY <1>c DEF Measured
<1>1. CASE Start
  <2>1. pc' # "write"
    BY <1>1 DEF Start
  <2>2. CASE OpenSucceeds
    BY <1>o, <2>1, <2>2
  <2>3. CASE OpenFails
    BY <1>k, <2>1, <2>3 DEF OpenFails
  <2> QED
    BY <1>1, <2>2, <2>3 DEF Start
<1>2. CASE ExportRefused \/ ExportDropped
  BY <1>k, <1>2 DEF ExportRefused, ExportDropped
<1>3. CASE ExportBegin
  <2>1. disk' = disk /\ file' = file /\ wErr' = wErr /\ size' = size
    BY <1>3 DEF ExportBegin
  <2>2. pc' = "write" => ~MustRotate(size', line')
    BY <1>3 DEF ExportBegin
  <2> QED
    BY <1>s, <2>1, <2>2 DEF Measured
<1>4. CASE Reopen
  <2>1. CASE OpenSucceeds /\ pc' = (IF MustRotate(size', line) THEN "flush" ELSE "write") /\ line' = line
    <3>1. pc' = "write" => ~MustRotate(size', line')
      BY <2>1
    <3> QED
      BY <1>o, <2>1, <3>1
  <2>2. CASE OpenFails /\ pc' = "idle"
    BY <1>k, <2>2 DEF OpenFails
  <2> QED
    BY <1>4, <2>1, <2>2 DEF Reopen
<1>5. CASE RotateFlush
  BY <1>5, <1>k DEF RotateFlush
<1>6. CASE RotateClose
  <2>1. CASE file' # "open"
    BY <2>1, <1>c
  <2>2. CASE file' = file /\ file # "open"
    BY <2>2, <1>c
  <2> QED
    BY <1>6, <2>1, <2>2 DEF RotateClose
<1>7. CASE RotateRemove
  BY <1>7, <1>c DEF RotateRemove, Rotation
<1>8. CASE RotateShift
  BY <1>8, <1>c DEF RotateShift, Rotation
<1>9. CASE RotateReopen
  <2>1. CASE OpenSucceeds
    <3>1. disk'[0] = EmptyFile
      BY <1>0, <1>9, <2>1 DEF RotateReopen, Rotation, OpenSucceeds, Exists, Types
    <3>2. size' = 0
      BY <2>1, <3>1, EmptyFilesWeighNothing DEF OpenSucceeds
    <3>3. ~MustRotate(size', line')
      BY <3>2 DEF MustRotate
    <3> QED
      BY <1>o, <2>1, <3>3
  <2>2. CASE OpenFails /\ pc' = "idle"
    BY <1>k, <2>2 DEF OpenFails
  <2> QED
    BY <1>9, <2>1, <2>2 DEF RotateReopen
<1>10. CASE Write
  <2>0. file' = file /\ pc' # "write"
    BY <1>10 DEF Write
  <2>1. CASE /\ file = "open" /\ disk' = [disk EXCEPT ![0] = AppendWhole(@, seq, line)]
             /\ size' = size + line /\ wErr' = wErr
    <3>1. disk'[0].bytes = disk[0].bytes + line
      BY <1>0, <2>1 DEF AppendWhole, Types
    <3>2. disk'[0] # NoFile
      <4>1. disk'[0].lines = Append(disk[0].lines, Whole)
        BY <1>0, <2>1 DEF AppendWhole, Whole, Types
      <4>2. disk[0].lines \in Seq(LineRecs) /\ Whole \in LineRecs
        BY <1>0, DiskShape, LinesAreLineRecs
      <4>3. disk'[0].lines # <<>>
        BY <4>1, <4>2, AppendProperties
      <4> QED
        BY <4>3, EmptyFilesHaveNoLines
    <3>3. SizesSeen' /\ ~wErr => size' = disk'[0].bytes
      BY <1>0, <1>s, <2>1, <3>1 DEF Measured
    <3> QED
      BY <2>0, <2>1, <3>2, <3>3 DEF Measured
  <2>2. CASE /\ wErr' = TRUE
             /\ file = "open" /\ disk' \in {disk, [disk EXCEPT ![0] = AppendTorn(@, seq, line)]}
    <3>1. disk'[0] # NoFile
      <4>1. CASE disk' = disk
        BY <2>2, <4>1 DEF Measured
      <4>2. CASE disk' = [disk EXCEPT ![0] = AppendTorn(@, seq, line)]
        <5>1. disk'[0].lines = Append(disk[0].lines, Torn)
          BY <1>0, <4>2 DEF AppendTorn, Torn, Types
        <5>2. disk[0].lines \in Seq(LineRecs) /\ Torn \in LineRecs
          BY <1>0, DiskShape, LinesAreLineRecs
        <5>3. disk'[0].lines # <<>>
          BY <5>1, <5>2, AppendProperties
        <5> QED
          BY <5>3, EmptyFilesHaveNoLines
      <4> QED
        BY <2>2, <4>1, <4>2
    <3> QED
      BY <2>2, <3>1 DEF Measured
  <2>3. CASE wErr' = TRUE /\ disk' = disk
    BY <2>0, <2>3 DEF Measured
  <2> QED
    BY <1>10, <2>1, <2>2, <2>3 DEF Write
<1>11. CASE Fsync
  BY <1>11, <1>k DEF Fsync
<1>12. CASE Close
  BY <1>12, <1>c DEF Close
<1>13. CASE ProcessEnds
  BY <1>13, <1>c DEF ProcessEnds
<1> QED
  BY <1>1, <1>2, <1>3, <1>4, <1>5, <1>6, <1>7, <1>8, <1>9, <1>10, <1>11, <1>12, <1>13
  DEF Next, Export, Rotate

LEMMA SizesInvariant == Spec => [](Weights /\ Measured)
<1>1. Init => Weights /\ Measured
  BY EmptyFilesWeighNothing DEF Init, Weights, Measured
<1>2. Types /\ Rotation /\ Weights /\ Measured /\ [Next]_vars => Weights' /\ Measured'
  <2>1. ASSUME Weights, Measured, UNCHANGED vars PROVE Weights' /\ Measured'
    BY <2>1 DEF vars, procVars, Weights, Measured, SizesSeen
  <2> QED
    BY <2>1, WeightsStep, MeasuredStep
<1> QED
  BY <1>1, <1>2, TypesInvariant, RotationInvariant, PTL DEF Spec

\* With rotation on, a file exceeds the threshold only when it holds a single
\* line, also after failed writes, failed rotations, kills and restarts, as long
\* as stat works.
THEOREM FilesStayBounded ==
  ASSUME MaxBytes > 0
  PROVE  Spec => []FilesBounded
<1>1. Init => Bounded
  <2>1. ~(NoFile.bytes > MaxBytes)
    BY EmptyFilesWeighNothing, ConstantsAssumption
  <2> QED
    BY <2>1 DEF Init, Bounded
<1>2. Types /\ Weights /\ Measured /\ Bounded /\ [Next]_vars => Bounded'
  <2>1. ASSUME Bounded, UNCHANGED vars PROVE Bounded'
    BY <2>1 DEF vars, Bounded, SizesSeen
  <2> QED
    BY <2>1, BoundedStep
<1>3. Bounded => FilesBounded
  BY DEF Bounded, FilesBounded, Generations
<1> QED
  BY <1>1, <1>2, <1>3, TypesInvariant, SizesInvariant, PTL DEF Spec

-----------------------------------------------------------------------------
(* The damage a kill does *)

\* The batches whose line ran into a torn one.
Merged ==
  {b \in 0..seq : \E i \in 0..maxBackups : \E k \in Rows(i) :
     disk[i].lines[k].batch = b /\ ~disk[i].lines[k].whole /\ disk[i].lines[k].newline}

\* Every restart is good for one merged line, and one is in reserve while the
\* live file ends in a torn line that the writer could still run into.
Damage ==
  /\ crashes \in Nat
  /\ Cardinality(Merged) <= crashes
  /\ ~EndsCleanly(disk[0]) /\ ~wErr => Cardinality(Merged) + 1 <= crashes

\* What is exported is not ahead of the batch at hand, and a torn line is never
\* that of an exported batch.
Accounted ==
  /\ \A b \in exported : b \in Nat /\ b <= seq /\ (pc \in BeforeWrite \cup {"fsync"} => b < seq)
  /\ \A i \in 0..maxBackups : \A k \in Rows(i) :
       ~disk[i].lines[k].newline =>
         disk[i].lines[k].batch \notin exported /\ (pc = "fsync" => disk[i].lines[k].batch # seq)

LEMMA MergedIsFinite ==
  ASSUME Types
  PROVE  IsFiniteSet(Merged) /\ Cardinality(Merged) \in Nat
<1>1. IsFiniteSet(0..seq)
  BY FS_Interval DEF Types
<1>2. Merged \in SUBSET (0..seq)
  BY DEF Merged
<1>3. IsFiniteSet(Merged)
  BY <1>1, <1>2, FS_Subset
<1> QED
  BY <1>3, FS_CardinalityType

\* A line is only torn by a write that fails, after which the writer keeps its
\* error, or by a kill; the batch is not counted as exported.
LEMMA TornMeans ==
  ASSUME Types, Next, Adds(Torn, line - 1)
  PROVE  /\ exported' = exported /\ seq' = seq /\ pc' \in {"idle", "down"}
         /\ wErr' \/ crashes' = crashes + 1
<1>1. pc = "write"
  BY DEF Adds
<1>2. Write \/ ProcessEnds
  BY <1>1 DEF Next, Export, Rotate, Start, ExportRefused, ExportDropped, ExportBegin, Reopen,
     RotateFlush, RotateClose, RotateRemove, RotateShift, RotateReopen, Fsync, Close
<1>3. CASE ProcessEnds
  BY <1>3 DEF ProcessEnds
<1>4. CASE Write
  <2>1. disk' # [disk EXCEPT ![0] = AppendWhole(@, seq, line)]
    <3> SUFFICES ASSUME disk' = [disk EXCEPT ![0] = AppendWhole(@, seq, line)] PROVE FALSE
      OBVIOUS
    <3>1. 0 \in 0..maxBackups
      BY DEF Types
    <3>2. disk[0].lines \in Seq(LineRecs) /\ Torn \in LineRecs /\ Whole \in LineRecs
      BY <3>1, DiskShape, LinesAreLineRecs
    <3>3. disk'[0].lines = Append(disk[0].lines, Torn)
      BY <3>1 DEF Adds, Types
    <3>4. disk'[0].lines = Append(disk[0].lines, Whole)
      BY <3>1 DEF AppendWhole, Whole, Types
    <3>5. Torn = Whole
      BY <3>2, <3>3, <3>4, AppendProperties
    <3>6. Torn.newline # Whole.newline
      BY DEF Torn, Whole, Line
    <3> QED
      BY <3>5, <3>6
  <2> QED
    BY <1>4, <2>1 DEF Write, ReturnDropped
<1> QED
  BY <1>2, <1>3, <1>4

\* The lines a step leaves: old ones, and at most one new one.
LEMMA LinesStep ==
  ASSUME Types, Next
  PROVE  \A i \in 0..maxBackups : \A k \in Rows(i)' :
           \/ \E j \in 0..maxBackups : \E l \in Rows(j) : disk'[i].lines[k] = disk[j].lines[l]
           \/ Adds(Torn, line - 1) /\ disk'[i].lines[k] = Torn
           \/ Adds(Whole, line) /\ disk'[i].lines[k] = Whole
<1> TAKE i \in 0..maxBackups
<1> TAKE k \in Rows(i)'
<1>0. maxBackups \in Nat /\ 0 \in 0..maxBackups
  BY DEF Types
<1>1. CASE disk' = disk
  BY <1>1 DEF Rows
<1>2. CASE Creates
  <2>1. i # 0 /\ disk'[i] = disk[i] /\ Rows(i)' = Rows(i)
    BY <1>0, <1>2, AfterClearing DEF Creates
  <2> QED
    BY <2>1
<1>3. CASE Removes
  <2> PICK m : m = maxBackups
    OBVIOUS
  <2>1. disk' = [disk EXCEPT ![m] = NoFile] /\ m \in 0..maxBackups
    BY <1>0, <1>3 DEF Removes, Removed
  <2>2. i # m /\ disk'[i] = disk[i] /\ Rows(i)' = Rows(i)
    BY <2>1, AfterClearing
  <2> QED
    BY <2>2
<1>4. CASE Shifts
  <2> PICK s : s = shiftFrom
    OBVIOUS
  <2>1. /\ s \in 0..(maxBackups - 1) /\ Rows(s)' = {}
        /\ disk'[s + 1] = disk[s] /\ Rows(s + 1)' = Rows(s)
        /\ \A j \in 0..maxBackups : j # s /\ j # s + 1 => disk'[j] = disk[j] /\ Rows(j)' = Rows(j)
    BY <1>4, AfterShifting
  <2>2. s \in 0..maxBackups
    BY <1>0, <2>1
  <2> QED
    BY <2>1, <2>2
<1>5. ASSUME NEW r \in LineRecs, NEW n \in Int, Adds(r, n)
      PROVE  disk'[i].lines[k] = r
             \/ \E j \in 0..maxBackups : \E l \in Rows(j) : disk'[i].lines[k] = disk[j].lines[l]
  <2>1. /\ Rows(0)' = Rows(0) \cup {Len(disk[0].lines) + 1}
        /\ \A l \in Rows(0) : disk'[0].lines[l] = disk[0].lines[l]
        /\ disk'[0].lines[Len(disk[0].lines) + 1] = r
        /\ \A j \in 0..maxBackups : j # 0 => disk'[j] = disk[j] /\ Rows(j)' = Rows(j)
    BY <1>5, AfterAdding
  <2>2. CASE i = 0
    BY <1>0, <2>1, <2>2
  <2>3. CASE i # 0
    BY <2>1, <2>3
  <2> QED
    BY <2>2, <2>3
<1>6. line \in Int /\ line - 1 \in Int
  BY DEF Types
<1> QED
  BY <1>1, <1>2, <1>3, <1>4, <1>5, <1>6, StepsOnDisk, LinesAreLineRecs

LEMMA ExportedStep ==
  ASSUME Next
  PROVE  \/ exported' = exported /\ (seq' = seq \/ (seq' = seq + 1 /\ disk' = disk /\ pc' # "fsync"))
         \/ exported' = exported \cup {seq} /\ seq' = seq /\ pc' = "idle" /\ pc \in {"write", "fsync"}
<1> USE DEF procVars, ReturnDropped
<1>1. CASE Start \/ ExportRefused \/ ExportDropped \/ ExportBegin \/ Reopen
  BY <1>1 DEF Start, ExportRefused, ExportDropped, ExportBegin, Reopen
<1>2. CASE RotateFlush \/ RotateClose \/ RotateRemove \/ RotateShift \/ RotateReopen
  BY <1>2 DEF RotateFlush, RotateClose, RotateRemove, RotateShift, RotateReopen
<1>3. CASE Write
  BY <1>3 DEF Write
<1>4. CASE Fsync \/ Close \/ ProcessEnds
  BY <1>4 DEF Fsync, Close, ProcessEnds
<1> QED
  BY <1>1, <1>2, <1>3, <1>4 DEF Next, Export, Rotate

LEMMA FsyncStep ==
  ASSUME Next
  PROVE  /\ pc' = "fsync" => pc = "write"
         /\ pc' \in BeforeWrite => pc \in BeforeWrite \/ seq' = seq + 1
<1> USE DEF procVars, ReturnDropped, BeforeWrite
<1>1. CASE Start \/ ExportRefused \/ ExportDropped \/ ExportBegin \/ Reopen
  BY <1>1 DEF Start, ExportRefused, ExportDropped, ExportBegin, Reopen
<1>2. CASE RotateFlush \/ RotateClose \/ RotateRemove \/ RotateShift \/ RotateReopen
  BY <1>2 DEF RotateFlush, RotateClose, RotateRemove, RotateShift, RotateReopen
<1>3. CASE Write
  BY <1>3 DEF Write
<1>4. CASE Fsync \/ Close \/ ProcessEnds
  BY <1>4 DEF Fsync, Close, ProcessEnds
<1> QED
  BY <1>1, <1>2, <1>3, <1>4 DEF Next, Export, Rotate

LEMMA AccountedStep ==
  ASSUME Types, Behind, Accounted, Next
  PROVE  Accounted'
<1>0. maxBackups' = maxBackups /\ maxBackups \in Nat /\ seq \in Nat
  BY DEF Next, Types
<1>w. "write" \in BeforeWrite
  BY DEF BeforeWrite
<1>1. ASSUME NEW b \in exported'
      PROVE  b \in Nat /\ b <= seq' /\ (pc' \in BeforeWrite \cup {"fsync"} => b < seq')
  <2>i. "idle" \notin BeforeWrite \cup {"fsync"}
    BY DEF BeforeWrite
  <2>1. CASE b \in exported /\ seq' = seq
    <3>1. pc' \in BeforeWrite \cup {"fsync"} => pc \in BeforeWrite \cup {"fsync"}
      BY <1>0, <1>w, <2>1, FsyncStep
    <3> QED
      BY <2>1, <3>1 DEF Accounted
  <2>2. CASE b \in exported /\ seq' = seq + 1
    BY <1>0, <2>2 DEF Accounted
  <2>3. CASE b = seq /\ seq' = seq /\ pc' = "idle"
    BY <1>0, <2>i, <2>3
  <2> QED
    BY <1>1, <2>1, <2>2, <2>3, ExportedStep
<1>2. ASSUME NEW i \in 0..maxBackups, NEW k \in Rows(i)', ~disk'[i].lines[k].newline
      PROVE  disk'[i].lines[k].batch \notin exported' /\ (pc' = "fsync" => disk'[i].lines[k].batch # seq')
  <2>1. CASE \E j \in 0..maxBackups : \E l \in Rows(j) : disk'[i].lines[k] = disk[j].lines[l]
    <3>1. PICK j \in 0..maxBackups : \E l \in Rows(j) : disk'[i].lines[k] = disk[j].lines[l]
      BY <2>1
    <3>2. PICK l \in Rows(j) : disk'[i].lines[k] = disk[j].lines[l]
      BY <3>1
    <3> DEFINE x == disk[j].lines[l].batch
    <3>3. /\ x \in Nat /\ x \notin exported /\ (pc = "fsync" => x # seq)
          /\ x <= seq /\ (pc = "write" => x < seq)
      BY <1>2, <1>w, <3>2, DiskShape DEF Accounted, Behind
    <3>4. disk'[i].lines[k].batch = x
      BY <3>2
    <3> HIDE DEF x
    <3>5. x \notin exported'
      BY <1>0, <3>3, ExportedStep
    <3>6. pc' = "fsync" => x # seq'
      BY <1>0, <3>3, ExportedStep, FsyncStep
    <3> QED
      BY <3>4, <3>5, <3>6
  <2>2. CASE Adds(Torn, line - 1) /\ disk'[i].lines[k] = Torn
    <3>1. exported' = exported /\ pc' # "fsync" /\ pc = "write"
      BY <2>2, TornMeans DEF Adds
    <3>2. disk'[i].lines[k].batch = seq
      BY <2>2 DEF Torn, Line
    <3>3. seq \notin exported
      BY <1>0, <1>w, <3>1 DEF Accounted
    <3> QED
      BY <3>1, <3>2, <3>3
  <2>3. CASE disk'[i].lines[k] = Whole
    BY <1>2, <2>3 DEF Whole, Line
  <2> QED
    BY <2>1, <2>2, <2>3, LinesStep
<1> QED
  BY <1>0, <1>1, <1>2 DEF Accounted

\* A step adds a merged line only where a torn one was waiting for it.
LEMMA MergedStep ==
  ASSUME Types, Behind, Next
  PROVE  \/ Merged' \subseteq Merged
         \/ Adds(Whole, line) /\ ~EndsCleanly(disk[0]) /\ Merged' \subseteq Merged \cup {seq}
<1>0. maxBackups' = maxBackups /\ maxBackups \in Nat /\ seq \in Nat
  BY DEF Next, Types
<1>1. ASSUME NEW b \in Merged', b \notin Merged
      PROVE  Adds(Whole, line) /\ ~EndsCleanly(disk[0]) /\ b = seq
  <2>1. PICK i \in 0..maxBackups : \E k \in Rows(i)' :
          disk'[i].lines[k].batch = b /\ ~disk'[i].lines[k].whole /\ disk'[i].lines[k].newline
    BY <1>0, <1>1 DEF Merged
  <2>2. PICK k \in Rows(i)' :
          disk'[i].lines[k].batch = b /\ ~disk'[i].lines[k].whole /\ disk'[i].lines[k].newline
    BY <2>1
  <2>3. ASSUME NEW j \in 0..maxBackups, NEW l \in Rows(j), disk'[i].lines[k] = disk[j].lines[l]
        PROVE  FALSE
    <3>1. b \in 0..seq
      BY <1>0, <2>2, <2>3, DiskShape DEF Behind
    <3> QED
      BY <1>1, <2>2, <2>3, <3>1 DEF Merged
  <2>4. disk'[i].lines[k] # Torn
    BY <2>2 DEF Torn, Line
  <2>5. Adds(Whole, line) /\ disk'[i].lines[k] = Whole
    BY <2>3, <2>4, LinesStep
  <2> QED
    BY <2>2, <2>5 DEF Whole, Line
<1> QED
  BY <1>1

LEMMA CleanStep ==
  ASSUME Types, Next
  PROVE  \/ EndsCleanly(disk'[0])
         \/ disk'[0] = disk[0]
         \/ Adds(Torn, line - 1)
<1>0. maxBackups \in Nat /\ 0 \in 0..maxBackups
  BY DEF Types
<1>n. EndsCleanly(NoFile) /\ EndsCleanly(EmptyFile)
  BY EmptyFilesHaveNoLines DEF EndsCleanly
<1>1. CASE Creates
  BY <1>0, <1>1, <1>n DEF Creates, Types
<1>2. CASE Removes
  BY <1>0, <1>2, <1>n DEF Removes, Removed, Types
<1>3. CASE Shifts
  <2> PICK s : s = shiftFrom
    OBVIOUS
  <2>1. /\ s \in 0..(maxBackups - 1) /\ disk'[s] = NoFile
        /\ \A j \in 0..maxBackups : j # s /\ j # s + 1 => disk'[j] = disk[j]
    BY <1>3, AfterShifting
  <2> QED
    BY <1>0, <1>n, <2>1
<1>4. CASE Adds(Whole, line)
  <2>1. disk[0].lines \in Seq(LineRecs) /\ Whole \in LineRecs
    BY <1>0, DiskShape, LinesAreLineRecs
  <2>2. disk'[0].lines = Append(disk[0].lines, Whole)
    BY <1>0, <1>4 DEF Adds, Types
  <2>3. Last(disk'[0].lines) = Whole
    BY <2>1, <2>2, AppendProperties DEF Last
  <2> QED
    BY <2>3 DEF EndsCleanly, Whole, Line
<1> QED
  BY <1>1, <1>2, <1>3, <1>4, StepsOnDisk

\* The writer forgets its error only when the process ends, or with a live file
\* that ends cleanly.
LEMMA ErrorIsKept ==
  ASSUME Rotation, Next, wErr, ~wErr'
  PROVE  crashes' = crashes + 1 \/ disk[0] = NoFile
<1> USE DEF procVars
<1>1. CASE Start \/ Reopen \/ RotateReopen
  BY <1>1 DEF Start, Reopen, RotateReopen, Rotation
<1>2. CASE ProcessEnds
  BY <1>2 DEF ProcessEnds
<1>3. CASE Write
  BY <1>3 DEF Write
<1>4. CASE ExportRefused \/ ExportDropped \/ ExportBegin \/ RotateFlush \/ RotateClose \/ RotateRemove
           \/ RotateShift \/ Fsync \/ Close
  BY <1>4 DEF ExportRefused, ExportDropped, ExportBegin, RotateFlush, RotateClose, RotateRemove,
              RotateShift, Fsync, Close
<1> QED
  BY <1>1, <1>2, <1>3, <1>4 DEF Next, Export, Rotate

LEMMA CrashesStep ==
  ASSUME Next
  PROVE  crashes' = crashes \/ crashes' = crashes + 1
  BY DEF Next, Start, Export, ExportRefused, ExportDropped, ExportBegin, Reopen, Rotate, RotateFlush,
     RotateClose, RotateRemove, RotateShift, RotateReopen, Write, Fsync, Close, ProcessEnds, procVars

LEMMA DamageStep ==
  ASSUME Types, Behind, Rotation, Damage, Next
  PROVE  Damage'
<1>0. Types'
  BY TypesStep
<1> DEFINE n == Cardinality(Merged)
           m == Cardinality(Merged)'
<1>1. IsFiniteSet(Merged) /\ n \in Nat
  BY MergedIsFinite
<1>2. m \in Nat /\ (m <= n \/ (m <= n + 1 /\ Adds(Whole, line) /\ ~EndsCleanly(disk[0])))
  <2>1. CASE Merged' \subseteq Merged
    BY <1>1, <2>1, FS_Subset, FS_CardinalityType
  <2>2. CASE Adds(Whole, line) /\ ~EndsCleanly(disk[0]) /\ Merged' \subseteq Merged \cup {seq}
    <3>1. IsFiniteSet(Merged \cup {seq}) /\ Cardinality(Merged \cup {seq}) \in Nat
          /\ Cardinality(Merged \cup {seq}) <= n + 1
      BY <1>1, FS_AddElement
    <3>2. m \in Nat /\ m <= Cardinality(Merged \cup {seq})
      BY <2>2, <3>1, FS_Subset, FS_CardinalityType
    <3> QED
      BY <1>1, <2>2, <3>1, <3>2
  <2> QED
    BY <2>1, <2>2, MergedStep
<1>3. crashes \in Nat /\ n <= crashes /\ (~EndsCleanly(disk[0]) /\ ~wErr => n + 1 <= crashes)
  BY DEF Damage
<1>4. crashes' \in Nat /\ crashes <= crashes'
  BY <1>3, CrashesStep
<1> HIDE DEF n, m
<1>5. m <= crashes'
  <2>1. Adds(Whole, line) => ~wErr
    BY DEF Adds
  <2>2. CASE m <= n
    BY <1>1, <1>2, <1>3, <1>4, <2>2
  <2>3. CASE m <= n + 1 /\ Adds(Whole, line) /\ ~EndsCleanly(disk[0])
    BY <1>1, <1>2, <1>3, <1>4, <2>1, <2>3
  <2> QED
    BY <1>2, <2>2, <2>3
<1>6. ASSUME ~EndsCleanly(disk'[0]), ~wErr' PROVE m + 1 <= crashes'
  <2>1. ~Adds(Whole, line)
    <3> SUFFICES ASSUME Adds(Whole, line) PROVE FALSE
      OBVIOUS
    <3>1. 0 \in 0..maxBackups
      BY DEF Types
    <3>2. disk[0].lines \in Seq(LineRecs) /\ Whole \in LineRecs
      BY <3>1, DiskShape, LinesAreLineRecs
    <3>3. disk'[0].lines = Append(disk[0].lines, Whole)
      BY <3>1 DEF Adds, Types
    <3>4. Last(disk'[0].lines) = Whole
      BY <3>2, <3>3, AppendProperties DEF Last
    <3> QED
      BY <1>6, <3>4 DEF EndsCleanly, Whole, Line
  <2>2. m <= n
    BY <1>2, <2>1
  <2>3. CASE crashes' = crashes + 1
    BY <1>1, <1>2, <1>3, <2>2, <2>3
  <2>4. CASE crashes' # crashes + 1
    <3>1. ~Adds(Torn, line - 1)
      BY <1>6, <2>4, TornMeans
    <3>2. disk'[0] = disk[0]
      BY <1>6, <3>1, CleanStep
    <3>3. EndsCleanly(NoFile)
      BY EmptyFilesHaveNoLines DEF EndsCleanly
    <3>4. ~wErr
      BY <1>6, <2>4, <3>2, <3>3, ErrorIsKept
    <3>5. n + 1 <= crashes
      BY <1>3, <1>6, <3>2, <3>4
    <3> QED
      BY <1>1, <1>2, <1>3, <1>4, <2>2, <3>5
  <2> QED
    BY <2>3, <2>4
<1> QED
  BY <1>4, <1>5, <1>6 DEF Damage, m

\* A kill costs at most one exported batch, the one whose line runs into the torn
\* one: there are never more damaged batches than restarts, whatever else fails.
THEOREM DamageStaysBounded == Spec => []DamageBounded
<1>1. Init => Accounted /\ Damage
  <2> SUFFICES ASSUME Init PROVE Accounted /\ Damage
    OBVIOUS
  <2>1. \A i \in 0..maxBackups : disk[i] = NoFile /\ Rows(i) = {}
    BY EmptyFilesHaveNoLines DEF Init, Rows
  <2>2. Merged = {}
    BY <2>1 DEF Merged
  <2>3. 0 \in 0..maxBackups
    BY ConstantsAssumption DEF Init
  <2>4. EndsCleanly(disk[0])
    BY <2>1, <2>3, EmptyFilesHaveNoLines DEF EndsCleanly
  <2>5. crashes = 0 /\ exported = {}
    BY DEF Init
  <2> QED
    BY <2>1, <2>2, <2>4, <2>5, FS_EmptySet DEF Accounted, Damage
<1>2. Types /\ Behind /\ Rotation /\ Accounted /\ Damage /\ [Next]_vars => Accounted' /\ Damage'
  <2>1. ASSUME Accounted, Damage, UNCHANGED vars PROVE Accounted' /\ Damage'
    BY <2>1 DEF vars, procVars, Accounted, Damage, Merged, Rows
  <2> QED
    BY <2>1, AccountedStep, DamageStep
<1>3. Types /\ Behind /\ Accounted /\ Damage => DamageBounded
  <2> SUFFICES ASSUME Types, Behind, Accounted, Damage PROVE DamageBounded
    OBVIOUS
  <2> DEFINE D == {b \in exported : \E i \in Generations : \E k \in DOMAIN disk[i].lines :
                     disk[i].lines[k].batch = b /\ ~disk[i].lines[k].whole}
  <2>1. D \subseteq Merged
    <3> SUFFICES ASSUME NEW b \in D PROVE b \in Merged
      OBVIOUS
    <3>1. PICK i \in 0..maxBackups : \E k \in DOMAIN disk[i].lines :
            disk[i].lines[k].batch = b /\ ~disk[i].lines[k].whole
      BY DEF Generations
    <3>2. PICK k \in Rows(i) : disk[i].lines[k].batch = b /\ ~disk[i].lines[k].whole
      BY <3>1, DiskShape
    <3>3. b \in exported /\ disk[i].lines[k].newline
      BY <3>2 DEF Accounted
    <3>4. b \in 0..seq
      BY <3>3 DEF Accounted, Types
    <3> QED
      BY <3>2, <3>3, <3>4 DEF Merged
  <2>2. Cardinality(D) <= Cardinality(Merged) /\ Cardinality(D) \in Nat
    BY <2>1, MergedIsFinite, FS_Subset, FS_CardinalityType
  <2>3. Cardinality(Merged) \in Nat /\ Cardinality(Merged) <= crashes /\ crashes \in Nat
    BY MergedIsFinite DEF Damage
  <2>4. DamageBounded <=> Cardinality(D) <= crashes
    BY DEF DamageBounded
  <2> HIDE DEF D
  <2> QED
    BY <2>2, <2>3, <2>4
<1> QED
  BY <1>1, <1>2, <1>3, OrderInvariant, RotationInvariant, PTL DEF Spec
=============================================================================
