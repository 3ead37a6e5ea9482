---------------------------- MODULE ErrorBudget -----------------------------
(***************************************************************************)
(* internal/collector/errors.go and limits.go: every failure of a cycle    *)
(* passes through record, which folds repetitions and refuses what is over *)
(* budget, and at the end mergeErrors shares one budget between sections.  *)
(*                                                                         *)
(* An error is its deduplication key: the kind that decides its priority   *)
(* and an id that stands for API, code and broker.  How the collecting     *)
(* goroutines interleave does not matter to a section, but the order of    *)
(* the errors within one does.                                             *)
(***************************************************************************)
EXTENDS Integers, Sequences, FiniteSets, Sections

CONSTANTS
  NumSections,
  Kinds, NumIds,   \* the keys that occur
  MaxErrors,       \* cap on Batch.Errors, 0 for none
  MaxErrorSamples,
  MaxKeys,         \* maxDistinctErrorKeys
  MaxRecords       \* bound on the failures of a cycle

AllKinds == {"authorization", "unsupported", "coordinator", "transport", "other"}

ASSUME ConstantsAssumption ==
  /\ NumSections \in Nat \ {0} /\ NumIds \in Nat \ {0}
  /\ Kinds \subseteq AllKinds
  /\ MaxErrors \in Nat /\ MaxErrorSamples \in Nat /\ MaxKeys \in Nat \ {0} /\ MaxRecords \in Nat

Secs == 1..NumSections
Keys == [kind : Kinds, id : 1..NumIds]

VARIABLES
  sec,       \* the section structs
  happened,  \* happened[s][k]: occurrences of k in section s
  records,   \* failures so far, in all sections
  entities,  \* entities[s]: ids whose entity-scoped errors have begun
  out        \* Batch.Errors once merged, as <<section, index>> pairs

vars == <<sec, happened, records, entities, out>>

NoBucket == [rep |-> -1, samples |-> 0, seen |-> 0]

EmptySection ==
  [status |-> "ok", errs |-> <<>>, keys |-> [k \in {} |-> NoBucket],
   collapsed |-> 0, dropped |-> 0, globalDropped |-> 0, truncated |-> FALSE]

Init ==
  /\ sec = [s \in Secs |-> EmptySection]
  /\ happened = [s \in Secs |-> [k \in Keys |-> 0]] /\ records = 0
  /\ entities = [s \in Secs |-> {}]
  /\ out = [merged |-> FALSE, entries |-> {}]

ErrorSamples == IF MaxErrorSamples < 1 THEN 1 ELSE MaxErrorSamples
OverBudget(errs) == MaxErrors > 0 /\ Len(errs) >= MaxErrors

PrioEntity == 5

ErrPriority(k, requestScoped) ==
  IF requestScoped THEN 0
  ELSE CASE k.kind = "authorization" -> 1 [] k.kind = "unsupported" -> 2
         [] k.kind = "coordinator" -> 3 [] k.kind = "transport" -> 4 [] OTHER -> PrioEntity

Emit(s, k, prio) == [s EXCEPT !.errs = Append(@, [key |-> k, prio |-> prio, count |-> 1])]
Bucket(s, k, b) == [s EXCEPT !.keys = [j \in DOMAIN @ \cup {k} |-> IF j = k THEN b ELSE @[j]]]

\* Mutant of ExemplarCount: the samples emitted besides the exemplar count twice.
ExemplarCountAll(b) == b.seen

\* Occurrences the exemplar stands for, the other samples standing for themselves.
ExemplarCount(b) == b.seen - (b.samples - 1)

\* A key seen before: ignored when it was refused, emitted again while samples
\* are allowed, folded into its exemplar after that.
RecordAgain(s, k, prio) ==
  LET b == [s.keys[k] EXCEPT !.seen = @ + 1]
  IN  CASE b.rep < 0 -> Bucket(s, k, b)
        [] b.rep >= 0 /\ b.samples < ErrorSamples /\ (prio < PrioEntity \/ ~OverBudget(s.errs)) ->
             Bucket(Emit(s, k, prio), k, [b EXCEPT !.samples = @ + 1])
        [] OTHER ->
             [Bucket(s, k, b) EXCEPT !.errs[b.rep].count = ExemplarCount(b),
                                     !.collapsed = @ + 1, !.truncated = TRUE]

\* A new key: only the entity flood is refused.
RecordNew(s, k, prio) ==
  LET mapFull == Cardinality(DOMAIN s.keys) >= MaxKeys
      refused == [s EXCEPT !.dropped = @ + 1, !.truncated = TRUE]
      emitted == Emit(s, k, prio)
  IN  IF prio = PrioEntity /\ (OverBudget(s.errs) \/ mapFull)
      THEN IF mapFull THEN refused ELSE Bucket(refused, k, [NoBucket EXCEPT !.seen = 1])
      ELSE Bucket(emitted, k, [rep |-> Len(emitted.errs), samples |-> 1, seen |-> 1])

\* record: the status first, whatever becomes of the entry.
Record(s, k, requestScoped) ==
  LET after == IF requestScoped THEN s ELSE [s EXCEPT !.status = RecordEntity(@)]
      prio == ErrPriority(k, requestScoped)
  IN  IF k \in DOMAIN s.keys THEN RecordAgain(after, k, prio) ELSE RecordNew(after, k, prio)

Occurs(s, k) ==
  /\ records < MaxRecords /\ records' = records + 1
  /\ happened' = [happened EXCEPT ![s][k] = @ + 1]

\* One failing partition, group or directory.
AddEntity(s, k) ==
  /\ ~out.merged
  /\ sec' = [sec EXCEPT ![s] = Record(@, k, FALSE)]
  /\ Occurs(s, k)
  /\ entities' = [entities EXCEPT ![s] = @ \cup {k.id}]
  /\ UNCHANGED out

\* A failing request, or one shard of it.  Every phase issues a request before
\* it records the entities of its response.
FailRequest(s, k) ==
  /\ ~out.merged
  /\ k.id \notin entities[s]
  /\ LET recorded == Record(sec[s], k, TRUE)
         outcomes == IF k.kind = "authorization" THEN {"shards", "denied", "allDenied"}
                                                 ELSE {"shards", "error", "allShards"}
     IN  \E outcome \in outcomes :
           sec' = [sec EXCEPT ![s] = [recorded EXCEPT !.status = Request(recorded.status, outcome)]]
  /\ Occurs(s, k)
  /\ UNCHANGED <<entities, out>>

-----------------------------------------------------------------------------
(* mergeErrors *)

Entries == {e \in Secs \X (1..MaxRecords) : e[2] <= Len(sec[e[1]].errs)}
PrioOf(e) == sec[e[1]].errs[e[2]].prio

\* Mutant of Before: sections are served in turn, priorities ignored.
BeforeBySection(e, f) == e[1] < f[1] \/ (e[1] = f[1] /\ e[2] < f[2])

\* The order of admission: priority, then section, then index.
Before(e, f) ==
  \/ PrioOf(e) < PrioOf(f)
  \/ PrioOf(e) = PrioOf(f) /\ (e[1] < f[1] \/ (e[1] = f[1] /\ e[2] < f[2]))

Budget == IF MaxErrors > 0 /\ MaxErrors < Cardinality(Entries) THEN MaxErrors ELSE Cardinality(Entries)
Admitted == {e \in Entries : Cardinality({f \in Entries : Before(f, e)}) < Budget}

\* What a section loses to the global cap is written back to it.
Rejected(s, admitted) == Cardinality({e \in Entries \ admitted : e[1] = s})

MergeErrors ==
  /\ ~out.merged
  /\ out' = [merged |-> TRUE, entries |-> Admitted]
  /\ sec' = [s \in Secs |->
       LET r == Rejected(s, Admitted)
       IN  IF r = 0 THEN sec[s]
           ELSE [sec[s] EXCEPT !.globalDropped = r, !.dropped = @ + r, !.truncated = TRUE]]
  /\ UNCHANGED <<happened, records, entities>>

\* Mutant of ErrorCount: entries the global cap removed are still counted.
ErrorCountLocal(s) == Len(sec[s].errs)

\* section.finish
ErrorCount(s) == Len(sec[s].errs) - sec[s].globalDropped

\* finalize adds up what the sections lost; a nil block says that is nothing.
NoTruncation == \A s \in Secs : sec[s].collapsed = 0 /\ sec[s].dropped = 0

-----------------------------------------------------------------------------
(* The mock ingest server's view of the batch *)

\* What checkSections and checkTruncation object to, of what is modelled here:
\* the block and the counters of a section must tell of the entries that came.
Objections ==
  [error_count    |-> \E s \in Secs : ErrorCount(s) # Cardinality({e \in out.entries : e[1] = s}),
   ok_with_errors |-> \E s \in Secs : sec[s].status = "ok" /\ ErrorCount(s) > 0,
   negative_count |-> \E e \in out.entries : sec[e[1]].errs[e[2]].count < 0,
   unbounded      |-> MaxErrors > 0 /\ Cardinality(out.entries) > MaxErrors]

Next ==
  \/ \E s \in Secs, k \in Keys : AddEntity(s, k) \/ FailRequest(s, k)
  \/ MergeErrors

Spec == Init /\ [][Next]_vars

-----------------------------------------------------------------------------
(* Properties *)

Indices(s) == DOMAIN sec[s].errs
EntriesOf(s, k) == {i \in Indices(s) : sec[s].errs[i].key = k}

\* The counts of the entries that carry a key add up to its occurrences,
\* however samples, folds and refusals alternate (the comment in record): one of
\* them, the exemplar, stands for every occurrence that the others, which stand
\* for themselves, do not.
CountsAddUp ==
  \A s \in Secs, k \in Keys :
    LET others(i) == EntriesOf(s, k) \ {i}
    IN  EntriesOf(s, k) # {} =>
          \E i \in EntriesOf(s, k) :
            /\ sec[s].errs[i].count + Cardinality(others(i)) = happened[s][k]
            /\ \A j \in others(i) : sec[s].errs[j].count = 1

\* What a receiver concludes from the errors of a batch is true.  It finds
\* nothing to object to: error_count is the number of entries of Batch.Errors
\* with the section's name although the global cap takes entries away after they
\* were counted, and the cap holds.  A section that is ok had no failure, folded
\* and refused ones included, and "a nil Truncation promises a complete batch"
\* (finalize): every failure has an entry of its own.
IngestReconciles ==
  out.merged =>
    /\ \A code \in DOMAIN Objections : ~Objections[code]
    /\ \A s \in Secs : sec[s].status = "ok" => \A k \in Keys : happened[s][k] = 0
    /\ NoTruncation => Cardinality(out.entries) = records

\* A cap never evicts the only entry of a cause in favour of the entity flood:
\* when an entry of the lowest priority is shipped, every other cause that
\* occurred in any section is shipped too.
RareCauseSurvives ==
  out.merged /\ (\E e \in out.entries : PrioOf(e) = PrioEntity) =>
    \A s \in Secs, k \in Keys :
      k.kind # "other" /\ happened[s][k] > 0 =>
        \E e \in out.entries : e[1] = s /\ sec[s].errs[e[2]].key = k
=============================================================================
