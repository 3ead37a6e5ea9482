------------------------- MODULE ErrorBudgetProofs --------------------------
(***************************************************************************)
(* Proofs about ErrorBudget, for every number of sections, set of keys,    *)
(* cap, number of samples, key ceiling and number of failures.             *)
(***************************************************************************)
EXTENDS ErrorBudget, TLAPS, SequenceTheorems, FiniteSetTheorems

ErrRecs == [key : Keys, prio : 0..PrioEntity, count : Int]
Buckets == [rep : Nat \cup {-1}, samples : Nat, seen : Nat]
KeyMaps == UNION {[D -> Buckets] : D \in SUBSET Keys}

SectionRecs ==
  [status : Statuses, errs : Seq(ErrRecs), keys : KeyMaps,
   collapsed : Nat, dropped : Nat, globalDropped : Nat, truncated : BOOLEAN]

\* The key map m after k was given the bucket b.
Put(m, k, b) == [j \in DOMAIN m \cup {k} |-> IF j = k THEN b ELSE m[j]]

NewEntry(k, prio) == [key |-> k, prio |-> prio, count |-> 1]
SeenAgain(b) == [b EXCEPT !.seen = @ + 1]

-----------------------------------------------------------------------------
(* The five things record does to a section x, which becomes y *)

Fresh(x, y, k, prio) ==
  /\ k \notin DOMAIN x.keys
  /\ prio < PrioEntity \/ Cardinality(DOMAIN x.keys) < MaxKeys
  /\ y.errs = Append(x.errs, NewEntry(k, prio))
  /\ y.keys = Put(x.keys, k, [rep |-> Len(x.errs) + 1, samples |-> 1, seen |-> 1])
  /\ y.collapsed = x.collapsed /\ y.dropped = x.dropped

Samples(x, y, k, prio) ==
  /\ k \in DOMAIN x.keys /\ x.keys[k].rep >= 0
  /\ y.errs = Append(x.errs, NewEntry(k, prio))
  /\ y.keys = Put(x.keys, k, [SeenAgain(x.keys[k]) EXCEPT !.samples = @ + 1])
  /\ y.collapsed = x.collapsed /\ y.dropped = x.dropped

Folds(x, y, k) ==
  /\ k \in DOMAIN x.keys /\ x.keys[k].rep >= 0
  /\ y.errs = [x.errs EXCEPT ![x.keys[k].rep].count = ExemplarCount(SeenAgain(x.keys[k]))]
  /\ y.keys = Put(x.keys, k, SeenAgain(x.keys[k]))
  /\ y.collapsed = x.collapsed + 1 /\ y.dropped = x.dropped

Refuses(x, y, k, prio) ==
  /\ k \notin DOMAIN x.keys /\ prio = PrioEntity
  /\ y.errs = x.errs
  /\ \/ Cardinality(DOMAIN x.keys) >= MaxKeys /\ y.keys = x.keys
     \/ /\ Cardinality(DOMAIN x.keys) < MaxKeys
        /\ y.keys = Put(x.keys, k, [rep |-> -1, samples |-> 0, seen |-> 1])
  /\ y.collapsed = x.collapsed /\ y.dropped = x.dropped + 1

Ignores(x, y, k) ==
  /\ k \in DOMAIN x.keys /\ x.keys[k].rep < 0
  /\ y.errs = x.errs
  /\ y.keys = Put(x.keys, k, SeenAgain(x.keys[k]))
  /\ y.collapsed = x.collapsed /\ y.dropped = x.dropped

Effect(x, y, k, prio) ==
  /\ y.globalDropped = x.globalDropped
  /\ \/ Fresh(x, y, k, prio) \/ Samples(x, y, k, prio) \/ Folds(x, y, k)
     \/ Refuses(x, y, k, prio) \/ Ignores(x, y, k)

LEMMA PutType ==
  ASSUME NEW m \in KeyMaps, NEW k \in Keys, NEW b \in Buckets
  PROVE  Put(m, k, b) \in KeyMaps
<1>1. PICK D \in SUBSET Keys : m \in [D -> Buckets]
  BY DEF KeyMaps
<1>2. Put(m, k, b) \in [D \cup {k} -> Buckets]
  BY <1>1 DEF Put
<1>3. D \cup {k} \in SUBSET Keys
  OBVIOUS
<1> QED
  BY <1>2, <1>3 DEF KeyMaps

LEMMA BucketType ==
  ASSUME NEW m \in KeyMaps, NEW k \in DOMAIN m
  PROVE  k \in Keys /\ m[k] \in Buckets
BY DEF KeyMaps

LEMMA PriorityType ==
  ASSUME NEW k \in Keys, NEW rs \in BOOLEAN
  PROVE  /\ ErrPriority(k, rs) \in 0..PrioEntity
         /\ ErrPriority(k, rs) = PrioEntity => k.kind = "other" /\ ~rs
<1>1. k.kind \in AllKinds
  BY ConstantsAssumption DEF Keys
<1> QED
  BY <1>1 DEF ErrPriority, PrioEntity, AllKinds

LEMMA BucketSteps ==
  ASSUME NEW b \in Buckets
  PROVE  /\ SeenAgain(b) \in Buckets /\ SeenAgain(b).rep = b.rep /\ SeenAgain(b).samples = b.samples
         /\ SeenAgain(b).seen = b.seen + 1
         /\ [b EXCEPT !.samples = @ + 1] \in Buckets
BY DEF Buckets, SeenAgain

\* A section with some of its fields replaced.
LEMMA SectionWith ==
  ASSUME NEW x \in SectionRecs, NEW er \in Seq(ErrRecs), NEW km \in KeyMaps,
         NEW c \in Nat, NEW d \in Nat, NEW t \in BOOLEAN
  PROVE  LET y == [x EXCEPT !.errs = er, !.keys = km, !.collapsed = c, !.dropped = d, !.truncated = t]
         IN  y \in SectionRecs /\ y.errs = er /\ y.keys = km /\ y.collapsed = c /\ y.dropped = d
             /\ y.status = x.status /\ y.globalDropped = x.globalDropped
BY DEF SectionRecs

LEMMA BucketIsPut ==
  ASSUME NEW x \in SectionRecs, NEW k, NEW b
  PROVE  Bucket(x, k, b) = [x EXCEPT !.keys = Put(x.keys, k, b)]
BY DEF Bucket, Put, SectionRecs

\* What RecordAgain and RecordNew return, without their case distinctions.
LEMMA AgainEffect ==
  ASSUME NEW x \in SectionRecs, NEW k \in DOMAIN x.keys, NEW prio \in 0..PrioEntity,
         NEW y, y = RecordAgain(x, k, prio)
  PROVE  y \in SectionRecs /\ y.status = x.status /\ Effect(x, y, k, prio)
<1> DEFINE entry == NewEntry(k, prio)
<1>1. x.keys \in KeyMaps /\ x.errs \in Seq(ErrRecs) /\ x.collapsed \in Nat /\ x.dropped \in Nat
  BY DEF SectionRecs
<1>2. k \in Keys /\ x.keys[k] \in Buckets
  BY <1>1, BucketType
<1>3. PICK b \in Buckets : b = SeenAgain(x.keys[k])
  BY <1>2, BucketSteps
<1>4. b.rep = x.keys[k].rep /\ b.samples = x.keys[k].samples /\ [b EXCEPT !.samples = @ + 1] \in Buckets
  BY <1>2, <1>3, BucketSteps
<1>5. PICK c \in Buckets : c = [b EXCEPT !.samples = @ + 1]
  BY <1>4
<1>6. y = CASE b.rep < 0 -> Bucket(x, k, b)
            [] b.rep >= 0 /\ b.samples < ErrorSamples /\ (prio < PrioEntity \/ ~OverBudget(x.errs)) ->
                 Bucket(Emit(x, k, prio), k, c)
            [] OTHER -> [Bucket(x, k, b) EXCEPT !.errs[b.rep].count = ExemplarCount(b),
                                                !.collapsed = @ + 1, !.truncated = TRUE]
  BY <1>3, <1>5 DEF RecordAgain, SeenAgain
<1>7. entry \in ErrRecs
  BY <1>2 DEF NewEntry, ErrRecs
<1>8. /\ Append(x.errs, entry) \in Seq(ErrRecs)
      /\ Put(x.keys, k, b) \in KeyMaps /\ Put(x.keys, k, c) \in KeyMaps
  BY <1>1, <1>2, <1>7, PutType, AppendProperties
<1>9. CASE b.rep < 0
  <2>1. y = [x EXCEPT !.keys = Put(x.keys, k, b)]
    BY <1>6, <1>9, BucketIsPut DEF Buckets
  <2>2. y \in SectionRecs /\ y.status = x.status /\ y.globalDropped = x.globalDropped
        /\ y.errs = x.errs /\ y.keys = Put(x.keys, k, b) /\ y.collapsed = x.collapsed /\ y.dropped = x.dropped
    BY <2>1, <1>8 DEF SectionRecs
  <2>3. Ignores(x, y, k)
    BY <2>2, <1>3, <1>4, <1>9 DEF Ignores
  <2> QED
    BY <2>2, <2>3 DEF Effect
<1>10. CASE b.rep >= 0 /\ b.samples < ErrorSamples /\ (prio < PrioEntity \/ ~OverBudget(x.errs))
  <2>1. y = Bucket(Emit(x, k, prio), k, c)
    BY <1>6, <1>10 DEF Buckets
  <2>2. PICK z : z = Emit(x, k, prio)
    OBVIOUS
  <2>3. z \in SectionRecs /\ z.status = x.status /\ z.globalDropped = x.globalDropped /\ z.keys = x.keys
        /\ z.errs = Append(x.errs, entry) /\ z.collapsed = x.collapsed /\ z.dropped = x.dropped
    BY <2>2, <1>8 DEF Emit, NewEntry, SectionRecs
  <2>4. y = [z EXCEPT !.keys = Put(x.keys, k, c)]
    BY <2>1, <2>2, <2>3, BucketIsPut
  <2>5. y \in SectionRecs /\ y.status = x.status /\ y.globalDropped = x.globalDropped
        /\ y.errs = Append(x.errs, entry) /\ y.keys = Put(x.keys, k, c)
        /\ y.collapsed = x.collapsed /\ y.dropped = x.dropped
    BY <2>3, <2>4, <1>8 DEF SectionRecs
  <2>6. Samples(x, y, k, prio)
    BY <2>5, <1>3, <1>4, <1>5, <1>10 DEF Samples
  <2> QED
    BY <2>5, <2>6 DEF Effect
<1>11. CASE b.rep >= 0 /\ ~(b.samples < ErrorSamples /\ (prio < PrioEntity \/ ~OverBudget(x.errs)))
  <2>1. PICK n : n = ExemplarCount(b)
    OBVIOUS
  <2>2. n \in Int
    BY <2>1 DEF ExemplarCount, Buckets
  <2>3. PICK z : z = Bucket(x, k, b)
    OBVIOUS
  <2>4. z = [x EXCEPT !.keys = Put(x.keys, k, b)]
    BY <2>3, BucketIsPut
  <2>5. z \in SectionRecs /\ z.status = x.status /\ z.globalDropped = x.globalDropped
        /\ z.keys = Put(x.keys, k, b) /\ z.errs = x.errs /\ z.collapsed = x.collapsed /\ z.dropped = x.dropped
    BY <2>4, <1>8 DEF SectionRecs
  <2>6. y = [z EXCEPT !.errs[b.rep].count = n, !.collapsed = @ + 1, !.truncated = TRUE]
    BY <1>6, <1>11, <2>1, <2>3 DEF Buckets
  <2>7. PICK er : er = [x.errs EXCEPT ![b.rep].count = n]
    OBVIOUS
  <2>8. y = [z EXCEPT !.errs = er, !.collapsed = x.collapsed + 1, !.truncated = TRUE]
    BY <2>5, <2>6, <2>7 DEF SectionRecs
  <2>9. \A e \in ErrRecs : [e EXCEPT !.count = n] \in ErrRecs
    BY <2>2 DEF ErrRecs
  <2>10. er \in Seq(ErrRecs)
    <3>1. x.errs \in [1..Len(x.errs) -> ErrRecs] /\ Len(x.errs) \in Nat
      BY <1>1, LenProperties
    <3>2. er \in [1..Len(x.errs) -> ErrRecs]
      BY <3>1, <2>7, <2>9
    <3> QED
      BY <3>1, <3>2, SeqDef
  <2>11. y \in SectionRecs /\ y.status = x.status /\ y.globalDropped = x.globalDropped
         /\ y.errs = er /\ y.keys = Put(x.keys, k, b)
         /\ y.collapsed = x.collapsed + 1 /\ y.dropped = x.dropped
    <3>1. x.collapsed + 1 \in Nat
      BY <1>1
    <3> QED
      BY <2>5, <2>8, <2>10, <3>1 DEF SectionRecs
  <2>12. Folds(x, y, k)
    BY <2>1, <2>7, <2>11, <1>3, <1>4, <1>11 DEF Folds
  <2> QED
    BY <2>11, <2>12 DEF Effect
<1>12. b.rep < 0 \/ b.rep >= 0
  BY DEF Buckets
<1> QED
  BY <1>9, <1>10, <1>11, <1>12

LEMMA NewEffect ==
  ASSUME NEW x \in SectionRecs, NEW k \in Keys, k \notin DOMAIN x.keys, NEW prio \in 0..PrioEntity,
         Cardinality(DOMAIN x.keys) \in Nat, NEW y, y = RecordNew(x, k, prio)
  PROVE  y \in SectionRecs /\ y.status = x.status /\ Effect(x, y, k, prio)
<1> DEFINE mapFull == Cardinality(DOMAIN x.keys) >= MaxKeys
           none == [rep |-> -1, samples |-> 0, seen |-> 1]
           first == [rep |-> Len(x.errs) + 1, samples |-> 1, seen |-> 1]
           entry == NewEntry(k, prio)
<1>1. x.keys \in KeyMaps /\ x.errs \in Seq(ErrRecs) /\ Len(x.errs) \in Nat /\ x.dropped \in Nat
  BY LenProperties DEF SectionRecs
<1>2. none \in Buckets /\ first \in Buckets /\ entry \in ErrRecs
  BY <1>1 DEF Buckets, NewEntry, ErrRecs
<1>3. /\ Append(x.errs, entry) \in Seq(ErrRecs) /\ Len(Append(x.errs, entry)) = Len(x.errs) + 1
      /\ Put(x.keys, k, none) \in KeyMaps /\ Put(x.keys, k, first) \in KeyMaps
  BY <1>1, <1>2, PutType, AppendProperties
<1>4. CASE prio = PrioEntity /\ (OverBudget(x.errs) \/ mapFull)
  <2>1. PICK z : z = [x EXCEPT !.dropped = x.dropped + 1, !.truncated = TRUE]
    OBVIOUS
  <2>2. z \in SectionRecs /\ z.status = x.status /\ z.globalDropped = x.globalDropped
        /\ z.errs = x.errs /\ z.keys = x.keys /\ z.collapsed = x.collapsed /\ z.dropped = x.dropped + 1
    <3>1. x.dropped + 1 \in Nat
      BY <1>1
    <3> QED
      BY <2>1, <3>1 DEF SectionRecs
  <2>3. CASE mapFull
    <3>1. y = z
      BY <1>4, <2>1, <2>3 DEF RecordNew
    <3>2. Refuses(x, y, k, prio)
      BY <3>1, <1>4, <2>2, <2>3 DEF Refuses
    <3> QED
      BY <3>1, <3>2, <2>2 DEF Effect
  <2>4. CASE ~mapFull
    <3>1. [NoBucket EXCEPT !.seen = 1] = none
      BY DEF NoBucket
    <3>2. y = Bucket(z, k, none)
      BY <1>4, <2>1, <2>4, <3>1 DEF RecordNew
    <3>3. y = [z EXCEPT !.keys = Put(x.keys, k, none)]
      BY <3>2, <2>2, BucketIsPut
    <3>4. y \in SectionRecs /\ y.status = x.status /\ y.globalDropped = x.globalDropped
          /\ y.errs = x.errs /\ y.keys = Put(x.keys, k, none) /\ y.collapsed = x.collapsed
          /\ y.dropped = x.dropped + 1
      BY <3>3, <2>2, <1>3 DEF SectionRecs
    <3>5. Cardinality(DOMAIN x.keys) < MaxKeys
      BY <2>4, ConstantsAssumption
    <3>6. Refuses(x, y, k, prio)
      BY <3>4, <3>5, <1>4 DEF Refuses
    <3> QED
      BY <3>4, <3>6 DEF Effect
  <2> QED
    BY <2>3, <2>4
<1>5. CASE ~(prio = PrioEntity /\ (OverBudget(x.errs) \/ mapFull))
  <2>1. PICK z : z = Emit(x, k, prio)
    OBVIOUS
  <2>2. z \in SectionRecs /\ z.status = x.status /\ z.globalDropped = x.globalDropped /\ z.keys = x.keys
        /\ z.errs = Append(x.errs, entry) /\ z.collapsed = x.collapsed /\ z.dropped = x.dropped
    BY <2>1, <1>3 DEF Emit, NewEntry, SectionRecs
  <2>3. y = Bucket(z, k, first)
    BY <1>5, <1>3, <2>1, <2>2 DEF RecordNew
  <2>4. y = [z EXCEPT !.keys = Put(x.keys, k, first)]
    BY <2>3, <2>2, BucketIsPut
  <2>5. y \in SectionRecs /\ y.status = x.status /\ y.globalDropped = x.globalDropped
        /\ y.errs = Append(x.errs, entry) /\ y.keys = Put(x.keys, k, first)
        /\ y.collapsed = x.collapsed /\ y.dropped = x.dropped
    BY <2>2, <2>4, <1>3 DEF SectionRecs
  <2>6. prio < PrioEntity \/ Cardinality(DOMAIN x.keys) < MaxKeys
    BY <1>5, ConstantsAssumption DEF PrioEntity
  <2>7. Fresh(x, y, k, prio)
    BY <2>5, <2>6 DEF Fresh
  <2> QED
    BY <2>5, <2>7 DEF Effect
<1> QED
  BY <1>4, <1>5

-----------------------------------------------------------------------------
(* What a section knows of the failures that happened *)

Ents(errs, k) == {i \in DOMAIN errs : errs[i].key = k}

\* One entry is the exemplar of k and has the count that the other samples,
\* which count one each, leave of its n occurrences.
Represented(errs, k, b, n) ==
  /\ b.rep \in Ents(errs, k) /\ b.samples \in 1..n
  /\ errs[b.rep].count = n - (b.samples - 1)
  /\ \A j \in Ents(errs, k) \ {b.rep} : errs[j].count = 1
  /\ Cardinality(Ents(errs, k)) = b.samples
  /\ k.kind # "other" => \A j \in Ents(errs, k) : errs[j].prio < PrioEntity

\* A key in the map is one that was seen, and has an exemplar or was refused.
Tracked(x, k, n) ==
  /\ n > 0 /\ x.keys[k].seen = n
  /\ x.keys[k].rep < 0 => Ents(x.errs, k) = {} /\ x.dropped > 0 /\ k.kind = "other"
  /\ x.keys[k].rep >= 0 => Represented(x.errs, k, x.keys[k], n)

\* A key that happened and is not in the map met the ceiling.  It never gets in
\* later: the map stays full, and its requests were over before its entities.
Untracked(x, k, n, ents) ==
  /\ Ents(x.errs, k) = {}
  /\ n > 0 => k.kind = "other" /\ k.id \in ents /\ Cardinality(DOMAIN x.keys) >= MaxKeys

Kept(x, h, ents) ==
  /\ IsFiniteSet(DOMAIN x.keys)
  /\ \A k \in Keys : IF k \in DOMAIN x.keys THEN Tracked(x, k, h[k]) ELSE Untracked(x, k, h[k], ents)
  /\ x.status = "ok" => \A k \in Keys : h[k] = 0

LEMMA EntsFinite ==
  ASSUME NEW errs \in Seq(ErrRecs), NEW k
  PROVE  IsFiniteSet(Ents(errs, k)) /\ Ents(errs, k) \subseteq 1..Len(errs) /\ Len(errs) \in Nat
<1>1. Len(errs) \in Nat /\ DOMAIN errs = 1..Len(errs)
  BY LenProperties
<1>2. Ents(errs, k) \in SUBSET (1..Len(errs))
  BY <1>1 DEF Ents
<1>3. IsFiniteSet(1..Len(errs))
  BY <1>1, FS_Interval
<1>4. IsFiniteSet(Ents(errs, k))
  BY <1>2, <1>3, FS_Subset
<1> QED
  BY <1>1, <1>2, <1>4

LEMMA AppendValues ==
  ASSUME NEW errs \in Seq(ErrRecs), NEW e \in ErrRecs, NEW new, new = Append(errs, e)
  PROVE  /\ Len(errs) \in Nat /\ DOMAIN errs = 1..Len(errs) /\ DOMAIN new = 1..(Len(errs) + 1)
         /\ new[Len(errs) + 1] = e /\ \A i \in DOMAIN errs : new[i] = errs[i]
         /\ \A i : i \in DOMAIN new <=> (i \in DOMAIN errs \/ i = Len(errs) + 1)
         /\ Len(errs) + 1 \notin DOMAIN errs
<1>1. /\ Len(errs) \in Nat /\ DOMAIN errs = 1..Len(errs)
      /\ DOMAIN new = 1..(Len(errs) + 1)
      /\ new[Len(errs) + 1] = e /\ \A i \in 1..Len(errs) : new[i] = errs[i]
  BY AppendProperties, LenProperties
<1>2. \A i : i \in 1..(Len(errs) + 1) <=> (i \in 1..Len(errs) \/ i = Len(errs) + 1)
  BY <1>1
<1>3. Len(errs) + 1 \notin 1..Len(errs)
  BY <1>1
<1> QED
  BY <1>1, <1>2, <1>3

LEMMA AppendOther ==
  ASSUME NEW errs \in Seq(ErrRecs), NEW e \in ErrRecs, NEW new, new = Append(errs, e),
         NEW k \in Keys, e.key # k
  PROVE  Ents(new, k) = Ents(errs, k)
BY AppendValues DEF Ents

LEMMA EntsInDomain ==
  ASSUME NEW errs, NEW k
  PROVE  Ents(errs, k) \subseteq DOMAIN errs
BY DEF Ents

\* The same of the entries of a section.
Appends(x, y, k, prio) == y.errs = Append(x.errs, NewEntry(k, prio))
FoldsAt(x, y, r, c) == y.errs = [x.errs EXCEPT ![r].count = c]

LEMMA AppendsOther ==
  ASSUME NEW x \in SectionRecs, NEW y, NEW k \in Keys, NEW prio \in 0..PrioEntity, Appends(x, y, k, prio),
         NEW j \in Keys, j # k
  PROVE  Ents(y.errs, j) = Ents(x.errs, j) /\ \A i \in Ents(x.errs, j) : y.errs[i] = x.errs[i]
<1>0. NewEntry(k, prio) \in ErrRecs
  BY DEF NewEntry, ErrRecs
<1>1. PICK e \in ErrRecs : e = NewEntry(k, prio)
  BY <1>0
<1>2. e.key = k
  BY <1>1 DEF NewEntry
<1>3. PICK old \in Seq(ErrRecs) : old = x.errs
  BY DEF SectionRecs
<1>4. PICK new : new = y.errs
  OBVIOUS
<1>5. new = Append(old, e)
  BY <1>1, <1>3, <1>4 DEF Appends
<1>6. Ents(new, j) = Ents(old, j)
  BY <1>2, <1>5, AppendOther
<1>7. \A i \in DOMAIN old : new[i] = old[i]
  BY <1>5, AppendValues
<1> QED
  BY <1>3, <1>4, <1>6, <1>7, EntsInDomain

LEMMA AppendsSame ==
  ASSUME NEW x \in SectionRecs, NEW y, NEW k \in Keys, NEW prio \in 0..PrioEntity, Appends(x, y, k, prio)
  PROVE  /\ Ents(y.errs, k) = Ents(x.errs, k) \cup {Len(x.errs) + 1}
         /\ \A i \in Ents(x.errs, k) : y.errs[i] = x.errs[i]
         /\ y.errs[Len(x.errs) + 1] = NewEntry(k, prio)
         /\ Len(x.errs) + 1 \notin Ents(x.errs, k)
         /\ Cardinality(Ents(y.errs, k)) = Cardinality(Ents(x.errs, k)) + 1
<1>0. NewEntry(k, prio) \in ErrRecs
  BY DEF NewEntry, ErrRecs
<1>1. PICK e \in ErrRecs : e = NewEntry(k, prio)
  BY <1>0
<1>2. e.key = k
  BY <1>1 DEF NewEntry
<1>3. PICK old \in Seq(ErrRecs) : old = x.errs
  BY DEF SectionRecs
<1>4. PICK new : new = y.errs
  OBVIOUS
<1>5. new = Append(old, e)
  BY <1>1, <1>3, <1>4 DEF Appends
<1>7. /\ \A i \in DOMAIN old : new[i] = old[i]
      /\ new[Len(old) + 1] = e /\ Len(old) + 1 \notin DOMAIN old
      /\ \A i : i \in DOMAIN new <=> (i \in DOMAIN old \/ i = Len(old) + 1)
  BY <1>5, AppendValues
<1>6. Ents(new, k) = Ents(old, k) \cup {Len(old) + 1}
  BY <1>2, <1>7 DEF Ents
<1>8. Len(old) + 1 \notin Ents(old, k) /\ \A i \in Ents(old, k) : new[i] = old[i]
  BY <1>7, EntsInDomain
<1>9. Cardinality(Ents(new, k)) = Cardinality(Ents(old, k)) + 1
  BY <1>6, <1>8, EntsFinite, FS_AddElement
<1> QED
  BY <1>1, <1>3, <1>4, <1>6, <1>7, <1>8, <1>9

LEMMA FoldsSame ==
  ASSUME NEW x \in SectionRecs, NEW y, NEW r \in DOMAIN x.errs, NEW c, FoldsAt(x, y, r, c), NEW j \in Keys
  PROVE  /\ Ents(y.errs, j) = Ents(x.errs, j)
         /\ \A i \in Ents(x.errs, j) : y.errs[i].prio = x.errs[i].prio
         /\ \A i \in Ents(x.errs, j) : i # r => y.errs[i] = x.errs[i]
         /\ y.errs[r].count = c
<1>1. PICK old \in Seq(ErrRecs) : old = x.errs
  BY DEF SectionRecs
<1>2. PICK new : new = y.errs
  OBVIOUS
<1>3. r \in DOMAIN old /\ new = [old EXCEPT ![r].count = c]
  BY <1>1, <1>2 DEF FoldsAt
<1>4. old \in [DOMAIN old -> ErrRecs]
  BY LenProperties
<1>5. /\ DOMAIN new = DOMAIN old
      /\ \A i \in DOMAIN old : new[i].prio = old[i].prio /\ new[i].key = old[i].key
      /\ \A i \in DOMAIN old : i # r => new[i] = old[i]
      /\ new[r].count = c
  BY <1>3, <1>4 DEF ErrRecs
<1>6. Ents(new, j) = Ents(old, j)
  BY <1>5 DEF Ents
<1> QED
  BY <1>1, <1>2, <1>5, <1>6, EntsInDomain

LEMMA EffectOnKeys ==
  ASSUME NEW x \in SectionRecs, NEW y, NEW k \in Keys, NEW prio, Effect(x, y, k, prio),
         IsFiniteSet(DOMAIN x.keys)
  PROVE  /\ IsFiniteSet(DOMAIN y.keys)
         /\ Cardinality(DOMAIN y.keys) >= Cardinality(DOMAIN x.keys)
         /\ \A j : j # k => /\ j \in DOMAIN y.keys <=> j \in DOMAIN x.keys
                            /\ j \in DOMAIN x.keys => y.keys[j] = x.keys[j]
<1>1. y.keys = x.keys \/ \E b : y.keys = Put(x.keys, k, b)
  BY DEF Effect, Fresh, Samples, Folds, Refuses, Ignores
<1>2. CASE y.keys = x.keys
  BY <1>2, FS_CardinalityType
<1>3. CASE \E b : y.keys = Put(x.keys, k, b)
  <2>1. PICK b : y.keys = Put(x.keys, k, b)
    BY <1>3
  <2>2. DOMAIN y.keys = DOMAIN x.keys \cup {k}
    BY <2>1 DEF Put
  <2>3. IsFiniteSet(DOMAIN y.keys) /\ Cardinality(DOMAIN y.keys) >= Cardinality(DOMAIN x.keys)
    <3>1. Cardinality(DOMAIN x.keys) \in Nat
      BY FS_CardinalityType
    <3>2. IsFiniteSet(DOMAIN x.keys \cup {k})
          /\ Cardinality(DOMAIN x.keys \cup {k}) =
               IF k \in DOMAIN x.keys THEN Cardinality(DOMAIN x.keys) ELSE Cardinality(DOMAIN x.keys) + 1
      BY FS_AddElement
    <3> QED
      BY <2>2, <3>1, <3>2
  <2>4. \A j : j # k /\ j \in DOMAIN x.keys => y.keys[j] = x.keys[j]
    BY <2>1 DEF Put
  <2> QED
    BY <2>2, <2>3, <2>4
<1> QED
  BY <1>1, <1>2, <1>3

\* An occurrence of k leaves what is kept of the other keys alone.
LEMMA OtherKeysKept ==
  ASSUME NEW x \in SectionRecs, NEW y \in SectionRecs, NEW k \in Keys, NEW prio \in 0..PrioEntity,
         Effect(x, y, k, prio), IsFiniteSet(DOMAIN x.keys),
         NEW n, k \in DOMAIN x.keys => Tracked(x, k, n),
         NEW j \in Keys, j # k, NEW m \in Nat, NEW ents, NEW ents2, j.id \in ents => j.id \in ents2,
         IF j \in DOMAIN x.keys THEN Tracked(x, j, m) ELSE Untracked(x, j, m, ents)
  PROVE  IF j \in DOMAIN y.keys THEN Tracked(y, j, m) ELSE Untracked(y, j, m, ents2)
<1>1. x.errs \in Seq(ErrRecs) /\ x.dropped \in Nat /\ x.keys \in KeyMaps
  BY DEF SectionRecs
<1>2. /\ Cardinality(DOMAIN y.keys) >= Cardinality(DOMAIN x.keys)
      /\ j \in DOMAIN y.keys <=> j \in DOMAIN x.keys
      /\ j \in DOMAIN x.keys => y.keys[j] = x.keys[j]
  BY EffectOnKeys
<1>3. y.dropped >= x.dropped /\ y.dropped \in Nat
  BY <1>1 DEF Effect, Fresh, Samples, Folds, Refuses, Ignores
<1>4. Ents(y.errs, j) = Ents(x.errs, j) /\ \A i \in Ents(x.errs, j) : y.errs[i] = x.errs[i]
  <2>1. CASE y.errs = x.errs
    BY <2>1
  <2>2. CASE Appends(x, y, k, prio)
    BY <2>2, AppendsOther
  <2>3. CASE Folds(x, y, k)
    <3>1. x.keys[k].rep \in Ents(x.errs, k)
      BY <2>3 DEF Folds, Tracked, Represented
    <3>2. x.keys[k].rep \in DOMAIN x.errs /\ x.keys[k].rep \notin Ents(x.errs, j)
      BY <3>1 DEF Ents
    <3>3. PICK c : FoldsAt(x, y, x.keys[k].rep, c)
      BY <2>3 DEF Folds, FoldsAt
    <3> QED
      BY <3>2, <3>3, FoldsSame
  <2> QED
    BY <2>1, <2>2, <2>3 DEF Effect, Fresh, Samples, Refuses, Ignores, Appends
<1>5. CASE j \in DOMAIN x.keys
  <2>1. x.keys[j] \in Buckets
    BY <1>1, <1>5, BucketType
  <2>2. Represented(x.errs, j, x.keys[j], m) => Represented(y.errs, j, y.keys[j], m)
    BY <1>2, <1>4, <1>5 DEF Represented
  <2>3. Tracked(y, j, m)
    BY <1>1, <1>2, <1>3, <1>4, <1>5, <2>1, <2>2 DEF Tracked, Buckets
  <2> QED
    BY <1>2, <1>5, <2>3
<1>6. CASE j \notin DOMAIN x.keys
  <2>1. Cardinality(DOMAIN x.keys) \in Nat /\ Cardinality(DOMAIN y.keys) \in Nat
    BY FS_CardinalityType, EffectOnKeys
  <2>2. Untracked(y, j, m, ents2)
    BY <1>2, <1>4, <1>6, <2>1, ConstantsAssumption DEF Untracked
  <2> QED
    BY <1>2, <1>6, <2>2
<1> QED
  BY <1>5, <1>6

LEMMA KeyKept ==
  ASSUME NEW x \in SectionRecs, NEW y \in SectionRecs, NEW k \in Keys, NEW rs \in BOOLEAN,
         Effect(x, y, k, ErrPriority(k, rs)), IsFiniteSet(DOMAIN x.keys), NEW n \in Nat, NEW ents, NEW ents2
  PROVE  /\ IF k \in DOMAIN x.keys THEN Tracked(x, k, n) ELSE Untracked(x, k, n, ents)
         /\ rs => k.id \notin ents
         /\ ~rs => k.id \in ents2
         =>
         IF k \in DOMAIN y.keys THEN Tracked(y, k, n + 1) ELSE Untracked(y, k, n + 1, ents2)
<1>0. SUFFICES ASSUME k \in DOMAIN x.keys => Tracked(x, k, n),
                      k \notin DOMAIN x.keys => Untracked(x, k, n, ents),
                      rs => k.id \notin ents, ~rs => k.id \in ents2
               PROVE  IF k \in DOMAIN y.keys THEN Tracked(y, k, n + 1) ELSE Untracked(y, k, n + 1, ents2)
  OBVIOUS
<1> DEFINE prio == ErrPriority(k, rs)
           entry == NewEntry(k, prio)
<1>1. x.errs \in Seq(ErrRecs) /\ x.dropped \in Nat /\ x.keys \in KeyMaps /\ Len(x.errs) \in Nat
  BY LenProperties DEF SectionRecs
<1>2. prio \in 0..PrioEntity /\ (prio = PrioEntity => k.kind = "other" /\ ~rs) /\ PrioEntity \in Nat
  BY PriorityType DEF PrioEntity
<1>3. entry \in ErrRecs /\ entry.key = k /\ entry.prio = prio /\ entry.count = 1
  BY <1>2 DEF NewEntry, ErrRecs
<1>4. k.kind # "other" => prio < PrioEntity
  BY <1>2
<1>5. IsFiniteSet(Ents(x.errs, k)) /\ Cardinality(DOMAIN x.keys) \in Nat
  BY <1>1, EntsFinite, FS_CardinalityType
<1> HIDE DEF prio, entry
<1>6. CASE Fresh(x, y, k, prio)
  <2> DEFINE b == [rep |-> Len(x.errs) + 1, samples |-> 1, seen |-> 1]
  <2>1. k \notin DOMAIN x.keys /\ y.keys = Put(x.keys, k, b) /\ y.errs = Append(x.errs, entry)
    BY <1>6 DEF Fresh, entry
  <2>2. n = 0
    <3>1. n > 0 => k.kind = "other" /\ k.id \in ents /\ Cardinality(DOMAIN x.keys) >= MaxKeys
      BY <1>0, <2>1 DEF Untracked
    <3>2. n > 0 => prio = PrioEntity
      BY <1>0, <3>1, <1>2 DEF prio, ErrPriority
    <3>3. prio < PrioEntity \/ Cardinality(DOMAIN x.keys) < MaxKeys
      BY <1>6 DEF Fresh
    <3> QED
      BY <3>1, <3>2, <3>3, <1>2, <1>5, ConstantsAssumption
  <2>3. k \in DOMAIN y.keys /\ y.keys[k] = b
    BY <2>1 DEF Put
  <2>4. Ents(x.errs, k) = {}
    BY <1>0, <2>1 DEF Untracked
  <2>5. Ents(y.errs, k) = {Len(x.errs) + 1} /\ y.errs[Len(x.errs) + 1] = entry
    <3>1. Appends(x, y, k, prio)
      BY <2>1 DEF Appends, entry
    <3> QED
      BY <2>4, <3>1, <1>2, AppendsSame DEF entry
  <2>6. Cardinality(Ents(y.errs, k)) = 1
    BY <2>5, FS_Singleton
  <2>7. Represented(y.errs, k, b, 1)
    BY <2>5, <2>6, <1>1, <1>3, <1>4 DEF Represented
  <2>8. Tracked(y, k, n + 1)
    BY <2>2, <2>3, <2>7, <1>1 DEF Tracked
  <2> QED
    BY <2>3, <2>8
<1>7. CASE Samples(x, y, k, prio)
  <2>1. k \in DOMAIN x.keys /\ x.keys[k].rep >= 0 /\ y.errs = Append(x.errs, entry)
    BY <1>7 DEF Samples, entry
  <2>2. PICK b \in Buckets : b = x.keys[k]
    BY <2>1, <1>1, BucketType
  <2>3. PICK c : c = [SeenAgain(b) EXCEPT !.samples = @ + 1]
    OBVIOUS
  <2>4. c.rep = b.rep /\ c.samples = b.samples + 1 /\ c.seen = b.seen + 1
    <3>1. PICK a \in Buckets : a = SeenAgain(b)
      BY BucketSteps
    <3>2. a.rep = b.rep /\ a.samples = b.samples /\ a.seen = b.seen + 1
      BY <3>1, BucketSteps
    <3> QED
      BY <3>1, <3>2, <2>3 DEF Buckets
  <2>5. k \in DOMAIN y.keys /\ y.keys[k] = c
    BY <1>7, <2>2, <2>3 DEF Samples, Put
  <2>6. n > 0 /\ b.seen = n /\ Represented(x.errs, k, b, n)
    BY <1>0, <2>1, <2>2 DEF Tracked
  <2>7. /\ Ents(y.errs, k) = Ents(x.errs, k) \cup {Len(x.errs) + 1}
        /\ \A i \in Ents(x.errs, k) : y.errs[i] = x.errs[i]
        /\ y.errs[Len(x.errs) + 1] = entry /\ Len(x.errs) + 1 \notin Ents(x.errs, k)
    <3>1. Appends(x, y, k, prio)
      BY <2>1 DEF Appends, entry
    <3> QED
      BY <3>1, <1>2, AppendsSame DEF entry
  <2>8. Cardinality(Ents(y.errs, k)) = b.samples + 1
    <3>1. Appends(x, y, k, prio)
      BY <2>1 DEF Appends, entry
    <3>2. Cardinality(Ents(x.errs, k)) = b.samples
      BY <2>6 DEF Represented
    <3> QED
      BY <3>1, <3>2, <1>2, AppendsSame
  <2>9. Represented(y.errs, k, c, n + 1)
    <3>1. c.rep \in Ents(y.errs, k) /\ c.samples \in 1..(n + 1)
      BY <2>4, <2>6, <2>7 DEF Represented
    <3>2. y.errs[c.rep].count = (n + 1) - (c.samples - 1)
      <4>1. c.rep \in Ents(x.errs, k) /\ x.errs[c.rep].count = n - (b.samples - 1)
        BY <2>4, <2>6 DEF Represented
      <4>2. y.errs[c.rep].count = n - (b.samples - 1)
        BY <4>1, <2>7
      <4>3. b.samples \in Nat
        BY DEF Buckets
      <4>4. n - (b.samples - 1) = (n + 1) - ((b.samples + 1) - 1)
        BY <4>3
      <4> QED
        BY <4>2, <4>4, <2>4
    <3>3. \A j \in Ents(y.errs, k) \ {c.rep} : y.errs[j].count = 1
      BY <2>4, <2>6, <2>7, <1>3 DEF Represented
    <3>4. k.kind # "other" => \A j \in Ents(y.errs, k) : y.errs[j].prio < PrioEntity
      BY <2>6, <2>7, <1>3, <1>4 DEF Represented
    <3> QED
      BY <3>1, <3>2, <3>3, <3>4, <2>4, <2>8 DEF Represented
  <2>10. Tracked(y, k, n + 1)
    <3>1. y.keys[k].rep >= 0 /\ y.keys[k].seen = n + 1
      BY <2>1, <2>2, <2>4, <2>5, <2>6
    <3>2. n + 1 > 0 /\ ~(y.keys[k].rep < 0)
      BY <3>1, <2>2, <2>4, <2>5 DEF Buckets
    <3> QED
      BY <3>1, <3>2, <2>5, <2>9 DEF Tracked
  <2> QED
    BY <2>5, <2>10
<1>8. CASE Folds(x, y, k)
  <2>1. k \in DOMAIN x.keys /\ x.keys[k].rep >= 0
    BY <1>8 DEF Folds
  <2>2. PICK b \in Buckets : b = x.keys[k]
    BY <2>1, <1>1, BucketType
  <2>3. PICK c \in Buckets : c = SeenAgain(b)
    BY BucketSteps
  <2>4. c.rep = b.rep /\ c.samples = b.samples /\ c.seen = b.seen + 1
    BY <2>3, BucketSteps
  <2>5. k \in DOMAIN y.keys /\ y.keys[k] = c
    BY <1>8, <2>2, <2>3 DEF Folds, Put
  <2>6. n > 0 /\ b.seen = n /\ Represented(x.errs, k, b, n)
    BY <1>0, <2>1, <2>2 DEF Tracked
  <2>7. y.errs = [x.errs EXCEPT ![b.rep].count = (n + 1) - (b.samples - 1)]
    BY <1>8, <2>2, <2>3, <2>4, <2>6 DEF Folds, ExemplarCount
  <2>8. b.rep \in DOMAIN x.errs /\ Ents(x.errs, k) \subseteq DOMAIN x.errs
    BY <2>6 DEF Represented, Ents
  <2>9. /\ Ents(y.errs, k) = Ents(x.errs, k)
        /\ \A i \in Ents(x.errs, k) : y.errs[i].prio = x.errs[i].prio
        /\ \A i \in Ents(x.errs, k) : i # b.rep => y.errs[i] = x.errs[i]
        /\ y.errs[b.rep].count = (n + 1) - (b.samples - 1)
    <3>1. FoldsAt(x, y, b.rep, (n + 1) - (b.samples - 1))
      BY <2>7 DEF FoldsAt
    <3> QED
      BY <2>8, <3>1, FoldsSame
  <2>10. b.samples \in 1..(n + 1)
    BY <2>6 DEF Represented
  <2>11. Represented(y.errs, k, c, n + 1)
    BY <2>4, <2>6, <2>9, <2>10 DEF Represented
  <2>12. Tracked(y, k, n + 1)
    <3>1. y.keys[k].rep >= 0 /\ y.keys[k].seen = n + 1
      BY <2>1, <2>2, <2>4, <2>5, <2>6
    <3>2. n + 1 > 0 /\ ~(y.keys[k].rep < 0)
      BY <3>1, <2>2, <2>4, <2>5 DEF Buckets
    <3> QED
      BY <3>1, <3>2, <2>5, <2>11 DEF Tracked
  <2> QED
    BY <2>5, <2>12
<1>9. CASE Refuses(x, y, k, prio)
  <2>1. k \notin DOMAIN x.keys /\ k.kind = "other" /\ ~rs
    BY <1>2, <1>9 DEF Refuses
  <2>2. Ents(y.errs, k) = {} /\ y.dropped > 0
    BY <1>0, <2>1, <1>1, <1>9 DEF Refuses, Untracked
  <2>3. CASE Cardinality(DOMAIN x.keys) >= MaxKeys /\ y.keys = x.keys
    BY <1>0, <2>1, <2>2, <2>3 DEF Untracked
  <2>4. CASE Cardinality(DOMAIN x.keys) < MaxKeys /\ y.keys = Put(x.keys, k, [rep |-> -1, samples |-> 0, seen |-> 1])
    <3>1. k \in DOMAIN y.keys /\ y.keys[k] = [rep |-> -1, samples |-> 0, seen |-> 1]
      BY <2>4 DEF Put
    <3>2. n = 0
      BY <1>0, <2>1, <2>4, <1>5, ConstantsAssumption DEF Untracked
    <3>3. Tracked(y, k, n + 1)
      BY <2>1, <2>2, <3>1, <3>2 DEF Tracked
    <3> QED
      BY <3>1, <3>3
  <2> QED
    BY <1>9, <2>3, <2>4 DEF Refuses
<1>10. CASE Ignores(x, y, k)
  <2>1. k \in DOMAIN x.keys /\ x.keys[k].rep < 0 /\ y.errs = x.errs /\ y.dropped = x.dropped
    BY <1>10 DEF Ignores
  <2>2. PICK b \in Buckets : b = x.keys[k]
    BY <2>1, <1>1, BucketType
  <2>3. k \in DOMAIN y.keys /\ y.keys[k] = SeenAgain(b)
    BY <1>10, <2>2 DEF Ignores, Put
  <2>4. SeenAgain(b).rep = b.rep /\ SeenAgain(b).seen = b.seen + 1
    BY BucketSteps
  <2>5. n > 0 /\ b.seen = n /\ Ents(x.errs, k) = {} /\ x.dropped > 0 /\ k.kind = "other"
    BY <1>0, <2>1, <2>2 DEF Tracked
  <2>6. Tracked(y, k, n + 1)
    BY <2>1, <2>2, <2>3, <2>4, <2>5 DEF Tracked, Buckets
  <2> QED
    BY <2>3, <2>6
<1> QED
  BY <1>6, <1>7, <1>8, <1>9, <1>10 DEF Effect, prio

-----------------------------------------------------------------------------
(* The steps that record *)

Types ==
  /\ sec \in [Secs -> SectionRecs]
  /\ happened \in [Secs -> [Keys -> Nat]] /\ records \in Nat
  /\ entities \in [Secs -> SUBSET (1..NumIds)]
  /\ out \in [merged : BOOLEAN, entries : SUBSET (Secs \X (1..MaxRecords))]

EveryKept == \A s \in Secs : Kept(sec[s], happened[s], entities[s])

SameErrors(x, y) ==
  /\ y.errs = x.errs /\ y.keys = x.keys
  /\ y.collapsed = x.collapsed /\ y.dropped = x.dropped /\ y.globalDropped = x.globalDropped

\* The status of a section has no part in what record does to its errors.
LEMMA EffectIgnoresStatus ==
  ASSUME NEW x, NEW y, NEW x2, NEW y2, NEW k, NEW prio,
         Effect(x2, y2, k, prio), SameErrors(x, x2), SameErrors(y, y2)
  PROVE  Effect(x, y, k, prio)
<1> USE DEF SameErrors
<1>1. Fresh(x2, y2, k, prio) => Fresh(x, y, k, prio)
  BY DEF Fresh
<1>2. Samples(x2, y2, k, prio) => Samples(x, y, k, prio)
  BY DEF Samples
<1>3. Folds(x2, y2, k) => Folds(x, y, k)
  BY DEF Folds
<1>4. Refuses(x2, y2, k, prio) => Refuses(x, y, k, prio)
  BY DEF Refuses
<1>5. Ignores(x2, y2, k) => Ignores(x, y, k)
  BY DEF Ignores
<1> QED
  BY <1>1, <1>2, <1>3, <1>4, <1>5 DEF Effect

LEMMA WithStatus ==
  ASSUME NEW x \in SectionRecs, NEW st \in Statuses
  PROVE  LET y == [x EXCEPT !.status = st]
         IN  y \in SectionRecs /\ y.status = st /\ SameErrors(x, y) /\ SameErrors(y, x)
BY DEF SectionRecs, SameErrors

LEMMA EntityStatus ==
  ASSUME NEW st \in Statuses
  PROVE  RecordEntity(st) \in Statuses /\ RecordEntity(st) # "ok"
BY DEF RecordEntity, Downgrade, StatusRank, Statuses

LEMMA RequestStatus ==
  ASSUME NEW st \in Statuses, NEW o \in {"shards", "denied", "allDenied", "error", "allShards"}
  PROVE  Request(st, o) \in Statuses /\ Request(st, o) # "ok"
BY DEF Request, Downgrade, StatusRank, Statuses

LEMMA RecordEffect ==
  ASSUME NEW x \in SectionRecs, IsFiniteSet(DOMAIN x.keys), NEW k \in Keys, NEW rs \in BOOLEAN,
         NEW y, y = Record(x, k, rs)
  PROVE  /\ y \in SectionRecs /\ Effect(x, y, k, ErrPriority(k, rs))
         /\ rs => y.status = x.status
         /\ ~rs => y.status = RecordEntity(x.status)
<1>1. PICK prio : prio = ErrPriority(k, rs)
  OBVIOUS
<1>2. prio \in 0..PrioEntity
  BY <1>1, PriorityType
<1>3. x.status \in Statuses
  BY DEF SectionRecs
<1>4. PICK st \in Statuses : st = IF rs THEN x.status ELSE RecordEntity(x.status)
  BY <1>3, EntityStatus
<1>5. PICK z : z = IF rs THEN x ELSE [x EXCEPT !.status = RecordEntity(@)]
  OBVIOUS
<1>6. z = [x EXCEPT !.status = st]
  BY <1>4, <1>5 DEF SectionRecs
<1>7. z \in SectionRecs /\ z.status = st /\ SameErrors(x, z) /\ SameErrors(z, x)
  BY <1>6, WithStatus
<1>8. z.keys = x.keys
  BY <1>7 DEF SameErrors
<1>9. y = IF k \in DOMAIN x.keys THEN RecordAgain(z, k, prio) ELSE RecordNew(z, k, prio)
  BY <1>1, <1>5 DEF Record
<1>10. y \in SectionRecs /\ y.status = z.status /\ Effect(z, y, k, prio)
  <2>1. CASE k \in DOMAIN x.keys
    BY <2>1, <1>2, <1>7, <1>8, <1>9, AgainEffect
  <2>2. CASE k \notin DOMAIN x.keys
    <3>1. Cardinality(DOMAIN z.keys) \in Nat
      BY <1>8, FS_CardinalityType
    <3> QED
      BY <2>2, <3>1, <1>2, <1>7, <1>8, <1>9, NewEffect
  <2> QED
    BY <2>1, <2>2
<1>11. SameErrors(y, y)
  BY DEF SameErrors
<1>12. Effect(x, y, k, prio)
  BY <1>7, <1>10, <1>11, EffectIgnoresStatus
<1> QED
  BY <1>1, <1>4, <1>7, <1>10, <1>12

\* A recording step puts y in the place of section s.
Records(s, k, rs, y) ==
  /\ y \in SectionRecs /\ y.status # "ok" /\ Effect(sec[s], y, k, ErrPriority(k, rs))
  /\ sec' = [sec EXCEPT ![s] = y]
  /\ rs => k.id \notin entities[s]
  /\ ~rs => k.id \in entities'[s]
  /\ entities' = [entities EXCEPT ![s] = entities'[s]] /\ entities[s] \subseteq entities'[s]

LEMMA AddEntityRecords ==
  ASSUME Types, EveryKept, NEW s \in Secs, NEW k \in Keys, AddEntity(s, k)
  PROVE  \E y : Records(s, k, FALSE, y)
<1>1. sec[s] \in SectionRecs /\ IsFiniteSet(DOMAIN sec[s].keys) /\ sec[s].status \in Statuses
  BY DEF Types, EveryKept, Kept, SectionRecs
<1>2. PICK y : y = Record(sec[s], k, FALSE)
  OBVIOUS
<1>3. y \in SectionRecs /\ Effect(sec[s], y, k, ErrPriority(k, FALSE)) /\ y.status = RecordEntity(sec[s].status)
  BY <1>1, <1>2, RecordEffect
<1>4. y.status # "ok"
  BY <1>1, <1>3, EntityStatus
<1>5. sec' = [sec EXCEPT ![s] = y]
  BY <1>2 DEF AddEntity
<1>6. entities' = [entities EXCEPT ![s] = entities[s] \cup {k.id}]
  BY DEF AddEntity
<1>7. entities'[s] = entities[s] \cup {k.id}
  BY <1>6 DEF Types
<1> QED
  BY <1>3, <1>4, <1>5, <1>6, <1>7 DEF Records

LEMMA FailRequestRecords ==
  ASSUME Types, EveryKept, NEW s \in Secs, NEW k \in Keys, FailRequest(s, k)
  PROVE  \E y : Records(s, k, TRUE, y)
<1>1. sec[s] \in SectionRecs /\ IsFiniteSet(DOMAIN sec[s].keys) /\ sec[s].status \in Statuses
  BY DEF Types, EveryKept, Kept, SectionRecs
<1>2. PICK z : z = Record(sec[s], k, TRUE)
  OBVIOUS
<1>3. z \in SectionRecs /\ Effect(sec[s], z, k, ErrPriority(k, TRUE)) /\ z.status = sec[s].status
  BY <1>1, <1>2, RecordEffect
<1>4. PICK o \in {"shards", "denied", "allDenied", "error", "allShards"} :
        sec' = [sec EXCEPT ![s] = [z EXCEPT !.status = Request(z.status, o)]]
  <2>1. PICK o \in IF k.kind = "authorization" THEN {"shards", "denied", "allDenied"}
                                               ELSE {"shards", "error", "allShards"} :
          sec' = [sec EXCEPT ![s] = [z EXCEPT !.status = Request(z.status, o)]]
    BY <1>2, Zenon DEF FailRequest
  <2>2. o \in {"shards", "denied", "allDenied", "error", "allShards"}
    BY <2>1
  <2> QED
    BY <2>1, <2>2
<1>5. PICK st \in Statuses : st = Request(z.status, o) /\ st # "ok"
  BY <1>1, <1>3, RequestStatus
<1>6. PICK y : y = [z EXCEPT !.status = st]
  OBVIOUS
<1>7. y \in SectionRecs /\ y.status = st /\ SameErrors(y, z)
  BY <1>3, <1>6, WithStatus
<1>8. sec' = [sec EXCEPT ![s] = y]
  BY <1>3, <1>4, <1>5, <1>6 DEF SectionRecs
<1>9. SameErrors(sec[s], sec[s])
  BY DEF SameErrors
<1>10. Effect(sec[s], y, k, ErrPriority(k, TRUE))
  BY <1>3, <1>7, <1>9, EffectIgnoresStatus
<1>11. entities' = entities /\ k.id \notin entities[s]
  BY DEF FailRequest
<1>12. entities' = [entities EXCEPT ![s] = entities'[s]]
  BY <1>11 DEF Types
<1> QED
  BY <1>5, <1>7, <1>8, <1>10, <1>11, <1>12 DEF Records

\* A recording step keeps what every section knows.
LEMMA RecordsKeep ==
  ASSUME Types, EveryKept, NEW s \in Secs, NEW k \in Keys, NEW rs \in BOOLEAN, NEW y,
         Records(s, k, rs, y), Occurs(s, k)
  PROVE  EveryKept'
<1>1. /\ sec \in [Secs -> SectionRecs] /\ sec' = [sec EXCEPT ![s] = y] /\ sec'[s] = y /\ y \in SectionRecs
      /\ sec[s] \in SectionRecs
  BY DEF Types, Records
<1>2. PICK h \in [Keys -> Nat] : h = happened[s]
  BY DEF Types
<1>3. PICK h2 : h2 = [h EXCEPT ![k] = h[k] + 1]
  OBVIOUS
<1>4. happened' = [happened EXCEPT ![s] = h2] /\ happened'[s] = h2
  BY <1>2, <1>3 DEF Types, Occurs
<1>5. PICK x \in SectionRecs : x = sec[s]
  BY <1>1
<1>6. PICK ents : ents = entities[s]
  OBVIOUS
<1>7. PICK ents2 : ents2 = entities'[s]
  OBVIOUS
<1>8. Kept(x, h, ents) /\ Effect(x, y, k, ErrPriority(k, rs))
  BY <1>2, <1>5, <1>6 DEF EveryKept, Records
<1>9. (rs => k.id \notin ents) /\ (~rs => k.id \in ents2) /\ (\A i : i \in ents => i \in ents2) /\ y.status # "ok"
  BY <1>6, <1>7 DEF Records
<1>10. IsFiniteSet(DOMAIN x.keys) /\ IsFiniteSet(DOMAIN y.keys)
  BY <1>8, EffectOnKeys DEF Kept
<1>11. \A j \in Keys : IF j \in DOMAIN x.keys THEN Tracked(x, j, h[j]) ELSE Untracked(x, j, h[j], ents)
  BY <1>8 DEF Kept
<1>12. ErrPriority(k, rs) \in 0..PrioEntity
  BY PriorityType
<1>13. ASSUME NEW j \in Keys
       PROVE  IF j \in DOMAIN y.keys THEN Tracked(y, j, h2[j]) ELSE Untracked(y, j, h2[j], ents2)
  <2>1. CASE j = k
    <3>1. h2[k] = h[k] + 1 /\ h[k] \in Nat
      BY <1>3
    <3>2. IF k \in DOMAIN x.keys THEN Tracked(x, k, h[k]) ELSE Untracked(x, k, h[k], ents)
      BY <1>11
    <3>3. IF k \in DOMAIN y.keys THEN Tracked(y, k, h[k] + 1) ELSE Untracked(y, k, h[k] + 1, ents2)
      BY <1>1, <1>8, <1>9, <1>10, <3>1, <3>2, KeyKept
    <3> QED
      BY <2>1, <3>1, <3>3
  <2>2. CASE j # k
    <3>1. h2[j] = h[j] /\ h[j] \in Nat
      BY <1>3, <2>2
    <3>2. IF j \in DOMAIN x.keys THEN Tracked(x, j, h[j]) ELSE Untracked(x, j, h[j], ents)
      BY <1>11
    <3>3. k \in DOMAIN x.keys => Tracked(x, k, h[k])
      BY <1>11
    <3>4. j.id \in ents => j.id \in ents2
      BY <1>9
    <3>5. IF j \in DOMAIN y.keys THEN Tracked(y, j, h[j]) ELSE Untracked(y, j, h[j], ents2)
      BY <1>1, <1>8, <1>10, <1>12, <2>2, <3>1, <3>2, <3>3, <3>4, OtherKeysKept
    <3> QED
      BY <3>1, <3>5
  <2> QED
    BY <2>1, <2>2
<1>14. Kept(y, h2, ents2)
  BY <1>9, <1>10, <1>13 DEF Kept
<1>15. ASSUME NEW t \in Secs
       PROVE  Kept(sec'[t], happened'[t], entities'[t])
  <2>1. CASE t = s
    BY <1>1, <1>4, <1>7, <1>14, <2>1
  <2>2. CASE t # s
    <3>1. sec'[t] = sec[t] /\ happened'[t] = happened[t]
      BY <1>1, <1>4, <2>2 DEF Types
    <3>2. entities'[t] = entities[t]
      BY <2>2 DEF Types, Records
    <3> QED
      BY <3>1, <3>2 DEF EveryKept
  <2> QED
    BY <2>1, <2>2
<1> QED
  BY <1>15 DEF EveryKept

LEMMA EntriesFinite == IsFiniteSet(Entries)
<1>1. IsFiniteSet(Secs) /\ IsFiniteSet(1..MaxRecords)
  BY ConstantsAssumption, FS_Interval DEF Secs
<1>2. IsFiniteSet(Secs \X (1..MaxRecords))
  BY <1>1, FS_Product
<1>3. Entries \in SUBSET (Secs \X (1..MaxRecords))
  BY DEF Entries
<1> QED
  BY <1>2, <1>3, FS_Subset

LEMMA RejectedType ==
  ASSUME NEW s, NEW A
  PROVE  Rejected(s, A) \in Nat
<1>1. {e \in Entries \ A : e[1] = s} \in SUBSET Entries
  OBVIOUS
<1> QED
  BY <1>1, EntriesFinite, FS_Subset, FS_CardinalityType DEF Rejected

LEMMA TypesStep ==
  ASSUME Types, EveryKept, Next
  PROVE  Types'
<1>1. ASSUME NEW s \in Secs, NEW k \in Keys, NEW rs \in BOOLEAN, NEW y, Records(s, k, rs, y),
             Occurs(s, k), out' = out, entities'[s] \subseteq 1..NumIds
      PROVE  Types'
  <2>1. sec' \in [Secs -> SectionRecs]
    BY <1>1 DEF Types, Records
  <2>2. happened' \in [Secs -> [Keys -> Nat]] /\ records' \in Nat
    BY <1>1 DEF Types, Occurs
  <2>3. entities' \in [Secs -> SUBSET (1..NumIds)]
    BY <1>1 DEF Types, Records
  <2> QED
    BY <1>1, <2>1, <2>2, <2>3 DEF Types
<1>2. ASSUME NEW s \in Secs, NEW k \in Keys, AddEntity(s, k)
      PROVE  Types'
  <2>1. PICK y : Records(s, k, FALSE, y)
    BY <1>2, AddEntityRecords
  <2>2. Occurs(s, k) /\ out' = out
    BY <1>2 DEF AddEntity
  <2>3. entities'[s] \subseteq 1..NumIds
    BY <1>2 DEF AddEntity, Types, Keys
  <2> QED
    BY <1>1, <2>1, <2>2, <2>3
<1>3. ASSUME NEW s \in Secs, NEW k \in Keys, FailRequest(s, k)
      PROVE  Types'
  <2>1. PICK y : Records(s, k, TRUE, y)
    BY <1>3, FailRequestRecords
  <2>2. Occurs(s, k) /\ out' = out
    BY <1>3 DEF FailRequest
  <2>3. entities'[s] \subseteq 1..NumIds
    BY <1>3 DEF FailRequest, Types
  <2> QED
    BY <1>1, <2>1, <2>2, <2>3
<1>4. CASE MergeErrors
  <2>1. Admitted \subseteq Secs \X (1..MaxRecords)
    BY DEF Admitted, Entries
  <2>2. out' \in [merged : BOOLEAN, entries : SUBSET (Secs \X (1..MaxRecords))]
    BY <1>4, <2>1 DEF MergeErrors
  <2>3. ASSUME NEW s \in Secs
        PROVE  sec'[s] \in SectionRecs
    <3>1. PICK r : r = Rejected(s, Admitted)
      OBVIOUS
    <3>2. r \in Nat
      BY <3>1, RejectedType
    <3>3. sec[s] \in SectionRecs /\ sec[s].dropped \in Nat
      BY DEF Types, SectionRecs
    <3>4. sec'[s] = IF r = 0 THEN sec[s]
                    ELSE [sec[s] EXCEPT !.globalDropped = r, !.dropped = @ + r, !.truncated = TRUE]
      BY <1>4, <3>1 DEF MergeErrors
    <3>5. sec[s].dropped + r \in Nat
      BY <3>2, <3>3
    <3> QED
      BY <3>2, <3>3, <3>4, <3>5 DEF SectionRecs
  <2>4. sec' \in [Secs -> SectionRecs]
    <3>1. sec' = [s \in Secs |-> sec'[s]]
      BY <1>4 DEF MergeErrors
    <3> QED
      BY <2>3, <3>1
  <2> QED
    BY <1>4, <2>2, <2>4 DEF MergeErrors, Types
<1> QED
  BY <1>2, <1>3, <1>4 DEF Next

-----------------------------------------------------------------------------
(* What the sections share *)

\* No section has more entries than there were failures.
Counted == records \in 0..MaxRecords /\ \A s \in Secs : Len(sec[s].errs) <= records

\* Until the merge nothing is lost to the global cap, and as long as nothing is
\* folded or refused there are as many entries as failures.
Unmerged ==
  ~out.merged => /\ \A s \in Secs : sec[s].globalDropped = 0
                 /\ NoTruncation => Cardinality(Entries) = records

\* After it every section knows what the cap took from it.
Merged ==
  out.merged => /\ out.entries = Admitted
                /\ \A s \in Secs : sec[s].globalDropped = Rejected(s, Admitted)
                /\ NoTruncation => Admitted = Entries /\ Cardinality(Entries) = records

\* An error that is kept is one entry more.
LEMMA LengthsAfter ==
  ASSUME NEW x \in SectionRecs, NEW y \in SectionRecs, NEW k \in Keys, NEW prio \in 0..PrioEntity,
         Effect(x, y, k, prio)
  PROVE  /\ Len(y.errs) \in Nat /\ Len(x.errs) \in Nat
         /\ Len(y.errs) = Len(x.errs) \/ Len(y.errs) = Len(x.errs) + 1
         /\ Fresh(x, y, k, prio) \/ Samples(x, y, k, prio) => Len(y.errs) = Len(x.errs) + 1
<1>1. x.errs \in Seq(ErrRecs) /\ y.errs \in Seq(ErrRecs)
  BY DEF SectionRecs
<1>2. Len(y.errs) \in Nat /\ Len(x.errs) \in Nat
  BY <1>1, LenProperties
<1>3. Fresh(x, y, k, prio) \/ Samples(x, y, k, prio) => Len(y.errs) = Len(x.errs) + 1
  <2>1. NewEntry(k, prio) \in ErrRecs
    BY DEF NewEntry, ErrRecs
  <2>2. Len(Append(x.errs, NewEntry(k, prio))) = Len(x.errs) + 1
    BY <1>1, <2>1, AppendProperties
  <2> QED
    BY <2>2 DEF Fresh, Samples
<1>4. Folds(x, y, k) => Len(y.errs) = Len(x.errs)
  <2>1. Folds(x, y, k) => DOMAIN y.errs = DOMAIN x.errs
    BY DEF Folds
  <2>2. DOMAIN y.errs = 1..Len(y.errs) /\ DOMAIN x.errs = 1..Len(x.errs)
    BY <1>1, LenProperties
  <2> QED
    BY <2>1, <2>2, <1>2
<1>5. Refuses(x, y, k, prio) \/ Ignores(x, y, k) => Len(y.errs) = Len(x.errs)
  BY DEF Refuses, Ignores
<1> QED
  BY <1>2, <1>3, <1>4, <1>5 DEF Effect

LEMMA RecordsCount ==
  ASSUME Types, EveryKept, Counted, Unmerged, ~out.merged, NEW s \in Secs, NEW k \in Keys, NEW rs \in BOOLEAN,
         NEW y, Records(s, k, rs, y), Occurs(s, k)
  PROVE  /\ Counted'
         /\ \A t \in Secs : sec'[t].globalDropped = 0
         /\ NoTruncation' => Cardinality(Entries') = records'
<1>1. /\ sec \in [Secs -> SectionRecs] /\ sec' = [sec EXCEPT ![s] = y] /\ y \in SectionRecs
      /\ records \in Nat /\ records < MaxRecords /\ records' = records + 1 /\ MaxRecords \in Nat
  BY ConstantsAssumption DEF Types, Records, Occurs
<1>2. PICK x \in SectionRecs : x = sec[s]
  BY <1>1
<1>3. PICK prio \in 0..PrioEntity : prio = ErrPriority(k, rs)
  BY PriorityType
<1>4. Effect(x, y, k, prio)
  BY <1>2, <1>3 DEF Records
<1>5. sec'[s] = y /\ \A t \in Secs : t # s => sec'[t] = sec[t]
  BY <1>1
<1>6. /\ Len(y.errs) \in Nat /\ Len(x.errs) \in Nat
      /\ Len(y.errs) = Len(x.errs) \/ Len(y.errs) = Len(x.errs) + 1
      /\ Fresh(x, y, k, prio) \/ Samples(x, y, k, prio) => Len(y.errs) = Len(x.errs) + 1
  BY <1>1, <1>4, LengthsAfter
<1>7. Counted'
  <2>1. \A t \in Secs : Len(sec[t].errs) <= records
    BY DEF Counted
  <2>2. Len(y.errs) <= records + 1
    BY <2>1, <1>1, <1>2, <1>6
  <2>3. \A t \in Secs : Len(sec[t].errs) \in Nat
    <3>1. \A t \in Secs : sec[t].errs \in Seq(ErrRecs)
      BY <1>1 DEF SectionRecs
    <3> QED
      BY <3>1, LenProperties
  <2>4. \A t \in Secs : Len(sec'[t].errs) <= records + 1
    <3>1. TAKE t \in Secs
    <3>2. CASE t = s
      BY <2>2, <3>2, <1>5
    <3>3. CASE t # s
      BY <2>1, <2>3, <3>3, <1>1, <1>5
    <3> QED
      BY <3>2, <3>3
  <2>5. records + 1 \in 0..MaxRecords
    BY <1>1
  <2> QED
    BY <2>4, <2>5, <1>1 DEF Counted
<1>8. \A t \in Secs : sec'[t].globalDropped = 0
  <2>1. \A t \in Secs : sec[t].globalDropped = 0
    BY DEF Unmerged
  <2>2. y.globalDropped = x.globalDropped
    BY <1>4 DEF Effect
  <2> QED
    BY <2>1, <2>2, <1>2, <1>5
<1>9. ASSUME NoTruncation'
      PROVE  Cardinality(Entries') = records'
  <2>1. \A t \in Secs : sec'[t].collapsed = 0 /\ sec'[t].dropped = 0
    BY <1>9 DEF NoTruncation
  <2>2. y.collapsed = 0 /\ y.dropped = 0
    BY <2>1, <1>5
  <2>3. x.collapsed \in Nat /\ x.dropped \in Nat
    BY DEF SectionRecs
  <2>4. ~Folds(x, y, k) /\ ~Refuses(x, y, k, prio)
    BY <2>2, <2>3 DEF Folds, Refuses
  <2>5. ~Ignores(x, y, k)
    <3>1. k \in DOMAIN x.keys => Tracked(x, k, happened[s][k])
      BY <1>2 DEF EveryKept, Kept
    <3>2. Ignores(x, y, k) => x.dropped > 0
      BY <3>1 DEF Ignores, Tracked
    <3>3. Ignores(x, y, k) => x.dropped = 0
      BY <2>2 DEF Ignores
    <3> QED
      BY <3>2, <3>3
  <2>6. Fresh(x, y, k, prio) \/ Samples(x, y, k, prio)
    BY <1>4, <2>4, <2>5 DEF Effect
  <2>7. x.collapsed = 0 /\ x.dropped = 0
    BY <2>2, <2>6 DEF Fresh, Samples
  <2>8. NoTruncation
    BY <2>1, <2>7, <1>2, <1>5 DEF NoTruncation
  <2>9. Cardinality(Entries) = records
    BY <2>8 DEF Unmerged
  <2>10. Len(y.errs) = Len(x.errs) + 1
    BY <2>6, <1>6
  <2> DEFINE new == <<s, Len(x.errs) + 1>>
  <2>11. Len(x.errs) + 1 \in 1..MaxRecords
    <3>1. Len(x.errs) <= records
      BY <1>2 DEF Counted
    <3> QED
      BY <3>1, <1>1, <1>6
  <2>12. Entries' = Entries \cup {new}
    <3>1. Entries' = {e \in Secs \X (1..MaxRecords) : e[2] <= Len(sec'[e[1]].errs)}
      BY DEF Entries
    <3>2. ASSUME NEW t \in Secs, NEW i \in 1..MaxRecords
          PROVE  i <= Len(sec'[t].errs) <=> (i <= Len(sec[t].errs) \/ (t = s /\ i = Len(x.errs) + 1))
      <4>1. CASE t = s
        BY <4>1, <2>10, <1>1, <1>2, <1>5, <1>6
      <4>2. CASE t # s
        BY <4>2, <1>5
      <4> QED
        BY <4>1, <4>2
    <3>3. new \in Secs \X (1..MaxRecords)
      BY <2>11
    <3>4. ASSUME NEW e \in Secs \X (1..MaxRecords)
          PROVE  e[2] <= Len(sec'[e[1]].errs) <=> (e[2] <= Len(sec[e[1]].errs) \/ e = new)
      <4>1. e = <<e[1], e[2]>> /\ e[1] \in Secs /\ e[2] \in 1..MaxRecords
        OBVIOUS
      <4>2. e = new <=> (e[1] = s /\ e[2] = Len(x.errs) + 1)
        BY <4>1
      <4> QED
        BY <3>2, <4>1, <4>2
    <3> QED
      BY <3>1, <3>3, <3>4 DEF Entries
  <2>13. new \notin Entries
    <3>1. ~(Len(x.errs) + 1 <= Len(x.errs))
      BY <1>6
    <3> QED
      BY <3>1, <1>2 DEF Entries
  <2>14. Cardinality(Entries \cup {new}) = Cardinality(Entries) + 1
    <3> HIDE DEF new
    <3> QED
      BY <2>13, EntriesFinite, FS_AddElement
  <2> QED
    BY <2>9, <2>12, <2>14, <1>1
<1> QED
  BY <1>7, <1>8, <1>9

-----------------------------------------------------------------------------
(* The merge *)

LEMMA PrioType ==
  ASSUME Types, NEW e \in Entries
  PROVE  PrioOf(e) \in 0..PrioEntity /\ e[1] \in Secs /\ e[2] \in 1..MaxRecords /\ e = <<e[1], e[2]>>
         /\ e[2] \in DOMAIN sec[e[1]].errs /\ e[1] \in Int /\ e[2] \in Int
<1>1. e[1] \in Secs /\ e[2] \in 1..MaxRecords /\ e[2] <= Len(sec[e[1]].errs) /\ e = <<e[1], e[2]>>
  BY DEF Entries
<1>2. sec[e[1]].errs \in Seq(ErrRecs)
  BY <1>1 DEF Types, SectionRecs
<1>3. e[2] \in 1..Len(sec[e[1]].errs) /\ DOMAIN sec[e[1]].errs = 1..Len(sec[e[1]].errs)
  BY <1>1, <1>2, LenProperties, ConstantsAssumption
<1>4. sec[e[1]].errs[e[2]] \in ErrRecs
  BY <1>2, <1>3, ElementOfSeq
<1> QED
  BY <1>1, <1>3, <1>4, ConstantsAssumption DEF PrioOf, ErrRecs, Secs

\* The order of admission is a strict total order of the entries.
LEMMA BeforeTransitive ==
  ASSUME Types, NEW e \in Entries, NEW f \in Entries, NEW g \in Entries, Before(e, f), Before(f, g)
  PROVE  Before(e, g)
<1>1. PrioOf(e) \in Int /\ PrioOf(f) \in Int /\ PrioOf(g) \in Int
  BY PrioType DEF PrioEntity
<1>2. e[1] \in Int /\ e[2] \in Int /\ f[1] \in Int /\ f[2] \in Int /\ g[1] \in Int /\ g[2] \in Int
  BY PrioType
<1> QED
  BY <1>1, <1>2 DEF Before

LEMMA BeforeTotal ==
  ASSUME Types, NEW e \in Entries, NEW f \in Entries
  PROVE  ~Before(e, e) /\ (e # f => Before(e, f) \/ Before(f, e))
<1>1. PrioOf(e) \in Int /\ PrioOf(f) \in Int
  BY PrioType DEF PrioEntity
<1>2. e[1] \in Int /\ e[2] \in Int /\ f[1] \in Int /\ f[2] \in Int /\ e = <<e[1], e[2]>> /\ f = <<f[1], f[2]>>
  BY PrioType
<1>3. e # f => e[1] # f[1] \/ e[2] # f[2]
  BY <1>2
<1> QED
  BY <1>1, <1>2, <1>3 DEF Before

\* The entries ahead of e.
Ahead(e) == {f \in Entries : Before(f, e)}

LEMMA AheadGrows ==
  ASSUME Types, NEW e \in Entries, NEW f \in Entries, Before(e, f)
  PROVE  Cardinality(Ahead(e)) < Cardinality(Ahead(f)) /\ Cardinality(Ahead(e)) \in Nat
<1>1. IsFiniteSet(Ahead(e)) /\ IsFiniteSet(Ahead(f))
  <2>1. Ahead(e) \in SUBSET Entries /\ Ahead(f) \in SUBSET Entries
    BY DEF Ahead
  <2> QED
    BY <2>1, EntriesFinite, FS_Subset
<1>2. Cardinality(Ahead(e)) \in Nat /\ Cardinality(Ahead(f)) \in Nat
  BY <1>1, FS_CardinalityType
<1>3. Ahead(e) \in SUBSET Ahead(f)
  BY BeforeTransitive DEF Ahead
<1>4. e \in Ahead(f) /\ e \notin Ahead(e)
  BY BeforeTotal DEF Ahead
<1>5. Cardinality(Ahead(e)) <= Cardinality(Ahead(f)) /\ Cardinality(Ahead(e)) # Cardinality(Ahead(f))
  <2>1. Cardinality(Ahead(e)) <= Cardinality(Ahead(f))
    BY <1>1, <1>3, FS_Subset
  <2>2. Cardinality(Ahead(f)) = Cardinality(Ahead(e)) => Ahead(f) = Ahead(e)
    BY <1>1, <1>3, FS_Subset
  <2> QED
    BY <2>1, <2>2, <1>4
<1> QED
  BY <1>2, <1>5

LEMMA BudgetType ==
  Budget \in Nat /\ Budget <= Cardinality(Entries) /\ (MaxErrors > 0 => Budget <= MaxErrors)
<1>1. Cardinality(Entries) \in Nat
  BY EntriesFinite, FS_CardinalityType
<1> QED
  BY <1>1, ConstantsAssumption DEF Budget

\* The cap admits no more than it says: an entry is told by how many are ahead.
LEMMA AdmittedBounded ==
  ASSUME Types
  PROVE  IsFiniteSet(Admitted) /\ Cardinality(Admitted) <= Budget
<1> DEFINE rank == [e \in Admitted |-> Cardinality(Ahead(e))]
           T == 0..(Budget - 1)
<1>1. Budget \in Nat
  BY BudgetType
<1>2. \A e \in Admitted : e \in Entries /\ Cardinality(Ahead(e)) < Budget
  BY DEF Admitted, Ahead
<1>3. \A e \in Admitted : Cardinality(Ahead(e)) \in Nat
  <2>1. \A e \in Admitted : Ahead(e) \in SUBSET Entries
    BY DEF Ahead
  <2> QED
    BY <2>1, EntriesFinite, FS_Subset, FS_CardinalityType
<1>4. rank \in [Admitted -> T]
  BY <1>1, <1>2, <1>3
<1>5. ASSUME NEW e \in Admitted, NEW f \in Admitted, e # f
      PROVE  rank[e] # rank[f]
  <2>1. e \in Entries /\ f \in Entries /\ rank[e] = Cardinality(Ahead(e)) /\ rank[f] = Cardinality(Ahead(f))
    BY <1>2
  <2>2. Before(e, f) \/ Before(f, e)
    BY <1>5, <2>1, BeforeTotal
  <2>3. Cardinality(Ahead(e)) < Cardinality(Ahead(f)) \/ Cardinality(Ahead(f)) < Cardinality(Ahead(e))
    BY <2>1, <2>2, AheadGrows
  <2>4. Cardinality(Ahead(e)) \in Nat /\ Cardinality(Ahead(f)) \in Nat
    BY <1>3
  <2>5. Cardinality(Ahead(e)) # Cardinality(Ahead(f))
    BY <2>3, <2>4
  <2> QED
    BY <2>1, <2>5
<1>6. rank \in Injection(Admitted, T)
  <2> HIDE DEF rank
  <2> QED
    BY <1>4, <1>5 DEF Injection, IsInjective
<1>7. IsFiniteSet(T) /\ Cardinality(T) = Budget
  BY <1>1, FS_Interval
<1> HIDE DEF rank, T
<1>8. IsFiniteSet(Admitted) /\ Cardinality(Admitted) <= Cardinality(T)
  BY <1>6, <1>7, FS_Injection
<1> QED
  BY <1>7, <1>8

LEMMA SameErrsSameEntries ==
  ASSUME Types, \A s \in Secs : sec'[s].errs = sec[s].errs
  PROVE  /\ Entries' = Entries /\ Admitted' = Admitted
         /\ \A s \in Secs : Rejected(s, Admitted)' = Rejected(s, Admitted)
<1>1. Entries' = Entries
  BY DEF Entries
<1>2. \A e \in Entries : PrioOf(e)' = PrioOf(e)
  BY PrioType DEF PrioOf
<1>3. ASSUME NEW e \in Entries
      PROVE  {f \in Entries' : Before(f, e)'} = {f \in Entries : Before(f, e)}
  BY <1>1, <1>2 DEF Before
<1>4. Budget' = Budget
  BY <1>1 DEF Budget
<1>5. Admitted' = Admitted
  BY <1>1, <1>3, <1>4 DEF Admitted
<1>6. \A s \in Secs : Rejected(s, Admitted)' = Rejected(s, Admitted)
  BY <1>1, <1>5 DEF Rejected
<1> QED
  BY <1>1, <1>5, <1>6

LEMMA MergeStep ==
  ASSUME Types, EveryKept, Counted, Unmerged, MergeErrors
  PROVE  EveryKept' /\ Counted' /\ Unmerged' /\ Merged'
<1>1. ASSUME NEW s \in Secs
      PROVE  /\ sec'[s].errs = sec[s].errs /\ sec'[s].keys = sec[s].keys
             /\ sec'[s].status = sec[s].status /\ sec'[s].collapsed = sec[s].collapsed
             /\ sec'[s].dropped = sec[s].dropped + Rejected(s, Admitted)
             /\ sec'[s].globalDropped = Rejected(s, Admitted)
  <2>1. PICK r \in Nat : r = Rejected(s, Admitted)
    BY RejectedType
  <2>2. PICK x \in SectionRecs : x = sec[s]
    BY DEF Types
  <2>3. PICK y : y = sec'[s]
    OBVIOUS
  <2>4. x.globalDropped = 0
    BY <2>2 DEF Unmerged, MergeErrors
  <2>5. y = IF r = 0 THEN x ELSE [x EXCEPT !.globalDropped = r, !.dropped = @ + r, !.truncated = TRUE]
    BY <2>1, <2>2, <2>3 DEF MergeErrors
  <2>6. x.dropped \in Nat
    BY DEF SectionRecs
  <2>7. /\ y.errs = x.errs /\ y.keys = x.keys /\ y.status = x.status /\ y.collapsed = x.collapsed
        /\ y.dropped = x.dropped + r /\ y.globalDropped = r
    BY <2>4, <2>5, <2>6 DEF SectionRecs
  <2> QED
    BY <2>1, <2>2, <2>3, <2>7
<1>2. Entries' = Entries /\ Admitted' = Admitted
      /\ \A s \in Secs : Rejected(s, Admitted)' = Rejected(s, Admitted)
  BY <1>1, SameErrsSameEntries
<1>3. out' = [merged |-> TRUE, entries |-> Admitted] /\ happened' = happened /\ entities' = entities
      /\ records' = records /\ ~out.merged
  BY DEF MergeErrors
<1>4. EveryKept'
  <2>1. ASSUME NEW s \in Secs
        PROVE  Kept(sec'[s], happened[s], entities[s])
    <3>1. PICK x \in SectionRecs : x = sec[s]
      BY DEF Types
    <3>2. PICK y : y = sec'[s]
      OBVIOUS
    <3>3. x.dropped \in Nat /\ Rejected(s, Admitted) \in Nat
      BY RejectedType DEF SectionRecs
    <3>4. /\ y.errs = x.errs /\ y.keys = x.keys /\ y.status = x.status
          /\ x.dropped > 0 => y.dropped > 0
      BY <1>1, <3>1, <3>2, <3>3
    <3>5. \A k \in Keys : Tracked(x, k, happened[s][k]) => Tracked(y, k, happened[s][k])
      BY <3>4 DEF Tracked
    <3>6. \A k \in Keys : Untracked(x, k, happened[s][k], entities[s]) => Untracked(y, k, happened[s][k], entities[s])
      BY <3>4 DEF Untracked
    <3>7. Kept(x, happened[s], entities[s])
      BY <3>1 DEF EveryKept
    <3>8. Kept(y, happened[s], entities[s])
      BY <3>4, <3>5, <3>6, <3>7 DEF Kept
    <3> QED
      BY <3>2, <3>8
  <2> QED
    BY <2>1, <1>3 DEF EveryKept
<1>5. Counted'
  BY <1>1, <1>3 DEF Counted
<1>6. NoTruncation' => Admitted = Entries /\ Cardinality(Entries) = records
  <2>1. SUFFICES ASSUME NoTruncation'
                 PROVE  Admitted = Entries /\ Cardinality(Entries) = records
    OBVIOUS
  <2>2. ASSUME NEW s \in Secs
        PROVE  sec[s].collapsed = 0 /\ sec[s].dropped = 0 /\ Rejected(s, Admitted) = 0
    <3>1. sec'[s].collapsed = 0 /\ sec'[s].dropped = 0
      BY <2>1 DEF NoTruncation
    <3>2. Rejected(s, Admitted) \in Nat /\ sec[s].dropped \in Nat
      BY RejectedType DEF Types, SectionRecs
    <3>3. sec[s].collapsed = 0 /\ sec[s].dropped + Rejected(s, Admitted) = 0
      BY <1>1, <3>1
    <3>4. \A a \in Nat, b \in Nat : a + b = 0 => a = 0 /\ b = 0
      OBVIOUS
    <3> QED
      BY <3>2, <3>3, <3>4
  <2>3. NoTruncation
    BY <2>2 DEF NoTruncation
  <2>4. Cardinality(Entries) = records
    BY <2>3, <1>3 DEF Unmerged
  <2>5. ASSUME NEW e \in Entries
        PROVE  e \in Admitted
    <3>1. e[1] \in Secs
      BY DEF Entries
    <3> DEFINE lost == {f \in Entries \ Admitted : f[1] = e[1]}
    <3>2. lost \in SUBSET Entries
      OBVIOUS
    <3>3. IsFiniteSet(lost)
      BY <3>2, EntriesFinite, FS_Subset
    <3>4. Cardinality(lost) = 0
      BY <3>1, <2>2 DEF Rejected
    <3>5. lost = {}
      <4> HIDE DEF lost
      <4> QED
        BY <3>3, <3>4, FS_EmptySet
    <3> QED
      BY <3>5
  <2>6. Admitted \subseteq Entries
    BY DEF Admitted
  <2> QED
    BY <2>4, <2>5, <2>6
<1>7. Unmerged'
  BY <1>3 DEF Unmerged
<1>8. Merged'
  <2>1. out'.entries = Admitted' /\ \A s \in Secs : sec'[s].globalDropped = Rejected(s, Admitted)'
    BY <1>1, <1>2, <1>3
  <2>2. NoTruncation' => Admitted' = Entries' /\ Cardinality(Entries') = records'
    BY <1>2, <1>3, <1>6
  <2> QED
    BY <2>1, <2>2 DEF Merged
<1> QED
  BY <1>4, <1>5, <1>7, <1>8

-----------------------------------------------------------------------------
(* The invariant and the theorems *)

Inv == Types /\ EveryKept /\ Counted /\ Unmerged /\ Merged

LEMMA InitInv == Init => Inv
<1>0. SUFFICES ASSUME Init PROVE Inv
  OBVIOUS
<1>1. PICK x : x = EmptySection
  OBVIOUS
<1>2. /\ x.status = "ok" /\ x.errs = <<>> /\ DOMAIN x.keys = {}
      /\ x.collapsed = 0 /\ x.dropped = 0 /\ x.globalDropped = 0
  BY <1>1 DEF EmptySection
<1>3. x \in SectionRecs
  <2>1. <<>> \in Seq(ErrRecs)
    BY EmptySeq
  <2>2. [k \in {} |-> NoBucket] \in [{} -> Buckets]
    OBVIOUS
  <2>3. [k \in {} |-> NoBucket] \in KeyMaps
    BY <2>2 DEF KeyMaps
  <2> QED
    BY <1>1, <2>1, <2>3 DEF EmptySection, SectionRecs, Statuses
<1>4. \A s \in Secs : sec[s] = x
  BY <1>0, <1>1 DEF Init
<1>5. Types
  BY <1>0, <1>1, <1>3 DEF Init, Types
<1>6. EveryKept
  <2>1. \A k : Ents(x.errs, k) = {}
    BY <1>2, EmptySeq DEF Ents
  <2>2. ASSUME NEW s \in Secs
        PROVE  Kept(x, happened[s], entities[s])
    <3>1. \A k \in Keys : happened[s][k] = 0
      BY <1>0 DEF Init
    <3>2. IsFiniteSet(DOMAIN x.keys)
      BY <1>2, FS_EmptySet
    <3>3. \A k \in Keys : Untracked(x, k, happened[s][k], entities[s])
      BY <2>1, <3>1 DEF Untracked
    <3> QED
      BY <1>2, <3>1, <3>2, <3>3 DEF Kept
  <2> QED
    BY <1>4, <2>2 DEF EveryKept
<1>7. records = 0 /\ ~out.merged
  BY <1>0 DEF Init
<1>8. \A s \in Secs : Len(sec[s].errs) = 0
  BY <1>2, <1>4, EmptySeq
<1>9. Counted
  BY <1>7, <1>8, ConstantsAssumption DEF Counted
<1>10. Entries = {}
  <2>1. \A i \in 1..MaxRecords : ~(i <= 0)
    BY ConstantsAssumption
  <2> QED
    BY <1>8, <2>1 DEF Entries
<1>11. Unmerged
  BY <1>2, <1>4, <1>7, <1>10, FS_EmptySet DEF Unmerged
<1>12. Merged
  BY <1>7 DEF Merged
<1> QED
  BY <1>5, <1>6, <1>9, <1>11, <1>12 DEF Inv

LEMMA InvStep ==
  ASSUME Inv, Next
  PROVE  Inv'
<1>1. Types /\ EveryKept /\ Counted /\ Unmerged /\ Merged
  BY DEF Inv
<1>2. Types'
  BY <1>1, TypesStep
<1>3. ASSUME NEW s \in Secs, NEW k \in Keys, NEW rs \in BOOLEAN, NEW y, Records(s, k, rs, y),
             Occurs(s, k), out' = out, ~out.merged
      PROVE  EveryKept' /\ Counted' /\ Unmerged' /\ Merged'
  <2>1. EveryKept'
    BY <1>1, <1>3, RecordsKeep
  <2>2. /\ Counted'
        /\ \A t \in Secs : sec'[t].globalDropped = 0
        /\ NoTruncation' => Cardinality(Entries') = records'
    BY <1>1, <1>3, RecordsCount
  <2>3. Unmerged'
    BY <2>2 DEF Unmerged
  <2>4. Merged'
    BY <1>3 DEF Merged
  <2> QED
    BY <2>1, <2>2, <2>3, <2>4
<1>4. ASSUME NEW s \in Secs, NEW k \in Keys, AddEntity(s, k)
      PROVE  EveryKept' /\ Counted' /\ Unmerged' /\ Merged'
  <2>1. PICK y : Records(s, k, FALSE, y)
    BY <1>1, <1>4, AddEntityRecords
  <2>2. Occurs(s, k) /\ out' = out /\ ~out.merged
    BY <1>4 DEF AddEntity
  <2> QED
    BY <1>3, <2>1, <2>2
<1>5. ASSUME NEW s \in Secs, NEW k \in Keys, FailRequest(s, k)
      PROVE  EveryKept' /\ Counted' /\ Unmerged' /\ Merged'
  <2>1. PICK y : Records(s, k, TRUE, y)
    BY <1>1, <1>5, FailRequestRecords
  <2>2. Occurs(s, k) /\ out' = out /\ ~out.merged
    BY <1>5 DEF FailRequest
  <2> QED
    BY <1>3, <2>1, <2>2
<1>6. CASE MergeErrors
  BY <1>1, <1>2, <1>6, MergeStep DEF Inv
<1> QED
  BY <1>2, <1>4, <1>5, <1>6 DEF Next, Inv

LEMMA InvHolds == Spec => []Inv
<1>1. Inv /\ UNCHANGED vars => Inv'
  <2>1. SUFFICES ASSUME Inv, UNCHANGED vars PROVE Inv'
    OBVIOUS
  <2> USE <2>1 DEF vars
  <2>2. Types' /\ EveryKept' /\ Counted'
    BY DEF Inv, Types, EveryKept, Counted
  <2>3. Entries' = Entries /\ Admitted' = Admitted
        /\ \A s \in Secs : Rejected(s, Admitted)' = Rejected(s, Admitted)
    <3>1. Types /\ \A s \in Secs : sec'[s].errs = sec[s].errs
      BY DEF Inv
    <3> QED
      BY <3>1, SameErrsSameEntries
  <2>4. NoTruncation' <=> NoTruncation
    BY DEF NoTruncation
  <2>5. Unmerged' /\ Merged'
    BY <2>3, <2>4 DEF Inv, Unmerged, Merged
  <2> QED
    BY <2>2, <2>5 DEF Inv
<1> QED
  BY <1>1, InitInv, InvStep, PTL DEF Spec

\* However samples, folds and refusals alternate in a section, the counts of the
\* entries that carry a key add up to its occurrences (record: "keeping the key's
\* Counts summing to its occurrences").
THEOREM CountsStayExact == Spec => []CountsAddUp
<1>1. Inv => CountsAddUp
  <2>1. SUFFICES ASSUME Inv, NEW s \in Secs, NEW k \in Keys, EntriesOf(s, k) # {}
                 PROVE  \E i \in EntriesOf(s, k) :
                          /\ sec[s].errs[i].count + Cardinality(EntriesOf(s, k) \ {i}) = happened[s][k]
                          /\ \A j \in EntriesOf(s, k) \ {i} : sec[s].errs[j].count = 1
    BY DEF CountsAddUp
  <2>2. PICK x \in SectionRecs : x = sec[s]
    BY <2>1 DEF Inv, Types
  <2>3. PICK n \in Nat : n = happened[s][k]
    BY <2>1 DEF Inv, Types
  <2>4. Kept(x, happened[s], entities[s])
    BY <2>1, <2>2 DEF Inv, EveryKept
  <2>5. PICK S : S = Ents(x.errs, k)
    OBVIOUS
  <2>6. EntriesOf(s, k) = S
    BY <2>2, <2>5 DEF EntriesOf, Indices, Ents
  <2>7. k \in DOMAIN x.keys
    BY <2>1, <2>4, <2>5, <2>6 DEF Kept, Untracked
  <2>8. Tracked(x, k, n)
    BY <2>3, <2>4, <2>7 DEF Kept
  <2>9. x.keys \in KeyMaps /\ x.errs \in Seq(ErrRecs)
    BY DEF SectionRecs
  <2>10. PICK b \in Buckets : b = x.keys[k]
    BY <2>7, <2>9, BucketType
  <2>11. b.rep >= 0
    BY <2>1, <2>5, <2>6, <2>8, <2>10 DEF Tracked, Buckets
  <2>12. Represented(x.errs, k, b, n)
    BY <2>8, <2>10, <2>11 DEF Tracked
  <2>13. IsFiniteSet(S) /\ b.rep \in S /\ Cardinality(S) = b.samples /\ b.samples \in Nat
    BY <2>5, <2>9, <2>12, EntsFinite DEF Represented, Buckets
  <2>14. Cardinality(S \ {b.rep}) = b.samples - 1
    BY <2>13, FS_RemoveElement
  <2>15. x.errs[b.rep].count = n - (b.samples - 1) /\ \A j \in S \ {b.rep} : x.errs[j].count = 1
    BY <2>5, <2>12 DEF Represented
  <2>16. x.errs[b.rep].count + Cardinality(S \ {b.rep}) = n
    BY <2>13, <2>14, <2>15
  <2> QED
    BY <2>2, <2>3, <2>6, <2>13, <2>15, <2>16
<1> QED
  BY <1>1, InvHolds, PTL

\* The caps never evict the only entry of a cause in favour of the entity flood:
\* mergeErrors admits in the order of priority, and record refuses no key but
\* the entity-scoped ones.
THEOREM CausesSurvive == Spec => []RareCauseSurvives
<1>1. Inv => RareCauseSurvives
  <2>1. SUFFICES ASSUME Inv, out.merged, NEW d \in out.entries, PrioOf(d) = PrioEntity,
                        NEW s \in Secs, NEW k \in Keys, k.kind # "other", happened[s][k] > 0
                 PROVE  \E e \in out.entries : e[1] = s /\ sec[s].errs[e[2]].key = k
    BY DEF RareCauseSurvives
  <2>2. Types /\ out.entries = Admitted /\ d \in Admitted
    BY <2>1 DEF Inv, Merged
  <2>3. PICK x \in SectionRecs : x = sec[s]
    BY <2>2 DEF Types
  <2>4. Kept(x, happened[s], entities[s])
    BY <2>1, <2>3 DEF Inv, EveryKept
  <2>5. k \in DOMAIN x.keys /\ Tracked(x, k, happened[s][k])
    BY <2>1, <2>4 DEF Kept, Untracked
  <2>6. PICK b \in Buckets : b = x.keys[k]
    BY <2>5, BucketType DEF SectionRecs
  <2>7. b.rep >= 0
    BY <2>1, <2>5, <2>6 DEF Tracked, Buckets
  <2>8. PICK i : i \in Ents(x.errs, k) /\ x.errs[i].prio < PrioEntity
    BY <2>1, <2>5, <2>6, <2>7 DEF Tracked, Represented
  <2>9. i \in 1..Len(x.errs) /\ Len(x.errs) \in Nat /\ x.errs[i].key = k
    <3>1. x.errs \in Seq(ErrRecs)
      BY DEF SectionRecs
    <3> QED
      BY <2>8, <3>1, EntsFinite DEF Ents
  <2>10. PICK e : e = <<s, i>>
    OBVIOUS
  <2>11. e \in Entries
    <3>1. Len(x.errs) <= MaxRecords
      BY <2>1, <2>3, <2>9, ConstantsAssumption DEF Inv, Counted
    <3>2. i \in 1..MaxRecords /\ i <= Len(x.errs)
      BY <2>9, <3>1, ConstantsAssumption
    <3> QED
      BY <2>3, <2>10, <3>2 DEF Entries
  <2>12. PrioOf(e) < PrioOf(d)
    BY <2>1, <2>3, <2>8, <2>10 DEF PrioOf
  <2>13. d \in Entries /\ Cardinality(Ahead(d)) < Budget
    BY <2>2 DEF Admitted, Ahead
  <2>14. Before(e, d)
    BY <2>12 DEF Before
  <2>15. Cardinality(Ahead(e)) < Cardinality(Ahead(d)) /\ Cardinality(Ahead(e)) \in Nat
    BY <2>2, <2>11, <2>13, <2>14, AheadGrows
  <2>16. Cardinality(Ahead(d)) \in Nat /\ Budget \in Nat
    <3>1. Ahead(d) \in SUBSET Entries
      BY DEF Ahead
    <3> QED
      BY <3>1, EntriesFinite, FS_Subset, FS_CardinalityType, BudgetType
  <2>17. Cardinality(Ahead(e)) < Budget
    BY <2>13, <2>15, <2>16
  <2>18. e \in Admitted
    BY <2>11, <2>17 DEF Admitted, Ahead
  <2> QED
    BY <2>2, <2>3, <2>9, <2>10, <2>18
<1> QED
  BY <1>1, InvHolds, PTL

\* The entry at an index belongs to a key in the map that has an exemplar.
LEMMA EntryIsTracked ==
  ASSUME NEW x \in SectionRecs, NEW h \in [Keys -> Nat], NEW ents, Kept(x, h, ents), NEW i \in DOMAIN x.errs
  PROVE  \E k \in Keys, b \in Buckets : i \in Ents(x.errs, k) /\ h[k] > 0 /\ Represented(x.errs, k, b, h[k])
<1>1. x.errs \in Seq(ErrRecs) /\ x.keys \in KeyMaps
  BY DEF SectionRecs
<1>2. x.errs[i] \in ErrRecs
  BY <1>1, LenProperties, ElementOfSeq
<1>3. PICK k \in Keys : k = x.errs[i].key
  BY <1>2 DEF ErrRecs
<1>4. i \in Ents(x.errs, k)
  BY <1>3 DEF Ents
<1>5. k \in DOMAIN x.keys /\ Tracked(x, k, h[k])
  BY <1>4 DEF Kept, Untracked
<1>6. PICK b \in Buckets : b = x.keys[k]
  BY <1>1, <1>5, BucketType
<1>7. b.rep >= 0
  BY <1>4, <1>5, <1>6 DEF Tracked, Buckets
<1>8. h[k] > 0 /\ Represented(x.errs, k, b, h[k])
  BY <1>5, <1>6, <1>7 DEF Tracked
<1> QED
  BY <1>4, <1>8

LEMMA SectionSize ==
  ASSUME Types, Counted, NEW s \in Secs
  PROVE  LET P == {e \in Entries : e[1] = s}
         IN  IsFiniteSet(P) /\ Cardinality(P) = Len(sec[s].errs)
<1> DEFINE P == {e \in Entries : e[1] = s}
           f == [i \in 1..Len(sec[s].errs) |-> <<s, i>>]
<1>1. sec[s].errs \in Seq(ErrRecs)
  BY DEF Types, SectionRecs
<1>2. PICK n \in Nat : n = Len(sec[s].errs)
  BY <1>1, LenProperties
<1>3. n <= MaxRecords
  BY <1>2, ConstantsAssumption DEF Counted
<1>4. P \in SUBSET Entries
  OBVIOUS
<1>5. IsFiniteSet(P)
  BY <1>4, EntriesFinite, FS_Subset
<1>6. \A i \in 1..n : <<s, i>> \in P
  BY <1>2, <1>3, ConstantsAssumption DEF Entries
<1>7. \A e \in P : e[2] \in 1..n /\ e = <<s, e[2]>>
  BY <1>2, <1>3, ConstantsAssumption DEF Entries
<1>8. f \in [1..n -> P]
  BY <1>2, <1>6
<1>9. \A i, j \in 1..n : f[i] = f[j] => i = j
  BY <1>2
<1>10. \A e \in P : \E i \in 1..n : f[i] = e
  BY <1>2, <1>7
<1> HIDE DEF f, P
<1>11. f \in Bijection(1..n, P)
  BY <1>8, <1>9, <1>10 DEF Bijection, Injection, Surjection, IsInjective
<1>12. Cardinality(P) = n
  BY <1>11, FS_CountingElements DEF ExistsBijection
<1> QED
  BY <1>2, <1>5, <1>12 DEF P

\* The receiver's reconciliation of a batch: error_count is the number of entries
\* that came although the global cap (mergeErrors) takes entries away after the
\* sections counted them, the cap holds, an ok section had no failure at all, and
\* a batch without a truncation block has an entry for each failure (finalize).
THEOREM BatchesReconcile == Spec => []IngestReconciles
<1>1. Inv => IngestReconciles
  <2>1. SUFFICES ASSUME Inv, out.merged
                 PROVE  /\ \A code \in DOMAIN Objections : ~Objections[code]
                        /\ \A s \in Secs : sec[s].status = "ok" => \A k \in Keys : happened[s][k] = 0
                        /\ NoTruncation => Cardinality(out.entries) = records
    BY DEF IngestReconciles
  <2>2. /\ Types /\ Counted /\ out.entries = Admitted
        /\ \A s \in Secs : sec[s].globalDropped = Rejected(s, Admitted)
        /\ NoTruncation => Admitted = Entries /\ Cardinality(Entries) = records
    BY <2>1 DEF Inv, Merged
  <2>3. NoTruncation => Cardinality(out.entries) = records
    BY <2>2
  <2>4. \A s \in Secs : sec[s] \in SectionRecs /\ happened[s] \in [Keys -> Nat]
                        /\ Kept(sec[s], happened[s], entities[s])
    BY <2>1 DEF Inv, Types, EveryKept
  <2>5. \A s \in Secs : sec[s].status = "ok" => \A k \in Keys : happened[s][k] = 0
    BY <2>4 DEF Kept
  <2>6. ASSUME NEW s \in Secs
        PROVE  ErrorCount(s) = Cardinality({e \in out.entries : e[1] = s})
    <3> DEFINE P == {e \in Entries : e[1] = s}
               A == {e \in Admitted : e[1] = s}
               R == {e \in Entries \ Admitted : e[1] = s}
    <3>1. IsFiniteSet(P) /\ Cardinality(P) = Len(sec[s].errs)
      BY <2>2, SectionSize
    <3>2. A \in SUBSET P /\ R = P \ A /\ P \cap A = A
      BY DEF Admitted
    <3>3. IsFiniteSet(A)
      BY <3>1, <3>2, FS_Subset
    <3>4. Cardinality(R) = sec[s].globalDropped
      BY <2>2 DEF Rejected
    <3> HIDE DEF P, A, R
    <3>5. Cardinality(P \ A) = Cardinality(P) - Cardinality(P \cap A)
      BY <3>1, FS_Difference
    <3>6. Cardinality(P) \in Nat /\ Cardinality(A) \in Nat
      BY <3>1, <3>3, FS_CardinalityType
    <3>7. Cardinality(A) = Cardinality(P) - Cardinality(R)
      BY <3>2, <3>5, <3>6
    <3>8. ErrorCount(s) = Cardinality(A)
      BY <3>1, <3>4, <3>7 DEF ErrorCount
    <3> QED
      BY <2>2, <3>8 DEF A
  <2>7. ASSUME NEW s \in Secs, sec[s].status = "ok", ErrorCount(s) > 0
        PROVE  FALSE
    <3>1. PICK x \in SectionRecs : x = sec[s]
      BY <2>4
    <3>2. x.errs \in Seq(ErrRecs) /\ x.globalDropped \in Nat
      BY DEF SectionRecs
    <3>3. Len(x.errs) \in Nat /\ DOMAIN x.errs = 1..Len(x.errs)
      BY <3>2, LenProperties
    <3>4. Len(x.errs) > 0
      BY <2>7, <3>1, <3>2, <3>3 DEF ErrorCount
    <3>5. 1 \in DOMAIN x.errs
      BY <3>3, <3>4
    <3>6. PICK k \in Keys : happened[s][k] > 0
      BY <2>4, <3>1, <3>5, EntryIsTracked
    <3>7. happened[s][k] = 0
      BY <2>5, <2>7
    <3> QED
      BY <3>6, <3>7
  <2>8. ASSUME NEW e \in out.entries
        PROVE  ~(sec[e[1]].errs[e[2]].count < 0)
    <3>1. e \in Entries
      BY <2>2, <2>8 DEF Admitted
    <3>2. e[1] \in Secs /\ e[2] \in DOMAIN sec[e[1]].errs
      BY <2>2, <3>1, PrioType
    <3>3. PICK x \in SectionRecs : x = sec[e[1]]
      BY <2>4, <3>2
    <3>4. PICK h \in [Keys -> Nat] : h = happened[e[1]]
      BY <2>4, <3>2
    <3>5. PICK i : i = e[2]
      OBVIOUS
    <3>6. Kept(x, h, entities[e[1]]) /\ i \in DOMAIN x.errs
      BY <2>4, <3>2, <3>3, <3>4, <3>5
    <3>7. PICK k \in Keys, b \in Buckets :
            i \in Ents(x.errs, k) /\ h[k] > 0 /\ Represented(x.errs, k, b, h[k])
      BY <3>6, EntryIsTracked
    <3>8. h[k] \in Nat /\ b.samples \in 1..h[k] /\ x.errs[b.rep].count = h[k] - (b.samples - 1)
          /\ (i # b.rep => x.errs[i].count = 1)
      BY <3>7 DEF Represented
    <3>9. h[k] - (b.samples - 1) >= 1
      BY <3>8
    <3>10. x.errs[i].count \in Int /\ x.errs[i].count >= 1
      BY <3>8, <3>9
    <3> QED
      BY <3>3, <3>5, <3>10
  <2>9. ~(MaxErrors > 0 /\ Cardinality(out.entries) > MaxErrors)
    <3>1. IsFiniteSet(Admitted) /\ Cardinality(Admitted) <= Budget
      BY <2>2, AdmittedBounded
    <3>2. Cardinality(Admitted) \in Nat /\ Budget \in Nat /\ (MaxErrors > 0 => Budget <= MaxErrors)
      BY <3>1, FS_CardinalityType, BudgetType
    <3> QED
      BY <2>2, <3>1, <3>2, ConstantsAssumption
  <2>10. \A code \in DOMAIN Objections : ~Objections[code]
    <3>1. ~Objections.error_count
      BY <2>6 DEF Objections
    <3>2. ~Objections.ok_with_errors
      BY <2>7 DEF Objections
    <3>3. ~Objections.negative_count
      BY <2>8 DEF Objections
    <3>4. ~Objections.unbounded
      BY <2>9 DEF Objections
    <3>5. DOMAIN Objections = {"error_count", "ok_with_errors", "negative_count", "unbounded"}
      BY DEF Objections
    <3> QED
      BY <3>1, <3>2, <3>3, <3>4, <3>5
  <2> QED
    BY <2>3, <2>5, <2>10
<1> QED
  BY <1>1, InvHolds, PTL
=============================================================================
