------------------------- MODULE EpochProbesProofs --------------------------
(***************************************************************************)
(* Proofs about the leader-epoch probes, for any number of partitions,     *)
(* groups, epochs and any caps.                                            *)
(*                                                                         *)
(* The loops of EpochProbes are recursive functions of the number of turns *)
(* taken; LoopExists gives each of them its defining equation, and         *)
(* LoopInvariant is induction over the turns.                              *)
(***************************************************************************)
EXTENDS EpochProbes, TLAPS, WellFoundedInduction, FiniteSetTheorems

-----------------------------------------------------------------------------
(* Induction over the turns of a loop *)

\* A set of naturals that is not empty has a least member.
LEMMA Least ==
  ASSUME NEW T \in SUBSET Nat, T # {}
  PROVE  \E x \in T : \A y \in T : x <= y
<1>1. PICK R : R = OpToRel(<, Nat)
  OBVIOUS
<1>2. IsWellFoundedOn(R, Nat)
  BY <1>1, NatLessThanWellFounded
<1>3. \A x, y \in Nat : x < y => <<x, y>> \in R
  BY <1>1 DEF OpToRel
<1>4. PICK x \in T : \A y \in T : ~(<<y, x>> \in R)
  BY <1>2, WFMin
<1>5. \A y \in T : ~(y < x)
  BY <1>3, <1>4
<1>6. \A y \in T : x <= y
  BY <1>5
<1> QED
  BY <1>6

\* A set of naturals with an upper bound that is not empty has a greatest one.
LEMMA Greatest ==
  ASSUME NEW n \in Nat, NEW T \in SUBSET (0..n), T # {}
  PROVE  \E x \in T : \A y \in T : x >= y
<1> DEFINE D == {n - x : x \in T}
<1>1. D \in SUBSET Nat
  OBVIOUS
<1>2. D # {}
  <2>1. PICK x \in T : TRUE
    OBVIOUS
  <2>2. n - x \in D
    BY <2>1
  <2> QED
    BY <2>2
<1>3. PICK d \in D : \A y \in D : d <= y
  BY <1>1, <1>2, Least
<1>4. PICK x \in T : d = n - x
  OBVIOUS
<1>5. ASSUME NEW y \in T PROVE x >= y
  <2>1. n - y \in D
    OBVIOUS
  <2>2. d <= n - y
    BY <1>3, <2>1
  <2> QED
    BY <1>4, <2>2
<1> QED
  BY <1>5

\* Induction over the turns of a loop: what holds before the first turn and is
\* kept by each holds after the last.
LEMMA LoopInvariant ==
  ASSUME NEW n \in Nat, NEW S \in SUBSET Nat, 0 \in S,
         \A i \in 1..n : i - 1 \in S => i \in S
  PROVE  \A i \in 0..n : i \in S
<1> SUFFICES ASSUME ~ \A i \in 0..n : i \in S PROVE FALSE
  OBVIOUS
<1>1. PICK x \in (0..n) \ S : \A y \in (0..n) \ S : x <= y
  <2>1. (0..n) \ S \in SUBSET Nat /\ (0..n) \ S # {}
    OBVIOUS
  <2> QED
    BY <2>1, Least
<1>2. x \in 1..n /\ x - 1 \in 0..n
  BY <1>1
<1>3. x - 1 \in S
  BY <1>1, <1>2
<1> QED
  BY <1>1, <1>2, <1>3

\* h is the run of a loop over n turns with accumulators in X that starts at x
\* and whose turn i maps an accumulator a to F[<<a, i>>].
Run(h, X, x, n, F) ==
  h \in [0..n -> X] /\ h[0] = x /\ \A i \in 1..n : h[i] = F[<<h[i - 1], i>>]

\* Such a loop has a run.
LEMMA LoopExists ==
  ASSUME NEW X, NEW x \in X, NEW n \in Nat, NEW F \in [X \X (1..n) -> X]
  PROVE  \E h : Run(h, X, x, n, F)
<1> DEFINE Runs(k) == {h \in [0..k -> X] : h[0] = x /\ \A i \in 1..k : h[i] = F[<<h[i - 1], i>>]}
           S == {k \in Nat : k <= n => Runs(k) # {}}
<1>1. 0 \in S
  <2>1. [i \in 0..0 |-> x] \in Runs(0)
    OBVIOUS
  <2> QED
    BY <2>1
<1>2. ASSUME NEW k \in 1..n, k - 1 \in S PROVE k \in S
  <2>1. PICK h \in Runs(k - 1) : TRUE
    BY <1>2
  <2>2. h \in [0..(k - 1) -> X] /\ h[0] = x /\ \A i \in 1..(k - 1) : h[i] = F[<<h[i - 1], i>>]
    BY <2>1
  <2>3. k - 1 \in 0..(k - 1) /\ h[k - 1] \in X
    BY <2>2
  <2>4. PICK v \in X : v = F[<<h[k - 1], k>>]
    BY <2>3
  <2> DEFINE g == [i \in 0..k |-> IF i = k THEN v ELSE h[i]]
  <2>5. g \in [0..k -> X] /\ g[k] = v /\ \A i \in 0..(k - 1) : g[i] = h[i]
    BY <2>2
  <2> HIDE DEF g
  <2>6. g[0] = x
    BY <2>5, <2>2
  <2>7. ASSUME NEW i \in 1..k PROVE g[i] = F[<<g[i - 1], i>>]
    <3>1. g[i - 1] = h[i - 1]
      BY <2>5
    <3>2. CASE i = k
      BY <3>1, <3>2, <2>4, <2>5
    <3>3. CASE i # k
      <4>1. i \in 1..(k - 1) /\ g[i] = h[i]
        BY <3>3, <2>5
      <4> QED
        BY <4>1, <3>1, <2>2
    <3> QED
      BY <3>2, <3>3
  <2>8. g \in Runs(k)
    BY <2>5, <2>6, <2>7
  <2> QED
    BY <2>8
<1>3. S \in SUBSET Nat
  OBVIOUS
<1> HIDE DEF S
<1>4. \A k \in 1..n : k - 1 \in S => k \in S
  BY <1>2
<1>5. \A i \in 0..n : i \in S
  BY <1>1, <1>3, <1>4, LoopInvariant
<1>6. n \in S
  BY <1>5
<1>7. Runs(n) # {}
  BY <1>6 DEF S
<1> QED
  BY <1>7 DEF Run

\* Every accumulator of a loop is in X if the first one is and a turn stays in X.
LEMMA LoopStays ==
  ASSUME NEW X, NEW n \in Nat, NEW h, h[0] \in X,
         \A i \in 1..n : h[i - 1] \in X => h[i] \in X
  PROVE  \A i \in 0..n : h[i] \in X
<1> DEFINE S == {i \in Nat : i \in 0..n => h[i] \in X}
<1>1. S \in SUBSET Nat /\ 0 \in S
  OBVIOUS
<1>2. \A i \in 1..n : i - 1 \in S => i \in S
  OBVIOUS
<1> HIDE DEF S
<1>3. \A i \in 0..n : i \in S
  BY <1>1, <1>2, LoopInvariant
<1> QED
  BY <1>3 DEF S

-----------------------------------------------------------------------------
(* The triggers of a cycle *)

\* A sample of the leaders, and of the committed epochs.
Samples == [Partitions -> [id : Nat, epoch : Nat]]
Commits == [Partitions \X Groups -> Nat \cup {None}]

\* What epochTriggers can find against a sample of the leaders.
Found(at) == {Trigger(p, g, c, at) : p \in Partitions, g \in Groups, c \in Nat}

\* The pairs are numbered by partition and then by group.
LEMMA PairsTyped == Pairs \in Seq(Partitions \X Groups)
<1> USE ConstantsAssumption
<1>1. PICK n : n = NumPartitions * NumGroups
  OBVIOUS
<1>2. n \in Nat
  BY <1>1
<1>3. ASSUME NEW i \in 1..n
      PROVE  /\ 1 + ((i - 1) \div NumGroups) \in Partitions
             /\ 1 + ((i - 1) % NumGroups) \in Groups
  <2>1. PICK q : q = (i - 1) \div NumGroups
    OBVIOUS
  <2>2. PICK r : r = (i - 1) % NumGroups
    OBVIOUS
  <2>3. q \in Int /\ r \in 0..(NumGroups - 1)
    BY <1>2, <2>1, <2>2
  <2>4. i - 1 = NumGroups * q + r
    BY <1>2, <2>1, <2>2
  <2>5. q >= 0
    BY <1>2, <2>1
  <2>6. q < NumPartitions
    <3> SUFFICES ASSUME q >= NumPartitions PROVE FALSE
      BY <2>3
    <3>1. PICK d \in Nat : q = NumPartitions + d
      <4>1. q - NumPartitions \in Nat /\ q = NumPartitions + (q - NumPartitions)
        BY <2>3
      <4> QED
        BY <4>1
    <3>2. NumGroups * q = n + NumGroups * d
      BY <3>1, <1>1
    <3>3. NumGroups * d \in Nat
      BY <3>1
    <3>4. PICK m : m = NumGroups * d
      OBVIOUS
    <3> QED
      BY <3>2, <3>3, <3>4, <2>3, <2>4, <1>2
  <2> QED
    BY <2>1, <2>2, <2>3, <2>5, <2>6 DEF Partitions, Groups
<1> QED
  BY <1>1, <1>2, <1>3 DEF Pairs

\* The mismatches of two samples carry the topic ID and the epoch of the first.
LEMMA MismatchesTyped ==
  ASSUME NEW at \in Samples, NEW committed \in Commits
  PROVE  Mismatches(at, committed) \in Seq(Found(at))
<1>1. PICK n : n = Len(Pairs)
  OBVIOUS
<1>2. n \in Nat /\ \A i \in 1..n : Pairs[i] \in Partitions \X Groups
  BY <1>1, PairsTyped
<1> DEFINE Skip(i) == committed[Pairs[i]] < 0 \/ committed[Pairs[i]] = at[Pairs[i][1]].epoch
           T(i) == Trigger(Pairs[i][1], Pairs[i][2], committed[Pairs[i]], at)
<1>3. ASSUME NEW i \in 1..n, ~Skip(i) PROVE T(i) \in Found(at)
  <2>1. committed[Pairs[i]] \in Nat
    BY <1>2, <1>3 DEF Commits, None
  <2> QED
    BY <1>2, <2>1 DEF Found
<1> HIDE DEF T, Skip
<1>4. PICK X : X = Seq(Found(at))
  OBVIOUS
<1>5. PICK F : F = [z \in X \X (1..n) |-> IF Skip(z[2]) THEN z[1] ELSE Append(z[1], T(z[2]))]
  OBVIOUS
<1>6. F \in [X \X (1..n) -> X] /\ <<>> \in X
  BY <1>3, <1>4, <1>5
<1>7. PICK h : Run(h, X, <<>>, n, F)
  BY <1>2, <1>6, LoopExists
<1>8. ASSUME NEW i \in 1..n
      PROVE  h[i] = IF Skip(i) THEN h[i - 1] ELSE Append(h[i - 1], T(i))
  <2>1. <<h[i - 1], i>> \in X \X (1..n)
    BY <1>2, <1>7 DEF Run
  <2>2. F[<<h[i - 1], i>>] = IF Skip(i) THEN h[i - 1] ELSE Append(h[i - 1], T(i))
    BY <1>5, <2>1
  <2> QED
    BY <2>2, <1>7 DEF Run
<1>9. h = [i \in 0..n |-> IF i = 0 THEN <<>> ELSE IF Skip(i) THEN h[i - 1] ELSE Append(h[i - 1], T(i))]
  <2>1. ASSUME NEW i \in 0..n
        PROVE  h[i] = IF i = 0 THEN <<>> ELSE IF Skip(i) THEN h[i - 1] ELSE Append(h[i - 1], T(i))
    <3>1. i # 0 => i \in 1..n
      BY <1>2
    <3> QED
      BY <3>1, <1>8, <1>7 DEF Run
  <2> QED
    BY <2>1, <1>7 DEF Run
<1>10. PICK f : /\ f = [i \in 0..n |-> IF i = 0 THEN <<>> ELSE IF Skip(i) THEN f[i - 1] ELSE Append(f[i - 1], T(i))]
                /\ Mismatches(at, committed) = f[n]
  <2>1. \E g : g = [i \in 0..n |-> IF i = 0 THEN <<>> ELSE IF Skip(i) THEN g[i - 1] ELSE Append(g[i - 1], T(i))]
    BY <1>9
  <2> QED
    BY <1>1, <2>1 DEF Mismatches, Skip, T
<1>11. f[0] \in X
  BY <1>10, <1>2, <1>6
<1>12. ASSUME NEW i \in 1..n, f[i - 1] \in X PROVE f[i] \in X
  <2>1. f[i] = IF Skip(i) THEN f[i - 1] ELSE Append(f[i - 1], T(i))
    <3>1. i \in 0..n /\ i # 0
      BY <1>2
    <3> QED
      BY <1>10, <3>1
  <2> QED
    BY <2>1, <1>3, <1>4, <1>12
<1>13. \A i \in 0..n : f[i] \in X
  BY <1>2, <1>11, <1>12, LoopStays
<1> QED
  BY <1>2, <1>4, <1>10, <1>13

\* The cap keeps a prefix.
LEMMA TriggersTyped ==
  ASSUME NEW at \in Samples, NEW committed \in Commits
  PROVE  EpochTriggers(at, committed) \in Seq(Found(at))
<1>1. PICK all : all = Mismatches(at, committed)
  OBVIOUS
<1>2. all \in Seq(Found(at)) /\ MaxProbes \in Nat
  BY <1>1, MismatchesTyped, ConstantsAssumption
<1>3. PICK n \in 0..Len(all) : EpochTriggers(at, committed) = SubSeq(all, 1, n)
  BY <1>1, <1>2 DEF EpochTriggers
<1> QED
  BY <1>2, <1>3

\* The filter keeps triggers and adds none.
LEMMA FreshTyped ==
  ASSUME NEW D, NEW ts \in Seq(D), NEW seenBefore
  PROVE  Fresh(ts, seenBefore) \in Seq(D)
<1>1. PICK n : n = Len(ts)
  OBVIOUS
<1>2. n \in Nat /\ \A i \in 1..n : ts[i] \in D
  BY <1>1
<1> DEFINE Skip(i) == ProbeKey(ts[i]) \in seenBefore
<1> HIDE DEF Skip
<1>3. PICK X : X = Seq(D)
  OBVIOUS
<1>4. PICK F : F = [z \in X \X (1..n) |-> IF Skip(z[2]) THEN z[1] ELSE Append(z[1], ts[z[2]])]
  OBVIOUS
<1>5. F \in [X \X (1..n) -> X] /\ <<>> \in X
  BY <1>2, <1>3, <1>4
<1>6. PICK h : Run(h, X, <<>>, n, F)
  BY <1>2, <1>5, LoopExists
<1>7. ASSUME NEW i \in 1..n
      PROVE  h[i] = IF Skip(i) THEN h[i - 1] ELSE Append(h[i - 1], ts[i])
  <2>1. <<h[i - 1], i>> \in X \X (1..n)
    BY <1>2, <1>6 DEF Run
  <2>2. F[<<h[i - 1], i>>] = IF Skip(i) THEN h[i - 1] ELSE Append(h[i - 1], ts[i])
    BY <1>4, <2>1
  <2> QED
    BY <2>2, <1>6 DEF Run
<1>8. h = [i \in 0..n |-> IF i = 0 THEN <<>> ELSE IF Skip(i) THEN h[i - 1] ELSE Append(h[i - 1], ts[i])]
  <2>1. ASSUME NEW i \in 0..n
        PROVE  h[i] = IF i = 0 THEN <<>> ELSE IF Skip(i) THEN h[i - 1] ELSE Append(h[i - 1], ts[i])
    <3>1. i # 0 => i \in 1..n
      BY <1>2
    <3> QED
      BY <3>1, <1>7, <1>6 DEF Run
  <2> QED
    BY <2>1, <1>6 DEF Run
<1>9. PICK f : /\ f = [i \in 0..n |-> IF i = 0 THEN <<>> ELSE IF Skip(i) THEN f[i - 1] ELSE Append(f[i - 1], ts[i])]
               /\ Fresh(ts, seenBefore) = f[n]
  <2>1. \E g : g = [i \in 0..n |-> IF i = 0 THEN <<>> ELSE IF Skip(i) THEN g[i - 1] ELSE Append(g[i - 1], ts[i])]
    BY <1>8
  <2> QED
    BY <1>1, <2>1 DEF Fresh, Skip
<1>10. f[0] \in X
  BY <1>9, <1>2, <1>5
<1>11. ASSUME NEW i \in 1..n, f[i - 1] \in X PROVE f[i] \in X
  <2>1. f[i] = IF Skip(i) THEN f[i - 1] ELSE Append(f[i - 1], ts[i])
    <3>1. i \in 0..n /\ i # 0
      BY <1>2
    <3> QED
      BY <1>9, <3>1
  <2> QED
    BY <2>1, <1>2, <1>3, <1>11
<1>12. \A i \in 0..n : f[i] \in X
  BY <1>2, <1>10, <1>11, LoopStays
<1> QED
  BY <1>2, <1>3, <1>9, <1>12

-----------------------------------------------------------------------------
(* Retirement *)

\* The questions of this cycle that were asked and that their answers settle.
Settled ==
  {ProbeKey(triggers[i]) : i \in {j \in DOMAIN triggers :
     Key(triggers[j]) \in DOMAIN asked /\ Settles(asked[Key(triggers[j])])}}

\* BuildProbes remembers nothing else, whatever it forgets.
LEMMA OnlySettled ==
  ASSUME NEW D, triggers \in Seq(D), BuildProbes
  PROVE  seen' \subseteq seen \cup Settled
<1>1. PICK n : n = Len(triggers)
  OBVIOUS
<1>2. n \in Nat /\ DOMAIN triggers = 1..n
  BY <1>1
<1> DEFINE Answered(i) == Key(triggers[i]) \in DOMAIN asked /\ Settles(asked[Key(triggers[i])])
           K(i) == ProbeKey(triggers[i])
<1>3. \A i \in 1..n : Answered(i) => K(i) \in Settled
  BY <1>2 DEF Settled
<1> HIDE DEF Answered, K
<1>4. PICK X : X = SUBSET (seen \cup Settled)
  OBVIOUS
<1>5. PICK F : F = [z \in X \X (1..n) |-> IF Answered(z[2]) THEN Remember(z[1], K(z[2])) ELSE z[1]]
  OBVIOUS
<1>6. \A a \in X, i \in 1..n : Answered(i) => Remember(a, K(i)) \in X
  BY <1>3, <1>4 DEF Remember
<1>7. F \in [X \X (1..n) -> X] /\ seen \in X
  BY <1>4, <1>5, <1>6
<1>8. PICK h : Run(h, X, seen, n, F)
  BY <1>2, <1>7, LoopExists
<1>9. ASSUME NEW i \in 1..n
      PROVE  h[i] = IF Answered(i) THEN Remember(h[i - 1], K(i)) ELSE h[i - 1]
  <2>1. <<h[i - 1], i>> \in X \X (1..n)
    BY <1>2, <1>8 DEF Run
  <2>2. F[<<h[i - 1], i>>] = IF Answered(i) THEN Remember(h[i - 1], K(i)) ELSE h[i - 1]
    BY <1>5, <2>1
  <2> QED
    BY <2>2, <1>8 DEF Run
<1>10. h = [i \in 0..n |-> IF i = 0 THEN seen ELSE IF Answered(i) THEN Remember(h[i - 1], K(i)) ELSE h[i - 1]]
  <2>1. ASSUME NEW i \in 0..n
        PROVE  h[i] = IF i = 0 THEN seen ELSE IF Answered(i) THEN Remember(h[i - 1], K(i)) ELSE h[i - 1]
    <3>1. i # 0 => i \in 1..n
      BY <1>2
    <3> QED
      BY <3>1, <1>9, <1>8 DEF Run
  <2> QED
    BY <2>1, <1>8 DEF Run
<1>11. PICK f : /\ f = [i \in 0..n |-> IF i = 0 THEN seen ELSE IF Answered(i) THEN Remember(f[i - 1], K(i)) ELSE f[i - 1]]
                /\ seen' = f[n]
  <2>1. \E g : g = [i \in 0..n |-> IF i = 0 THEN seen ELSE IF Answered(i) THEN Remember(g[i - 1], K(i)) ELSE g[i - 1]]
    BY <1>10
  <2> QED
    BY <1>1, <2>1 DEF BuildProbes, Answered, K
<1>12. f[0] \in X
  BY <1>11, <1>2, <1>7
<1>13. ASSUME NEW i \in 1..n, f[i - 1] \in X PROVE f[i] \in X
  <2>1. f[i] = IF Answered(i) THEN Remember(f[i - 1], K(i)) ELSE f[i - 1]
    <3>1. i \in 0..n /\ i # 0
      BY <1>2
    <3> QED
      BY <1>11, <3>1
  <2> QED
    BY <2>1, <1>6, <1>13
<1>14. \A i \in 0..n : f[i] \in X
  BY <1>2, <1>12, <1>13, LoopStays
<1> QED
  BY <1>2, <1>4, <1>11, <1>14

\* The inductive invariant: the samples are well typed, and the triggers a cycle
\* holds carry the topic IDs and epochs of the cycle's own sample.  The
\* triggers must be gone when a new sample replaces the old one.
OwnSample ==
  /\ leader \in Samples /\ topics \in Samples /\ commit \in Commits
  /\ triggers \in Seq(Found(topics))
  /\ step # "ask" => triggers = <<>>

LEMMA SampleInit == Init => OwnSample
<1> SUFFICES ASSUME Init PROVE OwnSample
  OBVIOUS
<1>1. leader \in Samples /\ commit \in Commits
  <2>1. PICK c \in Clusters : leader = c.leader /\ commit = c.commit
    BY DEF Init
  <2> QED
    BY <2>1, ClustersAssumption DEF Samples, Commits, Partitions, Groups, None
<1>2. topics \in Samples
  BY DEF Init, Samples, NoTopics
<1>3. triggers = <<>> /\ triggers \in Seq(Found(topics))
  BY DEF Init
<1> QED
  BY <1>1, <1>2, <1>3 DEF OwnSample

LEMMA SampleNext == OwnSample /\ [Next]_vars => OwnSample'
<1> SUFFICES ASSUME OwnSample, [Next]_vars PROVE OwnSample'
  OBVIOUS
<1> USE DEF OwnSample
<1>1. ASSUME NEW p \in Partitions, Elect(p) PROVE OwnSample'
  <2>1. leader' \in Samples
    <3>1. leader[p] \in [id : Nat, epoch : Nat] /\ leader[p].epoch + 1 \in Nat
      BY DEF Samples
    <3>2. [leader[p] EXCEPT !.epoch = @ + 1] \in [id : Nat, epoch : Nat]
      BY <3>1
    <3>3. leader' = [leader EXCEPT ![p] = [leader[p] EXCEPT !.epoch = @ + 1]]
      BY <1>1 DEF Elect, Samples
    <3> QED
      BY <3>2, <3>3 DEF Samples
  <2> QED
    BY <2>1, <1>1 DEF Elect
<1>2. ASSUME NEW p \in Partitions, Recreate(p) PROVE OwnSample'
  <2>1. leader' \in Samples
    BY <1>2 DEF Recreate, Samples
  <2> QED
    BY <2>1, <1>2 DEF Recreate
<1>3. ASSUME NEW p \in Partitions, NEW g \in Groups, Commit(p, g) PROVE OwnSample'
  <2>1. commit' \in Commits
    <3>1. PICK e \in 0..leader[p].epoch : commit' = [commit EXCEPT ![<<p, g>>] = e]
      BY <1>3 DEF Commit
    <3>2. e \in Nat
      BY <3>1 DEF Samples
    <3> QED
      BY <3>1, <3>2 DEF Commits
  <2> QED
    BY <2>1, <1>3 DEF Commit
<1>4. CASE CollectTopics
  BY <1>4 DEF CollectTopics, clusterVars
<1>5. CASE CollectTriggers
  <2>1. triggers' \in Seq(Found(topics))
    BY <1>5, TriggersTyped, FreshTyped DEF CollectTriggers
  <2>2. CASE triggers' = <<>>
    <3>1. topics' \in Samples
      BY <1>5, <2>2 DEF CollectTriggers, NoTopics, Samples
    <3> QED
      BY <1>5, <2>2, <3>1 DEF CollectTriggers, clusterVars
  <2>3. CASE triggers' # <<>>
    BY <1>5, <2>1, <2>3 DEF CollectTriggers, clusterVars
  <2> QED
    BY <2>2, <2>3
<1>6. CASE AskRound
  BY <1>6 DEF AskRound, clusterVars
<1>7. CASE BuildProbes
  BY <1>7 DEF BuildProbes, clusterVars, NoTopics, Samples
<1>8. CASE UNCHANGED vars
  BY <1>8 DEF vars, clusterVars
<1> QED
  BY <1>1, <1>2, <1>3, <1>4, <1>5, <1>6, <1>7, <1>8 DEF Next, Cycle

\* In every reachable state the triggers are of the cycle's own sample.
THEOREM TriggersOfOwnSample == Spec => []OwnSample
  BY SampleInit, SampleNext, PTL DEF Spec

\* A step adds a question to the memory only if it was asked in this cycle, a
\* leader answered it, and it is about the topic ID and the epoch the cycle saw.
LEMMA StepRetires ==
  ASSUME OwnSample, Next, NEW k \in seen' \ seen
  PROVE  /\ <<k.part, k.committed>> \in DOMAIN asked
         /\ asked[<<k.part, k.committed>>] = "answer"
         /\ [id |-> k.id, epoch |-> k.current] = topics[k.part]
<1>1. BuildProbes
  BY DEF Next, Cycle, Elect, Recreate, Commit, CollectTopics, CollectTriggers, AskRound
<1>2. triggers \in Seq(Found(topics)) /\ topics \in Samples
  BY DEF OwnSample
<1>3. k \in Settled
  BY <1>1, <1>2, OnlySettled
<1>4. PICK i \in DOMAIN triggers : /\ k = ProbeKey(triggers[i])
                                   /\ Key(triggers[i]) \in DOMAIN asked
                                   /\ Settles(asked[Key(triggers[i])])
  BY <1>3 DEF Settled
<1>5. PICK p \in Partitions, g \in Groups, c \in Nat : triggers[i] = Trigger(p, g, c, topics)
  BY <1>2, <1>4 DEF Found
<1>6. k.part = p /\ k.committed = c /\ k.id = topics[p].id /\ k.current = topics[p].epoch
  BY <1>4, <1>5 DEF ProbeKey, Trigger
<1>7. Key(triggers[i]) = <<p, c>>
  BY <1>5 DEF Key, Trigger
<1>8. [id |-> topics[p].id, epoch |-> topics[p].epoch] = topics[p]
  BY <1>2 DEF Samples
<1> QED
  BY <1>4, <1>6, <1>7, <1>8 DEF Settles

\* A question is retired only by a leader's answer, for every cluster, cap and
\* memory: a failed request, a partition the response left out, an error code
\* and a question the round cap refused all leave it open (settles, remember).
THEOREM RetiredByAnswerOnly == Spec => RetiredOnlyByAnswer
<1>1. OwnSample /\ [Next]_vars =>
        [\A k \in seen' \ seen :
           /\ <<k.part, k.committed>> \in DOMAIN asked /\ asked[<<k.part, k.committed>>] = "answer"
           /\ [id |-> k.id, epoch |-> k.current] = topics[k.part]]_vars
  BY StepRetires
<1> QED
  BY <1>1, TriggersOfOwnSample, PTL DEF Spec, RetiredOnlyByAnswer

-----------------------------------------------------------------------------
(* The packing of the rounds *)

\* A request asks about at most one epoch of each partition.
Rounds == UNION {[D -> Nat] : D \in SUBSET Partitions}

\* Round f does not ask about another epoch of partition p than e.
Fits(f, p, e) == p \in DOMAIN f => f[p] = e

\* Adding a question to a round.
LEMMA RoundAdd ==
  ASSUME NEW f \in Rounds, NEW p \in Partitions, NEW e \in Nat
  PROVE  /\ Add(f, p, e) \in Rounds
         /\ DOMAIN Add(f, p, e) = DOMAIN f \cup {p}
         /\ Add(f, p, e)[p] = e
         /\ \A q \in DOMAIN f : q # p => Add(f, p, e)[q] = f[q]
<1>1. PICK D \in SUBSET Partitions : f \in [D -> Nat]
  BY DEF Rounds
<1>2. PICK g : g = Add(f, p, e)
  OBVIOUS
<1>3. g = [q \in D \cup {p} |-> IF q = p THEN e ELSE f[q]]
  BY <1>1, <1>2 DEF Add
<1>4. g \in [D \cup {p} -> Nat] /\ D \cup {p} \in SUBSET Partitions
  BY <1>1, <1>3
<1>5. g \in Rounds
  BY <1>4 DEF Rounds
<1>6. DOMAIN g = DOMAIN f \cup {p} /\ g[p] = e /\ \A q \in DOMAIN f : q # p => g[q] = f[q]
  BY <1>1, <1>3
<1> QED
  BY <1>2, <1>5, <1>6

\* The empty request is a round.
LEMMA RoundEmpty == <<>> \in Rounds /\ DOMAIN <<>> = {}
<1>1. <<>> \in [{} -> Nat] /\ {} \in SUBSET Partitions
  OBVIOUS
<1> QED
  BY <1>1 DEF Rounds

\* The three things Place can do with a question: it joins the first round it
\* fits, it opens a round, or it is refused.
Joins(r, s, m, p, e) ==
  /\ m \in 1..Len(r) /\ Fits(r[m], p, e)
  /\ \A i \in 1..(m - 1) : ~Fits(r[i], p, e)
  /\ s = [r EXCEPT ![m] = Add(r[m], p, e)]
Opens(r, s, p, e) ==
  /\ \A i \in 1..Len(r) : ~Fits(r[i], p, e)
  /\ Len(r) < MaxRounds /\ s = Append(r, Add(<<>>, p, e))
Refused(r, s, p, e) ==
  /\ \A i \in 1..Len(r) : ~Fits(r[i], p, e)
  /\ Len(r) >= MaxRounds /\ s = r

LEMMA PlaceCases ==
  ASSUME NEW r \in Seq(Rounds), NEW t
  PROVE  \/ \E m : Joins(r, Place(r, t), m, t.part, t.committed)
         \/ Opens(r, Place(r, t), t.part, t.committed)
         \/ Refused(r, Place(r, t), t.part, t.committed)
<1>1. PICK p, e : p = t.part /\ e = t.committed
  OBVIOUS
<1>2. PICK open : open = {i \in 1..Len(r) : Fits(r[i], p, e)}
  OBVIOUS
<1>3. Place(r, t) = IF open # {} THEN [r EXCEPT ![Min(open)] = Add(@, p, e)]
                    ELSE IF Len(r) < MaxRounds THEN Append(r, Add(<<>>, p, e)) ELSE r
  <2>1. DOMAIN r = 1..Len(r)
    OBVIOUS
  <2>2. open = {i \in DOMAIN r : t.part \in DOMAIN r[i] => r[i][t.part] = t.committed}
    BY <1>1, <1>2, <2>1 DEF Fits
  <2> HIDE DEF Add
  <2> QED
    BY <1>1, <2>2, Zenon DEF Place
<1>4. Len(r) \in Nat /\ MaxRounds \in Nat
  BY ConstantsAssumption
<1>5. CASE open # {}
  <2>1. PICK m : m = Min(open)
    OBVIOUS
  <2>2. open \in SUBSET Nat
    BY <1>2
  <2>3. \E x \in open : \A y \in open : x <= y
    BY <1>5, <2>2, Least
  <2>4. m \in open /\ \A y \in open : m <= y
    BY <2>1, <2>3 DEF Min
  <2>5. \A i \in 1..(m - 1) : ~Fits(r[i], p, e)
    <3> SUFFICES ASSUME NEW i \in 1..(m - 1), Fits(r[i], p, e) PROVE FALSE
      OBVIOUS
    <3>1. i \in 1..Len(r) /\ i < m
      BY <1>2, <1>4, <2>4
    <3>2. i \in open
      BY <1>2, <3>1
    <3> QED
      BY <2>4, <3>1, <3>2
  <2>6. Place(r, t) = [r EXCEPT ![m] = Add(r[m], p, e)]
    BY <1>3, <1>5, <2>1
  <2>7. Joins(r, Place(r, t), m, p, e)
    BY <1>2, <2>4, <2>5, <2>6 DEF Joins
  <2> QED
    BY <1>1, <2>7
<1>6. CASE open = {}
  <2>1. \A i \in 1..Len(r) : ~Fits(r[i], p, e)
    BY <1>2, <1>6
  <2>2. CASE Len(r) < MaxRounds
    <3>1. Opens(r, Place(r, t), p, e)
      BY <1>3, <1>6, <2>1, <2>2 DEF Opens
    <3> QED
      BY <1>1, <3>1
  <2>3. CASE Len(r) >= MaxRounds
    <3>1. Refused(r, Place(r, t), p, e)
      BY <1>3, <1>4, <1>6, <2>1, <2>3 DEF Refused
    <3> QED
      BY <1>1, <3>1
  <2> QED
    BY <1>4, <2>2, <2>3
<1> QED
  BY <1>5, <1>6

\* The rounds a set of questions is packed into: typed and no more than allowed,
Fit(r) == r \in Seq(Rounds) /\ Len(r) <= MaxRounds
\* none empty,
Used(r) == \A i \in 1..Len(r) : DOMAIN r[i] # {}
\* a partition in a round is in every earlier one,
Nested(r) == \A j \in 1..Len(r) : \A i \in 1..j : DOMAIN r[j] \subseteq DOMAIN r[i]
\* nothing is asked that is not in Q,
Own(r, Q) == \A i \in 1..Len(r) : \A p \in DOMAIN r[i] : <<p, r[i][p]>> \in Q
\* nothing is asked twice,
Once(r) == \A i, j \in 1..Len(r) : i # j => \A p \in DOMAIN r[i] \cap DOMAIN r[j] : r[i][p] # r[j][p]
\* and a question of Q is asked unless its partition is in every round there may be.
Asked(r, p, e) == \E i \in 1..Len(r) : p \in DOMAIN r[i] /\ r[i][p] = e
Full(r, p) == Len(r) = MaxRounds /\ \A i \in 1..Len(r) : p \in DOMAIN r[i]
Complete(r, Q) == \A p \in Partitions, e \in Nat : <<p, e>> \in Q => Asked(r, p, e) \/ Full(r, p)

\* First fit keeps all of it.  No part is inductive alone: a question opens a
\* round only if its partition is in every earlier one, by Nested it then is the
\* next in line, and Complete needs both.
Packed(r, Q) == Fit(r) /\ Used(r) /\ Nested(r) /\ Own(r, Q) /\ Once(r) /\ Complete(r, Q)

LEMMA JoinsKeeps ==
  ASSUME NEW r, NEW Q, Packed(r, Q), NEW p \in Partitions, NEW e \in Nat, NEW s, NEW m, Joins(r, s, m, p, e)
  PROVE  Packed(s, Q \cup {<<p, e>>})
<1>1. r \in Seq(Rounds) /\ Len(r) \in Nat /\ Len(r) <= MaxRounds
  BY DEF Packed, Fit
<1>2. m \in 1..Len(r) /\ r[m] \in Rounds
  BY <1>1 DEF Joins
<1>3. PICK f : f = Add(r[m], p, e)
  OBVIOUS
<1>4. f \in Rounds /\ DOMAIN f = DOMAIN r[m] \cup {p} /\ f[p] = e /\ \A q \in DOMAIN r[m] : q # p => f[q] = r[m][q]
  BY <1>2, <1>3, RoundAdd
<1>5. s = [r EXCEPT ![m] = f]
  BY <1>3 DEF Joins
<1>6. s \in Seq(Rounds) /\ Len(s) = Len(r) /\ s[m] = f /\ \A i \in 1..Len(r) : i # m => s[i] = r[i]
  BY <1>1, <1>2, <1>4, <1>5
<1>7. \A i \in 1..(m - 1) : p \in DOMAIN r[i] /\ r[i][p] # e
  BY DEF Joins, Fits
<1>8. p \in DOMAIN r[m] => r[m][p] = e
  BY DEF Joins, Fits
<1>9. \A i \in 1..Len(r) : DOMAIN r[i] \subseteq DOMAIN s[i] /\ \A q \in DOMAIN r[i] : s[i][q] = r[i][q]
  BY <1>4, <1>6, <1>8
<1>10. \A i \in 1..Len(r) : DOMAIN s[i] \subseteq DOMAIN r[i] \cup {p}
  BY <1>4, <1>6
<1>11. \A i \in 1..Len(r) : p \in DOMAIN s[i] => i = m \/ p \in DOMAIN r[i]
  BY <1>6
<1>12. Fit(s)
  BY <1>1, <1>6 DEF Fit
<1>13. Used(s)
  BY <1>6, <1>9 DEF Packed, Used
<1>14. Nested(s)
  <2> SUFFICES ASSUME NEW j \in 1..Len(r), NEW i \in 1..j, NEW q \in DOMAIN s[j] PROVE q \in DOMAIN s[i]
    BY <1>6 DEF Nested
  <2>1. i \in 1..Len(r)
    BY <1>1
  <2>2. CASE q \in DOMAIN r[j]
    BY <1>9, <2>1, <2>2 DEF Packed, Nested
  <2>3. CASE q \notin DOMAIN r[j]
    <3>1. q = p /\ j = m
      BY <1>6, <1>10, <2>3
    <3>2. CASE i = m
      BY <3>1, <3>2, <1>4, <1>6
    <3>3. CASE i # m
      <4>1. i \in 1..(m - 1)
        BY <1>2, <3>1, <3>3
      <4> QED
        BY <4>1, <3>1, <1>7, <1>9, <2>1
    <3> QED
      BY <3>2, <3>3
  <2> QED
    BY <2>2, <2>3
<1>15. Own(s, Q \cup {<<p, e>>})
  <2> SUFFICES ASSUME NEW i \in 1..Len(r), NEW q \in DOMAIN s[i] PROVE <<q, s[i][q]>> \in Q \cup {<<p, e>>}
    BY <1>6 DEF Own
  <2>1. CASE q \in DOMAIN r[i]
    BY <2>1, <1>9 DEF Packed, Own
  <2>2. CASE q \notin DOMAIN r[i]
    BY <2>2, <1>4, <1>6, <1>10
  <2> QED
    BY <2>1, <2>2
<1>16. Once(s)
  <2>1. ASSUME NEW i \in 1..Len(r), NEW j \in 1..Len(r), i # j, NEW q \in DOMAIN s[i] \cap DOMAIN s[j],
               q \in DOMAIN r[i], q \in DOMAIN r[j]
        PROVE  s[i][q] # s[j][q]
    BY <2>1, <1>9 DEF Packed, Once
  <2>2. ASSUME NEW j \in 1..Len(r), j # m, p \in DOMAIN s[j], p \notin DOMAIN r[m]
        PROVE  s[m][p] # s[j][p]
    <3>1. p \in DOMAIN r[j] /\ s[j][p] = r[j][p]
      BY <1>6, <2>2
    <3>2. j < m
      <4> SUFFICES ASSUME j > m PROVE FALSE
        BY <1>1, <1>2, <2>2
      <4>1. m \in 1..j
        BY <1>1, <1>2
      <4> QED
        BY <4>1, <3>1, <2>2 DEF Packed, Nested
    <3>3. r[j][p] # e
      BY <1>1, <1>2, <1>7, <3>2
    <3> QED
      BY <3>1, <3>3, <1>4, <1>6
  <2>3. ASSUME NEW i \in 1..Len(r), NEW j \in 1..Len(r), i # j, NEW q \in DOMAIN s[i] \cap DOMAIN s[j]
        PROVE  s[i][q] # s[j][q]
    <3>1. CASE q \in DOMAIN r[i] /\ q \in DOMAIN r[j]
      BY <2>1, <2>3, <3>1
    <3>2. CASE q \notin DOMAIN r[i]
      BY <2>2, <2>3, <3>2, <1>6, <1>10, <1>11
    <3>3. CASE q \notin DOMAIN r[j]
      BY <2>2, <2>3, <3>3, <1>6, <1>10, <1>11
    <3> QED
      BY <3>1, <3>2, <3>3
  <2> QED
    BY <1>6, <2>3 DEF Once
<1>17. Complete(s, Q \cup {<<p, e>>})
  <2> SUFFICES ASSUME NEW q \in Partitions, NEW d \in Nat, <<q, d>> \in Q \cup {<<p, e>>}
               PROVE  Asked(s, q, d) \/ Full(s, q)
    BY DEF Complete
  <2>1. CASE <<q, d>> = <<p, e>>
    <3>1. Asked(s, p, e)
      BY <1>2, <1>4, <1>6 DEF Asked
    <3> QED
      BY <2>1, <3>1
  <2>2. CASE <<q, d>> \in Q
    <3>1. Asked(r, q, d) => Asked(s, q, d)
      BY <1>6, <1>9 DEF Asked
    <3>2. Full(r, q) => Full(s, q)
      BY <1>6, <1>9 DEF Full
    <3> QED
      BY <2>2, <3>1, <3>2 DEF Packed, Complete
  <2> QED
    BY <2>1, <2>2
<1> QED
  BY <1>12, <1>13, <1>14, <1>15, <1>16, <1>17 DEF Packed

LEMMA OpensKeeps ==
  ASSUME NEW r, NEW Q, Packed(r, Q), NEW p \in Partitions, NEW e \in Nat, NEW s, Opens(r, s, p, e)
  PROVE  Packed(s, Q \cup {<<p, e>>})
<1>1. r \in Seq(Rounds) /\ Len(r) \in Nat /\ Len(r) < MaxRounds /\ MaxRounds \in Nat
  BY ConstantsAssumption DEF Packed, Fit, Opens
<1>2. PICK f : f = Add(<<>>, p, e)
  OBVIOUS
<1>3. f \in Rounds /\ DOMAIN f = {p} /\ f[p] = e
  <2>1. PICK none : none = <<>>
    OBVIOUS
  <2>2. none \in Rounds /\ DOMAIN none = {}
    BY <2>1, RoundEmpty
  <2>3. f = Add(none, p, e)
    BY <1>2, <2>1
  <2>4. f \in Rounds /\ DOMAIN f = DOMAIN none \cup {p} /\ f[p] = e
    BY <2>2, <2>3, RoundAdd
  <2> QED
    BY <2>2, <2>4
<1>4. PICK n : n = Len(r)
  OBVIOUS
<1>5. s = Append(r, f)
  BY <1>2 DEF Opens
<1>6. n \in Nat /\ s \in Seq(Rounds) /\ Len(s) = n + 1 /\ s[n + 1] = f /\ \A i \in 1..n : s[i] = r[i]
  BY <1>1, <1>3, <1>4, <1>5
<1>7. \A i \in 1..n : p \in DOMAIN r[i] /\ r[i][p] # e
  BY <1>4 DEF Opens, Fits
<1>8. \A i \in 1..(n + 1) : i # n + 1 => i \in 1..n
  BY <1>6
<1>9. Fit(s)
  BY <1>1, <1>4, <1>6 DEF Fit
<1>10. Used(s)
  BY <1>3, <1>4, <1>6, <1>8 DEF Packed, Used
<1>11. Nested(s)
  <2> SUFFICES ASSUME NEW j \in 1..(n + 1), NEW i \in 1..j PROVE DOMAIN s[j] \subseteq DOMAIN s[i]
    BY <1>6 DEF Nested
  <2>1. CASE i = j
    BY <2>1
  <2>2. CASE i # j /\ j = n + 1
    <3>1. i \in 1..n
      BY <1>6, <2>2
    <3> QED
      BY <3>1, <2>2, <1>3, <1>6, <1>7
  <2>3. CASE j # n + 1
    <3>1. j \in 1..n /\ i \in 1..n
      BY <1>6, <2>3
    <3> QED
      BY <3>1, <1>4, <1>6 DEF Packed, Nested
  <2> QED
    BY <2>1, <2>2, <2>3
<1>12. Own(s, Q \cup {<<p, e>>})
  BY <1>3, <1>4, <1>6, <1>8 DEF Packed, Own
<1>13. Once(s)
  <2> SUFFICES ASSUME NEW i \in 1..(n + 1), NEW j \in 1..(n + 1), i # j, NEW q \in DOMAIN s[i] \cap DOMAIN s[j]
               PROVE  s[i][q] # s[j][q]
    BY <1>6 DEF Once
  <2>1. CASE i = n + 1
    BY <2>1, <1>3, <1>6, <1>7, <1>8
  <2>2. CASE j = n + 1
    BY <2>2, <1>3, <1>6, <1>7, <1>8
  <2>3. CASE i # n + 1 /\ j # n + 1
    BY <2>3, <1>4, <1>6, <1>8 DEF Packed, Once
  <2> QED
    BY <2>1, <2>2, <2>3
<1>14. Complete(s, Q \cup {<<p, e>>})
  <2> SUFFICES ASSUME NEW q \in Partitions, NEW d \in Nat, <<q, d>> \in Q \cup {<<p, e>>}
               PROVE  Asked(s, q, d)
    BY DEF Complete
  <2>1. CASE <<q, d>> = <<p, e>>
    <3>1. Asked(s, p, e)
      BY <1>3, <1>6 DEF Asked
    <3> QED
      BY <2>1, <3>1
  <2>2. CASE <<q, d>> \in Q
    <3>1. ~Full(r, q)
      BY <1>1 DEF Full
    <3>2. Asked(r, q, d)
      BY <2>2, <3>1 DEF Packed, Complete
    <3>3. PICK i \in 1..n : q \in DOMAIN r[i] /\ r[i][q] = d
      BY <3>2, <1>4 DEF Asked
    <3>4. i \in 1..(n + 1) /\ s[i] = r[i]
      BY <1>6
    <3> QED
      BY <3>3, <3>4, <1>6 DEF Asked
  <2> QED
    BY <2>1, <2>2
<1> QED
  BY <1>9, <1>10, <1>11, <1>12, <1>13, <1>14 DEF Packed

LEMMA RefusedKeeps ==
  ASSUME NEW r, NEW Q, Packed(r, Q), NEW p \in Partitions, NEW e \in Nat, NEW s, Refused(r, s, p, e)
  PROVE  Packed(s, Q \cup {<<p, e>>})
<1>1. r \in Seq(Rounds) /\ Len(r) \in Nat /\ MaxRounds \in Nat /\ Len(r) = MaxRounds /\ s = r
  BY ConstantsAssumption DEF Packed, Fit, Refused
<1>2. \A i \in 1..Len(r) : p \in DOMAIN r[i]
  BY DEF Refused, Fits
<1>3. Full(r, p)
  BY <1>1, <1>2 DEF Full
<1>4. Own(r, Q \cup {<<p, e>>})
  BY DEF Packed, Own
<1>5. Complete(r, Q \cup {<<p, e>>})
  BY <1>3 DEF Packed, Complete
<1> QED
  BY <1>1, <1>4, <1>5 DEF Packed

\* The questions of the first k triggers.
Questions(ts, k) == {Key(ts[i]) : i \in 1..k}

LEMMA PlaceKeeps ==
  ASSUME NEW at \in Samples, NEW ts \in Seq(Found(at)), NEW k \in 1..Len(ts), NEW r, Packed(r, Questions(ts, k - 1))
  PROVE  Packed(Place(r, ts[k]), Questions(ts, k))
<1>1. PICK p, e, s : p = ts[k].part /\ e = ts[k].committed /\ s = Place(r, ts[k])
  OBVIOUS
<1>2. p \in Partitions /\ e \in Nat /\ Key(ts[k]) = <<p, e>>
  BY <1>1 DEF Found, Trigger, Key
<1>3. PICK Q : Q = Questions(ts, k - 1)
  OBVIOUS
<1>4. Questions(ts, k) = Q \cup {<<p, e>>}
  <2>1. \A i : i \in 1..k <=> i \in 1..(k - 1) \/ i = k
    OBVIOUS
  <2> QED
    BY <1>2, <1>3, <2>1 DEF Questions
<1>5. Packed(r, Q) /\ r \in Seq(Rounds)
  BY <1>3 DEF Packed, Fit
<1>6. (\E m : Joins(r, s, m, p, e)) \/ Opens(r, s, p, e) \/ Refused(r, s, p, e)
  BY <1>1, <1>5, PlaceCases
<1>7. Packed(s, Q \cup {<<p, e>>})
  BY <1>2, <1>5, <1>6, JoinsKeeps, OpensKeeps, RefusedKeeps
<1> QED
  BY <1>1, <1>4, <1>7

\* The rounds of a cycle are packed.
LEMMA RoundsPacked ==
  ASSUME NEW at \in Samples, NEW ts \in Seq(Found(at))
  PROVE  Packed(EpochRounds(ts), Questions(ts, Len(ts)))
<1>1. PICK n : n = Len(ts)
  OBVIOUS
<1>2. n \in Nat /\ \A i \in 1..n : ts[i] \in Found(at)
  BY <1>1
<1>3. PICK X : X = Seq(Rounds)
  OBVIOUS
<1>4. PICK F : F = [z \in X \X (1..n) |-> Place(z[1], ts[z[2]])]
  OBVIOUS
<1>5. ASSUME NEW r \in X, NEW i \in 1..n PROVE Place(r, ts[i]) \in X
  <2>1. PICK p, e, s : p = ts[i].part /\ e = ts[i].committed /\ s = Place(r, ts[i])
    OBVIOUS
  <2>2. p \in Partitions /\ e \in Nat
    BY <1>2, <2>1 DEF Found, Trigger
  <2>3. (\E m : Joins(r, s, m, p, e)) \/ Opens(r, s, p, e) \/ Refused(r, s, p, e)
    BY <1>3, <2>1, PlaceCases
  <2>4. ASSUME NEW m, Joins(r, s, m, p, e) PROVE s \in X
    <3>1. r[m] \in Rounds
      BY <1>3, <2>4 DEF Joins
    <3>2. Add(r[m], p, e) \in Rounds
      BY <2>2, <3>1, RoundAdd
    <3> QED
      BY <1>3, <2>4, <3>2 DEF Joins
  <2>5. ASSUME Opens(r, s, p, e) PROVE s \in X
    <3>1. PICK none : none = <<>>
      OBVIOUS
    <3>2. none \in Rounds
      BY <3>1, RoundEmpty
    <3>3. Add(none, p, e) \in Rounds
      BY <2>2, <3>2, RoundAdd
    <3> QED
      BY <1>3, <2>5, <3>1, <3>3 DEF Opens
  <2>6. ASSUME Refused(r, s, p, e) PROVE s \in X
    BY <2>6 DEF Refused
  <2> QED
    BY <2>1, <2>3, <2>4, <2>5, <2>6
<1>6. F \in [X \X (1..n) -> X] /\ <<>> \in X
  BY <1>3, <1>4, <1>5
<1>7. PICK h : Run(h, X, <<>>, n, F)
  BY <1>2, <1>6, LoopExists
<1>8. ASSUME NEW i \in 1..n PROVE h[i] = Place(h[i - 1], ts[i])
  <2>1. <<h[i - 1], i>> \in X \X (1..n)
    BY <1>2, <1>7 DEF Run
  <2>2. F[<<h[i - 1], i>>] = Place(h[i - 1], ts[i])
    BY <1>4, <2>1
  <2> QED
    BY <2>2, <1>7 DEF Run
<1>9. h = [i \in 0..n |-> IF i = 0 THEN <<>> ELSE Place(h[i - 1], ts[i])]
  <2>1. ASSUME NEW i \in 0..n PROVE h[i] = IF i = 0 THEN <<>> ELSE Place(h[i - 1], ts[i])
    <3>1. i # 0 => i \in 1..n
      BY <1>2
    <3> QED
      BY <3>1, <1>8, <1>7 DEF Run
  <2> QED
    BY <2>1, <1>7 DEF Run
<1>10. PICK f : /\ f = [i \in 0..n |-> IF i = 0 THEN <<>> ELSE Place(f[i - 1], ts[i])]
                /\ EpochRounds(ts) = f[n]
  <2>1. \E g : g = [i \in 0..n |-> IF i = 0 THEN <<>> ELSE Place(g[i - 1], ts[i])]
    BY <1>9
  <2> QED
    BY <1>1, <2>1 DEF EpochRounds
<1>11. f[0] = <<>> /\ \A i \in 1..n : f[i] = Place(f[i - 1], ts[i])
  <2>1. f[0] = <<>>
    BY <1>2, <1>10
  <2>2. ASSUME NEW i \in 1..n PROVE f[i] = Place(f[i - 1], ts[i])
    <3>1. i \in 0..n /\ i # 0
      BY <1>2
    <3> QED
      BY <1>10, <3>1
  <2> QED
    BY <2>1, <2>2
<1> DEFINE S == {i \in Nat : i <= n => Packed(f[i], Questions(ts, i))}
<1>12. S \in SUBSET Nat
  OBVIOUS
<1>13. 0 \in S
  <2>1. Fit(<<>>) /\ Used(<<>>) /\ Nested(<<>>) /\ Own(<<>>, {}) /\ Once(<<>>) /\ Complete(<<>>, {})
    BY ConstantsAssumption DEF Fit, Used, Nested, Own, Once, Complete
  <2>2. Questions(ts, 0) = {}
    BY DEF Questions
  <2>3. Packed(f[0], Questions(ts, 0))
    BY <1>11, <2>1, <2>2 DEF Packed
  <2> QED
    BY <2>3
<1>14. ASSUME NEW i \in 1..n, i - 1 \in S PROVE i \in S
  <2>1. Packed(f[i - 1], Questions(ts, i - 1))
    <3>1. i - 1 <= n
      BY <1>2
    <3>2. i - 1 \in {k \in Nat : k <= n => Packed(f[k], Questions(ts, k))}
      BY <1>14
    <3> QED
      BY <3>1, <3>2
  <2>2. Packed(Place(f[i - 1], ts[i]), Questions(ts, i))
    BY <1>1, <2>1, PlaceKeeps
  <2> QED
    BY <1>11, <2>2
<1> HIDE DEF S
<1>15. \A i \in 0..n : i \in S
  BY <1>2, <1>12, <1>13, <1>14, LoopInvariant
<1>16. n \in S
  BY <1>2, <1>15
<1> QED
  BY <1>1, <1>2, <1>10, <1>16 DEF S

-----------------------------------------------------------------------------
(* How many rounds *)

\* n values are a finite set of at most n members,
LEMMA ImageCardinality ==
  ASSUME NEW n \in Nat, NEW f
  PROVE  IsFiniteSet({f[i] : i \in 1..n}) /\ Cardinality({f[i] : i \in 1..n}) <= n
<1>1. PICK T : T = {f[i] : i \in 1..n}
  OBVIOUS
<1>2. PICK g : g = [i \in 1..n |-> f[i]]
  OBVIOUS
<1>3. g \in Surjection(1..n, T)
  BY <1>1, <1>2 DEF Surjection
<1>4. IsFiniteSet(1..n) /\ Cardinality(1..n) = n
  BY FS_Interval
<1>5. IsFiniteSet(T) /\ Cardinality(T) <= n
  BY <1>3, <1>4, FS_Surjection
<1> QED
  BY <1>1, <1>5

\* and n different members make a finite set no smaller.
LEMMA DistinctCardinality ==
  ASSUME NEW n \in Nat, NEW f, NEW E, IsFiniteSet(E), \A i \in 1..n : f[i] \in E,
         \A i, j \in 1..n : i # j => f[i] # f[j]
  PROVE  n <= Cardinality(E)
<1>1. PICK g : g = [i \in 1..n |-> f[i]]
  OBVIOUS
<1>2. g \in Injection(1..n, E)
  <2>1. g \in [1..n -> E]
    BY <1>1
  <2>2. \A i, j \in 1..n : g[i] = g[j] => i = j
    BY <1>1
  <2> QED
    BY <2>1, <2>2 DEF Injection, IsInjective
<1>3. Cardinality(1..n) = n
  BY FS_Interval
<1> QED
  BY <1>2, <1>3, FS_Injection

\* The epochs of a partition that a set of questions is about.
About(Q, p) == {e \in Nat : <<p, e>> \in Q}

\* A partition in round j has at least j epochs to ask about.
LEMMA EpochsAtLeast ==
  ASSUME NEW r, NEW Q, Packed(r, Q), NEW j \in 1..Len(r), NEW p \in DOMAIN r[j], IsFiniteSet(About(Q, p))
  PROVE  j <= Cardinality(About(Q, p))
<1>1. r \in Seq(Rounds) /\ Len(r) \in Nat
  BY DEF Packed, Fit
<1>2. \A i \in 1..j : i \in 1..Len(r) /\ p \in DOMAIN r[i]
  BY <1>1 DEF Packed, Nested
<1>3. PICK f : f = [i \in 1..j |-> r[i][p]]
  OBVIOUS
<1>4. \A i \in 1..j : f[i] \in About(Q, p)
  <2> SUFFICES ASSUME NEW i \in 1..j PROVE r[i][p] \in About(Q, p)
    BY <1>3
  <2>1. r[i] \in Rounds /\ p \in DOMAIN r[i]
    BY <1>1, <1>2
  <2>2. r[i][p] \in Nat
    BY <2>1 DEF Rounds
  <2>3. <<p, r[i][p]>> \in Q
    BY <1>2 DEF Packed, Own
  <2> QED
    BY <2>2, <2>3 DEF About
<1>5. \A i, k \in 1..j : i # k => f[i] # f[k]
  BY <1>2, <1>3 DEF Packed, Once
<1>6. j \in Nat
  BY <1>1
<1> QED
  BY <1>4, <1>5, <1>6, DistinctCardinality

\* While rounds are left, no partition has more epochs than there are rounds.
LEMMA EpochsAtMost ==
  ASSUME NEW r, NEW Q, Packed(r, Q), NEW p \in Partitions, Len(r) # MaxRounds
  PROVE  Cardinality(About(Q, p)) <= Len(r)
<1>1. PICK n : n = Len(r)
  OBVIOUS
<1>2. n \in Nat
  BY <1>1 DEF Packed, Fit
<1>3. PICK f : f = [i \in 1..n |-> r[i][p]]
  OBVIOUS
<1>4. PICK T : T = {f[i] : i \in 1..n}
  OBVIOUS
<1>5. IsFiniteSet(T) /\ Cardinality(T) <= n
  BY <1>2, <1>4, ImageCardinality
<1>6. About(Q, p) \subseteq T
  <2> SUFFICES ASSUME NEW e \in About(Q, p) PROVE e \in T
    OBVIOUS
  <2>1. Asked(r, p, e)
    BY DEF About, Packed, Complete, Full
  <2>2. PICK i \in 1..n : r[i][p] = e
    BY <1>1, <2>1 DEF Asked
  <2>3. f[i] = e
    BY <1>3, <2>2
  <2> QED
    BY <1>4, <2>3
<1>7. PICK A : A = About(Q, p)
  OBVIOUS
<1>8. Cardinality(A) <= Cardinality(T) /\ IsFiniteSet(A)
  BY <1>5, <1>6, <1>7, FS_Subset
<1>9. Cardinality(A) \in Nat /\ Cardinality(T) \in Nat
  BY <1>5, <1>8, FS_CardinalityType
<1> QED
  BY <1>1, <1>2, <1>5, <1>7, <1>8, <1>9

\* A question that was left out is of a partition that fills every round and
\* has an epoch more.
LEMMA LeftOut ==
  ASSUME NEW r, NEW Q, Packed(r, Q), NEW p \in Partitions, NEW e \in Nat, <<p, e>> \in Q,
         ~Asked(r, p, e), IsFiniteSet(About(Q, p))
  PROVE  Full(r, p) /\ Cardinality(About(Q, p)) > MaxRounds
<1>1. Full(r, p)
  BY DEF Packed, Complete
<1>2. PICK n : n = Len(r)
  OBVIOUS
<1>3. n \in Nat /\ n = MaxRounds /\ \A i \in 1..n : p \in DOMAIN r[i]
  BY <1>1, <1>2 DEF Packed, Fit, Full
<1>4. PICK f : f = [i \in 1..(n + 1) |-> IF i = n + 1 THEN e ELSE r[i][p]]
  OBVIOUS
<1>5. \A i \in 1..(n + 1) : i # n + 1 => i \in 1..n
  BY <1>3
<1>6. \A i \in 1..n : r[i][p] \in About(Q, p)
  <2> SUFFICES ASSUME NEW i \in 1..n PROVE r[i][p] \in About(Q, p)
    OBVIOUS
  <2>1. r[i] \in Rounds /\ p \in DOMAIN r[i]
    <3>1. r \in Seq(Rounds) /\ i \in 1..Len(r)
      BY <1>2 DEF Packed, Fit
    <3> QED
      BY <3>1, <1>3
  <2>2. r[i][p] \in Nat
    BY <2>1 DEF Rounds
  <2>3. <<p, r[i][p]>> \in Q
    BY <1>2, <2>1 DEF Packed, Own
  <2> QED
    BY <2>2, <2>3 DEF About
<1>7. \A i \in 1..(n + 1) : f[i] \in About(Q, p)
  <2>1. e \in About(Q, p)
    BY DEF About
  <2> QED
    BY <1>4, <1>5, <1>6, <2>1
<1>8. \A i \in 1..n : r[i][p] # e
  BY <1>2, <1>3 DEF Asked
<1>9. \A i, j \in 1..n : i # j => r[i][p] # r[j][p]
  BY <1>2, <1>3 DEF Packed, Once
<1>10. \A i, j \in 1..(n + 1) : i # j => f[i] # f[j]
  BY <1>4, <1>5, <1>8, <1>9
<1>11. PICK A : A = About(Q, p)
  OBVIOUS
<1>12. n + 1 <= Cardinality(A)
  BY <1>3, <1>7, <1>10, <1>11, DistinctCardinality
<1>13. Cardinality(A) \in Nat
  BY <1>11, FS_CardinalityType
<1> QED
  BY <1>1, <1>3, <1>11, <1>12, <1>13

\* The epochs of a partition among the triggers, as RoundsTight counts them.
EpochsOf(ts, p) == {t.committed : t \in {u \in Range(ts) : u.part = p}}

LEMMA EpochsCounted ==
  ASSUME NEW at \in Samples, NEW ts \in Seq(Found(at)), NEW p \in Partitions
  PROVE  /\ EpochsOf(ts, p) = About(Questions(ts, Len(ts)), p)
         /\ IsFiniteSet(EpochsOf(ts, p))
         /\ Cardinality(EpochsOf(ts, p)) \in 0..Len(ts)
<1>1. PICK n : n = Len(ts)
  OBVIOUS
<1>2. n \in Nat /\ DOMAIN ts = 1..n
  BY <1>1
<1>3. ASSUME NEW i \in 1..n
      PROVE  ts[i].part \in Partitions /\ ts[i].committed \in Nat /\ Key(ts[i]) = <<ts[i].part, ts[i].committed>>
  <2>1. ts[i] \in Found(at)
    BY <1>1
  <2> QED
    BY <2>1 DEF Found, Trigger, Key
<1>4. \A e : e \in EpochsOf(ts, p) <=> \E i \in 1..n : ts[i].part = p /\ ts[i].committed = e
  BY <1>2 DEF EpochsOf, Range
<1>5. \A e : e \in About(Questions(ts, n), p) <=> \E i \in 1..n : ts[i].part = p /\ ts[i].committed = e
  BY <1>3 DEF About, Questions
<1>6. PICK E : E = EpochsOf(ts, p)
  OBVIOUS
<1>7. E = About(Questions(ts, n), p)
  BY <1>4, <1>5, <1>6
<1>8. PICK f : f = [i \in 1..n |-> ts[i].committed]
  OBVIOUS
<1>9. PICK T : T = {f[i] : i \in 1..n}
  OBVIOUS
<1>10. IsFiniteSet(T) /\ Cardinality(T) <= n
  BY <1>2, <1>9, ImageCardinality
<1>11. E \in SUBSET T
  BY <1>4, <1>6, <1>8, <1>9
<1>12. IsFiniteSet(E) /\ Cardinality(E) <= Cardinality(T)
  BY <1>10, <1>11, FS_Subset
<1>13. Cardinality(E) \in Nat /\ Cardinality(T) \in Nat
  BY <1>10, <1>12, FS_CardinalityType
<1>14. Cardinality(E) \in 0..n
  BY <1>2, <1>10, <1>12, <1>13
<1> QED
  BY <1>1, <1>6, <1>7, <1>12, <1>14

\* epochRounds uses as many requests as the partition with most epochs needs.
LEMMA RoundsNeeded ==
  ASSUME NEW at \in Samples, NEW ts \in Seq(Found(at)), NEW need,
         need = Max({0} \cup {Cardinality(EpochsOf(ts, p)) : p \in Partitions})
  PROVE  Len(EpochRounds(ts)) = IF need <= MaxRounds THEN need ELSE MaxRounds
<1>1. PICK r, Q, n : r = EpochRounds(ts) /\ Q = Questions(ts, Len(ts)) /\ n = Len(ts)
  OBVIOUS
<1>2. Packed(r, Q) /\ n \in Nat
  BY <1>1, RoundsPacked
<1>3. \A p \in Partitions : /\ EpochsOf(ts, p) = About(Q, p) /\ IsFiniteSet(About(Q, p))
                            /\ Cardinality(About(Q, p)) \in 0..n
  BY <1>1, EpochsCounted
<1>4. PICK T : T = {0} \cup {Cardinality(EpochsOf(ts, p)) : p \in Partitions}
  OBVIOUS
<1>5. T \in SUBSET (0..n) /\ T # {} /\ 0 \in T
  BY <1>2, <1>3, <1>4
<1>6. \E x \in T : \A y \in T : x >= y
  BY <1>2, <1>5, Greatest
<1>7. need \in T /\ \A y \in T : need >= y
  <2>1. need = CHOOSE x \in T : \A y \in T : x >= y
    BY <1>4 DEF Max
  <2> QED
    BY <1>6, <2>1
<1>8. need \in Nat /\ MaxRounds \in Nat
  BY <1>2, <1>5, <1>7, ConstantsAssumption
<1>9. PICK l : l = Len(r)
  OBVIOUS
<1>10. l \in Nat /\ l <= MaxRounds
  BY <1>2, <1>9 DEF Packed, Fit
<1>11. l <= need
  <2>1. CASE l = 0
    BY <2>1, <1>8
  <2>2. CASE l # 0
    <3>1. l \in 1..Len(r)
      BY <2>2, <1>9, <1>10
    <3>2. PICK p \in DOMAIN r[l] : TRUE
      BY <1>2, <3>1 DEF Packed, Used
    <3>3. r[l] \in Rounds
      BY <1>2, <3>1 DEF Packed, Fit
    <3>4. p \in Partitions
      BY <3>2, <3>3 DEF Rounds
    <3>5. l <= Cardinality(About(Q, p))
      BY <1>2, <1>3, <3>1, <3>2, <3>4, EpochsAtLeast
    <3>6. Cardinality(About(Q, p)) \in T
      BY <1>3, <1>4, <3>4
    <3>7. Cardinality(About(Q, p)) \in Nat /\ need >= Cardinality(About(Q, p))
      BY <1>3, <1>7, <3>4, <3>6
    <3> QED
      BY <3>5, <3>7, <1>8, <1>10
  <2> QED
    BY <2>1, <2>2
<1>12. l # MaxRounds => need <= l
  <2> SUFFICES ASSUME l # MaxRounds PROVE need <= l
    OBVIOUS
  <2>1. CASE need = 0
    BY <2>1, <1>10
  <2>2. CASE need # 0
    <3>1. PICK p \in Partitions : need = Cardinality(EpochsOf(ts, p))
      BY <2>2, <1>4, <1>7
    <3>2. need = Cardinality(About(Q, p))
      BY <1>3, <3>1
    <3>3. Cardinality(About(Q, p)) <= Len(r)
      BY <1>2, <1>9, EpochsAtMost
    <3> QED
      BY <3>2, <3>3, <1>9
  <2> QED
    BY <2>1, <2>2
<1>13. l = IF need <= MaxRounds THEN need ELSE MaxRounds
  BY <1>8, <1>10, <1>11, <1>12
<1> QED
  BY <1>1, <1>9, <1>13

\* and leaves a question out only when its partition alone fills every one.
LEMMA RoundsComplete ==
  ASSUME NEW at \in Samples, NEW ts \in Seq(Found(at)), NEW t \in Range(ts)
  PROVE  \/ \E i \in DOMAIN EpochRounds(ts) : t.part \in DOMAIN EpochRounds(ts)[i] /\ EpochRounds(ts)[i][t.part] = t.committed
         \/ /\ Cardinality(EpochsOf(ts, t.part)) > MaxRounds
            /\ \A i \in DOMAIN EpochRounds(ts) : t.part \in DOMAIN EpochRounds(ts)[i]
<1>1. PICK r, Q : r = EpochRounds(ts) /\ Q = Questions(ts, Len(ts))
  OBVIOUS
<1>2. Packed(r, Q)
  BY <1>1, RoundsPacked
<1>3. DOMAIN r = 1..Len(r)
  BY <1>2 DEF Packed, Fit
<1>4. PICK p, e : p = t.part /\ e = t.committed
  OBVIOUS
<1>5. PICK k \in 1..Len(ts) : t = ts[k]
  BY DEF Range
<1>6. p \in Partitions /\ e \in Nat /\ Key(t) = <<p, e>>
  <2>1. t \in Found(at)
    BY <1>5
  <2> QED
    BY <1>4, <2>1 DEF Found, Trigger, Key
<1>7. <<p, e>> \in Q
  BY <1>1, <1>5, <1>6 DEF Questions
<1>8. EpochsOf(ts, p) = About(Q, p) /\ IsFiniteSet(About(Q, p))
  BY <1>1, <1>6, EpochsCounted
<1>9. CASE Asked(r, p, e)
  BY <1>1, <1>3, <1>4, <1>9 DEF Asked
<1>10. CASE ~Asked(r, p, e)
  <2>1. Full(r, p) /\ Cardinality(About(Q, p)) > MaxRounds
    BY <1>2, <1>6, <1>7, <1>8, <1>10, LeftOut
  <2> QED
    BY <1>1, <1>3, <1>4, <1>8, <2>1 DEF Full
<1> QED
  BY <1>9, <1>10

\* For every cluster, set of committed epochs and cap, epochRounds packs the
\* questions of a cycle as tightly as the protocol allows: the number of
\* requests is what the partition with most epochs needs, and the round cap
\* costs only partitions that fill every request.
THEOREM PackingIsTight == Spec => []RoundsTight
<1>1. OwnSample => RoundsTight
  <2> SUFFICES ASSUME OwnSample PROVE RoundsTight
    OBVIOUS
  <2>1. PICK ts : ts = EpochTriggers(topics, commit)
    OBVIOUS
  <2>2. topics \in Samples /\ ts \in Seq(Found(topics))
    BY <2>1, TriggersTyped DEF OwnSample
  <2>3. PICK need : need = Max({0} \cup {Cardinality(EpochsOf(ts, p)) : p \in Partitions})
    OBVIOUS
  <2>4. Len(EpochRounds(ts)) = IF need <= MaxRounds THEN need ELSE MaxRounds
    BY <2>2, <2>3, RoundsNeeded
  <2>5. \A t \in Range(ts) :
          \/ \E i \in DOMAIN EpochRounds(ts) : t.part \in DOMAIN EpochRounds(ts)[i] /\ EpochRounds(ts)[i][t.part] = t.committed
          \/ /\ Cardinality(EpochsOf(ts, t.part)) > MaxRounds
             /\ \A i \in DOMAIN EpochRounds(ts) : t.part \in DOMAIN EpochRounds(ts)[i]
    BY <2>2, RoundsComplete
  <2> QED
    BY <2>1, <2>3, <2>4, <2>5, Zenon DEF RoundsTight, EpochsOf
<1> QED
  BY <1>1, TriggersOfOwnSample, PTL
=============================================================================
