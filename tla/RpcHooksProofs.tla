--------------------------- MODULE RpcHooksProofs ----------------------------
(***************************************************************************)
(* Proofs about RpcHooks, for any number of calls, brokers and cycles: the *)
(* mutex gives the hooks and the swap turns, a detached window is never    *)
(* written again, and a cycle's own requests land in its own window.       *)
(***************************************************************************)
EXTENDS RpcHooks, TLAPS, SequenceTheorems, WellFoundedInduction

Steps == {"look", "bytes", "e2e", "writeWait", "errors", "attempts", "latency", "failures",
          "lastErr", "disconnects", "events", "throttled"}

\* Functions have their domains, and the heap has a map for the open window.
Shape ==
  /\ fired \in [Calls -> {"no", "inflight", "locked", "returned"}]
  /\ todo \in [Calls -> Seq(Steps)] /\ held \in [Calls -> Int]
  /\ open \in 1..(MaxCycles + 1) /\ cycle \in 1..(MaxCycles + 1)
  /\ DOMAIN accum = 1..(MaxCycles + 1) /\ accum = [w \in 1..(MaxCycles + 1) |-> accum[w]]
  /\ awaited \subseteq Calls
  /\ pc \in {"phases", "lock", "swap", "unlock", "convert"}

\* Who is inside a critical section holds the mutex.
Exclusion ==
  /\ \A c \in Calls : fired[c] = "locked" => mutex = c
  /\ pc \in {"swap", "unlock"} => mutex = Collector

\* The window is one ahead of the cycle from the swap to the end of the cycle.
InStep ==
  /\ pc \in {"phases", "lock", "swap"} => open = cycle
  /\ pc \in {"unlock", "convert"} => open = cycle + 1
  /\ pc # "phases" => cycle <= MaxCycles

\* A hook that has looked its row up, and not returned, holds a row of the open
\* window.
HoldsOpen ==
  \A c \in Calls : fired[c] = "locked" /\ (todo[c] = <<>> \/ Head(todo[c]) # "look") => held[c] = open

\* The inductive invariant.
IInv == Shape /\ Exclusion /\ InStep /\ HoldsOpen /\ OwnTrafficCovered

\* A hook's body begins with the lookup of its row.
LEMMA BodyLooksFirst ==
  ASSUME NEW c \in Calls
  PROVE  Body(c) \in Seq(Steps) /\ Body(c) # <<>> /\ Head(Body(c)) = "look"
<1>1. Saw[c].kind \in Kinds /\ Saw[c].ok \in BOOLEAN
  BY CallsAssumption
<1>2. CASE Saw[c].kind = "e2e" /\ Saw[c].ok
  <2>1. Body(c) = <<"look", "bytes", "e2e", "writeWait">>
    BY <1>2 DEF Body
  <2> QED
    BY <2>1 DEF Steps
<1>3. CASE Saw[c].kind = "e2e" /\ ~Saw[c].ok
  <2>1. Body(c) = <<"look", "bytes", "errors">>
    BY <1>3 DEF Body
  <2> QED
    BY <2>1 DEF Steps
<1>4. CASE Saw[c].kind = "connect" /\ Saw[c].ok
  <2>1. Body(c) = <<"look", "attempts", "latency">>
    BY <1>4 DEF Body
  <2> QED
    BY <2>1 DEF Steps
<1>5. CASE Saw[c].kind = "connect" /\ ~Saw[c].ok
  <2>1. Body(c) = <<"look", "attempts", "failures", "lastErr">>
    BY <1>5 DEF Body
  <2> QED
    BY <2>1 DEF Steps
<1>6. CASE Saw[c].kind = "disconnect"
  <2>1. Body(c) = <<"look", "disconnects">>
    BY <1>6 DEF Body
  <2> QED
    BY <2>1 DEF Steps
<1>7. CASE Saw[c].kind = "throttle"
  <2>1. Body(c) = <<"look", "events", "throttled">>
    BY <1>7 DEF Body
  <2> QED
    BY <2>1 DEF Steps
<1> QED
  BY <1>1, <1>2, <1>3, <1>4, <1>5, <1>6, <1>7 DEF Kinds

LEMMA IInvInit == Init => IInv
<1> SUFFICES ASSUME Init PROVE IInv
  OBVIOUS
<1> USE ConstantsAssumption DEF Init
<1>1. Shape
  BY EmptySeq DEF Shape
<1>2. Exclusion /\ InStep /\ HoldsOpen /\ OwnTrafficCovered
  BY DEF Exclusion, InStep, HoldsOpen, OwnTrafficCovered
<1> QED
  BY <1>1, <1>2 DEF IInv

\* One step per action of the hooks and of the collector.
LEMMA IInvStep == IInv /\ [Next]_vars => IInv'
<1> SUFFICES ASSUME IInv, [Next]_vars PROVE IInv'
  OBVIOUS
<1> USE ConstantsAssumption DEF IInv
<1>n. \A c \in Calls : c \in Nat /\ c # Nobody /\ c # Collector
  BY CallsAssumption DEF Nobody, Collector
<1>1. ASSUME NEW c \in Calls, Issue(c) PROVE IInv'
  <2>1. Shape'
    BY <1>1 DEF Issue, Shape, collectorVars
  <2>2. Exclusion' /\ InStep' /\ HoldsOpen'
    BY <1>1 DEF Issue, Shape, Exclusion, InStep, HoldsOpen, collectorVars
  <2>3. OwnTrafficCovered'
    BY <1>1 DEF Issue, Shape, OwnTrafficCovered, collectorVars
  <2> QED
    BY <2>1, <2>2, <2>3
<1>2. ASSUME NEW c \in Calls, Abandon(c) PROVE IInv'
  BY <1>2 DEF Abandon, Shape, Exclusion, InStep, HoldsOpen, OwnTrafficCovered, hookVars, collectorVars
<1>3. ASSUME NEW c \in Calls, HookLocks(c) PROVE IInv'
  <2>0. Body(c) \in Seq(Steps)
    BY BodyLooksFirst
  <2>1. Shape'
    <3>1. fired' \in [Calls -> {"no", "inflight", "locked", "returned"}]
      BY <1>3 DEF HookLocks, Shape
    <3>2. todo' \in [Calls -> Seq(Steps)]
      BY <1>3, <2>0 DEF HookLocks, Shape
    <3> QED
      BY <1>3, <3>1, <3>2 DEF HookLocks, Shape, collectorVars
  <2>2. Exclusion'
    <3>1. \A d \in Calls : fired[d] # "locked"
      BY <1>3, <1>n DEF HookLocks, Exclusion
    <3>2. \A d \in Calls : fired'[d] = "locked" => d = c
      BY <1>3, <3>1 DEF HookLocks, Shape
    <3>3. pc' \notin {"swap", "unlock"}
      BY <1>3 DEF HookLocks, Exclusion, collectorVars, Nobody, Collector
    <3> QED
      BY <1>3, <3>2, <3>3 DEF HookLocks, Exclusion
  <2>3. InStep'
    BY <1>3 DEF HookLocks, InStep, collectorVars
  <2>4. HoldsOpen'
    BY <1>3, BodyLooksFirst DEF HookLocks, Shape, HoldsOpen, collectorVars
  <2>5. OwnTrafficCovered'
    BY <1>3 DEF HookLocks, Due, Shape, OwnTrafficCovered, collectorVars
  <2> QED
    BY <2>1, <2>2, <2>3, <2>4, <2>5
<1>4. ASSUME NEW c \in Calls, HookLooks(c) PROVE IInv'
  <2>1. Tail(todo[c]) \in Seq(Steps)
    BY <1>4, HeadTailProperties DEF HookLooks, Shape
  <2>2. Shape'
    <3>1. todo' \in [Calls -> Seq(Steps)] /\ held' \in [Calls -> Int]
      BY <1>4, <2>1 DEF HookLooks, Shape
    <3>2. DOMAIN accum' = 1..(MaxCycles + 1) /\ accum' = [w \in 1..(MaxCycles + 1) |-> accum'[w]]
      BY <1>4 DEF HookLooks, Shape
    <3> QED
      BY <1>4, <3>1, <3>2 DEF HookLooks, Shape, collectorVars
  <2>3. Exclusion' /\ InStep'
    BY <1>4 DEF HookLooks, Exclusion, InStep, collectorVars
  <2>4. HoldsOpen'
    BY <1>4 DEF HookLooks, Shape, HoldsOpen, collectorVars
  <2>5. OwnTrafficCovered'
    BY <1>4 DEF HookLooks, Shape, OwnTrafficCovered, collectorVars
  <2> QED
    BY <2>2, <2>3, <2>4, <2>5
<1>5. ASSUME NEW c \in Calls, HookUpdates(c) PROVE IInv'
  <2>1. Tail(todo[c]) \in Seq(Steps)
    BY <1>5, HeadTailProperties DEF HookUpdates, Shape
  <2>2. Shape'
    BY <1>5, <2>1 DEF HookUpdates, Shape, collectorVars
  <2>3. Exclusion' /\ InStep'
    BY <1>5 DEF HookUpdates, Exclusion, InStep, collectorVars
  <2>4. HoldsOpen'
    BY <1>5 DEF HookUpdates, Shape, HoldsOpen, collectorVars
  <2>5. OwnTrafficCovered'
    BY <1>5 DEF HookUpdates, Shape, OwnTrafficCovered, collectorVars
  <2> QED
    BY <2>2, <2>3, <2>4, <2>5
<1>6. ASSUME NEW c \in Calls, HookUnlocks(c) PROVE IInv'
  <2>1. Shape'
    BY <1>6 DEF HookUnlocks, Shape, collectorVars
  <2>2. Exclusion'
    BY <1>6, <1>n DEF HookUnlocks, Shape, Exclusion, collectorVars
  <2>3. InStep' /\ HoldsOpen'
    BY <1>6 DEF HookUnlocks, Shape, InStep, HoldsOpen, collectorVars
  <2>4. OwnTrafficCovered'
    BY <1>6 DEF HookUnlocks, Shape, InStep, HoldsOpen, OwnTrafficCovered, collectorVars
  <2> QED
    BY <2>1, <2>2, <2>3, <2>4
<1>7. CASE PhasesDone
  BY <1>7 DEF PhasesDone, Shape, Exclusion, InStep, HoldsOpen, OwnTrafficCovered, hookVars
<1>8. CASE SnapshotLocks
  BY <1>8, <1>n DEF SnapshotLocks, Shape, Exclusion, InStep, HoldsOpen, OwnTrafficCovered, hookVars, Nobody
<1>9. CASE SnapshotSwaps
  <2>1. \A c \in Calls : fired[c] # "locked"
    BY <1>9, <1>n DEF SnapshotSwaps, Exclusion
  <2> QED
    BY <1>9, <2>1 DEF SnapshotSwaps, Shape, Exclusion, InStep, HoldsOpen, OwnTrafficCovered, hookVars
<1>10. CASE SnapshotUnlocks
  <2>1. \A c \in Calls : fired[c] # "locked"
    BY <1>10, <1>n DEF SnapshotUnlocks, Exclusion
  <2> QED
    BY <1>10, <2>1 DEF SnapshotUnlocks, Shape, Exclusion, InStep, HoldsOpen, OwnTrafficCovered, hookVars
<1>11. ASSUME NEW id \in Brokers, SnapshotConverts(id) PROVE IInv'
  BY <1>11 DEF SnapshotConverts, Shape, Exclusion, InStep, HoldsOpen, OwnTrafficCovered, hookVars
<1>12. CASE SnapshotReturns
  BY <1>12 DEF SnapshotReturns, Shape, Exclusion, InStep, HoldsOpen, OwnTrafficCovered, hookVars
<1>13. CASE UNCHANGED vars
  BY <1>13 DEF vars, hookVars, collectorVars, Shape, Exclusion, InStep, HoldsOpen, OwnTrafficCovered
<1> QED
  BY <1>1, <1>2, <1>3, <1>4, <1>5, <1>6, <1>7, <1>8, <1>9, <1>10, <1>11, <1>12, <1>13
     DEF Next, Collect, Hook

LEMMA IInvHolds == Spec => []IInv
<1> QED
  BY IInvInit, IInvStep, PTL DEF Spec

\* The types hold, and the heap has rows of brokers that were called and of no
\* other: broker files a row under the node the hook was called for.
THEOREM TypeCorrect == Spec => []TypeOK
<1>1. Init => TypeOK
  <2> SUFFICES ASSUME Init PROVE TypeOK
    OBVIOUS
  <2>1. \A w \in DOMAIN accum : DOMAIN accum[w] \subseteq Brokers
    BY DEF Init
  <2> QED
    BY <2>1, ConstantsAssumption DEF Init, TypeOK
<1>2. TypeOK /\ IInv /\ IInv' /\ [Next]_vars => TypeOK'
  <2> SUFFICES ASSUME TypeOK, IInv, IInv', [Next]_vars PROVE TypeOK'
    OBVIOUS
  <2>s. Shape'
    BY DEF IInv
  <2>1. mutex' \in Calls \cup {Nobody, Collector}
    BY DEF TypeOK, Next, Collect, Hook, Issue, Abandon, HookLocks, HookLooks, HookUpdates,
           HookUnlocks, PhasesDone, SnapshotLocks, SnapshotSwaps, SnapshotUnlocks, SnapshotConverts,
           SnapshotReturns, vars
  <2>2. since' \in Nat /\ now' \in Nat
    <3>1. CASE PhasesDone
      BY <3>1, ConstantsAssumption DEF TypeOK, PhasesDone
    <3>2. CASE SnapshotSwaps
      BY <3>2 DEF TypeOK, SnapshotSwaps
    <3>3. ASSUME NEW c \in Calls, Issue(c) \/ Abandon(c) \/ Hook(c)
          PROVE  since' = since /\ now' = now
      BY <3>3 DEF Hook, Issue, Abandon, HookLocks, HookLooks, HookUpdates, HookUnlocks, collectorVars
    <3>4. CASE SnapshotLocks \/ SnapshotUnlocks \/ SnapshotReturns \/ \E id \in Brokers : SnapshotConverts(id)
      BY <3>4 DEF TypeOK, SnapshotLocks, SnapshotUnlocks, SnapshotReturns, SnapshotConverts
    <3>5. CASE UNCHANGED vars
      BY <3>5 DEF TypeOK, vars, collectorVars
    <3> QED
      BY <3>1, <3>2, <3>3, <3>4, <3>5 DEF TypeOK, Next, Collect
  <2>3. \A w \in DOMAIN accum' : DOMAIN accum'[w] \subseteq Brokers
    <3> SUFFICES ASSUME NEW w \in 1..(MaxCycles + 1) PROVE DOMAIN accum'[w] \subseteq Brokers
      BY <2>s DEF Shape
    <3>0. DOMAIN accum[w] \subseteq Brokers
      BY DEF TypeOK, IInv, Shape
    <3>1. ASSUME NEW c \in Calls, HookLooks(c) PROVE DOMAIN accum'[w] \subseteq Brokers
      <4>1. accum'[w] = accum[w] \/ accum'[w] = Looked(accum[w], c)
        BY <3>1 DEF HookLooks, IInv, Shape
      <4>2. DOMAIN Looked(accum[w], c) = DOMAIN accum[w] \cup {Saw[c].broker}
        BY DEF Looked, With
      <4> QED
        BY <3>0, <4>1, <4>2 DEF Brokers
    <3>2. ASSUME NEW c \in Calls, HookUpdates(c) PROVE DOMAIN accum'[w] \subseteq Brokers
      <4>1. DOMAIN accum'[w] = DOMAIN accum[w]
        BY <3>2 DEF HookUpdates, IInv, Shape
      <4> QED
        BY <3>0, <4>1
    <3>3. ASSUME accum' = accum PROVE DOMAIN accum'[w] \subseteq Brokers
      BY <3>0, <3>3
    <3>4. Next => accum' = accum \/ \E c \in Calls : HookLooks(c) \/ HookUpdates(c)
      BY DEF Next, Collect, Hook, Issue, Abandon, HookLocks, HookUnlocks, PhasesDone,
             SnapshotLocks, SnapshotSwaps, SnapshotUnlocks, SnapshotConverts, SnapshotReturns
    <3> QED
      BY <3>1, <3>2, <3>3, <3>4 DEF vars
  <2> QED
    BY <2>s, <2>1, <2>2, <2>3 DEF TypeOK, Shape
<1> QED
  BY <1>1, <1>2, IInvHolds, PTL DEF Spec

\* collectRPC runs after wg.Wait: a request that a phase of this cycle waited for
\* is in this cycle's window, however its hook is interleaved with the snapshot
\* and with the hooks of requests given up on.
THEOREM OwnTraffic == Spec => []OwnTrafficCovered
<1>1. IInv => OwnTrafficCovered
  BY DEF IInv
<1> QED
  BY <1>1, IInvHolds, PTL

\* snapshot converts the detached maps outside the lock: no hook writes a window
\* once it has been detached, because a hook holds the lock from the lookup of
\* its row to its last update.
THEOREM DetachedStaysFrozen == Spec => DetachedFrozen
<1>1. IInv /\ [Next]_vars => [\A w \in 1..(open - 1) : accum'[w] = accum[w]]_vars
  <2> SUFFICES ASSUME IInv, Next
               PROVE  \A w \in 1..(open - 1) : accum'[w] = accum[w]
    OBVIOUS
  <2> TAKE w \in 1..(open - 1)
  <2> USE DEF IInv
  <2>0. w \in 1..(MaxCycles + 1) /\ w # open
    BY ConstantsAssumption DEF Shape
  <2>1. ASSUME NEW c \in Calls, HookLooks(c) PROVE accum'[w] = accum[w]
    BY <2>1, <2>0 DEF HookLooks, Shape
  <2>2. ASSUME NEW c \in Calls, HookUpdates(c) PROVE accum'[w] = accum[w]
    <3>1. held[c] = open
      BY <2>2 DEF HookUpdates, HoldsOpen
    <3> QED
      BY <2>2, <2>0, <3>1 DEF HookUpdates, Shape
  <2>3. ASSUME NEW c \in Calls, Issue(c) \/ Abandon(c) \/ HookLocks(c) \/ HookUnlocks(c)
        PROVE  accum' = accum
    BY <2>3 DEF Issue, Abandon, HookLocks, HookUnlocks
  <2>4. ASSUME Collect PROVE accum' = accum
    BY <2>4 DEF Collect, PhasesDone, SnapshotLocks, SnapshotSwaps, SnapshotUnlocks,
                SnapshotConverts, SnapshotReturns
  <2> QED
    BY <2>1, <2>2, <2>3, <2>4 DEF Next, Hook
<1> QED
  BY <1>1, IInvHolds, PTL DEF Spec, DetachedFrozen

-----------------------------------------------------------------------------
(* The windows tile the time.  Their sum is a loop over the reports; its     *)
(* equation and the induction over its turns come first.                     *)

\* A set of naturals that is not empty has a least member.
LEMMA Least ==
  ASSUME NEW T \in SUBSET Nat, T # {}
  PROVE  \E x \in T : \A y \in T : x <= y
<1>1. PICK R : R = OpToRel(<, Nat)
  OBVIOUS
<1>2. IsWellFoundedOn(R, Nat)
  BY <1>1, NatLessThanWellFounded
<1>3. \A x, y \in Nat : x < y => <<x, y>> \in R
  BY <1>1 DEF OpToRel
<1>4. PICK x \in T : \A y \in T : ~(<<y, x>> \in R)
  BY <1>2, WFMin
<1>5. \A y \in T : ~(y < x)
  BY <1>3, <1>4
<1>6. \A y \in T : x <= y
  BY <1>5
<1> QED
  BY <1>6

\* Induction over the turns of a loop: what holds before the first turn and is
\* kept by each holds after the last.
LEMMA LoopInvariant ==
  ASSUME NEW n \in Nat, NEW S \in SUBSET Nat, 0 \in S,
         \A i \in 1..n : i - 1 \in S => i \in S
  PROVE  \A i \in 0..n : i \in S
<1> SUFFICES ASSUME ~ \A i \in 0..n : i \in S PROVE FALSE
  OBVIOUS
<1>1. PICK x \in (0..n) \ S : \A y \in (0..n) \ S : x <= y
  <2>1. (0..n) \ S \in SUBSET Nat /\ (0..n) \ S # {}
    OBVIOUS
  <2> QED
    BY <2>1, Least
<1>2. x \in 1..n /\ x - 1 \in 0..n
  BY <1>1
<1>3. x - 1 \in S
  BY <1>1, <1>2
<1> QED
  BY <1>1, <1>2, <1>3

\* h is the run of a loop over n turns with accumulators in X that starts at x
\* and whose turn i maps an accumulator a to F[<<a, i>>].
Run(h, X, x, n, F) ==
  h \in [0..n -> X] /\ h[0] = x /\ \A i \in 1..n : h[i] = F[<<h[i - 1], i>>]

\* Such a loop has a run.
LEMMA LoopExists ==
  ASSUME NEW X, NEW x \in X, NEW n \in Nat, NEW F \in [X \X (1..n) -> X]
  PROVE  \E h : Run(h, X, x, n, F)
<1> DEFINE Runs(k) == {h \in [0..k -> X] : h[0] = x /\ \A i \in 1..k : h[i] = F[<<h[i - 1], i>>]}
           S == {k \in Nat : k <= n => Runs(k) # {}}
<1>1. 0 \in S
  <2>1. [i \in 0..0 |-> x] \in Runs(0)
    OBVIOUS
  <2> QED
    BY <2>1
<1>2. ASSUME NEW k \in 1..n, k - 1 \in S PROVE k \in S
  <2>1. PICK h \in Runs(k - 1) : TRUE
    BY <1>2
  <2>2. h \in [0..(k - 1) -> X] /\ h[0] = x /\ \A i \in 1..(k - 1) : h[i] = F[<<h[i - 1], i>>]
    BY <2>1
  <2>3. k - 1 \in 0..(k - 1) /\ h[k - 1] \in X
    BY <2>2
  <2>4. PICK v \in X : v = F[<<h[k - 1], k>>]
    BY <2>3
  <2> DEFINE g == [i \in 0..k |-> IF i = k THEN v ELSE h[i]]
  <2>5. g \in [0..k -> X] /\ g[k] = v /\ \A i \in 0..(k - 1) : g[i] = h[i]
    BY <2>2
  <2> HIDE DEF g
  <2>6. g[0] = x
    BY <2>5, <2>2
  <2>7. ASSUME NEW i \in 1..k PROVE g[i] = F[<<g[i - 1], i>>]
    <3>1. g[i - 1] = h[i - 1]
      BY <2>5
    <3>2. CASE i = k
      BY <3>1, <3>2, <2>4, <2>5
    <3>3. CASE i # k
      <4>1. i \in 1..(k - 1) /\ g[i] = h[i]
        BY <3>3, <2>5
      <4> QED
        BY <4>1, <3>1, <2>2
    <3> QED
      BY <3>2, <3>3
  <2>8. g \in Runs(k)
    BY <2>5, <2>6, <2>7
  <2> QED
    BY <2>8
<1>3. S \in SUBSET Nat
  OBVIOUS
<1> HIDE DEF S
<1>4. \A k \in 1..n : k - 1 \in S => k \in S
  BY <1>2
<1>5. \A i \in 0..n : i \in S
  BY <1>1, <1>3, <1>4, LoopInvariant
<1>6. n \in S
  BY <1>5
<1>7. Runs(n) # {}
  BY <1>6 DEF S
<1> QED
  BY <1>7 DEF Run

\* Reports that carry a window's length.
Lengths(rs) == \E D : rs \in Seq(D) /\ \A r \in D : r.windowMs \in Nat

\* The sum of the reports has its defining equation.
SumOf(f, rs) == f = [i \in 0..Len(rs) |-> IF i = 0 THEN 0 ELSE f[i - 1] + rs[i].windowMs]

LEMMA SumExists ==
  ASSUME NEW rs, Lengths(rs)
  PROVE  \E f : SumOf(f, rs) /\ Reported(rs) = f[Len(rs)]
<1>1. PICK n : n = Len(rs)
  OBVIOUS
<1>2. n \in Nat /\ \A i \in 1..n : rs[i].windowMs \in Nat
  BY <1>1 DEF Lengths
<1>3. PICK F : F = [z \in Nat \X (1..n) |-> z[1] + rs[z[2]].windowMs]
  OBVIOUS
<1>4. F \in [Nat \X (1..n) -> Nat]
  BY <1>2, <1>3
<1>5. PICK h : Run(h, Nat, 0, n, F)
  BY <1>2, <1>4, LoopExists
<1>6. ASSUME NEW i \in 0..n PROVE h[i] = IF i = 0 THEN 0 ELSE h[i - 1] + rs[i].windowMs
  <2>1. CASE i = 0
    BY <2>1, <1>5 DEF Run
  <2>2. CASE i # 0
    <3>1. i \in 1..n
      BY <2>2, <1>2
    <3>2. <<h[i - 1], i>> \in Nat \X (1..n)
      BY <1>2, <1>5, <3>1 DEF Run
    <3>3. F[<<h[i - 1], i>>] = h[i - 1] + rs[i].windowMs
      BY <1>3, <3>2
    <3> QED
      BY <2>2, <3>1, <3>3, <1>5 DEF Run
  <2> QED
    BY <2>1, <2>2
<1>7. h = [i \in 0..n |-> IF i = 0 THEN 0 ELSE h[i - 1] + rs[i].windowMs]
  BY <1>5, <1>6 DEF Run
<1>8. \E f : f = [i \in 0..Len(rs) |-> IF i = 0 THEN 0 ELSE f[i - 1] + rs[i].windowMs]
  BY <1>1, <1>7
<1> QED
  BY <1>8 DEF SumOf, Reported

\* Any two sums over reports agree as far as the reports do.
LEMMA SumsAgree ==
  ASSUME NEW rs, NEW qs, NEW n \in Nat, Len(rs) \in Nat, Len(qs) \in Nat, n <= Len(rs), n <= Len(qs),
         \A i \in 1..n : rs[i] = qs[i] /\ rs[i].windowMs \in Nat, NEW f, SumOf(f, rs), NEW g, SumOf(g, qs)
  PROVE  f[n] = g[n] /\ f[n] \in Nat
<1> DEFINE S == {i \in Nat : i <= n => f[i] = g[i] /\ f[i] \in Nat}
<1>1. S \in SUBSET Nat
  OBVIOUS
<1>2. 0 \in S
  <2>1. f[0] = 0 /\ g[0] = 0
    BY DEF SumOf
  <2> QED
    BY <2>1
<1>3. ASSUME NEW i \in 1..n, i - 1 \in S PROVE i \in S
  <2>1. i \in 0..Len(rs) /\ i \in 0..Len(qs) /\ i # 0 /\ i - 1 <= n
    OBVIOUS
  <2>2. f[i] = f[i - 1] + rs[i].windowMs
    BY <2>1 DEF SumOf
  <2>3. g[i] = g[i - 1] + qs[i].windowMs
    BY <2>1 DEF SumOf
  <2>4. f[i - 1] = g[i - 1] /\ f[i - 1] \in Nat
    BY <1>3, <2>1
  <2>5. f[i] = g[i] /\ f[i] \in Nat
    BY <2>2, <2>3, <2>4
  <2> QED
    BY <2>5
<1> HIDE DEF S
<1>4. \A i \in 1..n : i - 1 \in S => i \in S
  BY <1>3
<1>5. \A i \in 0..n : i \in S
  BY <1>1, <1>2, <1>4, LoopInvariant
<1>6. n \in S
  BY <1>5
<1> QED
  BY <1>6 DEF S

\* One more report adds its length.
LEMMA ReportedAppend ==
  ASSUME NEW rs, Lengths(rs), NEW r, r.windowMs \in Nat
  PROVE  /\ Lengths(Append(rs, r)) /\ Len(Append(rs, r)) = Len(rs) + 1 /\ Len(rs) \in Nat
         /\ Reported(rs) \in Nat /\ Reported(Append(rs, r)) = Reported(rs) + r.windowMs
<1>1. PICK D : rs \in Seq(D) /\ \A d \in D : d.windowMs \in Nat
  BY DEF Lengths
<1>2. PICK E : E = D \cup {r}
  OBVIOUS
<1>3. rs \in Seq(E) /\ r \in E /\ \A d \in E : d.windowMs \in Nat
  BY <1>1, <1>2
<1>4. PICK qs, n : qs = Append(rs, r) /\ n = Len(rs)
  OBVIOUS
<1>5. qs \in Seq(E) /\ Len(qs) = n + 1 /\ n \in Nat /\ qs[n + 1] = r /\ \A i \in 1..n : qs[i] = rs[i]
  BY <1>3, <1>4
<1>6. Lengths(qs)
  BY <1>3, <1>5 DEF Lengths
<1>7. PICK f : SumOf(f, rs) /\ Reported(rs) = f[n]
  BY <1>4, SumExists
<1>8. PICK g : SumOf(g, qs) /\ Reported(qs) = g[n + 1]
  BY <1>5, <1>6, SumExists
<1>9. \A i \in 1..n : rs[i] = qs[i] /\ rs[i].windowMs \in Nat
  BY <1>1, <1>4, <1>5
<1>10. f[n] = g[n] /\ f[n] \in Nat
  <2>1. Len(rs) \in Nat /\ Len(qs) \in Nat /\ n <= Len(rs) /\ n <= Len(qs)
    BY <1>4, <1>5
  <2> QED
    BY <1>5, <1>7, <1>8, <1>9, <2>1, SumsAgree
<1>11. g[n + 1] = g[n] + r.windowMs
  <2>1. n + 1 \in 0..Len(qs) /\ n + 1 # 0 /\ (n + 1) - 1 = n
    BY <1>5
  <2> QED
    BY <1>5, <1>8, <2>1 DEF SumOf
<1> QED
  BY <1>4, <1>5, <1>6, <1>7, <1>8, <1>10, <1>11

\* No reports, no time.
LEMMA ReportedNone == Lengths(<<>>) /\ Reported(<<>>) = 0 /\ Len(<<>>) = 0
<1>1. <<>> \in Seq({}) /\ Len(<<>>) = 0
  OBVIOUS
<1>2. Lengths(<<>>)
  <2>1. PICK D : D = {}
    OBVIOUS
  <2>2. <<>> \in Seq(D) /\ \A r \in D : r.windowMs \in Nat
    BY <2>1
  <2> QED
    BY <2>2 DEF Lengths
<1>3. PICK f : SumOf(f, <<>>) /\ Reported(<<>>) = f[Len(<<>>)]
  BY <1>2, SumExists
<1>4. f[0] = 0
  BY <1>1, <1>3 DEF SumOf
<1> QED
  BY <1>1, <1>2, <1>3, <1>4

\* t milliseconds in n windows account for s ticks, but for less than a
\* millisecond for each window.
Accounts(t, n, s) == t * TicksPerMs <= s /\ s <= t * TicksPerMs + n * (TicksPerMs - 1)

LEMMA WindowAccounts ==
  ASSUME NEW t \in Nat, NEW n \in Nat, NEW s \in Nat, NEW u \in Nat, s <= u, Accounts(t, n, s)
  PROVE  /\ Clamp(u - s) \div TicksPerMs \in Nat
         /\ Accounts(t + Clamp(u - s) \div TicksPerMs, n + 1, u)
<1>1. PICK T : T = TicksPerMs
  OBVIOUS
<1>2. T \in Nat /\ T > 0
  BY <1>1, ConstantsAssumption
<1>3. PICK d : d = u - s
  OBVIOUS
<1>4. d \in Nat /\ Clamp(u - s) = d
  BY <1>3 DEF Clamp
<1>5. PICK w : w = d \div T
  OBVIOUS
<1>6. w \in Int /\ w >= 0
  BY <1>2, <1>4, <1>5
<1>7. PICK m : m = d % T
  OBVIOUS
<1>8. d = T * w + m /\ m \in 0..(T - 1)
  BY <1>2, <1>4, <1>5, <1>7
<1>9. (t + w) * T = t * T + T * w /\ (n + 1) * (T - 1) = n * (T - 1) + (T - 1)
  BY <1>2, <1>6
<1>10. PICK a, b, c : a = t * T /\ b = T * w /\ c = n * (T - 1)
  OBVIOUS
<1>11. a \in Int /\ b \in Int /\ c \in Int
  BY <1>2, <1>6, <1>10
<1>12. a <= s /\ s <= a + c
  BY <1>1, <1>10 DEF Accounts
<1>13. a + b <= u /\ u <= a + b + (c + (T - 1))
  BY <1>2, <1>3, <1>8, <1>10, <1>11, <1>12
<1>14. Accounts(t + w, n + 1, u)
  BY <1>1, <1>9, <1>10, <1>13 DEF Accounts
<1> QED
  BY <1>1, <1>4, <1>5, <1>6, <1>14

\* What the reports account for, and what the snapshot that is under way adds.
\* The property speaks of the moments between two snapshots; in between, the
\* length is in rows, and the clock that was read must not be behind since.
Tiling ==
  /\ since \in Nat /\ now \in Nat /\ Lengths(shipped)
  /\ pc \in {"lock", "swap"} => since <= now
  /\ pc \in {"phases", "lock", "swap"} => Accounts(Reported(shipped), Len(shipped), since)
  /\ pc \in {"unlock", "convert"} =>
       /\ rows = [windowMs |-> rows.windowMs, brokers |-> rows.brokers] /\ rows.windowMs \in Nat
       /\ Accounts(Reported(shipped) + rows.windowMs, Len(shipped) + 1, since)

LEMMA TilingInit == Init => Tiling
<1> SUFFICES ASSUME Init PROVE Tiling
  OBVIOUS
<1>1. Accounts(0, 0, 0)
  BY ConstantsAssumption DEF Accounts
<1> QED
  BY <1>1, ReportedNone DEF Init, Tiling

LEMMA TilingStep == Tiling /\ [Next]_vars => Tiling'
<1> SUFFICES ASSUME Tiling, [Next]_vars PROVE Tiling'
  OBVIOUS
<1>0. Len(shipped) \in Nat /\ Reported(shipped) \in Nat
  <2>1. PICK r : r = [windowMs |-> 0]
    OBVIOUS
  <2>2. r.windowMs \in Nat
    BY <2>1
  <2> QED
    BY <2>2, ReportedAppend DEF Tiling
<1>1. ASSUME UNCHANGED <<since, collectorVars>> PROVE Tiling'
  BY <1>1 DEF Tiling, collectorVars
<1>2. ASSUME NEW c \in Calls, Issue(c) \/ Abandon(c) \/ Hook(c) PROVE Tiling'
  BY <1>1, <1>2 DEF Issue, Abandon, Hook, HookLocks, HookLooks, HookUpdates, HookUnlocks
<1>3. CASE PhasesDone
  <2>1. PICK t \in CycleTicks : now' = since + t
    BY <1>3 DEF PhasesDone
  <2>2. now' \in Nat /\ since <= now'
    BY <2>1, ConstantsAssumption DEF Tiling
  <2> QED
    BY <1>3, <2>2 DEF PhasesDone, Tiling
<1>4. CASE SnapshotLocks
  BY <1>4 DEF SnapshotLocks, Tiling
<1>5. CASE SnapshotSwaps
  <2>1. PICK w : w = Clamp(now - since) \div TicksPerMs
    OBVIOUS
  <2>2. w \in Nat /\ Accounts(Reported(shipped) + w, Len(shipped) + 1, now)
    BY <1>0, <1>5, <2>1, WindowAccounts DEF SnapshotSwaps, Tiling
  <2>3. rows' = [windowMs |-> w, brokers |-> <<>>]
    BY <1>5, <2>1 DEF SnapshotSwaps, WindowMs
  <2>4. rows' = [windowMs |-> rows'.windowMs, brokers |-> rows'.brokers] /\ rows'.windowMs = w
    BY <2>3
  <2> QED
    BY <1>5, <2>2, <2>4 DEF SnapshotSwaps, Tiling
<1>6. CASE SnapshotUnlocks
  BY <1>6 DEF SnapshotUnlocks, Tiling
<1>7. ASSUME NEW id \in Brokers, SnapshotConverts(id) PROVE Tiling'
  <2>1. PICK v : rows' = [rows EXCEPT !.brokers = v]
    BY <1>7 DEF SnapshotConverts
  <2>2. rows = [windowMs |-> rows.windowMs, brokers |-> rows.brokers]
    BY <1>7 DEF SnapshotConverts, Tiling
  <2>3. rows' = [windowMs |-> rows.windowMs, brokers |-> v]
    BY <2>1, <2>2
  <2>4. rows' = [windowMs |-> rows'.windowMs, brokers |-> rows'.brokers] /\ rows'.windowMs = rows.windowMs
    BY <2>3
  <2> QED
    BY <1>7, <2>4 DEF SnapshotConverts, Tiling
<1>8. CASE SnapshotReturns
  <2>1. rows.windowMs \in Nat
    BY <1>8 DEF SnapshotReturns, Tiling
  <2>2. /\ Lengths(shipped') /\ Len(shipped') = Len(shipped) + 1
        /\ Reported(shipped') = Reported(shipped) + rows.windowMs
    BY <1>8, <2>1, ReportedAppend DEF SnapshotReturns, Tiling
  <2>3. Accounts(Reported(shipped'), Len(shipped'), since)
    BY <1>8, <2>2 DEF SnapshotReturns, Tiling
  <2> QED
    BY <1>8, <2>2, <2>3 DEF SnapshotReturns, Tiling
<1>9. CASE UNCHANGED vars
  BY <1>1, <1>9 DEF vars
<1> QED
  BY <1>2, <1>3, <1>4, <1>5, <1>6, <1>7, <1>8, <1>9 DEF Next, Collect

\* For any cycle lengths and clock resolution, the windows the batches report
\* tile the time since the client was made: they do not overlap, and each loses
\* less than the millisecond that Milliseconds truncates (snapshot, RPCSnapshot).
THEOREM WindowsDoTile == Spec => []WindowsTile
<1>1. Tiling => WindowsTile
  BY DEF Tiling, WindowsTile, Accounts
<1> QED
  BY <1>1, TilingInit, TilingStep, PTL DEF Spec
=============================================================================
