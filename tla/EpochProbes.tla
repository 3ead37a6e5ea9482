---------------------------- MODULE EpochProbes -----------------------------
(***************************************************************************)
(* internal/collector/truncation.go: a committed leader epoch that differs *)
(* from the partition's current one is a question to the leader, and a     *)
(* question a leader has answered is remembered and not asked again.       *)
(*                                                                         *)
(* Partitions are (topic, partition) pairs in sorted order and groups are  *)
(* numbered in sorted order.  A committed offset is abstracted to its      *)
(* leader epoch.  The cluster moves on between the samples a cycle takes,  *)
(* and between the rounds of requests.                                     *)
(***************************************************************************)
EXTENDS Integers, Sequences, FiniteSets, TLC, SequencesExt

CONSTANTS
  NumPartitions, NumGroups,
  Clusters,       \* the clusters the agent may be started on: leader and commit
  Consumes,       \* <<p, g>>: group g is still consuming partition p
  MaxProbes,      \* maxEpochProbesPerCycle
  MaxRounds,      \* maxEpochProbeRounds
  MaxRemembered,  \* maxProbedEpochs
  MaxEpoch, MaxTopicID,   \* per partition: bounds on its elections and recreations
  MaxFaults       \* bound on the answers that fail

ASSUME ConstantsAssumption ==
  /\ NumPartitions \in Nat \ {0} /\ NumGroups \in Nat \ {0}
  /\ Consumes \subseteq (1..NumPartitions) \X (1..NumGroups)
  /\ MaxProbes \in Nat \ {0} /\ MaxRounds \in Nat \ {0} /\ MaxRemembered \in Nat \ {0}
  /\ MaxEpoch \in [1..NumPartitions -> Nat] /\ MaxTopicID \in [1..NumPartitions -> Nat] /\ MaxFaults \in Nat

\* A committed epoch is one the partition has had.
ASSUME ClustersAssumption ==
  \A c \in Clusters :
    /\ c.leader \in [1..NumPartitions -> [id : Nat, epoch : Nat]]
    /\ c.commit \in [(1..NumPartitions) \X (1..NumGroups) -> Nat \cup {-1}]
    /\ \A p \in 1..NumPartitions, g \in 1..NumGroups : c.commit[<<p, g>>] <= c.leader[p].epoch

VARIABLES
  leader,    \* leader[p]: the topic ID and current leader epoch of p
  commit,    \* commit[<<p, g>>]: epoch of g's committed offset on p, None without one
  step,      \* what the cycle does next
  topics,    \* leader as the metadata request of this cycle saw it
  triggers,  \* the questions of this cycle, after the filter
  rounds,    \* the requests still to be sent
  asked,     \* the outcome of every question that was sent
  seen,      \* probedEpochs
  faults     \* failed answers so far

clusterVars == <<leader, commit>>
vars == <<clusterVars, step, topics, triggers, rounds, asked, seen, faults>>

None == -1
Partitions == 1..NumPartitions
Groups == 1..NumGroups
Pairs == [i \in 1..(NumPartitions * NumGroups) |->
            <<1 + ((i - 1) \div NumGroups), 1 + ((i - 1) % NumGroups)>>]

\* topics[] between the cycles: the next one samples anew.
NoTopics == [p \in Partitions |-> [id |-> 0, epoch |-> 0]]

Init ==
  /\ \E c \in Clusters : leader = c.leader /\ commit = c.commit
  /\ step = "idle"
  /\ topics = NoTopics
  /\ triggers = <<>> /\ rounds = <<>> /\ asked = <<>>
  /\ seen = {} /\ faults = 0

-----------------------------------------------------------------------------
(* The cluster *)

Elect(p) ==
  /\ leader[p].epoch < MaxEpoch[p]
  /\ leader' = [leader EXCEPT ![p].epoch = @ + 1]
  /\ UNCHANGED <<commit, step, topics, triggers, rounds, asked, seen, faults>>

\* The topic is deleted and created again under the same name.
Recreate(p) ==
  /\ leader[p].id < MaxTopicID[p]
  /\ leader' = [leader EXCEPT ![p] = [id |-> @.id + 1, epoch |-> 0]]
  /\ UNCHANGED <<commit, step, topics, triggers, rounds, asked, seen, faults>>

Commit(p, g) ==
  /\ <<p, g>> \in Consumes
  /\ \E e \in 0..leader[p].epoch : commit[<<p, g>>] < e /\ commit' = [commit EXCEPT ![<<p, g>>] = e]
  /\ UNCHANGED <<leader, step, topics, triggers, rounds, asked, seen, faults>>

-----------------------------------------------------------------------------
(* One cycle *)

Trigger(p, g, committed, at) ==
  [part |-> p, group |-> g, id |-> at[p].id, committed |-> committed, current |-> at[p].epoch]

\* epochTriggers: the mismatches, sorted and then capped.  Here and below, a
\* loop over a sequence is a function of the number of turns taken.
Mismatches(at, committed) ==
  LET found[i \in 0..Len(Pairs)] ==
        IF i = 0 THEN <<>>
        ELSE IF committed[Pairs[i]] < 0 \/ committed[Pairs[i]] = at[Pairs[i][1]].epoch THEN found[i - 1]
        ELSE Append(found[i - 1], Trigger(Pairs[i][1], Pairs[i][2], committed[Pairs[i]], at))
  IN  found[Len(Pairs)]

EpochTriggers(at, committed) ==
  LET all == Mismatches(at, committed) IN SubSeq(all, 1, IF Len(all) <= MaxProbes THEN Len(all) ELSE MaxProbes)

ProbeKey(t) == [part |-> t.part, id |-> t.id, committed |-> t.committed, current |-> t.current]
Key(t) == <<t.part, t.committed>>

\* What a leader has answered is not asked again (probedEpochs.answered).
Fresh(ts, known) ==
  LET fresh[i \in 0..Len(ts)] ==
        IF i = 0 THEN <<>>
        ELSE IF ProbeKey(ts[i]) \in known THEN fresh[i - 1] ELSE Append(fresh[i - 1], ts[i])
  IN  fresh[Len(ts)]

\* OffsetForLeaderEpochRequest.Add: a request asks about one epoch of a partition.
Add(req, p, epoch) == [q \in DOMAIN req \cup {p} |-> IF q = p THEN epoch ELSE req[q]]

\* Mutant of Place: only the first round is looked at before a new one is begun.
PlaceFirstOrNew(packed, t) ==
  LET fits(i) == t.part \in DOMAIN packed[i] => packed[i][t.part] = t.committed
  IN  IF packed # <<>> /\ fits(1) THEN [packed EXCEPT ![1] = Add(@, t.part, t.committed)]
      ELSE IF Len(packed) < MaxRounds THEN Append(packed, Add(<<>>, t.part, t.committed))
      ELSE packed

\* epochRounds: each trigger goes into the first round that does not ask about
\* another epoch of its partition; past MaxRounds rounds it is left out.
Place(packed, t) ==
  LET fits(i) == t.part \in DOMAIN packed[i] => packed[i][t.part] = t.committed
      open == {i \in DOMAIN packed : fits(i)}
  IN  IF open # {} THEN [packed EXCEPT ![Min(open)] = Add(@, t.part, t.committed)]
      ELSE IF Len(packed) < MaxRounds THEN Append(packed, Add(<<>>, t.part, t.committed))
      ELSE packed

EpochRounds(ts) ==
  LET packed[i \in 0..Len(ts)] == IF i = 0 THEN <<>> ELSE Place(packed[i - 1], ts[i])
  IN  packed[Len(ts)]

\* The cycle's metadata request; every later use of topics[] refers to it.
CollectTopics ==
  /\ step = "idle"
  /\ topics' = leader
  /\ step' = "topics"
  /\ UNCHANGED <<clusterVars, triggers, rounds, asked, seen, faults>>

\* Committed offsets are fetched after the metadata; the phase then works on
\* the two samples alone.
CollectTriggers ==
  /\ step = "topics"
  /\ triggers' = Fresh(EpochTriggers(topics, commit), seen)
  /\ rounds' = EpochRounds(triggers')
  /\ asked' = <<>>
  /\ IF triggers' = <<>> THEN step' = "idle" /\ topics' = NoTopics
                         ELSE step' = "ask" /\ UNCHANGED topics
  /\ UNCHANGED <<clusterVars, seen, faults>>

\* One OffsetForLeaderEpoch request.  "failed" is the whole request; otherwise
\* each partition is answered, answered with an error code, or left out.
AskRound ==
  /\ step = "ask" /\ rounds # <<>>
  /\ \E outcome \in [DOMAIN Head(rounds) -> {"failed", "missing", "error", "answer"}] :
       LET bad == {p \in DOMAIN outcome : outcome[p] # "answer"}
       IN  /\ (\E p \in bad : outcome[p] = "failed") => \A p \in DOMAIN outcome : outcome[p] = "failed"
           /\ bad # {} => faults < MaxFaults
           /\ faults' = IF bad = {} THEN faults ELSE faults + 1
           /\ asked' = [k \in {<<p, Head(rounds)[p]>> : p \in DOMAIN outcome} |-> outcome[k[1]]] @@ asked
  /\ rounds' = Tail(rounds)
  /\ UNCHANGED <<clusterVars, step, topics, triggers, seen>>

\* Mutant of Settles: an answer of any kind retires the question.
SettlesAny(answer) == answer # "failed"

\* epochAnswer.settles
Settles(answer) == answer = "answer"

\* Mutant of Remember: a memory of one question.
RememberLast(known, k) == {k}

\* remember: a full set is forgotten as a whole.
Remember(known, k) == (IF Cardinality(known) >= MaxRemembered THEN {} ELSE known) \cup {k}

\* The rows are built; a trigger that was not asked gets none and stays open.
BuildProbes ==
  /\ step = "ask" /\ rounds = <<>>
  /\ LET known[i \in 0..Len(triggers)] ==
           IF i = 0 THEN seen
           ELSE IF Key(triggers[i]) \in DOMAIN asked /\ Settles(asked[Key(triggers[i])])
                THEN Remember(known[i - 1], ProbeKey(triggers[i])) ELSE known[i - 1]
     IN  seen' = known[Len(triggers)]
  /\ triggers' = <<>> /\ asked' = <<>> /\ topics' = NoTopics
  /\ step' = "idle"
  /\ UNCHANGED <<clusterVars, rounds, faults>>

Cycle == CollectTopics \/ CollectTriggers \/ AskRound \/ BuildProbes

Next ==
  \/ \E p \in Partitions : Elect(p) \/ Recreate(p) \/ \E g \in Groups : Commit(p, g)
  \/ Cycle

Spec == Init /\ [][Next]_vars

\* The agent collects on a ticker, every request returns, and the cluster
\* moves and fails finitely often (the bounds).
FairSpec == Spec /\ WF_vars(Cycle)

-----------------------------------------------------------------------------
(* Properties *)

\* A question is retired only by a leader's answer: a request that failed, a
\* partition the response left out and an error code all leave it open, however
\* rounds, caps and evictions fall (settles, and the comment on answered).
RetiredOnlyByAnswer ==
  [][\A k \in seen' \ seen :
       /\ <<k.part, k.committed>> \in DOMAIN asked /\ asked[<<k.part, k.committed>>] = "answer"
       /\ [id |-> k.id, epoch |-> k.current] = topics[k.part]]_vars

\* The packing of epochRounds is as tight as the protocol allows: as many
\* rounds as the partition with most distinct epochs needs, and a question is
\* left out only when its partition alone fills every round.
RoundsTight ==
  step = "topics" =>
    LET ts == EpochTriggers(topics, commit)
        packed == EpochRounds(ts)
        epochs(p) == {t.committed : t \in {u \in Range(ts) : u.part = p}}
        need == Max({0} \cup {Cardinality(epochs(p)) : p \in Partitions})
    IN  /\ Len(packed) = IF need <= MaxRounds THEN need ELSE MaxRounds
        /\ \A t \in Range(ts) :
             \/ \E i \in DOMAIN packed : t.part \in DOMAIN packed[i] /\ packed[i][t.part] = t.committed
             \/ Cardinality(epochs(t.part)) > MaxRounds /\ \A i \in DOMAIN packed : t.part \in DOMAIN packed[i]

\* A question that is open now and stays open.
Unanswered == {ProbeKey(t) : t \in Range(Mismatches(leader, commit))} \ seen

\* A question that goes unasked or unanswered survives to the next cycle
\* (comment in collectEpochProbes): once the cluster rests and answers, every
\* mismatch is eventually put to a leader and retired, and then the phase issues
\* nothing, though the mismatches persist (the reason probedEpochs exists).
EventuallyAnswered == <>[](Unanswered = {} /\ rounds = <<>>)
=============================================================================
