--------------------------- MODULE AgentLoopProofs ---------------------------
(***************************************************************************)
(* Proofs about AgentLoop, for any queue, retry limit and number of boots  *)
(* and batches: a cycle that shutdown cut short is not shipped, the        *)
(* counters add up, and, where every boot has an identity of its own, the  *)
(* receiver's checks of keys, sequence and counters never fail.            *)
(***************************************************************************)
EXTENDS AgentLoop, TLAPS, SequenceTheorems

Counters == [exported : Nat, dropped : Nat, rejected : Nat]
Batches == [boot : Nat, seq : Nat \ {0}, instance : Instances, agent : Counters]

\* The types of the loop and of the exporter.
Types ==
  /\ pc \in {"down", "collect", "check", "export", "wait", "closing"}
  /\ boot \in 0..MaxBoots /\ batchSeq \in Nat
  /\ signalled \in BOOLEAN /\ cut \in BOOLEAN /\ cutShipped \in BOOLEAN
  /\ current \in Batches \cup {None} /\ sending \in Batches \cup {None}
  /\ queue \in Seq(Batches)
  /\ stats \in Counters /\ wire \subseteq Batches
  /\ pc = "export" => current \in Batches

LEMMA NoneIsNoBatch == None \notin Batches
  BY DEF None, Batches

LEMMA BatchFields ==
  ASSUME NEW b \in Batches
  PROVE  b.seq \in Nat /\ b.boot \in Nat /\ b.instance \in Instances /\ b.agent.dropped \in Nat
  BY DEF Batches, Counters

LEMMA InstanceIsOne ==
  ASSUME Types
  PROVE  Instance \in Instances
  BY ConstantsAssumption DEF Types, Instance, Instances

LEMMA NoStatsCount == NoStats \in Counters
  BY DEF NoStats, Counters

LEMMA TypesInit == Init => Types
<1> SUFFICES ASSUME Init PROVE Types
  OBVIOUS
<1>1. queue \in Seq(Batches)
  BY EmptySeq DEF Init
<1>2. boot \in 0..MaxBoots /\ batchSeq \in Nat /\ stats \in Counters
  BY ConstantsAssumption, NoStatsCount DEF Init
<1>5. wire \subseteq Batches
  BY DEF Init
<1>3. signalled \in BOOLEAN /\ cut \in BOOLEAN /\ cutShipped \in BOOLEAN
  BY DEF Init
<1>4. pc = "down" /\ current = None /\ sending = None
  BY DEF Init
<1> QED
  BY <1>1, <1>2, <1>3, <1>4, <1>5 DEF Types

\* A request that is given up adds at most the batch being sent to the wire.
LEMMA AbandonAdds ==
  ASSUME Types, Abandon
  PROVE  /\ \A b \in wire' : b \in Batches /\ (b \in wire \/ b = sending)
         /\ wire' \subseteq Batches /\ UNCHANGED <<ingest, verdicts>>
  BY DEF Abandon, Types

LEMMA TypesStep == Types /\ [Next]_vars => Types'
<1> SUFFICES ASSUME Types, [Next]_vars PROVE Types'
  OBVIOUS
<1> USE ConstantsAssumption DEF Types, loopVars, exportVars, ingestVars
<1>1. CASE Start
  <2>1. queue' \in Seq(Batches)
    BY <1>1, EmptySeq DEF Start
  <2>2. boot' \in 0..MaxBoots /\ batchSeq' \in Nat /\ stats' \in Counters
    BY <1>1, NoStatsCount DEF Start
  <2>3. signalled' \in BOOLEAN /\ cut' \in BOOLEAN /\ cutShipped' \in BOOLEAN
    BY <1>1 DEF Start
  <2>4. pc' = "collect" /\ current' = None /\ sending' = None /\ wire' = wire
    BY <1>1 DEF Start
  <2> QED
    BY <2>1, <2>2, <2>3, <2>4
<1>2. CASE Signal \/ CollectReturns \/ Discard \/ Tick \/ RunReturns
  BY <1>2 DEF Signal, CollectReturns, Discard, Tick, RunReturns
<1>3. CASE Stamp
  <2>1. Stamped \in Batches
    BY InstanceIsOne DEF Stamped, Batches
  <2> QED
    BY <1>3, <2>1 DEF Stamp
<1>4. CASE Export
  <2>1. current \in Batches /\ pc' = "wait" /\ current' = None
    BY <1>4 DEF Export
  <2>2. CASE Len(queue) < QueueSize
    BY <1>4, <2>1, <2>2 DEF Export
  <2>3. CASE ~(Len(queue) < QueueSize)
    <3>1. queue # <<>>
      BY <2>3
    <3>2. Tail(queue) \in Seq(Batches)
      BY <3>1
    <3>3. stats' \in Counters
      BY <1>4, <2>3 DEF Export, Counters
    <3>4. queue' = Append(Tail(queue), current)
      BY <1>4, <2>3 DEF Export
    <3>5. queue' \in Seq(Batches)
      BY <2>1, <3>2, <3>4
    <3> QED
      BY <1>4, <2>1, <3>3, <3>5 DEF Export
  <2> QED
    BY <2>2, <2>3
<1>5. CASE CloseReturns
  <2>1. stats' \in Counters
    BY <1>5 DEF CloseReturns, Counters
  <2> QED
    BY <1>5, <2>1, EmptySeq, AbandonAdds DEF CloseReturns
<1>6. CASE Killed
  BY <1>6, EmptySeq, AbandonAdds DEF Killed
<1>7. CASE WorkerTakes
  BY <1>7 DEF WorkerTakes
<1>8. CASE WorkerSends
  <2>1. stats' \in Counters /\ sending' \in Batches \cup {None} /\ wire' \subseteq Batches
    <3>1. CASE Acknowledged
      BY <1>8, <3>1 DEF Acknowledged, Settle, Counters
    <3>2. CASE Refused
      BY <1>8, <3>2 DEF Refused, Settle, Counters
    <3>3. CASE AttemptFails
      <4>1. stats' \in Counters /\ sending' \in Batches \cup {None}
        BY <1>8, <3>3 DEF AttemptFails, Settle, Counters
      <4>2. wire' \subseteq Batches
        BY <3>3, AbandonAdds DEF AttemptFails
      <4> QED
        BY <4>1, <4>2
    <3> QED
      BY <1>8, <3>1, <3>2, <3>3 DEF WorkerSends
  <2> QED
    BY <1>8, <2>1 DEF WorkerSends
<1>9. CASE UNCHANGED vars \/ ArrivesLate
  BY <1>9 DEF vars, ArrivesLate
<1> QED
  BY <1>1, <1>2, <1>3, <1>4, <1>5, <1>6, <1>7, <1>8, <1>9 DEF Next, Loop

-----------------------------------------------------------------------------
(* Shutdown *)

\* A batch that was cut short meets the check with the signal standing, and does
\* not pass it.
CutIsSeen ==
  /\ pc = "check" /\ cut => signalled
  /\ pc = "export" => ~cut
  /\ ~cutShipped

LEMMA CutIsSeenStep == Types /\ CutIsSeen /\ [Next]_vars => CutIsSeen'
<1> SUFFICES ASSUME Types, CutIsSeen, [Next]_vars PROVE CutIsSeen'
  OBVIOUS
<1> USE DEF CutIsSeen, Types, loopVars, exportVars, ingestVars
<1>1. CASE Start \/ Signal \/ CollectReturns \/ Discard \/ Stamp
  BY <1>1 DEF Start, Signal, CollectReturns, Discard, Stamp
<1>2. CASE Export
  BY <1>2 DEF Export
<1>3. CASE Tick \/ RunReturns \/ CloseReturns \/ Killed
  BY <1>3 DEF Tick, RunReturns, CloseReturns, Killed
<1>4. CASE WorkerTakes \/ WorkerSends
  BY <1>4 DEF WorkerTakes, WorkerSends
<1>5. CASE UNCHANGED vars \/ ArrivesLate
  BY <1>5 DEF vars, ArrivesLate
<1> QED
  BY <1>1, <1>2, <1>3, <1>4, <1>5 DEF Next, Loop

\* A cycle cut short by SIGTERM is never shipped, whenever the signal arrives:
\* runCycle looks at the context once, after the collection.
THEOREM CutNeverShipped == Spec => []ShutdownNotShipped
<1>1. Init => CutIsSeen
  BY DEF Init, CutIsSeen
<1>2. CutIsSeen => ShutdownNotShipped
  BY DEF CutIsSeen, ShutdownNotShipped
<1> QED
  BY <1>1, <1>2, TypesInit, TypesStep, CutIsSeenStep, PTL DEF Spec

-----------------------------------------------------------------------------
(* Counters *)

LEMMA CountersStep == Types /\ CountersAddUp /\ [Next]_vars => CountersAddUp'
<1> SUFFICES ASSUME Types, CountersAddUp, [Next]_vars PROVE CountersAddUp'
  OBVIOUS
<1> USE ConstantsAssumption DEF Types, CountersAddUp, Counters, loopVars, exportVars, ingestVars
<1>1. CASE Start
  <2>1. Len(queue') = 0
    BY <1>1 DEF Start
  <2> QED
    BY <1>1, <2>1 DEF Start, NoStats
<1>2. CASE Signal \/ CollectReturns \/ Discard \/ Tick \/ RunReturns
  <2>1. batchSeq' = batchSeq /\ stats' = stats /\ queue' = queue /\ sending' = sending
    BY <1>2 DEF Signal, CollectReturns, Discard, Tick, RunReturns
  <2>2. pc # "down" /\ (pc' = "export" <=> pc = "export")
    BY <1>2 DEF Signal, CollectReturns, Discard, Tick, RunReturns
  <2> QED
    BY <2>1, <2>2
<1>8. CASE Stamp
  <2>1. batchSeq' = batchSeq + 1 /\ stats' = stats /\ queue' = queue /\ sending' = sending
    BY <1>8 DEF Stamp
  <2>2. pc = "check" /\ pc' = "export"
    BY <1>8 DEF Stamp
  <2> QED
    BY <2>1, <2>2
<1>3. CASE Export
  <2>1. CASE Len(queue) < QueueSize
    <3>1. Len(queue') = Len(queue) + 1
      BY <1>3, <2>1 DEF Export
    <3> QED
      BY <1>3, <2>1, <3>1 DEF Export
  <2>2. CASE ~(Len(queue) < QueueSize)
    <3>1. queue # <<>>
      BY <2>2
    <3>2. Tail(queue) \in Seq(Batches) /\ Len(Tail(queue)) = Len(queue) - 1
      BY <3>1
    <3>3. Len(queue') = Len(queue)
      BY <1>3, <2>2, <3>2 DEF Export
    <3>4. /\ stats'.exported = stats.exported /\ stats'.dropped = stats.dropped + 1
          /\ stats'.rejected = stats.rejected
      BY <1>3, <2>2 DEF Export
    <3>5. pc = "export" /\ pc' = "wait" /\ sending' = sending /\ batchSeq' = batchSeq
      BY <1>3 DEF Export
    <3> QED
      BY <3>3, <3>4, <3>5
  <2> QED
    BY <2>1, <2>2
<1>4. CASE CloseReturns \/ Killed
  BY <1>4 DEF CloseReturns, Killed
<1>5. CASE WorkerTakes
  <2>1. Len(Tail(queue)) = Len(queue) - 1 /\ Head(queue) # None
    BY <1>5, NoneIsNoBatch DEF WorkerTakes
  <2> QED
    BY <1>5, <2>1 DEF WorkerTakes
<1>6. CASE WorkerSends
  <2>1. CASE Acknowledged
    BY <1>6, <2>1 DEF WorkerSends, Acknowledged, Settle
  <2>2. CASE Refused
    BY <1>6, <2>2 DEF WorkerSends, Refused, Settle
  <2>3. CASE AttemptFails
    <3>1. CASE tries < MaxRetries
      BY <1>6, <2>3, <3>1 DEF WorkerSends, AttemptFails
    <3>2. CASE ~(tries < MaxRetries)
      <4>1. sending # None /\ sending' = None /\ stats' = [stats EXCEPT !.dropped = @ + 1]
        BY <2>3, <3>2 DEF AttemptFails, Settle
      <4>2. pc' = pc /\ queue' = queue /\ batchSeq' = batchSeq
        BY <1>6 DEF WorkerSends
      <4> QED
        BY <4>1, <4>2
    <3> QED
      BY <3>1, <3>2
  <2> QED
    BY <1>6, <2>1, <2>2, <2>3 DEF WorkerSends
<1>7. CASE UNCHANGED vars \/ ArrivesLate
  BY <1>7 DEF vars, ArrivesLate
<1> QED
  BY <1>1, <1>2, <1>3, <1>4, <1>5, <1>6, <1>7, <1>8 DEF Next, Loop

\* What a boot has collected is settled, queued, being sent or in hand, at every
\* instant: the counters stamped into a batch tell of earlier batches only.
THEOREM CountersExact == Spec => []CountersAddUp
<1>1. Init => CountersAddUp
  BY DEF Init, CountersAddUp
<1> QED
  BY <1>1, TypesInit, TypesStep, CountersStep, PTL DEF Spec

-----------------------------------------------------------------------------
(* What is held, in order *)

\* b was collected before c.
Older(b, c) == b.seq < c.seq /\ b.agent.dropped <= c.agent.dropped

\* b was collected by this boot, counts only what came before it, and the drops
\* it counts have not been taken back.
Mine(b) ==
  /\ b.boot = boot /\ b.instance = Instance /\ b.seq <= batchSeq
  /\ b.agent.exported + b.agent.dropped + b.agent.rejected < b.seq
  /\ b.agent.dropped <= stats.dropped

\* The batch being sent, the queue and the batch in hand are one ascending
\* sequence, in their numbers and in the drops they report.
Pipeline ==
  /\ \A i, j \in DOMAIN queue : i < j => Older(queue[i], queue[j])
  /\ sending # None => \A i \in DOMAIN queue : Older(sending, queue[i])
  /\ pc = "export" => \A i \in DOMAIN queue : Older(queue[i], current)
  /\ pc = "export" /\ sending # None => Older(sending, current)
  /\ \A i \in DOMAIN queue : Mine(queue[i]) /\ (pc = "export" => queue[i].seq < batchSeq)
  /\ sending # None => Mine(sending) /\ (pc = "export" => sending.seq < batchSeq)
  /\ pc = "export" => Mine(current)
  /\ pc = "down" => queue = <<>> /\ sending = None

\* Nothing but the counters of stats, which only grow, matters to Mine.
LEMMA MineKept ==
  ASSUME Types, Types', NEW b \in Batches, Mine(b),
         boot' = boot, batchSeq <= batchSeq', stats.dropped <= stats'.dropped
  PROVE  Mine(b)'
  BY ConstantsAssumption DEF Types, Mine, Batches, Counters, Instance

\* A shorter queue, and a batch that is gone.
LEMMA PipelineShrinks ==
  ASSUME Types, Types', Pipeline,
         boot' = boot, batchSeq' = batchSeq, stats.dropped <= stats'.dropped,
         pc' = pc, current' = current, queue' = queue, sending' \in {sending, None}
  PROVE  Pipeline'
<1>1. \A b \in Batches : Mine(b) => Mine(b)'
  BY MineKept DEF Types
<1>2. \A i \in DOMAIN queue : queue[i] \in Batches
  BY DEF Types
<1>3. sending # None => sending \in Batches
  BY DEF Types
<1>4. pc = "export" => current \in Batches
  BY DEF Types
<1> QED
  BY <1>1, <1>2, <1>3, <1>4 DEF Pipeline, Older

\* What an attempt to send does: the batch is kept or settled, and it arrives,
\* does not, or may arrive later.
LEMMA Attempt ==
  ASSUME Types, WorkerSends
  PROVE  /\ sending # None /\ sending' \in {sending, None} /\ stats.dropped <= stats'.dropped
         /\ \/ Abandon
            \/ UNCHANGED wire /\ \E acked \in BOOLEAN : Arrives(sending, acked)
<1>1. CASE Acknowledged
  <2>1. stats' = [stats EXCEPT !.exported = @ + 1] /\ sending # None /\ sending' = None
    BY <1>1 DEF Acknowledged, Settle
  <2>2. stats.dropped <= stats'.dropped
    BY <2>1 DEF Types, Counters
  <2> QED
    BY <1>1, <2>1, <2>2 DEF Acknowledged
<1>2. CASE Refused
  <2>1. stats' = [stats EXCEPT !.rejected = @ + 1] /\ sending # None /\ sending' = None
    BY <1>2 DEF Refused, Settle
  <2>2. stats.dropped <= stats'.dropped
    BY <2>1 DEF Types, Counters
  <2> QED
    BY <1>2, <2>1, <2>2 DEF Refused
<1>3. CASE AttemptFails
  <2>1. \/ sending' = sending /\ stats' = stats
        \/ sending' = None /\ stats' = [stats EXCEPT !.dropped = @ + 1]
    BY <1>3 DEF AttemptFails, Settle
  <2>2. stats.dropped <= stats'.dropped
    BY <2>1 DEF Types, Counters
  <2> QED
    BY <1>3, <2>1, <2>2 DEF AttemptFails
<1> QED
  BY <1>1, <1>2, <1>3 DEF WorkerSends

LEMMA PipelineStep == Types /\ CountersAddUp /\ Pipeline /\ [Next]_vars => Pipeline'
<1> SUFFICES ASSUME Types, CountersAddUp, Pipeline, [Next]_vars PROVE Pipeline'
  OBVIOUS
<1>t. Types'
  BY TypesStep
<1> USE ConstantsAssumption DEF loopVars, exportVars, ingestVars
<1>q. \A i \in DOMAIN queue : queue[i] \in Batches
  BY DEF Types
<1>1. CASE Start \/ CloseReturns \/ Killed
  <2>1. queue' = <<>> /\ sending' = None /\ pc' # "export"
    BY <1>1 DEF Start, CloseReturns, Killed
  <2> QED
    BY <2>1 DEF Pipeline
<1>2. CASE Signal \/ CollectReturns \/ Discard \/ Tick \/ RunReturns
  <2>1. /\ boot' = boot /\ batchSeq' = batchSeq /\ stats' = stats /\ queue' = queue /\ sending' = sending
        /\ current' = current
    BY <1>2 DEF Signal, CollectReturns, Discard, Tick, RunReturns
  <2>2. pc # "down" /\ pc' # "down" /\ (pc' = "export" <=> pc = "export")
    BY <1>2 DEF Signal, CollectReturns, Discard, Tick, RunReturns
  <2> QED
    BY <2>1, <2>2 DEF Pipeline, Mine, Instance
<1>3. CASE Stamp
  <2>1. /\ batchSeq' = batchSeq + 1 /\ stats' = stats /\ queue' = queue /\ sending' = sending
        /\ pc = "check" /\ pc' = "export" /\ boot' = boot /\ current' = Stamped
    BY <1>3 DEF Stamp
  <2>2. \A b \in Batches : Mine(b) => Mine(b)' /\ Older(b, Stamped)
    BY <1>t, <2>1 DEF Types, Mine, Batches, Counters, Instance, Stamped, Older
  <2>3. Mine(current)'
    <3>1. stats.exported + stats.dropped + stats.rejected <= batchSeq
      BY <2>1 DEF CountersAddUp, Types, Counters
    <3> QED
      BY <2>1, <3>1 DEF Mine, Stamped, Instance, Types, Counters
  <2>4. sending # None => sending \in Batches /\ Mine(sending)
    BY DEF Types, Pipeline
  <2>5. \A i \in DOMAIN queue : Mine(queue[i])
    BY DEF Pipeline
  <2>6. \A b \in Batches : Mine(b) => b.seq < batchSeq'
    BY <2>1 DEF Mine, Batches, Types
  <2> QED
    BY <1>q, <2>1, <2>2, <2>3, <2>4, <2>5, <2>6 DEF Pipeline
<1>4. CASE Export
  <2>1. /\ boot' = boot /\ batchSeq' = batchSeq /\ sending' = sending /\ pc = "export" /\ pc' = "wait"
        /\ current \in Batches
    BY <1>4 DEF Export, Types
  <2>2. stats.dropped <= stats'.dropped
    BY <1>4 DEF Export, Types, Counters
  <2>3. \A b \in Batches : Mine(b) => Mine(b)'
    BY <1>t, <2>1, <2>2, MineKept DEF Types
  <2>4. PICK rest \in Seq(Batches) :
          /\ queue' = Append(rest, current)
          /\ \A i \in DOMAIN rest : \E k \in DOMAIN queue : rest[i] = queue[k]
          /\ \A i, j \in DOMAIN rest : i < j => Older(rest[i], rest[j])
    <3>1. CASE Len(queue) < QueueSize
      BY <1>4, <3>1 DEF Export, Types, Pipeline
    <3>2. CASE ~(Len(queue) < QueueSize)
      <4>1. queue # <<>>
        BY <3>2 DEF Types
      <4>2. /\ Tail(queue) \in Seq(Batches) /\ Len(Tail(queue)) = Len(queue) - 1
            /\ \A i \in 1..Len(Tail(queue)) : Tail(queue)[i] = queue[i + 1]
        BY <4>1, HeadTailProperties DEF Types
      <4>3. \A i \in DOMAIN Tail(queue) : i + 1 \in DOMAIN queue /\ Tail(queue)[i] = queue[i + 1]
        BY <4>2 DEF Types
      <4>4. \A i, j \in DOMAIN Tail(queue) : i < j => Older(Tail(queue)[i], Tail(queue)[j])
        BY <4>2, <4>3 DEF Pipeline, Types
      <4> QED
        BY <1>4, <3>2, <4>2, <4>3, <4>4 DEF Export
    <3> QED
      BY <3>1, <3>2
  <2>5. /\ \A i \in DOMAIN rest : rest[i] \in Batches /\ Mine(rest[i]) /\ Older(rest[i], current)
        /\ sending # None => \A i \in DOMAIN rest : Older(sending, rest[i])
    BY <1>q, <2>1, <2>4 DEF Pipeline
  <2>6. /\ DOMAIN queue' = 1..(Len(rest) + 1) /\ queue'[Len(rest) + 1] = current
        /\ \A i \in DOMAIN rest : queue'[i] = rest[i]
        /\ DOMAIN rest = 1..Len(rest) /\ Len(rest) \in Nat
    BY <2>1, <2>4
  <2>7. \A i, j \in DOMAIN queue' : i < j => Older(queue'[i], queue'[j])
    BY <2>4, <2>5, <2>6
  <2>8. \A i \in DOMAIN queue' : Mine(queue[i])'
    <3> SUFFICES ASSUME NEW i \in DOMAIN queue' PROVE Mine(queue[i])'
      OBVIOUS
    <3>1. PICK b \in Batches : queue'[i] = b /\ Mine(b)
      BY <2>1, <2>5, <2>6 DEF Pipeline
    <3>2. Mine(b)'
      BY <2>3, <3>1
    <3> QED
      BY <3>1, <3>2 DEF Mine
  <2>9. sending # None => \A i \in DOMAIN queue' : Older(sending, queue'[i])
    BY <2>1, <2>5, <2>6 DEF Pipeline
  <2>10. sending # None => Mine(sending)'
    <3> SUFFICES ASSUME sending # None PROVE Mine(sending)'
      OBVIOUS
    <3>1. PICK b \in Batches : sending = b /\ Mine(b)
      BY DEF Pipeline, Types
    <3>2. Mine(b)'
      BY <2>3, <3>1
    <3> QED
      BY <2>1, <3>1, <3>2 DEF Mine
  <2> QED
    BY <2>1, <2>7, <2>8, <2>9, <2>10 DEF Pipeline
<1>5. CASE WorkerTakes
  <2>1. /\ boot' = boot /\ batchSeq' = batchSeq /\ stats' = stats /\ pc' = pc /\ current' = current
        /\ sending = None /\ queue # <<>> /\ sending' = Head(queue) /\ queue' = Tail(queue) /\ pc # "down"
    BY <1>5 DEF WorkerTakes
  <2>2. /\ Head(queue) = queue[1] /\ 1 \in DOMAIN queue
        /\ \A i \in DOMAIN Tail(queue) : i + 1 \in DOMAIN queue /\ i \in Nat \ {0} /\ Tail(queue)[i] = queue[i + 1]
        /\ DOMAIN queue \subseteq Nat
    BY <2>1, HeadTailProperties DEF Types
  <2>3. Instance' = Instance /\ (pc = "export" => Mine(current)')
    BY <2>1 DEF Instance, Pipeline, Mine
  <2>4. /\ \A i, j \in DOMAIN queue' : i < j => Older(queue'[i], queue'[j])
        /\ \A i \in DOMAIN queue' : Older(sending', queue'[i])
    BY <2>1, <2>2 DEF Pipeline
  <2>5. /\ Mine(queue[1]) /\ (pc = "export" => queue[1].seq < batchSeq /\ Older(queue[1], current))
        /\ \A i \in DOMAIN queue' :
             Mine(queue[i + 1]) /\ (pc = "export" => queue[i + 1].seq < batchSeq /\ Older(queue[i + 1], current))
    BY <2>1, <2>2 DEF Pipeline
  <2>6. /\ Mine(sending)' /\ (pc = "export" => sending'.seq < batchSeq /\ Older(sending', current))
        /\ \A i \in DOMAIN queue' :
             Mine(queue[i])' /\ (pc = "export" => queue'[i].seq < batchSeq /\ Older(queue'[i], current))
    BY <2>1, <2>2, <2>3, <2>5 DEF Mine
  <2> QED
    BY <2>1, <2>3, <2>4, <2>6 DEF Pipeline
<1>6. CASE WorkerSends
  <2>1. stats.dropped <= stats'.dropped /\ sending' \in {sending, None}
    BY <1>6, Attempt
  <2>2. boot' = boot /\ batchSeq' = batchSeq /\ pc' = pc /\ current' = current /\ queue' = queue
    BY <1>6 DEF WorkerSends
  <2> QED
    BY <1>t, <2>1, <2>2, PipelineShrinks
<1>7. CASE UNCHANGED vars \/ ArrivesLate
  BY <1>7 DEF vars, ArrivesLate, Pipeline, Mine, Instance
<1> QED
  BY <1>1, <1>2, <1>3, <1>4, <1>5, <1>6, <1>7 DEF Next, Loop

-----------------------------------------------------------------------------
(* What may still arrive *)

\* The queue after an Export holds the batch and what was queued.
LEMMA ExportQueues ==
  ASSUME Types, Export
  PROVE  \A i \in DOMAIN queue' : queue'[i] = current \/ \E k \in DOMAIN queue : queue'[i] = queue[k]
<1>0. current \in Batches
  BY DEF Export, Types
<1>1. CASE Len(queue) < QueueSize
  BY <1>0, <1>1 DEF Export, Types
<1>2. CASE ~(Len(queue) < QueueSize)
  <2>1. queue # <<>>
    BY <1>2, ConstantsAssumption DEF Types
  <2>2. /\ Tail(queue) \in Seq(Batches) /\ Len(Tail(queue)) = Len(queue) - 1
        /\ \A i \in 1..Len(Tail(queue)) : Tail(queue)[i] = queue[i + 1] /\ i + 1 \in DOMAIN queue
    BY <2>1, HeadTailProperties DEF Types
  <2>3. queue' = Append(Tail(queue), current)
    BY <1>2 DEF Export
  <2> QED
    BY <1>0, <2>2, <2>3
<1> QED
  BY <1>1, <1>2

\* The batches the agent or the network holds.
Held == {b \in Batches : b \in wire \/ b = sending \/ b = current \/ \E i \in DOMAIN queue : b = queue[i]}

\* Only stamp makes a batch.
LEMMA HeldStep ==
  ASSUME Types, [Next]_vars
  PROVE  \A b \in Held' : b \in Held \/ (Stamp /\ b = Stamped)
<1> SUFFICES ASSUME NEW b \in Held' PROVE b \in Held \/ (Stamp /\ b = Stamped)
  OBVIOUS
<1> USE ConstantsAssumption DEF loopVars, exportVars, ingestVars
<1>0. b \in Batches /\ b # None
  BY NoneIsNoBatch DEF Held
<1>1. CASE Start
  <2>1. wire' = wire /\ sending' = None /\ current' = None /\ queue' = <<>>
    BY <1>1 DEF Start
  <2> QED
    BY <1>0, <2>1 DEF Held
<1>2. CASE Signal \/ CollectReturns \/ Discard \/ Tick \/ RunReturns \/ ArrivesLate \/ UNCHANGED vars
  <2>1. wire' = wire /\ sending' = sending /\ current' = current /\ queue' = queue
    BY <1>2 DEF Signal, CollectReturns, Discard, Tick, RunReturns, ArrivesLate, vars
  <2> QED
    BY <2>1 DEF Held
<1>3. CASE Stamp
  <2>1. wire' = wire /\ sending' = sending /\ current' = Stamped /\ queue' = queue
    BY <1>3 DEF Stamp
  <2> QED
    BY <1>3, <2>1 DEF Held
<1>4. CASE Export
  <2>1. wire' = wire /\ sending' = sending /\ current' = None
    BY <1>4 DEF Export
  <2>2. \A i \in DOMAIN queue' : queue'[i] = current \/ \E k \in DOMAIN queue : queue'[i] = queue[k]
    BY <1>4, ExportQueues
  <2> QED
    BY <1>0, <2>1, <2>2 DEF Held
<1>5. CASE CloseReturns \/ Killed
  <2>1. Abandon /\ sending' = None /\ current' = current /\ queue' = <<>>
    BY <1>5 DEF CloseReturns, Killed
  <2> QED
    BY <1>0, <2>1, AbandonAdds DEF Held
<1>6. CASE WorkerTakes
  <2>1. wire' = wire /\ current' = current /\ queue # <<>> /\ sending' = Head(queue) /\ queue' = Tail(queue)
    BY <1>6 DEF WorkerTakes
  <2>2. /\ Head(queue) = queue[1] /\ 1 \in DOMAIN queue
        /\ \A i \in DOMAIN Tail(queue) : i + 1 \in DOMAIN queue /\ Tail(queue)[i] = queue[i + 1]
    BY <2>1, HeadTailProperties DEF Types
  <2> QED
    BY <1>0, <2>1, <2>2 DEF Held
<1>7. CASE WorkerSends
  <2>1. current' = current /\ queue' = queue
    BY <1>7 DEF WorkerSends
  <2>2. sending' \in {sending, None} /\ (Abandon \/ wire' = wire)
    BY <1>7, Attempt
  <2> QED
    BY <1>0, <2>1, <2>2, AbandonAdds DEF Held
<1> QED
  BY <1>1, <1>2, <1>3, <1>4, <1>5, <1>6, <1>7 DEF Next, Loop

\* Every batch carries its boot's identity and counts only what came before it,
\* and of two batches of a boot the later one reports no fewer drops.
Stamps ==
  /\ \A b \in Held :
       /\ b.boot <= boot /\ b.instance = b.boot
       /\ b.agent.exported + b.agent.dropped + b.agent.rejected < b.seq
       /\ b.boot = boot => b.seq <= batchSeq /\ b.agent.dropped <= stats.dropped
  /\ \A b, c \in Held : b.boot = c.boot /\ b.seq < c.seq => b.agent.dropped <= c.agent.dropped

\* Within a boot the numbers and the drops only grow.
LEMMA CountersGrow ==
  ASSUME Types, [Next]_vars
  PROVE  \/ boot' = boot /\ batchSeq <= batchSeq' /\ stats.dropped <= stats'.dropped
         \/ Start /\ boot' = boot + 1
<1> USE ConstantsAssumption DEF Types, loopVars, exportVars, ingestVars
<1>1. CASE Start
  BY <1>1 DEF Start
<1>2. CASE Signal \/ CollectReturns \/ Discard \/ Tick \/ RunReturns \/ ArrivesLate \/ WorkerTakes \/ UNCHANGED vars
  <2>1. boot' = boot /\ batchSeq' = batchSeq /\ stats' = stats
    BY <1>2 DEF Signal, CollectReturns, Discard, Tick, RunReturns, ArrivesLate, WorkerTakes, vars
  <2> QED
    BY <2>1 DEF Counters
<1>3. CASE Stamp
  <2>1. boot' = boot /\ batchSeq' = batchSeq + 1 /\ stats' = stats
    BY <1>3 DEF Stamp
  <2> QED
    BY <2>1 DEF Counters
<1>4. CASE Export
  <2>1. boot' = boot /\ batchSeq' = batchSeq /\ (stats' = stats \/ stats' = [stats EXCEPT !.dropped = @ + 1])
    BY <1>4 DEF Export
  <2> QED
    BY <2>1 DEF Counters
<1>5. CASE CloseReturns \/ Killed
  <2>1. /\ boot' = boot /\ batchSeq' = batchSeq
        /\ stats' = stats \/ stats' = [stats EXCEPT !.dropped = @ + Len(queue) + (IF sending = None THEN 0 ELSE 1)]
    BY <1>5 DEF CloseReturns, Killed
  <2>2. Len(queue) \in Nat
    OBVIOUS
  <2> QED
    BY <2>1, <2>2 DEF Counters
<1>6. CASE WorkerSends
  BY <1>6, Attempt DEF WorkerSends
<1> QED
  BY <1>1, <1>2, <1>3, <1>4, <1>5, <1>6 DEF Next, Loop

LEMMA StampsStep ==
  ASSUME ~StableID
  PROVE  Types /\ CountersAddUp /\ Stamps /\ [Next]_vars => Stamps'
<1> SUFFICES ASSUME Types, CountersAddUp, Stamps, [Next]_vars PROVE Stamps'
  OBVIOUS
<1>t. Types'
  BY TypesStep
<1>h. \A b \in Held' : b \in Held \/ (Stamp /\ b = Stamped)
  BY HeldStep
<1>g. /\ boot \in Nat /\ boot' \in Nat /\ batchSeq \in Nat /\ batchSeq' \in Nat
      /\ stats.dropped \in Nat /\ stats'.dropped \in Nat
  BY <1>t, ConstantsAssumption DEF Types, Counters
<1>k. \A b \in Batches : /\ b.seq \in Nat /\ b.boot \in Nat /\ b.agent.dropped \in Nat
  BY DEF Batches, Counters
<1>b. \A b \in Held : b \in Batches
  BY DEF Held
<1>1. \A b \in Held :
        /\ b.boot <= boot' /\ b.instance = b.boot
        /\ b.agent.exported + b.agent.dropped + b.agent.rejected < b.seq
        /\ b.boot = boot' => b.seq <= batchSeq' /\ b.agent.dropped <= stats'.dropped
  <2>1. CASE boot' = boot /\ batchSeq <= batchSeq' /\ stats.dropped <= stats'.dropped
    BY <1>g, <1>k, <1>b, <2>1 DEF Stamps
  <2>2. CASE boot' = boot + 1
    BY <1>g, <1>k, <1>b, <2>2 DEF Stamps
  <2> QED
    BY <2>1, <2>2, CountersGrow
<1>2. CASE ~Stamp
  <2>1. \A b \in Held' : b \in Held
    BY <1>h, <1>2
  <2> QED
    BY <1>1, <2>1 DEF Stamps
<1>3. CASE Stamp
  <2>1. /\ boot' = boot /\ batchSeq' = batchSeq + 1 /\ stats' = stats /\ pc = "check"
    BY <1>3 DEF Stamp, exportVars
  <2>2. /\ Stamped.boot = boot /\ Stamped.instance = boot /\ Stamped.seq = batchSeq + 1 /\ Stamped.agent = stats
    BY DEF Stamped, Instance
  <2>3. stats.exported + stats.dropped + stats.rejected < batchSeq + 1
    BY <2>1 DEF CountersAddUp, Types, Counters
  <2>4. \A b \in Held : b.boot = boot => b.seq < Stamped.seq /\ b.agent.dropped <= Stamped.agent.dropped
    BY <1>g, <1>k, <1>b, <2>2 DEF Stamps
  <2>5. \A b \in Held' :
          /\ b.boot <= boot' /\ b.instance = b.boot
          /\ b.agent.exported + b.agent.dropped + b.agent.rejected < b.seq
          /\ b.boot = boot' => b.seq <= batchSeq' /\ b.agent.dropped <= stats'.dropped
    BY <1>1, <1>h, <1>g, <2>1, <2>2, <2>3
  <2>6. ASSUME NEW b \in Held', NEW c \in Held', b.boot = c.boot, b.seq < c.seq
        PROVE  b.agent.dropped <= c.agent.dropped
    <3>1. CASE b \in Held /\ c \in Held
      BY <2>6, <3>1 DEF Stamps
    <3>2. CASE b \in Held /\ c = Stamped
      BY <2>2, <2>4, <2>6, <3>2
    <3>3. CASE b = Stamped /\ c \in Held
      BY <1>g, <1>k, <1>b, <2>2, <2>4, <2>6, <3>3
    <3>4. CASE b = Stamped /\ c = Stamped
      BY <1>g, <2>2, <2>6, <3>4
    <3> QED
      BY <1>h, <3>1, <3>2, <3>3, <3>4
  <2> QED
    BY <2>5, <2>6 DEF Stamps
<1> QED
  BY <1>2, <1>3

\* A request given up is behind everything the agent has still to send.
Overtaken ==
  \A b \in wire : b.boot = boot =>
    /\ \A i \in DOMAIN queue : b.seq < queue[i].seq
    /\ pc = "export" => b.seq < current.seq
    /\ sending # None => b.seq <= sending.seq

LEMMA OvertakenStep == Types /\ Pipeline /\ Stamps /\ Overtaken /\ [Next]_vars => Overtaken'
<1> SUFFICES ASSUME Types, Pipeline, Stamps, Overtaken, [Next]_vars PROVE Overtaken'
  OBVIOUS
<1> USE DEF loopVars, exportVars, ingestVars
<1>w. \A b \in wire : b \in Batches /\ b \in Held /\ b.seq \in Nat /\ b.boot \in Nat
  BY DEF Types, Held, Batches
<1>q. \A i \in DOMAIN queue : queue[i] \in Batches /\ queue[i].seq \in Nat
  BY BatchFields DEF Types
<1>1. CASE Start
  <2>1. wire' = wire /\ boot' = boot + 1 /\ boot \in Nat
    BY <1>1, ConstantsAssumption DEF Start, Types
  <2>2. \A b \in wire' : b.boot # boot'
    BY <1>w, <2>1 DEF Stamps
  <2> QED
    BY <2>2 DEF Overtaken
<1>2. CASE Signal \/ CollectReturns \/ Discard \/ Tick \/ RunReturns \/ ArrivesLate \/ UNCHANGED vars
  <2>1. /\ wire' = wire /\ boot' = boot /\ sending' = sending /\ current' = current /\ queue' = queue
        /\ pc' = "export" <=> pc = "export"
    BY <1>2 DEF Signal, CollectReturns, Discard, Tick, RunReturns, ArrivesLate, vars
  <2> QED
    BY <2>1 DEF Overtaken
<1>3. CASE Stamp
  <2>1. wire' = wire /\ boot' = boot /\ sending' = sending /\ current' = Stamped /\ queue' = queue
    BY <1>3 DEF Stamp
  <2>2. \A b \in wire : b.boot = boot => b.seq < Stamped.seq
    BY <1>w DEF Stamps, Stamped, Types
  <2> QED
    BY <2>1, <2>2 DEF Overtaken
<1>4. CASE Export
  <2>1. wire' = wire /\ boot' = boot /\ sending' = sending /\ pc = "export" /\ pc' = "wait"
    BY <1>4 DEF Export
  <2>2. \A i \in DOMAIN queue' : queue'[i] = current \/ \E k \in DOMAIN queue : queue'[i] = queue[k]
    BY <1>4, ExportQueues
  <2> QED
    BY <2>1, <2>2 DEF Overtaken
<1>5. CASE CloseReturns \/ Killed
  <2>1. sending' = None /\ queue' = <<>> /\ pc' = "down"
    BY <1>5 DEF CloseReturns, Killed
  <2> QED
    BY <2>1 DEF Overtaken
<1>6. CASE WorkerTakes
  <2>1. /\ wire' = wire /\ boot' = boot /\ current' = current /\ pc' = pc
        /\ queue # <<>> /\ sending' = Head(queue) /\ queue' = Tail(queue)
    BY <1>6 DEF WorkerTakes
  <2>2. /\ Head(queue) = queue[1] /\ 1 \in DOMAIN queue
        /\ \A i \in DOMAIN Tail(queue) : i + 1 \in DOMAIN queue /\ Tail(queue)[i] = queue[i + 1]
    BY <2>1, HeadTailProperties DEF Types
  <2>3. \A b \in wire : b.boot = boot => b.seq <= sending'.seq
    BY <1>w, <1>q, <2>1, <2>2 DEF Overtaken
  <2> QED
    BY <2>1, <2>2, <2>3 DEF Overtaken
<1>7. CASE WorkerSends
  <2>1. boot' = boot /\ pc' = pc /\ current' = current /\ queue' = queue
    BY <1>7 DEF WorkerSends
  <2>2. sending # None /\ sending' \in {sending, None} /\ (Abandon \/ wire' = wire)
    BY <1>7, Attempt
  <2>3. \A b \in wire' : b \in wire \/ b = sending
    BY <2>2, AbandonAdds
  <2>4. /\ \A i \in DOMAIN queue : sending.seq < queue[i].seq
        /\ pc = "export" => sending.seq < current.seq
        /\ sending.seq \in Nat
    BY <2>2 DEF Pipeline, Older, Types, Batches
  <2> QED
    BY <2>1, <2>2, <2>3, <2>4 DEF Overtaken
<1> QED
  BY <1>1, <1>2, <1>3, <1>4, <1>5, <1>6, <1>7 DEF Next, Loop

-----------------------------------------------------------------------------
(* The receiver *)

Memory == [bodies : SUBSET [seq : Nat, boot : Nat], lastSeen : Nat, lastAcked : Nat, dropped : Int]

\* All but seq_regression, which a request given up may bring about.
Failures == {"counter_regression", "batches_exported", "counter_sum", "body_mismatch"}

\* Where every boot is an instance of its own, the drops the receiver heard of
\* last are no more than those of any batch beyond the last it has seen, and
\* what it has acknowledged of this boot is behind everything still to be sent.
\* The batch being sent may have been acknowledged before, and then its key is
\* known.
Receiver ==
  /\ ingest \in [Instances -> Memory]
  /\ \A i \in Instances : i > boot => ingest[i].lastAcked = 0 /\ ingest[i].dropped = -1
  /\ \A i \in Instances : \A key \in ingest[i].bodies : key.boot = i
  /\ ingest[boot].lastAcked <= batchSeq /\ ingest[boot].dropped <= stats.dropped
  /\ \A b \in Held : b.seq > ingest[b.instance].lastSeen => ingest[b.instance].dropped <= b.agent.dropped
  /\ \A i \in DOMAIN queue : ingest[boot].lastAcked < queue[i].seq
  /\ pc = "export" => ingest[boot].lastAcked < current.seq
  /\ sending # None =>
       /\ ingest[boot].lastAcked <= sending.seq
       /\ ingest[boot].lastAcked = sending.seq => Known(ingest[boot], sending)
  /\ Failures \cap verdicts = {}

LEMMA ReceiverInit == Init => Receiver
<1> SUFFICES ASSUME Init PROVE Receiver
  OBVIOUS
<1> USE ConstantsAssumption DEF Init
<1>1. [bodies |-> {}, lastSeen |-> 0, lastAcked |-> 0, dropped |-> -1] \in Memory
  BY DEF Memory
<1>2. ingest \in [Instances -> Memory]
  BY <1>1
<1>3. \A i \in Instances : ingest[i].lastAcked = 0 /\ ingest[i].dropped = -1 /\ ingest[i].bodies = {}
  OBVIOUS
<1>4. boot \in Instances /\ stats.dropped = 0 /\ batchSeq = 0
  BY DEF Instances, NoStats
<1>5. queue = <<>> /\ sending = None /\ pc # "export" /\ verdicts = {}
  OBVIOUS
<1>6. Held = {}
  BY NoneIsNoBatch DEF Held
<1> QED
  BY <1>2, <1>3, <1>4, <1>5, <1>6 DEF Receiver

\* Whatever arrives, on time or late, the checks of its key and counters pass.
LEMMA NothingFails ==
  ASSUME Types, Stamps, Receiver, NEW b \in Held
  PROVE  /\ Failures \cap (CheckAgent(b) \cup Verdicts(ingest[b.instance], b)) = {}
         /\ ~Regresses(ingest[b.instance], b)
<1>1. b \in Batches /\ b.boot = b.instance /\ b.instance \in Instances
  BY DEF Held, Stamps, Batches
<1>2. ~Regresses(ingest[b.instance], b)
  BY <1>1 DEF Receiver, Regresses, Compared, Gap, Memory, Batches, Counters
<1>3. ~\E key \in ingest[b.instance].bodies : key.seq = b.seq /\ key.boot # b.boot
  BY <1>1 DEF Receiver
<1>4. Failures \cap Verdicts(ingest[b.instance], b) = {}
  BY <1>2, <1>3 DEF Verdicts, Failures
<1>5. ~(b.agent.exported >= b.seq) /\ ~(b.agent.exported + b.agent.dropped + b.agent.rejected > b.seq)
  BY <1>1 DEF Stamps, Batches, Counters
<1>6. CheckAgent(b) = {}
  BY <1>5 DEF CheckAgent
<1> QED
  BY <1>2, <1>4, <1>6

\* What the receiver remembers after an arrival.
LEMMA Arrival ==
  ASSUME Types, Stamps, Receiver, NEW b \in Held, NEW acked \in BOOLEAN, Arrives(b, acked)
  PROVE  /\ b.instance \in Instances /\ ingest' \in [Instances -> Memory]
         /\ \A i \in Instances : i # b.instance => ingest'[i] = ingest[i]
         /\ \A key \in ingest'[b.instance].bodies : key.boot = b.instance
         /\ ingest'[b.instance].lastAcked \in {ingest[b.instance].lastAcked, b.seq}
         /\ ingest[b.instance].bodies \subseteq ingest'[b.instance].bodies /\ Known(ingest'[b.instance], b)
         /\ b.seq <= ingest'[b.instance].lastSeen
         /\ ingest'[b.instance].dropped = b.agent.dropped
         /\ Failures \cap verdicts' = {}
<1>1. b \in Batches /\ b.boot = b.instance /\ b.instance \in Instances /\ ~Regresses(ingest[b.instance], b)
  BY NothingFails DEF Held, Stamps, Batches
<1> DEFINE inst == ingest[b.instance]
           key == [seq |-> b.seq, boot |-> b.boot]
           now == [bodies |-> IF Known(inst, b) THEN inst.bodies ELSE inst.bodies \cup {key},
                   lastSeen |-> Later(inst.lastSeen, b),
                   lastAcked |-> IF acked THEN Later(inst.lastAcked, b) ELSE inst.lastAcked,
                   dropped |-> b.agent.dropped]
<1>2. inst \in Memory
  BY <1>1 DEF Receiver
<1>3. ingest' = [ingest EXCEPT ![b.instance] = now]
  BY <1>1 DEF Arrives
<1>4. key \in [seq : Nat, boot : Nat] /\ key.seq = b.seq /\ key.boot = b.instance
  BY <1>1 DEF Batches
<1>5. inst.bodies \in SUBSET [seq : Nat, boot : Nat] /\ \A k \in inst.bodies : k.boot = b.instance
  BY <1>1, <1>2 DEF Memory, Receiver
<1>6. /\ now.bodies \in SUBSET [seq : Nat, boot : Nat] /\ Known(now, b) /\ inst.bodies \subseteq now.bodies
      /\ \A k \in now.bodies : k.boot = b.instance
  <2> HIDE DEF inst, key
  <2>1. CASE Known(inst, b)
    BY <1>5, <2>1 DEF Known
  <2>2. CASE ~Known(inst, b)
    BY <1>4, <1>5, <2>2 DEF Known
  <2> QED
    BY <2>1, <2>2
<1>7. now.lastSeen \in Nat /\ b.seq <= now.lastSeen /\ now.lastAcked \in Nat /\ now.lastAcked \in {inst.lastAcked, b.seq}
  BY <1>1, <1>2 DEF Memory, Batches, Later
<1>8. now.dropped \in Int /\ now.dropped = b.agent.dropped
  BY <1>1 DEF Batches, Counters
<1>9. Failures \cap verdicts' = {}
  BY NothingFails DEF Arrives, Receiver
<1>10. now \in Memory
  BY <1>6, <1>7, <1>8 DEF Memory
<1> HIDE DEF now
<1>11. /\ ingest'[b.instance] = now /\ ingest' \in [Instances -> Memory]
       /\ \A i \in Instances : i # b.instance => ingest'[i] = ingest[i]
  BY <1>1, <1>3, <1>10 DEF Receiver
<1> QED
  BY <1>1, <1>6, <1>7, <1>8, <1>9, <1>11

\* An arrival of the batch being sent, or of one that was given up, leaves the
\* receiver behind whatever is still to be sent.
LEMMA ReceiverArrives ==
  ASSUME Types, Types', Pipeline, Stamps, Overtaken, Receiver,
         NEW b \in Held, b \in wire \/ (b = sending /\ sending # None),
         NEW acked \in BOOLEAN, Arrives(b, acked),
         boot' = boot, batchSeq' = batchSeq, pc' = pc, current' = current, queue' = queue,
         sending' \in {sending, None}, stats.dropped <= stats'.dropped,
         \A c \in Held' : c \in Held
  PROVE  Receiver'
<1>1. /\ b.instance \in Instances /\ ingest' \in [Instances -> Memory]
      /\ \A i \in Instances : i # b.instance => ingest'[i] = ingest[i]
      /\ \A key \in ingest'[b.instance].bodies : key.boot = b.instance
      /\ ingest'[b.instance].lastAcked \in {ingest[b.instance].lastAcked, b.seq}
      /\ ingest[b.instance].bodies \subseteq ingest'[b.instance].bodies /\ Known(ingest'[b.instance], b)
      /\ b.seq <= ingest'[b.instance].lastSeen
      /\ ingest'[b.instance].dropped = b.agent.dropped
      /\ Failures \cap verdicts' = {}
  BY Arrival
<1>2. /\ b \in Batches /\ b.boot = b.instance /\ b.boot <= boot /\ boot \in Instances
      /\ b.seq \in Nat /\ b.agent.dropped \in Nat /\ b.boot \in Nat /\ boot \in Nat
  <2>1. b \in Batches
    BY DEF Held
  <2>2. boot \in Instances /\ boot \in Nat
    BY ConstantsAssumption DEF Types, Instances
  <2> QED
    BY <2>1, <2>2, BatchFields DEF Stamps
<1>3. /\ \A i \in DOMAIN queue : queue[i] \in Batches /\ queue[i].seq \in Nat
      /\ pc = "export" => current \in Batches /\ current.seq \in Nat
      /\ sending # None => sending \in Batches /\ sending.seq \in Nat
      /\ batchSeq \in Nat /\ stats.dropped \in Nat /\ stats'.dropped \in Nat
  <2>1. /\ \A i \in DOMAIN queue : queue[i] \in Batches
        /\ pc = "export" => current \in Batches
        /\ sending # None => sending \in Batches
    BY DEF Types
  <2>2. batchSeq \in Nat /\ stats.dropped \in Nat /\ stats'.dropped \in Nat
    BY DEF Types, Counters
  <2> QED
    BY <2>1, <2>2, BatchFields
<1>4. \A i \in Instances : /\ ingest[i].lastAcked \in Nat /\ ingest[i].dropped \in Int /\ ingest[i].lastSeen \in Nat
                           /\ ingest'[i].lastAcked \in Nat /\ ingest'[i].dropped \in Int /\ ingest'[i].lastSeen \in Nat
  BY <1>1 DEF Receiver, Memory
<1>5. \A i \in Instances : i > boot => ingest'[i].lastAcked = 0 /\ ingest'[i].dropped = -1
  <2>1. \A i \in Instances : i > boot => i # b.instance
    BY <1>2 DEF Instances
  <2> QED
    BY <1>1, <2>1 DEF Receiver
<1>6. \A i \in Instances : \A key \in ingest'[i].bodies : key.boot = i
  BY <1>1 DEF Receiver
<1>7. \A c \in Held' : c.seq > ingest'[c.instance].lastSeen => ingest'[c.instance].dropped <= c.agent.dropped
  <2> SUFFICES ASSUME NEW c \in Held', c.seq > ingest'[c.instance].lastSeen
               PROVE  ingest'[c.instance].dropped <= c.agent.dropped
    OBVIOUS
  <2>1. c \in Held /\ c \in Batches /\ c.instance \in Instances /\ c.boot = c.instance /\ c.seq \in Nat
    BY DEF Held, Batches, Stamps
  <2>2. CASE c.instance = b.instance
    <3>1. b.seq < c.seq
      BY <1>1, <1>2, <1>4, <2>1, <2>2
    <3>2. b.agent.dropped <= c.agent.dropped
      BY <1>2, <2>1, <2>2, <3>1 DEF Stamps
    <3> QED
      BY <1>1, <2>2, <3>2
  <2>3. CASE c.instance # b.instance
    BY <1>1, <2>1, <2>3 DEF Receiver
  <2> QED
    BY <2>2, <2>3
<1>8. CASE b.instance # boot
  <2>1. ingest'[boot] = ingest[boot]
    BY <1>1, <1>2, <1>8
  <2>2. ingest'[boot'].lastAcked <= batchSeq' /\ ingest'[boot'].dropped <= stats'.dropped
    BY <1>2, <1>3, <1>4, <2>1 DEF Receiver
  <2>3. /\ \A i \in DOMAIN queue' : ingest'[boot'].lastAcked < queue'[i].seq
        /\ pc' = "export" => ingest'[boot'].lastAcked < current'.seq
        /\ sending' # None =>
             /\ ingest'[boot'].lastAcked <= sending'.seq
             /\ ingest'[boot'].lastAcked = sending'.seq => Known(ingest'[boot'], sending')
    BY <2>1 DEF Receiver
  <2> QED
    BY <1>1, <1>5, <1>6, <1>7, <2>2, <2>3 DEF Receiver, Known
<1>9. CASE b.instance = boot
  <2>1. /\ \A i \in DOMAIN queue : b.seq < queue[i].seq
        /\ pc = "export" => b.seq < current.seq
        /\ sending # None => b.seq <= sending.seq
        /\ b.seq <= batchSeq /\ b.agent.dropped <= stats.dropped
    BY <1>2, <1>3, <1>9 DEF Pipeline, Overtaken, Older, Stamps
  <2>2. ingest'[boot].lastAcked = ingest[boot].lastAcked \/ ingest'[boot].lastAcked = b.seq
    BY <1>1, <1>9
  <2>3. ingest'[boot'].lastAcked <= batchSeq' /\ ingest'[boot'].dropped <= stats'.dropped
    BY <1>1, <1>2, <1>3, <1>9, <2>1, <2>2 DEF Receiver
  <2>4. /\ \A i \in DOMAIN queue : ingest'[boot].lastAcked < queue[i].seq
        /\ pc = "export" => ingest'[boot].lastAcked < current.seq
        /\ sending # None => ingest'[boot].lastAcked <= sending.seq
    BY <2>1, <2>2 DEF Receiver
  <2>5. sending # None /\ ingest'[boot].lastAcked = sending.seq => Known(ingest'[boot], sending)
    <3>1. CASE ingest'[boot].lastAcked = b.seq
      BY <1>1, <1>9, <3>1 DEF Known
    <3>2. CASE ingest'[boot].lastAcked = ingest[boot].lastAcked
      BY <1>1, <1>9, <3>2 DEF Known, Receiver
    <3> QED
      BY <2>2, <3>1, <3>2
  <2>6. sending' # None => sending' = sending
    OBVIOUS
  <2>7. sending' # None =>
             /\ ingest'[boot'].lastAcked <= sending'.seq
             /\ ingest'[boot'].lastAcked = sending'.seq => Known(ingest'[boot'], sending')
    BY <2>4, <2>5, <2>6
  <2> QED
    BY <1>1, <1>5, <1>6, <1>7, <2>3, <2>4, <2>7 DEF Receiver, Known
<1> QED
  BY <1>8, <1>9

\* The steps that leave the receiver alone.
LEMMA ReceiverKept ==
  ASSUME ~StableID, Types, Types', Pipeline, Stamps, Receiver, [Next]_vars, UNCHANGED <<ingest, verdicts>>
  PROVE  Receiver'
<1> USE DEF loopVars, exportVars, ingestVars
<1>b. /\ boot \in Instances /\ boot' \in Instances /\ boot \in Nat /\ batchSeq \in Nat /\ batchSeq' \in Nat
      /\ stats.dropped \in Nat /\ stats'.dropped \in Nat
  BY ConstantsAssumption DEF Types, Instances, Counters
<1>m. \A i \in Instances : ingest[i].lastAcked \in Nat /\ ingest[i].dropped \in Int
  BY DEF Receiver, Memory
<1>h. \A b \in Held' : b.seq > ingest'[b.instance].lastSeen => ingest'[b.instance].dropped <= b.agent.dropped
  <2>1. Stamp => Stamped.instance = boot /\ Stamped.agent.dropped = stats.dropped
    BY DEF Stamped, Instance
  <2> QED
    BY <2>1, HeldStep DEF Receiver
<1>i. \A i \in Instances : i > boot' => ingest'[i].lastAcked = 0 /\ ingest'[i].dropped = -1
  <2>1. \A i \in Instances : i > boot' => i > boot
    BY <1>b, CountersGrow DEF Instances
  <2> QED
    BY <2>1 DEF Receiver
<1>c. ingest'[boot'].lastAcked <= batchSeq' /\ ingest'[boot'].dropped <= stats'.dropped
  <2>1. CASE boot' = boot /\ batchSeq <= batchSeq' /\ stats.dropped <= stats'.dropped
    BY <1>b, <1>m, <2>1 DEF Receiver
  <2>2. CASE boot' = boot + 1
    <3>1. ingest[boot'].lastAcked = 0 /\ ingest[boot'].dropped = -1
      BY <1>b, <2>2 DEF Receiver
    <3> QED
      BY <1>b, <3>1
  <2> QED
    BY <2>1, <2>2, CountersGrow
<1> SUFFICES /\ \A i \in DOMAIN queue' : ingest'[boot'].lastAcked < queue'[i].seq
             /\ pc' = "export" => ingest'[boot'].lastAcked < current'.seq
             /\ sending' # None =>
                  /\ ingest'[boot'].lastAcked <= sending'.seq
                  /\ ingest'[boot'].lastAcked = sending'.seq => Known(ingest'[boot'], sending')
  BY <1>h, <1>i, <1>c DEF Receiver, Known
<1>1. CASE Start \/ CloseReturns \/ Killed
  <2>1. queue' = <<>> /\ sending' = None /\ pc' # "export"
    BY <1>1 DEF Start, CloseReturns, Killed
  <2> QED
    BY <2>1
<1>2. CASE Signal \/ CollectReturns \/ Discard \/ Tick \/ RunReturns \/ ArrivesLate \/ UNCHANGED vars
  <2>1. /\ boot' = boot /\ queue' = queue /\ sending' = sending /\ current' = current
        /\ pc' = "export" <=> pc = "export"
    BY <1>2 DEF Signal, CollectReturns, Discard, Tick, RunReturns, ArrivesLate, vars
  <2> QED
    BY <2>1 DEF Receiver
<1>3. CASE Stamp
  <2>1. boot' = boot /\ queue' = queue /\ sending' = sending /\ current' = Stamped
    BY <1>3 DEF Stamp
  <2>2. ingest[boot].lastAcked < Stamped.seq
    BY <1>b, <1>m DEF Stamped, Receiver
  <2> QED
    BY <2>1, <2>2 DEF Receiver
<1>4. CASE Export
  <2>1. boot' = boot /\ sending' = sending /\ pc = "export" /\ pc' = "wait"
    BY <1>4 DEF Export
  <2>2. \A i \in DOMAIN queue' : queue'[i] = current \/ \E k \in DOMAIN queue : queue'[i] = queue[k]
    BY <1>4, ExportQueues
  <2> QED
    BY <2>1, <2>2 DEF Receiver
<1>5. CASE WorkerTakes
  <2>1. /\ boot' = boot /\ pc' = pc /\ current' = current
        /\ queue # <<>> /\ sending' = Head(queue) /\ queue' = Tail(queue)
    BY <1>5 DEF WorkerTakes
  <2>2. /\ Head(queue) = queue[1] /\ 1 \in DOMAIN queue /\ queue[1] \in Batches
        /\ \A i \in DOMAIN Tail(queue) : i + 1 \in DOMAIN queue /\ Tail(queue)[i] = queue[i + 1]
    BY <2>1, HeadTailProperties DEF Types
  <2>3. ingest[boot].lastAcked < sending'.seq /\ sending'.seq \in Nat
    BY <2>1, <2>2, BatchFields DEF Receiver
  <2>4. ~(ingest[boot].lastAcked = sending'.seq) /\ ingest[boot].lastAcked <= sending'.seq
    BY <1>b, <1>m, <2>3
  <2> QED
    BY <2>1, <2>2, <2>4 DEF Receiver
<1>6. CASE WorkerSends
  <2>1. boot' = boot /\ pc' = pc /\ current' = current /\ queue' = queue
    BY <1>6 DEF WorkerSends
  <2>2. sending' \in {sending, None}
    BY <1>6, Attempt
  <2> QED
    BY <2>1, <2>2 DEF Receiver
<1> QED
  BY <1>1, <1>2, <1>3, <1>4, <1>5, <1>6 DEF Next, Loop

LEMMA ReceiverStep ==
  ASSUME ~StableID
  PROVE  Types /\ Pipeline /\ Stamps /\ Overtaken /\ Receiver /\ [Next]_vars => Receiver'
<1> SUFFICES ASSUME Types, Pipeline, Stamps, Overtaken, Receiver, [Next]_vars PROVE Receiver'
  OBVIOUS
<1>t. Types'
  BY TypesStep
<1>1. CASE UNCHANGED <<ingest, verdicts>>
  BY <1>1, <1>t, ReceiverKept
<1>2. ASSUME WorkerSends, NEW acked \in BOOLEAN, Arrives(sending, acked) PROVE Receiver'
  <2>1. boot' = boot /\ batchSeq' = batchSeq /\ pc' = pc /\ current' = current /\ queue' = queue
    BY <1>2 DEF WorkerSends, loopVars
  <2>2. sending # None /\ sending' \in {sending, None} /\ stats.dropped <= stats'.dropped
    BY <1>2, Attempt
  <2>3. sending \in Held
    BY <2>2 DEF Held, Types
  <2>4. \A c \in Held' : c \in Held
    <3>1. ~Stamp
      BY <1>2, <2>1 DEF Stamp
    <3> QED
      BY <3>1, HeldStep
  <2> QED
    BY <1>2, <1>t, <2>1, <2>2, <2>3, <2>4, ReceiverArrives
<1>3. CASE ArrivesLate
  <2>1. PICK b \in wire, acked \in BOOLEAN : Arrives(b, acked)
    BY <1>3 DEF ArrivesLate
  <2>2. /\ boot' = boot /\ batchSeq' = batchSeq /\ pc' = pc /\ current' = current /\ queue' = queue
        /\ sending' = sending /\ stats' = stats /\ wire' = wire
    BY <1>3 DEF ArrivesLate, loopVars, exportVars
  <2>3. b \in Held /\ Held' = Held /\ stats.dropped <= stats'.dropped
    BY <2>2 DEF Held, Types, Counters
  <2> QED
    BY <1>t, <2>1, <2>2, <2>3, ReceiverArrives
<1>4. \/ UNCHANGED <<ingest, verdicts>>
      \/ WorkerSends /\ \E acked \in BOOLEAN : Arrives(sending, acked)
      \/ ArrivesLate
  <2> USE DEF ingestVars
  <2>1. CASE Start \/ Signal \/ CollectReturns \/ Discard \/ Stamp \/ Export \/ Tick \/ RunReturns
    BY <2>1 DEF Start, Signal, CollectReturns, Discard, Stamp, Export, Tick, RunReturns
  <2>2. CASE CloseReturns \/ Killed
    BY <2>2 DEF CloseReturns, Killed, Abandon
  <2>3. CASE WorkerTakes \/ UNCHANGED vars
    BY <2>3 DEF WorkerTakes, vars
  <2>4. CASE WorkerSends
    BY <2>4, Attempt DEF Abandon
  <2> QED
    BY <2>1, <2>2, <2>3, <2>4 DEF Next, Loop
<1> QED
  BY <1>1, <1>2, <1>3, <1>4

LEMMA ReceiverHolds ==
  ASSUME ~StableID
  PROVE  Spec => [](Types /\ Pipeline /\ Receiver)
<1>1. Init => CountersAddUp /\ Pipeline
  BY DEF Init, CountersAddUp, Pipeline
<1>2. Init => Stamps /\ Overtaken
  BY NoneIsNoBatch DEF Init, Stamps, Overtaken, Held
<1> QED
  BY <1>1, <1>2, TypesInit, TypesStep, CountersStep, PipelineStep, StampsStep, OvertakenStep,
     ReceiverInit, ReceiverStep, PTL DEF Spec

\* Where each boot draws an identity of its own: through evictions, retries, lost
\* acknowledgements, kills, restarts and requests taken in after the agent gave
\* them up, in any order and again, no batch counts itself, the drop counter is
\* never seen to go back, and the batch being sent continues the sequence of
\* what was acknowledged, or its key is known.
THEOREM SequenceNeverRegresses ==
  ASSUME ~StableID
  PROVE  Spec => []SequenceAdvances
<1>1. Types /\ Pipeline /\ Receiver => SequenceAdvances
  <2> SUFFICES ASSUME Types, Pipeline, Receiver PROVE SequenceAdvances
    OBVIOUS
  <2>1. {"counter_regression", "batches_exported", "counter_sum"} \cap verdicts = {}
    BY DEF Receiver, Failures
  <2>2. ASSUME sending # None PROVE "seq_regression" \notin Verdicts(ingest[sending.instance], sending)
    <3>1. sending \in Batches /\ sending.instance = boot /\ boot \in Instances
      BY <2>2 DEF Types, Pipeline, Mine, Instance, Instances
    <3>2. ~(~Known(ingest[boot], sending) /\ sending.seq <= ingest[boot].lastAcked)
      BY <2>2, <3>1 DEF Receiver, Memory, Batches
    <3> QED
      BY <3>1, <3>2 DEF Verdicts
  <2> QED
    BY <2>1, <2>2 DEF SequenceAdvances
<1> QED
  BY <1>1, ReceiverHolds, PTL

\* Under the same condition an Idempotency-Key names one batch for ever.  Without
\* it the property is refuted by the run with a stable AGENT_INSTANCE_ID.
THEOREM KeysAreUnique ==
  ASSUME ~StableID
  PROVE  Spec => []KeyNamesOneBatch
<1>1. Receiver => KeyNamesOneBatch
  BY DEF Receiver, KeyNamesOneBatch, Failures
<1> QED
  BY <1>1, ReceiverHolds, PTL

=============================================================================
