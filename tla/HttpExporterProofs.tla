------------------------- MODULE HttpExporterProofs -------------------------
(***************************************************************************)
(* Proofs about HttpExporter, for every queue size, retry limit, timeout,  *)
(* budget and number of batches.                                           *)
(***************************************************************************)
EXTENDS HttpExporter, TLAPS, SequenceTheorems, FiniteSetTheorems

\* What the worker may wait is a natural number, whatever the ceiling.
LEMMA DelaysAreNat ==
  ASSUME NEW n \in Nat, NEW ra \in 0..MaxRetryAfter
  PROVE  Delays(n, ra) \subseteq Nat
<1>1. CASE ra > 0
  BY <1>1, ConstantsAssumption DEF Delays
<1>2. CASE ~(ra > 0)
  <2>1. \A d \in 0..BackoffCeiling(n) : d \in Nat
    OBVIOUS
  <2> QED
    BY <1>2, <2>1 DEF Delays
<1> QED
  BY <1>1, <1>2

\* The variables stay in their types; in particular sendWithRetry never makes
\* more than MaxRetries + 1 attempts, and the worker holds a batch exactly
\* while it is sending or waiting.
THEOREM TypeCorrect == Spec => []TypeOK
<1>1. Init => TypeOK
  <2> SUFFICES ASSUME Init PROVE TypeOK
    OBVIOUS
  <2> USE ConstantsAssumption DEF Init
  <2>1. queue \in Seq(Batches)
    BY EmptySeq
  <2>2. outcome \in [Batches -> Outcomes]
    BY DEF Outcomes
  <2>3. draining \in BOOLEAN
    OBVIOUS
  <2>4. (cur # 0) <=> (workerPc \in {"send", "dead", "wait"})
    OBVIOUS
  <2>5. sent \subseteq Batches /\ received \subseteq sent
    OBVIOUS
  <2> QED
    BY <2>1, <2>2, <2>3, <2>4, <2>5 DEF TypeOK
<1>2. TypeOK /\ [Next]_vars => TypeOK'
  <2> SUFFICES ASSUME TypeOK, [Next]_vars
               PROVE  TypeOK'
    OBVIOUS
  <2> USE ConstantsAssumption DEF TypeOK, agentVars, closeVars, workVars, counterVars
  <2>b. {"none", "exported", "dropped", "rejected", "refused"} = Outcomes
    BY DEF Outcomes
  <2>c. Batches \subseteq 0..MaxBatches /\ 0 \notin Batches /\ (cur # 0 => cur \in Batches)
    BY DEF Batches
  <2>d. MoreBatches => Offered \in Batches /\ Offered \in 0..MaxBatches
    BY DEF Offered, MoreBatches, Batches
  <2>e. exportPc # "idle" => seq \in Batches
    BY DEF Batches
  <2>a. queue # <<>> => Head(queue) \in Batches /\ Tail(queue) \in Seq(Batches)
    BY HeadTailProperties
  <2>1. CASE ExportRefused
    BY <2>1, <2>b, <2>d DEF ExportRefused
  <2>2. CASE ExportDropped
    BY <2>2, <2>b, <2>d DEF ExportDropped
  <2>3. CASE ExportEnqueue
    <3>1. Offered \in Batches /\ Append(queue, Offered) \in Seq(Batches)
      BY <2>3, <2>d, AppendProperties DEF ExportEnqueue
    <3>2. seq' \in 0..MaxBatches /\ seq' # 0
      BY <2>3, <2>c, <2>d DEF ExportEnqueue
    <3>3. CASE queue' = Append(queue, Offered) /\ UNCHANGED exportPc
      BY <2>3, <3>1, <3>2, <3>3 DEF ExportEnqueue
    <3>4. CASE exportPc' = "full" /\ UNCHANGED queue
      BY <2>3, <3>2, <3>4 DEF ExportEnqueue
    <3> QED
      BY <2>3, <3>3, <3>4 DEF ExportEnqueue
  <2>4. CASE ExportEvict
    BY <2>4, <2>a, <2>b DEF ExportEvict
  <2>5. CASE ExportAdmit
    <3>1. Append(queue, seq) \in Seq(Batches)
      BY <2>5, <2>e, AppendProperties DEF ExportAdmit
    <3>2. CASE Len(queue) < QueueSize
      BY <2>5, <3>1, <3>2 DEF ExportAdmit
    <3>3. CASE ~(Len(queue) < QueueSize)
      <4>1. outcome' \in [Batches -> Outcomes]
        BY <2>5, <2>b, <2>e, <3>3 DEF ExportAdmit
      <4> QED
        BY <2>5, <3>3, <4>1 DEF ExportAdmit
    <3> QED
      BY <3>2, <3>3
  <2>6. CASE CloseBegin
    BY <2>6 DEF CloseBegin
  <2>7. CASE CloseGoesOn
    BY <2>7 DEF CloseGoesOn, CloseDone, CloseGraceOver, CloseReturn
  <2>8. CASE WorkerTake
    <3>1. Head(queue) \in Batches /\ Head(queue) # 0 /\ Head(queue) \in 0..MaxBatches
          /\ Tail(queue) \in Seq(Batches)
      BY <2>8, <2>a, <2>c DEF WorkerTake
    <3>2. (workerPc \in {"send", "dead"})' /\ (sent \subseteq Batches /\ received \subseteq sent)'
      BY <2>8, <3>1 DEF WorkerTake, Transmit
    <3> QED
      BY <2>8, <3>1, <3>2 DEF WorkerTake
  <2>9. CASE WorkerSeesDone \/ WorkerExit
    BY <2>9 DEF WorkerSeesDone, WorkerExit
  <2>10. CASE SendOk
    BY <2>10, <2>b, <2>c DEF SendOk, Settle
  <2>17. CASE SendRejected
    BY <2>17, <2>b, <2>c DEF SendRejected, Settle
  <2>11. ASSUME NEW ra \in 0..MaxRetryAfter, SendFailed(ra) PROVE TypeOK'
    <3>1. CASE Drop
      BY <2>11, <3>1, <2>b, <2>c DEF SendFailed, Drop, Settle
    <3>2. ASSUME NEW d \in Delays(attempt + 1, ra), attempt < MaxRetries, Retry(d) PROVE TypeOK'
      <4>1. d \in Nat
        BY DelaysAreNat
      <4>2. cur \in Batches /\ attempt + 1 \in 0..MaxRetries
        BY <2>11, <2>c, <3>2 DEF SendFailed
      <4>3. (workerPc \in {"send", "dead", "wait"})' /\ (timer \in Nat)'
            /\ (sent \subseteq Batches /\ received \subseteq sent)'
        <5>1. CASE d > 0
          BY <3>2, <4>1, <5>1 DEF Retry
        <5>2. CASE ~(d > 0)
          <6>1. Transmit(cur) /\ timer' = 0 /\ UNCHANGED received
            BY <3>2, <5>2 DEF Retry
          <6> QED
            BY <6>1, <4>2 DEF Transmit
        <5> QED
          BY <5>1, <5>2
      <4>4. /\ attempt' = attempt + 1
            /\ UNCHANGED <<agentVars, queue, exported, dropped, rejected, closeVars, draining,
                           cur, spent, received, outcome>>
        BY <3>2 DEF Retry
      <4>5. cur # 0
        BY <4>2, <2>c
      <4> QED
        BY <4>2, <4>3, <4>4, <4>5
    <3> QED
      BY <2>11, <3>1, <3>2 DEF SendFailed
  <2>12. CASE WaitOver
    BY <2>12, <2>c DEF WaitOver, Transmit
  <2>13. CASE WaitAborted
    BY <2>13, <2>b, <2>c DEF WaitAborted, Drop, Settle
  <2>14. ASSUME NEW b \in Batches, IngestReceive(b) PROVE TypeOK'
    BY <2>14 DEF IngestReceive
  <2>15. CASE Tick
    BY <2>15 DEF Tick, Blocked
  <2>16. CASE UNCHANGED vars
    BY <2>16 DEF vars
  <2> QED
    BY <2>1, <2>2, <2>3, <2>4, <2>5, <2>6, <2>7, <2>8, <2>9, <2>10, <2>11, <2>12, <2>13, <2>14,
       <2>15, <2>16, <2>17
    DEF Next, Export, ExportUnencodable, ExportClosed, ExportGoesOn, Worker, SendReturns
<1> QED
  BY <1>1, <1>2, PTL DEF Spec

-----------------------------------------------------------------------------
\* What keeps the lock and the two worker loops in step: Export is between
\* its selects only while the exporter is open, because Close needs the write
\* lock; the worker is in its draining loop only once done is closed, and
\* leaves that loop only when the queue is empty.
ControlInv ==
  /\ exportPc # "idle" => closePc = "open"
  /\ draining => DoneClosed
  /\ workerPc = "exited" => draining /\ queue = <<>>

\* Export, Close and the worker stay in step in every reachable state.
LEMMA ControlInvariant == Spec => []ControlInv
<1>1. Init => ControlInv
  BY DEF Init, ControlInv
<1>2. TypeOK /\ ControlInv /\ [Next]_vars => ControlInv'
  <2> SUFFICES ASSUME TypeOK, ControlInv, [Next]_vars
               PROVE  ControlInv'
    OBVIOUS
  <2> USE DEF ControlInv, DoneClosed, agentVars, closeVars, workVars, counterVars
  <2>1. CASE Export
    <3>1. CASE ExportEnqueue
      BY <3>1 DEF ExportEnqueue
    <3> QED
      BY <2>1, <3>1 DEF Export, ExportRefused, ExportUnencodable, ExportClosed, ExportDropped
  <2>2. CASE ExportGoesOn
    BY <2>2 DEF ExportGoesOn, ExportEvict, ExportAdmit
  <2>3. CASE CloseBegin \/ CloseGoesOn
    BY <2>3 DEF CloseBegin, CloseGoesOn, CloseDone, CloseGraceOver, CloseReturn
  <2>4. CASE WorkerTake \/ WorkerSeesDone \/ WorkerExit
    BY <2>4 DEF WorkerTake, Transmit, WorkerSeesDone, WorkerExit
  <2>5. CASE SendOk \/ SendRejected \/ WaitAborted
    BY <2>5 DEF SendOk, SendRejected, WaitAborted, Drop, Settle
  <2>6. ASSUME NEW ra \in 0..MaxRetryAfter, SendFailed(ra) PROVE ControlInv'
    BY <2>6 DEF SendFailed, Drop, Settle, Retry, Transmit
  <2>7. CASE WaitOver
    BY <2>7 DEF WaitOver, Transmit
  <2>8. CASE Tick \/ \E b \in Batches : IngestReceive(b)
    BY <2>8 DEF Tick, IngestReceive
  <2>9. CASE UNCHANGED vars
    BY <2>9 DEF vars
  <2> QED
    BY <2>1, <2>2, <2>3, <2>4, <2>5, <2>6, <2>7, <2>8, <2>9 DEF Next, Worker, SendReturns
<1> QED
  BY <1>1, <1>2, TypeCorrect, PTL DEF Spec

\* The worker never exits over a batch, and no batch can follow it out: the
\* read lock Export holds across its selects keeps Close out.
THEOREM WorkerLeavesNothing == Spec => []NothingStranded
<1>1. TypeOK /\ ControlInv => NothingStranded
  BY DEF TypeOK, ControlInv, NothingStranded, DoneClosed
<1> QED
  BY <1>1, TypeCorrect, ControlInvariant, PTL

-----------------------------------------------------------------------------
\* The queue stays sorted, with the batch in hand below it and the batch
\* Export is admitting above it, and never exceeds its capacity; eviction
\* really makes room.
QueueInv == OldestFirst /\ RoomAfterEviction

\* Taking the oldest batch off the queue keeps the order.
LEMMA TailOrdered ==
  ASSUME TypeOK, queue # <<>>
  PROVE  /\ Len(queue) \in Nat \ {0}
         /\ Head(queue) = queue[1] /\ 1 \in 1..Len(queue)
         /\ Len(Tail(queue)) = Len(queue) - 1
         /\ \A i \in 1..Len(Tail(queue)) : i + 1 \in 1..Len(queue) /\ Tail(queue)[i] = queue[i + 1]
         /\ \A i \in 1..Len(queue) : queue[i] \in 1..MaxBatches
<1> USE DEF TypeOK, Batches
<1>1. Len(queue) \in Nat \ {0}
  BY EmptySeq
<1>2. Head(queue) = queue[1]
  OBVIOUS
<1>3. \A i \in 1..Len(queue) : queue[i] \in 1..MaxBatches
  BY ElementOfSeq
<1> QED
  BY <1>1, <1>2, <1>3, HeadTailProperties

\* The queue is ordered and within its capacity, also between Export's selects.
LEMMA QueueInvariant == Spec => []QueueInv
<1> USE ConstantsAssumption
<1>1. Init => QueueInv
  BY DEF Init, QueueInv, OldestFirst, RoomAfterEviction, Entering
<1>2. TypeOK /\ QueueInv /\ [Next]_vars => QueueInv'
  <2> SUFFICES ASSUME TypeOK, QueueInv, [Next]_vars
               PROVE  QueueInv'
    OBVIOUS
  <2> USE DEF QueueInv, OldestFirst, RoomAfterEviction, Entering
  <2>a. Len(queue) \in Nat /\ \A i \in 1..Len(queue) : queue[i] \in 1..MaxBatches
    BY LenProperties, ElementOfSeq DEF TypeOK, Batches
  <2>b. seq \in Int /\ cur \in Int
    BY DEF TypeOK
  <2>1. CASE ExportRefused \/ ExportDropped
    BY <2>1, <2>a, <2>b DEF ExportRefused, ExportDropped, Offered, workVars
  <2>2. CASE ExportEnqueue
    <3>1. CASE UNCHANGED queue
      BY <2>2, <3>1, <2>a, <2>b DEF ExportEnqueue, Offered, workVars
    <3>2. CASE Len(queue) < QueueSize /\ queue' = Append(queue, Offered)
      <4>1. Offered \in Batches
        BY <2>2 DEF ExportEnqueue, Offered, MoreBatches, TypeOK, Batches
      <4>2. /\ Len(queue') = Len(queue) + 1
            /\ \A i \in 1..Len(queue) : queue'[i] = queue[i]
            /\ queue'[Len(queue) + 1] = Offered
        BY <3>2, <4>1, AppendProperties DEF TypeOK
      <4>3. seq' = Offered /\ UNCHANGED <<exportPc, cur>> /\ exportPc = "idle"
        BY <2>2, <3>2 DEF ExportEnqueue, workVars, TypeOK
      <4> QED
        BY <3>2, <4>1, <4>2, <4>3, <2>a, <2>b DEF Offered
    <3> QED
      BY <2>2, <3>1, <3>2 DEF ExportEnqueue
  <2>3. CASE ExportEvict
    <3>1. CASE queue # <<>> /\ queue' = Tail(queue)
      <4>1. exportPc = "full" /\ exportPc' = "evicted" /\ UNCHANGED <<seq, cur>>
        BY <2>3, <3>1 DEF ExportEvict, workVars
      <4>2. /\ Len(queue') = Len(queue) - 1 /\ Len(queue) # 0
            /\ \A i \in 1..Len(queue') : i + 1 \in 1..Len(queue) /\ queue'[i] = queue[i + 1]
        BY <3>1, TailOrdered
      <4>3. ASSUME NEW i \in 1..Len(queue'), NEW j \in 1..Len(queue'), i < j
            PROVE  queue'[i] < queue'[j]
        <5>1. i + 1 \in 1..Len(queue) /\ j + 1 \in 1..Len(queue) /\ i + 1 < j + 1
          BY <4>2, <4>3, <2>a
        <5> QED
          BY <4>2, <5>1
      <4>4. \A i \in 1..Len(queue') : cur < queue'[i] /\ queue'[i] <= seq /\ queue'[i] # seq
        BY <4>1, <4>2, <2>a
      <4>5. cur <= seq /\ cur < seq
        BY <4>1
      <4> QED
        BY <4>1, <4>2, <4>3, <4>4, <4>5, <2>a, <2>b
    <3>2. CASE queue = <<>> /\ UNCHANGED queue
      BY <2>3, <3>2, <2>a, <2>b DEF ExportEvict, workVars
    <3> QED
      BY <2>3, <3>1, <3>2 DEF ExportEvict
  <2>4. CASE ExportAdmit
    <3>1. CASE UNCHANGED queue
      <4>1. exportPc' = "idle" /\ UNCHANGED <<seq, queue, cur>>
        BY <2>4, <3>1 DEF ExportAdmit, workVars
      <4> QED
        BY <4>1, <2>a, <2>b
    <3>2. CASE Len(queue) < QueueSize /\ queue' = Append(queue, seq)
      <4>1. seq \in Batches
        BY <2>4 DEF ExportAdmit, TypeOK, Batches
      <4>2. /\ Len(queue') = Len(queue) + 1
            /\ \A i \in 1..Len(queue) : queue'[i] = queue[i]
            /\ queue'[Len(queue) + 1] = seq
        BY <3>2, <4>1, AppendProperties DEF TypeOK
      <4>3. UNCHANGED <<seq, cur>> /\ exportPc' = "idle" /\ exportPc # "idle"
        BY <2>4, <3>2 DEF ExportAdmit, workVars
      <4> QED
        BY <3>2, <4>1, <4>2, <4>3, <2>a, <2>b
    <3> QED
      BY <2>4, <3>1, <3>2 DEF ExportAdmit
  <2>5. CASE WorkerTake
    <3>1. queue # <<>> /\ queue' = Tail(queue) /\ cur' = Head(queue) /\ UNCHANGED <<seq, exportPc>>
      BY <2>5 DEF WorkerTake, agentVars
    <3> QED
      BY <3>1, TailOrdered, <2>a, <2>b
  <2>6. ASSUME UNCHANGED <<seq, exportPc, queue>>, cur' \in {0, cur} PROVE QueueInv'
    BY <2>6, <2>a, <2>b DEF TypeOK
  <2> USE DEF agentVars, workVars
  <2>7. CASE CloseBegin \/ CloseGoesOn
    BY <2>6, <2>7 DEF CloseBegin, CloseGoesOn, CloseDone, CloseGraceOver, CloseReturn
  <2>8. CASE WorkerSeesDone \/ WorkerExit \/ WaitOver
    BY <2>6, <2>8 DEF WorkerSeesDone, WorkerExit, WaitOver
  <2>9. CASE SendOk \/ SendRejected \/ WaitAborted
    BY <2>6, <2>9 DEF SendOk, SendRejected, WaitAborted, Drop, Settle
  <2>10. ASSUME NEW ra \in 0..MaxRetryAfter, SendFailed(ra) PROVE QueueInv'
    BY <2>6, <2>10 DEF SendFailed, Drop, Settle, Retry
  <2>11. CASE Tick \/ \E b \in Batches : IngestReceive(b)
    BY <2>6, <2>11 DEF Tick, IngestReceive
  <2>12. CASE UNCHANGED vars
    BY <2>6, <2>12 DEF vars
  <2> QED
    BY <2>1, <2>2, <2>3, <2>4, <2>5, <2>7, <2>8, <2>9, <2>10, <2>11, <2>12
    DEF Next, Export, ExportUnencodable, ExportClosed, ExportGoesOn, Worker, SendReturns
<1> QED
  BY <1>1, <1>2, TypeCorrect, PTL DEF Spec

\* Drops come from the old end: what is held is always in collection order.
THEOREM QueueOrdered == Spec => []OldestFirst
<1>1. QueueInv => OldestFirst
  BY DEF QueueInv
<1> QED
  BY <1>1, QueueInvariant, PTL

\* The branch of Export commented as unreachable is unreachable.
THEOREM EvictionMakesRoom == Spec => []RoomAfterEviction
<1>1. QueueInv => RoomAfterEviction
  BY DEF QueueInv
<1> QED
  BY <1>1, QueueInvariant, PTL

-----------------------------------------------------------------------------
\* The budget is checked before a wait, so a wait ends within it and the
\* request that follows starts within it; the request's own clock bounds the
\* rest.
TimingInv ==
  /\ workerPc = "idle" => spent = 0
  /\ workerPc = "send" => timer <= Timeout /\ spent <= RetryBudget + timer
  /\ workerPc = "dead" => spent <= RetryBudget
  /\ workerPc = "wait" => spent + timer <= RetryBudget
  /\ workerPc = "exited" => spent = 0
  /\ closeAge <= Grace

\* No wait outlives the budget, no request its timeout, no shutdown its grace.
LEMMA TimingInvariant == Spec => []TimingInv
<1> USE ConstantsAssumption
<1>1. Init => TimingInv
  BY DEF Init, TimingInv, Grace
<1>2. TypeOK /\ TimingInv /\ [Next]_vars => TimingInv'
  <2> SUFFICES ASSUME TypeOK, TimingInv, [Next]_vars
               PROVE  TimingInv'
    OBVIOUS
  <2>a. spent \in Nat /\ timer \in Nat /\ closeAge \in Nat
    BY DEF TypeOK
  <2> USE <2>a DEF TimingInv, closeVars, workVars
  <2>1. CASE Export \/ ExportGoesOn
    BY <2>1 DEF Export, ExportRefused, ExportUnencodable, ExportClosed, ExportDropped, ExportEnqueue,
                ExportGoesOn, ExportEvict, ExportAdmit
  <2>2. CASE CloseBegin \/ CloseGoesOn
    BY <2>2 DEF CloseBegin, CloseGoesOn, CloseDone, CloseGraceOver, CloseReturn
  <2>3. CASE WorkerTake
    BY <2>3 DEF WorkerTake, Transmit
  <2>4. CASE WorkerSeesDone \/ WorkerExit
    BY <2>4 DEF WorkerSeesDone, WorkerExit
  <2>5. CASE SendOk \/ SendRejected \/ WaitAborted
    BY <2>5 DEF SendOk, SendRejected, WaitAborted, Drop, Settle
  <2>6. ASSUME NEW ra \in 0..MaxRetryAfter, SendFailed(ra) PROVE TimingInv'
    <3>1. CASE Drop
      BY <3>1 DEF Drop, Settle
    <3>2. ASSUME NEW d \in Delays(attempt + 1, ra), FitsBudget(d), Retry(d) PROVE TimingInv'
      <4>1. d \in Nat
        BY DelaysAreNat DEF TypeOK
      <4>2. spent < RetryBudget /\ spent + d <= RetryBudget
        BY <3>2, <4>1 DEF FitsBudget
      <4>3. UNCHANGED <<spent, closeAge>>
        BY <3>2 DEF Retry
      <4>4. CASE d > 0
        BY <3>2, <4>2, <4>3, <4>4 DEF Retry
      <4>5. CASE ~(d > 0)
        <5>1. Transmit(cur) /\ timer' = 0
          BY <3>2, <4>5 DEF Retry
        <5> QED
          BY <4>2, <4>3, <5>1 DEF Transmit
      <4> QED
        BY <4>4, <4>5
    <3> QED
      BY <2>6, <3>1, <3>2 DEF SendFailed
  <2>7. CASE WaitOver
    BY <2>7 DEF WaitOver, Transmit
  <2>8. ASSUME NEW b \in Batches, IngestReceive(b) PROVE TimingInv'
    BY <2>8 DEF IngestReceive
  <2>9. CASE Tick
    <3>1. CASE workerPc = "send"
      BY <2>9, <3>1 DEF Tick, Blocked, CloseDue, DoneClosed, Cancelled, Grace, TypeOK
    <3>2. CASE workerPc = "wait"
      BY <2>9, <3>2 DEF Tick, Blocked, CloseDue, DoneClosed, Cancelled, Grace, TypeOK
    <3> QED
      BY <2>9, <3>1, <3>2 DEF Tick, Blocked
  <2>10. CASE UNCHANGED vars
    BY <2>10 DEF vars
  <2> QED
    BY <2>1, <2>2, <2>3, <2>4, <2>5, <2>6, <2>7, <2>8, <2>9, <2>10 DEF Next, Worker, SendReturns
<1> QED
  BY <1>1, <1>2, TypeCorrect, PTL DEF Spec

\* One batch holds the worker for at most the budget plus one timeout.
THEOREM WorkerOccupancy == Spec => []OccupancyBounded
<1>1. TypeOK /\ TimingInv => OccupancyBounded
  BY ConstantsAssumption DEF TypeOK, TimingInv, OccupancyBounded
<1> QED
  BY <1>1, TypeCorrect, TimingInvariant, PTL

\* Close is over within its grace period.
THEOREM CloseWithinGrace == Spec => []CloseBounded
<1>1. TimingInv => CloseBounded
  BY DEF TimingInv, CloseBounded
<1> QED
  BY <1>1, TimingInvariant, PTL

-----------------------------------------------------------------------------
(* Accounting *)

\* Giving one batch its outcome adds one to that tally and to no other.
LEMMA TallyOne ==
  ASSUME TypeOK, NEW b \in Batches, NEW f \in Outcomes \ {"none"},
         outcome[b] = "none", outcome' = [outcome EXCEPT ![b] = f]
  PROVE  /\ Cardinality(WithOutcome(f)') = Cardinality(WithOutcome(f)) + 1
         /\ \A g \in Outcomes \ {"none", f} : WithOutcome(g)' = WithOutcome(g)
<1>1. IsFiniteSet(WithOutcome(f))
  <2>1. IsFiniteSet(Batches)
    BY FS_Interval, ConstantsAssumption DEF Batches
  <2>2. WithOutcome(f) \subseteq Batches
    BY DEF WithOutcome
  <2> QED
    BY <2>1, <2>2, FS_Subset
<1>a. \A c \in Batches : outcome'[c] = IF c = b THEN f ELSE outcome[c]
  BY DEF TypeOK
<1>2. WithOutcome(f)' = WithOutcome(f) \cup {b} /\ b \notin WithOutcome(f)
  BY <1>a DEF WithOutcome
<1>3. \A g \in Outcomes \ {"none", f} : WithOutcome(g)' = WithOutcome(g)
  BY <1>a DEF WithOutcome
<1>4. Cardinality(WithOutcome(f) \cup {b}) = Cardinality(WithOutcome(f)) + 1
  BY <1>1, <1>2, FS_AddElement
<1> QED
  BY <1>2, <1>3, <1>4

\* Enqueueing a batch adds that batch to the queued ones and nothing else.
LEMMA QueuedAppend ==
  ASSUME TypeOK, NEW c \in Batches, queue' = Append(queue, c)
  PROVE  \A b \in Batches : Queued(b)' <=> Queued(b) \/ b = c
<1>1. /\ Len(queue') = Len(queue) + 1 /\ Len(queue) \in Nat
      /\ \A i \in 1..Len(queue) : queue'[i] = queue[i]
      /\ queue'[Len(queue) + 1] = c
  BY AppendProperties, LenProperties DEF TypeOK
<1> QED
  BY <1>1 DEF Queued

\* Receiving takes the head off and, the queue being ordered, nothing else.
LEMMA QueuedTail ==
  ASSUME TypeOK, OldestFirst, queue # <<>>, queue' = Tail(queue)
  PROVE  \A b \in Batches : Queued(b)' <=> Queued(b) /\ b # Head(queue)
<1>1. /\ Len(queue) \in Nat \ {0} /\ Head(queue) = queue[1] /\ Len(queue') = Len(queue) - 1
      /\ \A i \in 1..Len(queue') : i + 1 \in 1..Len(queue) /\ queue'[i] = queue[i + 1]
      /\ \A i \in 1..Len(queue) : queue[i] \in 1..MaxBatches
  BY TailOrdered
<1>2. \A i \in 1..Len(queue) : i # 1 => queue[1] < queue[i]
  BY <1>1 DEF OldestFirst
<1>3. ASSUME NEW b \in Batches, Queued(b)' PROVE Queued(b) /\ b # Head(queue)
  <2>1. PICK i \in 1..Len(queue') : queue'[i] = b
    BY <1>3 DEF Queued
  <2>2. i + 1 \in 1..Len(queue) /\ i + 1 # 1 /\ queue[i + 1] = b
    BY <1>1, <2>1
  <2> QED
    BY <1>1, <1>2, <2>2 DEF Queued
<1>4. ASSUME NEW b \in Batches, Queued(b), b # Head(queue) PROVE Queued(b)'
  <2>1. PICK i \in 1..Len(queue) : queue[i] = b
    BY <1>4 DEF Queued
  <2>2. i - 1 \in 1..Len(queue') /\ queue'[i - 1] = b
    BY <1>1, <1>4, <2>1
  <2> QED
    BY <2>2 DEF Queued
<1> QED
  BY <1>3, <1>4

\* EveryBatchAccounted, with what it takes to be inductive: a batch not yet
\* handed over has no outcome.
AccountInv ==
  /\ EveryBatchAccounted
  /\ \A b \in Batches : b > seq => outcome[b] = "none"

\* Every step moves each batch and the counter that stands for it together.
LEMMA AccountInvariant == Spec => []AccountInv
<1> USE ConstantsAssumption
<1>1. Init => AccountInv
  <2> SUFFICES ASSUME Init PROVE AccountInv
    OBVIOUS
  <2>1. \A f \in Outcomes \ {"none"} : WithOutcome(f) = {}
    BY DEF Init, WithOutcome
  <2>2. \A f \in {"exported", "dropped", "rejected"} : Cardinality(WithOutcome(f)) = 0
    BY <2>1, FS_EmptySet DEF Outcomes
  <2>3. \A b \in Batches : ~(b <= seq) /\ ~Queued(b) /\ b # cur /\ ~Entering(b)
    BY DEF Init, Queued, Entering, Batches
  <2> QED
    BY <2>2, <2>3 DEF Init, AccountInv, EveryBatchAccounted
<1>2. TypeOK /\ QueueInv /\ AccountInv /\ [Next]_vars => AccountInv'
  <2> SUFFICES ASSUME TypeOK, QueueInv, AccountInv, [Next]_vars
               PROVE  AccountInv'
    OBVIOUS
  <2> DEFINE Held(b) == Queued(b) \/ b = cur \/ Entering(b)
             Tallied == /\ exported = Cardinality(WithOutcome("exported"))
                        /\ dropped = Cardinality(WithOutcome("dropped"))
                        /\ rejected = Cardinality(WithOutcome("rejected"))
  <2>a. seq \in Nat /\ cur \in Nat /\ \A b \in Batches : b \in Nat /\ b # 0
    BY DEF TypeOK, Batches
  <2>b. /\ Tallied
        /\ \A b \in Batches : (b <= seq /\ outcome[b] = "none") <=> Held(b)
        /\ \A b \in Batches : b > seq => outcome[b] = "none"
    BY DEF AccountInv, EveryBatchAccounted
  <2>c. ASSUME Tallied',
               \A b \in Batches : (b <= seq' /\ outcome'[b] = "none") <=> Held(b)',
               \A b \in Batches : b > seq' => outcome'[b] = "none"
        PROVE  AccountInv'
    BY <2>c DEF AccountInv, EveryBatchAccounted
  \* steps that touch neither the places nor the outcomes
  <2>d. ASSUME UNCHANGED <<seq, exportPc, queue, cur, exported, dropped, rejected, outcome>>
        PROVE  AccountInv'
    BY <2>d DEF AccountInv, EveryBatchAccounted, Queued, Entering, WithOutcome
  \* steps that give a held or an incoming batch the outcome "dropped"
  <2>e. ASSUME NEW c \in Batches, outcome[c] = "none", dropped' = dropped + 1,
               outcome' = [outcome EXCEPT ![c] = "dropped"], UNCHANGED <<exported, rejected>>
        PROVE  Tallied'
    <3>1. "dropped" \in Outcomes \ {"none"}
          /\ \A g \in {"exported", "rejected"} : g \in Outcomes \ {"none", "dropped"}
      BY DEF Outcomes
    <3>2. /\ Cardinality(WithOutcome("dropped")') = Cardinality(WithOutcome("dropped")) + 1
          /\ \A g \in {"exported", "rejected"} : WithOutcome(g)' = WithOutcome(g)
      BY <2>e, <3>1, TallyOne
    <3> QED
      BY <2>b, <2>e, <3>2
  <2>f. ASSUME UNCHANGED <<outcome, exported, dropped, rejected>> PROVE Tallied'
    BY <2>b, <2>f DEF WithOutcome
  <2>g. ASSUME UNCHANGED queue PROVE \A b \in Batches : Queued(b)' <=> Queued(b)
    BY <2>g DEF Queued
  <2>h. ASSUME MoreBatches
        PROVE  Offered \in Batches /\ outcome[Offered] = "none" /\ Offered = seq + 1
    BY <2>h, <2>a, <2>b DEF MoreBatches, Offered, Batches, TypeOK
  <2>1. CASE ExportRefused
    <3>1. /\ MoreBatches /\ seq' = Offered /\ exportPc = "idle"
          /\ outcome' = [outcome EXCEPT ![Offered] = "refused"]
          /\ UNCHANGED <<exportPc, queue, cur, exported, dropped, rejected>>
      BY <2>1 DEF ExportRefused, counterVars, workVars
    <3>2. Tallied'
      <4>1. "refused" \in Outcomes \ {"none"}
            /\ \A g \in {"exported", "dropped", "rejected"} : g \in Outcomes \ {"none", "refused"}
        BY DEF Outcomes
      <4>2. \A g \in {"exported", "dropped", "rejected"} : WithOutcome(g)' = WithOutcome(g)
        BY <3>1, <4>1, <2>h, TallyOne
      <4> QED
        BY <3>1, <4>2, <2>b
    <3> QED
      BY <3>1, <3>2, <2>a, <2>b, <2>c, <2>g, <2>h DEF TypeOK, Entering
  <2>2. CASE ExportDropped
    <3>1. /\ MoreBatches /\ seq' = Offered /\ exportPc = "idle" /\ dropped' = dropped + 1
          /\ outcome' = [outcome EXCEPT ![Offered] = "dropped"]
          /\ UNCHANGED <<exportPc, queue, cur, exported, rejected>>
      BY <2>2 DEF ExportDropped, workVars
    <3>2. Tallied'
      BY <3>1, <2>e, <2>h
    <3> QED
      BY <3>1, <3>2, <2>a, <2>b, <2>c, <2>g, <2>h DEF TypeOK, Entering
  <2>3. CASE ExportEnqueue
    <3>1. /\ MoreBatches /\ seq' = Offered /\ exportPc = "idle"
          /\ UNCHANGED <<cur, exported, dropped, rejected, outcome>>
      BY <2>3 DEF ExportEnqueue, counterVars, workVars
    <3>2. CASE queue' = Append(queue, Offered) /\ UNCHANGED exportPc
      <4>1. \A b \in Batches : Queued(b)' <=> Queued(b) \/ b = Offered
        BY <3>1, <3>2, <2>h, QueuedAppend
      <4> QED
        BY <3>1, <3>2, <4>1, <2>a, <2>b, <2>c, <2>f, <2>h DEF Entering
    <3>3. CASE exportPc' = "full" /\ UNCHANGED queue
      BY <3>1, <3>3, <2>a, <2>b, <2>c, <2>f, <2>g, <2>h DEF Entering
    <3> QED
      BY <2>3, <3>2, <3>3 DEF ExportEnqueue
  <2>4. CASE ExportEvict
    <3>1. /\ exportPc = "full" /\ exportPc' = "evicted"
          /\ UNCHANGED <<seq, cur, exported, rejected>>
      BY <2>4 DEF ExportEvict, workVars
    <3>2. CASE queue # <<>> /\ queue' = Tail(queue) /\ dropped' = dropped + 1
               /\ outcome' = [outcome EXCEPT ![Head(queue)] = "dropped"]
      <4>1. Head(queue) \in Batches /\ Queued(Head(queue))
        BY <3>2, TailOrdered DEF Queued, Batches
      <4>2. outcome[Head(queue)] = "none" /\ Head(queue) <= seq
        BY <4>1, <2>b
      <4>3. Head(queue) # cur /\ Head(queue) # seq
        BY <3>1, <3>2, TailOrdered, <2>a DEF QueueInv, OldestFirst, Entering
      <4>4. \A b \in Batches : Queued(b)' <=> Queued(b) /\ b # Head(queue)
        BY <3>2, QueuedTail DEF QueueInv
      <4>5. Tallied'
        BY <3>1, <3>2, <4>1, <4>2, <2>e
      <4> QED
        BY <3>1, <3>2, <4>1, <4>2, <4>3, <4>4, <4>5, <2>a, <2>b, <2>c DEF TypeOK, Entering
    <3>3. CASE UNCHANGED <<queue, dropped, outcome>>
      BY <3>1, <3>3, <2>a, <2>b, <2>c, <2>f, <2>g DEF Entering
    <3> QED
      BY <2>4, <3>2, <3>3 DEF ExportEvict
  <2>5. CASE ExportAdmit
    <3>1. /\ exportPc = "evicted" /\ exportPc' = "idle" /\ seq \in Batches
          /\ UNCHANGED <<seq, cur, exported, rejected>>
      BY <2>5 DEF ExportAdmit, workVars, TypeOK, Batches
    <3>2. Entering(seq) /\ outcome[seq] = "none"
      BY <3>1, <2>b DEF Entering
    <3>3. queue' = Append(queue, seq) /\ UNCHANGED <<dropped, outcome>>
      BY <2>5, <3>1 DEF ExportAdmit, QueueInv, RoomAfterEviction
    <3>4. \A b \in Batches : Queued(b)' <=> Queued(b) \/ b = seq
      BY <3>1, <3>3, QueuedAppend
    <3> QED
      BY <3>1, <3>2, <3>3, <3>4, <2>a, <2>b, <2>c, <2>f DEF Entering
  <2>6. CASE WorkerTake
    <3>1. /\ queue # <<>> /\ queue' = Tail(queue) /\ cur' = Head(queue) /\ cur = 0
          /\ UNCHANGED <<seq, exportPc, exported, dropped, rejected, outcome>>
      BY <2>6 DEF WorkerTake, agentVars, counterVars, TypeOK
    <3>2. Head(queue) \in Batches /\ Queued(Head(queue))
      BY <3>1, TailOrdered DEF Queued, Batches
    <3>3. \A b \in Batches : Queued(b)' <=> Queued(b) /\ b # Head(queue)
      BY <3>1, QueuedTail DEF QueueInv
    <3> QED
      BY <3>1, <3>2, <3>3, <2>a, <2>b, <2>c, <2>f DEF Entering
  \* the worker settles the batch in its hands
  <2>7. ASSUME workerPc \in {"send", "dead", "wait"}, NEW f \in Outcomes \ {"none"},
               Settle(f), UNCHANGED <<agentVars, queue>>, Tallied'
        PROVE  AccountInv'
    <3>1. cur \in Batches
      BY <2>7 DEF TypeOK, Batches
    <3>2. ~Queued(cur) /\ ~Entering(cur)
      BY <2>a DEF QueueInv, OldestFirst, Entering, Queued
    <3>3. outcome' = [outcome EXCEPT ![cur] = f] /\ cur' = 0 /\ UNCHANGED <<seq, exportPc, queue>>
      BY <2>7 DEF Settle, agentVars
    <3>4. outcome[cur] = "none" /\ cur <= seq
      BY <2>b, <3>1
    <3> QED
      BY <2>7, <3>1, <3>2, <3>3, <3>4, <2>a, <2>b, <2>c, <2>g DEF TypeOK, Entering
  <2>j. ASSUME workerPc \in {"send", "dead", "wait"} PROVE cur \in Batches /\ outcome[cur] = "none"
    BY <2>b, <2>j DEF TypeOK, Batches
  <2>8. CASE SendOk
    <3>1. Tallied'
      BY <2>8, <2>b, <2>j, TallyOne DEF SendOk, Settle, Outcomes
    <3> QED
      BY <2>7, <2>8, <3>1 DEF SendOk, Outcomes
  <2>9. CASE SendRejected
    <3>1. Tallied'
      BY <2>9, <2>b, <2>j, TallyOne DEF SendRejected, Settle, Outcomes
    <3> QED
      BY <2>7, <2>9, <3>1 DEF SendRejected, Outcomes
  <2>10. ASSUME workerPc \in {"send", "dead", "wait"}, Drop PROVE AccountInv'
    <3>1. Tallied'
      BY <2>10, <2>e, <2>j DEF Drop, Settle
    <3> QED
      BY <2>7, <2>10, <3>1 DEF Drop, Outcomes
  <2>11. ASSUME NEW ra \in 0..MaxRetryAfter, SendFailed(ra) PROVE AccountInv'
    <3>1. ASSUME NEW d, Retry(d) PROVE AccountInv'
      BY <2>d, <3>1 DEF Retry, agentVars
    <3> QED
      BY <2>10, <2>11, <3>1 DEF SendFailed
  <2>12. CASE WaitAborted
    BY <2>10, <2>12 DEF WaitAborted
  <2> USE DEF agentVars, workVars, counterVars
  <2>13. CASE WorkerSeesDone \/ WorkerExit \/ WaitOver
    BY <2>d, <2>13 DEF WorkerSeesDone, WorkerExit, WaitOver
  <2>14. CASE CloseBegin \/ CloseGoesOn
    BY <2>d, <2>14 DEF CloseBegin, CloseGoesOn, CloseDone, CloseGraceOver, CloseReturn
  <2>15. CASE Tick \/ \E b \in Batches : IngestReceive(b)
    BY <2>d, <2>15 DEF Tick, IngestReceive
  <2>16. CASE UNCHANGED vars
    BY <2>d, <2>16 DEF vars
  <2> QED
    BY <2>1, <2>2, <2>3, <2>4, <2>5, <2>6, <2>8, <2>9, <2>11, <2>12, <2>13, <2>14, <2>15, <2>16
    DEF Next, Export, ExportUnencodable, ExportClosed, ExportGoesOn, Worker, SendReturns
<1> QED
  BY <1>1, <1>2, TypeCorrect, QueueInvariant, PTL DEF Spec

\* No batch disappears and none is counted twice.
THEOREM BatchesAccounted == Spec => []EveryBatchAccounted
<1>1. AccountInv => EveryBatchAccounted
  BY DEF AccountInv
<1> QED
  BY <1>1, AccountInvariant, PTL

\* A power of two is a positive number: the number of subsets of a set.
LEMMA PowersOfTwo == \A k \in Nat : 2^k \in Nat \ {0}
<1> TAKE k \in Nat
<1>1. IsFiniteSet(1..k) /\ Cardinality(1..k) = k
  BY FS_Interval
<1>2. IsFiniteSet(SUBSET (1..k)) /\ Cardinality(SUBSET (1..k)) = 2^k
  BY <1>1, FS_SUBSET
<1>3. Cardinality(SUBSET (1..k)) \in Nat /\ Cardinality(SUBSET (1..k)) # 0
  BY <1>2, FS_CardinalityType, FS_EmptySet
<1> QED
  BY <1>2, <1>3

\* A ceiling, wrapped or not, is a positive duration within the cap.
LEMMA CeilingInRange ==
  ASSUME NEW n \in Nat \ {0}
  PROVE  BackoffCeiling(n) \in 1..MaxBackoff
<1>1. /\ 2^(n - 1) \in Int /\ 2^(DurationBits - 1) \in Int /\ 2^DurationBits \in Nat \ {0}
  BY PowersOfTwo, ConstantsAssumption
<1>2. Wrapped(BaseDelay * 2^(n - 1)) \in Int
  BY <1>1, ConstantsAssumption DEF Wrapped
<1> QED
  BY <1>2, ConstantsAssumption DEF BackoffCeiling

\* Int63n in backoff never panics, for any base delay, retry limit and width.
THEOREM JitterAlwaysDrawable == Spec => []JitterDrawable
<1>1. TypeOK => JitterDrawable
  BY CeilingInRange, ConstantsAssumption DEF TypeOK, JitterDrawable
<1> QED
  BY <1>1, TypeCorrect, PTL

-----------------------------------------------------------------------------
(* HTTPExporter implements BatchLedger *)

\* What is pending in the ledger.
Pending(b) == Queued(b) \/ b = cur

\* The bytes of a batch leave the agent while the worker holds it.
SentInv == \A b \in sent : b = cur \/ outcome[b] # "none"

\* A batch the ingest may still take in is not an unseen one.
LEMMA SentInvariant == Spec => []SentInv
<1>1. Init => SentInv
  BY DEF Init, SentInv
<1>2. TypeOK /\ SentInv /\ [Next]_vars => SentInv'
  <2> SUFFICES ASSUME TypeOK, SentInv, [Next]_vars
               PROVE  SentInv'
    OBVIOUS
  <2>a. sent \subseteq Batches /\ outcome \in [Batches -> Outcomes] /\ cur \in Nat
    BY DEF TypeOK
  \* what left the agent stays, and a batch with an outcome keeps one
  <2>b. ASSUME sent' \subseteq sent, cur' = cur \/ cur = 0,
               NEW c, NEW f \in Outcomes \ {"none"}, outcome' = outcome \/ outcome' = [outcome EXCEPT ![c] = f]
        PROVE  SentInv'
    <3>1. \A b \in Batches : outcome[b] # "none" => outcome'[b] # "none"
      BY <2>a, <2>b
    <3>2. 0 \notin Batches
      BY DEF Batches
    <3> QED
      BY <2>a, <2>b, <3>1, <3>2 DEF SentInv
  <2>1. CASE ExportRefused \/ ExportDropped
    BY <2>1, <2>b DEF ExportRefused, ExportDropped, workVars, Outcomes
  <2>2. CASE ExportEnqueue \/ ExportEvict \/ ExportAdmit
    <3>1. sent' = sent /\ cur' = cur /\ "dropped" \in Outcomes \ {"none"}
      BY <2>2 DEF ExportEnqueue, ExportEvict, ExportAdmit, workVars, Outcomes
    <3>2. outcome' = outcome \/ \E c : outcome' = [outcome EXCEPT ![c] = "dropped"]
      BY <2>2 DEF ExportEnqueue, ExportEvict, ExportAdmit
    <3> QED
      BY <3>1, <3>2, <2>b
  <2>3. CASE CloseBegin \/ CloseGoesOn \/ Tick \/ WorkerSeesDone \/ WorkerExit
    BY <2>3, <2>b DEF CloseBegin, CloseGoesOn, CloseDone, CloseGraceOver, CloseReturn, Tick, WorkerSeesDone,
                      WorkerExit, workVars, Outcomes
  <2>4. CASE \E b \in Batches : IngestReceive(b)
    BY <2>4, <2>b DEF IngestReceive, workVars, Outcomes
  <2>5. CASE WorkerTake
    <3>1. cur = 0 /\ sent' \subseteq sent \cup {cur'} /\ outcome' = outcome
      BY <2>5 DEF WorkerTake, Transmit, TypeOK
    <3>2. 0 \notin Batches
      BY DEF Batches
    <3> QED
      BY <2>a, <3>1, <3>2 DEF SentInv
  <2>6. CASE WaitOver
    <3>1. sent' \subseteq sent \cup {cur} /\ cur' = cur /\ outcome' = outcome
      BY <2>6 DEF WaitOver, Transmit
    <3> QED
      BY <3>1 DEF SentInv
  \* the batch in hand is settled
  <2>7. ASSUME workerPc \in {"send", "dead", "wait"}, NEW f \in Outcomes \ {"none"}, Settle(f), sent' = sent
        PROVE  SentInv'
    <3>1. cur \in Batches /\ outcome' = [outcome EXCEPT ![cur] = f]
      BY <2>7 DEF TypeOK, Settle, Batches
    <3>2. \A b \in Batches : outcome'[b] = IF b = cur THEN f ELSE outcome[b]
      BY <2>a, <3>1
    <3> QED
      BY <2>a, <2>7, <3>2 DEF SentInv
  <2>8. CASE SendOk \/ SendRejected
    BY <2>7, <2>8 DEF SendOk, SendRejected, Outcomes
  <2>9. CASE WaitAborted
    BY <2>7, <2>9 DEF WaitAborted, Drop, Outcomes
  <2>10. ASSUME NEW ra \in 0..MaxRetryAfter, SendFailed(ra)
         PROVE  SentInv'
    <3>1. CASE Drop
      BY <2>7, <2>10, <3>1 DEF SendFailed, Drop, Outcomes
    <3>2. ASSUME NEW d, Retry(d)
          PROVE  SentInv'
      <4>1. sent' \subseteq sent \cup {cur} /\ cur' = cur /\ outcome' = outcome
        BY <3>2 DEF Retry, Transmit
      <4> QED
        BY <4>1 DEF SentInv
    <3> QED
      BY <2>10, <3>1, <3>2 DEF SendFailed
  <2>11. CASE UNCHANGED vars
    BY <2>11 DEF vars, workVars, SentInv
  <2> QED
    BY <2>1, <2>2, <2>3, <2>4, <2>5, <2>6, <2>8, <2>9, <2>10, <2>11
    DEF Next, Export, ExportUnencodable, ExportClosed, ExportGoesOn, Worker, SendReturns
<1> QED
  BY <1>1, <1>2, TypeCorrect, PTL DEF Spec

LEMMA FateOf ==
  \A b \in Batches : LedgerFate[b] = IF Pending(b) THEN "pending"
                                     ELSE IF outcome[b] = "none" THEN "unseen" ELSE outcome[b]
BY DEF LedgerFate, Pending

\* A step that moves no batch into or out of the exporter's hands.
LEMMA FateStays ==
  ASSUME \A b \in Batches : Pending(b)' <=> Pending(b), outcome' = outcome
  PROVE  LedgerFate' = LedgerFate
BY DEF LedgerFate, Pending

\* A step that decides about one batch.
LEMMA FateOfOne ==
  ASSUME NEW c \in Batches, NEW f, \A b \in Batches \ {c} : (Pending(b)' <=> Pending(b)) /\ outcome'[b] = outcome[b],
         f = IF Pending(c)' THEN "pending" ELSE IF outcome'[c] = "none" THEN "unseen" ELSE outcome'[c]
  PROVE  LedgerFate' = [LedgerFate EXCEPT ![c] = f]
<1>1. \A b \in Batches : LedgerFate'[b] = IF Pending(b)' THEN "pending"
                                          ELSE IF outcome'[b] = "none" THEN "unseen" ELSE outcome'[b]
  BY DEF LedgerFate, Pending
<1>2. \A b \in Batches : LedgerFate'[b] = IF b = c THEN f ELSE LedgerFate[b]
  BY <1>1, FateOf
<1>3. LedgerFate' = [b \in Batches |-> LedgerFate'[b]] /\ LedgerFate = [b \in Batches |-> LedgerFate[b]]
  BY DEF LedgerFate
<1> QED
  BY <1>2, <1>3

\* The safety part of LedgerSpec.
LedgerSafety == Ledger!Init /\ [][Ledger!Next]_(Ledger!vars)

RefinementInv == TypeOK /\ QueueInv /\ AccountInv /\ SentInv

\* What the invariants say of the batches in the ledger's terms.
LEMMA LedgerFacts ==
  ASSUME RefinementInv
  PROVE  /\ \A b \in Batches : Pending(b) => outcome[b] = "none" /\ b <= seq
         /\ \A b \in Batches : b > seq => LedgerFate[b] = "unseen"
         /\ \A b \in Batches : b \in sent => LedgerFate[b] # "unseen"
         /\ exportPc # "idle" /\ seq \in Batches => LedgerFate[seq] = "unseen"
<1>1. seq \in Nat /\ cur \in Nat /\ sent \subseteq Batches /\ \A b \in Batches : b \in Nat
  BY DEF RefinementInv, TypeOK, Batches
<1>2. \A b \in Batches : (b <= seq /\ outcome[b] = "none") <=> (Pending(b) \/ Entering(b))
  BY DEF RefinementInv, AccountInv, EveryBatchAccounted, Pending
<1>3. \A b \in Batches : Pending(b) => outcome[b] = "none" /\ b <= seq
  BY <1>2
<1>4. \A b \in Batches : b > seq => ~Pending(b) /\ outcome[b] = "none"
  BY <1>1, <1>3 DEF RefinementInv, AccountInv
<1>5. \A b \in Batches : b > seq => LedgerFate[b] = "unseen"
  BY <1>4, FateOf
<1>6. \A b \in Batches : b \in sent => Pending(b) \/ outcome[b] # "none"
  BY DEF RefinementInv, SentInv, Pending
<1>7. "unseen" \notin Outcomes
  BY DEF Outcomes
<1>8. \A b \in Batches : b \in sent => LedgerFate[b] # "unseen"
  BY <1>6, <1>7, FateOf DEF RefinementInv, TypeOK
<1>9. exportPc # "idle" /\ seq \in Batches => ~Pending(seq) /\ outcome[seq] = "none"
  <2>1. exportPc # "idle" => ~Queued(seq) /\ seq # cur
    BY <1>1 DEF RefinementInv, QueueInv, OldestFirst, Queued, Entering
  <2>2. exportPc # "idle" /\ seq \in Batches => outcome[seq] = "none"
    BY <1>2 DEF Entering
  <2> QED
    BY <2>1, <2>2 DEF Pending
<1>10. exportPc # "idle" /\ seq \in Batches => LedgerFate[seq] = "unseen"
  BY <1>9, FateOf
<1> QED
  BY <1>3, <1>5, <1>8, <1>10

\* When a batch leaves, at most the one in the worker's hands is older.
LEMMA FewOlder ==
  ASSUME RefinementInv, NEW c \in Batches, c = cur \/ (queue # <<>> /\ c = Head(queue))
  PROVE  Cardinality({b \in {d \in Batches : LedgerFate[d] = "pending"} : b < c}) <= 1
<1> DEFINE Older == {b \in {d \in Batches : LedgerFate[d] = "pending"} : b < c}
<1>1. cur \in Nat /\ \A b \in Batches : b \in Nat
  BY DEF RefinementInv, TypeOK, Batches
<1>2. \A b \in Batches : LedgerFate[b] = "pending" => Pending(b)
  <2>1. "pending" \notin Outcomes
    BY DEF Outcomes
  <2> QED
    BY <2>1, FateOf DEF RefinementInv, TypeOK
<1>3. \A b \in Batches : Queued(b) => c <= b
  <2> SUFFICES ASSUME NEW b \in Batches, Queued(b)
               PROVE  c <= b
    OBVIOUS
  <2>1. PICK i \in 1..Len(queue) : queue[i] = b
    BY DEF Queued
  <2>2. CASE c = cur
    BY <1>1, <2>1, <2>2 DEF RefinementInv, QueueInv, OldestFirst
  <2>3. CASE queue # <<>> /\ c = Head(queue)
    <3>1. Len(queue) \in Nat \ {0} /\ c = queue[1] /\ 1 \in 1..Len(queue)
      BY <2>3, TailOrdered DEF RefinementInv
    <3>2. i = 1 \/ 1 < i
      BY <2>1, <3>1
    <3>3. i = 1 \/ queue[1] < queue[i]
      BY <2>1, <3>1, <3>2 DEF RefinementInv, QueueInv, OldestFirst
    <3> QED
      BY <1>1, <2>1, <3>1, <3>3
  <2> QED
    BY <2>2, <2>3
<1>4. Older \subseteq {cur}
  BY <1>1, <1>2, <1>3 DEF Pending
<1>5. IsFiniteSet({cur}) /\ Cardinality({cur}) = 1
  BY FS_Singleton
<1>6. Cardinality(Older) <= 1
  BY <1>4, <1>5, FS_Subset
<1> QED
  BY <1>6

\* The batch Export holds is taken on.
LEMMA OfferStep ==
  ASSUME RefinementInv, NEW c \in Batches, LedgerFate[c] = "unseen", c >= seq,
         LedgerFate' = [LedgerFate EXCEPT ![c] = "pending"], UNCHANGED <<received, exported, dropped, rejected>>
  PROVE  Ledger!Next
<1>1. \A b \in Batches : b > c => LedgerFate[b] = "unseen"
  BY LedgerFacts DEF RefinementInv, TypeOK, Batches
<1>2. Ledger!Offer(c)
  BY <1>1 DEF Ledger!Offer
<1> QED
  BY <1>2 DEF Ledger!Next

LEMMA TurnAwayStep ==
  ASSUME NEW c \in Batches, LedgerFate[c] = "unseen", NEW f \in {"dropped", "refused"},
         LedgerFate' = [LedgerFate EXCEPT ![c] = f], dropped' = IF f = "dropped" THEN dropped + 1 ELSE dropped,
         UNCHANGED <<received, exported, rejected>>
  PROVE  Ledger!Next
<1>1. Ledger!TurnAway(c)
  BY DEF Ledger!TurnAway
<1> QED
  BY <1>1 DEF Ledger!Next

LEMMA SettleStep ==
  ASSUME RefinementInv, NEW c \in Batches, c = cur \/ (queue # <<>> /\ c = Head(queue)),
         LedgerFate[c] = "pending", NEW f \in {"exported", "dropped", "rejected"},
         f = "exported" => c \in received, LedgerFate' = [LedgerFate EXCEPT ![c] = f],
         exported' = exported + (IF f = "exported" THEN 1 ELSE 0),
         dropped' = dropped + (IF f = "dropped" THEN 1 ELSE 0),
         rejected' = rejected + (IF f = "rejected" THEN 1 ELSE 0), received' = received
  PROVE  Ledger!Next
<1>1. Cardinality({b \in {d \in Batches : LedgerFate[d] = "pending"} : b < c}) <= 1
  BY FewOlder
<1>2. Cardinality(Ledger!Older(c)) <= 1
  BY <1>1 DEF Ledger!Older, Ledger!With
<1>3. \A S : Ledger!Cardinality(S) = Cardinality(S)
  BY DEF Ledger!Cardinality, Cardinality
<1>4. Ledger!Settle(c, f)
  BY <1>2, <1>3 DEF Ledger!Settle
<1> QED
  BY <1>4 DEF Ledger!Next, Ledger!SettleSome

\* Export's side: a batch is taken on, turned away, or evicts the oldest.
LEMMA ExportRefines ==
  ASSUME RefinementInv, ExportRefused \/ ExportDropped \/ ExportEnqueue \/ ExportEvict \/ ExportAdmit
  PROVE  Ledger!Next \/ UNCHANGED Ledger!vars
<1>1. /\ TypeOK /\ OldestFirst /\ seq \in Nat /\ cur \in Nat /\ seq <= MaxBatches
      /\ outcome \in [Batches -> Outcomes] /\ \A b \in Batches : b \in Nat
  BY DEF RefinementInv, QueueInv, TypeOK, Batches
<1>2. ASSUME UNCHANGED queue, cur' = cur
      PROVE  \A b \in Batches : Pending(b)' <=> Pending(b)
  BY <1>2 DEF Pending, Queued
<1>3. ASSUME MoreBatches
      PROVE  Offered \in Batches /\ Offered > seq /\ LedgerFate[Offered] = "unseen" /\ ~Pending(Offered)
  <2>1. Offered \in Batches /\ Offered > seq
    BY <1>1, <1>3, ConstantsAssumption DEF MoreBatches, Offered, Batches
  <2>2. ~Pending(Offered)
    BY <1>1, <2>1, LedgerFacts
  <2> QED
    BY <2>1, <2>2, LedgerFacts
<1>4. ASSUME NEW f \in {"dropped", "refused"}, MoreBatches, UNCHANGED queue, cur' = cur,
             outcome' = [outcome EXCEPT ![Offered] = f],
             dropped' = IF f = "dropped" THEN dropped + 1 ELSE dropped, UNCHANGED <<received, exported, rejected>>
      PROVE  Ledger!Next
  <2>1. PICK c \in Batches : c = Offered
    BY <1>3, <1>4
  <2>2. outcome'[c] = f /\ f # "none" /\ \A b \in Batches \ {c} : outcome'[b] = outcome[b]
    BY <1>1, <1>4, <2>1
  <2>3. (\A b \in Batches : Pending(b)' <=> Pending(b)) /\ ~Pending(c)
    BY <1>2, <1>3, <1>4, <2>1
  <2>4. LedgerFate' = [LedgerFate EXCEPT ![c] = f]
    BY <2>2, <2>3, FateOfOne
  <2>5. LedgerFate[c] = "unseen"
    BY <1>3, <1>4, <2>1
  <2> QED
    BY <1>4, <2>4, <2>5, TurnAwayStep
<1>5. CASE ExportRefused
  <2>1. /\ MoreBatches /\ outcome' = [outcome EXCEPT ![Offered] = "refused"]
        /\ UNCHANGED <<queue, cur, dropped, received, exported, rejected>>
    BY <1>5 DEF ExportRefused, counterVars, workVars
  <2> QED
    BY <1>4, <2>1
<1>6. CASE ExportDropped
  <2>1. /\ MoreBatches /\ outcome' = [outcome EXCEPT ![Offered] = "dropped"] /\ dropped' = dropped + 1
        /\ UNCHANGED <<queue, cur, received, exported, rejected>>
    BY <1>6 DEF ExportDropped, workVars
  <2> QED
    BY <1>4, <2>1
\* a batch that is neither pending nor settled is appended
<1>7. ASSUME NEW c \in Batches, c >= seq, LedgerFate[c] = "unseen", queue' = Append(queue, c),
             UNCHANGED <<cur, outcome, received, exported, dropped, rejected>>
      PROVE  Ledger!Next
  <2>1. \A b \in Batches : Queued(b)' <=> Queued(b) \/ b = c
    BY <1>1, <1>7, QueuedAppend
  <2>2. Pending(c)' /\ \A b \in Batches \ {c} : (Pending(b)' <=> Pending(b)) /\ outcome'[b] = outcome[b]
    BY <1>7, <2>1 DEF Pending
  <2>3. LedgerFate' = [LedgerFate EXCEPT ![c] = "pending"]
    BY <2>2, FateOfOne
  <2> QED
    BY <1>7, <2>3, OfferStep
<1>8. CASE ExportEnqueue
  <2>1. MoreBatches /\ UNCHANGED <<cur, outcome, received, exported, dropped, rejected>>
    BY <1>8 DEF ExportEnqueue, counterVars, workVars
  <2>2. CASE queue' = Append(queue, Offered)
    <3>1. PICK c \in Batches : c = Offered /\ c >= seq /\ LedgerFate[c] = "unseen"
      BY <1>1, <1>3, <2>1
    <3> QED
      BY <1>7, <2>1, <2>2, <3>1
  <2>3. CASE UNCHANGED queue
    <3>1. LedgerFate' = LedgerFate
      BY <1>2, <2>1, <2>3, FateStays
    <3> QED
      BY <2>1, <3>1 DEF Ledger!vars
  <2> QED
    BY <1>8, <2>2, <2>3 DEF ExportEnqueue
<1>9. CASE ExportEvict
  <2>1. UNCHANGED <<cur, received, exported, rejected>>
    BY <1>9 DEF ExportEvict, workVars
  <2>2. CASE queue # <<>> /\ queue' = Tail(queue) /\ dropped' = dropped + 1
             /\ outcome' = [outcome EXCEPT ![Head(queue)] = "dropped"]
    <3>1. Head(queue) \in Batches /\ Queued(Head(queue)) /\ Head(queue) # cur
      BY <1>1, <2>2, TailOrdered DEF Queued, Batches, OldestFirst
    <3>2. PICK c \in Batches : c = Head(queue)
      BY <3>1
    <3>3. \A b \in Batches : Queued(b)' <=> Queued(b) /\ b # c
      BY <1>1, <2>2, <3>2, QueuedTail
    <3>4. outcome'[c] = "dropped" /\ \A b \in Batches \ {c} : outcome'[b] = outcome[b]
      BY <1>1, <2>2, <3>2
    <3>5. ~Pending(c)' /\ \A b \in Batches \ {c} : (Pending(b)' <=> Pending(b)) /\ outcome'[b] = outcome[b]
      BY <2>1, <3>1, <3>2, <3>3, <3>4 DEF Pending
    <3>6. LedgerFate' = [LedgerFate EXCEPT ![c] = "dropped"]
      BY <3>4, <3>5, FateOfOne
    <3>7. LedgerFate[c] = "pending"
      BY <3>1, <3>2, FateOf DEF Pending
    <3>8. exported' = exported + 0 /\ rejected' = rejected + 0
      BY <1>1, <2>1 DEF TypeOK
    <3> QED
      BY <2>1, <2>2, <3>2, <3>6, <3>7, <3>8, SettleStep
  <2>3. CASE UNCHANGED <<queue, dropped, outcome>>
    <3>1. LedgerFate' = LedgerFate
      BY <1>2, <2>1, <2>3, FateStays
    <3> QED
      BY <2>1, <2>3, <3>1 DEF Ledger!vars
  <2> QED
    BY <1>9, <2>2, <2>3 DEF ExportEvict
<1>10. CASE ExportAdmit
  <2>1. exportPc = "evicted" /\ UNCHANGED <<cur, received, exported, rejected>>
    BY <1>10 DEF ExportAdmit, workVars
  <2>2. queue' = Append(queue, seq) /\ UNCHANGED <<dropped, outcome>>
    BY <1>10, <2>1 DEF ExportAdmit, RefinementInv, QueueInv, RoomAfterEviction
  <2>3. seq \in Batches
    BY <1>1, <2>1 DEF TypeOK, Batches
  <2>4. LedgerFate[seq] = "unseen"
    BY <2>1, <2>3, LedgerFacts
  <2>5. PICK c \in Batches : c = seq /\ c >= seq
    BY <1>1, <2>3
  <2> QED
    BY <1>7, <2>1, <2>2, <2>4, <2>5
<1> QED
  BY <1>5, <1>6, <1>8, <1>9, <1>10

\* The worker's side: the batch in hand is settled, or stays pending.
LEMMA WorkerRefines ==
  ASSUME RefinementInv, Worker
  PROVE  Ledger!Next \/ UNCHANGED Ledger!vars
<1>1. /\ TypeOK /\ OldestFirst /\ seq \in Nat /\ cur \in Nat
      /\ outcome \in [Batches -> Outcomes] /\ \A b \in Batches : b \in Nat /\ b # 0
  BY DEF RefinementInv, QueueInv, TypeOK, Batches
<1>2. ASSUME UNCHANGED <<queue, cur, outcome, received, exported, dropped, rejected>>
      PROVE  UNCHANGED Ledger!vars
  <2>1. \A b \in Batches : Pending(b)' <=> Pending(b)
    BY <1>2 DEF Pending, Queued
  <2>2. LedgerFate' = LedgerFate
    BY <1>2, <2>1, FateStays
  <2> QED
    BY <1>2, <2>2 DEF Ledger!vars
<1>3. ASSUME workerPc \in {"send", "dead", "wait"}, NEW f \in {"exported", "dropped", "rejected"}, Settle(f),
             f = "exported" => cur \in received, UNCHANGED <<queue, received>>,
             exported' = exported + (IF f = "exported" THEN 1 ELSE 0),
             dropped' = dropped + (IF f = "dropped" THEN 1 ELSE 0),
             rejected' = rejected + (IF f = "rejected" THEN 1 ELSE 0)
      PROVE  Ledger!Next
  <2>1. PICK c \in Batches : c = cur
    BY <1>1, <1>3 DEF TypeOK, Batches
  <2>2. outcome' = [outcome EXCEPT ![c] = f] /\ cur' = 0
    BY <1>3, <2>1 DEF Settle
  <2>3. outcome'[c] = f /\ f # "none" /\ \A b \in Batches \ {c} : outcome'[b] = outcome[b]
    BY <1>1, <2>2
  <2>4. ~Queued(c)
    BY <1>1, <2>1 DEF OldestFirst, Queued
  <2>5. \A b : Queued(b)' <=> Queued(b)
    BY <1>3 DEF Queued
  <2>6. ~Pending(c)' /\ \A b \in Batches \ {c} : (Pending(b)' <=> Pending(b)) /\ outcome'[b] = outcome[b]
    BY <1>1, <2>1, <2>2, <2>3, <2>4, <2>5 DEF Pending
  <2>7. LedgerFate' = [LedgerFate EXCEPT ![c] = f]
    BY <2>3, <2>6, FateOfOne
  <2>8. LedgerFate[c] = "pending"
    BY <2>1, FateOf DEF Pending
  <2>9. (f = "exported" => c \in received) /\ received' = received
    BY <1>3, <2>1
  <2> QED
    BY <1>3, <2>1, <2>7, <2>8, <2>9, SettleStep
<1>4. CASE WorkerTake
  <2>1. /\ queue # <<>> /\ queue' = Tail(queue) /\ cur' = Head(queue) /\ cur = 0
        /\ UNCHANGED <<outcome, received, exported, dropped, rejected>>
    BY <1>1, <1>4 DEF WorkerTake, counterVars, TypeOK
  <2>2. Head(queue) \in Batches /\ Queued(Head(queue))
    BY <1>1, <2>1, TailOrdered DEF Queued, Batches
  <2>3. \A b \in Batches : Queued(b)' <=> Queued(b) /\ b # Head(queue)
    BY <1>1, <2>1, QueuedTail
  <2>4. \A b \in Batches : Pending(b)' <=> Pending(b)
    BY <1>1, <2>1, <2>2, <2>3 DEF Pending
  <2>5. LedgerFate' = LedgerFate
    BY <2>1, <2>4, FateStays
  <2> QED
    BY <2>1, <2>5 DEF Ledger!vars
<1>5. CASE WorkerSeesDone \/ WorkerExit \/ WaitOver
  BY <1>2, <1>5 DEF WorkerSeesDone, WorkerExit, WaitOver, counterVars
<1>6. exported \in Nat /\ dropped \in Nat /\ rejected \in Nat
  BY <1>1 DEF TypeOK
<1>7. CASE SendOk
  <2>1. workerPc = "send" /\ cur \in received /\ Settle("exported") /\ exported' = exported + 1
        /\ UNCHANGED <<queue, received, dropped, rejected>>
    BY <1>7 DEF SendOk
  <2> QED
    BY <1>3, <1>6, <2>1
<1>8. CASE SendRejected
  <2>1. workerPc = "send" /\ Settle("rejected") /\ rejected' = rejected + 1
        /\ UNCHANGED <<queue, received, exported, dropped>>
    BY <1>8 DEF SendRejected
  <2> QED
    BY <1>3, <1>6, <2>1
<1>9. ASSUME workerPc \in {"send", "dead", "wait"}, Drop
      PROVE  Ledger!Next
  <2>1. Settle("dropped") /\ dropped' = dropped + 1 /\ UNCHANGED <<queue, received, exported, rejected>>
    BY <1>9 DEF Drop
  <2> QED
    BY <1>3, <1>6, <1>9, <2>1
<1>10. CASE WaitAborted
  BY <1>9, <1>10 DEF WaitAborted
<1>11. ASSUME NEW ra \in 0..MaxRetryAfter, SendFailed(ra)
       PROVE  Ledger!Next \/ UNCHANGED Ledger!vars
  <2>1. CASE Drop
    BY <1>9, <1>11, <2>1 DEF SendFailed
  <2>2. ASSUME NEW d, Retry(d)
        PROVE  UNCHANGED Ledger!vars
    BY <1>2, <2>2 DEF Retry
  <2> QED
    BY <1>11, <2>1, <2>2 DEF SendFailed
<1> QED
  BY <1>4, <1>5, <1>7, <1>8, <1>10, <1>11 DEF Worker, SendReturns

\* HTTPExporter implements BatchLedger: every batch is taken on or turned away
\* once, settled once, counted as what became of it, exported only if the
\* ingest has it, and no batch is given up while two older ones are pending.
THEOREM ImplementsLedger == Spec => LedgerSafety
<1>1. Init => Ledger!Init
  <2> SUFFICES ASSUME Init PROVE Ledger!Init
    OBVIOUS
  <2>1. \A b \in Batches : ~Pending(b) /\ outcome[b] = "none"
    BY DEF Init, Pending, Queued, Batches
  <2>2. LedgerFate = [b \in Batches |-> "unseen"]
    BY <2>1 DEF LedgerFate, Pending
  <2> QED
    BY <2>2 DEF Init, Ledger!Init
<1>2. RefinementInv /\ [Next]_vars => [Ledger!Next]_(Ledger!vars)
  <2> SUFFICES ASSUME RefinementInv, [Next]_vars
               PROVE  Ledger!Next \/ UNCHANGED Ledger!vars
    OBVIOUS
  <2>1. ASSUME UNCHANGED <<queue, cur, outcome, received, exported, dropped, rejected>>
        PROVE  UNCHANGED Ledger!vars
    <3>1. \A b \in Batches : Pending(b)' <=> Pending(b)
      BY <2>1 DEF Pending, Queued
    <3>2. LedgerFate' = LedgerFate
      BY <2>1, <3>1, FateStays
    <3> QED
      BY <2>1, <3>2 DEF Ledger!vars
  <2>2. CASE CloseBegin \/ CloseGoesOn
    BY <2>1, <2>2 DEF CloseBegin, CloseGoesOn, CloseDone, CloseGraceOver, CloseReturn, counterVars, workVars
  <2>3. CASE Tick
    BY <2>1, <2>3 DEF Tick, counterVars
  <2>4. ASSUME NEW b \in Batches, IngestReceive(b)
        PROVE  Ledger!Next
    <3>1. b \in sent /\ received' = received \cup {b}
          /\ UNCHANGED <<queue, cur, outcome, exported, dropped, rejected>>
      BY <2>4 DEF IngestReceive, counterVars, workVars
    <3>2. LedgerFate' = LedgerFate
      <4>1. \A c \in Batches : Pending(c)' <=> Pending(c)
        BY <3>1 DEF Pending, Queued
      <4> QED
        BY <3>1, <4>1, FateStays
    <3>3. LedgerFate[b] # "unseen"
      BY <3>1, LedgerFacts
    <3>4. Ledger!Receive(b)
      BY <3>1, <3>2, <3>3 DEF Ledger!Receive
    <3> QED
      BY <3>4 DEF Ledger!Next
  <2>5. CASE UNCHANGED vars
    BY <2>1, <2>5 DEF vars, counterVars, workVars
  <2> QED
    BY <2>2, <2>3, <2>4, <2>5, ExportRefines, WorkerRefines
    DEF Next, Export, ExportUnencodable, ExportClosed, ExportGoesOn
<1> QED
  BY <1>1, <1>2, TypeCorrect, QueueInvariant, AccountInvariant, SentInvariant, PTL
  DEF Spec, LedgerSafety, RefinementInv
=============================================================================
