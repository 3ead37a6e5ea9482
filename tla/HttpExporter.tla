---------------------------- MODULE HttpExporter ----------------------------
(***************************************************************************)
(* internal/export/http.go: the exporter that POSTs batches to the ingest. *)
(*                                                                         *)
(* Three goroutines share it.  The agent's goroutine calls Export, which   *)
(* enqueues without ever blocking and evicts the oldest entry of a full    *)
(* queue; its three channel operations are separate steps, because the     *)
(* worker may receive between any two of them.  The single worker takes    *)
(* batches off the queue and sends each with retries.  Close stops new     *)
(* batches, lets the worker drain, and cancels the request in flight when  *)
(* the grace period is over.                                               *)
(*                                                                         *)
(* Time is counted in ticks.  A tick passes only while the worker is       *)
(* blocked, in a request or in a backoff: everything else takes no time,   *)
(* and a timer that is due fires before the next tick.                     *)
(***************************************************************************)
EXTENDS Integers, Sequences, FiniteSets

CONSTANTS
  QueueSize,      \* capacity of the queue channel
  MaxRetries,     \* retries after the first attempt
  Timeout,        \* per-request timeout
  BaseDelay,      \* first backoff ceiling
  MaxBackoff,     \* cap of the backoff ceiling
  DurationBits,   \* width of time.Duration, a signed integer
  MaxRetryAfter,  \* clamp of a server-supplied Retry-After
  RetryBudget,    \* wall time one batch may wait for retries
  MaxBatches      \* bound: batches handed over in a behaviour

ASSUME ConstantsAssumption ==
  /\ QueueSize \in Nat \ {0}
  /\ MaxRetries \in Nat
  /\ Timeout \in Nat \ {0}
  /\ BaseDelay \in Nat \ {0}
  /\ MaxBackoff \in Nat \ {0}
  /\ DurationBits \in Nat \ {0}
  /\ MaxRetryAfter \in Nat
  /\ RetryBudget \in Nat
  /\ MaxBatches \in Nat

VARIABLES
  \* the agent's goroutine
  seq,        \* last batch_seq handed to Export
  exportPc,   \* where Export is: "idle", or after its first or second select
  \* shared
  queue,      \* the channel of encoded batches, oldest first
  exported, dropped, rejected,   \* the atomic counters (that of the retries is only reported)
  \* Close
  closePc,    \* "open", "closed" (flag set), "draining", "cancelled", "returned"
  closeAge,   \* ticks since done was closed
  \* the worker
  workerPc,   \* "idle", "send", "dead" (request on a cancelled context), "wait", "exited"
  draining,   \* the worker is in the inner, post-shutdown loop
  cur,        \* batch in the worker's hands, 0 when none
  attempt,    \* loop variable of sendWithRetry
  spent,      \* ticks since sendWithRetry began
  timer,      \* ticks the request has run, or ticks left to wait
  \* the destination and the record of what happened
  sent,       \* batches whose bytes have left the agent
  received,   \* batches the ingest has taken in
  outcome     \* outcome[b]: how batch b left the exporter

agentVars == <<seq, exportPc>>
closeVars == <<closePc, closeAge>>
workVars == <<workerPc, draining, cur, attempt, spent, timer>>
counterVars == <<exported, dropped, rejected>>
vars == <<agentVars, queue, counterVars, closeVars, workVars, sent, received, outcome>>

Batches == 1..MaxBatches
Outcomes == {"none", "exported", "dropped", "rejected", "refused"}

\* shutdownGrace
Grace == 2 * Timeout

\* close(e.done) has happened: every receive from done is ready.
DoneClosed == closePc \in {"draining", "cancelled", "returned"}
\* e.cancel() has happened: every request fails at once.
Cancelled == closePc \in {"cancelled", "returned"}

Init ==
  /\ seq = 0 /\ exportPc = "idle"
  /\ queue = <<>>
  /\ exported = 0 /\ dropped = 0 /\ rejected = 0
  /\ closePc = "open" /\ closeAge = 0
  /\ workerPc = "idle" /\ draining = FALSE /\ cur = 0
  /\ attempt = 0 /\ spent = 0 /\ timer = 0
  /\ sent = {} /\ received = {}
  /\ outcome = [b \in Batches |-> "none"]

-----------------------------------------------------------------------------
(* Export *)

\* The number of the batch Export is being called with.
Offered == seq + 1
MoreBatches == seq < MaxBatches

\* Export returns before it holds anything: the caller's context is over.
ExportRefused ==
  /\ exportPc = "idle" /\ MoreBatches
  /\ seq' = Offered
  /\ outcome' = [outcome EXCEPT ![Offered] = "refused"]
  /\ UNCHANGED <<exportPc, queue, counterVars, closeVars, workVars, sent, received>>

\* The batch cannot be encoded, or the exporter is closed.
ExportDropped ==
  /\ exportPc = "idle" /\ MoreBatches
  /\ seq' = Offered
  /\ dropped' = dropped + 1
  /\ outcome' = [outcome EXCEPT ![Offered] = "dropped"]
  /\ UNCHANGED <<exportPc, queue, exported, rejected, closeVars, workVars, sent, received>>

ExportUnencodable == ExportDropped
ExportClosed == closePc # "open" /\ ExportDropped

\* First select: there is room, or Export goes on holding the read lock.
ExportEnqueue ==
  /\ exportPc = "idle" /\ MoreBatches
  /\ closePc = "open"
  /\ seq' = Offered
  /\ \/ /\ Len(queue) < QueueSize
        /\ queue' = Append(queue, Offered)
        /\ UNCHANGED exportPc
     \/ /\ Len(queue) >= QueueSize
        /\ exportPc' = "full"
        /\ UNCHANGED queue
  /\ UNCHANGED <<counterVars, closeVars, workVars, sent, received, outcome>>

\* Mutant of ExportEvict: the queue keeps its oldest batch.
ExportEvictNothing ==
  /\ exportPc = "full"
  /\ exportPc' = "evicted"
  /\ UNCHANGED <<seq, queue, counterVars, closeVars, workVars, sent, received, outcome>>

\* Mutant of ExportEvict: the newest of the queued batches goes.
ExportEvictNewest ==
  /\ exportPc = "full"
  /\ exportPc' = "evicted"
  /\ \/ /\ queue # <<>>
        /\ queue' = SubSeq(queue, 1, Len(queue) - 1)
        /\ dropped' = dropped + 1
        /\ outcome' = [outcome EXCEPT ![queue[Len(queue)]] = "dropped"]
     \/ /\ queue = <<>>
        /\ UNCHANGED <<queue, dropped, outcome>>
  /\ UNCHANGED <<seq, exported, rejected, closeVars, workVars, sent, received>>

\* Second select: evict the oldest, unless the worker has emptied the queue.
ExportEvict ==
  /\ exportPc = "full"
  /\ exportPc' = "evicted"
  /\ \/ /\ queue # <<>>
        /\ queue' = Tail(queue)
        /\ dropped' = dropped + 1
        /\ outcome' = [outcome EXCEPT ![Head(queue)] = "dropped"]
     \/ /\ queue = <<>>
        /\ UNCHANGED <<queue, dropped, outcome>>
  /\ UNCHANGED <<seq, exported, rejected, closeVars, workVars, sent, received>>

\* Third select; its default branch drops the incoming batch.
ExportAdmit ==
  /\ exportPc = "evicted"
  /\ exportPc' = "idle"
  /\ IF Len(queue) < QueueSize
     THEN queue' = Append(queue, seq) /\ UNCHANGED <<dropped, outcome>>
     ELSE /\ dropped' = dropped + 1
          /\ outcome' = [outcome EXCEPT ![seq] = "dropped"]
          /\ UNCHANGED queue
  /\ UNCHANGED <<seq, exported, rejected, closeVars, workVars, sent, received>>

-----------------------------------------------------------------------------
(* Close *)

\* Mutant of CloseBegin: the closed flag is set without the lock.
CloseBeginUnlocked ==
  /\ closePc = "open"
  /\ closePc' = "closed"
  /\ UNCHANGED <<agentVars, queue, counterVars, closeAge, workVars, sent, received, outcome>>

\* Taking the write lock waits for an Export that holds the read lock.
CloseBegin ==
  /\ closePc = "open"
  /\ exportPc = "idle"
  /\ closePc' = "closed"
  /\ UNCHANGED <<agentVars, queue, counterVars, closeAge, workVars, sent, received, outcome>>

CloseDone ==
  /\ closePc = "closed"
  /\ closePc' = "draining"
  /\ UNCHANGED <<agentVars, queue, counterVars, closeAge, workVars, sent, received, outcome>>

CloseGraceOver ==
  /\ closePc = "draining"
  /\ closeAge >= Grace
  /\ closePc' = "cancelled"
  /\ UNCHANGED <<agentVars, queue, counterVars, closeAge, workVars, sent, received, outcome>>

CloseReturn ==
  /\ closePc \in {"draining", "cancelled"}
  /\ workerPc = "exited"
  /\ closePc' = "returned"
  /\ UNCHANGED <<agentVars, queue, counterVars, closeAge, workVars, sent, received, outcome>>

-----------------------------------------------------------------------------
(* The worker *)

\* A request starts; a context cancelled earlier stops it before a byte is
\* written, so it can only fail.
Transmit(b) ==
  /\ workerPc' = IF Cancelled THEN "dead" ELSE "send"
  /\ sent' = IF Cancelled THEN sent ELSE sent \cup {b}

WorkerTake ==
  /\ workerPc = "idle"
  /\ queue # <<>>
  /\ queue' = Tail(queue)
  /\ cur' = Head(queue)
  /\ attempt' = 0 /\ spent' = 0 /\ timer' = 0
  /\ Transmit(Head(queue))
  /\ UNCHANGED <<agentVars, counterVars, closeVars, draining, received, outcome>>

\* The outer select takes its done case, also when a batch is ready too.
WorkerSeesDone ==
  /\ workerPc = "idle" /\ ~draining
  /\ DoneClosed
  /\ draining' = TRUE
  /\ UNCHANGED <<agentVars, queue, counterVars, closeVars, workerPc, cur, attempt, spent, timer,
                 sent, received, outcome>>

WorkerExit ==
  /\ workerPc = "idle" /\ draining
  /\ queue = <<>>
  /\ workerPc' = "exited"
  /\ UNCHANGED <<agentVars, queue, counterVars, closeVars, draining, cur, attempt, spent, timer,
                 sent, received, outcome>>

\* Mutant of Settle: the worker returns to its loop without letting go.
SettleKeepsBatch(f) ==
  /\ outcome' = [outcome EXCEPT ![cur] = f]
  /\ workerPc' = "idle"
  /\ attempt' = 0 /\ spent' = 0 /\ timer' = 0
  /\ UNCHANGED <<cur, draining>>

\* sendWithRetry returns.
Settle(f) ==
  /\ outcome' = [outcome EXCEPT ![cur] = f]
  /\ cur' = 0
  /\ workerPc' = "idle"
  /\ attempt' = 0 /\ spent' = 0 /\ timer' = 0
  /\ UNCHANGED draining

\* Mutant of Drop: a batch is given up without drop().
DropUncounted ==
  /\ Settle("dropped")
  /\ UNCHANGED <<agentVars, queue, exported, dropped, rejected, closeVars, sent, received>>

Drop ==
  /\ Settle("dropped")
  /\ dropped' = dropped + 1
  /\ UNCHANGED <<agentVars, queue, exported, rejected, closeVars, sent, received>>

\* A status below 400: the ingest has the batch and the agent knows it.
SendOk ==
  /\ workerPc = "send"
  /\ cur \in received
  /\ Settle("exported")
  /\ exported' = exported + 1
  /\ UNCHANGED <<agentVars, queue, dropped, rejected, closeVars, sent, received>>

\* A 4xx other than 408 and 429 (retryableStatus).
SendRejected ==
  /\ workerPc = "send"
  /\ Settle("rejected")
  /\ rejected' = rejected + 1
  /\ UNCHANGED <<agentVars, queue, exported, dropped, closeVars, sent, received>>

\* What a signed integer of DurationBits bits keeps of x.
Wrapped(x) == ((x + 2^(DurationBits - 1)) % 2^DurationBits) - 2^(DurationBits - 1)

\* Mutant of BackoffCeiling: only a ceiling that is too long is capped.
BackoffCeilingUnsigned(n) ==
  LET ceiling == Wrapped(BaseDelay * 2^(n - 1))
  IN  IF ceiling > MaxBackoff THEN MaxBackoff ELSE ceiling

\* The base, shifted; a shift that is too long or has overflowed is capped.
BackoffCeiling(n) ==
  LET ceiling == Wrapped(BaseDelay * 2^(n - 1))
  IN  IF ceiling > MaxBackoff \/ ceiling <= 0 THEN MaxBackoff ELSE ceiling

\* The delays retry number n may wait after an answer with this Retry-After.
Delays(n, retryAfter) == IF retryAfter > 0 THEN {retryAfter} ELSE 0..BackoffCeiling(n)

\* Mutant of FitsBudget: the budget bounds one wait, not the whole batch.
FitsBudgetPerWait(delay) == delay <= RetryBudget

FitsBudget(delay) == spent < RetryBudget /\ delay <= RetryBudget - spent

\* Mutant of Retry: a batch that failed goes to the back of the queue.
RetryRequeued(delay) ==
  /\ queue' = Append(queue, cur)
  /\ cur' = 0 /\ workerPc' = "idle"
  /\ attempt' = 0 /\ spent' = 0 /\ timer' = 0
  /\ UNCHANGED <<agentVars, exported, dropped, rejected, closeVars, draining, sent, received, outcome>>

\* The next attempt is made, at once or after a wait.
Retry(delay) ==
  /\ attempt' = attempt + 1
  /\ IF delay > 0
     THEN workerPc' = "wait" /\ timer' = delay /\ UNCHANGED sent
     ELSE Transmit(cur) /\ timer' = 0
  /\ UNCHANGED <<agentVars, queue, exported, dropped, rejected, closeVars, draining, cur, spent,
                 received, outcome>>

\* A transport error, a timeout, a cancelled request, or a retryable status,
\* which alone carries a Retry-After.  The ingest may have the batch or not.
SendFailed(retryAfter) ==
  /\ workerPc = "send" \/ (workerPc = "dead" /\ retryAfter = 0)
  /\ \/ attempt = MaxRetries /\ Drop
     \/ /\ attempt < MaxRetries
        /\ \E delay \in Delays(attempt + 1, retryAfter) :
             \/ ~FitsBudget(delay) /\ Drop
             \/ FitsBudget(delay) /\ Retry(delay)

WaitOver ==
  /\ workerPc = "wait" /\ timer = 0
  /\ Transmit(cur)
  /\ UNCHANGED <<agentVars, queue, counterVars, closeVars, draining, cur, attempt, spent, timer,
                 received, outcome>>

WaitAborted ==
  /\ workerPc = "wait"
  /\ DoneClosed
  /\ Drop

-----------------------------------------------------------------------------
(* The destination, and time *)

\* The ingest takes in a request whenever it gets to it, also after the agent
\* has given up waiting for the answer.
IngestReceive(b) ==
  /\ b \in sent \ received
  /\ received' = received \cup {b}
  /\ UNCHANGED <<agentVars, queue, counterVars, closeVars, workVars, sent, outcome>>

\* Mutant of Blocked: wait sleeps through the shutdown.
BlockedThroughShutdown ==
  \/ workerPc = "send" /\ timer < Timeout /\ ~Cancelled
  \/ workerPc = "wait" /\ timer > 0

\* The worker is blocked and no timer is due.
Blocked ==
  \/ workerPc = "send" /\ timer < Timeout /\ ~Cancelled
  \/ workerPc = "wait" /\ timer > 0 /\ ~DoneClosed

CloseDue == closePc = "closed" \/ (closePc = "draining" /\ closeAge >= Grace)

Tick ==
  /\ Blocked /\ ~CloseDue
  /\ exportPc = "idle"
  /\ spent' = spent + 1
  /\ timer' = IF workerPc = "send" THEN timer + 1 ELSE timer - 1
  /\ closeAge' = IF DoneClosed THEN closeAge + 1 ELSE closeAge
  /\ UNCHANGED <<agentVars, queue, counterVars, closePc, workerPc, draining, cur, attempt,
                 sent, received, outcome>>

-----------------------------------------------------------------------------
Export == ExportRefused \/ ExportUnencodable \/ ExportClosed \/ ExportEnqueue
ExportGoesOn == ExportEvict \/ ExportAdmit
CloseGoesOn == CloseDone \/ CloseGraceOver \/ CloseReturn
SendReturns == SendOk \/ SendRejected \/ \E ra \in 0..MaxRetryAfter : SendFailed(ra)
Worker == WorkerTake \/ WorkerSeesDone \/ WorkerExit \/ SendReturns \/ WaitOver \/ WaitAborted

Next ==
  \/ Export \/ ExportGoesOn
  \/ CloseBegin \/ CloseGoesOn
  \/ Worker
  \/ \E b \in Batches : IngestReceive(b)
  \/ Tick

Spec == Init /\ [][Next]_vars

\* The runtime schedules a goroutine that can run, and time passes.  Nothing
\* is assumed of the agent's calls or of the ingest: a request that is never
\* answered still returns, when its timeout makes SendFailed the only step.
Fairness ==
  /\ WF_vars(ExportGoesOn)
  /\ WF_vars(CloseGoesOn)
  /\ WF_vars(Worker)
  /\ WF_vars(Tick)

FairSpec == Spec /\ Fairness

-----------------------------------------------------------------------------
(* Properties *)

\* The types, and two facts of control: Export between its selects has a batch,
\* and the worker holds one exactly while sendWithRetry runs, for at most
\* MaxRetries retries.
TypeOK ==
  /\ seq \in 0..MaxBatches
  /\ exportPc \in {"idle", "full", "evicted"} /\ (exportPc # "idle" => seq # 0)
  /\ queue \in Seq(Batches)
  /\ exported \in Nat /\ dropped \in Nat /\ rejected \in Nat
  /\ closePc \in {"open", "closed", "draining", "cancelled", "returned"}
  /\ closeAge \in Nat
  /\ workerPc \in {"idle", "send", "dead", "wait", "exited"}
  /\ draining \in BOOLEAN
  /\ cur \in 0..MaxBatches
  /\ (cur # 0) <=> (workerPc \in {"send", "dead", "wait"})
  /\ attempt \in 0..MaxRetries
  /\ spent \in Nat /\ timer \in Nat
  /\ sent \subseteq Batches /\ received \subseteq sent
  /\ outcome \in [Batches -> Outcomes]

Queued(b) == \E i \in 1..Len(queue) : queue[i] = b

\* The batch Export is working on, while it holds the read lock.
Entering(b) == exportPc # "idle" /\ b = seq

WithOutcome(f) == {b \in Batches : outcome[b] = f}

\* No batch handed to Export disappears and none is counted twice: it is
\* still on its way exactly as long as it has no outcome, and the counters
\* of export.Stats are the tallies of the outcomes, across eviction, retry,
\* rejection, shutdown and the races between Export's selects and the worker.
EveryBatchAccounted ==
  /\ \A b \in Batches :
       (b <= seq /\ outcome[b] = "none") <=> (Queued(b) \/ b = cur \/ Entering(b))
  /\ exported = Cardinality(WithOutcome("exported"))
  /\ dropped = Cardinality(WithOutcome("dropped"))
  /\ rejected = Cardinality(WithOutcome("rejected"))

\* The batches still held are in the order they were collected: the one in
\* the worker's hands is older than all queued ones, and the one Export is
\* admitting is newer.  With eviction at the head, a gap in batch_seq is
\* always in the past (the type comment of HTTPExporter).
OldestFirst ==
  /\ \A i, j \in 1..Len(queue) : i < j => queue[i] < queue[j]
  /\ \A i \in 1..Len(queue) : cur < queue[i]
  /\ \A i \in 1..Len(queue) : queue[i] <= seq /\ ~Entering(queue[i])
  /\ cur <= seq /\ (exportPc # "idle" => cur < seq)

\* The channel never holds more than its capacity, and the default branch of
\* Export's third select ("Unreachable with a single producer") is indeed
\* unreachable, whatever the worker does in between.
RoomAfterEviction ==
  /\ Len(queue) <= QueueSize
  /\ exportPc = "evicted" => Len(queue) < QueueSize

\* README, HTTP mode: worst-case occupancy of the worker by one batch is the
\* retry budget plus one request timeout.
OccupancyBounded == spent <= RetryBudget + Timeout

\* Close takes no longer than the grace period: once the context is cancelled
\* no request and no backoff, of this batch or of those still queued, holds
\* the worker any more.
CloseBounded == closeAge <= Grace

\* The worker leaves nothing behind: when it has exited, the queue is empty
\* and no Export can still put a batch there.
NothingStranded == workerPc = "exited" => queue = <<>> /\ exportPc = "idle" /\ closePc # "open"

\* backoff draws its jitter with Int63n, which panics unless its argument is
\* positive: in every retry the worker may come to, however often the base has
\* been doubled and the width exceeded, the ceiling is positive and within the cap.
JitterDrawable ==
  workerPc \in {"send", "dead"} /\ attempt < MaxRetries => BackoffCeiling(attempt + 1) \in 1..MaxBackoff

\* What is queued or in the worker's hands is pending in the ledger.
LedgerFate ==
  [b \in Batches |-> IF Queued(b) \/ b = cur THEN "pending"
                     ELSE IF outcome[b] = "none" THEN "unseen" ELSE outcome[b]]

Ledger == INSTANCE BatchLedger WITH fate <- LedgerFate

\* HTTPExporter keeps the promises of BatchLedger, its liveness included: each
\* batch Export accepts is settled once, by the worker or by an eviction, and
\* exported only if the ingest has it.
LedgerSpec == Ledger!Spec
=============================================================================
