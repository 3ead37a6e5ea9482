----------------------------- MODULE AgentLoop ------------------------------
(***************************************************************************)
(* internal/agent: the collection loop from start to shutdown, over several*)
(* boots of the process, composed with a coarse HTTP exporter (the detail  *)
(* is in HttpExporter) and with the bookkeeping that internal/mockingest   *)
(* keeps of what arrives, which is the repository's own statement of what  *)
(* a receiver may rely on.                                                 *)
(***************************************************************************)
EXTENDS Integers, Sequences, FiniteSets

CONSTANTS
  StableID,     \* AGENT_INSTANCE_ID is set, so every boot has the same identity
  QueueSize, MaxRetries,
  MaxSeq, MaxBoots,  \* bounds: batches of each boot, boots
  MaxLate            \* bound: batches in requests that were given up and may arrive

ASSUME ConstantsAssumption ==
  /\ StableID \in BOOLEAN
  /\ QueueSize \in Nat \ {0} /\ MaxRetries \in Nat /\ MaxBoots \in Nat

ASSUME BoundsAssumption == MaxSeq \in [1..MaxBoots -> Nat] /\ MaxLate \in Nat

VARIABLES
  pc,         \* of the collection goroutine
  boot,       \* boots so far
  signalled,  \* SIGTERM has cancelled the run context
  cut,        \* the batch in hand was collected under a cancelled context
  batchSeq,
  current,    \* the stamped batch on its way to Export
  queue, sending, tries,  \* the exporter: queued batches, the one being sent, its retries
  stats,      \* the exporter's counters
  wire,       \* batches in requests the agent has given up, which may still arrive
  ingest,     \* per instance: what the receiver remembers
  verdicts,   \* conformance checks of the receiver that have failed
  cutShipped  \* a batch collected under a cancelled context was handed to Export

loopVars == <<pc, boot, signalled, cut, batchSeq, current>>
exportVars == <<queue, sending, tries, stats>>
ingestVars == <<wire, ingest, verdicts>>
vars == <<loopVars, exportVars, ingestVars, cutShipped>>

NoStats == [exported |-> 0, dropped |-> 0, rejected |-> 0]
None == [boot |-> 0, seq |-> 0, instance |-> 0, agent |-> NoStats]
Instances == 0..MaxBoots

Init ==
  /\ pc = "down" /\ boot = 0 /\ signalled = FALSE /\ cut = FALSE
  /\ batchSeq = 0 /\ current = None
  /\ queue = <<>> /\ sending = None /\ tries = 0 /\ stats = NoStats
  /\ wire = {}
  /\ ingest = [i \in Instances |-> [bodies |-> {}, lastSeen |-> 0, lastAcked |-> 0, dropped |-> -1]]
  /\ verdicts = {} /\ cutShipped = FALSE

\* Mutant of Instance: the identity drawn at start-up is always the same.
InstanceFixed == 0

Instance == IF StableID THEN 0 ELSE boot

-----------------------------------------------------------------------------
(* The collection goroutine *)

\* New; batchSeq is monotonic from 1 per boot.
Start ==
  /\ pc = "down" /\ boot < MaxBoots
  /\ boot' = boot + 1 /\ pc' = "collect"
  /\ signalled' = FALSE /\ cut' = FALSE /\ batchSeq' = 0 /\ current' = None
  /\ queue' = <<>> /\ sending' = None /\ tries' = 0 /\ stats' = NoStats
  /\ UNCHANGED <<ingestVars, cutShipped>>

Signal ==
  /\ pc # "down" /\ ~signalled
  /\ signalled' = TRUE
  /\ UNCHANGED <<pc, boot, cut, batchSeq, current, exportVars, ingestVars, cutShipped>>

\* Collect runs under the signal's context: cut short if it is cancelled.
CollectReturns ==
  /\ pc = "collect"
  /\ cut' = signalled
  /\ pc' = "check"
  /\ UNCHANGED <<boot, signalled, batchSeq, current, exportVars, ingestVars, cutShipped>>

\* A batch that shutdown may have cut short is discarded and consumes no
\* sequence number.
Discard ==
  /\ pc = "check" /\ signalled
  /\ pc' = "wait"
  /\ UNCHANGED <<boot, signalled, cut, batchSeq, current, exportVars, ingestVars, cutShipped>>

\* stamp reads the exporter's counters before the batch is handed over.
Stamped == [boot |-> boot, seq |-> batchSeq + 1, instance |-> Instance, agent |-> stats]

\* Mutant of Stamp: the context is not looked at after the collection.
StampUnchecked ==
  /\ pc = "check" /\ batchSeq < MaxSeq[boot]
  /\ batchSeq' = batchSeq + 1
  /\ current' = Stamped
  /\ pc' = "export"
  /\ UNCHANGED <<boot, signalled, cut, exportVars, ingestVars, cutShipped>>

Stamp ==
  /\ pc = "check" /\ ~signalled /\ batchSeq < MaxSeq[boot]
  /\ batchSeq' = batchSeq + 1
  /\ current' = Stamped
  /\ pc' = "export"
  /\ UNCHANGED <<boot, signalled, cut, exportVars, ingestVars, cutShipped>>

\* Export is detached from the signal; a full queue evicts its oldest batch.
Export ==
  /\ pc = "export"
  /\ IF Len(queue) < QueueSize
     THEN queue' = Append(queue, current) /\ UNCHANGED stats
     ELSE queue' = Append(Tail(queue), current) /\ stats' = [stats EXCEPT !.dropped = @ + 1]
  /\ cutShipped' = (cutShipped \/ cut)
  /\ current' = None /\ pc' = "wait"
  /\ UNCHANGED <<boot, signalled, cut, batchSeq, sending, tries, ingestVars>>

\* The select of Run: with a tick and the signal both ready, either is taken.
Tick ==
  /\ pc = "wait" /\ (signalled \/ batchSeq < MaxSeq[boot])
  /\ pc' = "collect"
  /\ UNCHANGED <<boot, signalled, cut, batchSeq, current, exportVars, ingestVars, cutShipped>>

\* Mutant of RunReturns: Run leaves only once the queue is empty.
RunReturnsDrained ==
  /\ pc = "wait" /\ signalled /\ queue = <<>>
  /\ pc' = "closing"
  /\ UNCHANGED <<boot, signalled, cut, batchSeq, current, exportVars, ingestVars, cutShipped>>

RunReturns ==
  /\ pc = "wait" /\ signalled
  /\ pc' = "closing"
  /\ UNCHANGED <<boot, signalled, cut, batchSeq, current, exportVars, ingestVars, cutShipped>>

\* The request of the moment is cancelled with its context, or cut off with the
\* process: the ingest may have it all the same, and take it in later.
Abandon ==
  /\ wire' \in {wire} \cup {late \in {wire \cup ({sending} \ {None})} : Cardinality(late) <= MaxLate}
  /\ UNCHANGED <<ingest, verdicts>>

\* Close returns when the exporter has drained, or drops the rest once its
\* grace period is over.
CloseReturns ==
  /\ pc = "closing"
  /\ \/ queue = <<>> /\ sending = None /\ UNCHANGED stats
     \/ stats' = [stats EXCEPT !.dropped = @ + Len(queue) + (IF sending = None THEN 0 ELSE 1)]
  /\ pc' = "down" /\ queue' = <<>> /\ sending' = None /\ tries' = 0
  /\ Abandon
  /\ UNCHANGED <<boot, signalled, cut, batchSeq, current, cutShipped>>

\* SIGKILL.
Killed ==
  /\ pc # "down"
  /\ pc' = "down" /\ queue' = <<>> /\ sending' = None /\ tries' = 0
  /\ Abandon
  /\ UNCHANGED <<boot, signalled, cut, batchSeq, current, stats, cutShipped>>

-----------------------------------------------------------------------------
(* The export worker and the receiver *)

WorkerTakes ==
  /\ pc # "down" /\ sending = None /\ queue # <<>>
  /\ sending' = Head(queue) /\ queue' = Tail(queue) /\ tries' = 0
  /\ UNCHANGED <<loopVars, stats, ingestVars, cutShipped>>

\* idempotencyKey: the instance and batch_seq; within one instance, batch_seq.
Known(inst, b) == \E key \in inst.bodies : key.seq = b.seq

\* How many batches are missing between the last one seen and b.
Gap(inst, b) == b.seq - inst.lastSeen - 1

\* The sequence checks of checkState reach the comparison of drop counters.
Compared(inst, b) ==
  /\ ~Known(inst, b) /\ b.seq > inst.lastAcked
  /\ inst.lastSeen > 0 /\ Gap(inst, b) > 0

\* The counter went backwards: checkState returns without recording the rest.
Regresses(inst, b) == Compared(inst, b) /\ b.agent.dropped < inst.dropped

\* The checks that fail on the arrival of b: a known key must bring the body it
\* came with, a new one continues the sequence, and a gap is accounted for by
\* the drops the agent reports.
Verdicts(inst, b) ==
  {v \in {"body_mismatch", "seq_regression", "counter_regression"} :
     CASE v = "body_mismatch" ->
            \E key \in inst.bodies : key.seq = b.seq /\ key.boot # b.boot
       [] v = "seq_regression" -> ~Known(inst, b) /\ b.seq <= inst.lastAcked
       [] v = "counter_regression" -> Regresses(inst, b)}

\* checkAgent: a batch cannot be counted among those it counts.
CheckAgent(b) ==
  {v \in {"batches_exported", "counter_sum"} :
     CASE v = "batches_exported" -> b.agent.exported >= b.seq
       [] v = "counter_sum" -> b.agent.exported + b.agent.dropped + b.agent.rejected > b.seq}

Later(seq, b) == IF b.seq > seq THEN b.seq ELSE seq

\* checkState, and markAcked when a 2xx is sent.
Arrives(b, acked) ==
  /\ verdicts' = verdicts \cup CheckAgent(b) \cup Verdicts(ingest[b.instance], b)
  /\ ingest' = [ingest EXCEPT ![b.instance] =
       [bodies |-> IF Known(@, b) THEN @.bodies ELSE @.bodies \cup {[seq |-> b.seq, boot |-> b.boot]},
        lastSeen |-> IF Regresses(@, b) THEN @.lastSeen ELSE Later(@.lastSeen, b),
        lastAcked |-> IF acked THEN Later(@.lastAcked, b) ELSE @.lastAcked,
        dropped |-> IF Regresses(@, b) THEN @.dropped ELSE b.agent.dropped]]

\* Mutant of Settle: the outcome is not counted.
SettleUncounted(outcome) == sending' = None /\ tries' = 0 /\ UNCHANGED stats

Settle(outcome) ==
  /\ stats' = [stats EXCEPT ![outcome] = @ + 1]
  /\ sending' = None /\ tries' = 0

\* A 2xx comes back, or a terminal 4xx.
Acknowledged == sending # None /\ Arrives(sending, TRUE) /\ Settle("exported") /\ UNCHANGED wire
Refused == sending # None /\ Arrives(sending, FALSE) /\ Settle("rejected") /\ UNCHANGED wire

\* The attempt fails: the batch arrived and was perhaps acknowledged, it never
\* will, or the request timed out and may arrive yet.  It is retried until the
\* attempts are used up.
AttemptFails ==
  /\ sending # None
  /\ \/ UNCHANGED wire /\ \E acked \in BOOLEAN : Arrives(sending, acked)
     \/ Abandon
  /\ IF tries < MaxRetries THEN tries' = tries + 1 /\ UNCHANGED <<sending, stats>>
                           ELSE Settle("dropped")

WorkerSends ==
  /\ pc # "down"
  /\ Acknowledged \/ Refused \/ AttemptFails
  /\ UNCHANGED <<loopVars, queue, cutShipped>>

\* A request the agent has given up is taken in after all, behind whatever was
\* sent since.  It stays on the wire: several attempts may have left a copy.
ArrivesLate ==
  /\ \E b \in wire, acked \in BOOLEAN : Arrives(b, acked)
  /\ UNCHANGED <<loopVars, exportVars, wire, cutShipped>>

Loop == Start \/ CollectReturns \/ Discard \/ Stamp \/ Export \/ RunReturns \/ CloseReturns

Next == Loop \/ Signal \/ Tick \/ Killed \/ WorkerTakes \/ WorkerSends \/ ArrivesLate

Spec == Init /\ [][Next]_vars

\* Goroutines that can run do; a select that is ready for the signal again and
\* again takes it (Go's select is a fair random choice).
FairSpec ==
  /\ Spec
  /\ WF_vars(CollectReturns \/ Discard \/ Stamp \/ Export)
  /\ SF_vars(RunReturns) /\ WF_vars(CloseReturns)

-----------------------------------------------------------------------------
(* Properties *)

\* A cycle cut short by SIGTERM is never shipped, whenever the signal arrives
\* (the comment in runCycle: it would describe the agent stopping).
ShutdownNotShipped == ~cutShipped

\* In every batch the counters account for earlier batches only: what a boot
\* has collected is exactly settled, queued, being sent, or in hand.
CountersAddUp ==
  pc # "down" =>
    stats.exported + stats.dropped + stats.rejected + Len(queue)
      + (IF sending = None THEN 0 ELSE 1) + (IF pc = "export" THEN 1 ELSE 0) = batchSeq

\* idempotency.seq_regression, agent.counter_regression, agent.counter_sum and
\* agent.batches_exported: through drops, retries, restarts and requests that
\* arrive late and out of order, no batch counts itself, no drop counter falls
\* behind an earlier batch's, and a batch the agent is still sending is never
\* behind an acknowledged one unless its key is known.
SequenceAdvances ==
  /\ {"counter_regression", "batches_exported", "counter_sum"} \cap verdicts = {}
  /\ sending # None => "seq_regression" \notin Verdicts(ingest[sending.instance], sending)

\* An Idempotency-Key names one batch, so that the receiver can deduplicate on
\* it (README, HTTP mode; idempotency.body_mismatch).
KeyNamesOneBatch == "body_mismatch" \notin verdicts

\* A signalled agent shuts down.
ShutdownCompletes == signalled ~> (pc = "down")
=============================================================================
