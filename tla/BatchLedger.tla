---------------------------- MODULE BatchLedger ----------------------------
(***************************************************************************)
(* What an asynchronous exporter promises the agent, without saying how.   *)
(* Batches are numbered 1, 2, ... in the order they are handed over.  Each *)
(* one is either turned away at the door or becomes pending, and a pending *)
(* batch is settled once: exported, dropped or rejected.  The three        *)
(* counters the agent reports are the tallies of those settlements.        *)
(*                                                                         *)
(* The policy "an overflow loses the OLDEST batch" (HTTPExporter's type    *)
(* comment) is the guard of Settle: when a batch is settled, at most one   *)
(* older batch is still pending, the one in the worker's hands.            *)
(***************************************************************************)
EXTENDS Naturals, FiniteSets

CONSTANT Batches   \* the batch sequence numbers

VARIABLES
  fate,       \* fate[b]: what has become of batch b
  received,   \* batches the destination has taken in
  exported, dropped, rejected   \* the counters of export.Stats

vars == <<fate, received, exported, dropped, rejected>>

Fates == {"unseen", "pending", "exported", "dropped", "rejected", "refused"}

With(f) == {b \in Batches : fate[b] = f}

Init ==
  /\ fate = [b \in Batches |-> "unseen"]
  /\ received = {}
  /\ exported = 0 /\ dropped = 0 /\ rejected = 0

\* The batch is taken on; the destination is not involved yet.
Offer(b) ==
  /\ fate[b] = "unseen"
  /\ \A c \in Batches : c > b => fate[c] = "unseen"
  /\ fate' = [fate EXCEPT ![b] = "pending"]
  /\ UNCHANGED <<received, exported, dropped, rejected>>

\* The batch never becomes pending: it is counted as dropped, or the caller
\* had already given up and nothing is counted.
TurnAway(b) ==
  /\ fate[b] = "unseen"
  /\ \E f \in {"dropped", "refused"} :
       /\ fate' = [fate EXCEPT ![b] = f]
       /\ dropped' = IF f = "dropped" THEN dropped + 1 ELSE dropped
  /\ UNCHANGED <<received, exported, rejected>>

\* The destination takes in a batch, possibly long after it was abandoned.
Receive(b) ==
  /\ fate[b] # "unseen"
  /\ received' = received \cup {b}
  /\ UNCHANGED <<fate, exported, dropped, rejected>>

Older(b) == {c \in With("pending") : c < b}

Settle(b, f) ==
  /\ fate[b] = "pending"
  /\ Cardinality(Older(b)) <= 1
  /\ f = "exported" => b \in received
  /\ fate' = [fate EXCEPT ![b] = f]
  /\ exported' = exported + (IF f = "exported" THEN 1 ELSE 0)
  /\ dropped' = dropped + (IF f = "dropped" THEN 1 ELSE 0)
  /\ rejected' = rejected + (IF f = "rejected" THEN 1 ELSE 0)
  /\ UNCHANGED received

SettleSome(b) == \E f \in {"exported", "dropped", "rejected"} : Settle(b, f)

Next == \E b \in Batches : Offer(b) \/ TurnAway(b) \/ Receive(b) \/ SettleSome(b)

\* Nothing stays pending for ever.
Spec == Init /\ [][Next]_vars /\ \A b \in Batches : WF_vars(SettleSome(b))
=============================================================================
