---------------------------- MODULE MCAgentLoop -----------------------------
(***************************************************************************)
(* Instances of AgentLoop for TLC: a boot of up to three batches and one   *)
(* more after it, a queue of one, so that a third batch evicts the second, *)
(* one retry, and two batches whose requests may arrive after the agent    *)
(* gave them up, in either order and more than once.                       *)
(***************************************************************************)
EXTENDS AgentLoop

\* Three batches, then a restart.
ThreeThenOne == <<3, 1>>
=============================================================================
