-------------------------- MODULE MCCollectPhases ---------------------------
(***************************************************************************)
(* Instances of CollectPhases for TLC.                                     *)
(***************************************************************************)
EXTENDS CollectPhases

Call(n, enabled, replies, maxOffset) ==
  [n |-> n, enabled |-> enabled, replies |-> replies, maxOffset |-> maxOffset]

\* The offset chain while the log moves.
Sampling == Call(0, {"lso", "window"}, {"ok", "missing", "error"}, 1)

\* The same chain and the groups, with every kind of reply.
Answering == Call(0, {"lso", "window", "consumerGroups"}, AllReplies, 0)

\* The requests after the chain and the epoch probes: a reply with the partition,
\* one without it, an error with data and one without.
Mixed == {"ok", "missing", "deniedLate", "error"}
Trailing == Call(0, {"maxTS", "tiered", "latestTiered"}, Mixed, 0)
Probing == Call(0, {"reassignments", "epochProbes"}, Mixed, 0)

\* The phases that describe, on a cycle of their cadence and off it.
Describing(n) == Call(n, {"maxTS", "logDirs", "configs", "shareGroups"}, {"ok", "error"}, 0)

AllCalls == {Sampling, Answering, Trailing, Probing, Describing(0), Describing(1)}

\* One call with the switches off, in a cluster at rest and in one that moves.
PlainCalls == {Call(0, {"lso"}, {"ok", "error"}, 0)}
MovingCalls == {Call(0, {"lso"}, {"ok", "error"}, 1)}
=============================================================================
