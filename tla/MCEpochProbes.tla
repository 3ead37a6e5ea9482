--------------------------- MODULE MCEpochProbes ----------------------------
(***************************************************************************)
(* Instance of EpochProbes for TLC.  The agent is started on a cluster     *)
(* with a history: three groups have committed on the first partition,     *)
(* under up to three epochs once there is an election, and two on the      *)
(* second, while a cycle may send two requests.  Group 1 still consumes    *)
(* the first partition and group 2 the second, the others are idle.  Five  *)
(* questions can be open at once, which is what one cycle may ask and what *)
(* the agent remembers; over the elections and the recreation of the       *)
(* second topic there are more.                                            *)
(***************************************************************************)
EXTENDS EpochProbes

MCConsumes == {<<1, 1>>, <<2, 2>>}
MCMaxEpoch == <<3, 2>>
MCMaxTopicID == <<0, 1>>

MCClusters ==
  LET may == <<<<{2}, {1}, {0, 1}>>, <<{0}, {1}, {-1}>>>>
  IN  {[leader |-> <<[id |-> 0, epoch |-> 2], [id |-> 0, epoch |-> 2]>>, commit |-> c] :
         c \in {d \in [(1..2) \X (1..3) -> -1..2] : \A p \in 1..2, g \in 1..3 : d[<<p, g>>] \in may[p][g]}}
=============================================================================
