---------------------------- MODULE Capabilities -----------------------------
(***************************************************************************)
(* internal/kafka/capabilities.go and applyCapabilityGates: what the       *)
(* brokers' ApiVersions answers mean for the cluster.  A broker's answer   *)
(* is a function from the API keys it advertises to their maximum version; *)
(* an API key a broker does not advertise is not in its domain.            *)
(***************************************************************************)
EXTENDS Integers, FiniteSets

\* The API keys a question is asked about.
ProbedKeys ==
  {"ListOffsets", "Metadata", "ListGroups", "OffsetForLeaderEpoch", "DescribeLogDirs",
   "ListPartitionReassignments", "DescribeConfigs", "ShareGroupDescribe", "ConsumerGroupDescribe"}

\* The first version of an API that carries what a phase, a filter or a feature needs.
Needs ==
  [ConsumerGroups |-> <<"ConsumerGroupDescribe", 0>>, LastStableOffset |-> <<"ListOffsets", 2>>,
   ThroughputWindow |-> <<"ListOffsets", 1>>, Reassignments |-> <<"ListPartitionReassignments", 0>>,
   MaxTimestamp |-> <<"ListOffsets", 7>>, TieredOffsets |-> <<"ListOffsets", 8>>,
   LatestTiered |-> <<"ListOffsets", 9>>, ShareGroups |-> <<"ShareGroupDescribe", 0>>,
   Configs |-> <<"DescribeConfigs", 1>>, EpochProbes |-> <<"OffsetForLeaderEpoch", 0>>,
   GroupStatesFilter |-> <<"ListGroups", 4>>, LogDirTotalBytes |-> <<"DescribeLogDirs", 4>>]

\* The phases of the collector that applyCapabilityGates may switch off.
Gated ==
  {"ConsumerGroups", "LastStableOffset", "ThroughputWindow", "Reassignments", "MaxTimestamp",
   "TieredOffsets", "LatestTiered", "ShareGroups", "Configs", "EpochProbes"}

\* What Wire puts on every batch under Features.
WireFeatures ==
  {"LastStableOffset", "ThroughputWindow", "GroupStatesFilter", "ConsumerGroups",
   "LogDirTotalBytes", "EpochProbes", "Reassignments"}

\* One broker's answer, by itself.
Serves(keys, what) ==
  Needs[what][1] \in DOMAIN keys /\ keys[Needs[what][1]] >= Needs[what][2]

\* Mutant of Fold: the newest broker speaks for the cluster.
FoldNewest(brokers) ==
  [key \in {k \in ProbedKeys : \E b \in DOMAIN brokers : k \in DOMAIN brokers[b]} |->
     LET offered == {brokers[b][key] : b \in {c \in DOMAIN brokers : key \in DOMAIN brokers[c]}}
     IN  CHOOSE v \in offered : \A w \in offered : v >= w]

\* foldCapabilities: the lowest version any broker offers of each key that all
\* of them advertise.  No brokers at all advertise nothing.
Fold(brokers) ==
  [key \in {k \in ProbedKeys : DOMAIN brokers # {} /\ \A b \in DOMAIN brokers : k \in DOMAIN brokers[b]} |->
     LET offered == {brokers[b][key] : b \in DOMAIN brokers}
     IN  CHOOSE v \in offered : \A w \in offered : v <= w]

\* atLeast, of the floors.
AtLeast(floors, what) ==
  Needs[what][1] \in DOMAIN floors /\ floors[Needs[what][1]] >= Needs[what][2]

\* applyCapabilityGates: only a known fingerprint switches anything off.
Gates(on, floors) == on \ {p \in Gated : ~AtLeast(floors, p)}

\* Features of Wire.
Features(floors) == {f \in WireFeatures : AtLeast(floors, f)}
=============================================================================
