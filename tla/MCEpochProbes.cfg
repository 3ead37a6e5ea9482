SPECIFICATION FairSpec
CONSTANTS
  NumPartitions = 2
  NumGroups = 3
  Clusters <- MCClusters
  Consumes <- MCConsumes
  MaxProbes = 5
  MaxRounds = 2
  MaxRemembered = 5
  MaxEpoch <- MCMaxEpoch
  MaxTopicID <- MCMaxTopicID
  MaxFaults = 1
INVARIANT RoundsTight
PROPERTIES RetiredOnlyByAnswer EventuallyAnswered
