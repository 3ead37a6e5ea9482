SPECIFICATION FairSpec
CONSTANTS b1 = b1 b2 = b2
  Brokers <- MCBrokers Releases <- MCReleases KeysOf <- MCKeysOf Envs <- MCEnvs
INVARIANTS ConfigFaultsCaughtByLoad GatesSound DisabledForCause FilterHonoured
PROPERTY StartsOrFails
CHECK_DEADLOCK FALSE
