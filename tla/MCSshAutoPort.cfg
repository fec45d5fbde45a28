SPECIFICATION FairSpec
CONSTANTS
  Port <- MCPort
  Watched <- MCWatched
  Privileged <- MCPrivileged
  Local <- MCLocal
  MinRemapPort = 2
  MaxRemapPort = 4
  RemapSearchRadius = 1
  RetryDelay = 1
  MaxBackoff = 2
  Conn = {c1}
  MaxFrames = 1
INVARIANTS NoOrphanListener Partition TornDown
PROPERTIES RemapIsNearest LinkLossTornDown FollowsRemote
CHECK_DEADLOCK FALSE
