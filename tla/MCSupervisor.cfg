SPECIFICATION FairSpec
CONSTANTS
  Topologies = {t1, t2, t3}
  None = None
  TopologyConfirmations = 3
INVARIANTS
  TypeOK
  SendNeverBlocks
  QueuedIsNewestConfirmed
  CurrentIsServed
  ServedIsConfirmed
PROPERTIES
  HomeKitConverges
