SPECIFICATION Spec
CONSTANTS
  a = a
  b = b
  s1 = s1
  s2 = s2
  s3 = s3
  p1 = p1
  p2 = p2
  p3 = p3
  None = None
  Nodes <- MCNodes
  Subs <- MCSubs
  Subscriber <- MCSubscriber
  PublishIds <- MCPublishIds
  PublishIdLimit = 3
  MaxRecords = 3
  MaxEpoch = 2
  MaxAuthority = 2
  MaxNow = 2
  MaxGeneration = 2
  PageSize = 2
  MaxDetached = 1
  Setups <- MCSetups
INVARIANTS
  ConfirmedIsDurable
  StoresNeverCorrupt
PROPERTIES
  Delivered
  NothingUnprojectedLeaves
  ImplementsReplicatedLog
CHECK_DEADLOCK FALSE
