\* The children of one build-set, whose modules share a manifest.
SPECIFICATION FairSpec
CHECK_DEADLOCK FALSE
CONSTANTS
  p1 = p1
  p2 = p2
  net = net
  blk = blk
  ext = ext
  set1 = set1
  netToml = netToml
  blkToml = blkToml
  extToml = extToml
  netlib = netlib
  virtio = virtio
  NoSet = NoSet
  NoProcess = NoProcess
  Process = {p1, p2}
  Project = {net, blk, ext}
  BuildSet = {set1}
  Manifest = {netToml, blkToml, extToml, netlib, virtio}
  KernelTree = {net, blk}
  Standalone = {ext}
  HasTables = {}
  MayCrash = {p1, p2}
  MaxFaults = 1
  Root <- MCRoot
  PathDeps <- SharedDeps
  Session <- OneSession
  Builds <- BuildAny
  CommittedLock <- MCCommittedLock
PROPERTY CallsReturn
INVARIANT SetHandsOn
