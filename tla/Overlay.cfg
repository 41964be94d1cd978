\* Two invocations, interleaved; one failing file operation, and p2 may be killed.
SPECIFICATION Spec
CHECK_DEADLOCK FALSE
CONSTANTS
  p1 = p1
  p2 = p2
  net = net
  blk = blk
  ext = ext
  set1 = set1
  netToml = netToml
  blkToml = blkToml
  extToml = extToml
  netlib = netlib
  virtio = virtio
  NoSet = NoSet
  NoProcess = NoProcess
  Process = {p1, p2}
  Project = {net}
  BuildSet = {}
  Manifest = {netToml, netlib}
  KernelTree = {net}
  Standalone = {}
  HasTables = {}
  MayCrash = {p2}
  MaxFaults = 1
  Root <- MCRoot
  PathDeps <- PrivateDeps
  Session <- NoSession
  Builds <- BuildAny
  CommittedLock <- MCCommittedLock
INVARIANT MutualExclusion
INVARIANT PrivateOverlayStable
PROPERTY OkMeansRestored
INVARIANT AllAccounted
