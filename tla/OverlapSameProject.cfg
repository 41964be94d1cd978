\* Two invocations of one project; nothing fails.
SPECIFICATION Spec
CHECK_DEADLOCK FALSE
CONSTANTS
  p1 = p1
  p2 = p2
  net = net
  blk = blk
  ext = ext
  set1 = set1
  netToml = netToml
  blkToml = blkToml
  extToml = extToml
  netlib = netlib
  virtio = virtio
  NoSet = NoSet
  NoProcess = NoProcess
  Process = {p1, p2}
  Project = {net}
  BuildSet = {}
  Manifest = {netToml}
  KernelTree = {net}
  Standalone = {}
  HasTables = {}
  MayCrash = {}
  MaxFaults = 0
  Root <- MCRoot
  PathDeps <- PrivateDeps
  Session <- NoSession
  Builds <- BuildAny
  CommittedLock <- MCCommittedLock
INVARIANT OriginalBytesRestored
