\* Two publications of one crate beside a sync, with an edit and a kill; a released
\* package, then two steps of its developer.
SPECIFICATION MCSpec
SYMMETRY Symmetry
CHECK_DEADLOCK FALSE
CONSTANTS
  bus = bus
  net = net
  x = x
  p1 = p1
  p2 = p2
  s1 = s1
  None = None
  Crate = {bus, net}
  Project = {x}
  Files <- MCFiles
  Contract = {1, 2}
  Publisher = {p1, p2}
  Publishes <- MCPublishes
  Syncer = {s1}
  SyncsFor <- MCSyncsFor
  Wants <- MCWants
  MaxEdits = 1
  MaxKills = 1
  t1 = t1
  t2 = t2
  io = io
  Target = {t1, t2}
  Kernels <- MCKernels
  Bridges <- MCBridges
  Manifests <- MCManifests
  k1 = k1
  k2 = k2
  Key = {k1, k2}
  Codes = {1}
  MaxMoves = 2
  MaxGenerations = 1
INVARIANT WholeOrRemoved
INVARIANT InstalledWasPublished
INVARIANT SomeoneInstalls
INVARIANT AcceptedIsConsistent
INVARIANT ReleasableIsAccepted
INVARIANT SameIdSameLayout
