\* Three commands of a project, and one disturbance: two at once, a package
\* exported again, or a stop.  Five commands on and changes of image files.
SPECIFICATION MCSpec
CHECK_DEADLOCK FALSE
CONSTANTS
  riscv64 = riscv64
  x86_64 = x86_64
  p1 = p1
  p2 = p2
  P = P
  Q = Q
  None = None
  Torn = Torn
  Target <- MCTarget
  Root = {1, 2, 3, 4}
  TargetOf <- MCTargetOf
  Profile <- MCProfile
  Selection <- MCSelection
  RootOrder <- MCRootOrder
  Process = {p1, p2}
  MaxCommands = 3
  MaxTargets = 3
  MaxEvents = 1
  Exported = {1}
  ApiFollowsElm = TRUE
  a = a
  b = b
  k1 = k1
  k2 = k2
  EkiFile = {a, b}
  Elf <- MCElf
  Interface <- MCInterface
  Signer = {k1, k2}
  Priority = {1, 2}
  Changed = {"fingerprint", "segment", "proof"}
  MaxVariants = 2
  MaxEkiSteps = 5
SYMMETRY Symmetry
INVARIANT ImageAsRecorded
INVARIANT ArchiveAsNamed
INVARIANT ArchiveOwnApi
INVARIANT DistIsLatest
INVARIANT SigningWorks
INVARIANT VerifiedWasSigned
INVARIANT BundleSelects
