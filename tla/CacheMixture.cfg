\* Two syncs of packages of two targets in one directory, of which the manifest
\* of one may not load.
SPECIFICATION Spec
CHECK_DEADLOCK FALSE
CONSTANTS
  riscv = riscv
  x86 = x86
  Targets <- TwoTargets
  Package = {1, 2}
  ProfileOf <- TwoProfiles
  Offered <- ThreePackages
  Repositories = {}
  Checkout <- ThreePackages
  Home = {}
  Wants <- AnyProfile
  MaxCommit = 2
  MaxCommands = 2
  MaxFaults = 1
INVARIANT SyncRefusesMixtures
