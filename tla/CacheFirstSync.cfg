\* One sync of a clone, from within the project.
SPECIFICATION Spec
CHECK_DEADLOCK FALSE
CONSTANTS
  riscv = riscv
  x86 = x86
  Targets <- TwoTargets
  Package = {1}
  ProfileOf <- OneEach
  Offered <- FirstProfile
  Repositories <- OnlyKernel
  Checkout <- FirstProfile
  Home = {}
  Wants <- AnyProfile
  MaxCommit = 1
  MaxCommands = 1
  MaxFaults = 0
INVARIANT SyncServesEveryTarget
