\* Two commands on packages of two targets, one failure or kill.
SPECIFICATION Spec
CHECK_DEADLOCK FALSE
CONSTANTS
  riscv = riscv
  x86 = x86
  Targets <- TwoTargets
  Package = {1, 2}
  ProfileOf <- TwoProfiles
  Offered <- ThreePackages
  Repositories <- OnePackage
  Checkout <- ThreePackages
  Home = {}
  Wants <- SomeWants
  MaxCommit = 2
  MaxCommands = 2
  MaxFaults = 1
INVARIANT SyncCoherent
INVARIANT CargoSeesOneInterface
INVARIANT BackupsRestored
