\* Two exports and one more build of the kernel, an edit, a kill and a reader.
SPECIFICATION Spec
CHECK_DEADLOCK FALSE
CONSTANTS
  vfs = vfs
  mm = mm
  bits = bits
  macros = macros
  A = A
  B = B
  kernelA = kernelA
  kernelB = kernelB
  None = None
  Crate = {vfs, mm, bits, macros}
  Fingerprint = {1, 2, 3, 4, 5, 6}
  Unit = {1, 2, 3, 4}
  CrateOf <- MCCrateOf
  Version = {1, 2}
  Api = {vfs, mm}
  Compiled = {vfs, mm, bits}
  Config = {A, B}
  KernelUnit <- MCKernelUnit
  UnitOf <- MCUnitOf
  FingerprintOf <- MCFingerprintOf
  Depends <- MCDepends
  KernelNeeds = {vfs, mm}
  FirstConfig = A
  Pid = {1, 2}
  MaxEdits = 1
  MaxBuilds = 1
  MaxExports = 2
  MaxStops = 1
  MaxReads = 1
  MaxEvents = 3
INVARIANT ClosureExact
INVARIANT PackageWhole
INVARIANT PackageIsKernels
INVARIANT FrameworkAsClaimed
