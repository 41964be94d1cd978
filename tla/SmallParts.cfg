\* Every list of up to three modules with every dependency graph, every
\* sequence of up to three archives with failures and kills, and up to four
\* commands and edits on seven module sets.
\* Lists of four wire types.  Ten lists of exports on rlibs of three objects.
\* Eighteen metadata sections with ELF files of eight layouts, read in three
\* orders of their program headers.
SPECIFICATION MCSpec
CHECK_DEADLOCK FALSE
CONSTANTS
  framework = framework
  blk = blk
  net = net
  FW = FW
  BLK = BLK
  NET = NET
  plain = plain
  riscv = riscv
  x86 = x86
  entry = entry
  api = api
  helper = helper
  Module = {framework, blk, net}
  ModuleName = {framework, blk, net}
  Key = {FW, BLK, NET, plain}
  Prefixed = {FW, BLK, NET}
  Target = {riscv, x86}
  Sets <- GoodSets
  Files <- HandWritten
  MaxSteps = 4
  MaxArchives = 3
  Name = {1, 2}
  Body = {entry, api, helper}
  MayFail = TRUE
  Lists <- MCLists
  MaxSize = 8
  Word = 16
  Exports <- MCExports
  PublicAbis <- MCPublicAbis
  Rlibs <- MCRlibs
  StableName <- MCStableName
  ApiRoot <- MCApiRoot
  Descriptor = 1
  Elfs <- MCElfs
  Sections <- MCSections
  KernelSymbol <- MCKernelSymbol
  Sites <- MCSites
  Page = 32
  DescriptorSize = 24
  PointerOffset = 8
  Lifecycle <- MCLifecycle
INVARIANT DependenciesFirst
INVARIANT EachObjectOnce
INVARIANT ConfiguredBuilds
INVARIANT CyclesFound
INVARIANT EveryByteOnce
INVARIANT NamesLeadHome
INVARIANT SupportIsCompilers
INVARIANT AddressesKept
INVARIANT ReferencesKept
INVARIANT OutcomeIsRight
PROPERTY OrderEnds
