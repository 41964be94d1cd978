\* Two runs after one another, of every set in every configuration, each stopping anywhere.
SPECIFICATION Spec
CHECK_DEADLOCK FALSE
CONSTANTS
  framework = framework
  blk = blk
  net = net
  Module = {framework, blk, net}
  Sets <- AllSets
  MayStop = TRUE
  MaxRuns = 2
INVARIANT DependenciesReady
INVARIANT DoneIsComplete
INVARIANT OutputNotMixed
