SPECIFICATION Spec
CONSTANTS
  display <- mcDisplay
  baseOf <- mcBaseOf
  MaxFrames = 3
  enclosingClass <- mcEnclosingClass
  bases <- mcBases
  methods <- mcMethods
  abstract <- mcAbstract
  Commands <- mcCommands
  Programs <- mcPrograms
  EntryPoints <- mcEntryPoints
  Identities <- mcIdentities
  Targets <- mcTargets
  ChainOpts <- mcChainOpts
  LockOpts <- mcLockOpts
  EntryArgs <- mcEntryArgs
  Types <- mcTypes
  Sites <- mcSites
  MaxPaths = 20
  MaxBoundaryNodes = 10
INVARIANTS
  ChainsExact
  LocksExact
  ReachabilityExact
  
  IdentityExact
  OneShotAgrees
