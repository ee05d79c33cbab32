SPECIFICATION Spec
CONSTANTS
  a = a
  b = b
  h = h
  Procs = {p}
  TUs <- MCTUs
  Headers = {h}
  PerSecond = 2
  Opens <- MCOpens
  Configs = {1, 2}
  InitialFiles <- AllFiles
  MaxEdits = 2
  MaxRuns = 2
  MaxKills = 1
  MaxFailures = 1
  MaxReindex = 1
SYMMETRY Symmetry
INVARIANTS
  CleanMeansFresh
  RunEndsFresh
  SettlesDown
  NeverTorn
CHECK_DEADLOCK FALSE
