SPECIFICATION Spec
CONSTANTS
  TUs = {a, b}
  Threads = 2
  Options = {o1}
  Modes = {TRUE, FALSE}
  MaxEdits = 1
  MaxHeaderEdits = 0
  MaxKills = 1
  MaxTorn = 1
  MaxReruns = 1
  MaxDeaths = 3
  MaxFaults = 1
SYMMETRY TUSymmetry
INVARIANTS
  IndexIsFresh
  DiagnosticsAreFresh
  LeftOutOnlyIfSuspect
CHECK_DEADLOCK FALSE
