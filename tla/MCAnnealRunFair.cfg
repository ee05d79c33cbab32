SPECIFICATION FairSpec
CONSTANTS
  TUs = {a, b}
  Threads = 2
  Options = {o1, o2}
  Modes = {TRUE, FALSE}
  MaxEdits = 1
  MaxHeaderEdits = 1
  MaxKills = 1
  MaxTorn = 0
  MaxReruns = 1
  MaxDeaths = 3
  MaxFaults = 0
INVARIANTS
  DeathsBounded
PROPERTIES
  FinishedWorkIsKept
  Converges
CHECK_DEADLOCK FALSE
