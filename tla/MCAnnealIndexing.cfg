SPECIFICATION Spec
CONSTANTS
  Programs <- mcPrograms
  MaxDepth = 2
  HazardDepth = 2
  Hazards = {"dlopen"}
  ModelConvertibility = TRUE
  WarnSameScore = TRUE
INVARIANTS
  FindingsExact
  InvisibleOverloadsFound
CHECK_DEADLOCK FALSE
