SPECIFICATION Spec
CONSTANTS
  Calls <- MCCalls
  LocalTypes <- MCLocalTypes
  MaxNodes = 6
  MaxDepth = 9
INVARIANTS
  ContextIsLexical
  EdgesJoinContexts
  CallablesFollowed
CHECK_DEADLOCK FALSE
