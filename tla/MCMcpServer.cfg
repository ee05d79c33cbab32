SPECIFICATION Spec
CONSTANTS
  a = a
  TUs = {a}
  Messages <- mcMessages
  Framings <- mcFramings
  BareText = FALSE
  HasDatabase = TRUE
  MaxMessages = 3
  MaxEdits = 1
INVARIANT
  CacheIsInvisible
PROPERTY
  AnsweredInTurn
CHECK_DEADLOCK FALSE
