\* Two files of two lines; three attempts for up to four identities and two files.
SPECIFICATION Spec
CONSTANTS
  Char <- MCChar
  Alias <- MCAlias
  Outputs <- MCOutputs
  Files <- MCFiles
  MaxFiles = 2
  MaxAttempts = 3
  MaxAgent = 4
  MaxKeys = 2
INVARIANTS
  KeyDecision
  AttemptsInOrder
  GivesUpLast
PROPERTIES
  ConnectEnds
CHECK_DEADLOCK FALSE
