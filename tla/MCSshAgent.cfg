\* Up to four identities of the agent and three attempts: the files get no turn.
SPECIFICATION Spec
CONSTANTS
  Char <- MCChar
  Alias <- MCAlias
  Outputs <- MCOutputs
  Files <- MCFiles
  MaxFiles = 2
  MaxAttempts = 3
  MaxAgent = 4
  MaxKeys = 2
INVARIANTS
  FilesGetTheirTurn
CHECK_DEADLOCK FALSE
