\* Two clients, a socket file left by an earlier daemon or none, one kill.
SPECIFICATION Spec
CONSTANTS
  Clients = {c1, c2}
  Old = Old
  None = None
  IdleExits = TRUE
  MaxKills = 1
INVARIANTS
  TypeOK
  ReachableUnlessStolen
  IdleExitUnused
PROPERTIES
  IdleDaemonExits
CHECK_DEADLOCK FALSE
