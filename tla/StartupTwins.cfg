\* Two clients start a daemon for one path at the same time.
SPECIFICATION Spec
CONSTANTS
  Clients = {c1, c2}
  Old = Old
  None = None
  IdleExits = FALSE
  MaxKills = 0
INVARIANTS
  OneDaemonPerSocket
CHECK_DEADLOCK FALSE
