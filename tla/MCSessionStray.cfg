\* An abandoned execution writes the state file of a session it no longer owns.
SPECIFICATION Spec
CONSTANTS
  Cmd = {c1, c2}
  Sess = {s1}
  NoCmd = NoCmd
  sessionOf <- MCSessionOf
  Timed = {c1, c2}
  OwnDir = {c2}
  Erratic = {}
  Mortal = {}
  MaxLosses = 1
  MaxCrashes = 1
PROPERTIES
  StateFileUnderLock
CHECK_DEADLOCK FALSE
