\* The watchdog fires for a client that has stopped reading.
SPECIFICATION SpecDeafClient
CONSTANTS
  Cmd = {c1, c2}
  Sess = {s1}
  NoCmd = NoCmd
  sessionOf <- MCSessionOf
  Timed = {c1, c2}
  OwnDir = {c2}
  Erratic = {c1, c2}
  Mortal = {}
  MaxLosses = 1
  MaxCrashes = 1
PROPERTIES
  WatchdogFreesLock
CHECK_DEADLOCK FALSE
