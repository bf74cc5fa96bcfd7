\* Two commands with timeouts, every fault for both, under fairness.
SPECIFICATION Spec
CONSTANTS
  Cmd = {c1, c2}
  Sess = {s1}
  NoCmd = NoCmd
  sessionOf <- MCSessionOf
  Timed = {c1, c2}
  OwnDir = {c2}
  Erratic = {c1, c2}
  Mortal = {c1, c2}
  MaxLosses = 1
  MaxCrashes = 1
PROPERTIES
  TakesTurns
  TimedSessionMoves
CHECK_DEADLOCK FALSE
