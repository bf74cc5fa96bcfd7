\* Three commands compete for a session; each may go wrong in its own way.
SPECIFICATION Spec
CONSTANTS
  Cmd = {c1, c2, c3}
  Sess = {s1}
  NoCmd = NoCmd
  sessionOf <- MCSessionOf
  Timed = {c1}
  OwnDir = {c2}
  Erratic = {c3}
  Mortal = {c2}
  MaxLosses = 1
  MaxCrashes = 1
INVARIANTS
  TypeOK
  OneCommandPerSession
  NoLostWaiter
  OverlapNeedsAbandoned
  StateIsolated
  StartDirIsCurrent
  DirAndStateAgree
PROPERTIES
  OvertakenOnlyWhenWarned
CHECK_DEADLOCK FALSE
