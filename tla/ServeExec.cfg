\* Every kind of frame, a member of either kind, an orphan that may talk.
SPECIFICATION Spec
CONSTANTS
  Timeouts = {TRUE}
  Frames = {"data", "eof", "term", "kill", "bad"}
  Immunity = {TRUE, FALSE}
  OrphanTalks = TRUE
  InCap = 1
  CtrlCap = 1
  StdinCap = 1
  PipeCap = 1
  OutCap = 1
INVARIANTS
  TypeOK
  NoSurvivors
  ExitComesLast
CHECK_DEADLOCK FALSE
