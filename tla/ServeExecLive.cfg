\* Liveness: stdin data, a TERM-immune member, an orphan that stays silent.
SPECIFICATION Spec
CONSTANTS
  Timeouts = {TRUE, FALSE}
  Frames = {"data"}
  Immunity = {TRUE}
  OrphanTalks = FALSE
  InCap = 1
  CtrlCap = 1
  StdinCap = 1
  PipeCap = 1
  OutCap = 1
PROPERTIES
  TimeoutEndsLoop
  ExitIsReported
  InterruptArrives
CHECK_DEADLOCK FALSE
