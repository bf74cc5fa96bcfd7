\* A command without a timeout whose channel is closed.
SPECIFICATION Spec
CONSTANTS
  Timeouts = {FALSE}
  Frames = {"data"}
  Immunity = {TRUE}
  OrphanTalks = FALSE
  InCap = 1
  CtrlCap = 1
  StdinCap = 1
  PipeCap = 1
  OutCap = 1
PROPERTIES
  CloseEndsLoop
CHECK_DEADLOCK FALSE
