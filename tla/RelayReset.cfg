\* Two frames of stdin, a command that reads, writes and ends as it likes.
SPECIFICATION Spec
CONSTANTS
  Items = 2
  Parts = 2
  MaxPress = 1
  UpCap = 1
  CtrlCap = 1
  LaneCap = 1
  SigCap = 1
  WireCap = 1
  BackCap = 1
  OutCap = 1
  DownCap = 1
INVARIANT VanishedClientLetsFinish
CHECK_DEADLOCK FALSE
