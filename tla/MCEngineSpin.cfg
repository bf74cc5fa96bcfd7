\* The future of wait() is dropped while finish joins the forwarder.
SPECIFICATION Spec
CONSTANTS
  MaxUnit = 2
  MaxPayload = 1
  Reports <- MCReports
  Bounds <- MCBounds
  MaxChunk = 3
  MsgCap = 1
  CloseTime = 1
  ReapTime = 2
  JoinTime = 2
PROPERTIES
  NoTaskLeaks
CHECK_DEADLOCK FALSE
