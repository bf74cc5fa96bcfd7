\* A stream of five units in any messages; one stdin item, one signal.
SPECIFICATION Spec
CONSTANTS
  MaxUnit = 2
  MaxPayload = 1
  Reports <- MCReports
  Bounds <- MCBounds
  MaxChunk = 3
  MsgCap = 1
  CloseTime = 1
  ReapTime = 2
  JoinTime = 2
INVARIANTS
  DecodesAsRead
  CloseAfterEof
PROPERTIES
  TasksEnd
CHECK_DEADLOCK FALSE
