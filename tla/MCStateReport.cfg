\* Two executions of a session, one process id, dumps up to twice the cap.
SPECIFICATION Spec
CONSTANTS
  Cap = 3
  Chunk = 2
  PipeCap = 3
  Pids = {p1}
  MaxDump = 6
  MaxRuns = 2
INVARIANTS FileIsWhole SavedIsLoadable NoSigpipe
PROPERTIES CollectEnds
CHECK_DEADLOCK FALSE
