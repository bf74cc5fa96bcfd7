\* Two first contacts of one daemon and a deploy of another version.
SPECIFICATION Spec
CONSTANTS
  r1 = r1
  r2 = r2
  r3 = r3
  d1 = d1
  d2 = d2
  Requests = {r1, r2, r3}
  Daemons = {d1, d2}
  None = None
  daemonOf <- MCDaemonOf
  versionOf <- MCVersionOf
  DeployTimeout = 1
  UploadGc = 2
  MaxLosses = 1
INVARIANTS
  CachedBinaryRuns
PROPERTIES
  UploadInFlightKept
  LiveConnectionKept
  ContactEnds
CHECK_DEADLOCK FALSE
