SPECIFICATION ApplianceSpec
CONSTANTS
  Kinds = {"call", "upload", "download"}
  LibFaults = {"open", "read", "write", "close"}
  DaemonFaults = {"open", "read", "write", "close", "exit"}
  UserCancels = TRUE
  MaxCalls = 3
  MaxChunks = 3
  MaxProgress = 2
  Cap = 2
  Limit = 2
  Events = {"trace", "close"}
  OldKinds = {"close"}
  MaxRegs = 3
  MaxDepth = 2
INVARIANT StaysInStep
INVARIANT CallResultIsTrue
INVARIANT LaunchAllOrNothing
INVARIANT ToldOnce
PROPERTY CallsReturn
PROPERTY RecoveryKills
CHECK_DEADLOCK FALSE
