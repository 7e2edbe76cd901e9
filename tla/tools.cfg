SPECIFICATION ToolsSpec
CONSTANTS
  nr_domains = 3
  option_P = 3
  estimate = 1
  MaxWakeups = 1
  ThreadFaults = {"work", "create", "pthread"}
  Nobody = Nobody
INVARIANT InOrder
INVARIANT ResultIsTrue
INVARIANT OutputRight
INVARIANT AlignmentIsTrue
INVARIANT ConversionLeavesNothing
INVARIANT TestsAreTrue
PROPERTY ImplementsOutput
PROPERTY RemoteIsTrue
PROPERTY EveryToolEnds
CHECK_DEADLOCK FALSE
