SPECIFICATION FairSpec
CONSTANTS
  Calls = {1, 2, 3}
  MaxToolCalls = 2
  Report = Report
INVARIANTS StopDropsOutput LateCallsEnd
PROPERTIES RunsEnd ImplementsTaskControl
CHECK_DEADLOCK FALSE
