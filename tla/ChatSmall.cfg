SPECIFICATION FairSpec
CONSTANTS
  MaxTurns = 2
  MaxAnswers = 3
  MaxSessions = 3
  MaxSaves = 1
  MaxActs = 1
  Jobs = {1, 2}
INVARIANTS TurnsAgree RunHasItsTurn ShownIsSaved
PROPERTIES ImplementsAgentTurn LeftRunsStayOut CompactionKeepsMessages TurnsEnd
CHECK_DEADLOCK FALSE
