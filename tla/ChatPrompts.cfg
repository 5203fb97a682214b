SPECIFICATION FairSpec
CONSTANTS
  MaxTurns = 2
  MaxAnswers = 3
  MaxSessions = 3
  MaxSaves = 1
  MaxActs = 1
  Jobs = {1}
PROPERTIES PromptsAreSent
CHECK_DEADLOCK FALSE
