SPECIFICATION FairSpec
CONSTANTS
  c1 = c1 c2 = c2 c3 = c3 c4 = c4 t1 = t1 t2 = t2
  Spaces = {1}
  Calls = {c1, c2, c4}
  Tabs = {t1, t2}
  McpSpaces = {1}
  McpCalls = {c1, c2, c4}
  ListCalls = {c4}
  MaxActive = 1
  MaxClosed = 1
  MaxPosted = 2
  NoCall = NoCall NoSpace = NoSpace NoTab = NoTab
INVARIANTS HelpIsAnswerable ControlIsConsistent PromptStopsCalls DialogStopsCalls
PROPERTIES ImplementsTaskControl CallsEnd
