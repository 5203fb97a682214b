SPECIFICATION Spec
CONSTANTS
  c1 = c1 c2 = c2 c3 = c3 c4 = c4 t1 = t1 t2 = t2
  Spaces = {1}
  Calls = {c1, c2}
  Tabs = {}
  McpSpaces = {}
  McpCalls = {}
  ListCalls = {}
  MaxActive = 1
  MaxClosed = 1
  MaxPosted = 0
  NoCall = NoCall NoSpace = NoSpace NoTab = NoTab
PROPERTIES CancelledCallsNeverStart
