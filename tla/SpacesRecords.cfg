SPECIFICATION Spec
CONSTANTS
  c1 = c1 c2 = c2 c3 = c3 c4 = c4 t1 = t1 t2 = t2
  Spaces = {1, 2, 3}
  Calls = {c1, c2, c3}
  Tabs = {}
  McpSpaces = {1, 3}
  McpCalls = {c1, c3}
  ListCalls = {}
  MaxActive = 2
  MaxClosed = 1
  MaxPosted = 0
  NoCall = NoCall NoSpace = NoSpace NoTab = NoTab
INVARIANTS Bounded HistoryIsTheRecord
PROPERTIES EndsForGood
