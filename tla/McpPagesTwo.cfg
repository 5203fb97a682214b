SPECIFICATION FairSpec
CONSTANTS
    t1 = t1
    t2 = t2
    NoTab = NoTab
    NoReq = NoReq
    Conns <- TwoConns
    Tabs <- TwoTabs
    Opened <- OneTab
    Reqs <- OneReq
    MaxConnections = 2
    MaxCalls = 1
    MaxDoc = 0
PROPERTIES
    ImplementsTabControl
    CallsEnd
CHECK_DEADLOCK FALSE
