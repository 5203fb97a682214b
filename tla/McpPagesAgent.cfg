SPECIFICATION Spec
CONSTANTS
    t1 = t1
    t2 = t2
    NoTab = NoTab
    NoReq = NoReq
    Conns <- OneConn
    Tabs <- TwoTabs
    Opened <- TwoTabs
    Reqs <- OneReq
    MaxConnections = 1
    MaxCalls = 1
    MaxDoc = 0
INVARIANTS
    AgentRespectsControl
CHECK_DEADLOCK FALSE
