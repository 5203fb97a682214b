SPECIFICATION Spec
CONSTANTS
    t1 = t1
    t2 = t2
    NoTab = NoTab
    NoReq = NoReq
    Conns <- TwoConns
    Tabs <- OneTab
    Opened <- OneTab
    Reqs <- OneReq
    MaxConnections = 1
    MaxCalls = 1
    MaxDoc = 0
INVARIANTS
    AdmissionBound
PROPERTIES
    EvictionSparesWork
CHECK_DEADLOCK FALSE
