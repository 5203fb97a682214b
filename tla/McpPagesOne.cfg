SPECIFICATION Spec
CONSTANTS
    t1 = t1
    t2 = t2
    NoTab = NoTab
    NoReq = NoReq
    Conns <- OneConn
    Tabs <- TwoTabs
    Opened <- TwoTabs
    Reqs <- TwoReqs
    MaxConnections = 1
    MaxCalls = 2
    MaxDoc = 1
INVARIANTS
    DrivesOnlyLeasedTabs
    EveryCallAccounted
    QueueIsWatched
    PromptsAreCurrent
PROPERTIES
    NoRegrantByPicker
    EndingAnswersCalls
    ConsentIsForThePageShown
CHECK_DEADLOCK FALSE
