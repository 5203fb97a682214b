SPECIFICATION Spec
CONSTANTS
    h1 = h1
    h2 = h2
    h3 = h3
    mcp = mcp
    agent = agent
    Nobody = Nobody
    MaxId = 4
    Tabs <- MCTabs
    Holders <- MCHolders
    Clients <- MCClients
    Mcp <- MCMcp
INVARIANTS
    NoLostLease
    NoStolenLease
PROPERTIES
    ImplementsTabControl
