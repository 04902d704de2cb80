SPECIFICATION Spec
CONSTANTS
    None = None
    s1 = s1
    s2 = s2
    query = query
    unheard = unheard
    Servers <- TwoServers
    Tools = {query, unheard}
    Offered <- SameTool
    MaxCalls = 2
INVARIANT TypeOK
INVARIANT AllCallsAnswered
PROPERTY Terminates
PROPERTY ImplementsExchange
CHECK_DEADLOCK FALSE
