\* Three calls on one stored and one new session, two connections, one of which may
\* fail to open or break, and three sessions at the agent.
SPECIFICATION SdkSpec
CONSTANTS
    old = old
    new = new
    c1 = c1
    c2 = c2
    c3 = c3
    None = None
    Sessions = {old, new}
    Calls = {c1, c2, c3}
    Stored = {old}
    Listening = {old}
    Jobs <- Workloads
    MaxConnections = 2
    MaxRemote = 3
    MaxAsks = 1
    MaxBreaks = 1
INVARIANTS LoggedUnderItsSession ReplayFirst NothingLeftOpen
PROPERTIES CallsSettle
CHECK_DEADLOCK FALSE
