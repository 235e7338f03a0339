\* A request beside another under its id, one under another id, a notice, a shutdown,
\* an injected notification, an SSE client, or a line printed unasked.
\* The agent ends some day.
SPECIFICATION MortalSpec
CONSTANTS
    r1 = r1  r2 = r2  r3 = r3  n1 = n1  k1 = k1  i1 = i1  sse = sse  id1 = id1  id2 = id2
    Requests = {r1, r2, r3}
    Notices = {n1}
    Ids = {id1, id2}
    IdOf <- MixedIds
    Closers = {k1}
    Stdout = Stdout
    Watcher = Watcher
    Nobody = Nobody
    PipeSize = 1
    MaxNotes = 1
    Scenarios <- Pairs
    Producers = {Stdout, Watcher, i1}
    Injectors = {i1}
    Subscribers = {sse}
    RingSize = 1
    ChannelSize = 1
    MaxSequence = 2
    MaxConnects = 1
INVARIANTS WaiterReachable OwnReply
PROPERTIES KeepsPromise KeepsStream PostReturns
CHECK_DEADLOCK FALSE
