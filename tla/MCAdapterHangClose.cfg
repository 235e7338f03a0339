\* A shutdown of an agent that does not end by itself.
SPECIFICATION FairSpec
CONSTANTS
    r1 = r1  r2 = r2  r3 = r3  n1 = n1  k1 = k1  i1 = i1  sse = sse  id1 = id1  id2 = id2
    Requests = {r1}
    Notices = {}
    Ids = {id1, id2}
    IdOf <- MixedIds
    Closers = {k1}
    Stdout = Stdout
    Watcher = Watcher
    Nobody = Nobody
    PipeSize = 1
    MaxNotes = 1
    Scenarios <- Closing
    Producers = {Stdout, Watcher}
    Injectors = {}
    Subscribers = {}
    RingSize = 1
    ChannelSize = 1
    MaxSequence = 2
    MaxConnects = 0
PROPERTIES ShutdownReturns
CHECK_DEADLOCK FALSE
