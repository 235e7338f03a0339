\* Two requests, one of which the proxy answers itself, with one failure and one
\* stream: POSTs, the memory of responses, close() and the end.
SPECIFICATION MortalSpec
CONSTANTS
    Requests = {r1, r2}
    Asking = {}
    Slash = {r2}
    Watchers = {}
    Window = 2
    RingSize = 2
    ChannelSize = 1
    MaxSequence = 3
    MaxConnects = 1
    MaxNotes = 0
    MaxFailures = 1
INVARIANTS AnsweredOnce ClosedBehind
PROPERTIES RequestSettles
CHECK_DEADLOCK FALSE
