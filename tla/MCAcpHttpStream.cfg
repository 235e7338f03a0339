\* One request whose agent notifies, asks back and then exits, with the stream
\* failing twice: three events of two publishers, a ring of two and a channel of one.
SPECIFICATION Spec
CONSTANTS
    Requests = {r1}
    Asking = {r1}
    Slash = {}
    Watchers = {"exit"}
    Window = 1
    RingSize = 2
    ChannelSize = 1
    MaxSequence = 3
    MaxConnects = 3
    MaxNotes = 1
    MaxFailures = 2
INVARIANTS EventsInOrder
CHECK_DEADLOCK FALSE
