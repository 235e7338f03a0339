\* Two tasks publish, one of them inside an HTTP handler; one client connects twice and resumes.
SPECIFICATION StreamSpec
CONSTANTS
    Producers = {stdout, inject}
    Injectors = {inject}
    Subscribers = {sse}
    RingSize = 3
    ChannelSize = 2
    MaxSequence = 5
    MaxConnects = 2
INVARIANTS ProducerOrder ReplayWindow SentInOrder
CHECK_DEADLOCK FALSE
