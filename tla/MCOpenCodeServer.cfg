\* Two requests, each of which may be dropped, and a shutdown; as many restarts
\* as there are children.
SPECIFICATION FairSpec
CONSTANTS
    r1 = r1  r2 = r2  c1 = c1  c2 = c2  c3 = c3
    Requests = {r1, r2}
    Children = {c1, c2, c3}
    Stop = Stop
    None = None
    Impatient = {r1, r2}
    auto_restart = TRUE
INVARIANTS OneSidecar Watched
PROPERTIES EnsureReturns Restarted
CHECK_DEADLOCK FALSE
