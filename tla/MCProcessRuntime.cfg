\* All holders and waiters of the two locks, some of which may be dropped;
\* processes read their input.
SPECIFICATION ReadingSpec
CONSTANTS
    h1 = h1  h2 = h2  h3 = h3  h4 = h4
    Calls = {h1, h2, h3, h4}
    Kinds <- Mixed
    None = None
    Impatient = {h1, h2}
    max_concurrent_processes = 1
INVARIANTS NoLostProcess
PROPERTIES KeepsLife CallReturns
CHECK_DEADLOCK FALSE
