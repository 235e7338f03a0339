\* Three calls, two of which may be dropped; every agent ends some day.
SPECIFICATION MortalSpec
CONSTANTS
    h1 = h1  h2 = h2  h3 = h3  a1 = a1  a2 = a2
    Calls = {h1, h2, h3}
    Kinds <- Mixed
    Named <- Naming
    Servers = {s1}
    Agents = {a1, a2}
    None = None
    Impatient = {h1, h3}
INVARIANTS OneInstance NoOrphan
PROPERTIES KeepsRegistry CallSettles
CHECK_DEADLOCK FALSE
