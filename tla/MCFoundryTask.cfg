\* Up to four requests on an existing and a new session, two users, three models.
SPECIFICATION Spec
CONSTANTS
    old = old
    new = new
    ann = ann
    bob = bob
    m1 = m1
    m2 = m2
    m3 = m3
    r1 = r1
    r2 = r2
    r3 = r3
    r4 = r4
    None = None
    Sessions = {old, new}
    Users = {ann, bob}
    Models = {m1, m2, m3}
    Requests = {r1, r2, r3, r4}
    Jobs <- Workloads
    Existing = {old}
    First = m1
INVARIANTS ThinkingEnds KeepsASession ModelInForce SenderAttributed
PROPERTIES SessionsSettle
CHECK_DEADLOCK FALSE
