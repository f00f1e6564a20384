SPECIFICATION Spec
CONSTANTS
    p1 = p1  p2 = p2  q1 = q1  q2 = q2
    Calls = {p1, p2, q1, q2}
    Side <- MCSide
    MaxRetries <- MCMaxRetries
    PoolSize = 1
    Statuses = {200, 401, 429, 503}
INVARIANTS
    ChatTellsLastTry
PROPERTIES
    PrimaryEnds
    ImplementsModelCall
