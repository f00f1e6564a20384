SPECIFICATION Spec
CONSTANTS
    c1 = c1  c2 = c2  c3 = c3
    i1 = i1  i2 = i2  i3 = i3
    r1 = r1  r2 = r2
    w1 = w1  w2 = w2
    Ship = Ship  ship = ship  hold = hold
    Actions <- MCActions
    NormalForm <- MCNormalForm
    None = None
    Torn = Torn
    RequireJson = TRUE
    Calls = {c1, c2}
    Ids = {i1, i2, i3}
    IdOf <- MCOwnIds
    Leaf <- MCNestedId
    Replicas = {r1}
    Workers = {w1}
    Home <- MCOneHome
    Capacity = 1
    Policy = "drop_old"
    OnFailure = "fail_closed"
    RawStoreOn = TRUE
    FileStore = FALSE
    PrimaryTexts = {Ship}
    CandidateTexts = {ship, "garbage"}
    Rates = {"none", "all"}
    SweepLimit = 2
    RequeueLimit = 2
    MaxFaults = 1
    MaxCrashes = 1
    MaxStops = 0
    LastDay = 1
INVARIANTS
    AckedIsDurable
    ArchiveHoldsPrimary
    CountersCoverTable
    VerdictReproducible
