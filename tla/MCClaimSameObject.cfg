SPECIFICATION Spec
CONSTANTS
    c1 = c1  c2 = c2  c3 = c3
    i1 = i1  i2 = i2  i3 = i3
    r1 = r1  r2 = r2
    w1 = w1  w2 = w2
    Ship = Ship  ship = ship  hold = hold
    Actions <- MCActions
    NormalForm <- MCNormalForm
    None = None
    Torn = Torn
    RequireJson = TRUE
    Calls = {c1}
    Ids = {i1}
    IdOf <- MCOwnIds
    Leaf <- MCPlainIds
    Replicas = {r1}
    Workers = {w1}
    Home <- MCOneHome
    Capacity = 1
    Policy = "drop_new"
    OnFailure = "fail_open"
    RawStoreOn = TRUE
    FileStore = FALSE
    PrimaryTexts = {Ship}
    CandidateTexts = {ship, hold}
    Rates = {"all"}
    SweepLimit = 2
    RequeueLimit = 2
    MaxFaults = 0
    MaxCrashes = 0
    MaxStops = 0
    LastDay = 2
INVARIANTS
    MergedIntoSameObject
