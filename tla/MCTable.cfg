SPECIFICATION Spec
CONSTANTS
    i1 = i1  i2 = i2  i3 = i3
    None = None
    Ids = {i1, i2, i3}
    Actions = {}
    Keys = {0}
    Statuses = {"ok", "error"}
    Times <- MCTimes
    Handlers = {"h"}
    Sweepers = {"s"}
    MaxAttempts = 1
    Limit = 1
    Cutoffs = {1}
    Filters = {None, "pending"}
CONSTRAINT MCUnanswered
SYMMETRY MCSymmetry
INVARIANTS
    StatusAndVerdict
    SummaryInOrder
    PagesSkipOnlyForLeavers
PROPERTIES
    IngestIsImmutable
