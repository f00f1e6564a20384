SPECIFICATION Spec
CONSTANTS
    Size = 2
    MaxOffers = 6
INVARIANTS
    TapeInOrder
    OldestDisplaced
PROPERTIES
    RowsLeaveQueue
    AcloseEnds
