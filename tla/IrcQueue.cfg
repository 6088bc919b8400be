CONSTANTS
    q1 = q1
    q2 = q2
    q3 = q3
    q4 = q4
    b1 = b1
    NoNotice = NoNotice
    EqID <- MCEqID
    Body <- MCBody
    Capacity = 3
SPECIFICATION FairQueueSpec
INVARIANTS
    TypeOK
    OrderMatchesEntries
    NoLostWakeup
PROPERTIES
    SlotsKept
    ImplementsBox
    NotStarved
    DrainsAfterClose
