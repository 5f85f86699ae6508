SPECIFICATION FairSpec
CONSTANTS
    Emails = {"ann", "Ann"}
    Lower <- Spelling
    Bases = {"n"}
    MaxRequests = 4
    Alone = TRUE
INVARIANTS
    LastWriteStands
    OneCodeEach
PROPERTIES
    PickingEnds
CHECK_DEADLOCK FALSE
