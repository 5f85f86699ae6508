\* Users remove files while nobody else changes the room's list; all the rest interleaves.
SPECIFICATION FairSpec
CONSTANTS
    Files = {f1, f2}
    MaxRequests = 4
    RemoveAlone = TRUE
INVARIANTS
    NothingLost
    ListIsReal
    ArchiveIsComplete
PROPERTIES
    ListingSettles
\* Clients stop asking: the requests of a behaviour are Requests.
CHECK_DEADLOCK FALSE
