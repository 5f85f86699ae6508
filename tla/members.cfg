\* Requests on one user follow one another; those on different users overlap.
SPECIFICATION Spec
CONSTANTS
    creator = creator
    u1 = u1
    u2 = u2
    Users = {creator, u1, u2}
    Creator = creator
    Roles = {"write"}
    MaxRequests = 3
    Apart = TRUE
SYMMETRY Others
INVARIANTS
    OneRowEach
    
    RemovedHaveNoAccess
    CreationUndone
    CountAtRest
\* Clients stop asking: the requests of a behaviour are bounded.
CHECK_DEADLOCK FALSE
