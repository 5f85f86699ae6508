SPECIFICATION ChatSpec
CONSTANTS
    Users = {f, u, v}
    Founder = f
    Lists = {{u}, {v}, {f, u}, {f, v}}
    Nobody = nobody
    MaxRequests = 3
    Apart = TRUE
SYMMETRY Others
INVARIANTS
    OneDirectEach
    DirectIsOfBoth
    SocketsAgree
PROPERTIES
    DeletedIsFinal
    RemovedAreSilent
CHECK_DEADLOCK FALSE
