\* Two uploads, one of them to the room as well, confirmed three times in all.
SPECIFICATION Spec
CONSTANTS
    u1 = u1
    u2 = u2
    Uploads = {u1, u2}
    NameOf <- DistinctNames
    SizeOf <- Sizes
    RoomUploads = {u1}
    StorageUploads = {u1, u2}
    MaxBytes = 2
    Confirms = {c1, c2, c3}
    UserNames = {n1}
    MaxTicks = 1
    NoFile = NoFile
    NoKey = NoKey
SYMMETRY ConfirmSymmetry
INVARIANTS
    StorageUploadOnce
    FilesWereUploaded
    ConfirmedIsListed
PROPERTIES
    QuotaOvershoot
\* Clients stop asking: the requests of a behaviour are Confirms.
CHECK_DEADLOCK FALSE
