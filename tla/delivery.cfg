SPECIFICATION Spec
CONSTANTS
    clip = clip
    page = page
    Requests = {r1, r2, r3}
    MaxActive = 2
    Expiring = {clip}
    Asked = {clip}
    Batches <- MCBatches
    Files = {clip, page}
    Stored = {clip}
    Copies = {clip}
    Mime <- MCMime
    SignedFor <- MCSignedFor
    KeptFor <- MCKeptFor
    MetaKept = 1
    Patience = 1
    Pages = {1, 2}
SYMMETRY Symmetry
INVARIANTS
    AddressesWork
    GoneIsRefused
    ListedIsWhole
