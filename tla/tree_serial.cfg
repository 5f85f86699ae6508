\* Requests one after the other: each ends before the next begins.
SPECIFICATION Spec
CONSTANTS
    d1 = d1
    d2 = d2
    d3 = d3
    f1 = f1
    s1 = s1
    Root = Root
    Original = Original
    Items = {d1, d2, d3, f1}
    Folders = {d1, d2, d3}
    StorageOf <- OneStorage
    Handlers = {h1}
    MaxInFlight = 1
    MaxRequests = 5
SYMMETRY FolderSymmetry
INVARIANTS
    TrashClosed
    NoOrphan
PROPERTIES
    StaysAcyclic
    LiveNeverDestroyed
    ImplementsBin
\* Users stop asking, and MaxRequests bounds how often they ask.
CHECK_DEADLOCK FALSE
