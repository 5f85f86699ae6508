\* Requests one after the other; f3 is of another storage and may be restored
\* below a folder of the first.
SPECIFICATION FairSmallSpec
CONSTANTS
    d1 = d1
    d2 = d2
    d3 = d3
    d4 = d4
    f1 = f1
    f2 = f2
    f3 = f3
    s1 = s1
    s2 = s2
    Guest = {f3}
    Root = Root
    Original = Original
    Items = {d1, d2, d3, d4, f1, f2, f3}
    Folders = {d1, d2, d3, d4}
    StorageOf <- TwoStorages
    UserNames <- TwoNames
    Handlers = {h1}
    Editors = {e1}
    MaxInFlight = 1
    MaxRequests = 2
    Old = {d1, d2, f3}
INVARIANTS
    CopyIsComplete
PROPERTIES
    NamesStayUnique
    CopyEnds
\* Users stop asking, and MaxRequests bounds how often they ask.
CHECK_DEADLOCK FALSE
