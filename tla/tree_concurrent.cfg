\* Two requests, or a request and the purge, interleave at every await.  Every
\* walk over a tree without cycles ends.
SPECIFICATION FairSpec
CONSTANTS
    d1 = d1
    d2 = d2
    d3 = d3
    f1 = f1
    s1 = s1
    Root = Root
    Original = Original
    Items = {d1, d2, f1}
    Folders = {d1, d2}
    StorageOf <- OneStorage
    Handlers = {h1, h2}
    MaxInFlight = 2
    MaxRequests = 3
PROPERTIES
    GoneForGood
    WalksEnd
\* Users stop asking, and MaxRequests bounds how often they ask.
CHECK_DEADLOCK FALSE
