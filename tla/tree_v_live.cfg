\* A restore races the purge.
SPECIFICATION Spec
CONSTANTS
    d1 = d1
    d2 = d2
    d3 = d3
    f1 = f1
    s1 = s1
    Root = Root
    Original = Original
    Items = {d1, f1}
    Folders = {d1}
    StorageOf <- OneStorage
    Handlers = {h1, h2}
    MaxInFlight = 2
    MaxRequests = 4
PROPERTIES
    LiveNeverDestroyed
\* Users stop asking, and MaxRequests bounds how often they ask.
CHECK_DEADLOCK FALSE
