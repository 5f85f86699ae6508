SPECIFICATION FavoritesSpec
CONSTANTS
    Users = {"own", "ann"}
    Owner = "own"
    Items = {"a", "b", "f", "n", "g"}
    Dirs = {"a", "b", "n"}
    Planted <- Plan
    Worn <- Tagged0
    Sharable = {"a", "b"}
    Invited = {"ann"}
    Batches <- Lists
    Marked = {"b"}
    Tags = {"t"}
    Top = Top
    None = None
    MaxRequests = 3
    MaxItemRequests = 2
    Apart = TRUE
INVARIANTS
    RevokedStayOut
    TagsListed
    FavoritesStay
PROPERTIES
    StaysInShare
CHECK_DEADLOCK FALSE
