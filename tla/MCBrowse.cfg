SPECIFICATION Spec
CONSTANTS
    None = None
    Words = {"abc"}
    Shorts = {"ab"}
    Categories = {"all", "sports"}
    First = "all"
    Statuses = {"active", "resolved"}
    Sorts = {"trending"}
    Users = {"ann"}
    MaxPages = 2
    MaxActs = 3
INVARIANTS
    ListIsOfSearch
PROPERTY
    UrlSettles
CHECK_DEADLOCK FALSE
