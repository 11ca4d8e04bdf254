SPECIFICATION MCSpec
CONSTANTS
    User = {u1}
    Env = {e1, e2}
    Row = {r1, r2}
    Label = {l1}
    Viewer = {v1}
    Presence = {"ttl", "up"}
    Faults = {"lookup", "restart"}
    Blank = Blank
    ApiKey = ApiKey
    None = None
SYMMETRY Symmetry
INVARIANTS
    TypeOK
PROPERTIES
    ListingConfined
    ListingComplete
