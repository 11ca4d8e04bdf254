SPECIFICATION MCLiveSpec
CONSTANTS
    User = {u1}
    Env = {e1, e2}
    Row = {r1, r2}
    Label = {l1, l2}
    Viewer = {}
    Presence = {"up"}
    Faults = {}
    Blank = Blank
    ApiKey = ApiKey
    None = None
PROPERTIES
    IdentityHolds
    IdentityCatchesUp
