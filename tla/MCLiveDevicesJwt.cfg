SPECIFICATION MCSpec
CONSTANTS
    User = {u1, u2}
    Env = {e1}
    Row = {r1}
    Label = {l1}
    Viewer = {v1}
    Presence = {"up"}
    Faults = {}
    Blank = Blank
    ApiKey = ApiKey
    None = None
SYMMETRY Symmetry
PROPERTIES
    JwtSeesOwn
