SPECIFICATION MCSpec
CONSTANTS
    User = {u1}
    Env = {e1, e2}
    Row = {r1, r2}
    Label = {"d1", "flora"}
    Pub = {q1}
    Topic <- MCTopics
    Prefix <- MCPrefix
    Pattern <- MCPattern
    Blank = ""
    ApiKey = ApiKey
    None = None
SYMMETRY Symmetry
INVARIANTS
    TypeOK
    PublishLicensed
    LoopbackSameDevice
