SPECIFICATION Spec
CONSTANTS
    User = {u1, u2}
    Env = {e1, e2}
    Row = {r1, r2}
    Label = {l1, padded}
    Padded = {padded}
    Req = {q1, q2}
    Ops <- DeviceOps
    ParentEdits = {"clear"}
    Blank = Blank
    ApiKey = ApiKey
    None = None
SYMMETRY Symmetry
INVARIANTS
    MembersOnly
    AnswersTellTheTruth
    CatalogIntegrity
    ParentForest
PROPERTIES
    EnvironmentsGuarded
