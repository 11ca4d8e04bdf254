SPECIFICATION Spec
CONSTANTS
    User = {u1, u2}
    Env = {e1, e2}
    Row = {r1}
    Label = {Blank}
    Padded = {}
    Req = {q1, q2}
    Ops <- MembershipOps
    ParentEdits = {}
    Blank = Blank
    ApiKey = ApiKey
    None = None
SYMMETRY Symmetry
INVARIANTS
    TypeOK
    MembersOnly
PROPERTIES
    EnvironmentsGuarded
    OrphansAreFrozen
