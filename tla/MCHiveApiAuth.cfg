SPECIFICATION Spec
CONSTANTS
    User = {u1}
    Env = {e1}
    Row = {r1}
    Label = {l1, Blank}
    Padded = {}
    Req = {q1}
    Ops <- TreeOps
    ParentEdits = {}
    Blank = Blank
    ApiKey = ApiKey
    None = None
SYMMETRY Symmetry
INVARIANT
    NoPrincipalNoSuccess
