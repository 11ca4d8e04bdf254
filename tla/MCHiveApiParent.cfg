SPECIFICATION Spec
CONSTANTS
    User = {u1}
    Env = {e1, e2}
    Row = {r1, r2}
    Label = {l1, Blank}
    Padded = {}
    Req = {q1}
    Ops <- TreeOps
    ParentEdits = {"clear", "set"}
    Blank = Blank
    ApiKey = ApiKey
    None = None
SYMMETRY Symmetry
INVARIANT
   ParentInEnvironment
