SPECIFICATION LiveSpec
CONSTANTS
    a = a
    b = b
    Own <- MCOwn
    Loaded <- MCLoaded
    Made = Made
    Blank = Blank
    Placeholder = Placeholder
    Unset = Unset
    None = None
    Exports <- MCExports
    MaxLines = 2
    Lines <- PlainLines
    Targets = {"dotenv", "elsewhere", "off"}
    Session = {s1}
    Request = {q1}
INVARIANTS
    TypeOK
    TokenKept
    ServedAreKnown
    OverIsOver
PROPERTIES
    NeverOverwritten
    RegistersWithItsToken
    Converges
