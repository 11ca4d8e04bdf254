SPECIFICATION Spec
CONSTANTS
    a = a
    b = b
    Own <- MCOwn
    Loaded <- MCLoaded
    Made = Made
    Blank = Blank
    Placeholder = Placeholder
    Unset = Unset
    None = None
    Exports <- MCExports
    MaxLines = 1
    Lines <- ShellLines
    Targets = {"dotenv"}
    Session = {}
    Request = {}
PROPERTY
    NeverOverwritten
