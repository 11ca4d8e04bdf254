SPECIFICATION LiveSpec
CONSTANTS
    MaxLinks = 3
    Refusals = TRUE
INVARIANTS
    TypeOK
    NobodyForgotten
    WrongStatusIsOwed
PROPERTIES
    NobodyWaitsForever
    HearsAgain
    StatusCatchesUp
