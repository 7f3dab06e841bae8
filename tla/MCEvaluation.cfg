SPECIFICATION Spec
CONSTANTS
    None = None
    a = a
    b = b
    x = x
    y = y
    Id = {a, b}
    Rest = {x, y}
    AppUser <- TwoUsers
    Thread = {main, other}
    Main = main
    Kind = {"gate", "layer"}
    FirstVersion = 2
    MaxChecks = 1
    MaxVersion = 2
    MaxUpdates = 2
SYMMETRY Alike
CHECK_DEADLOCK FALSE
INVARIANTS
    TypeOK
    ExposureTellsResult
    ExposureForUser
    DetailsTellSource
    OwnSession
PROPERTY ValuesStay
