SPECIFICATION Spec
CONSTANTS
    a = a
    b = b
    x = x
    y = y
    None = None
    Torn = Torn
    Id = {a, b}
    Rest = {x, y}
    AppUser <- AllUsers
    Kind <- Both
    MaxCalls = 2
    MaxVersion = 2
    MaxRestarts = 1
    MaxCached = 2
CHECK_DEADLOCK FALSE
INVARIANTS
    TypeOK
    ValuesForUser
    AnswerForUser
    CachedUnderItsKey
    HashNamesData
