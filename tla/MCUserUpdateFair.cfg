SPECIFICATION FairSpec
CONSTANTS
    a = a
    b = b
    x = x
    y = y
    None = None
    Torn = Torn
    Id = {a, b}
    Rest = {x, y}
    AppUser <- TwoIds
    Kind <- Both
    MaxCalls = 2
    MaxVersion = 1
    MaxRestarts = 0
    MaxCached = 1
CHECK_DEADLOCK FALSE
PROPERTY LoadingEnds
