CONSTANTS
    NDecks = 2
    t1 = t1
    Tracks = {t1}
    Length <- MCLength
    Froms <- MCFroms
    Tempos <- MCTempos
    Starts <- MCStarts
    Recipes <- MCTwoRecipes
    MaxFrames = 2
    FlatTail = 0
    KeylockTail = 1
    NaN = NaN
    NoTrack = NoTrack
    MaxMaster = 5
    ControlUntil = 2
    MaxVersion = 3
CHECK_DEADLOCK FALSE
SPECIFICATION Spec
INVARIANT ActiveIsScheduled
