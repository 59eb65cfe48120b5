CONSTANTS
    NDecks = 2
    t1 = t1
    Tracks = {t1}
    Length <- MCLength
    Froms <- MCFroms
    Tempos <- MCTempos
    Starts <- MCStarts
    Recipes <- MCRecipes
    MaxFrames = 2
    FlatTail = 0
    KeylockTail = 1
    NaN = NaN
    NoTrack = NoTrack
    MaxMaster = 5
    ControlUntil = 2
    MaxVersion = 2
SPECIFICATION Spec
CHECK_DEADLOCK FALSE
INVARIANT TypeOK
INVARIANT DeckHandoff
INVARIANT ClockExact
INVARIANT SlotStable
PROPERTY RecipeReleases
PROPERTY Lifecycle
