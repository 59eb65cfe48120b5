CONSTANTS
    None = None
    Full = 2
    Lengths = {4}
    Places <- MCPlaces
    Waits = {0, 2}
    Halves = {1}
    Sessions <- MCSessions
SPECIFICATION FairSpec
INVARIANT TypeOK
INVARIANT InTrack
INVARIANT LoopInTrack
PROPERTY LoopCaptures
PROPERTY ChangesReported
PROPERTY StopsOnlyAtEnds
PROPERTY ComesToRest
