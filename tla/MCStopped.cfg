CONSTANTS
    None = None
    Full = 2
    Lengths = {4}
    Places <- MCPlaces
    Waits = {0, 2}
    Halves = {1}
    Sessions <- MCSessions
SPECIFICATION FairSpec
PROPERTY InstantStop
