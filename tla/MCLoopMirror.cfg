CONSTANTS
    None = None
    Full = 1
    Lengths = {1}
    Places <- MCPlaces
    Waits = {0}
    Halves = {1}
    Sessions = {{}}
    CommandCap = 2
    EventCap = 2
    Loops <- MCLoops
    HostSessions <- MCLoopSessions
SPECIFICATION MirrorSpec
INVARIANT LoopMirrorAgrees
