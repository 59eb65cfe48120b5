SPECIFICATION Spec
CONSTANTS
    Inserts = {i1, i2}
    Null = Null
    RecordCapacity = 2
    IndexWrap = 6
    Blocks = {2}
    ScratchFrames = 1
    Unwritten = Unwritten
    Decks = {0, 1}
    Plans <- MCPlans
    MaxFrame = 6
    Pcms <- MCPcms
    NoPcm = NoPcm
    Queued = 1
    Budgets <- MCBudgets
INVARIANT TypeOK
INVARIANT InsertWhole
INVARIANT TapCursors
INVARIANT TapAccounts
INVARIANT TapInOrder
INVARIANT TransitionWhole
INVARIANT DriversMeet
INVARIANT TailReleased
INVARIANT PcmWhole
PROPERTY TransitionKept
PROPERTY TransitionEnds
