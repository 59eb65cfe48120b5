CONSTANTS
    Cap = 2
    Wrap = 8
    Values = {a, b}
SPECIFICATION FairSpec
INVARIANT TypeOK
INVARIANT SlotExclusive
PROPERTY RefinesFifo
PROPERTY EventuallyTaken
