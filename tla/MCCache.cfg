SPECIFICATION Spec
CONSTANTS
  None = None
  Lost = Lost
  Track = track
  Keys = {track, other}
  Tasks = {t1,t2}
  SizeOf <- MCSizeOf
  Limits = {2, 3}
  MaxMoves = 5
INVARIANT TypeOK
INVARIANT InOrder
INVARIANT ServedReal
INVARIANT OverclaimHasCause
INVARIANT DiskAgrees
CONSTRAINT Calm
SYMMETRY Symmetric
PROPERTY BudgetKept
PROPERTY DurableKept
