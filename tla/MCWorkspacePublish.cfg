SPECIFICATION Spec
CONSTANTS
  Publisher = {w1, w2}
  Name = {f, x}
  Excluded = {x}
  Version = {v1, v2}
  None = None
  Alien = Alien
  MaxEdits <- FewEdits
  MaxFaults = 1
INVARIANTS VisibleIsWhole AnswersAreTrue
PROPERTY EntriesWereSource
SYMMETRY Symmetry
CHECK_DEADLOCK FALSE
