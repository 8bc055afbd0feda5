SPECIFICATION LogSpec
CONSTANTS
  Writer = {w1, w2}
  Session = {a, b}
  NoWriter = NoWriter
  MaxRecords = 2
  MaxSeals = 2
  MaxMishaps = 1
  MaxRefreshed = 2
INVARIANTS LaterLinesNeverMatter
SYMMETRY Symmetry
CHECK_DEADLOCK FALSE
