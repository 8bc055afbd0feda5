SPECIFICATION LogSpec
CONSTANTS
  Writer = {w1, w2}
  Session = {a, b}
  NoWriter = NoWriter
  MaxRecords = 3
  MaxSeals = 2
  MaxMishaps = 1
  MaxRefreshed = 2
INVARIANTS ChainIsLinear SealSurvivesOthers VerifiedIsUnchanged SealedPrefixIsWhatWasSigned
PROPERTIES SealNeverRegresses
SYMMETRY Symmetry
CHECK_DEADLOCK FALSE
