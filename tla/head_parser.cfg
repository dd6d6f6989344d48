SPECIFICATION Spec
CONSTANTS
  Names <- MCNames
  Values <- MCValues
  LongValues = {"long"}
  MaxFields = 1
  MaxLines = 4
  Heads <- MCHeads
  CutOptions = {TRUE, FALSE}
INVARIANTS
  TypeOK
  ShippedCutRejectsAll
  RepairedCutAcceptsWellFormed
  LastValueWins
PROPERTY
  ParserReturns
\* A parser that returned has no further step.
CHECK_DEADLOCK FALSE
