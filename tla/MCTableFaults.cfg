SPECIFICATION FaultSpec
CONSTANTS
  column_names <- MCColumnNames
  Names <- MCNames
  Values = {x, y}
  MaxRows = 3
SYMMETRY MCSymmetry
INVARIANTS
  FaultTypeOK
  KeptRowsReadBack
  KeptRowsFound
CHECK_DEADLOCK FALSE
