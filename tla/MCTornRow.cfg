SPECIFICATION FaultSpec
CONSTANTS
  column_names <- MCColumnNames
  Names <- MCNames
  Values = {x, y}
  MaxRows = 2
INVARIANT RowReadsBack
CHECK_DEADLOCK FALSE
