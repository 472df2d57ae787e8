SPECIFICATION ScanSpec
CONSTANTS
  column_names <- MCColumnNames
  Names <- MCNames
  Values = {x, y}
  MaxRows = 4
  BATCH_SIZE = 2
SYMMETRY MCSymmetry
INVARIANTS
  ScanTypeOK
  ColumnsAligned
  IndexExact
  FilterExact
  ScansAgree
PROPERTIES
  RelationSpec
  FilterIsRowSource
  FetchIsRowSource
CHECK_DEADLOCK FALSE
