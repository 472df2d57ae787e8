SPECIFICATION Spec
CONSTANTS
  EmptyString = EmptyString
  Schema <- MCSchema
  Dotted <- MCDotted
  Queries <- MCQueries
  TableRows <- MCTableRows
  Amount <- MCAmount
  BATCH_SIZE = 1
  SizeMax = 65536
  RowCounts = {2, 256}
  MaxRows = 2
INVARIANTS
  TypeOK
  OptimizedAnswersAlike
  StaleCatalogOnlyLoses
  ReoptimizeCatchesUp
CHECK_DEADLOCK FALSE
