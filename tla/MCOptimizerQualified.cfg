SPECIFICATION Spec
CONSTANTS
  EmptyString = EmptyString
  Schema <- MCSchema
  Dotted <- MCDotted
  Queries <- MCQueries
  TableRows <- MCTableRows
  Amount <- MCAmount
  BATCH_SIZE = 1
  SizeMax = 65536
  RowCounts = {2, 256}
  MaxRows = 1
INVARIANT
  RewriteKeepsAnswer
CHECK_DEADLOCK FALSE
