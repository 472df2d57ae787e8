SPECIFICATION Spec
CONSTANTS
  EmptyString = EmptyString
  Schema <- MCSchema
  Dotted <- MCDotted
  Amount <- MCAmount
  BATCH_SIZE = 2
  Trees <- MCSumsOfJoin
  TableRows <- MCTableRows
  MaxRows <- MCMaxRows
  Indexable <- MCIndexable
INVARIANT EndMeansNoMoreData
CHECK_DEADLOCK FALSE
