SPECIFICATION Spec
CONSTANTS
  EmptyString = EmptyString
  Schema <- MCSchema
  Dotted <- MCDotted
  Amount <- MCAmount
  BATCH_SIZE = 2
  Trees <- MCTrees
  TableRows <- MCTableRows
  MaxRows <- MCMaxRows
  Indexable <- MCIndexable
INVARIANTS
  TypeOK
  WiredTreesAreSound
  DeliversAnswer
  EndWithoutJoin
CHECK_DEADLOCK FALSE
