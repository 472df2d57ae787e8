SPECIFICATION Spec
CONSTANTS
  EmptyString = EmptyString
  Schema <- MCSchema
  Dotted <- MCDotted
  Amount <- MCAmount
  BATCH_SIZE = 2
  Trees <- MCListed
  TableRows <- MCTableRows
  MaxRows <- MCMaxRows
  Indexable <- MCIndexable
INVARIANT SomeFeatureAnswers
CHECK_DEADLOCK FALSE
