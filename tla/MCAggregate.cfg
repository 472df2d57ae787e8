SPECIFICATION Spec
CONSTANTS
  Groups = {x, y, z}
  Amounts <- MCAmounts
  NotANumber = NaN
  IntMax = 3
  MaxRows = 3
  BATCH_SIZE = 2
INVARIANTS
  TypeOK
  AggregateExact
CHECK_DEADLOCK FALSE
