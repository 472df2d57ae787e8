SPECIFICATION Spec
CONSTANTS
  Keys = {x, y}
  Predicates = {"="}
  MaxLeft = 4
  MaxRight = 3
  BATCH_SIZE = 2
SYMMETRY MCSymmetry
INVARIANTS
  TypeOK
  HashMapExact
  JoinExact
PROPERTY
  HashJoinIsNestedLoopJoin
CHECK_DEADLOCK FALSE
