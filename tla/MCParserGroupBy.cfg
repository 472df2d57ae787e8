SPECIFICATION Spec
CONSTANTS
  EmptyString = EmptyString
  Scripts <- MCGroupedScripts
  Sources = {}
  Layouts <- MCLayouts
  Texts = {}
INVARIANT
  ParsesBack
CHECK_DEADLOCK FALSE
