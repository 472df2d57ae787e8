SPECIFICATION Spec
CONSTANTS
  EmptyString = EmptyString
  Scripts <- MCScripts
  Sources <- MCSources
  Layouts <- MCLayouts
  Texts <- MCTexts
INVARIANTS
  TypeOK
  LexemesExact
  LexesBack
  ParsesBack
  SourceOrder
PROPERTIES
  Terminates
  NearsTheEnd
CHECK_DEADLOCK FALSE
