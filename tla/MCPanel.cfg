SPECIFICATION Spec
CONSTANTS
  File = {1, 2, 3, 4}
  Directory = {4}
  Method = {"name", "size"}
  Key <- const_Key
  Extension <- const_Extension
  Sizes = {2, 5}
  StartupScrollStep = 0
  MaxRepeat = 2
INVARIANTS
  TypeOK
  CursorInWindow
  ParentNeverMarked
  CountExact
PROPERTIES
  CursorKeepsName
  MarksSurviveReread
CHECK_DEADLOCK FALSE
