SPECIFICATION Spec
CONSTANTS
  Pid = {1, 2, 3, 4, 5, 6}
  Heights = {4, 5, 6, 7}
  StartupScrollStep = 0
  RefreshAfterKill = TRUE
INVARIANTS
  TypeOK
PROPERTIES
  CursorStaysInWindow
CHECK_DEADLOCK FALSE
