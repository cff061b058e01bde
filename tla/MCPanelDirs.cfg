SPECIFICATION Spec
CONSTANTS
  Dir <- const_Dir
  MaxHistory = 2
INVARIANTS
  TypeOK
  CwdIsActive
PROPERTIES
  PanelsFresh
