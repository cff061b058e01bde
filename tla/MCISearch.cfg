SPECIFICATION SearchSpec
CONSTANTS
  File = {1, 2, 3}
  Directory = {}
  Method = {"name"}
  Key <- const_Key
  Extension <- const_Extension
  Sizes = {4}
  StartupScrollStep = 0
  MaxRepeat = 0
  Letter <- const_Letter
  Spelling <- const_Spelling
  MaxText = 3
  MaxUndo = 5
  ResumeMisses = FALSE
INVARIANTS
  DeletingAllReturns
  BackspaceHasRecord
PROPERTIES
  BackspaceDeletes
CHECK_DEADLOCK FALSE
