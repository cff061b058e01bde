SPECIFICATION Spec
CONSTANTS
  Entry = {1, 3}
  DirEntry = {3}
  Size <- const_Size
  Faults = {}
  MaxOps = 2

  
PROPERTIES
  NoContentLost
  OverwriteNeedsConsent
  ImplementsTransfer
CHECK_DEADLOCK FALSE
