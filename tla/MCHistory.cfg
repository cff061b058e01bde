SPECIFICATION HistorySpec
CONSTANTS
  Line <- const_Line
  Str <- const_Str
  MaxInput = 4
INVARIANTS
  HistoryTypeOK
  StartsAtNewest
PROPERTIES
  RepeatedKeptOnce
  FindsMostRecent
