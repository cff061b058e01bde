SPECIFICATION Spec
CONSTANTS
  KeySeq <- const_KeySeq
  Command = {"c1", "c2"}
  Byte = {0, 7, 10, 13, 27, 97, 98, 225}
  MaxKeyLength = 3
  MaxKeys = 3
  MaxRead = 2
INVARIANTS
  ListSorted
  KeyIsTyped
  OnlyPrefixesWait
