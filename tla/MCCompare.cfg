SPECIFICATION Spec
CONSTANTS
  Name = {x, y}
  File <- const_File
  BufferSize = 2
  IntBits = 3
SYMMETRY const_Symmetry
INVARIANTS
  OKMeansIdentical
  DifferenceReported
  UnmarkedIsCovered
  CountKept
