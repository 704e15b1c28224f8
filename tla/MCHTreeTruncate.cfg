CONSTANTS
  MaxBlocks = 4
  MaxWrites = 5
  MaxCut = 4
  WriteAhead = FALSE
  MaxIndex = 63
  CounterMod = 64
  NoFile = NoFile
  Closed = Closed
  Zero = Zero
  Torn = Torn
SPECIFICATION Spec
PROPERTY IsAtomicFile
