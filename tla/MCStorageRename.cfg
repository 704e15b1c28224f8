CONSTANTS
  t1 = t1
  t2 = t2
  e1 = e1
  a = a
  b = b
  Threads <- MCThreads
  Enums <- MCEnums
  Names <- MCNames
  FlagSets <- MCFlagSets
  MaxFiles = 3
  MaxEvents = 2
  InitDirs <- MCInitDirs
  MishapSets = {{"taken"}}
  Closed = Closed
  Stale = Stale
  NoFile = NoFile
  Free = Free
  NoOp = NoOp
  NoObj = NoObj
  NoPobj = NoPobj
SYMMETRY Symm
SPECIFICATION Spec
INVARIANT HandleNamesItsObject
