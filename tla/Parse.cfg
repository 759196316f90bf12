SPECIFICATION Spec
CONSTANTS
  Bits = 10
  Docs <- AllDocs
  Chunks = {1, 2, 3, 5, 7, 10, 12, 13, 16, 21, 27, 28, 29, 30, 31, 44, 45, 46, 47, 48, 64}
  FspcRnd = 1
  PlainRate = 4
  ZipRate = 1
  Versions <- MCVersions
  Comp <- MCComp
  IntMax = 127
  LongMax = 2047
CHECK_DEADLOCK FALSE
INVARIANTS
  ParsedIsDoc
  SlotsEnough
  HeaderKept
  RefusedForCause
PROPERTIES
  Terminates
