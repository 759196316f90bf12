SPECIFICATION DeriveSpec
CONSTANTS
  s0 = s0
  s1 = s1
  none = none
  Bits = 11
  FspcRnd = 4
  VspcRnd = 16
  Strs = {s0, s1}
  Size <- MCSize
  MtypOf <- MCMtypOf
  Ctxs = {}
  Parsed = {}
  Inputs <- MCInputs
  Tags = {58}
  MaxFlds = 6
  MaxPz = 40
  Sources <- Many
  Contexts = {100, 2, 3}
  Nths <- MCNths
  Below <- MCBelow
  Empty = s0
  NoText = none
  Leftovers <- MCLeftovers
  MaxEdits = 3
CHECK_DEADLOCK FALSE
INVARIANTS
  ExtractLive
  ExtractSays
  HeapCopyKeeps
  CopyInMemory
