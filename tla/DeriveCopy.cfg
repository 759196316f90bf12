SPECIFICATION DeriveSpec
CONSTANTS
  s0 = s0
  s1 = s1
  none = none
  Bits = 12
  FspcRnd = 4
  VspcRnd = 16
  Strs = {s0, s1}
  Size <- MCSize
  MtypOf <- MCMtypOf
  Ctxs = {}
  Parsed = {}
  Inputs = {}
  Tags = {}
  MaxFlds = 13
  MaxPz = 64
  Sources <- OneBlock
  Contexts = {100, 2, 3}
  Nths <- MCNths
  Below <- MCBelow
  Empty = s0
  NoText = none
  Leftovers <- MCLeftovers
  MaxEdits = 1
CHECK_DEADLOCK FALSE
INVARIANT SourceKept
