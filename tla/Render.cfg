SPECIFICATION RndrSpec
CONSTANTS
  s30 = s30
  s60 = s60
  Bits = 10
  FspcRnd = 64
  VspcRnd = 128
  Strs = {s30, s60}
  Size <- MCSize
  MtypOf <- MCMtypOf
  Ctxs = {25600}
  Parsed <- Texts
  Inputs <- MCInputs
  Tags = {5001, 50001}
  MaxFlds = 2
  MaxPz = 124
  VerLen <- MCVerLen
  LenRnd = 8
  PtrSize = 8
  CallerSizes = {41, 63, 66, 67, 68, 69, 71, 98, 160}
CHECK_DEADLOCK FALSE
INVARIANTS
  OwnWhole
  CallerWhole
  InBuffer
  Released
