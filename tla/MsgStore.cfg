SPECIFICATION CallSpec
VIEW Message
CONSTANTS
  s1 = s1
  s6 = s6
  s200 = s200
  Bits = 8
  FspcRnd = 4
  VspcRnd = 16
  Strs = {s1, s6}
  Size <- MCSize
  MtypOf <- MCMtypOf
  Ctxs = {0}
  Parsed <- ShortText
  Inputs <- MCInputs
  Tags = {10, 35, 58}
  MaxFlds = 2
  MaxPz = 16
INVARIANTS
  TypeOK
  Fits
  ValuesLive
PROPERTIES
  ImplementsFieldList
