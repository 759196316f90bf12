SPECIFICATION RTSpec
CONSTANTS
  Elements <- Documents
  Allowed <- BySchema
  MaxElts = 6
  Cid <- MCCid
  Mty <- MCMty
  Aid <- MCAid
  Rptb <- MCRptb
  Orb <- MCOrb
  Begins <- MCBegins
  NsUris <- MCNsUris
  NNs = 4
  NPool = 6
  Height <- MCHeight
  Tags <- MCTags
  Ctxs <- MCCtxs
  FldCtx <- MCFldCtx
  Sub <- MCSub
  Udef = {"U1"}
  MinStk = 2
  Bits = 8
  NameLen <- MCNameLen
  AttrLen <- MCAttrLen
  ValLen <- MCValLen
  UriLen = 40
  VerLen = 7
  CntSize = 16
  CallerSizes = {100, 4096}
  Messages <- Programs
CHECK_DEADLOCK FALSE
INVARIANTS
  ExtractsNth
  ExtractsDeep
  TypeOK
  StackInRoom
  Known
  
  NoFault
  InContext
  Restores
  WholeText
PROPERTY
  Rendered
