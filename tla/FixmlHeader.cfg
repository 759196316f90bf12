SPECIFICATION RTSpec
CONSTANTS
  Elements = {}
  Allowed <- BySchema
  MaxElts = 6
  Cid <- MCCid
  Mty <- MCMty
  Aid <- MCAid
  Rptb <- MCRptb
  Orb <- MCOrb
  Begins <- MCBegins
  NsUris <- MCNsUris
  NNs = 4
  NPool = 6
  Height <- MCHeight
  Tags <- MCTags
  Ctxs <- MCCtxs
  FldCtx <- MCFldCtx
  Sub <- MCSub
  Udef = {"U1"}
  MinStk = 2
  Bits = 8
  NameLen <- MCNameLen
  AttrLen <- MCAttrLen
  ValLen <- MCValLen
  UriLen = 40
  VerLen = 7
  CntSize = 65536
  CallerSizes = {100, 4096}
  Messages <- HeaderFirst
CHECK_DEADLOCK FALSE
INVARIANT
  Restores
