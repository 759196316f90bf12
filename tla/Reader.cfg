SPECIFICATION Spec
CONSTANTS
  Elements <- Regular
  Allowed <- BySchema
  MaxElts = 7
  Cid <- MCCid
  Mty <- MCMty
  Aid <- MCAid
  Rptb <- MCRptb
  Orb <- MCOrb
  Begins <- MCBegins
  NsUris <- MCNsUris
  NNs = 16
  NPool = 6
  CntSize = 65536
CHECK_DEADLOCK FALSE
INVARIANTS
  
  CtxIsPath
  AttrsKept
  FlatCountersCount
  VersionStated
