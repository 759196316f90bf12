SPECIFICATION Spec
CONSTANTS
  sp2 = sp2
  cme = cme
  own = own
  cid = cid
  aid = aid
  rptb = rptb
  Husk = Husk
  Engines <- MCEngines
  Hooks <- MCHooks
  Exports <- MCExports
  MaxRefs = 3
INVARIANTS
  NoDangling
