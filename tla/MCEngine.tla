------------------------------ MODULE MCEngine -------------------------------
(* fix50sp2, fix50sp2_cme, and an engine that has only some of the lookups. *)
EXTENDS Engine

CONSTANTS sp2, cme, own, cid, aid, rptb

MCEngines == {sp2, cme, own}
MCHooks   == {cid, aid, rptb}
MCExports == [e \in MCEngines |-> IF e = own THEN {cid, aid} ELSE MCHooks]

=============================================================================
