---------------------------- MODULE MCFixmlReader ----------------------------
(* Documents for FixmlReader, of the schema of FixSchema. *)
EXTENDS FixmlReader, FixSchema

(* The roots of the documents in src/test. *)
Xmlns(v) == Attrib("", "xmlns", v)
Vers(v)  == Attrib("", "v", v)
Roots ==
  { Root, Elt("FIXML", <<>>), Elt("FIXML", <<Xmlns("FIXML-5-0-SP2")>>),
    Elt("FIXML", <<Xmlns(""), Vers("5.0 SP2")>>),
    Elt("FIXML", <<Xmlns("FIXML-4-4"), Vers("4.4")>>) }

Regular ==
  Roots \union { EBatch, ESecDef, Elt("SecStat", <<>>), EInstr, EAID, EPty, ESub, ELeg,
            EMkt, Elt("Trdg", One("MinTrdVol", "s")),
            Elt("SecDef", <<>>), Elt("Pty", <<>>), Elt("Pty", One("ID", "t")) }

Parties == {Root, ESecDef, EPty, ESub}

=============================================================================
