----------------------------- MODULE FixSchema -----------------------------
(***************************************************************************)
(* A small part of FIX 5.0 SP2 for TLC: a security definition with a       *)
(* header, its instrument (a block) and the alternative names of that (a   *)
(* repeating block in it), parties (a repeating block) with their own      *)
(* sub-parties (another, in those), legs (an optimised repeating block)    *)
(* with alternative names, and market segments (a repeating block) with    *)
(* trading rules, which repeat nothing themselves but hold what does; and  *)
(* a security status, which has one attribute.                             *)
(***************************************************************************)
EXTENDS FiniteSets, Sequences, SequencesExt

MCCid(ctx_, name) ==
  CASE ctx_ = "UNK" /\ name = "FIXML" -> "FIXML"
    [] ctx_ = "SecDef" /\ name \in {"Hdr", "Instrmt", "Pty", "Mkt"} -> name
    [] ctx_ = "SecDef" /\ name = "Leg" -> "LegGrp"
    [] ctx_ = "Instrmt" /\ name = "AID" -> "AID"
    [] ctx_ = "Pty" /\ name = "Sub" -> "Sub"
    [] ctx_ = "Mkt" /\ name = "Trdg" -> "Trdg"
    [] ctx_ = "Trdg" /\ name = "Tick" -> "Tick"
    [] ctx_ \in {"LegGrp", "InstrmtLeg"} /\ name = "LegAID" -> "LegAID"
    [] OTHER -> "UNK"

MCMty(name) ==
  IF name \in {"SecDef", "SecStat", "Batch"} THEN name ELSE "UNK"

(* Of each context its own attributes, by name. *)
MCAid(ctx_, name) ==
  CASE name = "xmlns" -> "XMLNS"
    [] name = "v" -> "V"
    [] <<ctx_, name>> = <<"SecDef", "Ccy">> -> "15"
    [] <<ctx_, name>> = <<"SecStat", "Txt">> -> "58"
    [] <<ctx_, name>> = <<"Hdr", "SID">> -> "49"
    [] <<ctx_, name>> = <<"Instrmt", "Sym">> -> "55"
    [] <<ctx_, name>> = <<"AID", "AltID">> -> "455"
    [] <<ctx_, name>> = <<"AID", "AltIDSrc">> -> "456"
    [] <<ctx_, name>> = <<"Pty", "ID">> -> "448"
    [] <<ctx_, name>> = <<"Pty", "R">> -> "452"
    [] <<ctx_, name>> = <<"Sub", "ID">> -> "523"
    [] <<ctx_, name>> = <<"Sub", "Typ">> -> "803"
    [] ctx_ \in {"LegGrp", "InstrmtLeg"} /\ name = "Sym" -> "600"
    [] ctx_ \in {"LegGrp", "InstrmtLeg"} /\ name = "Sfx" -> "601"
    [] <<ctx_, name>> = <<"LegAID", "SecAltID">> -> "605"
    [] <<ctx_, name>> = <<"LegAID", "SecAltIDSrc">> -> "606"
    [] <<ctx_, name>> = <<"Mkt", "MktID">> -> "1301"
    [] <<ctx_, name>> = <<"Mkt", "MktSegID">> -> "1300"
    [] <<ctx_, name>> = <<"Trdg", "MinTrdVol">> -> "562"
    [] <<ctx_, name>> = <<"Tick", "Typ">> -> "1206"
    [] <<ctx_, name>> = <<"Tick", "Inc">> -> "1208"
    [] OTHER -> "UNK"

MCRptb(ctx_) ==
  CASE ctx_ = "AID" -> "454" [] ctx_ = "Pty" -> "453" [] ctx_ = "Sub" -> "802"
    [] ctx_ = "LegGrp" -> "555" [] ctx_ = "LegAID" -> "604" [] ctx_ = "Mkt" -> "1310"
    [] ctx_ = "Tick" -> "1205"
    [] OTHER -> "UNK"

MCOrb(ctx_) == IF ctx_ = "LegGrp" THEN "InstrmtLeg" ELSE "UNK"

(* The contexts' children, in the order they are searched. *)
MCSub(ctx_) ==
  CASE ctx_ = "SecDef"     -> <<"Hdr", "Instrmt", "Pty", "LegGrp", "Mkt">>
    [] ctx_ = "Instrmt"    -> <<"AID">>
    [] ctx_ = "Pty"        -> <<"Sub">>
    [] ctx_ = "LegGrp"     -> <<"InstrmtLeg">>
    [] ctx_ = "InstrmtLeg" -> <<"LegAID">>
    [] ctx_ = "Mkt"        -> <<"Trdg">>
    [] ctx_ = "Trdg"       -> <<"Tick">>
    [] OTHER               -> <<>>

MCHeight(ctx_) ==
  CASE ctx_ = "SecDef" -> 3
    [] ctx_ \in {"LegGrp", "Mkt"} -> 2
    [] ctx_ \in {"Instrmt", "Pty", "InstrmtLeg", "Trdg"} -> 1
    [] OTHER -> 0

(* The tags that have their place in a context.  (35, by which messages    *)
(* are begun, has one in the header.)                                      *)
TagsOf(ctx_) ==
  CASE ctx_ = "Hdr"     -> {"35", "49"}
    [] ctx_ = "SecDef"  -> {"15"}
    [] ctx_ = "SecStat" -> {"58"}
    [] ctx_ = "Instrmt" -> {"55"}
    [] ctx_ = "AID"     -> {"454", "455", "456"}
    [] ctx_ = "Pty"     -> {"453", "448", "452"}
    [] ctx_ = "Sub"     -> {"802", "523", "803"}
    [] ctx_ = "LegGrp"  -> {"555"}
    [] ctx_ = "InstrmtLeg" -> {"600", "601"}
    [] ctx_ = "LegAID"  -> {"604", "605", "606"}
    [] ctx_ = "Mkt"     -> {"1310", "1301", "1300"}
    [] ctx_ = "Trdg"    -> {"562"}
    [] ctx_ = "Tick"    -> {"1205", "1206", "1208"}
    [] OTHER            -> {}

MCCtxs == {"Hdr", "SecDef", "SecStat", "Instrmt", "AID", "Pty", "Sub", "LegGrp", "InstrmtLeg",
           "LegAID", "Mkt", "Trdg", "Tick", "U1", "Batch", "UNK"}

(* A deleted field has no tag, and 9001 is one that nobody knows. *)
MCTags == UNION {TagsOf(c) : c \in MCCtxs} \union {"UNK", "9001"}

MCFldCtx == [tag \in MCTags |-> {c \in MCCtxs : tag \in TagsOf(c)}]

-----------------------------------------------------------------------------
(* Documents *)

(* strncmp() finds the prefix f in fx. *)
MCBegins(p, q) == p = q \/ <<p, q>> = <<"f", "fx">>

MCNsUris == [u \in {"FIXML-5-0-SP2", "5.0 SP2", "FIXML-4-4", "4.4"} |->
               IF u \in {"FIXML-4-4", "4.4"} THEN "44" ELSE "50_SP2"]

Children(p) ==
  CASE p = ""        -> <<"FIXML">>
    [] p = "FIXML"   -> <<"SecDef", "Batch">>
    [] p = "Batch"   -> <<"SecDef", "SecStat">>
    [] p = "SecDef"  -> <<"Hdr", "Instrmt", "Pty", "Leg", "Mkt">>
    [] p = "Instrmt" -> <<"AID">>
    [] p = "Pty"     -> <<"Sub">>
    [] p = "Leg"     -> <<"LegAID">>
    [] p = "Mkt"     -> <<"Trdg">>
    [] p = "Trdg"    -> <<"Tick">>
    [] OTHER         -> <<>>

(* The schema has its children in order, and one each of these. *)
Singles == {"FIXML", "SecDef", "SecStat", "Batch", "Hdr", "Instrmt", "Trdg"}
BySchema(p, before, name) ==
  LET at(n) == SelectInSeq(Children(p), LAMBDA x : x = n)
  IN  /\ at(name) # 0
      /\ CASE p \in {"", "FIXML"} -> before = {}
           [] p = "Batch" -> TRUE
           [] OTHER -> \A n \in before : at(n) <= at(name) /\ (n = name => n \notin Singles)

Attrib(pref, name, val) == [pref |-> pref, name |-> name, val |-> val]
Elt(name, attrs) == [pref |-> "", name |-> name, attrs |-> attrs]

One(a, v)       == <<Attrib("", a, v)>>
Two(a, b, v, w) == <<Attrib("", a, v), Attrib("", b, w)>>

Root    == Elt("FIXML", <<Attrib("", "xmlns", "FIXML-5-0-SP2"), Attrib("", "v", "5.0 SP2")>>)
EBatch  == Elt("Batch", <<>>)
ESecDef == Elt("SecDef", One("Ccy", "a"))
EStat   == Elt("SecStat", One("Txt", "b"))
EHdr    == Elt("Hdr", One("SID", "c"))
EInstr  == Elt("Instrmt", One("Sym", "d"))
EAID    == Elt("AID", Two("AltID", "AltIDSrc", "e", "f"))
EPty    == Elt("Pty", Two("ID", "R", "g", "h"))
ESub    == Elt("Sub", Two("ID", "Typ", "i", "j"))
ELeg    == Elt("Leg", Two("Sym", "Sfx", "k", "l"))
ELegAID == Elt("LegAID", Two("SecAltID", "SecAltIDSrc", "m", "n"))
EMkt    == Elt("Mkt", Two("MktID", "MktSegID", "q", "r"))
ETrdg   == Elt("Trdg", <<>>)
ETick   == Elt("Tick", Two("Typ", "Inc", "o", "p"))

=============================================================================
