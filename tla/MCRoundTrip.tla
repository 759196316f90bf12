---------------------------- MODULE MCRoundTrip ----------------------------
(* Documents and messages for RoundTrip, of the schema of FixSchema. *)
EXTENDS RoundTrip, FixSchema

(* Longer than the averages the size of a buffer is reckoned from. *)
MCNameLen(ctx_) == 12
MCAttrLen(tag) == 5
MCValLen(fld) == IF fld.typ = "INT" THEN 11 ELSE 5

Documents ==
  { Root, EBatch, ESecDef, EStat, Elt("SecStat", <<>>), EHdr, EInstr, EAID, EPty, ESub, ELeg,
    ELegAID, EMkt, ETrdg, ETick }

-----------------------------------------------------------------------------
(* What programs make. *)
Num(tag, u) == [tag |-> tag, typ |-> "INT", u |-> u, tpc |-> "UNK", cnt |-> 0]
Typ(mty)    == [tag |-> "35", typ |-> "MSGTYP", u |-> mty, tpc |-> "UNK", cnt |-> 0]

MadeMsg(type, fs, said) ==
  [f35 |-> type, flds |-> fs, proper |-> TRUE, said |-> said, counters |-> {}]
Elem(c, p, as) == [ctx |-> c, par |-> p, attrs |-> as]

(* A batch of n messages as in fixc_render_fixml_01.c: more than there is  *)
(* room for on the stack of contexts.                                      *)
BatchOf(n) ==
  MadeMsg(BATCH, [j \in 1..(2 * n) |-> IF j % 2 = 1 THEN Typ("SecDef") ELSE Num("15", j)],
          [j \in 1..n |-> Elem("SecDef", 0, <<<<"15", 2 * j>>>>)])

(* A message of a user's, whatever its fields, and one of many fields. *)
UserMsg ==
  MadeMsg("U1", <<Num("15", 1), Num("448", 2), Num("9001", 3)>>,
          <<Elem("U1", 0, <<<<"15", 1>>, <<"448", 2>>, <<"9001", 3>>>>)>>)

LongUserMsg(n) ==
  MadeMsg("U1", [j \in 1..n |-> Num("448", j)],
          <<Elem("U1", 0, [j \in 1..n |-> <<"448", j>>])>>)

(* One with a field nobody knows. *)
OneUnknown ==
  MadeMsg("SecDef", <<Num("15", 1), Num("9001", 2)>>,
          <<Elem("SecDef", 0, <<<<"15", 1>>, <<"9001", 2>>>>)>>)

(* Parties of whom there is but one number: more text than is reckoned with. *)
Numbered(n) ==
  MadeMsg("SecDef",
          [j \in 1..(n + 2) |-> Num(CASE j = 1 -> "15" [] j = 2 -> "453" [] OTHER -> "448", j)],
          [j \in 1..(n + 1) |-> IF j = 1 THEN Elem("SecDef", 0, <<<<"15", 1>>>>)
                                ELSE Elem("Pty", 1, <<<<"448", j + 1>>>>)])

(* With 20 fields a count of four bits comes back to 0.  *)
Programs ==
  {BatchOf(n) : n \in {0, 1, 2, 5}} \union
  {Numbered(12), Numbered(20), UserMsg, LongUserMsg(20), OneUnknown}

(* Two parties and a field that nobody knows. *)
UnknownAfterRepeats ==
  { MadeMsg("SecDef",
      <<Num("15", 1), Num("453", 2), Num("448", 3), Num("452", 4), Num("448", 5), Num("452", 6),
        Num("9001", 7)>>,
      <<Elem("SecDef", 0, <<<<"15", 1>>>>), Elem("Pty", 1, <<<<"448", 3>>, <<"452", 4>>>>),
        Elem("Pty", 1, <<<<"448", 5>>, <<"452", 6>>, <<"9001", 7>>>>)>>) }

(* A message whose header comes first, as in FIX texts. *)
HeaderFirst ==
  { MadeMsg("SecDef", <<Num("49", 1), Num("15", 2)>>,
      <<Elem("SecDef", 0, <<<<"15", 2>>>>), Elem("Hdr", 1, <<<<"49", 1>>>>)>>) }

=============================================================================
