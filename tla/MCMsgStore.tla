----------------------------- MODULE MCMsgStore -----------------------------
(* Instances of MsgCalls for TLC. *)
EXTENDS MsgCalls

(* The last call has no effect on the next. *)
Message == m

CONSTANTS s1, s6, s200   \* texts, named for their lengths

MCSize   == [s \in Strs |-> CASE s = s1 -> 1 [] s = s6 -> 6 [] s = s200 -> 200]
MCMtypOf == [s \in Strs |-> 17408]

Input(t, y, u) == [tag |-> t, typ |-> y, tpc |-> 0, cnt |-> 0, u |-> u]

(* An ordinary field, a type, a slot's field and two that are refused. *)
MCInputs == { Input(117, "INT", 7), Input(MSG_TYPE, "MSGTYP", 21248),
              Input(CHECK_SUM, "UCHAR", 49),
              Input(TAG_UNK, "INT", 7), Input(58, "OFF", 0) }

(* A text of len bytes, "8=..|9=..|35=D|58=<t>|55=<u>|10=0|" with the two   *)
(* values at offsets o and p, as anal() leaves it.                          *)
Text(len, t, o, u, p) ==
  [ len |-> len, nflds |-> 2,
    slot |-> [tag \in SlotTags |->
                CASE tag = BEGIN_STRING -> Input(tag, "VER", 5)
                  [] tag = BODY_LENGTH  -> Input(tag, "INT", 22)
                  [] tag = CHECK_SUM    -> Input(tag, "UCHAR", 48)],
    f35  |-> Input(MSG_TYPE, "MSGTYP", 17408),
    flds |-> [i \in 0..1 |-> Input(IF i = 0 THEN 58 ELSE 55, "OFF", IF i = 0 THEN o ELSE p)],
    pr   |-> [k \in {o, p} |-> IF k = o THEN t ELSE u] ]

(* "35=D|5=x|10=0|". *)
ShortText == {[Text(14, s1, 7, s1, 7) EXCEPT
                 !.nflds = 1, !.flds = [i \in {0} |-> [@[0] EXCEPT !.tag = 5]],
                 !.slot = [@ EXCEPT ![BEGIN_STRING] = NoFld, ![BODY_LENGTH] = NoFld]]}

(* 200 characters in 58 and 23 bytes of no field. *)
LongText == {Text(263, s200, 23, s6, 227)}

=============================================================================
