---------------------------- MODULE MCMsgDerive ----------------------------
(* Instances of MsgDerive for TLC. *)
EXTENDS MsgDerive

CONSTANTS s0, s1, none   \* texts, named for their lengths, and NoText

MCSize   == [s \in Strs |-> CASE s = s0 -> 0 [] s = s1 -> 1]
MCMtypOf == [s \in Strs |-> 17408]

(* The message, a repeating block in it, and a block in that. *)
MSG == 100
PTY == 2
SUB == 3
MCBelow(c) == CASE c = MSG -> {MSG, PTY} [] c = PTY -> {PTY, SUB} [] c = SUB -> {SUB}

In(tag, c, cnt) == [tag |-> tag, typ |-> "OFF", tpc |-> c, cnt |-> cnt, u |-> 0]

(* The reader's counter, and what fixc_add_fld may be called with. *)
Counter(n) == [tag |-> 453, typ |-> "INT", tpc |-> PTY, cnt |-> 0, u |-> n]
MCInputs   == {[tag |-> 447, typ |-> "INT", tpc |-> PTY, cnt |-> 2, u |-> 7]}

(* fixc_add_tag and the context that the reader or the caller sets. *)
WithText(msg, fld, s) ==
  LET r == AddTagAt(msg, fld.tag, s, msg.nflds)
  IN  [r EXCEPT !.flds[msg.nflds] = [fld EXCEPT !.u = r.flds[msg.nflds].u]]

(* As the reader makes it: the message's field, a party of two fields, one *)
(* of one.                                                                 *)
Read ==
  LET a == WithText(MakeMsg(MSG), In(15, MSG, 0), s1)
      b == AddFldAt(a, Counter(2), 1)
      c == WithText(b, In(448, PTY, 0), s1)
      e == WithText(c, In(452, PTY, 1), s0)
  IN  WithText(e, In(448, PTY, 0), s1)

(* "15=a|448=b|452=c|..." after fixc_fixup: the values' offsets, texts and  *)
(* fields are given.                                                       *)
OfText(len, fs, pr) ==
  ParsedMsg([ len |-> len, slot |-> [t \in SlotTags |-> NoFld],
              f35 |-> [tag |-> MSG_TYPE, typ |-> "MSGTYP", tpc |-> 0, cnt |-> 0, u |-> MSG],
              nflds |-> Len(fs),
              flds |-> [i \in 0..(Len(fs) - 1) |-> fs[i + 1]],
              pr |-> pr ])

At(fld, o) == [fld EXCEPT !.u = o]

(* "35=D|15=x|448=y|523=z|448=x|". *)
Parties ==
  OfText(28, << At(In(15, MSG, 0), 8), At(In(448, PTY, 0), 14), At(In(523, SUB, 0), 20),
                At(In(448, PTY, 0), 26) >>,
         [k \in {8, 14, 20, 26} |-> s1])

(* "35=D|1=x|1=x|...|10=0|": thirteen fields in four bytes each. *)
Dense ==
  OfText(64, [k \in 1..13 |-> At(In(1, MSG, k - 1), 3 + 4 * k)],
         [o \in {3 + 4 * k : k \in 1..13} |-> s1])

MCNths == {-1, 0, 1}

(* Nothing that matters, a text's field and a number's of blocks inside. *)
MCLeftovers == {<<>>, <<In(523, SUB, 0)>>, <<[Counter(1) EXCEPT !.tpc = PTY]>>}

Many     == {Read, Parties}
OneBlock == {Dense}

=============================================================================
