----------------------------- MODULE MCFixRender -----------------------------
(* Instances of FixRender for TLC. *)
EXTENDS FixRender

CONSTANTS s30, s60   \* texts, named for their lengths

MCSize   == [s \in Strs |-> CASE s = s30 -> 30 [] s = s60 -> 60]
MCMtypOf == [s \in Strs |-> 17408]
MCVerLen == <<7, 8, 11>>

Input(t, y, u) == [tag |-> t, typ |-> y, tpc |-> 0, cnt |-> 0, u |-> u]

(* What a program sets of the header, a length that is none and a number.  *)
MCInputs ==
  { Input(BEGIN_STRING, "VER", 3), Input(BODY_LENGTH, "INT", -1234),
    Input(BODY_LENGTH, "INT", -1234567890),
    Input(117, "INT", -12345678) }

(* A text of len bytes, "8=...|9=..|35=D|58=<t>|10=0|", as parsed. *)
Text(ver, len, o, t) ==
  [ len |-> len, nflds |-> 1,
    slot |-> [tag \in SlotTags |->
                CASE tag = BEGIN_STRING -> Input(tag, "VER", ver)
                  [] tag = BODY_LENGTH  -> Input(tag, "INT", 22)
                  [] tag = CHECK_SUM    -> Input(tag, "UCHAR", 48)],
    f35  |-> Input(MSG_TYPE, "MSGTYP", 68 * 256),
    flds |-> [i \in {0} |-> Input(58, "OFF", o)],
    pr   |-> [k \in {o} |-> t] ]

Texts == { Text(1, 60, 23, s30), Text(2, 91, 24, s60) }

=============================================================================
