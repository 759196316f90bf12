----------------------------- MODULE FieldList -----------------------------
(***************************************************************************)
(* What the editing calls of fix.h promise about a message, with nothing   *)
(* said of arrays, offsets and blocks: a message is a type and a list of   *)
(* entries.  A call names a place and says what is to go there, and gets   *)
(* an answer; what becomes of the list is settled by these alone.          *)
(***************************************************************************)
EXTENDS Integers, Sequences, SequencesExt

CONSTANTS
  Val,          \* what a field can show
  TypeTag,      \* the tag of types
  SlotTags,     \* tags that have a place of their own
  TypeOf(_),    \* the type a text stands for, Unk if it is none
  Unk, Batch    \* the types "none yet" and "several"

VARIABLES
  list, type,
  call  \* the last call: [op, ent, at, ref, ret], see below

Entry == [tag : Nat, val : Val]

(* The call of this step: op is "fld", "tag" or "del", ent the entry to be *)
(* put before the one at index at (they are counted from 0), ref says that *)
(* it refers to a text it does not have; ret is the answer.                *)
c == call'

Adds    == c.op \in {"fld", "tag"}
IsType  == c.ent.tag = TypeTag
Nowhere == c.at > Len(list)

Refused ==
  \/ Nowhere \/ c.ent.tag = 0 \/ c.ref
  \/ c.op = "tag" /\ c.ent.tag \in SlotTags

Accepted == Adds /\ ~Refused /\ c.ret = 0 /\ c.ent.tag \notin SlotTags

Refuse == Adds /\ Refused /\ c.ret = -1 /\ UNCHANGED <<list, type>>

SetSlot ==
  /\ c.op = "fld" /\ ~Refused /\ c.ret = 0 /\ c.ent.tag \in SlotTags
  /\ UNCHANGED <<list, type>>

(* The first type is no entry.  A text that is no type leaves the message  *)
(* without one, and is not refused.                                        *)
SetType ==
  /\ Accepted /\ IsType /\ type = Unk
  /\ type' = IF c.op = "tag" THEN TypeOf(c.ent.val) ELSE c.ent.val
  /\ UNCHANGED list

Insert ==
  /\ Accepted /\ (IsType => type = Batch)
  /\ list' = InsertAt(list, c.at + 1, c.ent)
  /\ UNCHANGED type

(* The second type: the first goes to the front, the new one to the place  *)
(* that was asked for, in the list as it is after that.                    *)
BecomeBatch ==
  /\ Accepted /\ IsType /\ type \notin {Unk, Batch}
  /\ type' = Batch
  /\ list' = InsertAt(<<[tag |-> TypeTag, val |-> type]>> \o list, c.at + 1, c.ent)

(* Only the last entry leaves the list. *)
Delete ==
  /\ c.op = "del"
  /\ list' = IF c.at >= Len(list) THEN list
             ELSE IF c.at + 1 = Len(list) THEN Front(list)
             ELSE [list EXCEPT ![c.at + 1].tag = 0]
  /\ UNCHANGED type

Init == type \in Int /\ list \in Seq(Entry)

Next == Refuse \/ SetSlot \/ SetType \/ Insert \/ BecomeBatch \/ Delete

Spec == Init /\ [][Next]_<<list, type, call>>

=============================================================================
