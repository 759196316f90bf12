------------------------------ MODULE MsgCalls ------------------------------
(***************************************************************************)
(* The message of MsgStore with the calls made: what each asked for and    *)
(* what it answered.  Against these the message is held to FieldList.      *)
(***************************************************************************)
EXTENDS MsgStore

VARIABLE call  \* the last call, as FieldList has it

callvars == <<m, call>>

Call(op, tag, val, idx, ref, refused) ==
  [op |-> op, ent |-> [tag |-> tag, val |-> val], at |-> idx, ref |-> ref,
   ret |-> IF refused THEN -1 ELSE 0]

(* fixc_add_fld and fixc_add_fld_at *)
CallAddFld(fld, idx) ==
  /\ AddFld(fld, idx)
  /\ call' = Call("fld", fld.tag, fld.u, idx, fld.typ = "OFF", FldRefused(m, fld, idx))

(* fixc_add_tag and fixc_add_tag_at *)
CallAddTag(tag, s, idx) ==
  /\ AddTag(tag, s, idx)
  /\ call' = Call("tag", tag, s, idx, FALSE, TagRefused(m, tag, idx))

(* fixc_del_fld answers nothing. *)
CallDel(n) == Del(n) /\ call' = Call("del", TAG_UNK, 0, n, FALSE, FALSE)

CallInit == Init /\ call = Call("none", TAG_UNK, 0, 0, FALSE, FALSE)

(* One index past the legal ones is tried, too. *)
CallNext ==
  \E i \in 0..(m.nflds + 1) :
     \/ \E fld \in Inputs : CallAddFld(fld, i)
     \/ \E tag \in Tags, s \in Strs : CallAddTag(tag, s, i)
     \/ CallDel(i)

CallSpec == CallInit /\ [][CallNext]_callvars

-----------------------------------------------------------------------------
(* Properties *)

(* What a reader of the message sees: the list of tags and values. *)
Denote(fld) ==
  [tag |-> fld.tag, val |-> IF fld.typ = "OFF" THEN m.pr[fld.u] ELSE fld.u]

Contents == [i \in 1..m.nflds |-> Denote(m.flds[i - 1])]

FL == INSTANCE FieldList WITH
        Val <- Strs \union Int, TypeTag <- MSG_TYPE, SlotTags <- SlotTags,
        TypeOf <- TypeOfStr, Unk <- MSGT_UNK, Batch <- MSGT_BATCH,
        list <- Contents, type <- m.f35.u

(* Array, pr area and reallocation together behave as the plain list of    *)
(* FieldList.  Each call does to the list what was asked of it: the entry  *)
(* goes to the index named, behind a first type that moves to the front,   *)
(* the field deleted is the one named, tag, text and order of all others   *)
(* stay, and the call answers -1 if, and only if, it was refused.          *)
ImplementsFieldList == FL!Spec

=============================================================================
