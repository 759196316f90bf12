-------------------------------- MODULE Fixup --------------------------------
(***************************************************************************)
(* fixc_fixup, fixml-wr.c: the fields of a message that came as plain FIX  *)
(* are given their contexts (tpc, the component or message a field is      *)
(* part of) and their position in it (cnt).  The walk over the fields     *)
(* keeps a stack of the contexts entered; a field belongs to the topmost   *)
(* one that has a place for it, or that leads to a context that has.       *)
(*                                                                         *)
(* What a context may hold comes from the engine and is constant here.     *)
(***************************************************************************)
EXTENDS FixSizes, Sequences, SequencesExt

CONSTANTS
  Tags,      \* tags, MSG_TYPE among them; "UNK" is that of a deleted field
  Ctxs,      \* contexts: components and message types
  FldCtx,    \* [Tags -> set of contexts]: where a tag has its place (__get_fld_ctx)
  Sub(_),    \* a context's children, a sequence (__get_comp_sub)
  Orb(_),    \* the block one is optimised to, or UNK (__get_comp_orb)
  Udef,      \* the message types users define (ctx_udef_p)
  MinStk,    \* MIN_STKZ
  CntSize,   \* 2^16: cnt of a field, and of the writer's records, is uint16_t
  Messages   \* the messages handed in, see Take

ASSUME StackAssumption == MinStk \in Nat \ {0}
ASSUME CountAssumption == CntSize \in Nat \ {0}
(* Fields are in sequence, and size_t holds the size of a stack of them.   *)
ASSUME MessagesAssumption ==
  \A mine \in Messages :
    /\ mine.flds \in Seq(Range(mine.flds))
    /\ \E top \in Pow2 : Len(mine.flds) + MinStk <= top

UNK      == "UNK"    \* FIXC_MSGT_UNK, FIXC_COMP_UNK: the context 0
BATCH    == "Batch"  \* FIXC_MSGT_BATCH
MSG_TYPE == "35"

(* The tables (struct fld_ctx_s, __get_comp_orb) name components and       *)
(* message types only: BATCH, 0xffff, is the reader's own.                 *)
ASSUME ContextsAssumption ==
  /\ \A tag \in Tags : FldCtx[tag] \subseteq Ctxs \ {UNK, BATCH}
  /\ \A c \in Ctxs : Orb(c) # BATCH

(* The union of a field, read as a message type: of a text it is where the *)
(* text is, and no context goes by that number.                            *)
NoType == "NoType"
Mtyp(fld) == IF fld.typ = "MSGTYP" THEN fld.u ELSE NoType

-----------------------------------------------------------------------------
(* fu_ancest_p *)

(* The contexts up to three levels below c in the order they are searched: *)
(* the first level, then of each of its members the second and third.      *)
Descendants(c) ==
  Sub(c) \o FlattenSeq([x \in DOMAIN Sub(c) |->
    LET sub == Sub(Sub(c)[x])
    IN  FlattenSeq([y \in DOMAIN sub |-> <<sub[y]>> \o Sub(sub[y])])])

Below == [c \in Ctxs |-> Descendants(c)]

FuAncest(tag, c) ==
  LET below == IF c \in Ctxs THEN Below[c] ELSE <<>>
      hits  == {k \in DOMAIN below : below[k] \in FldCtx[tag]}
  IN  IF hits = {} THEN UNK ELSE below[CHOOSE k \in hits : \A j \in hits : k <= j]

-----------------------------------------------------------------------------
VARIABLES
  msg,     \* the message as it was handed in, see Take
  flds,    \* its fields: [tag, typ, u, tpc, cnt]
  pc,      \* "idle", "start", "look", "some" or "fixed"
  i,       \* the field looked at
  stk,     \* the contexts entered, [ctx, idx], innermost last
  room,    \* stkz: what the stack, static and kept from call to call, has room for
  streak,  \* the field's position
  oos,     \* out_of_stack_p
  last     \* the context fixc_fixup_some is in

fixvars == <<msg, flds, pc, i, stk, room, streak, oos, last>>

F35 == msg.f35

(* fixc_msg_needs_fixup_p: the first field speaks for all. *)
NeedsFixup == flds # <<>> /\ flds[1].tpc = UNK

NoMsg == [f35 |-> UNK, flds |-> <<>>]

FixInit ==
  /\ msg = NoMsg /\ flds = <<>>
  /\ pc = "idle" /\ i = 1 /\ stk = <<>> /\ room = 0
  /\ streak = 0 /\ oos = FALSE /\ last = UNK

(* A message is handed in: its type f35, its fields flds, and with them,   *)
(* for the properties, what it says.  Earlier calls may have left a stack. *)
Take(mine) ==
  /\ pc = "idle"
  /\ msg' = mine /\ flds' = mine.flds
  /\ pc' = "start" /\ room' \in {0, MinStk}
  /\ UNCHANGED <<i, stk, streak, oos, last>>

Entry(c, k) == [ctx |-> c, idx |-> k]

(* Mutant: the stack never grows. *)
GrownNever(n) == IF room = 0 THEN MinStk ELSE room

(* chck_stk, for a stack of n entries *)
Grown(n) == IF n - 1 >= room THEN NextPow2(n - 1 + MinStk) ELSE room

(* All fields of a user defined message are the message's.  (Its only      *)
(* entry is pushed and never popped.)                                      *)
StartUser ==
  /\ pc = "start" /\ NeedsFixup /\ F35 \in Udef
  /\ flds' = [k \in DOMAIN flds |-> [flds[k] EXCEPT !.tpc = F35, !.cnt = (k - 1) % CntSize]]
  /\ pc' = "fixed" /\ room' = Grown(1)
  /\ UNCHANGED <<msg, i, stk, streak, oos, last>>

StartFixup ==
  /\ pc = "start" /\ NeedsFixup /\ F35 \notin Udef
  /\ pc' = "look" /\ stk' = <<Entry(F35, 1)>> /\ room' = Grown(1)
  /\ UNCHANGED <<msg, flds, i, streak, oos, last>>

NoFixup ==
  /\ pc = "start" /\ ~NeedsFixup
  /\ pc' = "fixed"
  /\ UNCHANGED <<msg, flds, i, stk, room, streak, oos, last>>

Top == stk[Len(stk)]
Tag == flds[i].tag

Looking == pc = "look" /\ i <= Len(flds)
HasPlace == Top.ctx \in FldCtx[Tag]
Anc == FuAncest(Tag, Top.ctx)

(* Mutant: the block's next occurrence is not told from its first. *)
PlaceOn(s, count) ==
  /\ flds' = [flds EXCEPT ![i].tpc = s[Len(s)].ctx, ![i].cnt = count % CntSize]
  /\ streak' = count + 1
  /\ stk' = s /\ i' = i + 1
  /\ UNCHANGED <<msg, pc, oos, last>>

(* succ: the field is put into the topmost context of s.  When the second  *)
(* field since that was entered (the first after a block's counter) comes  *)
(* again, a new occurrence of the block begins.                            *)
Place(s, count) ==
  LET first == s[Len(s)].idx + 1
      again == i > first /\ flds[first].tag = Tag
      cnt   == IF again THEN 0 ELSE count
  IN  /\ flds' = [flds EXCEPT ![i].tpc = s[Len(s)].ctx, ![i].cnt = cnt % CntSize]
      /\ streak' = cnt + 1
      /\ stk' = s /\ i' = i + 1
      /\ UNCHANGED <<msg, pc, oos, last>>

Stay ==
  /\ Looking /\ HasPlace
  /\ Place(stk, streak)
  /\ UNCHANGED room

(* A message type is a context of its own. *)
EnterMessage ==
  /\ Looking /\ ~HasPlace /\ Tag = MSG_TYPE
  /\ Place(Append(stk, Entry(Mtyp(flds[i]), i)), 0)
  /\ room' = Grown(Len(stk) + 1)

EnterBlock ==
  /\ Looking /\ ~HasPlace /\ Tag # MSG_TYPE /\ Anc # UNK
  /\ Place(Append(stk, Entry(IF Orb(Anc) = UNK THEN Anc ELSE Orb(Anc), i)), 0)
  /\ room' = Grown(Len(stk) + 1)

(* Mutant: the context is left, but not popped. *)
LeaveNot ==
  /\ Looking /\ ~HasPlace /\ Tag # MSG_TYPE /\ Anc = UNK /\ Len(stk) > 1
  /\ streak' = 0
  /\ UNCHANGED <<msg, flds, pc, i, stk, room, oos, last>>

Leave ==
  /\ Looking /\ ~HasPlace /\ Tag # MSG_TYPE /\ Anc = UNK /\ Len(stk) > 1
  /\ stk' = SubSeq(stk, 1, Len(stk) - 1) /\ streak' = 0
  /\ UNCHANGED <<msg, flds, pc, i, room, oos, last>>

(* Mutant: the message's own context is not pushed again. *)
PassEmpty ==
  /\ Looking /\ ~HasPlace /\ Tag # MSG_TYPE /\ Anc = UNK /\ Len(stk) = 1
  /\ stk' = <<>> /\ UNCHANGED room
  /\ streak' = 0 /\ oos' = TRUE /\ i' = i + 1
  /\ UNCHANGED <<msg, flds, pc, last>>

(* The stack is empty and the field has no place: go on from the message.  *)
Pass ==
  /\ Looking /\ ~HasPlace /\ Tag # MSG_TYPE /\ Anc = UNK /\ Len(stk) = 1
  /\ stk' = <<Entry(F35, 1)>> /\ room' = Grown(1)
  /\ streak' = 0 /\ oos' = TRUE /\ i' = i + 1
  /\ UNCHANGED <<msg, flds, pc, last>>

Shrunk == IF room > MinStk THEN MinStk ELSE room

EndLook ==
  /\ pc = "look" /\ i > Len(flds)
  /\ IF oos THEN /\ pc' = "some" /\ i' = 1 /\ streak' = 1 /\ UNCHANGED room
            ELSE /\ pc' = "fixed" /\ room' = Shrunk /\ UNCHANGED <<i, streak>>
  /\ stk' = <<>>
  /\ UNCHANGED <<msg, flds, oos, last>>

(* Mutant: fields without a context stay without. *)
SomeCounted ==
  /\ pc = "some" /\ i <= Len(flds)
  /\ flds' = [flds EXCEPT ![i].cnt = streak % CntSize] /\ streak' = streak + 1
  /\ i' = i + 1
  /\ UNCHANGED <<msg, pc, stk, room, oos, last>>

(* fixc_fixup_some: fields without a context take that of the one before,  *)
(* and a count of 0 in the same context is put down to them.               *)
Some ==
  LET fld == flds[i]
  IN  /\ pc = "some" /\ i <= Len(flds)
      /\ CASE fld.cnt = 0 /\ fld.tpc \in {UNK, last} ->
                /\ flds' = [flds EXCEPT ![i].tpc = last, ![i].cnt = streak % CntSize]
                /\ streak' = streak + 1 /\ UNCHANGED last
           [] fld.cnt = 0 /\ fld.tpc \notin {UNK, last} ->
                streak' = 1 /\ last' = fld.tpc /\ UNCHANGED flds
           [] OTHER -> streak' = streak + 1 /\ UNCHANGED <<flds, last>>
      /\ i' = i + 1
      /\ UNCHANGED <<msg, pc, stk, room, oos>>

EndSome ==
  /\ pc = "some" /\ i > Len(flds)
  /\ pc' = "fixed" /\ room' = Shrunk
  /\ UNCHANGED <<msg, flds, i, stk, streak, oos, last>>

(* No position has come back to 0. *)
CountsKept == Len(flds) <= CntSize

Look == Stay \/ EnterMessage \/ EnterBlock \/ Leave \/ Pass

FixNext ==
  \/ \E mine \in Messages : Take(mine)
  \/ StartUser \/ StartFixup \/ NoFixup
  \/ Look \/ EndLook
  \/ Some \/ EndSome

=============================================================================
