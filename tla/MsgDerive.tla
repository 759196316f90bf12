----------------------------- MODULE MsgDerive -----------------------------
(***************************************************************************)
(* What is made of a message whose fields have their contexts: a copy in   *)
(* memory of the caller's (fixc_msg_cpy) or an extract (fixc_extr_ctxt,    *)
(* fixc_extr_ctxt_deep).  Before and after, the message goes on being      *)
(* edited as in MsgStore, and it may be freed while the copy or extract is *)
(* still in use.                                                           *)
(*                                                                         *)
(* The copy of a message in one block is not in the caller's memory alone: *)
(* its fields are the source's own, and its texts are put behind these.    *)
(***************************************************************************)
EXTENDS MsgStore, Extract

CONSTANTS
  Sources,    \* messages as the parser (after fixc_fixup) or the reader leave them
  Contexts,   \* contexts that are extracted
  Nths,       \* the occurrences asked for, a negative one means all
  Below(_),   \* the contexts for which __ancestp is true
  Empty,      \* the text of no characters
  NoText,     \* what is read where no text starts any more
  Leftovers,  \* what may lie behind the fields: memory never written, or used before
  MaxEdits    \* bound on the edits of the source

FLD_Z == 16  \* sizeof(struct fixc_fld_s)
MSG_Z == 96  \* sizeof(struct fixc_msg_s)

(* Tags 8, 9 and 10 are in their slots, and the message is no batch. *)
InArray(msg) == \A i \in 0..(msg.nflds - 1) : msg.flds[i].tag \notin SlotTags \union {MSG_TYPE}

ASSUME SourceAssumption ==
  \A s \in Sources :
    /\ WellTyped(s) /\ InRoom(s) /\ TextsLive(s)
    /\ s.nflds <= MaxFlds + 2 /\ s.pz <= MaxPz /\ InArray(s)
ASSUME ContextAssumption ==
  /\ Contexts \subseteq Half \ {0} /\ Nths \subseteq Int
  /\ \A c \in Contexts : Below(c) \subseteq Half /\ c \in Below(c)
  /\ Empty \in Strs /\ Size[Empty] = 0 /\ NoText \notin Strs
  /\ Leftovers \subseteq Seq(Fld)
(* Callers add no second message type: MsgStore has that. *)
ASSUME NoBatchAssumption ==
  MSG_TYPE \notin Tags /\ \A fld \in Inputs : fld.tag # MSG_TYPE
(* size_t holds every size an extract leads to. *)
ASSUME ExtractAssumption ==
  \E top \in Pow2 :
     LET most == (MaxFlds + 2) * MaxPz + 1
     IN  MaxFlds + 2 <= top /\ most <= top /\ NextPow2(most) + MaxPz + 1 <= top

VARIABLES
  d,       \* the copy or extract, see NoDerived
  stale,   \* the slots behind the last field, as deletions left them
  gone,    \* the source has been freed
  edits    \* how often it has been edited

derivevars == <<m, d, stale, gone, edits>>

(* shared: its fields and texts are in the source's block; says: what it   *)
(* was to say; sound: the source had no fields deleted or put in front of  *)
(* others, and no slot behind them was taken for one; bad: a store or a    *)
(* length was out of bounds; tsz: the caller's memory.                     *)
NoDerived ==
  [how |-> "none", msg |-> MakeMsg(0), shared |-> FALSE, says |-> <<>>,
   sound |-> TRUE, bad |-> FALSE, tsz |-> 0]

Flds(msg) == [k \in 1..msg.nflds |-> msg.flds[k - 1]]

Says(msg, fld) ==
  [tag |-> fld.tag,
   val |-> CASE fld.typ # "OFF" -> fld.u
             [] fld.typ = "OFF" /\ fld.u \in DOMAIN msg.pr -> msg.pr[fld.u]
             [] OTHER -> NoText]

SaysAll(msg) == [k \in 1..msg.nflds |-> Says(msg, msg.flds[k - 1])]

(* fixc_msg_needs_fixup_p *)
NeedsFixup == m.nflds > 0 /\ m.flds[0].tpc = 0

-----------------------------------------------------------------------------
(* Copies *)

MsgZ(fspc, vspc) == vspc + fspc * FLD_Z + MSG_Z

(* fixc_msg_z, fixc_msg_optz *)
FixcMsgZ(msg) == MsgZ(msg.fspc, Round(msg.pz + 1, VspcRnd))
OptZ(msg)     == MsgZ(Round(msg.nflds, FspcRnd), Round(msg.pz + 1, VspcRnd))

(* Mutant: no room is reckoned for the last text's NUL. *)
MinZNoNul(msg) == MsgZ(msg.nflds, msg.pz)

(* fixc_msg_minz *)
MinZ(msg) == MsgZ(msg.nflds, msg.pz + 1)

(* What fixc_msg_cpy writes. *)
WrittenZ(msg) == MSG_Z + msg.nflds * FLD_Z + msg.pz + 1

(* In one block the texts are moved towards the source's last field; those *)
(* of the source they are written over are gone.                           *)
MovedOver(msg) ==
  [k \in {j \in DOMAIN msg.pr : j >= msg.pz + 1 - (msg.fspc - msg.nflds) * FLD_Z} |-> msg.pr[k]]

Overlapping(msg) == msg.pz + 1 > (msg.fspc - msg.nflds) * FLD_Z

(* The copy's texts.  Those of one block that were moved onto themselves,  *)
(* by memcpy(), may be right or not.                                       *)
CopiedTexts(msg) ==
  LET all == FirstBytes(msg.pr, msg.pz + 1)
  IN  IF msg.store = "these" /\ msg.fspc # msg.nflds /\ Overlapping(msg)
      THEN {all, [k \in {} |-> NoText]} ELSE {all}

(* Mutant: the fields' array is the source's in any case. *)
SharesAny(msg) == TRUE

(* The copy's flds are those of the source. *)
Shares(msg) == msg.store = "these"

(* What is made of a message that has lost texts is not described. *)
Free == d.how = "none" /\ ~gone /\ TextsLive(m)

(* fixc_msg_cpy, of a message that has a pr area. *)
Copy(tsz) ==
  /\ Free /\ m.store # "none"
  /\ IF tsz < MinZ(m)
     THEN /\ d' = [NoDerived EXCEPT !.how = "refused", !.msg = m, !.tsz = tsz]
          /\ UNCHANGED m
     ELSE /\ \E pr \in CopiedTexts(m) :
               d' = [how |-> "copy", says |-> SaysAll(m), sound |-> m.store = "heap",
                     msg |-> [m EXCEPT !.store = "these", !.fspc = m.nflds,
                                       !.vspc = m.pz + 1, !.pr = pr],
                     shared |-> Shares(m), bad |-> FALSE, tsz |-> tsz]
          /\ m' = [m EXCEPT !.pr = IF Shares(m) THEN MovedOver(m) ELSE @]
  /\ UNCHANGED <<stale, gone, edits>>

-----------------------------------------------------------------------------
(* Extracts *)

(* Mutant: the text is stored without its NUL. *)
AddBytesNoNul(msg, tag, s, z) ==
  LET r   == CheckSize(PromoteIfType(msg, tag), 1, z)
      fld == [tag |-> tag, typ |-> "OFF", tpc |-> 0, cnt |-> 0, u |-> r.pz]
  IN  IF tag \in SlotTags \union {TAG_UNK} THEN msg
      ELSE Place([StoreStr(r, s) EXCEPT !.pz = r.pz + z], fld, r.nflds)

(* fixc_add_tag of z bytes, that begin with the text s. *)
AddBytes(msg, tag, s, z) ==
  LET r   == CheckSize(PromoteIfType(msg, tag), 1, z + 1)
      fld == [tag |-> tag, typ |-> "OFF", tpc |-> 0, cnt |-> 0, u |-> r.pz]
  IN  IF tag \in SlotTags \union {TAG_UNK} THEN msg
      ELSE Place([StoreStr(r, s) EXCEPT !.pz = r.pz + z + 1], fld, r.nflds)

(* The context is stored in the slot the field should be in. *)
SetContext(r, n, fld) ==
  IF n < r.msg.nflds
  THEN [r EXCEPT !.msg.flds[n] = [@ EXCEPT !.tpc = fld.tpc, !.cnt = fld.cnt]]
  ELSE [r EXCEPT !.bad = @ \/ n >= r.msg.fspc]

(* Mutant: the offset is copied instead of the text. *)
CpyFldPlain(r, src, fld, i) ==
  [r EXCEPT !.msg = InsertFld(@, fld, @.nflds)]

(* __cpy_fld of fld, field i of src or behind the last one: there a text   *)
(* is none, and of length 0.                                               *)
CpyFld(r, src, fld, i) ==
  LET in == i <= src.nflds
      s  == IF in THEN GetTag(src, i - 1) ELSE Empty
      z  == IF in THEN GetTagDataSize(src, i - 1) ELSE 0
  IN  CASE fld.typ # "OFF" -> [r EXCEPT !.msg = AddFldAt(@, fld, @.nflds)]
        [] fld.typ = "OFF" /\ z < Size[s] -> [r EXCEPT !.bad = TRUE]
        [] OTHER -> SetContext([r EXCEPT !.msg = AddBytes(@, fld.tag, s, z)],
                               r.msg.nflds, fld)

(* Every text lies behind that of the field before, and no field is blank. *)
Sound ==
  /\ \A i \in 0..(m.nflds - 1) : m.flds[i].tag # TAG_UNK
  /\ \A i \in 1..(m.nflds - 1) :
       m.flds[i - 1].typ = "OFF" /\ m.flds[i].typ = "OFF" => m.flds[i - 1].u < m.flds[i].u

(* Those slots of all whose indices are in xs are copied, one after the    *)
(* other, to a message made empty; says is what they say.                  *)
CpyNext(r, all, xs, i) ==
  IF i \notin xs THEN r
  ELSE [CpyFld(r, m, all[i], i) EXCEPT !.says = Append(@, Says(m, all[i]))]

CpyFlds(c, all, xs) ==
  LET upto[i \in 0..Len(all)] ==
        IF i = 0 THEN [msg |-> MakeMsg(c), bad |-> FALSE, says |-> <<>>]
        ELSE CpyNext(upto[i - 1], all, xs, i)
  IN  upto[Len(all)]

Extracted(c, all, xs, sound) ==
  LET r == CpyFlds(c, all, xs)
  IN  [how |-> "extract", msg |-> r.msg, bad |-> r.bad, shared |-> FALSE,
       says |-> r.says, sound |-> sound, tsz |-> 0]

(* Where fixc_fixup has to be called first, see module Fixup. *)
CanExtract == Free /\ ~NeedsFixup

Extr(c, n) ==
  /\ CanExtract
  /\ d' = Extracted(c, Flds(m), Taken(Flds(m), c, n), Sound)
  /\ UNCHANGED <<m, stale, gone, edits>>

ExtrDeep(c, n) ==
  /\ CanExtract
  /\ \E rest \in Leftovers :
       LET behind == stale \o rest
       IN  d' = Extracted(c, Flds(m) \o behind, TakenDeep(Flds(m), behind, c, Below(c), n),
                          Sound /\ EndsThere(Flds(m), behind, c, Below(c)))
  /\ UNCHANGED <<m, stale, gone, edits>>

-----------------------------------------------------------------------------
(* The source goes on *)

(* What the source's edit from m to n does to a copy that shares its       *)
(* fields: an array still in place is read by both, and what is put behind *)
(* the fields the copy knows of is put onto its texts.                     *)
Touched(n) ==
  LET over == (n.nflds - d.msg.nflds) * FLD_Z
  IN  IF ~d.shared \/ n.store # "these" THEN d
      ELSE [d EXCEPT
              !.msg.flds = [k \in DOMAIN @ |-> IF k < n.nflds THEN n.flds[k] ELSE @[k]],
              !.msg.pr = IF n.nflds <= m.nflds THEN @
                         ELSE [k \in {j \in DOMAIN @ : j >= over} |-> @[k]]]

(* A field that is dropped stays where it is, without its tag, until       *)
(* another is put there, or the array is a new one.                        *)
Left(n) ==
  CASE n.nflds < m.nflds -> <<[m.flds[n.nflds] EXCEPT !.tag = TAG_UNK]>> \o stale
    [] n.nflds > m.nflds /\ n.fspc = m.fspc /\ n.store = m.store /\ stale # <<>> -> Tail(stale)
    [] n.nflds = m.nflds -> stale
    [] OTHER -> <<>>

EditSource ==
  /\ ~gone /\ edits < MaxEdits /\ Next
  /\ d' = Touched(m') /\ stale' = Left(m')
  /\ edits' = edits + 1 /\ UNCHANGED gone

(* free_fixc; what was in its block is not to be relied on. *)
FreeSource ==
  /\ ~gone /\ gone' = TRUE /\ m' = MakeMsg(0)
  /\ d' = IF ~d.shared THEN d
          ELSE [d EXCEPT !.msg.flds = [k \in DOMAIN @ |-> NoFld],
                         !.msg.pr = [k \in {} |-> NoText]]
  /\ stale' = <<>> /\ UNCHANGED edits

(* The copy's memory is the caller's, an extract is freed. *)
Drop == d.how # "none" /\ d' = NoDerived /\ UNCHANGED <<m, stale, gone, edits>>

DeriveInit == m \in Sources /\ d = NoDerived /\ stale = <<>> /\ gone = FALSE /\ edits = 0

(* Callers have as much memory as is said to be enough, or a byte less. *)
DeriveNext ==
  \/ \E tsz \in {FixcMsgZ(m), OptZ(m), MinZ(m), MinZ(m) - 1} : Copy(tsz)
  \/ \E c \in Contexts, n \in Nths : Extr(c, n) \/ ExtrDeep(c, n)
  \/ EditSource \/ FreeSource \/ Drop

DeriveSpec == DeriveInit /\ [][DeriveNext]_derivevars

-----------------------------------------------------------------------------
(* Properties *)

(* Of a source no field of which was deleted or put in front of others an  *)
(* extract is a message in itself, unless a deep one has run on behind the *)
(* last field: every field in its array, every text in its own memory, and *)
(* no store beside it.                                                     *)
ExtractLive ==
  d.how = "extract" /\ d.sound =>
    /\ ~d.bad
    /\ WellTyped(d.msg) /\ InRoom(d.msg) /\ TextsLive(d.msg)

(* And it says what the fields taken said, in their order, whatever the    *)
(* source has become since.                                                *)
ExtractSays == d.how = "extract" /\ d.sound => SaysAll(d.msg) = d.says

(* A copy of a message on the heap says what the message said, whatever is *)
(* done to that afterwards, be it freed.                                   *)
HeapCopyKeeps == d.how = "copy" /\ d.sound => SaysAll(d.msg) = d.says

(* A copy stays in the memory the caller has given for it, and memory of   *)
(* the sizes fixc_msg_z and fixc_msg_optz name is never too small.         *)
CopyInMemory ==
  /\ d.how = "copy" => WrittenZ(d.msg) <= d.tsz
  /\ d.how = "refused" => d.tsz < FixcMsgZ(d.msg) /\ d.tsz < OptZ(d.msg)

(* What fix.h says of fixc_msg_cpy, that it puts a copy of the message     *)
(* into the caller's memory: the message is none the worse for it.         *)
SourceKept ==
  d.how = "copy" /\ ~gone =>
    \A k \in 1..m.nflds :
      m.flds[k - 1].tag # TAG_UNK => Says(m, m.flds[k - 1]) = d.says[k]

=============================================================================
