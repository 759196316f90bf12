------------------------------ MODULE MsgStore ------------------------------
(***************************************************************************)
(* One message and every way the interface of fix.h has of changing it:    *)
(* fixc_add_fld[_at], fixc_add_tag[_at] and fixc_del_fld, in any order, on *)
(* a message made empty (make_fixc_msg) or from text (make_fixc_from_fix). *)
(***************************************************************************)
EXTENDS FixMsg

CONSTANTS
  Ctxs,     \* contexts a message is made with
  Parsed,   \* what parsing leaves of some texts, see IsParsed
  Inputs,   \* fields a caller passes to fixc_add_fld
  Tags,     \* tags a caller passes to fixc_add_tag
  MaxFlds,  \* bound: no call starts on more than MaxFlds fields
  MaxPz     \* bound: no call starts that could take pz past MaxPz

(* A parsed text has at most one field in four bytes, and its values lie   *)
(* apart, inside the text, one for each field.                             *)
IsParsed(w) ==
  /\ w.len \in 0..MaxPz /\ w.nflds \in 0..MaxFlds
  /\ w.nflds <= w.len \div 4
  /\ WellTyped(ParsedMsg(w)) /\ TextsLive(ParsedMsg(w)) /\ TextsOwn(ParsedMsg(w))

ASSUME RoundingAssumption == FspcRnd \in Nat \ {0} /\ VspcRnd \in Nat \ {0}
ASSUME TextAssumption ==
  /\ Size \in [Strs -> Nat]
  /\ MtypOf \in [Strs -> Half]
ASSUME InputAssumption ==
  /\ Ctxs \subseteq Half /\ Inputs \subseteq Fld /\ Tags \subseteq Half
  /\ \A w \in Parsed : IsParsed(w)
ASSUME BoundAssumption == MaxFlds \in Nat /\ MaxPz \in Nat
(* size_t holds every size the bounds lead to. *)
ASSUME WordAssumption ==
  \E top \in Pow2 :
     /\ MaxFlds + 2 <= top
     /\ MaxPz + 1 <= top /\ NextPow2(MaxPz + 1) + 1 <= top
     /\ \A s \in Strs : NextPow2(MaxPz + 1) + Size[s] + 2 <= top

VARIABLE m  \* the message

TypeOK == WellTyped(m)

Init == \/ \E ctx \in Ctxs : m = MakeMsg(ctx)
        \/ \E w \in Parsed : m = ParsedMsg(w)

(* What follows a store outside the pr area is not described. *)
InSpace == m.pz <= m.vspc

(* fixc_add_fld is the case idx = m.nflds. *)
AddFld(fld, idx) ==
  /\ InSpace /\ m.nflds <= MaxFlds
  /\ m' = AddFldAt(m, fld, idx)

AddTag(tag, s, idx) ==
  /\ InSpace /\ m.nflds <= MaxFlds /\ m.pz + Size[s] + 1 <= MaxPz
  /\ m' = AddTagAt(m, tag, s, idx)

Del(n) ==
  /\ InSpace
  /\ m' = DelFld(m, n)

(* One index past the legal ones is tried, too. *)
Next ==
  \E i \in 0..(m.nflds + 1) :
     \/ \E fld \in Inputs : AddFld(fld, i)
     \/ \E tag \in Tags, s \in Strs : AddTag(tag, s, i)
     \/ Del(i)

Spec == Init /\ [][Next]_m

-----------------------------------------------------------------------------
(* Properties *)

(* The fields lie inside the array, and in a block of its own the pr area  *)
(* is never smaller than what __allocd_vspc makes of pz: the code can tell *)
(* the room it has from pz alone.                                          *)
Fits == InRoom(m)

(* The text of every OFF field is there, inside the used part of the pr    *)
(* area, whatever was inserted, deleted or moved since it was stored, and  *)
(* no two texts share a byte.                                              *)
ValuesLive == InSpace => TextsLive(m)

=============================================================================
