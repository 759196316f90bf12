------------------------------- MODULE FixMsg -------------------------------
(***************************************************************************)
(* The message object of libfixc (struct fixc_msg_s, fix.h) and the        *)
(* operations fix.c defines on it, as operators from messages to messages. *)
(*                                                                         *)
(* A message is a header with fixed slots (f8, f9, f10, here `slot', and  *)
(* f35), an array of fields, and behind the array the "pr" area: the text  *)
(* of every field whose type is OFF, at the offset the field holds.  Array *)
(* and pr area share one block, either the tail of the message itself      *)
(* (`these', a message parsed from text) or a block on the heap.           *)
(*                                                                         *)
(* What the block really holds is kept in fspc and vspc.  The code stores  *)
(* neither: fspc is the distance from flds to pr, and the space for text   *)
(* is estimated from pz (AllocdVspc).                                      *)
(***************************************************************************)
EXTENDS FixSizes, FiniteSets

CONSTANTS
  FspcRnd,  \* rounding of a parsed message's field space (FSPC_RND)
  VspcRnd,  \* rounding of a parsed message's value space (VSPC_RND)
  Strs,     \* the texts a caller may hand in
  Size,     \* [Strs -> Nat], their lengths without the terminating NUL
  MtypOf    \* [Strs -> message type], what a text means as the value of tag 35

(* Tags, types and message types the code treats specially. *)
TAG_UNK      == 0
BEGIN_STRING == 8
BODY_LENGTH  == 9
CHECK_SUM    == 10
MSG_TYPE     == 35

SlotTags == {BEGIN_STRING, BODY_LENGTH, CHECK_SUM}

MSGT_UNK   == 0
MSGT_BATCH == 65535

Half == 0..65535

(* struct fixc_fld_s; u is the union: the offset of an OFF field, else the *)
(* value itself.                                                           *)
Typ == {"OFF", "INT", "UCHAR", "VER", "MSGTYP", "CTXT"}
Fld == [tag : Half, typ : Typ, tpc : Half, cnt : Half, u : Int]

NoFld == [tag |-> TAG_UNK, typ |-> "OFF", tpc |-> 0, cnt |-> 0, u |-> 0]

(* What the code takes for the size of the pr area. *)
AllocdVspc(msg) == NextPow2(msg.pz + 1)

-----------------------------------------------------------------------------
(* The pr area, a function from offsets to the texts that start there.     *)

Overlap(o, s, k, t) == o <= k + Size[t] /\ k <= o + Size[s]

(* memcpy() of s and its NUL to offset o: a text it runs into is gone. *)
PutStr(pr, o, s) ==
  [k \in {j \in DOMAIN pr : ~Overlap(o, s, j, pr[j])} \union {o} |->
     IF k = o THEN s ELSE pr[k]]

(* Mutant: the copy is a byte short. *)
FirstBytesShort(pr, z) ==
  [k \in {j \in DOMAIN pr : j + Size[pr[j]] < z - 1} |-> pr[k]]

(* memcpy() of the first z bytes to a fresh block. *)
FirstBytes(pr, z) ==
  [k \in {j \in DOMAIN pr : j + Size[pr[j]] < z} |-> pr[k]]

-----------------------------------------------------------------------------
(* Construction *)

(* make_fixc_msg: calloc() leaves flds and pr NULL, at distance 0. *)
MakeMsg(ctx) ==
  [ slot |-> [t \in SlotTags |-> NoFld],
    f35 |-> [tag |-> MSG_TYPE, typ |-> IF ctx > 8192 THEN "MSGTYP" ELSE "CTXT",
             tpc |-> 0, cnt |-> 0, u |-> ctx],
    nflds |-> 0, flds |-> [i \in {} |-> NoFld],
    store |-> "none", fspc |-> 0, vspc |-> 0,
    pz |-> 0, pr |-> [k \in {} |-> 0] ]

(* make_fixc_from_fix on a text w.len bytes long in which anal() has found *)
(* the slots w.slot and w.f35 and the fields w.flds with their texts w.pr. *)
ParsedMsg(w) ==
  [ slot |-> w.slot, f35 |-> w.f35, nflds |-> w.nflds, flds |-> w.flds,
    store |-> "these", fspc |-> Round(w.len \div 4, FspcRnd),
    vspc |-> Round(w.len + 1, VspcRnd), pz |-> w.len, pr |-> w.pr ]

-----------------------------------------------------------------------------
(* Growth and insertion *)

(* check_size: make room for addf more fields and addv more bytes.         *)
HasRoom(msg, addf, addv) ==
  /\ addf + msg.nflds < msg.fspc
  /\ addv + msg.pz < AllocdVspc(msg)

(* Mutant: the new array has no room for the fields to be added. *)
CheckSizeOldFlds(msg, addf, addv) ==
  IF HasRoom(msg, addf, addv) THEN msg
  ELSE [msg EXCEPT !.store = "heap",
                   !.fspc  = NextPow2(msg.nflds),
                   !.vspc  = NextPow2(AllocdVspc(msg) + addv + 1),
                   !.pr    = FirstBytes(@, msg.pz)]

CheckSize(msg, addf, addv) ==
  IF HasRoom(msg, addf, addv) THEN msg
  ELSE [msg EXCEPT !.store = "heap",
                   !.fspc  = NextPow2(msg.nflds + addf),
                   !.vspc  = NextPow2(AllocdVspc(msg) + addv + 1),
                   !.pr    = FirstBytes(@, msg.pz)]

(* Mutants of Place: the new field is not counted; idx is not heeded. *)
PlaceUncounted(msg, fld, idx) ==
  [msg EXCEPT
     !.flds  = [i \in 0..msg.nflds |->
                  IF i < idx THEN msg.flds[i]
                  ELSE IF i = idx THEN fld ELSE msg.flds[i - 1]]]

PlaceLast(msg, fld, idx) ==
  [msg EXCEPT
     !.nflds = @ + 1,
     !.flds  = [i \in 0..msg.nflds |-> IF i < msg.nflds THEN msg.flds[i] ELSE fld]]

(* memmove() the fields from idx on out of the way, then adopt fld. *)
Place(msg, fld, idx) ==
  [msg EXCEPT
     !.nflds = @ + 1,
     !.flds  = [i \in 0..msg.nflds |->
                  IF i < idx THEN msg.flds[i]
                  ELSE IF i = idx THEN fld ELSE msg.flds[i - 1]]]

InsertFld(msg, fld, idx) == Place(CheckSize(msg, 1, 0), fld, idx)

(* A second message type turns the message into a batch; the first one     *)
(* becomes field 0.  (The inner fixc_add_fld_at() cannot refuse it: see    *)
(* WellTyped.)                                                             *)
Typed(msg) == msg.f35.u \notin {MSGT_UNK, MSGT_BATCH}

Promote(msg) ==
  InsertFld([msg EXCEPT !.f35 = [@ EXCEPT !.tpc = 0, !.cnt = 0, !.u = MSGT_BATCH]],
            [msg.f35 EXCEPT !.cnt = 0, !.tpc = MSGT_BATCH], 0)

PromoteIfType(msg, tag) ==
  IF tag = MSG_TYPE /\ Typed(msg) THEN Promote(msg) ELSE msg

(* fixc_add_fld_at: an OFF field, an index past the end or no tag is      *)
(* refused; tags 8, 9, 10 and the first 35 have slots of their own.        *)
FldRefused(msg, fld, idx) == fld.typ = "OFF" \/ idx > msg.nflds \/ fld.tag = TAG_UNK

AddFldAt(msg, fld, idx) ==
  IF FldRefused(msg, fld, idx) THEN msg
  ELSE CASE fld.tag \in SlotTags -> [msg EXCEPT !.slot[fld.tag] = fld]
         [] fld.tag = MSG_TYPE /\ msg.f35.u = MSGT_UNK -> [msg EXCEPT !.f35 = fld]
         [] OTHER -> InsertFld(PromoteIfType(msg, fld.tag), fld, idx)

(* The part of fixc_add_tag_at that stores the text. *)
StoreStr(msg, s) ==
  [msg EXCEPT !.pr = PutStr(@, msg.pz, s), !.pz = @ + Size[s] + 1]

InsertStr(msg, tag, s, idx) ==
  LET r == CheckSize(msg, 1, Size[s] + 1)
  IN  Place(StoreStr(r, s),
            [tag |-> tag, typ |-> "OFF", tpc |-> 0, cnt |-> 0, u |-> r.pz], idx)

(* The first 35 goes to its slot: one or two characters make a type, of a  *)
(* longer or empty text nothing is kept (the slot was without a type).     *)
TypeOfStr(s) == IF Size[s] \in {1, 2} THEN MtypOf[s] ELSE MSGT_UNK

SetType(msg, s) ==
  [msg EXCEPT !.f35 = [tag |-> MSG_TYPE, typ |-> "MSGTYP", tpc |-> 0, cnt |-> 0,
                       u |-> TypeOfStr(s)]]

(* fixc_add_tag_at *)
TagRefused(msg, tag, idx) == idx > msg.nflds \/ tag \in SlotTags \union {TAG_UNK}

AddTagAt(msg, tag, s, idx) ==
  CASE TagRefused(msg, tag, idx) -> msg
    [] idx <= msg.nflds /\ tag = MSG_TYPE /\ msg.f35.u = MSGT_UNK ->
         SetType(msg, s)
    [] OTHER -> InsertStr(PromoteIfType(msg, tag), tag, s, idx)

(* fixc_del_fld: only the last field leaves the array. *)
DelFld(msg, n) ==
  CASE n >= msg.nflds -> msg
    [] n + 1 = msg.nflds ->
         [msg EXCEPT !.nflds = n, !.flds = [i \in 0..(n - 1) |-> msg.flds[i]]]
    [] OTHER -> [msg EXCEPT !.flds[n].tag = TAG_UNK]

-----------------------------------------------------------------------------
(* What holds of a message between two calls *)

WellTyped(msg) ==
  /\ msg \in [ slot : [SlotTags -> Fld], f35 : Fld,
               nflds : Nat, flds : [0..(msg.nflds - 1) -> Fld],
               store : {"none", "these", "heap"}, fspc : Nat, vspc : Nat,
               pz : Nat, pr : {msg.pr} ]
  /\ \A k \in DOMAIN msg.pr : k \in Nat /\ msg.pr[k] \in Strs
  /\ Typed(msg) => msg.f35.tag = MSG_TYPE /\ msg.f35.typ # "OFF"

(* The fields lie inside the array; a block on the heap has at least the   *)
(* room for text that AllocdVspc makes of pz.                              *)
InRoom(msg) ==
  /\ msg.nflds <= msg.fspc
  /\ msg.store = "none" => msg.fspc = 0 /\ msg.pz = 0
  /\ msg.store = "heap" => AllocdVspc(msg) <= msg.vspc

(* Every OFF field finds its text. *)
TextsFound(msg) ==
  \A i \in 0..(msg.nflds - 1) :
    msg.flds[i].typ = "OFF" => msg.flds[i].u \in DOMAIN msg.pr

(* The texts lie apart in the used part. *)
TextsApart(msg) ==
  \A k \in DOMAIN msg.pr :
    /\ k + Size[msg.pr[k]] < msg.pz
    /\ \A j \in DOMAIN msg.pr \ {k} : ~Overlap(k, msg.pr[k], j, msg.pr[j])

TextsLive(msg) == TextsFound(msg) /\ TextsApart(msg)

(* No two fields have one text. *)
TextsOwn(msg) ==
  \A i, k \in 0..(msg.nflds - 1) :
    i # k /\ msg.flds[i].typ = "OFF" /\ msg.flds[k].typ = "OFF" => msg.flds[i].u # msg.flds[k].u

-----------------------------------------------------------------------------
(* Observation *)

(* fixc_get_tag and fixc_get_tag_data; strlen() is the Size of the text.   *)
HasTag(msg, i) == i < msg.nflds /\ msg.flds[i].typ = "OFF"

GetTag(msg, i) == msg.pr[msg.flds[i].u]

(* fixc_get_tag_data: the size is the distance to the text of the next     *)
(* field, if that has one.                                                 *)
GetTagDataSize(msg, i) ==
  LET off == msg.flds[i].u
  IN  IF i + 1 = msg.nflds THEN msg.pz - off - 1
      ELSE IF msg.flds[i + 1].typ = "OFF" THEN msg.flds[i + 1].u - off - 1
      ELSE Size[GetTag(msg, i)]

=============================================================================
