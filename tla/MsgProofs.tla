----------------------------- MODULE MsgProofs -----------------------------
(***************************************************************************)
(* Proofs about MsgStore and MsgCalls: the invariants of the message, and  *)
(* that its calls do to it what they do to the list of FieldList.          *)
(***************************************************************************)
EXTENDS MsgCalls, SizeProofs, SequenceTheorems

-----------------------------------------------------------------------------
(* Tags, and what fields hold *)

LEMMA Halves ==
  /\ Half \subseteq Nat /\ 0 \in Half /\ TAG_UNK \in Half /\ MSG_TYPE \in Half
  /\ MSGT_BATCH \in Half /\ MSGT_BATCH \in Nat
<1>1. 0 \in 0..65535 /\ 35 \in 0..65535 /\ 65535 \in 0..65535 /\ 65535 \in Nat
  OBVIOUS
<1>2. \A z \in Nat : 0..z \subseteq Nat
  OBVIOUS
<1> QED
  BY <1>1, <1>2 DEF Half, TAG_UNK, MSG_TYPE, MSGT_BATCH

LEMMA Kinds == "OFF" \in Typ /\ "UCHAR" \in Typ /\ "MSGTYP" \in Typ /\ "CTXT" \in Typ
  BY DEF Typ

-----------------------------------------------------------------------------
(* The operations, one at a time *)

(* A good message; the texts of its fields are live, or else some may be   *)
(* lost.                                                                   *)
Good(msg, texts) == WellTyped(msg) /\ InRoom(msg) /\ TextsApart(msg)
                   /\ (texts = "live" => TextsFound(msg))

(* top is a word that holds every size the next call may ask for. *)
Headroom(msg, addf, addv, top) ==
  /\ msg.nflds + addf <= top
  /\ msg.pz + 1 <= top
  /\ AllocdVspc(msg) + addv + 1 <= top

(* check_size keeps every field and text, and leaves the room asked for.   *)
LEMMA CheckSizeGood ==
  ASSUME NEW texts, NEW msg, Good(msg, texts),
         NEW addf \in Nat \ {0}, NEW addv \in Nat,
         NEW top \in Pow2, Headroom(msg, addf, addv, top)
  PROVE  LET r == CheckSize(msg, addf, addv)
         IN  /\ Good(r, texts)
             /\ r.pz = msg.pz /\ r.nflds = msg.nflds /\ r.flds = msg.flds
             /\ r.slot = msg.slot /\ r.f35 = msg.f35
             /\ r.store # "none"
             /\ msg.nflds + addf <= r.fspc
             /\ r.store = "heap" => NextPow2(msg.pz + addv + 1) <= r.vspc
<1> DEFINE r == CheckSize(msg, addf, addv)
<1>0. /\ msg.nflds \in Nat /\ msg.pz \in Nat /\ msg.fspc \in Nat /\ msg.vspc \in Nat
      /\ top \in Nat /\ Size \in [Strs -> Nat]
  BY Pow2Nat, TextAssumption DEF Good, WellTyped
<1>1. AllocdVspc(msg) \in Pow2 /\ AllocdVspc(msg) \in Nat /\ msg.pz + 1 <= AllocdVspc(msg)
  <2>1. msg.pz + 1 \in Nat \ {0} /\ msg.pz + 1 <= top
    BY <1>0 DEF Headroom
  <2> QED
    BY <2>1, NextPow2Least, Pow2Nat DEF AllocdVspc
<1>2. CASE HasRoom(msg, addf, addv)
  <2>1. r = msg
    BY <1>2 DEF CheckSize
  <2>2. msg.store # "none" /\ msg.nflds + addf <= msg.fspc
    BY <1>0, <1>2 DEF HasRoom, Good, InRoom
  <2>3. NextPow2(msg.pz + addv + 1) <= AllocdVspc(msg)
    BY <1>0, <1>1, <1>2, NextPow2Least DEF HasRoom
  <2>4. NextPow2(msg.pz + addv + 1) \in Nat
    <3>1. msg.pz + addv + 1 <= AllocdVspc(msg)
      BY <1>0, <1>1, <1>2 DEF HasRoom
    <3> QED
      BY <3>1, <1>0, <1>1, NextPow2Mono
  <2>5. msg.store = "heap" => NextPow2(msg.pz + addv + 1) <= msg.vspc
    BY <1>0, <1>1, <2>3, <2>4 DEF Good, InRoom
  <2> QED
    BY <2>1, <2>2, <2>5
<1>3. CASE ~HasRoom(msg, addf, addv)
  <2> DEFINE fspc == NextPow2(msg.nflds + addf)
             vspc == NextPow2(AllocdVspc(msg) + addv + 1)
             pr   == FirstBytes(msg.pr, msg.pz)
  <2>1. r = [msg EXCEPT !.store = "heap", !.fspc = fspc, !.vspc = vspc, !.pr = pr]
    BY <1>3 DEF CheckSize
  <2>2. fspc \in Nat /\ msg.nflds + addf <= fspc
    <3>1. msg.nflds + addf \in Nat \ {0} /\ msg.nflds + addf <= top
      BY <1>0 DEF Headroom
    <3> QED
      BY <3>1, NextPow2Least, Pow2Nat
  <2>3. /\ vspc \in Nat
        /\ NextPow2(msg.pz + addv + 1) \in Nat
        /\ NextPow2(msg.pz + addv + 1) <= vspc
        /\ NextPow2(msg.pz + 1) <= vspc
    <3>1. /\ msg.pz + addv + 1 <= AllocdVspc(msg) + addv + 1
          /\ msg.pz + 1 <= AllocdVspc(msg) + addv + 1
          /\ AllocdVspc(msg) + addv + 1 <= top
          /\ AllocdVspc(msg) + addv + 1 \in Nat \ {0}
          /\ msg.pz + addv + 1 \in Nat \ {0} /\ msg.pz + 1 \in Nat \ {0}
      BY <1>0, <1>1 DEF Headroom
    <3> HIDE DEF vspc
    <3>2. /\ NextPow2(msg.pz + addv + 1) \in Nat
          /\ NextPow2(AllocdVspc(msg) + addv + 1) \in Nat
          /\ NextPow2(msg.pz + addv + 1) <= NextPow2(AllocdVspc(msg) + addv + 1)
      BY <3>1, NextPow2Mono
    <3>3. NextPow2(msg.pz + 1) <= NextPow2(AllocdVspc(msg) + addv + 1)
      BY <3>1, NextPow2Mono
    <3> QED
      BY <3>2, <3>3 DEF vspc
  <2>4. pr = [k \in DOMAIN msg.pr |-> msg.pr[k]]
    BY DEF FirstBytes, Good, TextsApart
  <2> HIDE DEF fspc, vspc, pr
  <2>5. /\ r \in [ slot : [SlotTags -> Fld], f35 : Fld,
                   nflds : Nat, flds : [0..(msg.nflds - 1) -> Fld],
                   store : {"none", "these", "heap"}, fspc : Nat, vspc : Nat,
                   pz : Nat, pr : {pr} ]
        /\ r.pz = msg.pz /\ r.nflds = msg.nflds /\ r.flds = msg.flds
        /\ r.slot = msg.slot /\ r.f35 = msg.f35
        /\ r.store = "heap" /\ r.fspc = fspc /\ r.vspc = vspc /\ r.pr = pr
    BY <2>1, <2>2, <2>3 DEF Good, WellTyped
  <2>6. WellTyped(r)
    BY <2>4, <2>5 DEF Good, WellTyped, Typed
  <2>7. InRoom(r)
    BY <1>0, <2>2, <2>3, <2>5 DEF InRoom, AllocdVspc
  <2>8. (TextsApart(r) /\ (texts = "live" => TextsFound(r)))
    BY <2>4, <2>5 DEF Good, TextsFound, TextsApart
  <2> QED
    BY <2>2, <2>3, <2>5, <2>6, <2>7, <2>8 DEF Good
<1> QED
  BY <1>2, <1>3

(* Moving the fields from idx on up by one keeps them; the new one needs a *)
(* text of its own if it is an OFF field.                                  *)
LEMMA PlaceGood ==
  ASSUME NEW texts, NEW msg, Good(msg, texts),
         msg.store # "none", msg.nflds + 1 <= msg.fspc,
         NEW fld \in Fld, fld.typ = "OFF" => fld.u \in DOMAIN msg.pr,
         NEW idx \in 0..msg.nflds
  PROVE  LET r == Place(msg, fld, idx)
         IN  /\ Good(r, texts)
             /\ r.nflds = msg.nflds + 1 /\ r.pz = msg.pz /\ r.store = msg.store
             /\ r.f35 = msg.f35
<1> DEFINE flds == [i \in 0..msg.nflds |->
                      IF i < idx THEN msg.flds[i]
                      ELSE IF i = idx THEN fld ELSE msg.flds[i - 1]]
           r == Place(msg, fld, idx)
<1>0. msg.nflds \in Nat /\ msg.flds \in [0..(msg.nflds - 1) -> Fld]
  BY DEF Good, WellTyped
<1>a. /\ \A i \in 0..msg.nflds : i < idx => flds[i] = msg.flds[i]
      /\ flds[idx] = fld
      /\ \A i \in 0..msg.nflds : idx < i => flds[i] = msg.flds[i - 1]
      /\ flds = [i \in 0..msg.nflds |-> flds[i]]
  BY <1>0
<1>b. r = [msg EXCEPT !.nflds = msg.nflds + 1, !.flds = flds]
  BY DEF Place
<1> HIDE DEF flds, r
<1>1. \A i \in 0..msg.nflds : \/ flds[i] = fld
                              \/ \E j \in 0..(msg.nflds - 1) : flds[i] = msg.flds[j]
  <2> TAKE i \in 0..msg.nflds
  <2>1. CASE i < idx
    <3>1. i \in 0..(msg.nflds - 1)
      BY <1>0, <2>1
    <3> QED
      BY <1>a, <2>1, <3>1
  <2>2. CASE i = idx
    BY <1>a, <2>2
  <2>3. CASE idx < i
    <3>1. i - 1 \in 0..(msg.nflds - 1)
      BY <1>0, <2>3
    <3> QED
      BY <1>a, <2>3, <3>1
  <2> QED
    BY <2>1, <2>2, <2>3, <1>0
<1>2. flds \in [0..msg.nflds -> Fld]
  <2>1. \A i \in 0..msg.nflds : flds[i] \in Fld
    BY <1>0, <1>1
  <2> QED
    BY <1>a, <2>1
<1> DEFINE n == msg.nflds + 1
<1>3. r = [msg EXCEPT !.nflds = n, !.flds = flds] /\ n \in Nat
  BY <1>0, <1>b
<1> HIDE DEF n
<1>4. /\ r \in [ slot : [SlotTags -> Fld], f35 : Fld,
                 nflds : Nat, flds : [0..msg.nflds -> Fld],
                 store : {"none", "these", "heap"}, fspc : Nat, vspc : Nat,
                 pz : Nat, pr : {msg.pr} ]
      /\ r.nflds = n /\ r.flds = flds
      /\ r.pz = msg.pz /\ r.store = msg.store /\ r.f35 = msg.f35
      /\ r.fspc = msg.fspc /\ r.vspc = msg.vspc /\ r.pr = msg.pr
  BY <1>2, <1>3 DEF Good, WellTyped
<1>5. r.nflds = msg.nflds + 1 /\ 0..(r.nflds - 1) = 0..msg.nflds
  BY <1>0, <1>4 DEF n
<1>6. WellTyped(r)
  BY <1>4, <1>5 DEF Good, WellTyped, Typed
<1>7. InRoom(r)
  BY <1>4, <1>5 DEF Good, InRoom, AllocdVspc
<1>8. TextsApart(r) /\ (texts = "live" => TextsFound(r))
  <2>1. ASSUME texts = "live" PROVE TextsFound(r)
    <3> SUFFICES ASSUME NEW i \in 0..(r.nflds - 1), r.flds[i].typ = "OFF"
                 PROVE  r.flds[i].u \in DOMAIN r.pr
      BY DEF TextsFound
    <3>1. r.flds[i] = flds[i] /\ i \in 0..msg.nflds
      BY <1>4, <1>5
    <3>2. CASE flds[i] = fld
      BY <1>4, <3>1, <3>2
    <3>3. CASE \E j \in 0..(msg.nflds - 1) : flds[i] = msg.flds[j]
      BY <1>4, <2>1, <3>1, <3>3 DEF Good, TextsFound
    <3> QED
      BY <1>1, <3>1, <3>2, <3>3
  <2> QED
    BY <1>4, <2>1 DEF Good, TextsFound, TextsApart
<1> QED
  BY <1>4, <1>5, <1>6, <1>7, <1>8 DEF Good, r

(* A text stored at pz runs into no other. *)
LEMMA StoreStrGood ==
  ASSUME NEW texts, NEW msg, Good(msg, texts),
         msg.store # "none", NEW s \in Strs,
         msg.store = "heap" => NextPow2(msg.pz + Size[s] + 2) <= msg.vspc
  PROVE  LET r == StoreStr(msg, s)
         IN  /\ Good(r, texts) /\ msg.pz \in DOMAIN r.pr
             /\ r.pz = msg.pz + Size[s] + 1
             /\ r.nflds = msg.nflds /\ r.fspc = msg.fspc /\ r.store = msg.store
             /\ r.f35 = msg.f35
<1> DEFINE pr == PutStr(msg.pr, msg.pz, s)
           r  == StoreStr(msg, s)
<1>0. /\ msg.pz \in Nat /\ Size[s] \in Nat /\ msg.nflds \in Nat
      /\ \A k \in DOMAIN msg.pr : k \in Nat /\ msg.pr[k] \in Strs /\ Size[msg.pr[k]] \in Nat
  BY TextAssumption DEF Good, WellTyped
<1>1. \A k \in DOMAIN msg.pr : /\ k + Size[msg.pr[k]] < msg.pz
                               /\ ~Overlap(msg.pz, s, k, msg.pr[k])
                               /\ ~Overlap(k, msg.pr[k], msg.pz, s)
  BY <1>0 DEF Good, TextsFound, TextsApart, Overlap
<1>2. pr = [k \in DOMAIN msg.pr \union {msg.pz} |-> IF k = msg.pz THEN s ELSE msg.pr[k]]
  BY <1>1 DEF PutStr
<1> DEFINE pz == msg.pz + Size[s] + 1
<1>3. r = [msg EXCEPT !.pr = pr, !.pz = pz] /\ pz \in Nat
  BY <1>0 DEF StoreStr
<1> HIDE DEF pr, r, pz
<1>4. /\ r \in [ slot : [SlotTags -> Fld], f35 : Fld,
                 nflds : Nat, flds : [0..(msg.nflds - 1) -> Fld],
                 store : {"none", "these", "heap"}, fspc : Nat, vspc : Nat,
                 pz : Nat, pr : {pr} ]
      /\ r.pz = pz /\ r.pr = pr
      /\ r.nflds = msg.nflds /\ r.flds = msg.flds /\ r.f35 = msg.f35
      /\ r.fspc = msg.fspc /\ r.vspc = msg.vspc /\ r.store = msg.store
  BY <1>3 DEF Good, WellTyped
<1>5. WellTyped(r)
  BY <1>0, <1>2, <1>4 DEF Good, WellTyped, Typed
<1>6. InRoom(r)
  <2>1. r.pz + 1 = msg.pz + Size[s] + 2
    BY <1>0, <1>4 DEF pz
  <2> QED
    BY <1>4, <2>1 DEF Good, InRoom, AllocdVspc
<1>7. TextsApart(r) /\ (texts = "live" => TextsFound(r))
  <2>1. texts = "live" => TextsFound(r)
    BY <1>2, <1>4 DEF Good, TextsFound
  <2>2. \A k \in DOMAIN r.pr : k + Size[r.pr[k]] < r.pz
    <3> TAKE k \in DOMAIN r.pr
    <3>1. CASE k = msg.pz
      <4>1. r.pr[k] = s /\ r.pz = pz
        BY <1>0, <1>2, <1>4, <3>1
      <4> QED
        BY <1>0, <3>1, <4>1 DEF pz
    <3>2. CASE k # msg.pz
      <4>1. k \in DOMAIN msg.pr /\ r.pr[k] = msg.pr[k] /\ r.pz = pz
        BY <1>2, <1>4, <3>2
      <4>2. k + Size[msg.pr[k]] < msg.pz
        BY <1>1, <4>1
      <4>3. k \in Nat /\ Size[msg.pr[k]] \in Nat /\ msg.pz \in Nat /\ Size[s] \in Nat
        BY <1>0, <4>1 DEF Good, WellTyped
      <4> QED
        BY <4>1, <4>2, <4>3 DEF pz
    <3> QED
      BY <3>1, <3>2
  <2>3. \A k \in DOMAIN r.pr : \A j \in DOMAIN r.pr \ {k} : ~Overlap(k, r.pr[k], j, r.pr[j])
    <3> TAKE k \in DOMAIN r.pr
    <3> TAKE j \in DOMAIN r.pr \ {k}
    <3>1. CASE k = msg.pz
      BY <1>1, <1>2, <1>4, <3>1
    <3>2. CASE j = msg.pz
      BY <1>1, <1>2, <1>4, <3>2
    <3>3. CASE k # msg.pz /\ j # msg.pz
      BY <1>2, <1>4, <3>3 DEF Good, TextsFound, TextsApart
    <3> QED
      BY <3>1, <3>2, <3>3
  <2> QED
    BY <2>1, <2>2, <2>3 DEF TextsApart
<1> QED
  BY <1>2, <1>4, <1>5, <1>6, <1>7 DEF Good, r, pz

LEMMA InsertFldGood ==
  ASSUME NEW texts, NEW msg, Good(msg, texts),
         NEW top \in Pow2, Headroom(msg, 1, 0, top),
         NEW fld \in Fld, fld.typ # "OFF", NEW idx \in 0..msg.nflds
  PROVE  LET r == InsertFld(msg, fld, idx)
         IN  /\ Good(r, texts) /\ r.store # "none"
             /\ r.nflds = msg.nflds + 1 /\ r.pz = msg.pz /\ r.f35 = msg.f35
<1> DEFINE c == CheckSize(msg, 1, 0)
<1>1. /\ Good(c, texts) /\ c.store # "none" /\ msg.nflds + 1 <= c.fspc
      /\ c.nflds = msg.nflds /\ c.pz = msg.pz /\ c.f35 = msg.f35
  BY CheckSizeGood
<1> HIDE DEF c
<1>2. c.nflds + 1 <= c.fspc /\ idx \in 0..c.nflds
  BY <1>1
<1> QED
  BY <1>1, <1>2, PlaceGood DEF InsertFld, c

LEMMA PromoteGood ==
  ASSUME NEW texts, NEW msg, Good(msg, texts),
         Typed(msg), NEW top \in Pow2, Headroom(msg, 1, 0, top)
  PROVE  LET r == Promote(msg)
         IN  /\ Good(r, texts) /\ r.store # "none"
             /\ r.nflds = msg.nflds + 1 /\ r.pz = msg.pz
             /\ r.f35.u = MSGT_BATCH
<1> DEFINE slot35 == [msg.f35 EXCEPT !.tpc = 0, !.cnt = 0, !.u = MSGT_BATCH]
           b == [msg EXCEPT !.f35 = slot35]
           f == [msg.f35 EXCEPT !.cnt = 0, !.tpc = MSGT_BATCH]
<1>0. msg.f35 \in Fld /\ msg.f35.typ # "OFF"
  BY DEF Good, WellTyped
<1>1. /\ slot35 \in Fld /\ slot35.u = MSGT_BATCH
      /\ f \in Fld /\ f.typ # "OFF"
  <2>1. 0 \in Half /\ MSGT_BATCH \in Half /\ MSGT_BATCH \in Int
    BY Halves
  <2> QED
    BY <1>0, <2>1 DEF Fld
<1> HIDE DEF slot35, f
<1>2. b = [msg EXCEPT !.f35 = slot35]
  OBVIOUS
<1> HIDE DEF b
<1>3. /\ b \in [ slot : [SlotTags -> Fld], f35 : Fld,
                 nflds : Nat, flds : [0..(msg.nflds - 1) -> Fld],
                 store : {"none", "these", "heap"}, fspc : Nat, vspc : Nat,
                 pz : Nat, pr : {msg.pr} ]
      /\ b.f35 = slot35
      /\ b.nflds = msg.nflds /\ b.flds = msg.flds /\ b.store = msg.store
      /\ b.fspc = msg.fspc /\ b.vspc = msg.vspc /\ b.pz = msg.pz /\ b.pr = msg.pr
  BY <1>1, <1>2 DEF Good, WellTyped
<1>4. ~Typed(b) /\ b.f35.u = MSGT_BATCH
  BY <1>1, <1>3 DEF Typed
<1>5. Good(b, texts)
  BY <1>3, <1>4 DEF Good, WellTyped, InRoom, AllocdVspc, TextsFound, TextsApart
<1>6. Headroom(b, 1, 0, top) /\ 0 \in 0..b.nflds
  BY <1>3 DEF Good, WellTyped, Headroom, AllocdVspc
<1>7. LET r == InsertFld(b, f, 0)
      IN  /\ Good(r, texts) /\ r.store # "none"
          /\ r.nflds = b.nflds + 1 /\ r.pz = b.pz /\ r.f35 = b.f35
  BY <1>1, <1>5, <1>6, InsertFldGood
<1> QED
  BY <1>3, <1>4, <1>7 DEF Promote, b, f, slot35

LEMMA InsertStrGood ==
  ASSUME NEW texts, NEW msg, Good(msg, texts),
         NEW s \in Strs, NEW top \in Pow2,
         Headroom(msg, 1, Size[s] + 1, top),
         NEW tag \in Half, NEW idx \in 0..msg.nflds
  PROVE  LET r == InsertStr(msg, tag, s, idx)
         IN  Good(r, texts) /\ r.nflds = msg.nflds + 1 /\ r.pz = msg.pz + Size[s] + 1
<1> DEFINE c == CheckSize(msg, 1, Size[s] + 1)
           t == StoreStr(c, s)
           f == [tag |-> tag, typ |-> "OFF", tpc |-> 0, cnt |-> 0, u |-> c.pz]
<1>0. msg.nflds \in Nat /\ msg.pz \in Nat /\ Size[s] + 1 \in Nat /\ Size[s] \in Nat
  BY TextAssumption DEF Good, WellTyped
<1>1. /\ Good(c, texts) /\ c.store # "none" /\ msg.nflds + 1 <= c.fspc
      /\ c.nflds = msg.nflds /\ c.pz = msg.pz
      /\ c.store = "heap" => NextPow2(msg.pz + (Size[s] + 1) + 1) <= c.vspc
  BY <1>0, CheckSizeGood
<1>2. c.store = "heap" => NextPow2(c.pz + Size[s] + 2) <= c.vspc
  <2>1. msg.pz + (Size[s] + 1) + 1 = c.pz + Size[s] + 2
    BY <1>0, <1>1
  <2> QED
    BY <1>1, <2>1
<1> HIDE DEF c
<1>3. /\ Good(t, texts) /\ c.pz \in DOMAIN t.pr /\ t.store # "none"
      /\ t.pz = c.pz + Size[s] + 1 /\ t.nflds = c.nflds /\ t.fspc = c.fspc
  BY <1>1, <1>2, StoreStrGood
<1>4. f \in Fld /\ f.u \in DOMAIN t.pr /\ t.nflds + 1 <= t.fspc /\ idx \in 0..t.nflds
  <2>1. f \in Fld /\ f.u = c.pz
    <3>1. c.pz \in Nat /\ 0 \in Half /\ "OFF" \in Typ
      BY <1>0, <1>1, Halves, Kinds
    <3> QED
      BY <3>1 DEF Fld
  <2> QED
    BY <1>0, <1>1, <1>3, <2>1
<1> HIDE DEF f, t
<1>5. LET r == Place(t, f, idx) IN Good(r, texts) /\ r.nflds = t.nflds + 1 /\ r.pz = t.pz
  BY <1>3, <1>4, PlaceGood
<1> QED
  BY <1>1, <1>3, <1>5 DEF InsertStr, c, f, t

-----------------------------------------------------------------------------
(* The calls of the interface *)

(* Room for two more fields, one of them the promoted type, and v bytes. *)
Within(msg, v, top) ==
  /\ msg.nflds + 2 <= top
  /\ msg.pz + 1 <= top /\ AllocdVspc(msg) + v + 1 <= top

LEMMA PromoteIfTypeGood ==
  ASSUME NEW texts, NEW msg, Good(msg, texts),
         NEW v \in Nat, NEW top \in Pow2, Within(msg, v, top),
         NEW tag
  PROVE  LET r == PromoteIfType(msg, tag)
         IN  /\ Good(r, texts) /\ Headroom(r, 1, v, top)
             /\ r.pz = msg.pz
             /\ msg.nflds <= r.nflds /\ r.nflds <= msg.nflds + 1
<1>0. /\ msg.nflds \in Nat /\ msg.pz \in Nat /\ top \in Nat
      /\ msg.pz + 1 \in Nat \ {0} /\ msg.pz + 1 <= top
  BY Pow2Nat DEF Good, WellTyped, Within
<1>1. AllocdVspc(msg) \in Nat
  BY <1>0, NextPow2Least, Pow2Nat DEF AllocdVspc
<1>2. Headroom(msg, 1, 0, top) /\ Headroom(msg, 1, v, top)
  BY <1>0, <1>1 DEF Headroom, Within
<1>3. CASE tag = MSG_TYPE /\ Typed(msg)
  <2> DEFINE r == Promote(msg)
  <2>1. Good(r, texts) /\ r.nflds = msg.nflds + 1 /\ r.pz = msg.pz
    BY <1>2, <1>3, PromoteGood
  <2>2. PromoteIfType(msg, tag) = r
    BY <1>3 DEF PromoteIfType
  <2> HIDE DEF r
  <2>3. Headroom(r, 1, v, top)
    BY <1>0, <2>1 DEF Headroom, Within, AllocdVspc
  <2> QED
    BY <1>0, <2>1, <2>2, <2>3
<1>4. CASE ~(tag = MSG_TYPE /\ Typed(msg))
  BY <1>0, <1>2, <1>4 DEF PromoteIfType
<1> QED
  BY <1>3, <1>4

(* A new value in the type slot keeps a good message good. *)
LEMMA TypeSlotGood ==
  ASSUME NEW texts, NEW msg, Good(msg, texts),
         NEW f \in Fld, f.tag = MSG_TYPE, f.typ # "OFF"
  PROVE  LET r == [msg EXCEPT !.f35 = f]
         IN  Good(r, texts) /\ r.nflds = msg.nflds /\ r.pz = msg.pz
<1> DEFINE r == [msg EXCEPT !.f35 = f]
<1>1. /\ r \in [ slot : [SlotTags -> Fld], f35 : Fld,
                 nflds : Nat, flds : [0..(msg.nflds - 1) -> Fld],
                 store : {"none", "these", "heap"}, fspc : Nat, vspc : Nat,
                 pz : Nat, pr : {msg.pr} ]
      /\ r.f35 = f
      /\ r.nflds = msg.nflds /\ r.flds = msg.flds /\ r.store = msg.store
      /\ r.fspc = msg.fspc /\ r.vspc = msg.vspc /\ r.pz = msg.pz /\ r.pr = msg.pr
  BY DEF Good, WellTyped
<1> HIDE DEF r
<1>2. Good(r, texts)
  BY <1>1 DEF Good, WellTyped, InRoom, AllocdVspc, TextsFound, TextsApart
<1> QED
  BY <1>1, <1>2 DEF r

LEMMA AddFldGood ==
  ASSUME NEW texts, NEW msg, Good(msg, texts),
         NEW fld \in Fld, NEW idx \in Nat,
         NEW top \in Pow2, Within(msg, 0, top)
  PROVE  LET r == AddFldAt(msg, fld, idx)
         IN  Good(r, texts) /\ r.nflds <= msg.nflds + 2 /\ r.pz = msg.pz
<1> DEFINE r == AddFldAt(msg, fld, idx)
<1>0. msg.nflds \in Nat /\ msg.pz \in Nat
  BY DEF Good, WellTyped
<1>1. CASE fld.typ = "OFF" \/ idx > msg.nflds \/ fld.tag = TAG_UNK
  BY <1>0, <1>1 DEF AddFldAt, FldRefused
<1>2. CASE ~(fld.typ = "OFF" \/ idx > msg.nflds \/ fld.tag = TAG_UNK)
  <2>1. CASE fld.tag \in SlotTags
    <3> DEFINE slot == [msg.slot EXCEPT ![fld.tag] = fld]
               q == [msg EXCEPT !.slot = slot]
    <3>1. fld.tag # MSG_TYPE
      BY <2>1 DEF SlotTags, MSG_TYPE, BEGIN_STRING, BODY_LENGTH, CHECK_SUM
    <3>2. r = q
      BY <1>2, <2>1, <3>1 DEF AddFldAt, FldRefused
    <3>3. slot \in [SlotTags -> Fld]
      BY <2>1 DEF Good, WellTyped
    <3> HIDE DEF slot
    <3>4. /\ q \in [ slot : [SlotTags -> Fld], f35 : Fld,
                     nflds : Nat, flds : [0..(msg.nflds - 1) -> Fld],
                     store : {"none", "these", "heap"}, fspc : Nat, vspc : Nat,
                     pz : Nat, pr : {msg.pr} ]
          /\ q.f35 = msg.f35
          /\ q.nflds = msg.nflds /\ q.flds = msg.flds /\ q.store = msg.store
          /\ q.fspc = msg.fspc /\ q.vspc = msg.vspc /\ q.pz = msg.pz /\ q.pr = msg.pr
      BY <3>3 DEF Good, WellTyped
    <3> HIDE DEF q, r
    <3>5. Good(q, texts)
      BY <3>4 DEF Good, WellTyped, InRoom, AllocdVspc, TextsFound, TextsApart, Typed
    <3> QED
      BY <1>0, <3>2, <3>4, <3>5 DEF r
  <2>2. CASE fld.tag = MSG_TYPE /\ msg.f35.u = MSGT_UNK
    <3>1. fld.tag \notin SlotTags
      BY <2>2 DEF SlotTags, MSG_TYPE, BEGIN_STRING, BODY_LENGTH, CHECK_SUM
    <3>2. r = [msg EXCEPT !.f35 = fld]
      BY <1>2, <2>2, <3>1 DEF AddFldAt, FldRefused
    <3> HIDE DEF r
    <3> QED
      BY <1>0, <1>2, <2>2, <3>2, TypeSlotGood DEF r
  <2>3. CASE fld.tag \notin SlotTags /\ ~(fld.tag = MSG_TYPE /\ msg.f35.u = MSGT_UNK)
    <3> DEFINE p == PromoteIfType(msg, fld.tag)
    <3>1. r = InsertFld(p, fld, idx)
      BY <1>2, <2>3 DEF AddFldAt, FldRefused
    <3>2. /\ Good(p, texts) /\ Headroom(p, 1, 0, top) /\ p.pz = msg.pz
          /\ msg.nflds <= p.nflds /\ p.nflds <= msg.nflds + 1
      BY PromoteIfTypeGood
    <3> HIDE DEF p
    <3>3. p.nflds \in Nat /\ idx \in 0..p.nflds
      BY <1>0, <1>2, <3>2 DEF Good, WellTyped
    <3>4. LET q == InsertFld(p, fld, idx)
          IN  Good(q, texts) /\ q.nflds = p.nflds + 1 /\ q.pz = p.pz
      BY <1>2, <3>2, <3>3, InsertFldGood
    <3> QED
      BY <1>0, <3>1, <3>2, <3>3, <3>4
  <2> QED
    BY <2>1, <2>2, <2>3
<1> QED
  BY <1>1, <1>2

LEMMA TypeOfStrHalf == ASSUME NEW s \in Strs PROVE TypeOfStr(s) \in Half
<1>1. MtypOf[s] \in Half /\ MSGT_UNK \in Half
  BY TextAssumption, Halves DEF MSGT_UNK
<1> QED
  BY <1>1 DEF TypeOfStr

LEMMA SetTypeGood ==
  ASSUME NEW texts, NEW msg, Good(msg, texts),
         NEW s \in Strs
  PROVE  LET r == SetType(msg, s)
         IN  Good(r, texts) /\ r.nflds = msg.nflds /\ r.pz = msg.pz
<1> DEFINE u == TypeOfStr(s)
           f == [tag |-> MSG_TYPE, typ |-> "MSGTYP", tpc |-> 0, cnt |-> 0, u |-> u]
<1>1. u \in Nat
  BY TypeOfStrHalf, Halves
<1> HIDE DEF u
<1>2. f \in Fld /\ f.tag = MSG_TYPE /\ f.typ # "OFF"
  <2>1. 0 \in Half /\ MSG_TYPE \in Half /\ "MSGTYP" \in Typ
    BY Halves, Kinds
  <2> QED
    BY <1>1, <2>1 DEF Fld
<1>3. SetType(msg, s) = [msg EXCEPT !.f35 = f]
  BY DEF SetType, u, Good, WellTyped
<1> HIDE DEF f
<1> QED
  BY <1>2, <1>3, TypeSlotGood

LEMMA AddTagGood ==
  ASSUME NEW texts, NEW msg, Good(msg, texts),
         NEW tag \in Half, NEW s \in Strs, NEW idx \in Nat,
         NEW top \in Pow2, Within(msg, Size[s] + 1, top)
  PROVE  LET r == AddTagAt(msg, tag, s, idx)
         IN  Good(r, texts) /\ r.nflds <= msg.nflds + 2 /\ r.pz <= msg.pz + Size[s] + 1
<1> DEFINE r == AddTagAt(msg, tag, s, idx)
<1>0. msg.nflds \in Nat /\ msg.pz \in Nat /\ Size[s] \in Nat /\ Size[s] + 1 \in Nat
  BY TextAssumption DEF Good, WellTyped
<1>1. CASE idx > msg.nflds \/ tag \in SlotTags \union {TAG_UNK}
  <2>1. ~(idx <= msg.nflds /\ tag = MSG_TYPE /\ msg.f35.u = MSGT_UNK)
    BY <1>0, <1>1 DEF SlotTags, MSG_TYPE, BEGIN_STRING, BODY_LENGTH, CHECK_SUM, TAG_UNK
  <2>2. r = msg
    BY <1>1, <2>1 DEF AddTagAt, TagRefused
  <2> QED
    BY <1>0, <2>2
<1>2. CASE ~(idx > msg.nflds \/ tag \in SlotTags \union {TAG_UNK})
  <2>0. idx <= msg.nflds
    BY <1>0, <1>2
  <2>1. CASE tag = MSG_TYPE /\ msg.f35.u = MSGT_UNK
    <3>1. r = SetType(msg, s)
      BY <1>2, <2>0, <2>1 DEF AddTagAt, TagRefused
    <3> QED
      BY <1>0, <3>1, SetTypeGood
  <2>2. CASE ~(tag = MSG_TYPE /\ msg.f35.u = MSGT_UNK)
    <3> DEFINE p == PromoteIfType(msg, tag)
    <3>1. r = InsertStr(p, tag, s, idx)
      BY <1>2, <2>2 DEF AddTagAt, TagRefused
    <3>2. /\ Good(p, texts) /\ Headroom(p, 1, Size[s] + 1, top) /\ p.pz = msg.pz
          /\ msg.nflds <= p.nflds /\ p.nflds <= msg.nflds + 1
      BY <1>0, PromoteIfTypeGood
    <3> HIDE DEF p
    <3>3. p.nflds \in Nat /\ idx \in 0..p.nflds
      BY <1>0, <2>0, <3>2 DEF Good, WellTyped
    <3>4. LET q == InsertStr(p, tag, s, idx)
          IN  Good(q, texts) /\ q.nflds = p.nflds + 1 /\ q.pz = p.pz + Size[s] + 1
      BY <3>2, <3>3, InsertStrGood
    <3> QED
      BY <1>0, <3>1, <3>2, <3>3, <3>4
  <2> QED
    BY <2>1, <2>2
<1> QED
  BY <1>1, <1>2

LEMMA DelFldGood ==
  ASSUME NEW texts, NEW msg, Good(msg, texts),
         NEW n \in Nat
  PROVE  LET r == DelFld(msg, n)
         IN  Good(r, texts) /\ r.nflds <= msg.nflds /\ r.pz = msg.pz
<1> DEFINE r == DelFld(msg, n)
<1>0. msg.nflds \in Nat /\ msg.pz \in Nat /\ msg.fspc \in Nat
      /\ msg.flds \in [0..(msg.nflds - 1) -> Fld]
  BY DEF Good, WellTyped
<1>1. CASE n >= msg.nflds
  <2>1. n + 1 # msg.nflds
    BY <1>0, <1>1
  <2>2. r = msg
    BY <1>1, <2>1 DEF DelFld
  <2> QED
    BY <1>0, <2>2
<1>2. CASE n + 1 = msg.nflds
  <2> DEFINE flds == [i \in 0..(n - 1) |-> msg.flds[i]]
             q == [msg EXCEPT !.nflds = n, !.flds = flds]
  <2>1. r = q
    BY <1>0, <1>2 DEF DelFld
  <2>2. 0..(n - 1) \subseteq 0..(msg.nflds - 1)
    BY <1>0, <1>2
  <2>3. flds \in [0..(n - 1) -> Fld] /\ \A i \in 0..(n - 1) : flds[i] = msg.flds[i]
    BY <1>0, <2>2
  <2> HIDE DEF flds
  <2>4. /\ q \in [ slot : [SlotTags -> Fld], f35 : Fld,
                   nflds : Nat, flds : [0..(n - 1) -> Fld],
                   store : {"none", "these", "heap"}, fspc : Nat, vspc : Nat,
                   pz : Nat, pr : {msg.pr} ]
        /\ q.f35 = msg.f35
        /\ q.nflds = n /\ q.flds = flds /\ q.store = msg.store
        /\ q.fspc = msg.fspc /\ q.vspc = msg.vspc /\ q.pz = msg.pz /\ q.pr = msg.pr
    BY <2>3 DEF Good, WellTyped
  <2> HIDE DEF q, r
  <2>5. WellTyped(q)
    BY <2>4 DEF Good, WellTyped, Typed
  <2>6. InRoom(q)
    BY <1>0, <1>2, <2>4 DEF Good, InRoom, AllocdVspc
  <2>7. (TextsApart(q) /\ (texts = "live" => TextsFound(q)))
    BY <2>2, <2>3, <2>4 DEF Good, TextsFound, TextsApart
  <2> QED
    BY <1>0, <1>2, <2>1, <2>4, <2>5, <2>6, <2>7 DEF Good, r
<1>3. CASE n < msg.nflds /\ n + 1 # msg.nflds
  <2> DEFINE fld == [msg.flds[n] EXCEPT !.tag = TAG_UNK]
             flds == [msg.flds EXCEPT ![n] = fld]
             q == [msg EXCEPT !.flds = flds]
  <2>1. n \in 0..(msg.nflds - 1) /\ ~(n >= msg.nflds)
    BY <1>0, <1>3
  <2>2. r = q
    BY <1>0, <1>3, <2>1 DEF DelFld, Good, WellTyped
  <2>3. fld \in Fld /\ fld.typ = msg.flds[n].typ /\ fld.u = msg.flds[n].u
    <3>1. TAG_UNK \in Half /\ msg.flds[n] \in Fld
      BY <1>0, <2>1, Halves
    <3> QED
      BY <3>1 DEF Fld
  <2> HIDE DEF fld
  <2>4. /\ flds \in [0..(msg.nflds - 1) -> Fld]
        /\ \A i \in 0..(msg.nflds - 1) :
             flds[i].typ = msg.flds[i].typ /\ flds[i].u = msg.flds[i].u
    BY <1>0, <2>1, <2>3
  <2> HIDE DEF flds
  <2>5. /\ q \in [ slot : [SlotTags -> Fld], f35 : Fld,
                   nflds : Nat, flds : [0..(msg.nflds - 1) -> Fld],
                   store : {"none", "these", "heap"}, fspc : Nat, vspc : Nat,
                   pz : Nat, pr : {msg.pr} ]
        /\ q.f35 = msg.f35
        /\ q.nflds = msg.nflds /\ q.flds = flds /\ q.store = msg.store
        /\ q.fspc = msg.fspc /\ q.vspc = msg.vspc /\ q.pz = msg.pz /\ q.pr = msg.pr
    BY <2>4 DEF Good, WellTyped
  <2> HIDE DEF q, r
  <2>6. Good(q, texts)
    BY <2>4, <2>5 DEF Good, WellTyped, InRoom, AllocdVspc, TextsFound, TextsApart, Typed
  <2> QED
    BY <1>0, <2>2, <2>5, <2>6 DEF r
<1> QED
  BY <1>0, <1>1, <1>2, <1>3

-----------------------------------------------------------------------------
(* The message over time *)

(* Every state is good and inside the bounds. *)
GoodAt(texts) == Good(m, texts) /\ m.nflds <= MaxFlds + 2 /\ m.pz <= MaxPz

Inv == GoodAt("live")

LEMMA MadeGood ==
  ASSUME NEW ctx \in Half
  PROVE  Good(MakeMsg(ctx), "live")
<1> DEFINE f == [tag |-> MSG_TYPE, typ |-> IF ctx > 8192 THEN "MSGTYP" ELSE "CTXT",
                 tpc |-> 0, cnt |-> 0, u |-> ctx]
           msg == MakeMsg(ctx)
           slot == [t \in SlotTags |-> NoFld]
           flds == [i \in {} |-> NoFld]
<1>1. f \in Fld /\ f.tag = MSG_TYPE /\ f.typ # "OFF"
  <2>1. ctx \in Nat /\ 0 \in Half /\ MSG_TYPE \in Half /\ "MSGTYP" \in Typ /\ "CTXT" \in Typ
    BY Halves, Kinds
  <2> QED
    BY <2>1 DEF Fld
<1>2. slot \in [SlotTags -> Fld]
  <2>1. NoFld \in Fld
    <3>1. 0 \in Half /\ TAG_UNK \in Half /\ "OFF" \in Typ
      BY Halves, Kinds
    <3> QED
      BY <3>1 DEF NoFld, Fld
  <2> QED
    BY <2>1
<1>3. flds \in [0..(0 - 1) -> Fld] /\ 0..(0 - 1) = {}
  OBVIOUS
<1>4. msg = [ slot |-> slot, f35 |-> f, nflds |-> 0, flds |-> flds, store |-> "none",
              fspc |-> 0, vspc |-> 0, pz |-> 0, pr |-> [k \in {} |-> 0] ]
  BY DEF MakeMsg
<1> HIDE DEF slot, f, flds, msg
<1>5. msg.f35 = f /\ msg.nflds = 0 /\ msg.flds = flds /\ msg.store = "none"
      /\ msg.fspc = 0 /\ msg.pz = 0 /\ DOMAIN msg.pr = {}
  BY <1>4
<1>6. WellTyped(msg)
  BY <1>1, <1>2, <1>3, <1>4, <1>5 DEF WellTyped
<1>7. InRoom(msg) /\ TextsLive(msg)
  BY <1>3, <1>5 DEF InRoom, TextsLive, TextsFound, TextsApart
<1> QED
  BY <1>6, <1>7 DEF Good, TextsLive, msg

(* Field space for a quarter of the length is enough, as IsParsed says a   *)
(* field takes four bytes.                                                 *)
LEMMA ParsedGood ==
  ASSUME NEW w, IsParsed(w)
  PROVE  LET r == ParsedMsg(w) IN Good(r, "live") /\ r.nflds <= MaxFlds + 2 /\ r.pz <= MaxPz
<1> DEFINE r == ParsedMsg(w)
<1>1. r.nflds = w.nflds /\ r.pz = w.len /\ r.store = "these"
      /\ r.fspc = Round(w.len \div 4, FspcRnd)
  BY DEF ParsedMsg
<1>2. w.len \in Nat /\ w.len <= MaxPz /\ w.nflds \in Nat /\ w.nflds <= MaxFlds
      /\ w.nflds <= w.len \div 4
  BY BoundAssumption DEF IsParsed
<1>3. w.len \div 4 \in Nat
  BY <1>2
<1>4. Round(w.len \div 4, FspcRnd) \in Nat /\ w.len \div 4 <= Round(w.len \div 4, FspcRnd)
  BY <1>3, RoundUp, RoundingAssumption
<1>5. WellTyped(r) /\ TextsLive(r)
  BY DEF IsParsed
<1> HIDE DEF r
<1>6. InRoom(r)
  BY <1>1, <1>2, <1>3, <1>4 DEF InRoom
<1> QED
  BY <1>1, <1>2, <1>5, <1>6, BoundAssumption DEF Good, TextsLive, r

LEMMA InitInv == Init => Inv
<1> SUFFICES ASSUME Init PROVE Inv
  OBVIOUS
<1>1. ASSUME NEW ctx \in Ctxs, m = MakeMsg(ctx) PROVE Inv
  <2>1. Good(m, "live")
    BY <1>1, MadeGood, InputAssumption
  <2>2. m.nflds = 0 /\ m.pz = 0
    BY <1>1 DEF MakeMsg
  <2>3. 0 <= MaxFlds + 2 /\ 0 <= MaxPz
    BY BoundAssumption
  <2> QED
    BY <2>1, <2>2, <2>3 DEF Inv, GoodAt
<1>2. ASSUME NEW w \in Parsed, m = ParsedMsg(w) PROVE Inv
  BY <1>2, ParsedGood, InputAssumption DEF Inv, GoodAt
<1> QED
  BY <1>1, <1>2 DEF Init

(* The word is wide enough for a call that starts inside the bounds.       *)
LEMMA WithinBounds ==
  ASSUME NEW texts, GoodAt(texts), m.nflds <= MaxFlds, NEW v \in Nat, NEW top \in Pow2,
         MaxFlds + 2 <= top, MaxPz + 1 <= top, NextPow2(MaxPz + 1) + v + 1 <= top
  PROVE  Within(m, v, top)
<1>1. m.nflds \in Nat /\ m.pz \in Nat /\ m.pz <= MaxPz /\ MaxPz \in Nat /\ MaxFlds \in Nat
      /\ top \in Nat
  BY BoundAssumption, Pow2Nat DEF GoodAt, Good, WellTyped
<1>2. /\ NextPow2(m.pz + 1) \in Nat /\ NextPow2(MaxPz + 1) \in Nat
      /\ NextPow2(m.pz + 1) <= NextPow2(MaxPz + 1)
  <2>1. /\ m.pz + 1 \in Nat \ {0} /\ MaxPz + 1 \in Nat \ {0}
        /\ m.pz + 1 <= MaxPz + 1
    BY <1>1
  <2> QED
    BY <2>1, NextPow2Mono
<1> QED
  BY <1>1, <1>2 DEF Within, AllocdVspc

(* Each call keeps what is known of the message. *)
LEMMA NextGood ==
  ASSUME NEW texts, GoodAt(texts), [Next]_m PROVE GoodAt(texts)'
<1>0. m.nflds \in Nat /\ m.pz \in Nat /\ MaxFlds \in Nat /\ MaxPz \in Nat
  BY BoundAssumption DEF GoodAt, Good, WellTyped
<1>1. PICK top \in Pow2 :
        /\ MaxFlds + 2 <= top
        /\ MaxPz + 1 <= top /\ NextPow2(MaxPz + 1) + 1 <= top
        /\ \A s \in Strs : NextPow2(MaxPz + 1) + Size[s] + 2 <= top
  BY WordAssumption
<1>2. NextPow2(MaxPz + 1) \in Nat
  <2>1. MaxPz + 1 \in Nat \ {0}
    BY <1>0
  <2> QED
    BY <1>1, <2>1, NextPow2Least, Pow2Nat
<1>3. ASSUME NEW i \in 0..(m.nflds + 1), NEW fld \in Inputs, AddFld(fld, i)
      PROVE  GoodAt(texts)'
  <2>1. m.nflds <= MaxFlds /\ m' = AddFldAt(m, fld, i) /\ i \in Nat /\ fld \in Fld
    BY <1>3, InputAssumption DEF AddFld
  <2>2. NextPow2(MaxPz + 1) + 0 + 1 <= top
    BY <1>1, <1>2
  <2>3. Within(m, 0, top)
    BY <1>1, <2>1, <2>2, WithinBounds
  <2>4. Good(m', texts) /\ m'.nflds <= m.nflds + 2 /\ m'.pz = m.pz
    BY <2>1, <2>3, AddFldGood DEF GoodAt
  <2>5. m'.nflds \in Nat
    BY <2>4 DEF Good, WellTyped
  <2> QED
    BY <1>0, <2>1, <2>4, <2>5 DEF GoodAt
<1>4. ASSUME NEW i \in 0..(m.nflds + 1), NEW tag \in Tags, NEW s \in Strs, AddTag(tag, s, i)
      PROVE  GoodAt(texts)'
  <2>1. /\ m.nflds <= MaxFlds /\ m.pz + Size[s] + 1 <= MaxPz
        /\ m' = AddTagAt(m, tag, s, i) /\ i \in Nat /\ tag \in Half
    BY <1>4, InputAssumption DEF AddTag
  <2>2. Size[s] \in Nat /\ Size[s] + 1 \in Nat
    BY TextAssumption
  <2>3. NextPow2(MaxPz + 1) + (Size[s] + 1) + 1 <= top
    <3>1. NextPow2(MaxPz + 1) + Size[s] + 2 <= top
      BY <1>1
    <3>2. NextPow2(MaxPz + 1) + (Size[s] + 1) + 1 = NextPow2(MaxPz + 1) + Size[s] + 2
      BY <1>2, <2>2
    <3> QED
      BY <3>1, <3>2
  <2>4. Within(m, Size[s] + 1, top)
    BY <1>1, <2>1, <2>2, <2>3, WithinBounds
  <2>5. Good(m', texts) /\ m'.nflds <= m.nflds + 2 /\ m'.pz <= m.pz + Size[s] + 1
    BY <2>1, <2>4, AddTagGood DEF GoodAt
  <2>6. m'.nflds \in Nat /\ m'.pz \in Nat
    BY <2>5 DEF Good, WellTyped
  <2> QED
    BY <1>0, <2>1, <2>2, <2>5, <2>6 DEF GoodAt
<1>5. ASSUME NEW i \in 0..(m.nflds + 1), Del(i)
      PROVE  GoodAt(texts)'
  <2>1. m' = DelFld(m, i) /\ i \in Nat
    BY <1>5 DEF Del
  <2>2. Good(m', texts) /\ m'.nflds <= m.nflds /\ m'.pz = m.pz
    BY <2>1, DelFldGood DEF GoodAt
  <2>3. m'.nflds \in Nat
    BY <2>2 DEF Good, WellTyped
  <2> QED
    BY <1>0, <2>2, <2>3 DEF GoodAt
<1>6. CASE UNCHANGED m
  BY <1>6 DEF GoodAt
<1> QED
  BY <1>3, <1>4, <1>5, <1>6 DEF Next

(* Whatever sequence of calls the interface sees, on a message made empty  *)
(* or parsed, of any size the bounds name: the invariant behind the rest.  *)
THEOREM Invariance == Spec => []Inv
<1>1. Inv /\ [Next]_m => Inv'
  BY NextGood DEF Inv
<1> QED
  BY InitInv, <1>1, PTL DEF Spec

(* The message keeps its types, fields and widths. *)
THEOREM TypeCorrect == Spec => []TypeOK
<1>1. Inv => TypeOK
  BY DEF Inv, GoodAt, Good, TypeOK
<1> QED
  BY Invariance, <1>1, PTL

(* No call leaves more fields than the array holds, and in a block of its  *)
(* own the pr area is never smaller than __allocd_vspc() takes it for.     *)
THEOREM RoomIsThere == Spec => []Fits
<1>1. Inv => Fits
  BY DEF Inv, GoodAt, Good, Fits
<1> QED
  BY Invariance, <1>1, PTL

(* Every OFF field finds its text, and no two texts share a byte, however  *)
(* often the block was replaced and the array shifted.                     *)
THEOREM TextsSurvive == Spec => []ValuesLive
<1>1. Inv => ValuesLive
  BY DEF Inv, GoodAt, Good, ValuesLive, TextsLive
<1> QED
  BY Invariance, <1>1, PTL

-----------------------------------------------------------------------------
(* The message implements the list of FieldList *)

(* InsertAt, element by element. *)
LEMMA InsertAtIs ==
  ASSUME NEW S, NEW s \in Seq(S), NEW e \in S, NEW i \in 1..(Len(s) + 1)
  PROVE  /\ FL!InsertAt(s, i, e) \in Seq(S) /\ Len(FL!InsertAt(s, i, e)) = Len(s) + 1
         /\ \A j \in 1..(Len(s) + 1) :
              FL!InsertAt(s, i, e)[j] = IF j < i THEN s[j] ELSE IF j = i THEN e ELSE s[j - 1]
<1> DEFINE a == SubSeq(s, 1, i - 1)
           b == SubSeq(s, i, Len(s))
<1>0. Len(s) \in Nat /\ i \in Nat /\ 1 <= i /\ i <= Len(s) + 1
      /\ \A j \in 1..Len(s) : s[j] \in S
  BY LenProperties, ElementOfSeq
<1>1. a \in Seq(S) /\ Len(a) = i - 1 /\ \A j \in 1..(i - 1) : a[j] = s[j]
  <2>1. \A j \in 1..(i - 1) : s[j] \in S
    BY <1>0
  <2>2. /\ a \in Seq(S) /\ Len(a) = IF 1 <= i - 1 THEN i - 1 - 1 + 1 ELSE 0
        /\ \A j \in 1..(i - 1 - 1 + 1) : a[j] = s[1 + j - 1]
    BY <1>0, <2>1, SubSeqProperties
  <2> QED
    BY <1>0, <2>2
<1>2. b \in Seq(S) /\ Len(b) = Len(s) + 1 - i
      /\ \A j \in 1..(Len(s) + 1 - i) : b[j] = s[i + j - 1]
  <2>1. \A j \in i..Len(s) : s[j] \in S
    BY <1>0
  <2>2. /\ b \in Seq(S) /\ Len(b) = IF i <= Len(s) THEN Len(s) - i + 1 ELSE 0
        /\ \A j \in 1..(Len(s) - i + 1) : b[j] = s[i + j - 1]
    BY <1>0, <2>1, SubSeqProperties
  <2> QED
    BY <1>0, <2>2
<1> HIDE DEF a, b
<1>3. <<e>> \in Seq(S) /\ Len(<<e>>) = 1 /\ <<e>>[1] = e
  OBVIOUS
<1> DEFINE c == a \o <<e>>
<1>4. c \in Seq(S) /\ Len(c) = i
      /\ \A j \in 1..i : c[j] = IF j < i THEN s[j] ELSE e
  <2>1. /\ c \in Seq(S) /\ Len(c) = Len(a) + Len(<<e>>)
        /\ \A j \in 1..(Len(a) + Len(<<e>>)) :
             c[j] = IF j <= Len(a) THEN a[j] ELSE <<e>>[j - Len(a)]
    BY <1>1, <1>3, ConcatProperties
  <2> HIDE DEF c
  <2>2. ASSUME NEW j \in 1..i PROVE c[j] = IF j < i THEN s[j] ELSE e
    <3>1. CASE j < i
      <4>1. j \in 1..(Len(a) + Len(<<e>>)) /\ j <= Len(a) /\ j \in 1..(i - 1)
        BY <1>0, <1>1, <1>3, <3>1
      <4> QED
        BY <1>1, <2>1, <3>1, <4>1
    <3>2. CASE j = i
      <4>1. j \in 1..(Len(a) + Len(<<e>>)) /\ ~(j <= Len(a)) /\ j - Len(a) = 1
        BY <1>0, <1>1, <1>3, <3>2
      <4> QED
        BY <1>3, <2>1, <3>2, <4>1
    <3> QED
      BY <1>0, <3>1, <3>2
  <2>3. Len(c) = i
    BY <1>0, <1>1, <1>3, <2>1
  <2> QED
    BY <2>1, <2>2, <2>3
<1> HIDE DEF c
<1>5. /\ c \o b \in Seq(S) /\ Len(c \o b) = Len(s) + 1
      /\ \A j \in 1..(Len(s) + 1) : (c \o b)[j] = IF j <= i THEN c[j] ELSE b[j - i]
  <2>1. i + (Len(s) + 1 - i) = Len(s) + 1
    BY <1>0
  <2> QED
    BY <1>2, <1>4, <2>1, ConcatProperties
<1>6. ASSUME NEW j \in 1..(Len(s) + 1)
      PROVE  (c \o b)[j] = IF j < i THEN s[j] ELSE IF j = i THEN e ELSE s[j - 1]
  <2>1. CASE j <= i
    BY <1>0, <1>4, <1>5, <2>1
  <2>2. CASE i < j
    <3>1. j - i \in 1..(Len(s) + 1 - i) /\ i + (j - i) - 1 = j - 1
      BY <1>0, <2>2
    <3> QED
      BY <1>0, <1>2, <1>5, <2>2, <3>1
  <2>3. j <= i \/ i < j
    BY <1>0
  <2> QED
    BY <2>1, <2>2, <2>3
<1> QED
  BY <1>5, <1>6 DEF FL!InsertAt, a, b, c

-----------------------------------------------------------------------------
(* What a message shows *)

Shows(msg, fld) ==
  [tag |-> fld.tag, val |-> IF fld.typ = "OFF" THEN msg.pr[fld.u] ELSE fld.u]

Shown(msg) == [i \in 1..msg.nflds |-> Shows(msg, msg.flds[i - 1])]

LEMMA ContentsShown == Contents = Shown(m)
  BY DEF Contents, Denote, Shown, Shows

LEMMA ShowsEntry ==
  ASSUME NEW msg, Good(msg, "live"), NEW fld \in Fld, fld.typ = "OFF" => fld.u \in DOMAIN msg.pr
  PROVE  Shows(msg, fld) \in FL!Entry
<1>1. fld.tag \in Nat /\ fld.u \in Int
  <2>1. Half \subseteq Nat
    BY Halves
  <2> QED
    BY <2>1 DEF Fld
<1>2. fld.typ = "OFF" => msg.pr[fld.u] \in Strs
  BY DEF Good, WellTyped
<1>3. FL!Entry = [tag : Nat, val : Strs \union Int]
  BY DEF FL!Entry
<1> QED
  BY <1>1, <1>2, <1>3 DEF Shows

LEMMA ShownSeq ==
  ASSUME NEW msg, Good(msg, "live")
  PROVE  /\ Shown(msg) \in Seq(FL!Entry) /\ Len(Shown(msg)) = msg.nflds
         /\ \A i \in 1..msg.nflds : Shown(msg)[i] = Shows(msg, msg.flds[i - 1])
<1>0. msg.nflds \in Nat /\ msg.flds \in [0..(msg.nflds - 1) -> Fld]
  BY DEF Good, WellTyped
<1>1. ASSUME NEW i \in 1..msg.nflds PROVE Shows(msg, msg.flds[i - 1]) \in FL!Entry
  <2>1. i - 1 \in 0..(msg.nflds - 1)
    BY <1>0
  <2>2. msg.flds[i - 1] \in Fld
    BY <1>0, <2>1
  <2>3. msg.flds[i - 1].typ = "OFF" => msg.flds[i - 1].u \in DOMAIN msg.pr
    BY <2>1 DEF Good, TextsLive, TextsFound, TextsApart
  <2> QED
    BY <2>2, <2>3, ShowsEntry
<1>2. Shown(msg) \in [1..msg.nflds -> FL!Entry]
  BY <1>1 DEF Shown
<1>3. Shown(msg) \in Seq(FL!Entry)
  BY <1>0, <1>2, SeqDef
<1>4. Len(Shown(msg)) = msg.nflds
  BY <1>0, <1>2, <1>3, LenProperties
<1> QED
  BY <1>3, <1>4 DEF Shown

(* No text that msg holds is lost in r. *)
KeepsTexts(msg, r) == \A k \in DOMAIN msg.pr : k \in DOMAIN r.pr /\ r.pr[k] = msg.pr[k]

(* Fields and texts are all that a message shows. *)
LEMMA SameShown ==
  ASSUME NEW msg, Good(msg, "live"), NEW r, KeepsTexts(msg, r),
         r.nflds = msg.nflds, r.flds = msg.flds
  PROVE  Shown(r) = Shown(msg)
<1>0. msg.nflds \in Nat
  BY DEF Good, WellTyped
<1>1. ASSUME NEW i \in 1..msg.nflds
      PROVE  Shows(r, msg.flds[i - 1]) = Shows(msg, msg.flds[i - 1])
  <2>1. i - 1 \in 0..(msg.nflds - 1)
    BY <1>0
  <2>2. msg.flds[i - 1].typ = "OFF" => msg.flds[i - 1].u \in DOMAIN msg.pr
    BY <2>1 DEF Good, TextsLive, TextsFound, TextsApart
  <2> QED
    BY <2>2 DEF Shows, KeepsTexts
<1> QED
  BY <1>1 DEF Shown

(* A new block holds what the old one held. *)
LEMMA CheckSizeShown ==
  ASSUME NEW msg, Good(msg, "live"), NEW addf, NEW addv
  PROVE  LET r == CheckSize(msg, addf, addv)
         IN  KeepsTexts(msg, r) /\ Shown(r) = Shown(msg)
<1> DEFINE r == CheckSize(msg, addf, addv)
           pr == FirstBytes(msg.pr, msg.pz)
<1>1. KeepsTexts(msg, r) /\ r.nflds = msg.nflds /\ r.flds = msg.flds
  <2>1. CASE HasRoom(msg, addf, addv)
    BY <2>1 DEF CheckSize, KeepsTexts
  <2>2. CASE ~HasRoom(msg, addf, addv)
    <3>1. pr = [k \in DOMAIN msg.pr |-> msg.pr[k]]
      BY DEF FirstBytes, Good, TextsLive, TextsFound, TextsApart
    <3> HIDE DEF pr
    <3>2. r.pr = pr /\ r.nflds = msg.nflds /\ r.flds = msg.flds
      BY <2>2 DEF CheckSize, pr, Good, WellTyped
    <3> HIDE DEF r
    <3> QED
      BY <3>1, <3>2 DEF KeepsTexts
  <2> QED
    BY <2>1, <2>2
<1> HIDE DEF r
<1> QED
  BY <1>1, SameShown DEF r

(* Moving the fields up inserts the entry of the new one and keeps all     *)
(* others and their order.                                                 *)
LEMMA PlaceShown ==
  ASSUME NEW msg, Good(msg, "live"), NEW fld \in Fld,
         fld.typ = "OFF" => fld.u \in DOMAIN msg.pr, NEW idx \in 0..msg.nflds
  PROVE  Shown(Place(msg, fld, idx)) = FL!InsertAt(Shown(msg), idx + 1, Shows(msg, fld))
<1> DEFINE s == Shown(msg)
           e == Shows(msg, fld)
           r == Place(msg, fld, idx)
           g == [i \in 0..msg.nflds |->
                   IF i < idx THEN msg.flds[i]
                   ELSE IF i = idx THEN fld ELSE msg.flds[i - 1]]
<1>0. msg.nflds \in Nat /\ idx \in Nat /\ idx <= msg.nflds
  BY DEF Good, WellTyped
<1>1. /\ s \in Seq(FL!Entry) /\ Len(s) = msg.nflds
      /\ \A i \in 1..msg.nflds : s[i] = Shows(msg, msg.flds[i - 1])
  BY ShownSeq
<1>2. e \in FL!Entry
  BY ShowsEntry
<1>3. r.nflds = msg.nflds + 1 /\ r.flds = g /\ r.pr = msg.pr
  BY DEF Place, Good, WellTyped
<1> HIDE DEF s, e, r
<1> DEFINE n == idx + 1
<1>4. /\ FL!InsertAt(s, n, e) \in Seq(FL!Entry) /\ Len(FL!InsertAt(s, n, e)) = msg.nflds + 1
      /\ \A j \in 1..(msg.nflds + 1) :
           FL!InsertAt(s, n, e)[j] = IF j < n THEN s[j] ELSE IF j = n THEN e ELSE s[j - 1]
  <2>1. n \in 1..(Len(s) + 1)
    BY <1>0, <1>1
  <2> HIDE DEF g, n
  <2>2. s \in Seq(FL!Entry)
    BY <1>1
  <2>3. FL!InsertAt(s, n, e) \in Seq(FL!Entry) /\ Len(FL!InsertAt(s, n, e)) = Len(s) + 1
    BY <1>2, <2>1, <2>2, InsertAtIs
  <2>4. ASSUME NEW j \in 1..(Len(s) + 1)
        PROVE  FL!InsertAt(s, n, e)[j] = IF j < n THEN s[j] ELSE IF j = n THEN e ELSE s[j - 1]
    BY <1>2, <2>1, <2>2, InsertAtIs
  <2> QED
    BY <1>1, <2>3, <2>4
<1>5. \A f : Shows(r, f) = Shows(msg, f)
  BY <1>3 DEF Shows
<1>6. ASSUME NEW j \in 1..(msg.nflds + 1)
      PROVE  Shows(r, g[j - 1]) = FL!InsertAt(s, n, e)[j]
  <2>0. j - 1 \in 0..msg.nflds /\ j \in Nat
    BY <1>0
  <2>1. CASE j < idx + 1
    <3>1. j \in 1..msg.nflds /\ j - 1 < idx
      BY <1>0, <2>0, <2>1
    <3> QED
      BY <1>1, <1>4, <1>5, <2>0, <2>1, <3>1
  <2>2. CASE j = idx + 1
    <3>1. j - 1 = idx /\ ~(j - 1 < idx)
      BY <1>0, <2>2
    <3> QED
      BY <1>4, <1>5, <2>0, <2>2, <3>1 DEF e
  <2>3. CASE idx + 1 < j
    <3>1. j - 1 \in 1..msg.nflds /\ ~(j - 1 < idx) /\ j - 1 # idx /\ ~(j < idx + 1)
      BY <1>0, <2>0, <2>3
    <3> QED
      BY <1>1, <1>4, <1>5, <2>0, <2>3, <3>1
  <2>4. j < idx + 1 \/ j = idx + 1 \/ idx + 1 < j
    BY <1>0, <2>0
  <2> QED
    BY <2>1, <2>2, <2>3, <2>4
<1>7. Shown(r) = [j \in 1..(msg.nflds + 1) |-> Shows(r, g[j - 1])]
  BY <1>3 DEF Shown
<1> HIDE DEF g, n
<1>8. FL!InsertAt(s, n, e) = [j \in 1..(msg.nflds + 1) |-> FL!InsertAt(s, n, e)[j]]
  BY <1>4, LenProperties
<1> QED
  BY <1>6, <1>7, <1>8 DEF s, e, r, n

(* A text stored at pz leaves all others where they are. *)
LEMMA StoreStrShown ==
  ASSUME NEW msg, Good(msg, "live"), NEW s \in Strs
  PROVE  LET r == StoreStr(msg, s)
         IN  /\ KeepsTexts(msg, r) /\ Shown(r) = Shown(msg)
             /\ r.pr[msg.pz] = s
<1> DEFINE pr == PutStr(msg.pr, msg.pz, s)
           r  == StoreStr(msg, s)
<1>0. /\ msg.pz \in Nat /\ Size[s] \in Nat
      /\ \A k \in DOMAIN msg.pr : k \in Nat /\ msg.pr[k] \in Strs /\ Size[msg.pr[k]] \in Nat
  BY TextAssumption DEF Good, WellTyped
<1>1. \A k \in DOMAIN msg.pr : ~Overlap(msg.pz, s, k, msg.pr[k]) /\ k # msg.pz
  BY <1>0 DEF Good, TextsLive, TextsFound, TextsApart, Overlap
<1>2. pr = [k \in DOMAIN msg.pr \union {msg.pz} |-> IF k = msg.pz THEN s ELSE msg.pr[k]]
  BY <1>1 DEF PutStr
<1>3. r.pr = pr /\ r.nflds = msg.nflds /\ r.flds = msg.flds
  BY DEF StoreStr, Good, WellTyped
<1> HIDE DEF pr, r
<1>4. KeepsTexts(msg, r) /\ r.pr[msg.pz] = s
  BY <1>1, <1>2, <1>3 DEF KeepsTexts
<1> QED
  BY <1>3, <1>4, SameShown DEF r

LEMMA InsertFldShown ==
  ASSUME NEW msg, Good(msg, "live"), NEW top \in Pow2, Headroom(msg, 1, 0, top),
         NEW fld \in Fld, fld.typ # "OFF", NEW idx \in 0..msg.nflds
  PROVE  Shown(InsertFld(msg, fld, idx)) = FL!InsertAt(Shown(msg), idx + 1, Shows(msg, fld))
<1> DEFINE c == CheckSize(msg, 1, 0)
<1>1. Good(c, "live") /\ c.nflds = msg.nflds
  BY CheckSizeGood
<1>2. Shown(c) = Shown(msg)
  BY CheckSizeShown
<1>3. Shows(c, fld) = Shows(msg, fld)
  BY DEF Shows
<1> HIDE DEF c
<1>4. Shown(Place(c, fld, idx)) = FL!InsertAt(Shown(c), idx + 1, Shows(c, fld))
  BY <1>1, PlaceShown
<1> QED
  BY <1>2, <1>3, <1>4 DEF InsertFld, c

LEMMA InsertStrShown ==
  ASSUME NEW msg, Good(msg, "live"), NEW s \in Strs, NEW top \in Pow2,
         Headroom(msg, 1, Size[s] + 1, top),
         NEW tag \in Half, NEW idx \in 0..msg.nflds
  PROVE  /\ Shown(InsertStr(msg, tag, s, idx))
              = FL!InsertAt(Shown(msg), idx + 1, [tag |-> tag, val |-> s])
         /\ InsertStr(msg, tag, s, idx).f35 = msg.f35
<1> DEFINE c == CheckSize(msg, 1, Size[s] + 1)
           t == StoreStr(c, s)
           f == [tag |-> tag, typ |-> "OFF", tpc |-> 0, cnt |-> 0, u |-> c.pz]
<1>0. msg.nflds \in Nat /\ msg.pz \in Nat /\ Size[s] + 1 \in Nat /\ Size[s] \in Nat
  BY TextAssumption DEF Good, WellTyped
<1>1. /\ Good(c, "live") /\ c.store # "none" /\ msg.nflds + 1 <= c.fspc
      /\ c.nflds = msg.nflds /\ c.pz = msg.pz /\ c.f35 = msg.f35
      /\ c.store = "heap" => NextPow2(msg.pz + (Size[s] + 1) + 1) <= c.vspc
  BY <1>0, CheckSizeGood
<1>2. c.store = "heap" => NextPow2(c.pz + Size[s] + 2) <= c.vspc
  <2>1. msg.pz + (Size[s] + 1) + 1 = c.pz + Size[s] + 2
    BY <1>0, <1>1
  <2> QED
    BY <1>1, <2>1
<1>3. Shown(c) = Shown(msg)
  BY CheckSizeShown
<1> HIDE DEF c
<1>4. /\ Good(t, "live") /\ c.pz \in DOMAIN t.pr /\ t.nflds = c.nflds /\ t.f35 = c.f35
      /\ t.store # "none" /\ t.fspc = c.fspc
  BY <1>1, <1>2, StoreStrGood
<1>5. Shown(t) = Shown(c) /\ t.pr[c.pz] = s
  BY <1>1, StoreStrShown
<1>6. f \in Fld /\ f.tag = tag /\ f.typ = "OFF" /\ f.u = c.pz
  <2>1. c.pz \in Nat /\ 0 \in Half /\ "OFF" \in Typ
    BY <1>0, <1>1, Halves, Kinds
  <2> QED
    BY <2>1 DEF Fld
<1> HIDE DEF f, t
<1>7. idx \in 0..t.nflds /\ f.u \in DOMAIN t.pr /\ t.nflds + 1 <= t.fspc
  BY <1>1, <1>4, <1>6
<1>8. Shown(Place(t, f, idx)) = FL!InsertAt(Shown(t), idx + 1, Shows(t, f))
  BY <1>4, <1>6, <1>7, PlaceShown
<1>9. Shows(t, f) = [tag |-> tag, val |-> s]
  BY <1>5, <1>6 DEF Shows
<1>10. Place(t, f, idx).f35 = t.f35
  BY <1>4, <1>6, <1>7, PlaceGood
<1> QED
  BY <1>1, <1>3, <1>4, <1>5, <1>8, <1>9, <1>10 DEF InsertStr, c, f, t

(* The type that makes way for a second one comes to the front. *)
LEMMA PromoteShown ==
  ASSUME NEW msg, Good(msg, "live"), Typed(msg), NEW top \in Pow2, Headroom(msg, 1, 0, top)
  PROVE  Shown(Promote(msg)) = <<[tag |-> MSG_TYPE, val |-> msg.f35.u]>> \o Shown(msg)
<1> DEFINE slot35 == [msg.f35 EXCEPT !.tpc = 0, !.cnt = 0, !.u = MSGT_BATCH]
           b == [msg EXCEPT !.f35 = slot35]
           f == [msg.f35 EXCEPT !.cnt = 0, !.tpc = MSGT_BATCH]
           e == [tag |-> MSG_TYPE, val |-> msg.f35.u]
<1>0. msg.f35 \in Fld /\ msg.f35.typ # "OFF" /\ msg.f35.tag = MSG_TYPE
  BY DEF Good, WellTyped
<1>1. 0 \in Half /\ MSGT_BATCH \in Half /\ MSGT_BATCH \in Int
  BY Halves
<1>2. /\ slot35 \in Fld /\ slot35.tag = MSG_TYPE /\ slot35.typ # "OFF"
      /\ f \in Fld /\ f.tag = MSG_TYPE /\ f.typ # "OFF" /\ f.u = msg.f35.u
  BY <1>0, <1>1 DEF Fld
<1> HIDE DEF slot35
<1>3. Good(b, "live") /\ b.nflds = msg.nflds /\ b.pz = msg.pz
  BY <1>2, TypeSlotGood
<1>4. b.flds = msg.flds /\ b.pr = msg.pr
  BY DEF Good, WellTyped
<1> HIDE DEF b, f
<1>5. Headroom(b, 1, 0, top) /\ 0 \in 0..b.nflds
  BY <1>3 DEF Good, WellTyped, Headroom, AllocdVspc
<1>6. Shown(InsertFld(b, f, 0)) = FL!InsertAt(Shown(b), 0 + 1, Shows(b, f))
  BY <1>2, <1>3, <1>5, InsertFldShown
<1>7. Shown(b) = Shown(msg)
  BY <1>3, <1>4 DEF Shown, Shows
<1>8. Shows(b, f) = e
  BY <1>2 DEF Shows
<1> DEFINE s == Shown(msg)
<1>9. s \in Seq(FL!Entry) /\ Len(s) \in Nat /\ e \in FL!Entry
  <2>1. MSG_TYPE \in Nat /\ msg.f35.u \in Int
    BY <1>0 DEF MSG_TYPE, Fld
  <2> QED
    BY <2>1, ShownSeq, LenProperties DEF FL!Entry
<1> HIDE DEF s, e
<1>10. FL!InsertAt(s, 1, e) = <<e>> \o s
  <2>1. SubSeq(s, 1, 1 - 1) = << >>
    BY <1>9, SubSeqEmpty
  <2>2. SubSeq(s, 1, Len(s)) = s
    BY <1>9, SubSeqFull
  <2>3. <<e>> \in Seq(FL!Entry)
    BY <1>9
  <2>4. << >> \o <<e>> = <<e>>
    BY <2>3, ConcatEmptySeq
  <2> QED
    BY <2>1, <2>2, <2>4 DEF FL!InsertAt
<1>11. Promote(msg) = InsertFld(b, f, 0)
  BY DEF Promote, b, f, slot35
<1>12. Shown(Promote(msg)) = FL!InsertAt(s, 1, e)
  <2>1. 0 + 1 = 1
    OBVIOUS
  <2> QED
    BY <1>6, <1>7, <1>8, <1>11, <2>1 DEF s
<1> QED
  BY <1>10, <1>12 DEF s, e

-----------------------------------------------------------------------------
(* Every call is a step of the list. *)

LEMMA Asked ==
  ASSUME NEW op, NEW tag, NEW val, NEW idx, NEW ref \in BOOLEAN, NEW refused \in BOOLEAN,
         call' = Call(op, tag, val, idx, ref, refused)
  PROVE  /\ FL!c.op = op /\ FL!c.ent = [tag |-> tag, val |-> val] /\ FL!c.at = idx
         /\ FL!c.ent.tag = tag /\ FL!c.ent.val = val
         /\ FL!c.ref = ref /\ FL!c.ret = IF refused THEN -1 ELSE 0
BY DEF Call, FL!c

(* An entry enters the list of a message, which may have moved its type    *)
(* there before.                                                           *)
LEMMA InsertStep ==
  ASSUME Good(m, "live"), NEW top \in Pow2, Headroom(m, 1, 0, top),
         NEW tag, NEW e, NEW idx \in 0..m.nflds,
         FL!Accepted, FL!c.ent = e, FL!c.at = idx, e.tag = tag,
         ~(tag = MSG_TYPE /\ m.f35.u = MSGT_UNK),
         Shown(m') = FL!InsertAt(Shown(PromoteIfType(m, tag)), idx + 1, e),
         m'.f35 = PromoteIfType(m, tag).f35
  PROVE  FL!Next
<1>1. Contents = Shown(m) /\ Contents' = Shown(m')
  BY ContentsShown DEF Contents, Denote, Shown, Shows
<1>2. CASE tag = MSG_TYPE /\ Typed(m)
  <2>1. Shown(Promote(m)) = <<[tag |-> MSG_TYPE, val |-> m.f35.u]>> \o Shown(m)
    BY <1>2, PromoteShown
  <2>2. Promote(m).f35.u = MSGT_BATCH
    BY <1>2, PromoteGood
  <2>3. PromoteIfType(m, tag) = Promote(m)
    BY <1>2 DEF PromoteIfType
  <2>4. FL!BecomeBatch
    BY <1>1, <1>2, <2>1, <2>2, <2>3 DEF FL!BecomeBatch, FL!IsType, Typed
  <2> QED
    BY <2>4 DEF FL!Next
<1>3. CASE ~(tag = MSG_TYPE /\ Typed(m))
  <2>1. PromoteIfType(m, tag) = m
    BY <1>3 DEF PromoteIfType
  <2>2. tag = MSG_TYPE => m.f35.u = MSGT_BATCH
    BY <1>3 DEF Typed
  <2>3. FL!Insert
    BY <1>1, <2>1, <2>2 DEF FL!Insert, FL!IsType
  <2> QED
    BY <2>3 DEF FL!Next
<1> QED
  BY <1>2, <1>3

(* A value enters the type slot. *)
LEMMA SetTypeStep ==
  ASSUME m.f35.u = MSGT_UNK, NEW f, Good(m, "live"), m' = [m EXCEPT !.f35 = f],
         FL!Accepted, FL!c.ent.tag = MSG_TYPE,
         f.u = IF FL!c.op = "tag" THEN TypeOfStr(FL!c.ent.val) ELSE FL!c.ent.val
  PROVE  FL!Next
<1>1. m'.f35 = f /\ m'.nflds = m.nflds /\ m'.flds = m.flds /\ m'.pr = m.pr
  BY DEF Good, WellTyped
<1>2. Contents' = Contents
  BY <1>1 DEF Contents, Denote
<1>3. FL!SetType
  BY <1>1, <1>2 DEF FL!SetType, FL!IsType
<1> QED
  BY <1>3 DEF FL!Next

(* The list is as long as the array is full. *)
LEMMA ListLen == Good(m, "live") => m.nflds \in Nat /\ Len(Contents) = m.nflds
  BY ContentsShown, ShownSeq DEF Good, WellTyped

LEMMA AddFldStep ==
  ASSUME Good(m, "live"), NEW fld \in Fld, NEW idx \in Nat, NEW top \in Pow2, Within(m, 0, top),
         m' = AddFldAt(m, fld, idx),
         call' = Call("fld", fld.tag, fld.u, idx, fld.typ = "OFF", FldRefused(m, fld, idx))
  PROVE  FL!Next
<1> DEFINE no == FldRefused(m, fld, idx)
           ref == fld.typ = "OFF"
<1>0. m.nflds \in Nat /\ Len(Contents) = m.nflds
  BY ListLen
<1>1. ref \in BOOLEAN /\ no \in BOOLEAN
  BY DEF FldRefused
<1>2. /\ FL!c.op = "fld" /\ FL!c.ent = [tag |-> fld.tag, val |-> fld.u] /\ FL!c.at = idx
      /\ FL!c.ent.tag = fld.tag /\ FL!c.ent.val = fld.u
      /\ FL!c.ref = (fld.typ = "OFF") /\ FL!c.ret = IF no THEN -1 ELSE 0
  BY DEF Call, FL!c
<1>3. FL!Refused <=> no
  BY <1>0, <1>2 DEF FL!Refused, FL!Nowhere, FldRefused, TAG_UNK
<1>4. FL!Adds
  BY <1>2 DEF FL!Adds
<1>5. CASE no
  <2>1. m' = m
    BY <1>5 DEF AddFldAt
  <2>2. FL!Refuse
    BY <1>2, <1>3, <1>4, <1>5, <2>1 DEF FL!Refuse, Contents, Denote
  <2> QED
    BY <2>2 DEF FL!Next
<1>6. CASE ~no
  <2>1. CASE fld.tag \in SlotTags
    <3>0. fld.tag # MSG_TYPE
      BY <2>1 DEF SlotTags, MSG_TYPE, BEGIN_STRING, BODY_LENGTH, CHECK_SUM
    <3>1. m' = [m EXCEPT !.slot[fld.tag] = fld]
      BY <1>6, <2>1, <3>0 DEF AddFldAt
    <3>2. m'.f35 = m.f35 /\ m'.nflds = m.nflds /\ m'.flds = m.flds /\ m'.pr = m.pr
      BY <3>1 DEF Good, WellTyped
    <3>3. Contents' = Contents /\ (m.f35.u)' = m.f35.u
      BY <3>2 DEF Contents, Denote
    <3>4. FL!SetSlot
      BY <1>2, <1>3, <1>6, <2>1, <3>3 DEF FL!SetSlot
    <3> QED
      BY <3>4 DEF FL!Next
  <2>2. CASE fld.tag \notin SlotTags
    <3>0. FL!Accepted
      BY <1>2, <1>3, <1>4, <1>6, <2>2 DEF FL!Accepted
    <3>1. CASE fld.tag = MSG_TYPE /\ m.f35.u = MSGT_UNK
      <4>1. m' = [m EXCEPT !.f35 = fld]
        BY <1>6, <2>2, <3>1 DEF AddFldAt
      <4> QED
        BY <1>2, <3>0, <3>1, <4>1, SetTypeStep
    <3>2. CASE ~(fld.tag = MSG_TYPE /\ m.f35.u = MSGT_UNK)
      <4> DEFINE p == PromoteIfType(m, fld.tag)
      <4>1. m' = InsertFld(p, fld, idx)
        BY <1>6, <2>2, <3>2 DEF AddFldAt
      <4>2. /\ Good(p, "live") /\ Headroom(p, 1, 0, top) /\ m.nflds <= p.nflds
            /\ Headroom(m, 1, 0, top)
        <5>1. Good(p, "live") /\ Headroom(p, 1, 0, top) /\ m.nflds <= p.nflds
          BY PromoteIfTypeGood
        <5>2. AllocdVspc(m) + 0 + 1 <= top /\ m.pz + 1 <= top /\ m.nflds + 2 <= top
          BY DEF Within
        <5>3. m.nflds + 1 <= top
          BY <1>0, <5>2, Pow2Nat
        <5> QED
          BY <5>1, <5>2, <5>3 DEF Headroom
      <4> HIDE DEF p
      <4>3. idx <= m.nflds /\ fld.typ # "OFF"
        BY <1>0, <1>6 DEF FldRefused
      <4>4. idx \in 0..m.nflds /\ idx \in 0..p.nflds
        BY <1>0, <4>2, <4>3 DEF Good, WellTyped
      <4>5. Shown(m') = FL!InsertAt(Shown(p), idx + 1, Shows(p, fld))
        BY <4>1, <4>2, <4>3, <4>4, InsertFldShown
      <4>6. m'.f35 = p.f35
        BY <4>1, <4>2, <4>3, <4>4, InsertFldGood
      <4>7. Shows(p, fld) = [tag |-> fld.tag, val |-> fld.u]
        BY <4>3 DEF Shows
      <4> QED
        BY <1>2, <3>0, <3>2, <4>2, <4>4, <4>5, <4>6, <4>7, InsertStep DEF p
    <3> QED
      BY <3>1, <3>2
  <2> QED
    BY <2>1, <2>2
<1> QED
  BY <1>5, <1>6

LEMMA AddTagStep ==
  ASSUME Good(m, "live"), NEW tag \in Half, NEW s \in Strs, NEW idx \in Nat,
         NEW top \in Pow2, Within(m, Size[s] + 1, top),
         m' = AddTagAt(m, tag, s, idx),
         call' = Call("tag", tag, s, idx, FALSE, TagRefused(m, tag, idx))
  PROVE  FL!Next
<1> DEFINE no == TagRefused(m, tag, idx)
<1>0. /\ m.nflds \in Nat /\ Len(Contents) = m.nflds
      /\ Size[s] \in Nat /\ Size[s] + 1 \in Nat
  BY TextAssumption, ListLen
<1>1. no \in BOOLEAN
  BY DEF TagRefused
<1>2. /\ FL!c.op = "tag" /\ FL!c.ent = [tag |-> tag, val |-> s] /\ FL!c.at = idx
      /\ FL!c.ent.tag = tag /\ FL!c.ent.val = s
      /\ FL!c.ref = FALSE /\ FL!c.ret = IF no THEN -1 ELSE 0
  BY <1>1, Asked
<1>3. FL!Refused <=> no
  BY <1>0, <1>2 DEF FL!Refused, FL!Nowhere, TagRefused, TAG_UNK
<1>4. FL!Adds
  BY <1>2 DEF FL!Adds
<1>5. CASE no
  <2>1. ~(idx <= m.nflds /\ tag = MSG_TYPE /\ m.f35.u = MSGT_UNK)
    BY <1>0, <1>5
       DEF TagRefused, SlotTags, MSG_TYPE, BEGIN_STRING, BODY_LENGTH, CHECK_SUM, TAG_UNK
  <2>2. m' = m
    BY <1>5, <2>1 DEF AddTagAt
  <2>3. FL!Refuse
    BY <1>2, <1>3, <1>4, <1>5, <2>2 DEF FL!Refuse, Contents, Denote
  <2> QED
    BY <2>3 DEF FL!Next
<1>6. CASE ~no
  <2>0. idx <= m.nflds /\ tag \notin SlotTags
    BY <1>0, <1>6 DEF TagRefused
  <2>1. FL!Accepted
    BY <1>2, <1>3, <1>4, <1>6, <2>0 DEF FL!Accepted
  <2>2. CASE tag = MSG_TYPE /\ m.f35.u = MSGT_UNK
    <3> DEFINE f == [tag |-> MSG_TYPE, typ |-> "MSGTYP", tpc |-> 0, cnt |-> 0,
                     u |-> TypeOfStr(s)]
    <3>1. m' = SetType(m, s)
      BY <1>6, <2>0, <2>2 DEF AddTagAt
    <3>2. m' = [m EXCEPT !.f35 = f]
      BY <3>1 DEF SetType, Good, WellTyped
    <3>3. f.u = TypeOfStr(s)
      OBVIOUS
    <3> HIDE DEF f
    <3> QED
      BY <1>2, <2>1, <2>2, <3>2, <3>3, SetTypeStep
  <2>3. CASE ~(tag = MSG_TYPE /\ m.f35.u = MSGT_UNK)
    <3> DEFINE p == PromoteIfType(m, tag)
               e == [tag |-> tag, val |-> s]
    <3>1. m' = InsertStr(p, tag, s, idx)
      BY <1>6, <2>3 DEF AddTagAt
    <3>2. /\ Good(p, "live") /\ Headroom(p, 1, Size[s] + 1, top) /\ m.nflds <= p.nflds
          /\ Headroom(m, 1, 0, top)
      <4>1. Good(p, "live") /\ Headroom(p, 1, Size[s] + 1, top) /\ m.nflds <= p.nflds
        BY <1>0, PromoteIfTypeGood
      <4>2. AllocdVspc(m) + (Size[s] + 1) + 1 <= top /\ m.pz + 1 <= top /\ m.nflds + 2 <= top
        BY DEF Within
      <4>3. m.nflds + 1 <= top
        BY <1>0, <4>2, Pow2Nat
      <4>4. AllocdVspc(m) \in Nat
        <5>1. m.pz + 1 \in Nat \ {0}
          BY DEF Good, WellTyped
        <5> QED
          BY <4>2, <5>1, NextPow2Least, Pow2Nat DEF AllocdVspc
      <4>5. AllocdVspc(m) + 0 + 1 <= top
        BY <1>0, <4>2, <4>4, Pow2Nat
      <4> QED
        BY <4>1, <4>2, <4>3, <4>5 DEF Headroom
    <3> HIDE DEF p
    <3>3. idx \in 0..m.nflds /\ idx \in 0..p.nflds
      BY <1>0, <2>0, <3>2 DEF Good, WellTyped
    <3>4. Shown(m') = FL!InsertAt(Shown(p), idx + 1, e) /\ m'.f35 = p.f35
      BY <3>1, <3>2, <3>3, InsertStrShown
    <3>5. e.tag = tag /\ FL!c.ent = e
      BY <1>2
    <3> HIDE DEF e
    <3> QED
      BY <1>2, <2>1, <2>3, <3>2, <3>3, <3>4, <3>5, InsertStep DEF p
  <2> QED
    BY <2>2, <2>3
<1> QED
  BY <1>5, <1>6

LEMMA DelStep ==
  ASSUME Good(m, "live"), NEW n \in Nat, m' = DelFld(m, n),
         call' = Call("del", TAG_UNK, 0, n, FALSE, FALSE)
  PROVE  FL!Next
<1> DEFINE s == Shown(m)
<1>c. FL!c.op = "del" /\ FL!c.at = n
  BY Asked
<1>0. m.nflds \in Nat /\ m.flds \in [0..(m.nflds - 1) -> Fld] /\ Contents = s
      /\ Contents' = Shown(m')
  BY ContentsShown DEF Good, WellTyped, Contents, Denote, Shown, Shows
<1>1. /\ s \in Seq(FL!Entry) /\ Len(s) = m.nflds
      /\ \A i \in 1..m.nflds : s[i] = Shows(m, m.flds[i - 1])
  BY ShownSeq
<1> HIDE DEF s
<1>2. CASE n >= m.nflds
  <2>1. n + 1 # m.nflds
    BY <1>0, <1>2
  <2>2. m' = m
    BY <1>2, <2>1 DEF DelFld
  <2>3. FL!Delete
    BY <1>c, <1>0, <1>1, <1>2, <2>2 DEF FL!Delete, Contents, Denote
  <2> QED
    BY <2>3 DEF FL!Next
<1>3. CASE n + 1 = m.nflds
  <2> DEFINE g == [i \in 0..(n - 1) |-> m.flds[i]]
  <2>1. m'.nflds = n /\ m'.flds = g /\ m'.pr = m.pr /\ m'.f35 = m.f35
    <3>1. ~(n >= m.nflds)
      BY <1>0, <1>3
    <3>2. m' = [m EXCEPT !.nflds = n, !.flds = g]
      BY <1>3, <3>1 DEF DelFld
    <3> HIDE DEF g
    <3> QED
      BY <3>2 DEF Good, WellTyped
  <2>2. ASSUME NEW i \in 1..n PROVE Shows(m', g[i - 1]) = s[i]
    <3>1. i - 1 \in 0..(n - 1) /\ i \in 1..m.nflds
      BY <1>0, <1>3
    <3> QED
      BY <1>1, <2>1, <3>1 DEF Shows
  <2> HIDE DEF g
  <2>3. Shown(m') = [i \in 1..n |-> s[i]]
    BY <2>1, <2>2 DEF Shown
  <2>4. SubSeq(s, 1, n) = [i \in 1..n |-> s[i]]
    <3>1. \A i \in 1..n : s[i] \in FL!Entry
      BY <1>0, <1>1, <1>3, ElementOfSeq
    <3>2. /\ SubSeq(s, 1, n) \in Seq(FL!Entry)
          /\ Len(SubSeq(s, 1, n)) = IF 1 <= n THEN n - 1 + 1 ELSE 0
          /\ \A i \in 1..(n - 1 + 1) : SubSeq(s, 1, n)[i] = s[1 + i - 1]
      BY <3>1, SubSeqProperties
    <3>3. Len(SubSeq(s, 1, n)) = n /\ \A i \in 1..n : SubSeq(s, 1, n)[i] = s[i]
      BY <3>2
    <3>4. SubSeq(s, 1, n) = [i \in 1..n |-> SubSeq(s, 1, n)[i]]
      BY <3>2, <3>3, LenProperties
    <3> QED
      BY <3>3, <3>4
  <2>5. Contents' = FL!Front(Contents)
    <3>1. Len(s) - 1 = n
      BY <1>0, <1>1, <1>3
    <3> QED
      BY <1>0, <2>3, <2>4, <3>1 DEF FL!Front
  <2>6. ~(n >= Len(Contents)) /\ n + 1 = Len(Contents)
    BY <1>0, <1>1, <1>3
  <2>7. FL!Delete
    BY <1>c, <2>1, <2>5, <2>6 DEF FL!Delete
  <2> QED
    BY <2>7 DEF FL!Next
<1>4. CASE n < m.nflds /\ n + 1 # m.nflds
  <2> DEFINE g == [m.flds EXCEPT ![n].tag = TAG_UNK]
  <2>1. n \in 0..(m.nflds - 1) /\ ~(n >= m.nflds) /\ n + 1 \in 1..(m.nflds - 1)
    BY <1>0, <1>4
  <2>2. m'.nflds = m.nflds /\ m'.flds = g /\ m'.pr = m.pr /\ m'.f35 = m.f35
    BY <1>4, <2>1 DEF DelFld, Good, WellTyped
  <2>3. m.flds[n] \in Fld
    BY <1>0, <2>1
  <2>4. ASSUME NEW i \in 1..m.nflds
        PROVE  Shows(m', g[i - 1]) = [s EXCEPT ![n + 1].tag = 0][i]
    <3>1. i - 1 \in 0..(m.nflds - 1) /\ n + 1 \in 1..m.nflds
      BY <1>0, <2>1
    <3>2. s \in [1..m.nflds -> FL!Entry]
      BY <1>1, LenProperties
    <3>3. CASE i = n + 1
      <4>1. i - 1 = n
        BY <2>1, <3>3
      <4>2. g[i - 1] = [m.flds[n] EXCEPT !.tag = TAG_UNK]
        BY <1>0, <2>1, <4>1
      <4>3. [s EXCEPT ![n + 1].tag = 0][i] = [s[i] EXCEPT !.tag = 0]
        BY <3>1, <3>2, <3>3
      <4>4. s[i] = Shows(m, m.flds[n])
        BY <1>1, <4>1
      <4>5. g[i - 1].tag = 0 /\ g[i - 1].typ = m.flds[n].typ /\ g[i - 1].u = m.flds[n].u
        BY <2>3, <4>2 DEF TAG_UNK, Fld
      <4> HIDE DEF g
      <4> QED
        BY <2>2, <4>3, <4>4, <4>5 DEF Shows
    <3>4. CASE i # n + 1
      <4>1. i - 1 # n
        BY <2>1, <3>4
      <4>2. g[i - 1] = m.flds[i - 1]
        BY <1>0, <3>1, <4>1
      <4>3. [s EXCEPT ![n + 1].tag = 0][i] = s[i]
        BY <3>1, <3>2, <3>4
      <4> QED
        BY <1>1, <2>2, <4>2, <4>3 DEF Shows
    <3> QED
      BY <3>3, <3>4
  <2> HIDE DEF g
  <2>5. Shown(m') = [i \in 1..m.nflds |-> [s EXCEPT ![n + 1].tag = 0][i]]
    BY <2>2, <2>4 DEF Shown
  <2>6. [s EXCEPT ![n + 1].tag = 0]
          = [i \in 1..m.nflds |-> [s EXCEPT ![n + 1].tag = 0][i]]
    <3>1. s \in [1..m.nflds -> FL!Entry]
      BY <1>1, LenProperties
    <3> QED
      BY <3>1
  <2>7. ~(n >= Len(Contents)) /\ n + 1 # Len(Contents)
    BY <1>0, <1>1, <2>1
  <2>8. Contents' = [Contents EXCEPT ![n + 1].tag = 0]
    BY <1>0, <2>5, <2>6
  <2>9. FL!Delete
    BY <1>c, <2>2, <2>7, <2>8 DEF FL!Delete
  <2> QED
    BY <2>9 DEF FL!Next
<1> QED
  BY <1>0, <1>2, <1>3, <1>4

(* The initial message shows a list. *)
LEMMA InitList == Inv => FL!Init
<1> SUFFICES ASSUME Inv PROVE FL!Init
  OBVIOUS
<1>1. Good(m, "live") /\ m.f35 \in Fld
  BY DEF Inv, GoodAt, Good, WellTyped
<1>2. Contents \in Seq(FL!Entry)
  BY <1>1, ContentsShown, ShownSeq
<1>3. m.f35.u \in Int
  BY <1>1 DEF Fld
<1> QED
  BY <1>2, <1>3 DEF FL!Init

LEMMA NextList == Inv /\ [CallNext]_callvars => [FL!Next]_<<Contents, m.f35.u, call>>
<1> SUFFICES ASSUME Inv, [CallNext]_callvars PROVE [FL!Next]_<<Contents, m.f35.u, call>>
  OBVIOUS
<1>0. m.nflds \in Nat /\ MaxFlds \in Nat /\ MaxPz \in Nat /\ Good(m, "live")
  BY BoundAssumption DEF Inv, GoodAt, Good, WellTyped
<1>1. PICK top \in Pow2 :
        /\ MaxFlds + 2 <= top
        /\ MaxPz + 1 <= top /\ NextPow2(MaxPz + 1) + 1 <= top
        /\ \A s \in Strs : NextPow2(MaxPz + 1) + Size[s] + 2 <= top
  BY WordAssumption
<1>2. NextPow2(MaxPz + 1) \in Nat
  <2>1. MaxPz + 1 \in Nat \ {0}
    BY <1>0
  <2> QED
    BY <1>1, <2>1, NextPow2Least, Pow2Nat
<1>3. ASSUME NEW i \in 0..(m.nflds + 1), NEW fld \in Inputs, CallAddFld(fld, i)
      PROVE  FL!Next
  <2>1. m.nflds <= MaxFlds /\ m' = AddFldAt(m, fld, i) /\ i \in Nat /\ fld \in Fld
    BY <1>3, InputAssumption DEF CallAddFld, AddFld
  <2>2. NextPow2(MaxPz + 1) + 0 + 1 <= top
    BY <1>1, <1>2
  <2>3. Within(m, 0, top)
    BY <1>1, <2>1, <2>2, WithinBounds DEF Inv
  <2> QED
    BY <1>0, <1>3, <2>1, <2>3, AddFldStep DEF CallAddFld
<1>4. ASSUME NEW i \in 0..(m.nflds + 1), NEW tag \in Tags, NEW s \in Strs, CallAddTag(tag, s, i)
      PROVE  FL!Next
  <2>1. m.nflds <= MaxFlds /\ m' = AddTagAt(m, tag, s, i) /\ i \in Nat /\ tag \in Half
    BY <1>4, InputAssumption DEF CallAddTag, AddTag
  <2>2. Size[s] \in Nat /\ Size[s] + 1 \in Nat
    BY TextAssumption
  <2>3. NextPow2(MaxPz + 1) + (Size[s] + 1) + 1 <= top
    <3>1. NextPow2(MaxPz + 1) + Size[s] + 2 <= top
      BY <1>1
    <3>2. NextPow2(MaxPz + 1) + (Size[s] + 1) + 1 = NextPow2(MaxPz + 1) + Size[s] + 2
      BY <1>2, <2>2
    <3> QED
      BY <3>1, <3>2
  <2>4. Within(m, Size[s] + 1, top)
    BY <1>1, <2>1, <2>2, <2>3, WithinBounds DEF Inv
  <2> QED
    BY <1>0, <1>4, <2>1, <2>4, AddTagStep DEF CallAddTag
<1>5. ASSUME NEW i \in 0..(m.nflds + 1), CallDel(i)
      PROVE  FL!Next
  <2>1. /\ i \in Nat /\ m' = DelFld(m, i)
        /\ call' = Call("del", TAG_UNK, 0, i, FALSE, FALSE)
    BY <1>0, <1>5 DEF CallDel, Del
  <2> QED
    BY <1>0, <2>1, DelStep
<1>6. CASE UNCHANGED callvars
  BY <1>6 DEF callvars, Contents, Denote
<1> QED
  BY <1>3, <1>4, <1>5, <1>6 DEF CallNext

(* The calls are those of MsgStore. *)
LEMMA CallsAreSteps == [CallNext]_callvars => [Next]_m
BY DEF CallNext, CallAddFld, CallAddTag, CallDel, callvars, Next

(* The message implements the plain list: with any texts, fields and       *)
(* indices, each call of fix.h does to the list what FieldList says of     *)
(* just this call, its index, entry and answer, and changes nothing else   *)
(* that a reader can see.                                                  *)
THEOREM ListIsImplemented == CallSpec => ImplementsFieldList
<1>1. Inv => FL!Init
  BY InitList
<1>2. Inv /\ [CallNext]_callvars => [FL!Next]_<<Contents, m.f35.u, call>>
  BY NextList
<1>3. CallInit => Inv
  BY InitInv DEF CallInit
<1>4. Inv /\ [CallNext]_callvars => Inv'
  BY CallsAreSteps, NextGood DEF Inv
<1> QED
  BY <1>1, <1>2, <1>3, <1>4, PTL DEF CallSpec, ImplementsFieldList, FL!Spec

=============================================================================
