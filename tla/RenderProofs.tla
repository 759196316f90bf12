---------------------------- MODULE RenderProofs ----------------------------
(***************************************************************************)
(* Proofs about FixRender: that a message fits what is reckoned for it,    *)
(* and where its pieces lie in the buffer at each step.                    *)
(***************************************************************************)
EXTENDS FixRender, MsgProofs, FiniteSetTheorems

-----------------------------------------------------------------------------
(* No two fields have one text: what each operation does to that            *)

(* A message, with its fields' texts below pz and one for each.            *)
Owned(msg) ==
  /\ msg \in [ slot : {msg.slot}, f35 : {msg.f35}, nflds : Nat, flds : {msg.flds},
               store : {msg.store}, fspc : {msg.fspc}, vspc : {msg.vspc}, pz : Nat, pr : {msg.pr} ]
  /\ Typed(msg) => msg.f35 \in Fld /\ msg.f35.typ # "OFF"
  /\ \A i \in 0..(msg.nflds - 1) :
       msg.flds[i].typ = "OFF" => msg.flds[i].u \in Nat /\ msg.flds[i].u < msg.pz
  /\ TextsOwn(msg)

LEMMA LiveOwned ==
  ASSUME NEW msg, Good(msg, "live"), TextsOwn(msg) PROVE Owned(msg)
<1>1. /\ msg.nflds \in Nat /\ msg.pz \in Nat /\ msg.f35 \in Fld
      /\ msg \in [ slot : {msg.slot}, f35 : {msg.f35}, nflds : Nat, flds : {msg.flds},
                   store : {msg.store}, fspc : {msg.fspc}, vspc : {msg.vspc}, pz : Nat,
                   pr : {msg.pr} ]
      /\ Typed(msg) => msg.f35.typ # "OFF"
  BY DEF Good, WellTyped
<1>2. ASSUME NEW i \in 0..(msg.nflds - 1), msg.flds[i].typ = "OFF"
      PROVE  msg.flds[i].u \in Nat /\ msg.flds[i].u < msg.pz
  <2>1. msg.flds[i].u \in DOMAIN msg.pr
    BY <1>2 DEF Good, TextsFound
  <2>2. /\ msg.flds[i].u \in Nat /\ Size[msg.pr[msg.flds[i].u]] \in Nat
        /\ msg.flds[i].u + Size[msg.pr[msg.flds[i].u]] < msg.pz
    BY <2>1, TextAssumption DEF Good, WellTyped, TextsApart
  <2> QED
    BY <1>1, <2>2
<1> QED
  BY <1>1, <1>2 DEF Owned

LEMMA PlaceOwned ==
  ASSUME NEW msg, Owned(msg), NEW fld, NEW idx \in 0..msg.nflds,
         fld.typ = "OFF" =>
           /\ fld.u \in Nat /\ fld.u < msg.pz
           /\ \A i \in 0..(msg.nflds - 1) : msg.flds[i].typ = "OFF" => msg.flds[i].u # fld.u
  PROVE  Owned(Place(msg, fld, idx))
<1> DEFINE n == msg.nflds
           flds == [i \in 0..n |-> IF i < idx THEN msg.flds[i]
                                   ELSE IF i = idx THEN fld ELSE msg.flds[i - 1]]
           r == Place(msg, fld, idx)
<1>1. n \in Nat /\ idx \in 0..n
  BY DEF Owned
<1>a. r = [msg EXCEPT !.nflds = n + 1, !.flds = flds]
  BY DEF Place
<1>3. \A i \in 0..n : flds[i] = IF i < idx THEN msg.flds[i]
                                ELSE IF i = idx THEN fld ELSE msg.flds[i - 1]
  OBVIOUS
<1> HIDE DEF r, flds
<1>2. /\ r \in [ slot : {r.slot}, f35 : {r.f35}, nflds : Nat, flds : {r.flds},
                 store : {r.store}, fspc : {r.fspc}, vspc : {r.vspc}, pz : Nat, pr : {r.pr} ]
      /\ r.nflds = n + 1 /\ r.flds = flds /\ r.pz = msg.pz /\ r.f35 = msg.f35
  <2>1. msg.nflds + 1 \in Nat
    BY <1>1
  <2> QED
    BY <1>a, <2>1 DEF Owned
<1>4. ASSUME NEW i \in 0..n
      PROVE  \/ i < idx /\ i \in 0..(n - 1) /\ flds[i] = msg.flds[i]
             \/ i = idx /\ flds[i] = fld
             \/ i > idx /\ i - 1 \in 0..(n - 1) /\ flds[i] = msg.flds[i - 1]
  BY <1>1, <1>3 DEF n
<1>5. ASSUME NEW i \in 0..n, flds[i].typ = "OFF"
      PROVE  flds[i].u \in Nat /\ flds[i].u < msg.pz
  BY <1>4, <1>5 DEF Owned, n
<1>6. ASSUME NEW i \in 0..n, NEW k \in 0..n, i # k, flds[i].typ = "OFF", flds[k].typ = "OFF"
      PROVE  flds[i].u # flds[k].u
  <2>1. /\ \/ i < idx /\ i \in 0..(n - 1) /\ flds[i] = msg.flds[i]
           \/ i = idx /\ flds[i] = fld
           \/ i > idx /\ i - 1 \in 0..(n - 1) /\ flds[i] = msg.flds[i - 1]
        /\ \/ k < idx /\ k \in 0..(n - 1) /\ flds[k] = msg.flds[k]
           \/ k = idx /\ flds[k] = fld
           \/ k > idx /\ k - 1 \in 0..(n - 1) /\ flds[k] = msg.flds[k - 1]
    BY <1>4
  <2>2. \A a, b \in 0..(n - 1) :
          a # b /\ msg.flds[a].typ = "OFF" /\ msg.flds[b].typ = "OFF" => msg.flds[a].u # msg.flds[b].u
    BY DEF Owned, TextsOwn, n
  <2>3. \A a \in 0..(n - 1) :
          fld.typ = "OFF" /\ msg.flds[a].typ = "OFF" => msg.flds[a].u # fld.u
    BY DEF n
  <2> QED
    BY <1>1, <1>6, <2>1, <2>2, <2>3
<1>7. TextsOwn(r)
  <2>1. r.nflds - 1 = n
    BY <1>1, <1>2
  <2> QED
    BY <1>2, <1>6, <2>1 DEF TextsOwn
<1>8. \A i \in 0..(r.nflds - 1) : r.flds[i].typ = "OFF" => r.flds[i].u \in Nat /\ r.flds[i].u < r.pz
  <2>1. r.nflds - 1 = n
    BY <1>1, <1>2
  <2> QED
    BY <1>2, <1>5, <2>1
<1>9. Typed(r) => r.f35 \in Fld /\ r.f35.typ # "OFF"
  BY <1>2 DEF Owned, Typed
<1> QED
  BY <1>2, <1>7, <1>8, <1>9 DEF Owned, r

LEMMA CheckSizeOwned ==
  ASSUME NEW msg, Owned(msg), NEW addf, NEW addv
  PROVE  LET r == CheckSize(msg, addf, addv)
         IN  Owned(r) /\ r.nflds = msg.nflds /\ r.flds = msg.flds /\ r.pz = msg.pz /\ r.f35 = msg.f35
<1> DEFINE r == CheckSize(msg, addf, addv)
<1>1. /\ r \in [ slot : {r.slot}, f35 : {r.f35}, nflds : Nat, flds : {r.flds},
                 store : {r.store}, fspc : {r.fspc}, vspc : {r.vspc}, pz : Nat, pr : {r.pr} ]
      /\ r.nflds = msg.nflds /\ r.flds = msg.flds /\ r.pz = msg.pz /\ r.f35 = msg.f35
  BY DEF CheckSize, Owned
<1> HIDE DEF r
<1> QED
  BY <1>1 DEF Owned, TextsOwn, Typed, r

LEMMA InsertFldOwned ==
  ASSUME NEW msg, Owned(msg), NEW fld, fld.typ # "OFF", NEW idx \in 0..msg.nflds
  PROVE  Owned(InsertFld(msg, fld, idx))
<1> DEFINE c == CheckSize(msg, 1, 0)
<1>1. Owned(c) /\ c.nflds = msg.nflds
  BY CheckSizeOwned
<1> HIDE DEF c
<1> QED
  BY <1>1, PlaceOwned DEF InsertFld, c

LEMMA PromoteOwned ==
  ASSUME NEW msg, Owned(msg), NEW tag
  PROVE  LET r == PromoteIfType(msg, tag)
         IN  Owned(r) /\ msg.nflds <= r.nflds
<1>1. CASE tag = MSG_TYPE /\ Typed(msg)
  <2> DEFINE b == [msg EXCEPT !.f35 = [@ EXCEPT !.tpc = 0, !.cnt = 0, !.u = MSGT_BATCH]]
             f == [msg.f35 EXCEPT !.cnt = 0, !.tpc = MSGT_BATCH]
             c == CheckSize(b, 1, 0)
  <2>1. msg.nflds \in Nat /\ msg.f35 \in Fld /\ msg.f35.typ # "OFF"
    BY <1>1 DEF Owned
  <2>2. f.typ # "OFF"
    BY <2>1 DEF Fld
  <2>3. /\ b \in [ slot : {b.slot}, f35 : {b.f35}, nflds : Nat, flds : {b.flds},
                   store : {b.store}, fspc : {b.fspc}, vspc : {b.vspc}, pz : Nat, pr : {b.pr} ]
        /\ b.nflds = msg.nflds /\ b.flds = msg.flds /\ b.pz = msg.pz
        /\ b.f35.u = MSGT_BATCH
    BY <2>1 DEF Owned, Fld
  <2> HIDE DEF b, f
  <2>4. Owned(b)
    BY <2>3 DEF Owned, TextsOwn, Typed
  <2>5. Owned(c) /\ c.nflds = msg.nflds
    BY <2>3, <2>4, CheckSizeOwned
  <2>6. 0 \in 0..b.nflds
    BY <2>1, <2>3
  <2>7. Owned(InsertFld(b, f, 0))
    BY <2>2, <2>4, <2>6, InsertFldOwned
  <2>8. PromoteIfType(msg, tag) = InsertFld(b, f, 0)
    BY <1>1 DEF PromoteIfType, Promote, b, f
  <2>9. InsertFld(b, f, 0).nflds = msg.nflds + 1
    BY <2>5 DEF InsertFld, Place, Owned
  <2> QED
    BY <2>1, <2>7, <2>8, <2>9
<1>2. CASE ~(tag = MSG_TYPE /\ Typed(msg))
  <2>1. msg.nflds \in Nat
    BY DEF Owned
  <2> QED
    BY <1>2, <2>1 DEF PromoteIfType
<1> QED
  BY <1>1, <1>2

LEMMA AddFldOwned ==
  ASSUME NEW msg, Owned(msg), NEW fld \in Fld, NEW idx \in Nat
  PROVE  Owned(AddFldAt(msg, fld, idx))
<1> DEFINE r == AddFldAt(msg, fld, idx)
<1>0. msg.nflds \in Nat
  BY DEF Owned
<1>1. CASE fld.typ = "OFF" \/ idx > msg.nflds \/ fld.tag = TAG_UNK
  BY <1>1 DEF AddFldAt, FldRefused
<1>2. CASE ~(fld.typ = "OFF" \/ idx > msg.nflds \/ fld.tag = TAG_UNK) /\ fld.tag \in SlotTags
  <2> DEFINE b == [msg EXCEPT !.slot[fld.tag] = fld]
  <2>1. r = b
    BY <1>2 DEF AddFldAt, FldRefused, SlotTags, MSG_TYPE, BEGIN_STRING, BODY_LENGTH, CHECK_SUM
  <2>2. /\ b \in [ slot : {b.slot}, f35 : {b.f35}, nflds : Nat, flds : {b.flds},
                   store : {b.store}, fspc : {b.fspc}, vspc : {b.vspc}, pz : Nat, pr : {b.pr} ]
        /\ b.nflds = msg.nflds /\ b.flds = msg.flds /\ b.pz = msg.pz /\ b.f35 = msg.f35
    BY DEF Owned
  <2> HIDE DEF b
  <2>3. Owned(b)
    BY <2>2 DEF Owned, TextsOwn, Typed
  <2> QED
    BY <2>1, <2>3
<1>3. CASE /\ ~(fld.typ = "OFF" \/ idx > msg.nflds \/ fld.tag = TAG_UNK) /\ fld.tag \notin SlotTags
           /\ fld.tag = MSG_TYPE /\ msg.f35.u = MSGT_UNK
  <2> DEFINE b == [msg EXCEPT !.f35 = fld]
  <2>1. r = b
    BY <1>3 DEF AddFldAt, FldRefused
  <2>2. /\ b \in [ slot : {b.slot}, f35 : {b.f35}, nflds : Nat, flds : {b.flds},
                   store : {b.store}, fspc : {b.fspc}, vspc : {b.vspc}, pz : Nat, pr : {b.pr} ]
        /\ b.nflds = msg.nflds /\ b.flds = msg.flds /\ b.pz = msg.pz /\ b.f35 = fld
    BY DEF Owned
  <2> HIDE DEF b
  <2>3. Owned(b)
    BY <1>3, <2>2 DEF Owned, TextsOwn
  <2> QED
    BY <2>1, <2>3
<1>4. CASE /\ ~(fld.typ = "OFF" \/ idx > msg.nflds \/ fld.tag = TAG_UNK) /\ fld.tag \notin SlotTags
           /\ ~(fld.tag = MSG_TYPE /\ msg.f35.u = MSGT_UNK)
  <2> DEFINE p == PromoteIfType(msg, fld.tag)
  <2>1. r = InsertFld(p, fld, idx)
    BY <1>4 DEF AddFldAt, FldRefused
  <2>2. Owned(p) /\ msg.nflds <= p.nflds
    BY PromoteOwned
  <2> HIDE DEF p
  <2>3. idx \in 0..p.nflds /\ fld.typ # "OFF"
    BY <1>0, <1>4, <2>2 DEF Owned
  <2> QED
    BY <2>1, <2>2, <2>3, InsertFldOwned
<1> QED
  BY <1>1, <1>2, <1>3, <1>4

LEMMA InsertStrOwned ==
  ASSUME NEW msg, Owned(msg), NEW tag, NEW s \in Strs, NEW idx \in 0..msg.nflds
  PROVE  Owned(InsertStr(msg, tag, s, idx))
<1> DEFINE c == CheckSize(msg, 1, Size[s] + 1)
           t == StoreStr(c, s)
           f == [tag |-> tag, typ |-> "OFF", tpc |-> 0, cnt |-> 0, u |-> c.pz]
<1>0. Size[s] \in Nat
  BY TextAssumption
<1>1. Owned(c) /\ c.nflds = msg.nflds
  BY CheckSizeOwned
<1> HIDE DEF c
<1> DEFINE pr == PutStr(c.pr, c.pz, s)
           pz == c.pz + Size[s] + 1
<1>a. t = [c EXCEPT !.pr = pr, !.pz = pz] /\ pz \in Nat
  BY <1>0, <1>1 DEF StoreStr, Owned
<1>b. pz = c.pz + Size[s] + 1
  OBVIOUS
<1> HIDE DEF t, pr, pz
<1>2. /\ t \in [ slot : {t.slot}, f35 : {t.f35}, nflds : Nat, flds : {t.flds},
                 store : {t.store}, fspc : {t.fspc}, vspc : {t.vspc}, pz : Nat, pr : {t.pr} ]
      /\ t.nflds = c.nflds /\ t.flds = c.flds /\ t.f35 = c.f35 /\ t.pz = c.pz + Size[s] + 1
  BY <1>1, <1>a, <1>b DEF Owned
<1>3. c.pz \in Nat
  BY <1>1 DEF Owned
<1>4. c.pz < t.pz /\ Owned(t)
  BY <1>0, <1>1, <1>2, <1>3 DEF Owned, TextsOwn, Typed
<1>5. f.typ = "OFF" /\ f.u = c.pz
  OBVIOUS
<1>6. \A i \in 0..(t.nflds - 1) : t.flds[i].typ = "OFF" => t.flds[i].u # c.pz
  BY <1>1, <1>2, <1>3 DEF Owned
<1> HIDE DEF f
<1>7. idx \in 0..t.nflds
  BY <1>1, <1>2
<1>8. Owned(Place(t, f, idx))
  BY <1>3, <1>4, <1>5, <1>6, <1>7, PlaceOwned
<1> QED
  BY <1>8 DEF InsertStr, t, f, c

LEMMA AddTagOwned ==
  ASSUME NEW msg, Owned(msg), msg.f35 \in Fld, NEW tag, NEW s \in Strs, NEW idx \in Nat
  PROVE  Owned(AddTagAt(msg, tag, s, idx))
<1> DEFINE r == AddTagAt(msg, tag, s, idx)
<1>0. msg.nflds \in Nat
  BY DEF Owned
<1>1. CASE idx > msg.nflds \/ tag \in SlotTags \union {TAG_UNK}
  <2>1. ~(idx <= msg.nflds /\ tag = MSG_TYPE /\ msg.f35.u = MSGT_UNK)
    BY <1>0, <1>1 DEF SlotTags, MSG_TYPE, BEGIN_STRING, BODY_LENGTH, CHECK_SUM, TAG_UNK
  <2> QED
    BY <1>1, <2>1 DEF AddTagAt, TagRefused
<1>2. CASE /\ ~(idx > msg.nflds \/ tag \in SlotTags \union {TAG_UNK})
           /\ tag = MSG_TYPE /\ msg.f35.u = MSGT_UNK
  <2> DEFINE f == [tag |-> MSG_TYPE, typ |-> "MSGTYP", tpc |-> 0, cnt |-> 0,
                   u |-> TypeOfStr(s)]
             b == [msg EXCEPT !.f35 = f]
  <2>1. idx <= msg.nflds
    BY <1>0, <1>2
  <2>2. r = SetType(msg, s)
    BY <1>2, <2>1 DEF AddTagAt, TagRefused
  <2>3. SetType(msg, s) = b
    BY DEF SetType, Owned
  <2>4. f \in Fld /\ f.typ # "OFF"
    <3>1. MSG_TYPE \in Half /\ 0 \in Half /\ "MSGTYP" \in Typ
      BY Halves, Kinds
    <3>2. TypeOfStr(s) \in Nat
      <4>1. MtypOf[s] \in Half /\ MSGT_UNK \in Half /\ Half \subseteq Nat
        BY TextAssumption, Halves DEF MSGT_UNK
      <4> QED
        BY <4>1 DEF TypeOfStr
    <3> QED
      BY <3>1, <3>2 DEF Fld
  <2> HIDE DEF f
  <2>5. /\ b \in [ slot : {b.slot}, f35 : {b.f35}, nflds : Nat, flds : {b.flds},
                   store : {b.store}, fspc : {b.fspc}, vspc : {b.vspc}, pz : Nat, pr : {b.pr} ]
        /\ b.nflds = msg.nflds /\ b.flds = msg.flds /\ b.pz = msg.pz /\ b.f35 = f
    BY DEF Owned
  <2> HIDE DEF b
  <2>6. Owned(b)
    BY <2>4, <2>5 DEF Owned, TextsOwn
  <2> QED
    BY <2>2, <2>3, <2>6
<1>3. CASE /\ ~(idx > msg.nflds \/ tag \in SlotTags \union {TAG_UNK})
           /\ ~(tag = MSG_TYPE /\ msg.f35.u = MSGT_UNK)
  <2> DEFINE p == PromoteIfType(msg, tag)
  <2>1. r = InsertStr(p, tag, s, idx)
    BY <1>3 DEF AddTagAt, TagRefused
  <2>2. Owned(p) /\ msg.nflds <= p.nflds
    BY PromoteOwned
  <2> HIDE DEF p
  <2>3. idx \in 0..p.nflds
    BY <1>0, <1>3, <2>2 DEF Owned
  <2> QED
    BY <2>1, <2>2, <2>3, InsertStrOwned
<1> QED
  BY <1>1, <1>2, <1>3

LEMMA DelFldOwned ==
  ASSUME NEW msg, WellTyped(msg), Owned(msg), NEW n \in Nat PROVE Owned(DelFld(msg, n))
<1> DEFINE r == DelFld(msg, n)
<1>0. msg.nflds \in Nat /\ msg.flds \in [0..(msg.nflds - 1) -> Fld]
  BY DEF WellTyped
<1>1. CASE n >= msg.nflds
  <2>1. n + 1 # msg.nflds
    BY <1>0, <1>1
  <2> QED
    BY <1>1, <2>1 DEF DelFld
<1>2. CASE n + 1 = msg.nflds
  <2> DEFINE flds == [i \in 0..(n - 1) |-> msg.flds[i]]
             q == [msg EXCEPT !.nflds = n, !.flds = flds]
  <2>1. r = q
    BY <1>0, <1>2 DEF DelFld
  <2>2. \A i \in 0..(n - 1) : i \in 0..(msg.nflds - 1) /\ flds[i] = msg.flds[i]
    BY <1>0, <1>2
  <2> HIDE DEF flds
  <2>3. /\ q \in [ slot : {q.slot}, f35 : {q.f35}, nflds : Nat, flds : {q.flds},
                   store : {q.store}, fspc : {q.fspc}, vspc : {q.vspc}, pz : Nat, pr : {q.pr} ]
        /\ q.nflds = n /\ q.flds = flds /\ q.pz = msg.pz /\ q.f35 = msg.f35
    BY DEF Owned
  <2> HIDE DEF q, r
  <2>4. Owned(q)
    BY <2>2, <2>3 DEF Owned, TextsOwn, Typed
  <2> QED
    BY <2>1, <2>4 DEF r
<1>3. CASE n < msg.nflds /\ n + 1 # msg.nflds
  <2> DEFINE flds == [msg.flds EXCEPT ![n].tag = TAG_UNK]
             q == [msg EXCEPT !.flds = flds]
  <2>1. n \in 0..(msg.nflds - 1) /\ ~(n >= msg.nflds)
    BY <1>0, <1>3
  <2>2. r = q
    BY <1>0, <1>3, <2>1 DEF DelFld, Owned
  <2>3. \A i \in 0..(msg.nflds - 1) : flds[i].typ = msg.flds[i].typ /\ flds[i].u = msg.flds[i].u
    <3>1. msg.flds[n] \in Fld
      BY <1>0, <2>1
    <3>2. /\ [msg.flds[n] EXCEPT !.tag = TAG_UNK].typ = msg.flds[n].typ
          /\ [msg.flds[n] EXCEPT !.tag = TAG_UNK].u = msg.flds[n].u
      BY <3>1 DEF Fld
    <3> QED
      BY <1>0, <3>2
  <2> HIDE DEF flds
  <2>4. /\ q \in [ slot : {q.slot}, f35 : {q.f35}, nflds : Nat, flds : {q.flds},
                   store : {q.store}, fspc : {q.fspc}, vspc : {q.vspc}, pz : Nat, pr : {q.pr} ]
        /\ q.nflds = msg.nflds /\ q.flds = flds /\ q.pz = msg.pz /\ q.f35 = msg.f35
    BY DEF Owned
  <2> HIDE DEF q, r
  <2>5. Owned(q)
    BY <2>3, <2>4 DEF Owned, TextsOwn, Typed
  <2> QED
    BY <2>2, <2>5 DEF r
<1> QED
  BY <1>0, <1>1, <1>2, <1>3

(* What holds of the message as long as it is edited, and after. *)
MsgInv == Inv /\ TextsOwn(m)

LEMMA InitMsg == Init => MsgInv
<1> SUFFICES ASSUME Init PROVE TextsOwn(m)
  BY InitInv DEF MsgInv
<1>1. ASSUME NEW ctx \in Ctxs, m = MakeMsg(ctx) PROVE TextsOwn(m)
  BY <1>1 DEF MakeMsg, TextsOwn
<1>2. ASSUME NEW w \in Parsed, m = ParsedMsg(w) PROVE TextsOwn(m)
  BY <1>2, InputAssumption DEF IsParsed
<1> QED
  BY <1>1, <1>2 DEF Init

LEMMA NextMsg == MsgInv /\ [Next]_m => MsgInv'
<1> SUFFICES ASSUME MsgInv, [Next]_m PROVE TextsOwn(m)'
  BY NextGood DEF MsgInv, Inv
<1>0. Good(m, "live") /\ Owned(m) /\ WellTyped(m) /\ m.nflds \in Nat /\ m.f35 \in Fld
  BY LiveOwned DEF MsgInv, Inv, GoodAt, Good, WellTyped
<1>1. ASSUME NEW i \in 0..(m.nflds + 1), NEW fld \in Inputs, AddFld(fld, i) PROVE TextsOwn(m)'
  <2>1. m' = AddFldAt(m, fld, i) /\ fld \in Fld /\ i \in Nat
    BY <1>1, InputAssumption DEF AddFld
  <2>2. Owned(AddFldAt(m, fld, i))
    BY <1>0, <2>1, AddFldOwned
  <2> QED
    BY <2>1, <2>2 DEF Owned
<1>2. ASSUME NEW i \in 0..(m.nflds + 1), NEW tag \in Tags, NEW s \in Strs, AddTag(tag, s, i)
      PROVE  TextsOwn(m)'
  <2>1. m' = AddTagAt(m, tag, s, i) /\ i \in Nat
    BY <1>2 DEF AddTag
  <2>2. Owned(AddTagAt(m, tag, s, i))
    BY <1>0, <2>1, AddTagOwned
  <2> QED
    BY <2>1, <2>2 DEF Owned
<1>3. ASSUME NEW i \in 0..(m.nflds + 1), Del(i) PROVE TextsOwn(m)'
  <2>1. m' = DelFld(m, i) /\ i \in Nat
    BY <1>3 DEF Del
  <2>2. Owned(DelFld(m, i))
    BY <1>0, <2>1, DelFldOwned
  <2> QED
    BY <2>1, <2>2 DEF Owned
<1>4. CASE UNCHANGED m
  BY <1>4 DEF MsgInv, TextsOwn
<1> QED
  BY <1>1, <1>2, <1>3, <1>4 DEF Next

-----------------------------------------------------------------------------
(* How long things are *)

LEMMA TensAre ==
  /\ Tens[1] = 10 /\ Tens[2] = 100 /\ Tens[3] = 1000 /\ Tens[4] = 10000 /\ Tens[5] = 100000
  /\ Tens[6] = 1000000 /\ Tens[7] = 10000000 /\ Tens[8] = 100000000 /\ Tens[9] = 1000000000
  BY DEF Tens

(* sprintf("%d"): as many digits as the number has, and ten at most. *)
LEMMA DigitsAre ==
  ASSUME NEW n \in Int
  PROVE  /\ Digits(n) \in 1..10
         /\ Digits(n) = 10 \/ n < Tens[Digits(n)]
         /\ Digits(n) = 1 \/ Tens[Digits(n) - 1] <= n
<1> DEFINE P(d) == (d = 10 \/ n < Tens[d]) /\ (d = 1 \/ Tens[d - 1] <= n)
<1>1. \E d \in 1..10 : P(d)
  <2>1. CASE n < 10
    <3>1. P(1)
      BY <2>1, TensAre
    <3> QED
      BY <3>1
  <2>2. CASE 10 <= n /\ n < 100
    <3>1. P(2)
      BY <2>2, TensAre
    <3> QED
      BY <3>1
  <2>3. CASE 100 <= n /\ n < 1000
    <3>1. P(3)
      BY <2>3, TensAre
    <3> QED
      BY <3>1
  <2>4. CASE 1000 <= n /\ n < 10000
    <3>1. P(4)
      BY <2>4, TensAre
    <3> QED
      BY <3>1
  <2>5. CASE 10000 <= n /\ n < 100000
    <3>1. P(5)
      BY <2>5, TensAre
    <3> QED
      BY <3>1
  <2>6. CASE 100000 <= n /\ n < 1000000
    <3>1. P(6)
      BY <2>6, TensAre
    <3> QED
      BY <3>1
  <2>7. CASE 1000000 <= n /\ n < 10000000
    <3>1. P(7)
      BY <2>7, TensAre
    <3> QED
      BY <3>1
  <2>8. CASE 10000000 <= n /\ n < 100000000
    <3>1. P(8)
      BY <2>8, TensAre
    <3> QED
      BY <3>1
  <2>9. CASE 100000000 <= n /\ n < 1000000000
    <3>1. P(9)
      BY <2>9, TensAre
    <3> QED
      BY <3>1
  <2>10. CASE 1000000000 <= n
    <3>1. P(10)
      BY <2>10, TensAre
    <3> QED
      BY <3>1
  <2> QED
    BY <2>1, <2>2, <2>3, <2>4, <2>5, <2>6, <2>7, <2>8, <2>9, <2>10
<1>2. Digits(n) = CHOOSE d \in 1..10 : P(d)
  BY DEF Digits
<1> HIDE DEF P
<1>3. Digits(n) \in 1..10 /\ P(Digits(n))
  BY <1>1, <1>2, Zenon
<1> QED
  BY <1>3 DEF P

LEMMA DigitsSmall ==
  ASSUME NEW n \in Int
  PROVE  /\ n < 10 => Digits(n) = 1
         /\ 10 <= n /\ n < 100 => Digits(n) = 2
         /\ n < 100000 => Digits(n) <= 5
<1> DEFINE d == Digits(n)
<1>1. d \in 1..10 /\ (d = 10 \/ n < Tens[d]) /\ (d = 1 \/ Tens[d - 1] <= n)
  BY DigitsAre
<1> HIDE DEF d
<1>2. \/ d = 1 \/ d = 2 \/ d = 3 \/ d = 4 \/ d = 5 \/ d = 6 \/ d = 7 \/ d = 8 \/ d = 9 \/ d = 10
  BY <1>1
<1>3. (n < 10 => d = 1) /\ (10 <= n /\ n < 100 => d = 2) /\ (n < 100000 => d <= 5)
  BY <1>1, <1>2, TensAre
<1> QED
  BY <1>3 DEF d

(* A number has a sign and ten digits at most. *)
LEMMA WidthIs ==
  ASSUME NEW n \in Int PROVE Width(n) \in 1..11
<1>1. Digits(n) \in 1..10 /\ Digits(-n) \in 1..10
  BY DigitsAre
<1> QED
  BY <1>1 DEF Width

(* A tag is a 16 bit number. *)
LEMMA HalfSmall == Half \subseteq {n \in Nat : n < 100000}
<1>1. \A top \in Nat : top < 100000 => 0..top \subseteq {n \in Nat : n < 100000}
  OBVIOUS
<1> QED
  BY <1>1 DEF Half

LEMMA DigitsHalf ==
  ASSUME NEW t \in Half PROVE Digits(t) \in 1..5
<1>1. t \in Int /\ t < 100000
  BY HalfSmall
<1> QED
  BY <1>1, DigitsAre, DigitsSmall

LEMMA DigitsTags == Digits(BEGIN_STRING) = 1 /\ Digits(BODY_LENGTH) = 1 /\ Digits(CHECK_SUM) = 2
<1>1. Digits(8) = 1 /\ Digits(9) = 1 /\ Digits(10) = 2
  BY DigitsSmall
<1> QED
  BY <1>1 DEF BEGIN_STRING, BODY_LENGTH, CHECK_SUM

LEMMA NameLenIs ==
  ASSUME NEW v PROVE NameLen(v) \in 0..11
  BY NameAssumption DEF NameLen

LEMMA MtypLenIs ==
  ASSUME NEW u PROVE MtypLen(u) \in 0..2
  BY DEF MtypLen

(* A field that finds its text *)
Found(fld) == fld.typ = "OFF" => fld.u \in DOMAIN m.pr

LEMMA ValLenIs ==
  ASSUME WellTyped(m), NEW fld \in Fld, Found(fld)
  PROVE  /\ ValLen(fld) \in Nat
         /\ fld.typ = "OFF" => ValLen(fld) = Size[m.pr[fld.u]]
         /\ fld.typ \in {"MSGTYP", "CTXT"} => ValLen(fld) \in 0..2
         /\ fld.typ = "UCHAR" => ValLen(fld) = 3
         /\ fld.typ = "INT" => ValLen(fld) = Width(fld.u)
         /\ fld.typ = "VER" => ValLen(fld) = NameLen(fld.u)
<1>0. fld.typ \in Typ /\ fld.u \in Int
  BY DEF Fld
<1>1. CASE fld.typ = "OFF"
  <2>1. Size[m.pr[fld.u]] \in Nat
    BY <1>1, TextAssumption DEF Found, WellTyped
  <2> QED
    BY <1>1, <2>1 DEF ValLen
<1>2. CASE fld.typ = "VER"
  BY <1>2, NameLenIs DEF ValLen
<1>3. CASE fld.typ = "UCHAR"
  BY <1>3 DEF ValLen
<1>4. CASE fld.typ = "INT"
  BY <1>0, <1>4, WidthIs DEF ValLen
<1>5. CASE fld.typ = "MSGTYP"
  BY <1>5, MtypLenIs DEF ValLen
<1>6. CASE fld.typ = "CTXT"
  BY <1>6 DEF ValLen
<1> QED
  BY <1>0, <1>1, <1>2, <1>3, <1>4, <1>5, <1>6 DEF Typ

LEMMA FldLenIs ==
  ASSUME WellTyped(m), NEW fld \in Fld, Found(fld)
  PROVE  /\ FldLen(fld) \in Nat /\ Digits(fld.tag) \in 1..5
         /\ FldLen(fld) = Digits(fld.tag) + ValLen(fld) + 2
         /\ fld.typ = "OFF" => FldLen(fld) <= Size[m.pr[fld.u]] + 7
         /\ fld.typ \in {"MSGTYP", "CTXT"} => FldLen(fld) <= 9
<1>1. Digits(fld.tag) \in 1..5
  BY DigitsHalf DEF Fld
<1> DEFINE d == Digits(fld.tag)
           v == ValLen(fld)
<1>2. v \in Nat /\ (fld.typ \in {"MSGTYP", "CTXT"} => v <= 2) /\ (fld.typ = "OFF" => v = Size[m.pr[fld.u]])
  BY ValLenIs
<1>3. FldLen(fld) = d + 1 + v + 1
  BY DEF FldLen
<1> HIDE DEF d, v
<1>4. d \in 1..5
  BY <1>1 DEF d
<1>5. /\ d + 1 + v + 1 \in Nat
      /\ d + 1 + v + 1 = d + v + 2
      /\ (fld.typ = "OFF" => d + 1 + v + 1 <= Size[m.pr[fld.u]] + 7)
      /\ (fld.typ \in {"MSGTYP", "CTXT"} => d + 1 + v + 1 <= 9)
  BY <1>2, <1>4
<1> QED
  BY <1>1, <1>3, <1>5 DEF d, v

-----------------------------------------------------------------------------
(* One field in its room *)

(* In a room it fits, a field is written whole. *)
LEMMA WrittenWhole ==
  ASSUME WellTyped(m), NEW fld \in Fld, Found(fld), NEW room \in Int, FldLen(fld) <= room
  PROVE  RenderFld(fld, room) =
           [n |-> FldLen(fld), key |-> [n |-> Digits(fld.tag) + 1, whole |-> TRUE],
            whole |-> TRUE, past |-> FALSE]
<1> DEFINE d == Digits(fld.tag)
           v == ValLen(fld)
           key == Key(fld.tag, room)
<1>1. v \in Nat /\ FldLen(fld) = d + v + 2 /\ d \in 1..5 /\ (fld.typ = "UCHAR" => v = 3)
  BY FldLenIs, ValLenIs
<1>2. room >= d + 1
  BY <1>1
<1>3. key = [n |-> d + 1, whole |-> TRUE]
  BY <1>2 DEF Key
<1>4. key.n = d + 1 /\ key.whole = TRUE
  BY <1>3
<1>5. key.n + v + 1 = FldLen(fld) /\ key.n + v + 1 <= room
      /\ ~(v + 1 > room - key.n) /\ (fld.typ = "UCHAR" => ~(room - key.n < 3))
      /\ ~(FldLen(fld) > room)
  BY <1>1, <1>2, <1>4
<1>6. RenderFld(fld, room) = [n |-> key.n + v + 1, key |-> key,
                              whole |-> key.whole /\ key.n + v + 1 <= room,
                              past |-> key.n + v + 1 > room]
  <2>1. ~(fld.typ = "OFF" /\ v + 1 > room - key.n) /\ ~(fld.typ = "UCHAR" /\ room - key.n < 3)
    BY <1>5
  <2> QED
    BY <2>1, Zenon DEF RenderFld
<1> HIDE DEF d, v, key
<1>7. RenderFld(fld, room) = [n |-> FldLen(fld), key |-> key, whole |-> TRUE, past |-> FALSE]
  <2>1. key.n + v + 1 = FldLen(fld)
    BY <1>5
  <2>2. (key.whole /\ key.n + v + 1 <= room) = TRUE /\ (key.n + v + 1 > room) = FALSE
    BY <1>4, <1>5
  <2> QED
    BY <1>6, <2>1, <2>2, Zenon
<1> QED
  BY <1>3, <1>7 DEF d

(* What is said of any field in any room *)
LEMMA WrittenSize ==
  ASSUME WellTyped(m), NEW fld \in Fld, Found(fld), NEW room \in Nat
  PROVE  LET r == RenderFld(fld, room)
         IN  /\ r.n \in Nat
             /\ fld.typ = "OFF" /\ room # 0 => r.past = FALSE /\ r.n <= room
<1> DEFINE v == ValLen(fld)
           key == Key(fld.tag, room)
           r == RenderFld(fld, room)
<1>1. v \in Nat /\ (fld.typ = "UCHAR" => v = 3) /\ Digits(fld.tag) \in 1..5
  BY FldLenIs, ValLenIs
<1>2. key.n \in 0..room
  BY <1>1 DEF Key
<1> HIDE DEF v, key
<1>3. CASE fld.typ = "OFF" /\ v + 1 > room - key.n
  <2>1. r = [n |-> 0, key |-> key, whole |-> FALSE, past |-> room = 0]
    BY <1>3 DEF RenderFld, v, key
  <2> HIDE DEF r
  <2>2. r.n = 0 /\ r.past = (room = 0)
    BY <2>1, Zenon
  <2>3. r.n \in Nat /\ r.n <= room
    BY <2>2
  <2>4. room # 0 => r.past = FALSE
    BY <2>2, Zenon
  <2> QED
    BY <2>3, <2>4 DEF r
<1>4. CASE fld.typ = "UCHAR" /\ room - key.n < 3
  <2>1. r = [n |-> key.n + 1, key |-> key, whole |-> FALSE, past |-> (room - key.n) = 0]
    BY <1>4 DEF RenderFld, v, key
  <2> HIDE DEF r
  <2>2. r.n = key.n + 1
    BY <2>1
  <2> QED
    BY <1>2, <1>4, <2>2 DEF r
<1>5. CASE ~(fld.typ = "OFF" /\ v + 1 > room - key.n) /\ ~(fld.typ = "UCHAR" /\ room - key.n < 3)
  <2>1. r = [n |-> key.n + v + 1, key |-> key, whole |-> key.whole /\ key.n + v + 1 <= room,
             past |-> key.n + v + 1 > room]
    BY <1>5, Zenon DEF RenderFld, v, key
  <2> HIDE DEF r
  <2>2. r.n = key.n + v + 1 /\ r.past = (key.n + v + 1 > room)
    BY <2>1, Zenon
  <2>3. fld.typ = "OFF" => key.n + v + 1 <= room
    BY <1>1, <1>2, <1>5
  <2>4. key.n + v + 1 \in Nat /\ (key.n + v + 1 <= room => (key.n + v + 1 > room) = FALSE)
    BY <1>1, <1>2
  <2> QED
    BY <2>2, <2>3, <2>4 DEF r
<1> QED
  BY <1>3, <1>4, <1>5

-----------------------------------------------------------------------------
(* Where the fields end *)

(* e says where in the body each field ends. *)
IsEnds(e) ==
  /\ e \in [0..m.nflds -> Nat]
  /\ e[0] = FldLen(m.f35)
  /\ \A k \in 0..(m.nflds - 1) : e[k + 1] = e[k] + FldLen(m.flds[k])

(* The fields of a live message, and its type, find their texts. *)
LEMMA FieldsFound ==
  ASSUME Inv
  PROVE  /\ WellTyped(m) /\ m.nflds \in Nat /\ m.pz \in Nat /\ m.f35 \in Fld
         /\ m.flds \in [0..(m.nflds - 1) -> Fld]
         /\ \A k \in 0..(m.nflds - 1) : m.flds[k] \in Fld /\ Found(m.flds[k])
  BY DEF Inv, GoodAt, Good, WellTyped, TextsFound, Found

LEMMA EndsAre ==
  ASSUME Inv, m.f35.typ # "OFF" PROVE IsEnds(Ends)
<1> DEFINE n == m.nflds
           step(k) == FldLen(m.flds[k])
           isE(e, i) == e = [k \in 0..i |-> IF k = 0 THEN FldLen(m.f35) ELSE e[k - 1] + step(k - 1)]
<1>0. n \in Nat /\ FldLen(m.f35) \in Nat /\ \A k \in 0..(n - 1) : step(k) \in Nat
  BY FieldsFound, FldLenIs DEF Found
<1> HIDE DEF step, n
<1>1. \E e : isE(e, n)
  <2> DEFINE S == {i \in Nat : \E e : isE(e, i)}
  <2>1. 0 \in S
    <3> DEFINE e == [k \in 0..0 |-> FldLen(m.f35)]
    <3>1. \A k \in 0..0 : k = 0
      OBVIOUS
    <3>2. e = [k \in 0..0 |-> IF k = 0 THEN FldLen(m.f35) ELSE e[k - 1] + step(k - 1)]
      BY <3>1, Zenon
    <3> QED
      BY <3>2
  <2>2. ASSUME NEW i \in 0..(n - 1), i \in S PROVE i + 1 \in S
    <3>1. PICK e : isE(e, i)
      BY <2>2
    <3> DEFINE f == [k \in 0..(i + 1) |-> IF k <= i THEN e[k] ELSE e[i] + step(i)]
    <3>2. ASSUME NEW k \in 0..(i + 1)
          PROVE  f[k] = IF k = 0 THEN FldLen(m.f35) ELSE f[k - 1] + step(k - 1)
      <4>1. CASE k = 0
        <5>1. 0 <= i /\ 0 \in 0..i
          OBVIOUS
        <5>2. e[0] = FldLen(m.f35)
          BY <3>1, <5>1, Zenon
        <5> QED
          BY <4>1, <5>1, <5>2
      <4>2. CASE k # 0 /\ k <= i
        <5>1. k \in 0..i /\ k - 1 \in 0..(i + 1) /\ k - 1 <= i
          BY <4>2
        <5>2. e[k] = e[k - 1] + step(k - 1)
          BY <3>1, <4>2, <5>1, Zenon
        <5>3. f[k] = e[k] /\ f[k - 1] = e[k - 1]
          BY <4>2, <5>1
        <5> HIDE DEF f
        <5> QED
          BY <4>2, <5>2, <5>3, Zenon
      <4>3. CASE k = i + 1
        <5>1. k - 1 = i /\ i \in 0..(i + 1) /\ i <= i /\ ~(k <= i) /\ k # 0
          BY <4>3
        <5>2. f[k] = e[i] + step(i) /\ f[i] = e[i]
          BY <5>1
        <5> HIDE DEF f
        <5> QED
          BY <5>1, <5>2, Zenon
      <4> QED
        BY <4>1, <4>2, <4>3
    <3>3. f = [k \in 0..(i + 1) |-> f[k]]
      OBVIOUS
    <3> HIDE DEF f
    <3>4. f = [k \in 0..(i + 1) |-> IF k = 0 THEN FldLen(m.f35) ELSE f[k - 1] + step(k - 1)]
      BY <3>2, <3>3, Zenon
    <3> QED
      BY <3>4
  <2> HIDE DEF isE
  <2>3. n \in S
    <3> HIDE DEF S
    <3> QED
      BY <1>0, <2>1, <2>2, UpTo
  <2> QED
    BY <2>3
<1> DEFINE e == Ends
<1>2. isE(e, n)
  <2>1. Ends = CHOOSE x : isE(x, n)
    BY DEF Ends, n, step
  <2> HIDE DEF isE
  <2> QED
    BY <1>1, <2>1, Zenon
<1> HIDE DEF e
<1>3. /\ \A k \in 0..n : e[k] = IF k = 0 THEN FldLen(m.f35) ELSE e[k - 1] + step(k - 1)
      /\ e = [k \in 0..n |-> e[k]]
  BY <1>2, Zenon
<1> HIDE DEF isE
<1>4. e[0] = FldLen(m.f35)
  <2>1. 0 \in 0..n
    BY <1>0
  <2> QED
    BY <1>3, <2>1, Zenon
<1>5. ASSUME NEW k \in 0..(n - 1) PROVE e[k + 1] = e[k] + step(k)
  <2>1. k + 1 \in 0..n /\ k + 1 # 0 /\ (k + 1) - 1 = k
    BY <1>0
  <2> QED
    BY <1>3, <2>1, Zenon
<1>6. \A k \in 0..n : e[k] \in Nat
  <2> DEFINE S == {k \in 0..n : e[k] \in Nat}
  <2>1. 0 \in S
    BY <1>0, <1>4
  <2>2. \A k \in 0..(n - 1) : k \in S => k + 1 \in S
    <3> TAKE k \in 0..(n - 1)
    <3>1. k + 1 \in 0..n /\ step(k) \in Nat
      BY <1>0
    <3> QED
      BY <1>5, <3>1
  <2>3. \A k \in 0..n : k \in S
    <3> HIDE DEF S
    <3> QED
      BY <1>0, <2>1, <2>2, UpTo
  <2> QED
    BY <2>3
<1>7. e \in [0..n -> Nat]
  BY <1>3, <1>6, Zenon
<1> QED
  BY <1>4, <1>5, <1>7 DEF IsEnds, e, n, step

(* A field takes three bytes or more, and ends where the next begins.      *)
LEMMA EndsGrow ==
  ASSUME Inv, NEW e, IsEnds(e)
  PROVE  /\ \A k \in 0..m.nflds : e[k] \in Nat
         /\ \A i, k \in 0..m.nflds : i <= k => e[i] <= e[k]
         /\ \A k \in 0..(m.nflds - 1) : e[k] + 3 <= e[k + 1]
<1> DEFINE n == m.nflds
<1>0. n \in Nat
  BY FieldsFound
<1>1. \A k \in 0..n : e[k] \in Nat
  BY DEF IsEnds
<1>2. ASSUME NEW k \in 0..(n - 1) PROVE e[k] + 3 <= e[k + 1]
  <2> DEFINE d == Digits(m.flds[k].tag)
             v == ValLen(m.flds[k])
             l == FldLen(m.flds[k])
  <2>1. WellTyped(m) /\ m.flds[k] \in Fld /\ Found(m.flds[k])
    BY FieldsFound DEF n
  <2>2. d \in 1..5 /\ v \in Nat /\ l = d + v + 2
    BY <2>1, FldLenIs, ValLenIs
  <2>3. e[k + 1] = e[k] + l /\ k \in 0..n
    BY <1>0 DEF IsEnds, n
  <2> HIDE DEF d, v, l
  <2> QED
    BY <1>1, <2>2, <2>3
<1>3. ASSUME NEW i \in 0..n PROVE \A k \in 0..n : i <= k => e[i] <= e[k]
  <2> DEFINE S == {k \in 0..n : i <= k => e[i] <= e[k]}
  <2>1. 0 \in S
    BY <1>0, <1>1
  <2>2. \A k \in 0..(n - 1) : k \in S => k + 1 \in S
    <3> TAKE k \in 0..(n - 1)
    <3>1. k \in 0..n /\ k + 1 \in 0..n /\ e[k] + 3 <= e[k + 1] /\ e[k] \in Nat /\ e[k + 1] \in Nat
      BY <1>0, <1>1, <1>2
    <3>2. e[i] \in Nat
      BY <1>1
    <3> QED
      BY <3>1, <3>2
  <2>3. \A k \in 0..n : k \in S
    <3> HIDE DEF S
    <3> QED
      BY <1>0, <2>1, <2>2, UpTo
  <2> QED
    BY <2>3
<1> QED
  BY <1>1, <1>2, <1>3 DEF n

(* A message of texts takes for its body, its type aside, what its texts    *)
(* take in the pr area and six bytes for each field: the texts lie apart,   *)
(* and each is one field's.                                                *)
LEMMA Packed ==
  ASSUME Inv, TextsOwn(m), AllTexts, NEW e, IsEnds(e)
  PROVE  \A k \in 0..m.nflds : e[k] <= e[0] + 6 * k + m.pz
<1> DEFINE n == m.nflds
           u(i) == m.flds[i].u
           s(i) == Size[m.pr[m.flds[i].u]]
           slot(i) == u(i)..(u(i) + s(i))
           cov(k) == UNION {slot(i) : i \in 0..(k - 1)}
<1>0. n \in Nat /\ m.pz \in Nat
  BY FieldsFound
<1>1. ASSUME NEW i \in 0..(n - 1)
      PROVE  /\ u(i) \in DOMAIN m.pr /\ u(i) \in Nat /\ s(i) \in Nat /\ u(i) + s(i) < m.pz
             /\ FldLen(m.flds[i]) \in Nat /\ FldLen(m.flds[i]) <= s(i) + 7
  <2>1. m.flds[i].typ = "OFF"
    BY DEF AllTexts, n
  <2>2. u(i) \in DOMAIN m.pr
    BY <2>1 DEF Inv, GoodAt, Good, TextsFound, n
  <2>3. u(i) \in Nat /\ s(i) \in Nat /\ u(i) + s(i) < m.pz
    BY <2>2, TextAssumption DEF Inv, GoodAt, Good, WellTyped, TextsApart
  <2>4. WellTyped(m) /\ m.flds[i] \in Fld /\ Found(m.flds[i])
    BY FieldsFound DEF n
  <2>5. FldLen(m.flds[i]) \in Nat /\ FldLen(m.flds[i]) <= s(i) + 7
    BY <2>1, <2>4, FldLenIs
  <2> QED
    BY <2>2, <2>3, <2>5
<1>2. ASSUME NEW i \in 0..(n - 1), NEW k \in 0..(n - 1), i # k
      PROVE  slot(i) \intersect slot(k) = {}
  <2>1. u(i) # u(k)
    BY <1>2 DEF TextsOwn, AllTexts, n
  <2>2. ~Overlap(u(i), m.pr[u(i)], u(k), m.pr[u(k)])
    <3>1. u(i) \in DOMAIN m.pr /\ u(k) \in DOMAIN m.pr \ {u(i)}
      BY <1>1, <2>1
    <3> QED
      BY <3>1 DEF Inv, GoodAt, Good, TextsApart
  <2>3. ~(u(i) <= u(k) + s(k) /\ u(k) <= u(i) + s(i))
    BY <2>2 DEF Overlap
  <2>4. u(i) \in Nat /\ s(i) \in Nat /\ u(k) \in Nat /\ s(k) \in Nat
    BY <1>1
  <2> HIDE DEF u, s
  <2> QED
    BY <2>3, <2>4
<1>3. ASSUME NEW i \in 0..(n - 1)
      PROVE  IsFiniteSet(slot(i)) /\ Cardinality(slot(i)) = s(i) + 1 /\ slot(i) \subseteq 0..(m.pz - 1)
  <2>1. u(i) \in Nat /\ s(i) \in Nat /\ u(i) + s(i) < m.pz
    BY <1>1
  <2> HIDE DEF u, s
  <2>2. u(i) \in Int /\ u(i) + s(i) \in Int /\ ~(u(i) > u(i) + s(i)) /\ (u(i) + s(i)) - u(i) + 1 = s(i) + 1
    BY <2>1
  <2>3. IsFiniteSet(slot(i)) /\ Cardinality(slot(i)) = s(i) + 1
    BY <2>2, FS_Interval
  <2>4. slot(i) \subseteq 0..(m.pz - 1)
    BY <1>0, <2>1
  <2> QED
    BY <2>3, <2>4
<1>4. ASSUME NEW k \in 0..n PROVE cov(k) \subseteq 0..(m.pz - 1)
  <2>1. \A i \in 0..(k - 1) : i \in 0..(n - 1)
    BY <1>0
  <2> HIDE DEF slot
  <2> QED
    BY <1>3, <2>1
<1>5. ASSUME NEW k \in 0..(n - 1)
      PROVE  cov(k + 1) = cov(k) \union slot(k) /\ cov(k) \intersect slot(k) = {}
  <2>1. 0..((k + 1) - 1) = 0..(k - 1) \union {k}
    BY <1>0
  <2>2. \A i \in 0..(k - 1) : i \in 0..(n - 1) /\ i # k
    BY <1>0
  <2> HIDE DEF slot
  <2>3. cov(k + 1) = cov(k) \union slot(k)
    BY <2>1
  <2>4. cov(k) \intersect slot(k) = {}
    BY <1>2, <2>2
  <2> QED
    BY <2>3, <2>4
<1> DEFINE C(k) == Cardinality(cov(k))
           S == {k \in 0..n : IsFiniteSet(cov(k)) /\ C(k) \in Nat /\ e[k] <= e[0] + 6 * k + C(k)}
<1>6. \A k \in 0..n : e[k] \in Nat
  BY EndsGrow DEF n
<1>7. 0 \in S
  <2>1. cov(0) = {}
    OBVIOUS
  <2>2. IsFiniteSet(cov(0)) /\ C(0) = 0
    BY <2>1, FS_EmptySet
  <2>3. 0 \in 0..n /\ e[0] <= e[0] + 6 * 0 + 0
    BY <1>0, <1>6
  <2> HIDE DEF cov
  <2> QED
    BY <2>2, <2>3
<1>8. ASSUME NEW k \in 0..(n - 1), k \in S PROVE k + 1 \in S
  <2>1. IsFiniteSet(cov(k)) /\ C(k) \in Nat /\ e[k] <= e[0] + 6 * k + C(k)
    BY <1>8
  <2>2. IsFiniteSet(slot(k)) /\ Cardinality(slot(k)) = s(k) + 1
    BY <1>3
  <2>3. cov(k + 1) = cov(k) \union slot(k) /\ cov(k) \intersect slot(k) = {}
    BY <1>5
  <2> HIDE DEF cov, slot
  <2>4. /\ IsFiniteSet(cov(k + 1))
        /\ C(k + 1) = C(k) + (s(k) + 1) - Cardinality({})
    BY <2>1, <2>2, <2>3, FS_Union
  <2>5. Cardinality({}) = 0
    BY FS_EmptySet
  <2>6. e[k + 1] = e[k] + FldLen(m.flds[k]) /\ s(k) \in Nat /\ FldLen(m.flds[k]) \in Nat
        /\ FldLen(m.flds[k]) <= s(k) + 7
    BY <1>1 DEF IsEnds, n
  <2>7. k \in 0..n /\ k + 1 \in 0..n /\ e[k] \in Nat /\ e[0] \in Nat
    BY <1>0, <1>6
  <2> HIDE DEF C, s
  <2>8. C(k + 1) \in Nat /\ e[k + 1] <= e[0] + 6 * (k + 1) + C(k + 1)
    BY <2>1, <2>4, <2>5, <2>6, <2>7
  <2> QED
    BY <2>4, <2>7, <2>8
<1>9. \A k \in 0..n : k \in S
  <2> HIDE DEF S
  <2> QED
    BY <1>0, <1>7, <1>8, UpTo
<1> SUFFICES ASSUME NEW k \in 0..n PROVE e[k] <= e[0] + 6 * k + m.pz
  BY DEF n
<1>10. C(k) \in Nat /\ e[k] <= e[0] + 6 * k + C(k)
  BY <1>9
<1>11. C(k) <= m.pz
  <2>1. 0 \in Int /\ m.pz - 1 \in Int
    BY <1>0
  <2>2. IsFiniteSet(0..(m.pz - 1)) /\ Cardinality(0..(m.pz - 1)) = m.pz
    <3>1. (IF 0 > m.pz - 1 THEN 0 ELSE (m.pz - 1) - 0 + 1) = m.pz
      BY <1>0
    <3>2. /\ IsFiniteSet(0..(m.pz - 1))
          /\ Cardinality(0..(m.pz - 1)) = IF 0 > m.pz - 1 THEN 0 ELSE (m.pz - 1) - 0 + 1
      BY <2>1, FS_Interval, Zenon
    <3> QED
      BY <3>1, <3>2
  <2>3. cov(k) \in SUBSET (0..(m.pz - 1))
    BY <1>4
  <2> HIDE DEF cov
  <2> QED
    BY <2>2, <2>3, FS_Subset
<1>12. e[k] \in Nat /\ e[0] \in Nat
  BY <1>0, <1>6
<1> HIDE DEF C
<1> QED
  BY <1>0, <1>10, <1>11, <1>12

-----------------------------------------------------------------------------
(* The pieces, for fixed ends e and a header h bytes long *)

(* Tags 8 and 9 *)
HeadText(h) == {Piece(0, h, Is("8=", 0)), Piece(h, 2, Is("9=", 0))}

(* The type and the first i fields, the body beginning at b *)
FieldPiece(b, e, k) == Piece(b + e[k], e[k + 1] - e[k], Is("field", k))

BodyText(b, e, i) == {Piece(b, e[0], Is("35=", 0))} \union {FieldPiece(b, e, k) : k \in 0..(i - 1)}

Number(h, l) == Piece(h + 2, Digits(l - 1) + 1, Is("length", l - 1))

(* Ends of n fields, as a function of its own *)
Rising(e, n) ==
  /\ n \in Nat
  /\ \A k \in 0..n : e[k] \in Nat
  /\ \A i, k \in 0..n : i <= k => e[i] <= e[k]
  /\ \A k \in 0..(n - 1) : e[k] + 3 <= e[k + 1]
  /\ 3 <= e[0]

LEMMA StoreBehind ==
  ASSUME NEW t, NEW p, \A x \in t : x.at + x.n <= p.at
  PROVE  Store(t, p) = t \union {p}
  BY DEF Store, Apart

LEMMA StoreAhead ==
  ASSUME NEW t, NEW p, \A x \in t : Apart(x, p)
  PROVE  Store(t, p) = t \union {p}
  BY DEF Store

LEMMA HeadPieces ==
  ASSUME NEW h \in Nat, NEW x \in HeadText(h)
  PROVE  x.at \in Nat /\ x.n \in Nat /\ x.at <= h /\ x.at + x.n <= h + 2
         /\ x = Piece(x.at, x.n, x.is)
  BY DEF HeadText, Piece

LEMMA BodyPieces ==
  ASSUME NEW n, NEW e, Rising(e, n), NEW b \in Nat, NEW i \in 0..n, NEW x \in BodyText(b, e, i)
  PROVE  x.at \in Nat /\ x.n \in Nat /\ b <= x.at /\ x.at + x.n <= b + e[i] /\ 3 <= x.n
<1>0. n \in Nat /\ 0 \in 0..n /\ 0 <= i /\ e[i] \in Nat /\ e[0] \in Nat /\ 3 <= e[0] /\ e[0] <= e[i]
  BY DEF Rising
<1>1. CASE x = Piece(b, e[0], Is("35=", 0))
  <2>1. x.at = b /\ x.n = e[0]
    BY <1>1 DEF Piece
  <2> QED
    BY <1>0, <2>1
<1>2. ASSUME NEW k \in 0..(i - 1), x = FieldPiece(b, e, k)
      PROVE  x.at \in Nat /\ x.n \in Nat /\ b <= x.at /\ x.at + x.n <= b + e[i] /\ 3 <= x.n
  <2>1. x.at = b + e[k] /\ x.n = e[k + 1] - e[k]
    BY <1>2 DEF FieldPiece, Piece
  <2>2. k \in 0..(n - 1) /\ k \in 0..n /\ k + 1 \in 0..n /\ k + 1 <= i
    BY <1>0
  <2>3. e[k] \in Nat /\ e[k + 1] \in Nat /\ e[k] + 3 <= e[k + 1] /\ e[k + 1] <= e[i]
    BY <2>2 DEF Rising
  <2> QED
    BY <1>0, <2>1, <2>3
<1> QED
  BY <1>1, <1>2 DEF BodyText

LEMMA NextPiece ==
  ASSUME NEW e, NEW b, NEW i \in Nat
  PROVE  BodyText(b, e, i + 1) = BodyText(b, e, i) \union {FieldPiece(b, e, i)}
<1>1. 0..((i + 1) - 1) = 0..(i - 1) \union {i}
  OBVIOUS
<1> QED
  BY <1>1 DEF BodyText

(* A field goes behind the body. *)
LEMMA StoreField ==
  ASSUME NEW n, NEW e, Rising(e, n), NEW h \in Nat, NEW r \in Nat, h + 2 <= r,
         NEW i \in 0..(n - 1)
  PROVE  Store(HeadText(h) \union BodyText(r, e, i), FieldPiece(r, e, i))
           = HeadText(h) \union BodyText(r, e, i + 1)
<1> DEFINE p == FieldPiece(r, e, i)
           t == HeadText(h) \union BodyText(r, e, i)
<1>0. n \in Nat /\ i \in 0..n /\ i \in Nat
  BY DEF Rising
<1>1. e[i] \in Nat /\ p.at = r + e[i]
  BY <1>0 DEF Rising, FieldPiece, Piece
<1> HIDE DEF p
<1>2. ASSUME NEW x \in t PROVE x.at + x.n <= p.at
  <2>1. CASE x \in HeadText(h)
    <3>1. x.at \in Nat /\ x.n \in Nat /\ x.at + x.n <= h + 2
      BY <2>1, HeadPieces
    <3> QED
      BY <1>1, <3>1
  <2>2. CASE x \in BodyText(r, e, i)
    BY <1>0, <1>1, <2>2, BodyPieces
  <2> QED
    BY <2>1, <2>2
<1> HIDE DEF t
<1>3. Store(t, p) = t \union {p}
  BY <1>2, StoreBehind
<1>4. BodyText(r, e, i + 1) = BodyText(r, e, i) \union {p}
  BY <1>0, NextPiece DEF p
<1>5. Store(t, p) = HeadText(h) \union BodyText(r, e, i + 1)
  <2>1. t = HeadText(h) \union BodyText(r, e, i)
    BY DEF t
  <2> QED
    BY <1>3, <1>4, <2>1
<1> QED
  BY <1>5 DEF t, p

(* The type goes behind the room. *)
LEMMA StoreType ==
  ASSUME NEW e, NEW h \in Nat, NEW r \in Nat, h + 2 <= r
  PROVE  Store(HeadText(h), Piece(r, e[0], Is("35=", 0)))
           = HeadText(h) \union BodyText(r, e, 0)
<1> DEFINE p == Piece(r, e[0], Is("35=", 0))
<1>1. p.at = r
  BY DEF Piece
<1> HIDE DEF p
<1>2. \A x \in HeadText(h) : x.at + x.n <= p.at
  <2> TAKE x \in HeadText(h)
  <2>1. x.at \in Nat /\ x.n \in Nat /\ x.at + x.n <= h + 2
    BY HeadPieces
  <2> QED
    BY <1>1, <2>1
<1>3. Store(HeadText(h), p) = HeadText(h) \union {p}
  BY <1>2, StoreBehind
<1>4. BodyText(r, e, 0) = {p}
  BY DEF BodyText, p
<1>5. Store(HeadText(h), p) = HeadText(h) \union BodyText(r, e, 0)
  BY <1>3, <1>4
<1> QED
  BY <1>5 DEF p

(* The length is pasted and the body moved up to it. *)
LEMMA MoveUp ==
  ASSUME NEW n, NEW e, Rising(e, n), NEW h \in Nat, NEW r \in Nat, NEW l \in Nat,
         h + 2 + Digits(l - 1) + 1 <= r, Digits(l - 1) \in Nat
  PROVE  MoveBody(Store(HeadText(h) \union BodyText(r, e, n), Number(h, l)),
                  r, h + 2 + Digits(l - 1) + 1)
           = HeadText(h) \union {Number(h, l)} \union BodyText(h + 2 + Digits(l - 1) + 1, e, n)
<1> DEFINE d == Digits(l - 1)
           to == h + 2 + d + 1
           p == Number(h, l)
           H == HeadText(h)
           B == BodyText(r, e, n)
           C == BodyText(to, e, n)
<1>0. n \in Nat /\ n \in 0..n /\ d \in Nat /\ to \in Nat /\ to <= r
  BY DEF Rising
<1>1. p.at = h + 2 /\ p.n = d + 1
  BY DEF Number, Piece
<1>2. \A x \in H : x.at \in Nat /\ x.n \in Nat /\ x.at <= h /\ x.at + x.n <= h + 2
  BY HeadPieces
<1>3. \A x \in B : x.at \in Nat /\ x.n \in Nat /\ r <= x.at /\ 3 <= x.n
  BY <1>0, BodyPieces
<1>a. to = h + 2 + d + 1
  OBVIOUS
<1>b. C = {[x EXCEPT !.at = @ - (r - to)] : x \in B}
  <2> DEFINE f(x) == [x EXCEPT !.at = @ - (r - to)]
  <2>1. ASSUME NEW c, NEW q, c \in Int PROVE \A w : f(Piece(r + c, q, w)) = Piece(to + c, q, w)
    <3>1. (r + c) - (r - to) = to + c
      BY <1>0, <2>1
    <3> QED
      BY <3>1 DEF Piece
  <2>2. f(Piece(r, e[0], Is("35=", 0))) = Piece(to, e[0], Is("35=", 0))
    <3>1. r - (r - to) = to
      BY <1>0
    <3> QED
      BY <3>1 DEF Piece
  <2>3. \A k \in 0..(n - 1) : f(FieldPiece(r, e, k)) = FieldPiece(to, e, k)
    <3> TAKE k \in 0..(n - 1)
    <3>1. e[k] \in Int
      BY <1>0 DEF Rising
    <3> HIDE DEF f
    <3> QED
      BY <2>1, <3>1 DEF FieldPiece
  <2> HIDE DEF f
  <2>4. C = {f(x) : x \in B}
    BY <2>2, <2>3 DEF BodyText
  <2> QED
    BY <2>4 DEF f
<1> HIDE DEF p, H, B, C, d, to
<1>4. Store(H \union B, p) = H \union B \union {p}
  <2>1. ASSUME NEW x \in H \union B PROVE Apart(x, p)
    <3>1. CASE x \in H
      BY <1>1, <1>2, <3>1 DEF Apart
    <3>2. CASE x \in B
      BY <1>0, <1>1, <1>3, <1>a, <3>2 DEF Apart
    <3> QED
      BY <3>1, <3>2
  <2> QED
    BY <2>1, StoreAhead
<1>5. {x \in H \union B \union {p} : x.at + x.n <= to} = H \union {p}
  <2>1. \A x \in H : x.at + x.n <= to
    BY <1>0, <1>2, <1>a
  <2>2. p.at + p.n <= to
    BY <1>0, <1>1, <1>a
  <2>3. \A x \in B : ~(x.at + x.n <= to)
    BY <1>0, <1>3
  <2> QED
    BY <2>1, <2>2, <2>3
<1>6. {y \in H \union B \union {p} : y.at >= r} = B
  <2>1. \A x \in H : ~(x.at >= r)
    BY <1>0, <1>2, <1>a
  <2>2. ~(p.at >= r)
    BY <1>0, <1>1, <1>a
  <2>3. \A x \in B : x.at >= r
    BY <1>3
  <2> QED
    BY <2>1, <2>2, <2>3
<1>7. MoveBody(H \union B \union {p}, r, to) = H \union {p} \union C
  BY <1>5, <1>6, <1>b DEF MoveBody
<1> QED
  BY <1>4, <1>7 DEF p, H, B, C, d, to

-----------------------------------------------------------------------------
(* The states of a rendering *)

(* The length of tag 8, and that of the whole text *)
NameEnd == 3 + NameLen(m.slot[BEGIN_STRING].u)

WholeLen(e) == NameEnd + 2 + Digits(e[m.nflds] - 1) + 1 + e[m.nflds] + 6

(* The buffer is one in which all of the text finds room. *)
Fit(e) == own \/ z >= WholeLen(e) + 16

(* The room in front of the body *)
InFront ==
  /\ own \in BOOLEAN /\ z \in Nat /\ bsz \in Nat /\ blen \in Nat /\ j \in 0..m.nflds
  /\ hdrz = NameEnd /\ lenz \in {8, 16} /\ (Width(m.slot[BODY_LENGTH].u) <= 5 => lenz = 8)
  /\ totz \in Nat /\ hdrz + lenz <= totz /\ totz <= hdrz + lenz + PtrSize - 1 /\ totz <= 32

AtType ==
  /\ InFront /\ z = totz + bsz /\ blen = 0 /\ j = 0 /\ past = FALSE
  /\ own => bsz >= 19 + 8 * m.nflds + m.pz
  /\ text = HeadText(hdrz)

(* The buffer of the library has been enlarged, and lost the room in front *)
(* of the body, or it has not; either way it is large enough.               *)
AtFields(e) ==
  /\ InFront
  /\ own => bsz >= 19 + 8 * m.nflds + m.pz
  /\ \/ z = totz + bsz
     \/ own /\ z = bsz /\ m.nflds >= 1 /\ bsz >= 38 + 16 * m.nflds + 2 * m.pz
  /\ AllTexts /\ (own \/ z >= 41) => past = FALSE /\ blen <= bsz
  /\ AllTexts /\ Fit(e) => blen = e[j] /\ text = HeadText(hdrz) \union BodyText(totz, e, j)

AtLength(e) ==
  /\ InFront
  /\ ~own => z = bsz
  /\ AllTexts /\ own => totz + blen + 7 <= z /\ z <= bsz
  /\ AllTexts /\ (own \/ z >= 41) => past = FALSE /\ totz + blen <= z
  /\ AllTexts /\ Fit(e) =>
       blen = e[m.nflds] /\ text = HeadText(hdrz) \union BodyText(totz, e, m.nflds)

AtSum(e) ==
  /\ own \in BOOLEAN /\ z \in Nat /\ bsz \in Nat /\ blen \in Nat
  /\ hdrz = NameEnd + 2 + Digits(blen - 1) /\ totz = hdrz + 1 + blen
  /\ ~own => z = bsz /\ off = 0
  /\ Short => off \in Nat
  /\ Short /\ Width(m.slot[BODY_LENGTH].u) <= 5 => off < 2 * PtrSize
  /\ AllTexts /\ Short /\ own => off + totz + 7 <= z /\ z <= bsz
  /\ AllTexts /\ Short /\ (own \/ z >= 41) => past = FALSE /\ totz <= z
  /\ AllTexts /\ Short /\ Fit(e) =>
       /\ blen = e[m.nflds]
       /\ text = HeadText(NameEnd) \union {Number(NameEnd, blen)}
                   \union BodyText(hdrz + 1, e, m.nflds)

AtEnd(e) ==
  /\ own \in BOOLEAN /\ z \in Nat
  /\ Short /\ Width(m.slot[BODY_LENGTH].u) <= 5 =>
       off \in Nat /\ off < 2 * PtrSize /\ (rpc = "freed" => off = 0)
  /\ AllTexts /\ Short /\ (own \/ z >= 41) /\ past => ~own /\ z = totz
  /\ AllTexts /\ Short /\ Fit(e) =>
       LET l == e[m.nflds]
           b == NameEnd + 2 + Digits(l - 1) + 1
       IN  /\ totz = WholeLen(e)
           /\ text = HeadText(NameEnd) \union {Number(NameEnd, l)} \union BodyText(b, e, m.nflds)
                       \union {Piece(b + l, 6, Is("10=", b + l))}

Stage(e) ==
  /\ rpc = "type" => AtType
  /\ rpc = "fields" => AtFields(e)
  /\ rpc = "length" => AtLength(e)
  /\ rpc = "sum" => AtSum(e)
  /\ rpc \in {"done", "freed"} => AtEnd(e)

RndrInv ==
  /\ MsgInv
  /\ rpc \in {"edit", "type", "fields", "length", "sum", "done", "freed"}
  /\ rpc = "edit" => blen = 0 /\ j = 0 /\ past = FALSE /\ off = 0
  /\ Stated => \A e : IsEnds(e) => Stage(e)

-----------------------------------------------------------------------------
(* What the steps need *)

LEMMA Facts ==
  ASSUME MsgInv, Stated, NEW e, IsEnds(e)
  PROVE  /\ m.nflds \in Nat /\ m.pz \in Nat /\ Rising(e, m.nflds)
         /\ FldLen(m.f35) = e[0] /\ e[0] <= 9
         /\ NameEnd \in 3..14
         /\ Digits(e[m.nflds] - 1) \in 1..10
         /\ WholeLen(e) = NameEnd + 2 + Digits(e[m.nflds] - 1) + 1 + e[m.nflds] + 6
         /\ AllTexts => \A k \in 0..m.nflds : e[k] <= 9 + 6 * m.nflds + m.pz
<1> DEFINE n == m.nflds
<1>0. Inv /\ TextsOwn(m)
  BY DEF MsgInv
<1>1. WellTyped(m) /\ n \in Nat /\ m.pz \in Nat /\ m.f35 \in Fld
  BY <1>0, FieldsFound
<1>2. m.f35.typ \in {"MSGTYP", "CTXT"} /\ Found(m.f35)
  BY DEF Stated, Found
<1>3. e[0] = FldLen(m.f35) /\ 3 <= e[0] /\ e[0] <= 9
  <2>1. e[0] = FldLen(m.f35)
    BY DEF IsEnds
  <2> DEFINE d == Digits(m.f35.tag)
             v == ValLen(m.f35)
             l == FldLen(m.f35)
  <2>2. d \in 1..5 /\ v \in Nat /\ l = d + v + 2 /\ l <= 9
    BY <1>1, <1>2, FldLenIs, ValLenIs
  <2> HIDE DEF d, v, l
  <2>3. 3 <= l
    BY <2>2
  <2> QED
    BY <2>1, <2>2, <2>3 DEF l
<1>4. Rising(e, n)
  BY <1>0, <1>1, <1>3, EndsGrow DEF Rising, n
<1>5. NameEnd \in 3..14
  <2>1. NameLen(m.slot[BEGIN_STRING].u) \in 0..11
    BY NameLenIs
  <2> QED
    BY <2>1 DEF NameEnd
<1>6. Digits(e[n] - 1) \in 1..10
  <2>1. e[n] - 1 \in Int
    BY <1>1, <1>4 DEF Rising
  <2> QED
    BY <2>1, DigitsAre
<1>7. ASSUME AllTexts, NEW k \in 0..n PROVE e[k] <= 9 + 6 * n + m.pz
  <2>1. e[k] <= e[0] + 6 * k + m.pz
    BY <1>0, <1>7, Packed DEF n
  <2>2. e[k] \in Nat /\ e[0] \in Nat
    BY <1>1, <1>4 DEF Rising
  <2> QED
    BY <1>1, <1>3, <2>1, <2>2
<1> QED
  BY <1>1, <1>3, <1>4, <1>5, <1>6, <1>7 DEF WholeLen, n

LEMMA RoundPtr ==
  ASSUME NEW x \in Nat
  PROVE  /\ Round(x, PtrSize) \in Nat /\ x <= Round(x, PtrSize)
         /\ Round(x, PtrSize) <= x + PtrSize - 1
         /\ x <= 30 => Round(x, PtrSize) <= 32
<1>1. CASE PtrSize = 4
  <2>1. x <= Round(x, 4) /\ Round(x, 4) \in Nat /\ Round(x, 4) <= x + 3
        /\ (x <= 30 => Round(x, 4) <= 32)
    BY DEF Round
  <2>2. Round(x, PtrSize) = Round(x, 4) /\ x + PtrSize - 1 = x + 3
    BY <1>1
  <2> QED
    BY <2>1, <2>2
<1>2. CASE PtrSize = 8
  <2>1. x <= Round(x, 8) /\ Round(x, 8) \in Nat /\ Round(x, 8) <= x + 7
        /\ (x <= 30 => Round(x, 8) <= 32)
    BY DEF Round
  <2>2. Round(x, PtrSize) = Round(x, 8) /\ x + PtrSize - 1 = x + 7
    BY <1>2
  <2> QED
    BY <2>1, <2>2
<1> QED
  BY <1>1, <1>2, RoomAssumption

LEMMA RoundLen ==
  ASSUME NEW x \in Nat
  PROVE  /\ x <= Round(x, 8) /\ Round(x, 8) \in Nat /\ (1 <= x => 8 <= Round(x, 8))
         /\ x \in 1..8 => Round(x, 8) = 8
         /\ x \in 9..14 => Round(x, 8) = 16
  BY DEF Round

(* The ends stay where they are as long as the fields do. *)
LEMMA EndsStay ==
  ASSUME m'.nflds = m.nflds, m'.flds = m.flds, m'.f35 = m.f35, m'.pr = m.pr,
         NEW e, IsEnds(e)'
  PROVE  IsEnds(e)
<1>1. \A fld : FldLen(fld)' = FldLen(fld)
  BY DEF FldLen, ValLen
<1> QED
  BY <1>1 DEF IsEnds

(* The slots of tags 8, 9 and 10 may be set. *)
LEMMA SlotSet ==
  ASSUME MsgInv, NEW s \in [SlotTags -> Fld], m' = [m EXCEPT !.slot = s]
  PROVE  MsgInv' /\ m'.slot = s /\ m'.nflds = m.nflds /\ m'.flds = m.flds
         /\ m'.f35 = m.f35 /\ m'.pr = m.pr /\ m'.pz = m.pz
<1>1. /\ m' \in [ slot : [SlotTags -> Fld], f35 : Fld,
                  nflds : Nat, flds : [0..(m.nflds - 1) -> Fld],
                  store : {"none", "these", "heap"}, fspc : Nat, vspc : Nat,
                  pz : Nat, pr : {m.pr} ]
      /\ m'.slot = s /\ m'.f35 = m.f35
      /\ m'.nflds = m.nflds /\ m'.flds = m.flds /\ m'.store = m.store
      /\ m'.fspc = m.fspc /\ m'.vspc = m.vspc /\ m'.pz = m.pz /\ m'.pr = m.pr
  BY DEF MsgInv, Inv, GoodAt, Good, WellTyped
<1>2. Inv'
  BY <1>1 DEF MsgInv, Inv, GoodAt, Good, WellTyped, InRoom, AllocdVspc, TextsFound, TextsApart, Typed
<1>3. TextsOwn(m)'
  BY <1>1 DEF MsgInv, TextsOwn
<1> QED
  BY <1>1, <1>2, <1>3 DEF MsgInv

(* A version or a length *)
LEMMA HeaderFld ==
  ASSUME NEW fld, fld.typ \in {"VER", "INT"}, NEW room
  PROVE  LET r == RenderFld(fld, room)
             n == Key(fld.tag, room).n + ValLen(fld) + 1
         IN  r.n = n /\ r.key = Key(fld.tag, room) /\ r.past = (n > room)
             /\ r.whole = (r.key.whole /\ n <= room)
<1>1. ~(fld.typ = "OFF" /\ ValLen(fld) + 1 > room - Key(fld.tag, room).n)
      /\ ~(fld.typ = "UCHAR" /\ room - Key(fld.tag, room).n < 3)
  OBVIOUS
<1> QED
  BY <1>1, Zenon DEF RenderFld

LEMMA HeaderKey ==
  ASSUME NEW room \in Int, NEW tag, Digits(tag) = 1
  PROVE  Key(tag, room) = IF room >= 2 THEN [n |-> 2, whole |-> TRUE] ELSE [n |-> 0, whole |-> FALSE]
  BY DEF Key

-----------------------------------------------------------------------------
(* The steps *)

LEMMA EditStep == ASSUME RndrInv, Edit PROVE RndrInv'
<1>1. MsgInv'
  BY NextMsg DEF RndrInv, Edit
<1>2. UNCHANGED rndrvars /\ rpc = "edit"
  BY DEF Edit
<1>3. rpc' = "edit" /\ blen' = blen /\ j' = j /\ past' = past /\ off' = off
  BY <1>2 DEF rndrvars
<1>4. blen' = 0 /\ j' = 0 /\ past' = FALSE /\ off' = 0
  BY <1>2, <1>3 DEF RndrInv
<1>5. \A e : Stage(e)'
  BY <1>3 DEF Stage
<1> QED
  BY <1>1, <1>3, <1>4, <1>5 DEF RndrInv

(* Tags 8 and 9 are written, and room is left for any length. *)
LEMMA HeadStep ==
  ASSUME RndrInv, NEW mine \in BOOLEAN, NEW size \in Nat, mine => size = Estimate,
         RenderHead(mine, size)
  PROVE  RndrInv'
<1> DEFINE h == RenderFld(F8, size)
           l == RenderFld(F9, size - h.n)
           s == [m.slot EXCEPT ![BEGIN_STRING] = F8, ![BODY_LENGTH] = F9]
<1>0. /\ m.slot \in [SlotTags -> Fld] /\ m.nflds \in Nat /\ m.pz \in Nat
      /\ BEGIN_STRING \in SlotTags /\ BODY_LENGTH \in SlotTags /\ BEGIN_STRING # BODY_LENGTH
      /\ BEGIN_STRING \in Half /\ BODY_LENGTH \in Half
  BY DEF RndrInv, MsgInv, Inv, GoodAt, Good, WellTyped, SlotTags, BEGIN_STRING, BODY_LENGTH, Half
<1>1. /\ F8 \in Fld /\ F8.tag = BEGIN_STRING /\ F8.typ = m.slot[BEGIN_STRING].typ
      /\ F8.u = m.slot[BEGIN_STRING].u
  <2>1. m.slot[BEGIN_STRING] \in Fld
    BY <1>0
  <2> QED
    BY <1>0, <2>1 DEF F8, Fld
<1>2. /\ F9 \in Fld /\ F9.tag = BODY_LENGTH /\ F9.typ = m.slot[BODY_LENGTH].typ
      /\ F9.u = m.slot[BODY_LENGTH].u
  <2>1. m.slot[BODY_LENGTH] \in Fld
    BY <1>0
  <2> QED
    BY <1>0, <2>1 DEF F9, Fld
<1>3. s \in [SlotTags -> Fld] /\ s[BEGIN_STRING] = F8 /\ s[BODY_LENGTH] = F9
  BY <1>0, <1>1, <1>2
<1>4. m' = [m EXCEPT !.slot = s]
  BY <1>0 DEF RenderHead, RndrInv, MsgInv, Inv, GoodAt, Good, WellTyped
<1> HIDE DEF s
<1>5. MsgInv' /\ m'.slot = s /\ m'.nflds = m.nflds /\ m'.pz = m.pz /\ m'.f35 = m.f35
  BY <1>3, <1>4, SlotSet DEF RndrInv
<1>6. rpc' = "type" /\ rpc = "edit" /\ blen' = blen /\ j' = j /\ off' = off /\ own' = mine /\ z' = size
      /\ blen = 0 /\ j = 0
  BY DEF RenderHead, RndrInv
<1> SUFFICES ASSUME Stated' PROVE AtType'
  BY <1>5, <1>6 DEF RndrInv, Stage
<1>7. F8.typ = "VER" /\ F9.typ = "INT"
  BY <1>1, <1>2, <1>3, <1>5 DEF Stated
<1> DEFINE v8 == NameLen(F8.u)
           v9 == Width(F9.u)
<1>8. ValLen(F8) = v8 /\ ValLen(F9) = v9 /\ v8 \in 0..11 /\ v9 \in 1..11 /\ (Width(F9.u) <= 5 => v9 <= 5)
  <2>1. F9.u \in Int
    BY <1>2 DEF Fld
  <2>2. ValLen(F8) = v8 /\ ValLen(F9) = v9
    BY <1>7 DEF ValLen
  <2> QED
    BY <2>1, <2>2, NameLenIs, WidthIs
<1> HIDE DEF v8, v9
<1>9. /\ h.n = Key(F8.tag, size).n + v8 + 1 /\ h.past = (h.n > size)
      /\ h.key = Key(F8.tag, size) /\ h.whole = (h.key.whole /\ h.n <= size)
  BY <1>7, <1>8, HeaderFld
<1>10. /\ l.n = Key(F9.tag, size - h.n).n + v9 + 1 /\ l.past = (l.n > size - h.n)
       /\ l.key = Key(F9.tag, size - h.n)
  BY <1>7, <1>8, HeaderFld
<1>11. /\ hdrz' = h.n /\ lenz' = Round(l.n, 8) /\ totz' = Round(h.n + lenz', PtrSize)
       /\ bsz' = size - totz' /\ bsz' >= 0
       /\ text' = (LET t == Written({}, 0, h, Is("8=", 0))
                   IN  IF l.key.whole THEN Store(t, Piece(h.n, 2, Is("9=", 0))) ELSE t)
       /\ past' = (h.past \/ l.past)
  BY RoomAssumption DEF RenderHead, Room
<1> HIDE DEF h, l
<1>12. Digits(F8.tag) = 1 /\ Digits(F9.tag) = 1
  BY <1>1, <1>2, DigitsTags
<1>13. h.n \in Nat
  <2>1. Key(F8.tag, size).n \in {0, 2}
    BY <1>12, HeaderKey
  <2> QED
    BY <1>8, <1>9, <2>1
<1>14. l.n \in Nat /\ 1 <= l.n /\ size - h.n \in Int
  <2>1. size - h.n \in Int
    BY <1>13
  <2>2. Key(F9.tag, size - h.n).n \in {0, 2}
    BY <1>12, <2>1, HeaderKey
  <2> QED
    BY <1>8, <1>10, <2>1, <2>2
<1>15. 8 <= lenz' /\ lenz' \in Nat /\ l.n <= lenz'
  BY <1>11, <1>14, RoundLen
<1>16. totz' \in Nat /\ h.n + lenz' <= totz' /\ totz' <= h.n + lenz' + PtrSize - 1
       /\ (h.n + lenz' <= 30 => totz' <= 32)
  <2>1. h.n + lenz' \in Nat
    BY <1>13, <1>15
  <2> HIDE DEF v8, v9
  <2> QED
    BY <1>11, <2>1, RoundPtr
<1>17. size >= totz'
  BY <1>11, <1>16
<1>28. bsz' \in Nat /\ size = totz' + bsz'
  BY <1>11, <1>16
<1>18. h.n = 3 + v8 /\ h.key.whole = TRUE /\ h.n <= size
  <2>1. size >= 2
    BY <1>13, <1>15, <1>16, <1>17
  <2>2. Key(F8.tag, size) = [n |-> 2, whole |-> TRUE]
    <3>1. size \in Int
      OBVIOUS
    <3> QED
      BY <1>12, <2>1, <3>1, HeaderKey
  <2> QED
    BY <1>8, <1>9, <1>13, <1>15, <1>16, <1>17, <2>2
<1>19. l.n = 3 + v9 /\ l.key.whole = TRUE /\ l.n <= size - h.n
  <2>1. size - h.n >= 2
    BY <1>13, <1>15, <1>16, <1>17
  <2>2. Key(F9.tag, size - h.n) = [n |-> 2, whole |-> TRUE]
    BY <1>12, <1>14, <2>1, HeaderKey
  <2> QED
    BY <1>8, <1>10, <1>13, <1>14, <1>15, <1>16, <1>17, <2>2
<1>20. past' = FALSE
  <2>1. (h.n > size) = FALSE /\ (l.n > size - h.n) = FALSE
    BY <1>13, <1>14, <1>18, <1>19
  <2> QED
    BY <1>9, <1>10, <1>11, <2>1, Zenon
<1>21. text' = HeadText(h.n)
  <2>a. (h.n <= size) = TRUE /\ h.n # 0
    BY <1>8, <1>18
  <2>1. h.whole = TRUE /\ h.n # 0
    BY <1>9, <1>18, <2>a, Zenon
  <2>2. Written({}, 0, h, Is("8=", 0)) = {Piece(0, h.n, Is("8=", 0))}
    BY <2>1 DEF Written, Store
  <2> DEFINE p == Piece(0, h.n, Is("8=", 0))
             q == Piece(h.n, 2, Is("9=", 0))
  <2>3. text' = Store({p}, q)
    BY <1>11, <1>19, <2>2
  <2>4. \A x \in {p} : x.at + x.n <= q.at
    BY <1>13 DEF Piece
  <2> HIDE DEF p, q
  <2>5. Store({p}, q) = {p} \union {q}
    BY <2>4, StoreBehind
  <2>6. HeadText(h.n) = {p} \union {q}
    BY DEF HeadText, p, q
  <2> QED
    BY <2>3, <2>5, <2>6
<1>22. lenz' \in {8, 16} /\ (Width(F9.u) <= 5 => lenz' = 8)
  <2>1. l.n \in 1..8 \/ l.n \in 9..14
    BY <1>8, <1>19
  <2>2. Width(F9.u) <= 5 => l.n \in 1..8
    BY <1>8, <1>19
  <2> QED
    BY <1>11, <1>14, <2>1, <2>2, RoundLen
<1>23. totz' <= 32
  <2>1. h.n <= 14 /\ lenz' <= 16
    BY <1>8, <1>18, <1>22
  <2>2. h.n + lenz' <= 30
    BY <1>13, <1>15, <2>1
  <2> QED
    BY <1>16, <2>2
<1>24. NameEnd' = h.n
  <2>1. m'.slot[BEGIN_STRING].u = F8.u
    BY <1>3, <1>5
  <2> QED
    BY <1>18, <2>1 DEF NameEnd, v8
<1>25. mine => bsz' >= 19 + 8 * m.nflds + m.pz
  <2>1. mine => size = (4 + m.nflds) * 8 + m.pz + 16 + 3
    BY DEF Estimate
  <2>2. mine => size = 51 + 8 * m.nflds + m.pz
    BY <1>0, <2>1
  <2> QED
    BY <1>0, <1>16, <1>28, <1>23, <2>2
<1>26. m'.slot[BODY_LENGTH].u = F9.u
  BY <1>3, <1>5
<1>27. InFront'
  <2>1. 0 \in 0..m'.nflds /\ 0 \in Nat
    BY <1>0, <1>5
  <2> QED
    BY <1>6, <1>11, <1>15, <1>16, <1>28, <1>22, <1>23, <1>24, <1>26, <2>1 DEF InFront
<1> QED
  BY <1>5, <1>6, <1>11, <1>28, <1>20, <1>21, <1>25, <1>27 DEF AtType

(* Nothing but m is needed to know what the message is. *)
LEMMA SameMsg ==
  ASSUME RndrInv, m' = m
  PROVE  /\ MsgInv' /\ (Stated' => Stated) /\ (AllTexts' => AllTexts) /\ NameEnd' = NameEnd
         /\ m'.nflds = m.nflds /\ m'.pz = m.pz /\ m'.slot = m.slot
         /\ \A e : /\ IsEnds(e)' => IsEnds(e)
                   /\ WholeLen(e)' = WholeLen(e)
                   /\ own' = own /\ z' = z => (Fit(e)' => Fit(e))
<1>1. MsgInv' /\ (Stated' => Stated) /\ (AllTexts' => AllTexts)
  <2>1. MsgInv'
    BY NextMsg DEF RndrInv
  <2> QED
    BY <2>1 DEF Stated, AllTexts
<1>2. NameEnd' = NameEnd
  BY DEF NameEnd
<1>3. m'.nflds = m.nflds /\ m'.pz = m.pz /\ m'.slot = m.slot /\ m'.flds = m.flds
      /\ m'.f35 = m.f35 /\ m'.pr = m.pr
  OBVIOUS
<1>4. ASSUME NEW e PROVE /\ IsEnds(e)' => IsEnds(e)
                         /\ WholeLen(e)' = WholeLen(e)
                         /\ own' = own /\ z' = z => (Fit(e)' => Fit(e))
  <2>1. IsEnds(e)' => IsEnds(e)
    BY <1>3, EndsStay
  <2>2. WholeLen(e)' = WholeLen(e)
    BY <1>2 DEF WholeLen
  <2> QED
    BY <2>1, <2>2 DEF Fit
<1> QED
  BY <1>1, <1>2, <1>3, <1>4

LEMMA InFrontIs ==
  ASSUME InFront
  PROVE  /\ own \in BOOLEAN /\ z \in Nat /\ bsz \in Nat /\ hdrz = NameEnd /\ lenz \in {8, 16}
         /\ totz \in Nat /\ hdrz + lenz <= totz /\ totz <= hdrz + lenz + 7 /\ totz <= 32
         /\ blen \in Nat /\ j \in 0..m.nflds
<1>1. CASE PtrSize = 4
  <2>1. totz <= hdrz + lenz + 4 - 1 /\ NameEnd \in 3..14 /\ lenz \in {8, 16} /\ hdrz = NameEnd /\ totz \in Nat
    BY <1>1, NameLenIs DEF InFront, NameEnd
  <2>2. totz <= hdrz + lenz + 7
    BY <2>1
  <2> QED
    BY <2>2 DEF InFront
<1>2. CASE PtrSize = 8
  <2>1. totz <= hdrz + lenz + 8 - 1 /\ NameEnd \in 3..14 /\ lenz \in {8, 16} /\ hdrz = NameEnd /\ totz \in Nat
    BY <1>2, NameLenIs DEF InFront, NameEnd
  <2>2. totz <= hdrz + lenz + 7
    BY <2>1
  <2> QED
    BY <2>2 DEF InFront
<1> QED
  BY <1>1, <1>2, RoomAssumption

LEMMA TypeStep == ASSUME RndrInv, RenderType PROVE RndrInv'
<1>0. /\ rpc = "type" /\ rpc' = "fields" /\ m' = m /\ own' = own /\ z' = z /\ bsz' = bsz
      /\ hdrz' = hdrz /\ lenz' = lenz /\ totz' = totz /\ j' = j /\ off' = off
  BY DEF RenderType
<1>1. MsgInv /\ MsgInv'
  BY <1>0, SameMsg DEF RndrInv
<1> SUFFICES ASSUME Stated', NEW e, IsEnds(e)' PROVE AtFields(e)'
  BY <1>0, <1>1 DEF RndrInv, Stage
<1>2. /\ Stated /\ IsEnds(e) /\ (AllTexts' => AllTexts) /\ NameEnd' = NameEnd
      /\ m'.nflds = m.nflds /\ m'.pz = m.pz /\ m'.slot = m.slot
      /\ (Fit(e)' => Fit(e))
  BY <1>0, SameMsg
<1>3. AtType
  BY <1>0, <1>2 DEF RndrInv, Stage
<1> DEFINE n == m.nflds
           r == RenderFld(m.f35, bsz - blen)
<1>4. /\ n \in Nat /\ m.pz \in Nat /\ Rising(e, n) /\ FldLen(m.f35) = e[0] /\ e[0] <= 9
      /\ NameEnd \in 3..14 /\ Digits(e[n] - 1) \in 1..10
      /\ WholeLen(e) = NameEnd + 2 + Digits(e[n] - 1) + 1 + e[n] + 6
  BY <1>1, <1>2, Facts
<1>5. e[0] \in Nat /\ 3 <= e[0] /\ e[n] \in Nat /\ e[0] <= e[n]
  BY <1>4 DEF Rising
<1>6. InFront /\ z = totz + bsz /\ blen = 0 /\ j = 0 /\ past = FALSE /\ text = HeadText(hdrz)
      /\ (own => bsz >= 19 + 8 * n + m.pz)
  BY <1>3 DEF AtType
<1>7. /\ own \in BOOLEAN /\ z \in Nat /\ bsz \in Nat /\ hdrz = NameEnd /\ lenz \in {8, 16}
      /\ totz \in Nat /\ hdrz + lenz <= totz /\ totz <= hdrz + lenz + 7 /\ totz <= 32
  BY <1>6, InFrontIs
<1>8. bsz - blen = bsz
  BY <1>6, <1>7
<1>9. WellTyped(m) /\ m.f35 \in Fld /\ Found(m.f35)
  BY <1>1, <1>2, FieldsFound DEF MsgInv, Stated, Found
<1>10. /\ text' = Written(text, totz, r, Is("35=", 0))
       /\ blen' = r.n
       /\ past' = (past \/ r.past \/ totz + blen' > z)
  <2>1. /\ text' = Written(text, totz + blen, r, Is("35=", 0))
        /\ blen' = blen + r.n
        /\ past' = (past \/ r.past \/ totz + blen' > z')
    BY DEF RenderType, Render
  <2>2. totz + blen = totz /\ blen + r.n = r.n
    <3>1. r.n \in Nat
      BY <1>7, <1>8, <1>9, WrittenSize
    <3> HIDE DEF r
    <3> QED
      BY <1>6, <1>7, <3>1
  <2> QED
    BY <1>0, <2>1, <2>2, Zenon
<1>11. r.n \in Nat
  BY <1>7, <1>8, <1>9, WrittenSize
<1>12. CASE e[0] <= bsz
  <2>1. r = [n |-> e[0], key |-> [n |-> Digits(m.f35.tag) + 1, whole |-> TRUE],
             whole |-> TRUE, past |-> FALSE]
    <3>1. bsz - blen \in Int /\ FldLen(m.f35) <= bsz - blen
      BY <1>4, <1>7, <1>8, <1>12
    <3>2. r = [n |-> FldLen(m.f35), key |-> [n |-> Digits(m.f35.tag) + 1, whole |-> TRUE],
               whole |-> TRUE, past |-> FALSE]
      BY <1>9, <3>1, WrittenWhole
    <3> HIDE DEF r
    <3> QED
      BY <1>4, <3>2
  <2> HIDE DEF r
  <2>2. r.n = e[0] /\ r.whole = TRUE /\ r.past = FALSE
    BY <2>1
  <2>3. text' = HeadText(hdrz) \union BodyText(totz, e, 0)
    <3>1. text' = Store(HeadText(hdrz), Piece(totz, e[0], Is("35=", 0)))
      BY <1>5, <1>6, <1>10, <2>2 DEF Written
    <3>2. hdrz \in Nat /\ hdrz + 2 <= totz
      BY <1>4, <1>7
    <3> QED
      BY <1>7, <3>1, <3>2, StoreType
  <2>4. past' = FALSE /\ blen' = e[0]
    <3>1. (totz + blen' > z) = FALSE
      BY <1>5, <1>6, <1>7, <1>10, <1>12, <2>2
    <3> QED
      BY <1>6, <1>10, <2>2, <3>1, Zenon
  <2>5. InFront' /\ blen' <= bsz'
    BY <1>0, <1>2, <1>5, <1>6, <1>12, <2>4 DEF InFront
  <2> QED
    BY <1>0, <1>2, <1>6, <2>3, <2>4, <2>5 DEF AtFields
<1>13. CASE ~(e[0] <= bsz)
  <2>1. own = FALSE
    <3>1. own => bsz >= 19
      BY <1>4, <1>6, <1>7
    <3> QED
      BY <1>5, <1>4, <1>7, <1>13, <3>1
  <2>2. ~(z >= 41)
    BY <1>4, <1>5, <1>6, <1>7, <1>13
  <2>3. ~Fit(e)
    <3>1. WholeLen(e) \in Nat /\ WholeLen(e) >= NameEnd + 10 + e[n]
      BY <1>4, <1>5
    <3>2. ~(z >= WholeLen(e) + 16)
      BY <1>4, <1>5, <1>6, <1>7, <1>13, <3>1
    <3> QED
      BY <2>1, <3>2 DEF Fit
  <2>4. InFront'
    BY <1>0, <1>2, <1>6, <1>10, <1>11 DEF InFront
  <2> QED
    BY <1>0, <1>2, <1>6, <2>1, <2>2, <2>3, <2>4 DEF AtFields
<1> QED
  BY <1>12, <1>13

LEMMA EndStep == ASSUME RndrInv, EndFields PROVE RndrInv'
<1>0. /\ rpc = "fields" /\ rpc' = "length" /\ m' = m /\ own' = own /\ z' = z /\ bsz' = bsz + totz
      /\ hdrz' = hdrz /\ lenz' = lenz /\ totz' = totz /\ j' = j /\ blen' = blen
      /\ text' = text /\ past' = past
      /\ j = m.nflds \/ blen >= bsz
  BY DEF EndFields
<1>1. MsgInv /\ MsgInv'
  BY <1>0, SameMsg DEF RndrInv
<1> SUFFICES ASSUME Stated', NEW e, IsEnds(e)' PROVE AtLength(e)'
  BY <1>0, <1>1 DEF RndrInv, Stage
<1>2. /\ Stated /\ IsEnds(e) /\ (AllTexts' => AllTexts) /\ NameEnd' = NameEnd
      /\ m'.nflds = m.nflds /\ m'.pz = m.pz /\ m'.slot = m.slot
      /\ (Fit(e)' => Fit(e))
  BY <1>0, SameMsg
<1>3. AtFields(e)
  BY <1>0, <1>2 DEF RndrInv, Stage
<1> DEFINE n == m.nflds
<1>4. /\ n \in Nat /\ m.pz \in Nat /\ Rising(e, n) /\ NameEnd \in 3..14
      /\ Digits(e[n] - 1) \in 1..10
      /\ WholeLen(e) = NameEnd + 2 + Digits(e[n] - 1) + 1 + e[n] + 6
      /\ (AllTexts => \A k \in 0..n : e[k] <= 9 + 6 * n + m.pz)
  BY <1>1, <1>2, Facts
<1>5. /\ own \in BOOLEAN /\ z \in Nat /\ bsz \in Nat /\ hdrz = NameEnd /\ lenz \in {8, 16}
      /\ totz \in Nat /\ hdrz + lenz <= totz /\ totz <= hdrz + lenz + 7 /\ totz <= 32
      /\ blen \in Nat /\ j \in 0..n
  BY <1>3, InFrontIs DEF AtFields
<1>6. /\ own => bsz >= 19 + 8 * n + m.pz
      /\ \/ z = totz + bsz
         \/ own /\ z = bsz /\ n >= 1 /\ bsz >= 38 + 16 * n + 2 * m.pz
      /\ AllTexts /\ (own \/ z >= 41) => past = FALSE /\ blen <= bsz
      /\ AllTexts /\ Fit(e) => blen = e[j] /\ text = HeadText(hdrz) \union BodyText(totz, e, j)
  BY <1>3 DEF AtFields
<1>7. InFront'
  <2>1. bsz + totz \in Nat
    BY <1>5
  <2> QED
    BY <1>0, <1>2, <1>3, <2>1 DEF AtFields, InFront
<1>8. ~own => z = bsz + totz
  BY <1>5, <1>6
<1>9. ASSUME AllTexts, Fit(e) PROVE j = n /\ blen = e[n]
  <2>1. blen = e[j]
    BY <1>6, <1>9
  <2>2. e[n] < bsz \/ (~own /\ e[n] <= bsz)
    <3>1. CASE own
      <4>1. n \in 0..n /\ e[n] \in Nat /\ e[n] <= 9 + 6 * n + m.pz
        BY <1>4, <1>9 DEF Rising
      <4> QED
        BY <1>4, <1>5, <1>6, <3>1, <4>1
    <3>2. CASE ~own
      <4>1. z >= WholeLen(e) + 16
        BY <1>9, <3>2 DEF Fit
      <4>2. n \in 0..n /\ e[n] \in Nat
        BY <1>4 DEF Rising
      <4>3. z = totz + bsz
        BY <1>6, <3>2
      <4>4. WholeLen(e) >= NameEnd + 10 + e[n]
        BY <1>4, <4>2
      <4>5. WholeLen(e) \in Nat
        BY <1>4, <4>2
      <4> QED
        BY <1>4, <1>5, <3>2, <4>1, <4>2, <4>3, <4>4, <4>5
    <3> QED
      BY <3>1, <3>2
  <2>3. CASE j # n
    <3>1. j \in 0..(n - 1) /\ j + 1 \in 0..n /\ n \in 0..n
      BY <1>4, <1>5, <2>3
    <3>2. e[j] + 3 <= e[j + 1] /\ e[j + 1] <= e[n] /\ e[j] \in Nat /\ e[n] \in Nat /\ e[j + 1] \in Nat
      BY <1>4, <1>5, <3>1 DEF Rising
    <3>3. blen >= bsz
      BY <1>0, <2>3
    <3> QED
      BY <1>5, <2>1, <2>2, <3>2, <3>3
  <2> QED
    BY <2>1, <2>3
<1>10. ASSUME AllTexts, own PROVE totz + blen + 7 <= z /\ z <= bsz + totz
  <2>1. Fit(e)
    BY <1>10 DEF Fit
  <2>2. blen = e[n]
    BY <1>9, <1>10, <2>1
  <2>3. e[n] \in Nat /\ e[n] <= 9 + 6 * n + m.pz
    BY <1>4, <1>10 DEF Rising
  <2>4. CASE z = totz + bsz
    BY <1>4, <1>5, <1>6, <1>10, <2>2, <2>3, <2>4
  <2>5. CASE z = bsz /\ n >= 1 /\ bsz >= 38 + 16 * n + 2 * m.pz
    BY <1>4, <1>5, <2>2, <2>3, <2>5
  <2> QED
    BY <1>6, <1>10, <2>4, <2>5
<1>11. ASSUME AllTexts, own \/ z >= 41 PROVE past = FALSE /\ totz + blen <= z
  <2>1. past = FALSE /\ blen <= bsz
    BY <1>6, <1>11
  <2>2. CASE own
    BY <1>5, <1>10, <1>11, <2>1, <2>2
  <2>3. CASE ~own
    BY <1>5, <1>8, <2>1, <2>3
  <2> QED
    BY <2>1, <2>2, <2>3
<1>12. ASSUME AllTexts, Fit(e)
       PROVE  blen = e[n] /\ text = HeadText(hdrz) \union BodyText(totz, e, n)
  <2>1. j = n /\ blen = e[n]
    BY <1>9, <1>12
  <2>2. text = HeadText(hdrz) \union BodyText(totz, e, j)
    BY <1>6, <1>12
  <2> QED
    BY <2>1, <2>2
<1>13. past' = past /\ text' = text /\ blen' = blen
  BY <1>0
<1> QED
  BY <1>0, <1>2, <1>7, <1>8, <1>10, <1>11, <1>12 DEF AtLength

LEMMA FieldStep == ASSUME RndrInv, RenderField PROVE RndrInv'
<1> DEFINE n == m.nflds
           f == m.flds[j]
           room == bsz' - blen
           r == RenderFld(f, room)
<1>0. /\ rpc = "fields" /\ rpc' = "fields" /\ m' = m /\ own' = own
      /\ hdrz' = hdrz /\ lenz' = lenz /\ totz' = totz /\ j' = j + 1 /\ j < n /\ blen < bsz
      /\ bsz' = Resized /\ z' = (IF bsz' = bsz THEN z ELSE bsz')
      /\ text' = Written(text, totz + blen, r, Is("field", j))
      /\ blen' = blen + r.n
      /\ past' = (past \/ r.past \/ totz + blen' > z')
  BY DEF RenderField, Render
<1>1. MsgInv /\ MsgInv'
  BY <1>0, SameMsg DEF RndrInv
<1> HIDE DEF r
<1> SUFFICES ASSUME Stated', NEW e, IsEnds(e)' PROVE AtFields(e)'
  BY <1>0, <1>1 DEF RndrInv, Stage
<1>2. /\ Stated /\ IsEnds(e) /\ (AllTexts' => AllTexts) /\ NameEnd' = NameEnd
      /\ m'.nflds = m.nflds /\ m'.pz = m.pz /\ m'.slot = m.slot /\ WholeLen(e)' = WholeLen(e)
  BY <1>0, SameMsg
<1>3. AtFields(e)
  BY <1>0, <1>2 DEF RndrInv, Stage
<1>4. /\ n \in Nat /\ m.pz \in Nat /\ Rising(e, n) /\ NameEnd \in 3..14
      /\ Digits(e[n] - 1) \in 1..10
      /\ WholeLen(e) = NameEnd + 2 + Digits(e[n] - 1) + 1 + e[n] + 6
      /\ (AllTexts => \A k \in 0..n : e[k] <= 9 + 6 * n + m.pz)
  BY <1>1, <1>2, Facts
<1>5. /\ own \in BOOLEAN /\ z \in Nat /\ bsz \in Nat /\ hdrz = NameEnd /\ lenz \in {8, 16}
      /\ totz \in Nat /\ hdrz + lenz <= totz /\ totz <= hdrz + lenz + 7 /\ totz <= 32
      /\ blen \in Nat /\ j \in 0..n
  BY <1>3, InFrontIs DEF AtFields
<1>6. /\ own => bsz >= 19 + 8 * n + m.pz
      /\ \/ z = totz + bsz
         \/ own /\ z = bsz /\ n >= 1 /\ bsz >= 38 + 16 * n + 2 * m.pz
      /\ AllTexts /\ (own \/ z >= 41) => past = FALSE /\ blen <= bsz
      /\ AllTexts /\ Fit(e) => blen = e[j] /\ text = HeadText(hdrz) \union BodyText(totz, e, j)
  BY <1>3 DEF AtFields
<1>7. j \in 0..(n - 1) /\ j + 1 \in 0..n /\ n \in 0..n /\ j \in 0..n /\ n >= 1
  BY <1>0, <1>4, <1>5
<1>8. \/ bsz' = bsz /\ z' = z
      \/ own /\ bsz' = 2 * bsz /\ z' = 2 * bsz
  <2>1. bsz' = bsz \/ (own /\ bsz' = 2 * bsz)
    BY <1>0 DEF Resized
  <2> QED
    BY <1>0, <2>1
<1>9. bsz' \in Nat /\ bsz' >= bsz /\ z' \in Nat
  BY <1>5, <1>8
<1>10. room \in Nat /\ room # 0 /\ blen + room = bsz'
  BY <1>0, <1>5, <1>9
<1> HIDE DEF room
<1>11. WellTyped(m) /\ f \in Fld /\ Found(f)
  BY <1>1, <1>7, FieldsFound DEF MsgInv
<1>12. r.n \in Nat /\ (f.typ = "OFF" => r.past = FALSE /\ r.n <= room)
  BY <1>10, <1>11, WrittenSize DEF r
<1>13. blen' \in Nat /\ blen' = blen + r.n
  BY <1>0, <1>5, <1>12
<1>14. InFront'
  BY <1>0, <1>2, <1>3, <1>7, <1>9, <1>13 DEF AtFields, InFront
<1>15. own => bsz' >= 19 + 8 * n + m.pz
  BY <1>4, <1>5, <1>6, <1>9
<1>16. \/ z' = totz + bsz'
       \/ own /\ z' = bsz' /\ n >= 1 /\ bsz' >= 38 + 16 * n + 2 * m.pz
  <2>1. CASE bsz' = bsz /\ z' = z
    BY <1>6, <2>1
  <2>2. CASE own /\ bsz' = 2 * bsz /\ z' = 2 * bsz
    <3>1. 2 * bsz >= 38 + 16 * n + 2 * m.pz
      BY <1>4, <1>5, <1>6, <2>2
    <3> QED
      BY <1>7, <2>2, <3>1
  <2> QED
    BY <1>8, <2>1, <2>2
<1>17. ASSUME AllTexts, Fit(e)'
       PROVE  /\ blen' = e[j + 1] /\ text' = HeadText(hdrz) \union BodyText(totz, e, j + 1)
              /\ r.past = FALSE
  <2>1. Fit(e)
    <3>1. CASE own
      BY <3>1 DEF Fit
    <3>2. CASE ~own
      <4>1. z' = z
        BY <1>8, <3>2
      <4> QED
        BY <1>0, <1>2, <1>17, <3>2, <4>1 DEF Fit
    <3> QED
      BY <3>1, <3>2
  <2>2. blen = e[j] /\ text = HeadText(hdrz) \union BodyText(totz, e, j)
    BY <1>6, <1>17, <2>1
  <2>3. /\ e[j] \in Nat /\ e[j + 1] \in Nat /\ e[n] \in Nat /\ e[j] + 3 <= e[j + 1]
        /\ e[j + 1] <= e[n]
    BY <1>7, <1>4 DEF Rising
  <2>4. e[n] <= bsz'
    <3>1. CASE own
      <4>1. e[n] <= 9 + 6 * n + m.pz
        BY <1>4, <1>7, <1>17
      <4> QED
        BY <1>4, <1>9, <1>15, <2>3, <3>1, <4>1
    <3>2. CASE ~own
      <4>1. z >= WholeLen(e) + 16 /\ z = totz + bsz /\ bsz' = bsz
        BY <1>6, <1>8, <2>1, <3>2 DEF Fit
      <4>2. WholeLen(e) \in Nat /\ WholeLen(e) >= NameEnd + 10 + e[n]
        BY <1>4, <2>3
      <4> QED
        BY <1>4, <1>5, <2>3, <4>1, <4>2
    <3> QED
      BY <3>1, <3>2
  <2>5. FldLen(f) = e[j + 1] - e[j]
    <3>1. e[j + 1] = e[j] + FldLen(f) /\ FldLen(f) \in Nat
      BY <1>2, <1>7, <1>11, FldLenIs DEF IsEnds
    <3> QED
      BY <2>3, <3>1
  <2>6. room \in Int /\ FldLen(f) <= room
    BY <1>5, <1>10, <2>2, <2>3, <2>4, <2>5
  <2>7. r = [n |-> FldLen(f), key |-> [n |-> Digits(f.tag) + 1, whole |-> TRUE],
             whole |-> TRUE, past |-> FALSE]
    BY <1>11, <2>6, WrittenWhole DEF r
  <2>8. r.n = e[j + 1] - e[j] /\ r.whole = TRUE /\ r.past = FALSE /\ r.n # 0
    BY <2>3, <2>5, <2>7
  <2>9. text' = Store(text, FieldPiece(totz, e, j))
    BY <1>0, <2>2, <2>8 DEF Written, FieldPiece
  <2>10. hdrz \in Nat /\ hdrz + 2 <= totz
    BY <1>4, <1>5
  <2>11. text' = HeadText(hdrz) \union BodyText(totz, e, j + 1)
    <3>1. Rising(e, n) /\ hdrz \in Nat /\ totz \in Nat /\ hdrz + 2 <= totz /\ j \in 0..(n - 1)
      BY <1>4, <1>5, <1>7, <2>10
    <3> HIDE DEF n, f
    <3>2. Store(HeadText(hdrz) \union BodyText(totz, e, j), FieldPiece(totz, e, j))
            = HeadText(hdrz) \union BodyText(totz, e, j + 1)
      BY <3>1, StoreField
    <3> QED
      BY <2>2, <2>9, <3>2
  <2>12. blen' = e[j + 1]
    BY <1>13, <2>2, <2>3, <2>8
  <2> QED
    BY <2>8, <2>11, <2>12
<1>18. ASSUME AllTexts, own \/ z' >= 41 PROVE past' = FALSE /\ blen' <= bsz'
  <2>1. past = FALSE
    BY <1>6, <1>8, <1>18
  <2>2. f.typ = "OFF"
    BY <1>7, <1>18 DEF AllTexts
  <2>3. r.past = FALSE /\ blen' <= bsz'
    BY <1>5, <1>10, <1>12, <1>13, <2>2
  <2>4. totz + blen' <= z'
    <3>1. CASE z' = totz + bsz'
      BY <1>5, <1>9, <1>13, <2>3, <3>1
    <3>2. CASE own /\ z' = bsz' /\ n >= 1 /\ bsz' >= 38 + 16 * n + 2 * m.pz
      <4>1. Fit(e)'
        BY <1>0, <3>2 DEF Fit
      <4>2. blen' = e[j + 1]
        BY <1>17, <1>18, <4>1
      <4>3. e[j + 1] \in Nat /\ e[j + 1] <= 9 + 6 * n + m.pz
        BY <1>4, <1>7, <1>18 DEF Rising
      <4> QED
        BY <1>4, <1>5, <1>9, <3>2, <4>2, <4>3
    <3> QED
      BY <1>16, <3>1, <3>2
  <2>5. (totz + blen' > z') = FALSE
    BY <1>5, <1>9, <1>13, <2>4
  <2> QED
    BY <1>0, <2>1, <2>3, <2>5, Zenon
<1> QED
  BY <1>0, <1>2, <1>14, <1>15, <1>16, <1>17, <1>18 DEF AtFields

LEMMA LengthStep == ASSUME RndrInv, PasteLength PROVE RndrInv'
<1> DEFINE n == m.nflds
           d == Digits(blen - 1)
           fits == lenz = 0 \/ d <= lenz - 2
           hz == hdrz + 2 + d
           num == Store(text, Piece(hdrz + 2, d + 1, IF fits THEN Is("length", blen - 1) ELSE Junk))
<1>0. /\ rpc = "length" /\ rpc' = "sum" /\ m' = m /\ own' = own /\ z' = z /\ bsz' = bsz
      /\ blen' = blen /\ past' = past
      /\ text' = MoveBody(num, totz, hz + 1)
      /\ off' = IF own THEN totz - hz - 1 ELSE 0
      /\ hdrz' = hz /\ totz' = hz + 1 + blen
  BY DEF PasteLength
<1>1. MsgInv /\ MsgInv'
  BY <1>0, SameMsg DEF RndrInv
<1> HIDE DEF num
<1> SUFFICES ASSUME Stated', NEW e, IsEnds(e)' PROVE AtSum(e)'
  BY <1>0, <1>1 DEF RndrInv, Stage
<1>2. /\ Stated /\ IsEnds(e) /\ (AllTexts' => AllTexts) /\ NameEnd' = NameEnd
      /\ m'.nflds = m.nflds /\ m'.pz = m.pz /\ m'.slot = m.slot /\ (Fit(e)' => Fit(e))
  BY <1>0, SameMsg
<1>3. AtLength(e)
  BY <1>0, <1>2 DEF RndrInv, Stage
<1>4. /\ n \in Nat /\ m.pz \in Nat /\ Rising(e, n) /\ NameEnd \in 3..14
  BY <1>1, <1>2, Facts
<1>5. /\ own \in BOOLEAN /\ z \in Nat /\ bsz \in Nat /\ hdrz = NameEnd /\ lenz \in {8, 16}
      /\ totz \in Nat /\ hdrz + lenz <= totz /\ totz <= hdrz + lenz + 7 /\ totz <= 32
      /\ blen \in Nat /\ j \in 0..n
  BY <1>3, InFrontIs DEF AtLength
<1>6. /\ ~own => z = bsz
      /\ AllTexts /\ own => totz + blen + 7 <= z /\ z <= bsz
      /\ AllTexts /\ (own \/ z >= 41) => past = FALSE /\ totz + blen <= z
      /\ AllTexts /\ Fit(e) => blen = e[n] /\ text = HeadText(hdrz) \union BodyText(totz, e, n)
  BY <1>3 DEF AtLength
<1>7. d \in 1..10 /\ (Short => d <= 5)
  <2>1. blen - 1 \in Int /\ (Short => blen - 1 < 100000)
    BY <1>5 DEF Short
  <2> QED
    BY <2>1, DigitsAre, DigitsSmall
<1>8. Short' = Short
  BY <1>0 DEF Short
<1>9. /\ hdrz' = NameEnd' + 2 + Digits(blen' - 1) /\ totz' = hdrz' + 1 + blen'
  BY <1>0, <1>2, <1>5
<1> HIDE DEF d
<1>10. Short => hz + 1 \in Nat /\ hz + 1 <= totz
  BY <1>4, <1>5, <1>7
<1>11. off' = IF own THEN totz - (hz + 1) ELSE 0
  <2>1. totz - hz - 1 = totz - (hz + 1)
    BY <1>4, <1>5, <1>7
  <2> QED
    BY <1>0, <2>1
<1>12. Short => off' \in Nat
  BY <1>5, <1>10, <1>11
<1>13. Short /\ Width(m.slot[BODY_LENGTH].u) <= 5 => off' < 2 * PtrSize
  <2> SUFFICES ASSUME Short, Width(m.slot[BODY_LENGTH].u) <= 5 PROVE off' < 2 * PtrSize
    OBVIOUS
  <2>1. lenz = 8 /\ totz <= hdrz + lenz + PtrSize - 1
    BY <1>3 DEF AtLength, InFront
  <2>2. CASE PtrSize = 4
    <3>1. totz <= hdrz + 8 + 4 - 1
      BY <2>1, <2>2
    <3>2. off' < 8
      BY <1>4, <1>5, <1>7, <1>11, <3>1
    <3> QED
      BY <2>2, <3>2
  <2>3. CASE PtrSize = 8
    <3>1. totz <= hdrz + 8 + 8 - 1
      BY <2>1, <2>3
    <3>2. off' < 16
      BY <1>4, <1>5, <1>7, <1>11, <3>1
    <3> QED
      BY <2>3, <3>2
  <2> QED
    BY <2>2, <2>3, RoomAssumption
<1>14. ASSUME AllTexts, Short, own PROVE off' + totz' + 7 <= z /\ z <= bsz
  <2>1. totz + blen + 7 <= z /\ z <= bsz
    BY <1>6, <1>14
  <2>2. off' = totz - (hz + 1) /\ totz' = (hz + 1) + blen
    BY <1>0, <1>11, <1>14
  <2>3. off' + totz' = totz + blen
    BY <1>4, <1>5, <1>7, <2>2
  <2> QED
    BY <1>5, <2>1, <2>3
<1>15. ASSUME AllTexts, Short, own \/ z >= 41 PROVE past = FALSE /\ totz' <= z
  <2>1. past = FALSE /\ totz + blen <= z
    BY <1>6, <1>15
  <2>2. hz + 1 \in Nat /\ hz + 1 <= totz /\ totz' = hz + 1 + blen
    BY <1>0, <1>10, <1>15
  <2> HIDE DEF hz
  <2> QED
    BY <1>5, <2>1, <2>2
<1>16. ASSUME AllTexts, Short, Fit(e)
       PROVE  /\ blen = e[n]
              /\ text' = HeadText(NameEnd) \union {Number(NameEnd, blen)}
                           \union BodyText(hz + 1, e, n)
  <2>1. blen = e[n] /\ text = HeadText(NameEnd) \union BodyText(totz, e, n)
    BY <1>5, <1>6, <1>16
  <2>2. fits
    BY <1>5, <1>7, <1>16
  <2>3. num = Store(HeadText(NameEnd) \union BodyText(totz, e, n), Number(NameEnd, blen))
    BY <1>5, <2>1, <2>2 DEF num, Number, d
  <2>4. hz + 1 = NameEnd + 2 + Digits(blen - 1) + 1
    BY <1>5 DEF d
  <2>5. NameEnd \in Nat /\ Digits(blen - 1) \in Nat /\ NameEnd + 2 + Digits(blen - 1) + 1 <= totz
    <3>1. d \in Nat /\ hz + 1 <= totz
      BY <1>7, <1>10, <1>16
    <3> QED
      BY <1>4, <2>4, <3>1 DEF d
  <2> DEFINE to == NameEnd + 2 + Digits(blen - 1) + 1
  <2>6. text' = MoveBody(num, totz, to)
    BY <1>0, <2>4
  <2>7. MoveBody(num, totz, to)
          = HeadText(NameEnd) \union {Number(NameEnd, blen)} \union BodyText(to, e, n)
    BY <1>4, <1>5, <2>3, <2>5, MoveUp
  <2> QED
    BY <2>1, <2>4, <2>6, <2>7
<1>17. hdrz' + 1 = hz + 1
  BY <1>0
<1> HIDE DEF hz, n
<1>18. ~own => z = bsz /\ off' = 0
  BY <1>6, <1>11
<1>19. /\ own' = own /\ z' = z /\ bsz' = bsz /\ blen' = blen /\ past' = past
       /\ m'.nflds = n /\ m'.slot = m.slot
  BY <1>0, <1>2 DEF n
<1>20. ASSUME AllTexts', Short', Fit(e)'
       PROVE  /\ blen' = e[m'.nflds]
              /\ text' = HeadText(NameEnd') \union {Number(NameEnd', blen')}
                           \union BodyText(hdrz' + 1, e, m'.nflds)
  BY <1>2, <1>8, <1>16, <1>17, <1>19, <1>20
<1>21. /\ own' \in BOOLEAN /\ z' \in Nat /\ bsz' \in Nat /\ blen' \in Nat
       /\ ~own' => z' = bsz' /\ off' = 0
       /\ Short' => off' \in Nat
       /\ Short' /\ Width(m'.slot[BODY_LENGTH].u) <= 5 => off' < 2 * PtrSize
  BY <1>5, <1>8, <1>12, <1>13, <1>18, <1>19
<1>22. /\ AllTexts' /\ Short' /\ own' => off' + totz' + 7 <= z' /\ z' <= bsz'
       /\ AllTexts' /\ Short' /\ (own' \/ z' >= 41) => past' = FALSE /\ totz' <= z'
  BY <1>2, <1>8, <1>14, <1>15, <1>19
<1> QED
  BY <1>9, <1>20, <1>21, <1>22 DEF AtSum

LEMMA SumFld ==
  /\ F10 \in Fld
  /\ \A room \in Int : room >= 6 => RenderFld(F10, room).n = 7
<1>1. F10 \in Fld /\ F10.typ = "UCHAR" /\ F10.tag = CHECK_SUM
  <2>1. CHECK_SUM \in Half /\ TAG_UNK \in Half /\ 0 \in Half /\ "OFF" \in Typ /\ "UCHAR" \in Typ
    <3>1. CHECK_SUM \in Half
      BY DEF CHECK_SUM, Half
    <3> QED
      BY <3>1, Halves, Kinds
  <2>2. NoFld \in Fld
    BY <2>1 DEF NoFld, Fld
  <2> QED
    BY <2>1, <2>2 DEF F10, Fld
<1>2. ASSUME NEW room \in Int, room >= 6 PROVE RenderFld(F10, room).n = 7
  <2>1. Key(F10.tag, room) = [n |-> 3, whole |-> TRUE]
    BY <1>1, <1>2, DigitsTags DEF Key
  <2>2. ValLen(F10) = 3
    BY <1>1 DEF ValLen
  <2>3. Key(F10.tag, room).n = 3 /\ ~(room - 3 < 3) /\ 3 + 3 + 1 = 7
    BY <1>2, <2>1
  <2> DEFINE r == RenderFld(F10, room)
  <2>4. r = [n |-> 7, key |-> Key(F10.tag, room),
                                whole |-> Key(F10.tag, room).whole /\ 7 <= room, past |-> 7 > room]
    BY <1>1, <2>2, <2>3, Zenon DEF RenderFld
  <2> HIDE DEF r
  <2>5. r.n = 7
    BY <2>4
  <2> QED
    BY <2>5 DEF r
<1> QED
  BY <1>1, <1>2

(* Of the message, the check sum's slot is all that PasteSum may set. *)
LEMMA SumMsg ==
  ASSUME RndrInv, PasteSum
  PROVE  /\ MsgInv' /\ (Stated' => Stated) /\ (AllTexts' => AllTexts) /\ NameEnd' = NameEnd
         /\ m'.nflds = m.nflds /\ m'.slot[BODY_LENGTH].u = m.slot[BODY_LENGTH].u
         /\ \A e : /\ IsEnds(e)' => IsEnds(e)
                   /\ WholeLen(e)' = WholeLen(e)
<1> DEFINE s == [m.slot EXCEPT ![CHECK_SUM] = F10]
<1>0. /\ m.slot \in [SlotTags -> Fld]
      /\ BEGIN_STRING \in SlotTags /\ BODY_LENGTH \in SlotTags /\ CHECK_SUM \in SlotTags
      /\ CHECK_SUM # BEGIN_STRING /\ CHECK_SUM # BODY_LENGTH
  BY DEF RndrInv, MsgInv, Inv, GoodAt, Good, WellTyped, SlotTags, BEGIN_STRING, BODY_LENGTH, CHECK_SUM
<1>1. s \in [SlotTags -> Fld]
  BY <1>0, SumFld
<1>2. s[BEGIN_STRING] = m.slot[BEGIN_STRING] /\ s[BODY_LENGTH] = m.slot[BODY_LENGTH]
  BY <1>0
<1>3. m' = m \/ m' = [m EXCEPT !.slot = s]
  BY DEF PasteSum, RndrInv, MsgInv, Inv, GoodAt, Good, WellTyped
<1> HIDE DEF s
<1>4. /\ MsgInv' /\ m'.nflds = m.nflds /\ m'.flds = m.flds /\ m'.f35 = m.f35 /\ m'.pr = m.pr
      /\ m'.slot[BEGIN_STRING] = m.slot[BEGIN_STRING] /\ m'.slot[BODY_LENGTH] = m.slot[BODY_LENGTH]
  <2>1. CASE m' = m
    BY <2>1, SameMsg
  <2>2. CASE m' = [m EXCEPT !.slot = s]
    BY <1>1, <1>2, <2>2, SlotSet DEF RndrInv
  <2> QED
    BY <1>3, <2>1, <2>2
<1>5. NameEnd' = NameEnd
  BY <1>4 DEF NameEnd
<1>6. (Stated' => Stated) /\ (AllTexts' => AllTexts)
  BY <1>4 DEF Stated, AllTexts
<1>7. ASSUME NEW e PROVE (IsEnds(e)' => IsEnds(e)) /\ WholeLen(e)' = WholeLen(e)
  <2>1. IsEnds(e)' => IsEnds(e)
    BY <1>4, EndsStay
  <2>2. WholeLen(e)' = WholeLen(e)
    BY <1>4, <1>5 DEF WholeLen
  <2> QED
    BY <2>1, <2>2
<1> QED
  BY <1>4, <1>5, <1>6, <1>7

LEMMA SumStep == ASSUME RndrInv, PasteSum PROVE RndrInv'
<1> DEFINE n == m.nflds
           pasted == own \/ totz + 5 < bsz
           r == RenderFld(F10, bsz - totz)
<1>0. /\ rpc = "sum" /\ rpc' = "done" /\ own' = own /\ z' = z /\ blen' = blen /\ off' = off
      /\ past' = (past \/ off + totz' >= z)
      /\ pasted => /\ text' = Store(text, Piece(totz, r.n - 1, IF r.n = 7 THEN Is("10=", totz) ELSE Junk))
                   /\ totz' = totz + r.n - 1
      /\ ~pasted => text' = text /\ totz' = totz
  BY DEF PasteSum
<1>1. MsgInv /\ MsgInv'
  BY SumMsg DEF RndrInv
<1> HIDE DEF r, pasted
<1> SUFFICES ASSUME Stated', NEW e, IsEnds(e)' PROVE AtEnd(e)'
  BY <1>0, <1>1 DEF RndrInv, Stage
<1>2. /\ Stated /\ IsEnds(e) /\ (AllTexts' => AllTexts) /\ NameEnd' = NameEnd
      /\ m'.nflds = m.nflds /\ m'.slot[BODY_LENGTH].u = m.slot[BODY_LENGTH].u
      /\ WholeLen(e)' = WholeLen(e)
  BY SumMsg
<1>3. AtSum(e)
  BY <1>0, <1>2 DEF RndrInv, Stage
<1>4. /\ n \in Nat /\ n \in 0..n /\ Rising(e, n) /\ NameEnd \in 3..14
      /\ WholeLen(e) = NameEnd + 2 + Digits(e[n] - 1) + 1 + e[n] + 6
      /\ Digits(e[n] - 1) \in 1..10
  BY <1>1, <1>2, Facts
<1>5. /\ own \in BOOLEAN /\ z \in Nat /\ bsz \in Nat /\ blen \in Nat
      /\ hdrz = NameEnd + 2 + Digits(blen - 1) /\ totz = hdrz + 1 + blen
      /\ ~own => z = bsz /\ off = 0
      /\ Short => off \in Nat
      /\ Short /\ Width(m.slot[BODY_LENGTH].u) <= 5 => off < 2 * PtrSize
      /\ AllTexts /\ Short /\ own => off + totz + 7 <= z /\ z <= bsz
      /\ AllTexts /\ Short /\ (own \/ z >= 41) => past = FALSE /\ totz <= z
      /\ AllTexts /\ Short /\ Fit(e) =>
           /\ blen = e[n]
           /\ text = HeadText(NameEnd) \union {Number(NameEnd, blen)} \union BodyText(hdrz + 1, e, n)
  BY <1>3 DEF AtSum
<1>6. hdrz \in Nat /\ totz \in Nat
  <2>1. Digits(blen - 1) \in 1..10
    <3>1. blen - 1 \in Int
      BY <1>5
    <3> QED
      BY <3>1, DigitsAre
  <2> QED
    BY <1>4, <1>5, <2>1
<1>7. ASSUME bsz - totz >= 6 PROVE r.n = 7
  <2>1. bsz - totz \in Int
    BY <1>5, <1>6
  <2> QED
    BY <1>7, <2>1, SumFld DEF r
<1>8. Short' = Short
  BY <1>0 DEF Short
<1>9. ASSUME AllTexts, Short, own PROVE totz' = totz + 6 /\ past' = FALSE /\ pasted /\ r.n = 7
  <2>1. past = FALSE /\ off \in Nat /\ off + totz + 7 <= z /\ z <= bsz
    BY <1>5, <1>9
  <2>2. r.n = 7
    BY <1>5, <1>6, <1>7, <2>1
  <2>3. pasted
    BY <1>9 DEF pasted
  <2>4. totz' = totz + 6
    BY <1>0, <1>6, <2>2, <2>3
  <2>5. (off + totz' >= z) = FALSE
    BY <1>5, <1>6, <2>1, <2>4
  <2> QED
    BY <1>0, <2>1, <2>2, <2>3, <2>4, <2>5, Zenon
<1>10. ASSUME AllTexts, Short, ~own, z >= 41, past' PROVE z = totz'
  <2>1. past = FALSE /\ totz <= z /\ z = bsz /\ off = 0
    BY <1>5, <1>10
  <2>2. off + totz' >= z
    BY <1>0, <1>10, <2>1
  <2>3. CASE pasted
    <3>1. totz + 5 < bsz
      BY <1>10, <2>3 DEF pasted
    <3>2. r.n = 7
      BY <1>5, <1>6, <1>7, <3>1
    <3>3. totz' = totz + 6
      BY <1>0, <1>6, <2>3, <3>2
    <3> QED
      BY <1>5, <1>6, <2>1, <2>2, <3>1, <3>3
  <2>4. CASE ~pasted
    BY <1>0, <1>5, <1>6, <2>1, <2>2, <2>4
  <2> QED
    BY <2>3, <2>4
<1> DEFINE l == e[n]
           b == NameEnd + 2 + Digits(l - 1) + 1
<1>11. ASSUME AllTexts, Short, Fit(e)
       PROVE  /\ totz' = WholeLen(e)
              /\ text' = HeadText(NameEnd) \union {Number(NameEnd, l)} \union BodyText(b, e, n)
                           \union {Piece(b + l, 6, Is("10=", b + l))}
  <2>1. blen = l
    BY <1>5, <1>11
  <2>2. l \in Nat /\ b \in Nat /\ Digits(l - 1) \in 1..10
    BY <1>4 DEF Rising
  <2>3. hdrz + 1 = b /\ totz = b + l
    BY <1>4, <1>5, <1>6, <2>1, <2>2
  <2>4. WholeLen(e) = b + l + 6
    BY <1>4
  <2>5. pasted /\ r.n = 7
    <3>1. CASE own
      BY <1>9, <1>11, <3>1
    <3>2. CASE ~own
      <4>1. z >= WholeLen(e) + 16 /\ z = bsz
        BY <1>5, <1>11, <3>2 DEF Fit
      <4> HIDE DEF b, l
      <4>2. totz + 5 < bsz /\ bsz - totz >= 6
        BY <1>5, <2>2, <2>3, <2>4, <4>1
      <4> QED
        BY <1>7, <4>2 DEF pasted
    <3> QED
      BY <3>1, <3>2
  <2>6. text = HeadText(NameEnd) \union {Number(NameEnd, l)} \union BodyText(b, e, n)
    BY <1>5, <1>11, <2>1, <2>3
  <2>7. \A x \in text : x.at + x.n <= b + l
    <3> TAKE x \in text
    <3>1. CASE x \in HeadText(NameEnd)
      <4>1. x.at + x.n <= NameEnd + 2 /\ x.at \in Nat /\ x.n \in Nat
        BY <1>4, <3>1, HeadPieces
      <4> QED
        BY <1>4, <2>2, <4>1
    <3>2. CASE x = Number(NameEnd, l)
      <4>1. x.at = NameEnd + 2 /\ x.n = Digits(l - 1) + 1
        BY <3>2 DEF Number, Piece
      <4> QED
        BY <1>4, <2>2, <4>1
    <3>3. CASE x \in BodyText(b, e, n)
      BY <1>4, <2>2, <3>3, BodyPieces
    <3> QED
      BY <2>6, <3>1, <3>2, <3>3
  <2> DEFINE p == Piece(b + l, 6, Is("10=", b + l))
  <2>8. text' = Store(text, p) /\ totz' = totz + 6
    <3>1. 7 - 1 = 6 /\ totz + 7 - 1 = totz + 6
      BY <1>6
    <3>2. text' = Store(text, Piece(totz, 7 - 1, Is("10=", totz))) /\ totz' = totz + 7 - 1
      BY <1>0, <2>5
    <3> QED
      BY <2>3, <3>1, <3>2
  <2>9. p.at = b + l
    BY DEF Piece
  <2> HIDE DEF p
  <2>10. Store(text, p) = text \union {p}
    BY <2>7, <2>9, StoreBehind
  <2> HIDE DEF b, l
  <2>11. totz' = WholeLen(e)
    BY <2>3, <2>4, <2>8
  <2> QED
    BY <2>6, <2>8, <2>10, <2>11 DEF p
<1> HIDE DEF n
<1>12. m'.nflds = n /\ own' = own /\ z' = z /\ off' = off
  BY <1>0, <1>2 DEF n
<1>13. Fit(e)' => Fit(e)
  BY <1>0, <1>2 DEF Fit
<1>14. AllTexts' /\ Short' /\ Fit(e)' =>
         LET q == e[m.nflds]'
             c == NameEnd' + 2 + Digits(q - 1) + 1
         IN  /\ totz' = WholeLen(e)'
             /\ text' = HeadText(NameEnd') \union {Number(NameEnd', q)}
                          \union BodyText(c, e, m'.nflds) \union {Piece(c + q, 6, Is("10=", c + q))}
  BY <1>2, <1>8, <1>11, <1>12, <1>13
<1>15. AllTexts' /\ Short' /\ (own' \/ z' >= 41) /\ past' => ~own' /\ z' = totz'
  BY <1>2, <1>5, <1>8, <1>9, <1>10, <1>12
<1>16. Short' /\ Width(m'.slot[BODY_LENGTH].u) <= 5 =>
         off' \in Nat /\ off' < 2 * PtrSize /\ (rpc' = "freed" => off' = 0)
  BY <1>0, <1>2, <1>5, <1>8
<1>17. own' \in BOOLEAN /\ z' \in Nat
  BY <1>5, <1>12
<1> QED
  BY <1>14, <1>15, <1>16, <1>17 DEF AtEnd

LEMMA FreeStep == ASSUME RndrInv, FreeRndr PROVE RndrInv'
<1>0. /\ rpc = "done" /\ rpc' = "freed" /\ m' = m /\ own' = own /\ z' = z /\ blen' = blen
      /\ totz' = totz /\ text' = text /\ past' = past /\ off' = RoundToAlign(off)
  BY DEF FreeRndr
<1>1. MsgInv /\ MsgInv'
  BY <1>0, SameMsg DEF RndrInv
<1> SUFFICES ASSUME Stated', NEW e, IsEnds(e)' PROVE AtEnd(e)'
  BY <1>0, <1>1 DEF RndrInv, Stage
<1>2. /\ Stated /\ IsEnds(e) /\ (AllTexts' => AllTexts) /\ NameEnd' = NameEnd
      /\ m'.nflds = m.nflds /\ m'.slot = m.slot /\ WholeLen(e)' = WholeLen(e)
      /\ (Fit(e)' => Fit(e))
  BY <1>0, SameMsg
<1>3. AtEnd(e)
  BY <1>0, <1>2 DEF RndrInv, Stage
<1>4. Short' = Short
  BY <1>0 DEF Short
<1>5. ASSUME off \in Nat, off < 2 * PtrSize PROVE RoundToAlign(off) = 0
  <2>1. CASE PtrSize = 4
    <3>1. off % 8 = off
      BY <1>5, <2>1
    <3>2. 2 * PtrSize = 8
      BY <2>1
    <3> QED
      BY <1>5, <3>1, <3>2 DEF RoundToAlign
  <2>2. CASE PtrSize = 8
    <3>1. off % 16 = off
      BY <1>5, <2>2
    <3>2. 2 * PtrSize = 16
      BY <2>2
    <3> QED
      BY <1>5, <3>1, <3>2 DEF RoundToAlign
  <2> QED
    BY <2>1, <2>2, RoomAssumption
<1>6. Short' /\ Width(m'.slot[BODY_LENGTH].u) <= 5 =>
        off' \in Nat /\ off' < 2 * PtrSize /\ (rpc' = "freed" => off' = 0)
  <2>1. 0 \in Nat /\ 0 < 2 * PtrSize
    BY RoomAssumption
  <2> QED
    BY <1>0, <1>2, <1>3, <1>4, <1>5, <2>1 DEF AtEnd
<1>7. /\ own' \in BOOLEAN /\ z' \in Nat
      /\ AllTexts' /\ Short' /\ (own' \/ z' >= 41) /\ past' => ~own' /\ z' = totz'
  BY <1>0, <1>2, <1>3, <1>4 DEF AtEnd
<1>8. AllTexts' /\ Short' /\ Fit(e)' =>
         LET q == e[m.nflds]'
             c == NameEnd' + 2 + Digits(q - 1) + 1
         IN  /\ totz' = WholeLen(e)'
             /\ text' = HeadText(NameEnd') \union {Number(NameEnd', q)}
                          \union BodyText(c, e, m'.nflds) \union {Piece(c + q, 6, Is("10=", c + q))}
  BY <1>0, <1>2, <1>3, <1>4 DEF AtEnd
<1> QED
  BY <1>6, <1>7, <1>8 DEF AtEnd

-----------------------------------------------------------------------------
(* The rendering over time *)

(* At each step of a rendering the pieces lie where Stage says, whatever    *)
(* was done to the message before: the invariant behind the rest.          *)
THEOREM RenderInvariance == RndrSpec => []RndrInv
<1>1. RndrInit => RndrInv
  <2> SUFFICES ASSUME RndrInit PROVE RndrInv
    OBVIOUS
  <2>1. MsgInv /\ rpc = "edit" /\ blen = 0 /\ j = 0 /\ past = FALSE /\ off = 0
    BY InitMsg DEF RndrInit
  <2>2. \A e : Stage(e)
    BY <2>1 DEF Stage
  <2> QED
    BY <2>1, <2>2 DEF RndrInv
<1>2. RndrInv /\ [RndrNext]_<<m, rndrvars>> => RndrInv'
  <2> SUFFICES ASSUME RndrInv, [RndrNext]_<<m, rndrvars>> PROVE RndrInv'
    OBVIOUS
  <2>1. CASE RenderHead(TRUE, Estimate)
    <3>1. Estimate \in Nat
      <4>1. m.nflds \in Nat /\ m.pz \in Nat
        BY FieldsFound DEF RndrInv, MsgInv
      <4> QED
        BY <4>1 DEF Estimate
    <3> QED
      BY <2>1, <3>1, HeadStep
  <2>2. ASSUME NEW size \in CallerSizes, RenderHead(FALSE, size) PROVE RndrInv'
    <3>1. size \in Nat
      BY RoomAssumption
    <3> QED
      BY <2>2, <3>1, HeadStep
  <2>3. CASE UNCHANGED <<m, rndrvars>>
    <3>1. /\ m' = m /\ rpc' = rpc /\ own' = own /\ z' = z /\ bsz' = bsz /\ hdrz' = hdrz
          /\ lenz' = lenz /\ totz' = totz /\ blen' = blen /\ j' = j /\ off' = off /\ text' = text
          /\ past' = past
      BY <2>3 DEF rndrvars
    <3>2. MsgInv' /\ (Stated' => Stated) /\ \A e : IsEnds(e)' => IsEnds(e)
      BY <3>1, SameMsg
    <3>3. NameEnd' = NameEnd /\ (AllTexts' <=> AllTexts) /\ (Short' <=> Short)
      BY <3>1 DEF NameEnd, AllTexts, Short
    <3>4. ASSUME NEW e, Stage(e) PROVE Stage(e)'
      BY <3>1, <3>3, <3>4
      DEF Stage, AtType, AtFields, AtLength, AtSum, AtEnd, InFront, Fit, WholeLen
    <3>5. Stated' => \A e : IsEnds(e)' => Stage(e)'
      BY <3>2, <3>4 DEF RndrInv
    <3>6. rpc' = "edit" => blen' = 0 /\ j' = 0 /\ past' = FALSE /\ off' = 0
      BY <3>1 DEF RndrInv
    <3>7. rpc' \in {"edit", "type", "fields", "length", "sum", "done", "freed"}
      BY <3>1 DEF RndrInv
    <3> QED
      BY <3>2, <3>5, <3>6, <3>7 DEF RndrInv
  <2> QED
    BY <2>1, <2>2, <2>3, EditStep, TypeStep, FieldStep, EndStep, LengthStep, SumStep, FreeStep
    DEF RndrNext
<1> QED
  BY <1>1, <1>2, PTL DEF RndrSpec

(* Layout, piece by piece *)
LEMMA LayoutIs ==
  ASSUME MsgInv, Stated
  PROVE  LET e == Ends
             l == e[m.nflds]
             b == NameEnd + 2 + Digits(l - 1) + 1
         IN  /\ IsEnds(e) /\ Layout.len = WholeLen(e)
             /\ Layout.text = HeadText(NameEnd) \union {Number(NameEnd, l)}
                                \union BodyText(b, e, m.nflds)
                                \union {Piece(b + l, 6, Is("10=", b + l))}
<1> DEFINE e == Ends
           n == m.nflds
           l == e[n]
           b == NameEnd + 2 + Digits(l - 1) + 1
<1>1. IsEnds(e)
  BY EndsAre DEF MsgInv, Stated
<1>2. FldLen(F8) = NameEnd
  <2>1. m.slot[BEGIN_STRING] \in Fld
    BY DEF MsgInv, Inv, GoodAt, Good, WellTyped, SlotTags
  <2>2. F8.typ = "VER" /\ F8.tag = BEGIN_STRING /\ F8.u = m.slot[BEGIN_STRING].u
    BY <2>1 DEF F8, Fld, Stated
  <2>3. ValLen(F8) = NameLen(m.slot[BEGIN_STRING].u)
    BY <2>2 DEF ValLen
  <2>4. NameLen(m.slot[BEGIN_STRING].u) \in Nat
    BY NameLenIs
  <2> QED
    BY <2>2, <2>3, <2>4, DigitsTags DEF FldLen, NameEnd
<1> HIDE DEF e
<1>3. /\ n \in Nat /\ Rising(e, n) /\ NameEnd \in 3..14 /\ Digits(l - 1) \in 1..10
      /\ WholeLen(e) = NameEnd + 2 + Digits(l - 1) + 1 + l + 6
  BY <1>1, Facts
<1>4. Layout.len = b + l + 6
  BY <1>2 DEF Layout, e
<1>5. Layout.text =
        { Piece(0, NameEnd, Is("8=", 0)), Piece(NameEnd, 2, Is("9=", 0)),
          Piece(NameEnd + 2, Digits(l - 1) + 1, Is("length", l - 1)),
          Piece(b, e[0], Is("35=", 0)), Piece(b + l, 6, Is("10=", b + l)) }
          \union { Piece(b + e[k], FldLen(m.flds[k]), Is("field", k)) : k \in 0..(n - 1) }
  BY <1>2 DEF Layout, e
<1>6. ASSUME NEW k \in 0..(n - 1) PROVE FldLen(m.flds[k]) = e[k + 1] - e[k]
  <2>1. e[k + 1] = e[k] + FldLen(m.flds[k])
    BY <1>1 DEF IsEnds
  <2>2. FldLen(m.flds[k]) \in Nat
    BY FieldsFound, FldLenIs DEF MsgInv
  <2>3. e[k] \in Nat
    <3>1. k \in 0..n
      BY <1>3
    <3> QED
      BY <1>3, <3>1 DEF Rising
  <2> QED
    BY <2>1, <2>2, <2>3
<1>7. { Piece(b + e[k], FldLen(m.flds[k]), Is("field", k)) : k \in 0..(n - 1) }
        = { FieldPiece(b, e, k) : k \in 0..(n - 1) }
  BY <1>6 DEF FieldPiece
<1>8. Layout.text = HeadText(NameEnd) \union {Number(NameEnd, l)} \union BodyText(b, e, n)
                      \union {Piece(b + l, 6, Is("10=", b + l))}
  <2> HIDE DEF b, l
  <2> QED
    BY <1>5, <1>7 DEF HeadText, BodyText, Number
<1> QED
  BY <1>1, <1>3, <1>4, <1>8 DEF e

LEMMA WholeAtEnd ==
  ASSUME MsgInv, Stated, AllTexts, Short, AtEnd(Ends), Fit(Ends) PROVE Whole
<1> DEFINE e == Ends
           l == e[m.nflds]
           b == NameEnd + 2 + Digits(l - 1) + 1
           pieces == HeadText(NameEnd) \union {Number(NameEnd, l)} \union BodyText(b, e, m.nflds)
                       \union {Piece(b + l, 6, Is("10=", b + l))}
<1>1. Layout.len = WholeLen(e) /\ Layout.text = pieces
  BY LayoutIs
<1>2. totz = WholeLen(e) /\ text = pieces
  BY DEF AtEnd
<1> HIDE DEF pieces, e
<1> QED
  BY <1>1, <1>2 DEF Whole

(* In a buffer of the library's every text message of any size, up to a    *)
(* body of 100000 bytes, is written whole.                                 *)
THEOREM RenderedWhole == RndrSpec => []OwnWhole
<1>1. RndrInv => OwnWhole
  <2> SUFFICES ASSUME RndrInv, Done, own, Stated, AllTexts, Short PROVE Whole
    BY DEF OwnWhole
  <2>1. IsEnds(Ends)
    BY LayoutIs DEF RndrInv
  <2>2. AtEnd(Ends) /\ Fit(Ends)
    BY <2>1 DEF RndrInv, Stage, Done, Fit
  <2> QED
    BY <2>2, WholeAtEnd DEF RndrInv
<1> QED
  BY RenderInvariance, <1>1, PTL

(* So it is in any buffer of a caller's that has the bytes to spare. *)
THEOREM CallersWhole == RndrSpec => []CallerWhole
<1>1. RndrInv => CallerWhole
  <2> SUFFICES ASSUME RndrInv, Done, ~own, Stated, AllTexts, Short, z >= Layout.len + 16 PROVE Whole
    BY DEF CallerWhole
  <2>1. IsEnds(Ends) /\ Layout.len = WholeLen(Ends)
    BY LayoutIs DEF RndrInv
  <2>2. AtEnd(Ends) /\ Fit(Ends)
    BY <2>1 DEF RndrInv, Stage, Done, Fit
  <2> QED
    BY <2>2, WholeAtEnd DEF RndrInv
<1> QED
  BY RenderInvariance, <1>1, PTL

(* No store leaves the buffer, of whatever size, that has room for the     *)
(* header.                                                                 *)
THEOREM InsideBuffer == RndrSpec => []InBuffer
<1>1. RndrInv => InBuffer
  <2> SUFFICES ASSUME RndrInv, Stated, AllTexts, Short, own \/ z >= 41, past PROVE ~own /\ z = totz
    BY DEF InBuffer
  <2>1. IsEnds(Ends)
    BY LayoutIs DEF RndrInv
  <2>2. Stage(Ends)
    BY <2>1 DEF RndrInv
  <2>3. rpc \in {"edit", "type", "fields", "length", "sum", "done", "freed"}
    BY DEF RndrInv
  <2>4. CASE rpc = "edit"
    BY <2>4 DEF RndrInv
  <2>5. CASE rpc = "type"
    BY <2>2, <2>5 DEF Stage, AtType
  <2>6. CASE rpc = "fields"
    BY <2>2, <2>6 DEF Stage, AtFields
  <2>7. CASE rpc = "length"
    BY <2>2, <2>7 DEF Stage, AtLength
  <2>8. CASE rpc = "sum"
    BY <2>2, <2>8 DEF Stage, AtSum
  <2>9. CASE rpc \in {"done", "freed"}
    BY <2>2, <2>9 DEF Stage, AtEnd
  <2> QED
    BY <2>3, <2>4, <2>5, <2>6, <2>7, <2>8, <2>9
<1> QED
  BY RenderInvariance, <1>1, PTL

(* The start of the mapping is found again, for either size of a pointer. *)
THEOREM FoundAgain == RndrSpec => []Released
<1>1. RndrInv => Released
  <2> SUFFICES ASSUME RndrInv, rpc = "freed", Stated, Short, Width(m.slot[BODY_LENGTH].u) <= 5 PROVE off = 0
    BY DEF Released
  <2>1. IsEnds(Ends)
    BY LayoutIs DEF RndrInv
  <2>2. AtEnd(Ends)
    BY <2>1 DEF RndrInv, Stage
  <2> QED
    BY <2>2 DEF AtEnd
<1> QED
  BY RenderInvariance, <1>1, PTL

=============================================================================
