---------------------------- MODULE DeriveProofs ----------------------------
(***************************************************************************)
(* Proofs about MsgDerive: what __cpy_fld does, one field after the other, *)
(* and over time the copies' sizes, and that copies of a message on the    *)
(* heap, and extracts, stay what they were.                                *)
(***************************************************************************)
EXTENDS MsgDerive, MsgProofs

-----------------------------------------------------------------------------
(* The recursion *)

(* The extract while its fields are copied, after each of the first n. *)
Start(c) == [msg |-> MakeMsg(c), bad |-> FALSE, says |-> <<>>]

IsUpTo(f, c, all, xs, n) ==
  f = [i \in 0..n |-> IF i = 0 THEN Start(c) ELSE CpyNext(f[i - 1], all, xs, i)]

(* The recursion is sound. *)
LEMMA UpToExists ==
  ASSUME NEW c, NEW all, NEW xs, NEW n \in Nat
  PROVE  \E f : IsUpTo(f, c, all, xs, n)
<1> DEFINE S == {k \in Nat : \E f : IsUpTo(f, c, all, xs, k)}
<1>1. 0 \in S
  <2> DEFINE f == [i \in 0..0 |-> Start(c)]
  <2>1. \A i \in 0..0 : i = 0
    OBVIOUS
  <2>2. f = [i \in 0..0 |-> IF i = 0 THEN Start(c) ELSE CpyNext(f[i - 1], all, xs, i)]
    BY <2>1, Zenon
  <2> QED
    BY <2>2 DEF IsUpTo
<1>2. ASSUME NEW k \in 0..(n - 1), k \in S PROVE k + 1 \in S
  <2>1. PICK f : IsUpTo(f, c, all, xs, k)
    BY <1>2
  <2> DEFINE g == [i \in 0..(k + 1) |-> IF i <= k THEN f[i] ELSE CpyNext(f[k], all, xs, i)]
  <2>2. ASSUME NEW i \in 0..(k + 1)
        PROVE  g[i] = IF i = 0 THEN Start(c) ELSE CpyNext(g[i - 1], all, xs, i)
    <3>1. CASE i = 0
      <4>1. 0 <= k /\ 0 \in 0..k
        OBVIOUS
      <4>2. f[0] = Start(c)
        BY <2>1, <4>1, Zenon DEF IsUpTo
      <4> QED
        BY <3>1, <4>1, <4>2
    <3>2. CASE i # 0 /\ i <= k
      <4>1. i \in 0..k /\ i - 1 \in 0..(k + 1) /\ i - 1 <= k
        BY <3>2
      <4>2. f[i] = CpyNext(f[i - 1], all, xs, i)
        BY <2>1, <3>2, <4>1, Zenon DEF IsUpTo
      <4>3. g[i] = f[i] /\ g[i - 1] = f[i - 1]
        BY <3>2, <4>1
      <4> HIDE DEF g
      <4> QED
        BY <3>2, <4>2, <4>3, Zenon
    <3>3. CASE i = k + 1
      <4>1. i - 1 = k /\ k \in 0..(k + 1) /\ k <= k /\ ~(i <= k) /\ i # 0
        BY <3>3
      <4>2. g[i] = CpyNext(f[k], all, xs, i) /\ g[k] = f[k]
        BY <4>1
      <4> HIDE DEF g
      <4> QED
        BY <4>1, <4>2, Zenon
    <3> QED
      BY <3>1, <3>2, <3>3
  <2>3. g = [i \in 0..(k + 1) |-> g[i]]
    OBVIOUS
  <2> HIDE DEF g
  <2>4. g = [i \in 0..(k + 1) |-> IF i = 0 THEN Start(c) ELSE CpyNext(g[i - 1], all, xs, i)]
    BY <2>2, <2>3, Zenon
  <2> QED
    BY <2>4 DEF IsUpTo
<1> HIDE DEF S
<1>3. n \in S
  BY <1>1, <1>2, UpTo
<1> QED
  BY <1>3 DEF S

(* So CpyFlds is the extract after the last slot. *)
LEMMA CpyFldsIs ==
  ASSUME NEW c, NEW all, NEW xs, Len(all) \in Nat
  PROVE  \E f : IsUpTo(f, c, all, xs, Len(all)) /\ CpyFlds(c, all, xs) = f[Len(all)]
<1>1. \E f : IsUpTo(f, c, all, xs, Len(all))
  BY UpToExists
<1>2. \E f : f = [i \in 0..Len(all) |->
                    IF i = 0 THEN [msg |-> MakeMsg(c), bad |-> FALSE, says |-> <<>>]
                    ELSE CpyNext(f[i - 1], all, xs, i)]
  BY <1>1, Zenon DEF IsUpTo, Start
<1> QED
  BY <1>2, Zenon DEF CpyFlds, IsUpTo, Start

-----------------------------------------------------------------------------
(* One field *)

(* An entry inserted behind the last one is appended. *)
LEMMA InsertedLast ==
  ASSUME NEW S, NEW s \in Seq(S), NEW e \in S
  PROVE  FL!InsertAt(s, Len(s) + 1, e) = Append(s, e)
<1> DEFINE n == Len(s) + 1
           a == FL!InsertAt(s, n, e)
           b == Append(s, e)
<1>0. Len(s) \in Nat
  BY LenProperties
<1>1. n \in 1..(Len(s) + 1)
  BY <1>0
<1> HIDE DEF n
<1>2. /\ a \in Seq(S) /\ Len(a) = Len(s) + 1
      /\ \A j \in 1..(Len(s) + 1) : a[j] = IF j < n THEN s[j] ELSE IF j = n THEN e ELSE s[j - 1]
  BY <1>1, InsertAtIs
<1>3. b \in Seq(S) /\ Len(b) = Len(s) + 1 /\ (\A j \in 1..Len(s) : b[j] = s[j]) /\ b[Len(s) + 1] = e
  BY AppendProperties
<1> HIDE DEF a, b
<1>4. ASSUME NEW j \in 1..Len(a) PROVE a[j] = b[j]
  BY <1>0, <1>2, <1>3, <1>4 DEF n
<1>5. a = b
  BY <1>2, <1>3, <1>4, SeqEqual
<1> QED
  BY <1>5 DEF a, b, n

(* The used part of the pr area may be larger than its texts. *)
LEMMA RaisedGood ==
  ASSUME NEW msg, Good(msg, "live"), msg.store # "none", NEW p \in Nat, msg.pz <= p,
         msg.store = "heap" => NextPow2(p + 1) <= msg.vspc
  PROVE  LET r == [msg EXCEPT !.pz = p]
         IN  /\ Good(r, "live") /\ Shown(r) = Shown(msg)
             /\ r.pz = p /\ r.nflds = msg.nflds /\ r.fspc = msg.fspc /\ r.store = msg.store
             /\ r.pr = msg.pr
<1> DEFINE r == [msg EXCEPT !.pz = p]
<1>0. /\ msg.pz \in Nat
      /\ \A k \in DOMAIN msg.pr : k \in Nat /\ Size[msg.pr[k]] \in Nat
  BY TextAssumption DEF Good, WellTyped
<1>1. /\ r \in [ slot : [SlotTags -> Fld], f35 : Fld,
                 nflds : Nat, flds : [0..(msg.nflds - 1) -> Fld],
                 store : {"none", "these", "heap"}, fspc : Nat, vspc : Nat,
                 pz : Nat, pr : {msg.pr} ]
      /\ r.pz = p /\ r.pr = msg.pr
      /\ r.nflds = msg.nflds /\ r.flds = msg.flds /\ r.f35 = msg.f35
      /\ r.fspc = msg.fspc /\ r.vspc = msg.vspc /\ r.store = msg.store
  BY DEF Good, WellTyped
<1> HIDE DEF r
<1>2. WellTyped(r)
  BY <1>1 DEF Good, WellTyped, Typed
<1>3. InRoom(r)
  BY <1>1 DEF Good, InRoom, AllocdVspc
<1>4. TextsFound(r)
  BY <1>1 DEF Good, TextsFound
<1>5. TextsApart(r)
  <2>1. ASSUME NEW k \in DOMAIN msg.pr PROVE k + Size[msg.pr[k]] < p
    <3>1. k + Size[msg.pr[k]] < msg.pz
      BY DEF Good, TextsApart
    <3> QED
      BY <1>0, <3>1
  <2> QED
    BY <1>1, <2>1 DEF Good, TextsApart
<1>6. Shown(r) = Shown(msg)
  BY <1>1, SameShown DEF KeepsTexts
<1> QED
  BY <1>1, <1>2, <1>3, <1>4, <1>5, <1>6 DEF Good, r

(* fixc_add_tag of a text and what bytes come behind it. *)
LEMMA AddBytesGood ==
  ASSUME NEW msg, Good(msg, "live"), NEW s \in Strs, NEW z \in Nat, Size[s] <= z,
         NEW top \in Pow2, Headroom(msg, 1, z + 1, top),
         NEW tag \in Half, tag \notin SlotTags \union {MSG_TYPE, TAG_UNK}
  PROVE  LET r == AddBytes(msg, tag, s, z)
         IN  /\ Good(r, "live") /\ r.nflds = msg.nflds + 1 /\ r.pz = msg.pz + z + 1
             /\ Shown(r) = Append(Shown(msg), [tag |-> tag, val |-> s])
<1> DEFINE c == CheckSize(msg, 1, z + 1)
           t == StoreStr(c, s)
           q == c.pz + z + 1
           u == [t EXCEPT !.pz = q]
           f == [tag |-> tag, typ |-> "OFF", tpc |-> 0, cnt |-> 0, u |-> c.pz]
           e == [tag |-> tag, val |-> s]
<1>0. /\ msg.nflds \in Nat /\ msg.pz \in Nat /\ z + 1 \in Nat /\ Size[s] \in Nat
      /\ msg.pz + 1 \in Nat \ {0} /\ msg.pz + 1 <= top /\ top \in Nat
  BY TextAssumption, Pow2Nat DEF Good, WellTyped, Headroom
<1>1. /\ Good(c, "live") /\ c.store # "none" /\ msg.nflds + 1 <= c.fspc
      /\ c.nflds = msg.nflds /\ c.pz = msg.pz
      /\ c.store = "heap" => NextPow2(msg.pz + (z + 1) + 1) <= c.vspc
  BY <1>0, CheckSizeGood
<1>2. Shown(c) = Shown(msg)
  BY CheckSizeShown
<1>3. c.store = "heap" => c.vspc \in Nat /\ NextPow2(c.pz + Size[s] + 2) <= c.vspc
  <2> DEFINE v == c.pz + Size[s] + 2
             x == msg.pz + (z + 1) + 1
  <2>1. msg.pz + 1 <= AllocdVspc(msg) /\ AllocdVspc(msg) \in Nat
    BY <1>0, NextPow2Least, Pow2Nat DEF AllocdVspc
  <2>2. v \in Nat \ {0} /\ x \in Nat \ {0} /\ v <= x /\ x <= top
    BY <1>0, <1>1, <2>1 DEF Headroom
  <2> HIDE DEF v, x
  <2>3. NextPow2(v) \in Nat /\ NextPow2(x) \in Nat /\ NextPow2(v) <= NextPow2(x)
    BY <2>2, NextPow2Mono
  <2>4. c.vspc \in Nat
    BY <1>1 DEF Good, WellTyped
  <2>5. c.store = "heap" => NextPow2(x) <= c.vspc
    BY <1>1 DEF x
  <2> QED
    BY <2>3, <2>4, <2>5 DEF v
<1>4. q \in Nat /\ q + 1 = msg.pz + (z + 1) + 1 /\ q = msg.pz + z + 1
      /\ c.pz + Size[s] + 1 <= q
  BY <1>0, <1>1
<1> HIDE DEF c, q
<1>5. /\ Good(t, "live") /\ c.pz \in DOMAIN t.pr /\ t.nflds = c.nflds
      /\ t.store = c.store /\ t.fspc = c.fspc /\ t.pz = c.pz + Size[s] + 1
  BY <1>1, <1>3, StoreStrGood
<1>6. Shown(t) = Shown(c) /\ t.pr[c.pz] = s
  BY <1>1, StoreStrShown
<1>7. t.vspc = c.vspc
  BY <1>1 DEF StoreStr, Good, WellTyped
<1> HIDE DEF t
<1>8. /\ Good(u, "live") /\ Shown(u) = Shown(t) /\ u.pz = q /\ u.nflds = t.nflds
      /\ u.fspc = t.fspc /\ u.store = t.store /\ u.pr = t.pr
  BY <1>1, <1>4, <1>5, <1>7, RaisedGood
<1> HIDE DEF u
<1>9. f \in Fld /\ f.tag = tag /\ f.typ = "OFF" /\ f.u = c.pz
  <2>1. c.pz \in Nat /\ 0 \in Half /\ "OFF" \in Typ
    BY <1>0, <1>1, Halves, Kinds
  <2> QED
    BY <2>1 DEF Fld
<1> HIDE DEF f
<1>10. c.nflds \in 0..u.nflds /\ f.u \in DOMAIN u.pr /\ u.nflds + 1 <= u.fspc
       /\ u.store # "none" /\ c.nflds = u.nflds /\ u.nflds = msg.nflds
  BY <1>0, <1>1, <1>5, <1>8, <1>9
<1>11. LET r == Place(u, f, c.nflds)
       IN  Good(r, "live") /\ r.nflds = u.nflds + 1 /\ r.pz = u.pz
  BY <1>8, <1>9, <1>10, PlaceGood
<1>12. Shown(Place(u, f, c.nflds)) = FL!InsertAt(Shown(u), c.nflds + 1, Shows(u, f))
  BY <1>8, <1>9, <1>10, PlaceShown
<1>13. Shows(u, f) = e
  BY <1>6, <1>8, <1>9 DEF Shows
<1>14. Shows(u, f) \in FL!Entry
  BY <1>8, <1>9, <1>10, ShowsEntry
<1>15. Shown(u) \in Seq(FL!Entry) /\ Len(Shown(u)) = u.nflds
  BY <1>8, ShownSeq
<1> HIDE DEF e
<1>16. Shown(Place(u, f, c.nflds)) = Append(Shown(msg), e)
  BY <1>2, <1>6, <1>8, <1>10, <1>12, <1>13, <1>14, <1>15, InsertedLast
<1>17. AddBytes(msg, tag, s, z) = Place(u, f, c.nflds)
  <2>1. PromoteIfType(msg, tag) = msg
    BY DEF PromoteIfType
  <2> QED
    BY <2>1 DEF AddBytes, c, t, u, f, q
<1> QED
  BY <1>4, <1>8, <1>10, <1>11, <1>16, <1>17 DEF e

IsAcc(r) == r \in [msg : {r.msg}, bad : {FALSE}, says : {r.says}]

(* The slot in the extract gets the context, which says nothing. *)
LEMMA SetContextGood ==
  ASSUME NEW r, IsAcc(r), Good(r.msg, "live"),
         NEW n \in Nat, n < r.msg.nflds, NEW fld \in Fld
  PROVE  LET q == SetContext(r, n, fld)
         IN  /\ IsAcc(q) /\ q.says = r.says
             /\ Good(q.msg, "live") /\ Shown(q.msg) = Shown(r.msg)
             /\ q.msg.nflds = r.msg.nflds /\ q.msg.pz = r.msg.pz
<1> DEFINE msg == r.msg
           g  == [msg.flds[n] EXCEPT !.tpc = fld.tpc, !.cnt = fld.cnt]
           fs == [msg.flds EXCEPT ![n] = g]
           c  == [msg EXCEPT !.flds = fs]
           q  == SetContext(r, n, fld)
<1>0. msg.nflds \in Nat /\ msg.flds \in [0..(msg.nflds - 1) -> Fld] /\ n \in 0..(msg.nflds - 1)
  BY DEF Good, WellTyped
<1>1. /\ g \in Fld /\ g.tag = msg.flds[n].tag /\ g.typ = msg.flds[n].typ
      /\ g.u = msg.flds[n].u
  <2>1. msg.flds[n] \in Fld
    BY <1>0
  <2> QED
    BY <2>1 DEF Fld
<1>2. q = [r EXCEPT !.msg = c]
  BY <1>0 DEF SetContext, Good, WellTyped
<1> HIDE DEF g
<1>3. /\ fs \in [0..(msg.nflds - 1) -> Fld]
      /\ \A i \in 0..(msg.nflds - 1) : /\ fs[i].tag = msg.flds[i].tag
                                       /\ fs[i].typ = msg.flds[i].typ
                                       /\ fs[i].u = msg.flds[i].u
  BY <1>0, <1>1
<1> HIDE DEF fs
<1>4. /\ c \in [ slot : [SlotTags -> Fld], f35 : Fld,
                 nflds : Nat, flds : [0..(msg.nflds - 1) -> Fld],
                 store : {"none", "these", "heap"}, fspc : Nat, vspc : Nat,
                 pz : Nat, pr : {msg.pr} ]
      /\ c.pz = msg.pz /\ c.pr = msg.pr
      /\ c.nflds = msg.nflds /\ c.flds = fs /\ c.f35 = msg.f35
      /\ c.fspc = msg.fspc /\ c.vspc = msg.vspc /\ c.store = msg.store
  BY <1>3 DEF Good, WellTyped
<1> HIDE DEF c
<1>5. Good(c, "live")
  <2>1. WellTyped(c)
    BY <1>4 DEF Good, WellTyped, Typed
  <2>2. InRoom(c)
    BY <1>4 DEF Good, InRoom, AllocdVspc
  <2>3. TextsFound(c)
    BY <1>3, <1>4 DEF Good, TextsFound
  <2>4. TextsApart(c)
    BY <1>4 DEF Good, TextsApart
  <2> QED
    BY <2>1, <2>2, <2>3, <2>4 DEF Good
<1>6. Shown(c) = Shown(msg)
  <2>1. ASSUME NEW i \in 1..msg.nflds PROVE Shows(c, fs[i - 1]) = Shows(msg, msg.flds[i - 1])
    <3>1. i - 1 \in 0..(msg.nflds - 1)
      BY <1>0
    <3> QED
      BY <1>3, <1>4, <3>1 DEF Shows
  <2> QED
    BY <1>4, <2>1 DEF Shown
<1> HIDE DEF q
<1>7. IsAcc(q) /\ q.says = r.says /\ q.msg = c
  BY <1>2 DEF IsAcc
<1> QED
  BY <1>4, <1>5, <1>6, <1>7 DEF q

-----------------------------------------------------------------------------
(* One field after the other *)

(* The extract when the first i fields have been looked at.                *)
Acc(r, i) ==
  /\ IsAcc(r)
  /\ Good(r.msg, "live") /\ r.msg.nflds <= i /\ r.msg.pz <= i * MaxPz
  /\ r.says = Shown(r.msg)

(* The fields of the message, and in all with whatever lies behind.        *)
FromSource(all) ==
  /\ Len(all) \in Nat /\ m.nflds <= Len(all)
  /\ \A i \in 1..m.nflds : all[i] = m.flds[i - 1] /\ all[i] \in Fld

LEMMA FieldsFirst ==
  ASSUME GoodAt("live"), NEW rest \in Seq(Fld)
  PROVE  LET fs == Flds(m)
         IN  /\ fs \in Seq(Fld) /\ Len(fs) = m.nflds /\ DOMAIN fs = 1..m.nflds /\ m.nflds \in Nat
             /\ FromSource(fs) /\ FromSource(fs \o rest)
             /\ DOMAIN (fs \o rest) = 1..(m.nflds + Len(rest))
             /\ rest # <<>> => (fs \o rest)[m.nflds + 1] = Head(rest)
<1> DEFINE fs == Flds(m)
<1>0. m.nflds \in Nat /\ m.flds \in [0..(m.nflds - 1) -> Fld]
  BY DEF GoodAt, Good, WellTyped
<1>1. ASSUME NEW i \in 1..m.nflds PROVE fs[i] = m.flds[i - 1] /\ fs[i] \in Fld
  <2>1. i - 1 \in 0..(m.nflds - 1)
    BY <1>0
  <2>2. fs[i] = m.flds[i - 1]
    BY DEF Flds
  <2> QED
    BY <1>0, <2>1, <2>2
<1>2. fs \in [1..m.nflds -> Fld]
  BY <1>1 DEF Flds
<1> HIDE DEF fs
<1>3. fs \in Seq(Fld)
  BY <1>0, <1>2, SeqDef
<1>4. Len(fs) = m.nflds /\ DOMAIN fs = 1..m.nflds
  BY <1>0, <1>2, <1>3, LenProperties
<1> DEFINE all == fs \o rest
<1>5. /\ all \in Seq(Fld) /\ Len(all) = m.nflds + Len(rest) /\ Len(rest) \in Nat
      /\ \A i \in 1..(m.nflds + Len(rest)) :
           all[i] = IF i <= m.nflds THEN fs[i] ELSE rest[i - m.nflds]
  BY <1>3, <1>4, ConcatProperties, LenProperties
<1> HIDE DEF all
<1>6. DOMAIN all = 1..(m.nflds + Len(rest))
  BY <1>5, LenProperties
<1>7. FromSource(fs)
  BY <1>0, <1>1, <1>4 DEF FromSource
<1>8. FromSource(all)
  <2>1. ASSUME NEW i \in 1..m.nflds PROVE all[i] = fs[i]
    BY <1>0, <1>5
  <2> QED
    BY <1>0, <1>1, <1>5, <2>1 DEF FromSource
<1>9. ASSUME rest # <<>> PROVE all[m.nflds + 1] = Head(rest)
  <2>1. Len(rest) \in Nat /\ Len(rest) # 0
    BY <1>5, <1>9, EmptySeq
  <2>2. m.nflds + 1 \in 1..(m.nflds + Len(rest)) /\ ~(m.nflds + 1 <= m.nflds)
        /\ (m.nflds + 1) - m.nflds = 1
    BY <1>0, <2>1
  <2> QED
    BY <1>5, <2>2
<1> QED
  BY <1>0, <1>3, <1>4, <1>6, <1>7, <1>8, <1>9 DEF all, fs

(* The word holds what one more field takes. *)
LEMMA ExtractHeadroom ==
  ASSUME GoodAt("live"), NEW i \in 1..m.nflds, NEW r, Acc(r, i - 1)
  PROVE  \E top \in Pow2 : \A v \in 0..MaxPz : Headroom(r.msg, 1, v, top)
<1> DEFINE most == (MaxFlds + 2) * MaxPz + 1
           pz == r.msg.pz
<1>0. /\ MaxFlds \in Nat /\ MaxPz \in Nat /\ m.nflds \in Nat /\ m.nflds <= MaxFlds + 2
      /\ r.msg.nflds \in Nat /\ pz \in Nat /\ r.msg.nflds <= i - 1 /\ pz <= (i - 1) * MaxPz
  BY BoundAssumption DEF GoodAt, Acc, Good, WellTyped
<1>1. PICK top \in Pow2 : MaxFlds + 2 <= top /\ most <= top /\ NextPow2(most) + MaxPz + 1 <= top
  BY ExtractAssumption
<1>2. top \in Nat
  BY Pow2Nat
<1>3. (i - 1) * MaxPz <= (MaxFlds + 2) * MaxPz /\ (MaxFlds + 2) * MaxPz \in Nat
      /\ (i - 1) * MaxPz \in Nat
  <2>1. \A a, b, c \in Nat : a * c + b * c = (a + b) * c /\ b * c \in Nat
    OBVIOUS
  <2>2. i - 1 \in Nat /\ MaxFlds + 2 - (i - 1) \in Nat
        /\ (i - 1) + (MaxFlds + 2 - (i - 1)) = MaxFlds + 2
    BY <1>0
  <2> DEFINE a == i - 1
             b == MaxFlds + 2 - (i - 1)
  <2>3. a \in Nat /\ b \in Nat /\ a + b = MaxFlds + 2
    BY <2>2
  <2> HIDE DEF a, b
  <2>4. a * MaxPz + b * MaxPz = (MaxFlds + 2) * MaxPz
        /\ b * MaxPz \in Nat /\ a * MaxPz \in Nat
    BY <1>0, <2>1, <2>3
  <2>5. a * MaxPz <= (MaxFlds + 2) * MaxPz /\ (MaxFlds + 2) * MaxPz \in Nat
        /\ a * MaxPz \in Nat
    BY <2>4
  <2> QED
    BY <2>5 DEF a
<1>4. pz + 1 \in Nat \ {0} /\ most \in Nat \ {0} /\ pz + 1 <= most
  BY <1>0, <1>3
<1> HIDE DEF most, pz
<1>5. /\ NextPow2(pz + 1) \in Nat /\ NextPow2(most) \in Nat
      /\ NextPow2(pz + 1) <= NextPow2(most)
  BY <1>1, <1>4, NextPow2Mono
<1>6. ASSUME NEW v \in 0..MaxPz PROVE Headroom(r.msg, 1, v, top)
  <2>1. r.msg.nflds + 1 <= top
    BY <1>0, <1>1, <1>2
  <2>2. pz + 1 <= top
    BY <1>0, <1>1, <1>2, <1>4
  <2>3. NextPow2(pz + 1) + v + 1 <= top
    BY <1>0, <1>1, <1>2, <1>5
  <2> QED
    BY <2>1, <2>2, <2>3 DEF Headroom, AllocdVspc, pz
<1> QED
  BY <1>6

(* fixc_get_tag_data finds at least the text, and no more than there is.   *)
LEMMA TagDataSize ==
  ASSUME GoodAt("live"), Sound, NEW i \in 0..(m.nflds - 1), m.flds[i].typ = "OFF"
  PROVE  /\ GetTag(m, i) \in Strs /\ GetTagDataSize(m, i) \in Nat
         /\ Size[GetTag(m, i)] <= GetTagDataSize(m, i)
         /\ GetTagDataSize(m, i) + 1 <= MaxPz
<1> DEFINE u == m.flds[i].u
           s == GetTag(m, i)
           w == m.flds[i + 1].u
<1>0. /\ m.nflds \in Nat /\ m.pz \in Nat /\ m.pz <= MaxPz /\ MaxPz \in Nat
      /\ \A k \in DOMAIN m.pr : k \in Nat /\ m.pr[k] \in Strs /\ Size[m.pr[k]] \in Nat
  BY BoundAssumption, TextAssumption DEF GoodAt, Good, WellTyped
<1>1. /\ u \in DOMAIN m.pr /\ s = m.pr[u] /\ u + Size[s] < m.pz
      /\ s \in Strs /\ Size[s] \in Nat /\ u \in Nat
  BY <1>0 DEF GoodAt, Good, TextsFound, TextsApart, GetTag
<1>2. CASE i + 1 = m.nflds
  <2>1. GetTagDataSize(m, i) = m.pz - u - 1
    BY <1>2 DEF GetTagDataSize
  <2> HIDE DEF u, s
  <2> QED
    BY <1>0, <1>1, <2>1 DEF s
<1>3. CASE i + 1 # m.nflds /\ m.flds[i + 1].typ = "OFF"
  <2>1. GetTagDataSize(m, i) = w - u - 1
    BY <1>3 DEF GetTagDataSize
  <2>2. i + 1 \in 1..(m.nflds - 1) /\ (i + 1) - 1 = i /\ i + 1 \in 0..(m.nflds - 1)
    BY <1>0, <1>3
  <2>3. u < w
    BY <1>3, <2>2 DEF Sound
  <2>4. w \in DOMAIN m.pr /\ w + Size[m.pr[w]] < m.pz
    BY <1>3, <2>2 DEF GoodAt, Good, TextsFound, TextsApart
  <2>5. w \in Nat /\ Size[m.pr[w]] \in Nat
    BY <1>0, <2>4
  <2>6. ~Overlap(u, s, w, m.pr[w])
    <3>1. w # u
      BY <1>1, <2>3, <2>5
    <3> QED
      BY <1>1, <2>4, <3>1 DEF GoodAt, Good, TextsApart
  <2> HIDE DEF u, s, w
  <2>7. u + Size[s] < w
    BY <1>1, <2>3, <2>5, <2>6 DEF Overlap
  <2> QED
    BY <1>0, <1>1, <2>1, <2>4, <2>5, <2>7 DEF s
<1>4. CASE i + 1 # m.nflds /\ m.flds[i + 1].typ # "OFF"
  <2>1. GetTagDataSize(m, i) = Size[s]
    BY <1>4 DEF GetTagDataSize
  <2> HIDE DEF u, s
  <2> QED
    BY <1>0, <1>1, <2>1 DEF s
<1> QED
  BY <1>2, <1>3, <1>4

(* Copying one more field. *)
LEMMA CpyNextGood ==
  ASSUME GoodAt("live"), Sound, InArray(m), NEW i \in 1..m.nflds,
         NEW r, Acc(r, i - 1), NEW xs, NEW all, FromSource(all)
  PROVE  Acc(CpyNext(r, all, xs, i), i)
<1> DEFINE fld == m.flds[i - 1]
           msg == r.msg
           e   == Says(m, fld)
<1>0. /\ m.nflds \in Nat /\ MaxPz \in Nat /\ i \in Nat /\ i - 1 \in 0..(m.nflds - 1)
      /\ msg.nflds \in Nat /\ msg.pz \in Nat /\ msg.nflds <= i - 1
      /\ msg.pz <= (i - 1) * MaxPz /\ Good(msg, "live")
      /\ IsAcc(r) /\ r.says = Shown(msg)
  <2>1. m.nflds \in Nat /\ MaxPz \in Nat
    BY BoundAssumption DEF GoodAt, Good, WellTyped
  <2>2. Good(msg, "live") /\ IsAcc(r) /\ r.says = Shown(msg)
        /\ msg.nflds <= i - 1 /\ msg.pz <= (i - 1) * MaxPz
    BY DEF Acc
  <2>3. msg.nflds \in Nat /\ msg.pz \in Nat
    BY <2>2 DEF Good, WellTyped
  <2> QED
    BY <2>1, <2>2, <2>3
<1>1. i * MaxPz = (i - 1) * MaxPz + MaxPz /\ (i - 1) * MaxPz \in Nat
  BY <1>0
<1>2. all[i] = fld /\ fld \in Fld
  BY DEF FromSource
<1>3. fld.tag \notin SlotTags \union {MSG_TYPE, TAG_UNK}
  BY <1>0 DEF InArray, Sound
<1>4. PICK top \in Pow2 : \A v \in 0..MaxPz : Headroom(msg, 1, v, top)
  BY ExtractHeadroom
<1>5. /\ Shown(msg) \in Seq(FL!Entry) /\ Len(Shown(msg)) = msg.nflds
  BY <1>0, ShownSeq
<1>6. CASE i \notin xs
  <2>1. msg.nflds <= i /\ msg.pz <= i * MaxPz
    BY <1>0, <1>1
  <2>2. CpyNext(r, all, xs, i) = r
    BY <1>6 DEF CpyNext
  <2> QED
    BY <1>0, <2>1, <2>2 DEF Acc
<1> DEFINE q == CpyFld(r, m, fld, i)
<1>7. CASE i \in xs /\ fld.typ # "OFF"
  <2> DEFINE c == InsertFld(msg, fld, msg.nflds)
  <2>1. AddFldAt(msg, fld, msg.nflds) = c
    BY <1>0, <1>3, <1>7 DEF AddFldAt, FldRefused, PromoteIfType
  <2>2. q = [r EXCEPT !.msg = c]
    BY <1>7, <2>1 DEF CpyFld
  <2>3. Headroom(msg, 1, 0, top) /\ msg.nflds \in 0..msg.nflds
    BY <1>0, <1>4
  <2>4. Good(c, "live") /\ c.nflds = msg.nflds + 1 /\ c.pz = msg.pz
    BY <1>0, <1>2, <1>7, <2>3, InsertFldGood
  <2>5. Shown(c) = FL!InsertAt(Shown(msg), msg.nflds + 1, Shows(msg, fld))
    BY <1>0, <1>2, <1>7, <2>3, InsertFldShown
  <2>6. Shows(msg, fld) = e /\ Shows(msg, fld) \in FL!Entry
    BY <1>0, <1>2, <1>7, ShowsEntry DEF Shows, Says
  <2>7. Shown(c) = Append(Shown(msg), e)
    BY <1>5, <2>5, <2>6, InsertedLast
  <2> HIDE DEF c, e
  <2> DEFINE n == CpyNext(r, all, xs, i)
  <2>8. IsAcc(n) /\ n.msg = c /\ n.says = Append(r.says, e)
    <3>1. n = [q EXCEPT !.says = Append(@, e)]
      BY <1>2, <1>7 DEF CpyNext, e
    <3> HIDE DEF q, n
    <3>2. IsAcc(q) /\ q.msg = c /\ q.says = r.says
      BY <1>0, <2>2 DEF IsAcc
    <3> QED
      BY <3>1, <3>2 DEF IsAcc
  <2> HIDE DEF n
  <2>9. c.nflds <= i /\ c.pz <= i * MaxPz
    BY <1>0, <1>1, <2>4
  <2>10. Acc(n, i)
    BY <1>0, <2>4, <2>7, <2>8, <2>9 DEF Acc
  <2> QED
    BY <2>10 DEF n
<1>8. CASE i \in xs /\ fld.typ = "OFF"
  <2> DEFINE s == GetTag(m, i - 1)
             z == GetTagDataSize(m, i - 1)
             c == AddBytes(msg, fld.tag, s, z)
             t == [r EXCEPT !.msg = c]
  <2>1. s \in Strs /\ z \in Nat /\ Size[s] <= z /\ z + 1 <= MaxPz /\ Size[s] \in Nat
    BY <1>0, <1>8, TagDataSize, TextAssumption
  <2>2. i <= m.nflds /\ ~(z < Size[s]) /\ z + 1 \in 0..MaxPz
    BY <1>0, <2>1
  <2>3. q = SetContext(t, msg.nflds, fld)
    <3>1. q = IF z < Size[s] THEN [r EXCEPT !.bad = TRUE] ELSE SetContext(t, msg.nflds, fld)
      BY <1>8, <2>2, Zenon DEF CpyFld
    <3> QED
      BY <2>2, <3>1, Zenon
  <2> HIDE DEF s, z
  <2>4. Headroom(msg, 1, z + 1, top) /\ fld.tag \in Half
    BY <1>2, <1>4, <2>2 DEF Fld
  <2>5. /\ Good(c, "live") /\ c.nflds = msg.nflds + 1 /\ c.pz = msg.pz + z + 1
        /\ Shown(c) = Append(Shown(msg), [tag |-> fld.tag, val |-> s])
    BY <1>0, <1>3, <2>1, <2>4, AddBytesGood, ZenonT(30)
  <2>6. e = [tag |-> fld.tag, val |-> s]
    <3>1. fld.u \in DOMAIN m.pr
      BY <1>0, <1>8 DEF GoodAt, Good, TextsFound
    <3> QED
      BY <1>8, <3>1 DEF Says, GetTag, s
  <2> HIDE DEF c, e
  <2>7. IsAcc(t) /\ t.msg = c /\ t.says = r.says
    BY <1>0 DEF IsAcc
  <2> HIDE DEF t
  <2>8. msg.nflds < t.msg.nflds
    BY <1>0, <2>5, <2>7
  <2> HIDE DEF q
  <2>9. /\ IsAcc(q) /\ q.says = r.says
        /\ Good(q.msg, "live") /\ Shown(q.msg) = Shown(c)
        /\ q.msg.nflds = c.nflds /\ q.msg.pz = c.pz
    BY <1>0, <1>2, <2>3, <2>5, <2>7, <2>8, SetContextGood
  <2> DEFINE n == CpyNext(r, all, xs, i)
  <2>10. n = [q EXCEPT !.says = Append(@, e)]
    BY <1>2, <1>8 DEF CpyNext, e, q
  <2> HIDE DEF n
  <2>11. IsAcc(n) /\ n.msg = q.msg /\ n.says = Append(r.says, e)
    BY <2>9, <2>10 DEF IsAcc
  <2>12. q.msg.nflds <= i /\ q.msg.pz <= i * MaxPz
    BY <1>0, <1>1, <2>1, <2>5, <2>9, SMTT(20)
  <2>13. Acc(n, i)
    BY <1>0, <2>5, <2>6, <2>9, <2>11, <2>12 DEF Acc
  <2> QED
    BY <2>13 DEF n
<1> QED
  BY <1>6, <1>7, <1>8

(* All fields; of what lies behind none is taken. *)
LEMMA CpyFldsGood ==
  ASSUME GoodAt("live"), Sound, InArray(m), NEW c \in Half,
         NEW all, FromSource(all), NEW xs, xs \subseteq 1..m.nflds
  PROVE  \E n \in Nat : Acc(CpyFlds(c, all, xs), n)
<1> DEFINE z == Len(all)
<1>0. m.nflds \in Nat /\ z \in Nat /\ m.nflds <= z /\ MaxPz \in Nat
  BY BoundAssumption DEF FromSource, GoodAt, Good, WellTyped
<1>1. PICK f : IsUpTo(f, c, all, xs, z) /\ CpyFlds(c, all, xs) = f[z]
  BY <1>0, CpyFldsIs
<1> HIDE DEF z
<1> DEFINE S == {k \in 0..z : \E n \in Nat : Acc(f[k], n) /\ (k <= m.nflds => n = k)}
<1>2. 0 \in S
  <2>1. 0 \in 0..z
    BY <1>0
  <2>2. f[0] = Start(c)
    BY <1>1, <2>1, Zenon DEF IsUpTo
  <2>3. Good(MakeMsg(c), "live")
    BY MadeGood
  <2>4. MakeMsg(c).nflds = 0 /\ MakeMsg(c).pz = 0
    BY DEF MakeMsg
  <2>5. Shown(MakeMsg(c)) = <<>>
    <3>1. Shown(MakeMsg(c)) \in Seq(FL!Entry) /\ Len(Shown(MakeMsg(c))) = 0
      BY <2>3, <2>4, ShownSeq
    <3> QED
      BY <3>1, EmptySeq
  <2>6. 0 * MaxPz = 0
    BY <1>0
  <2>7. Acc(Start(c), 0)
    BY <2>3, <2>4, <2>5, <2>6 DEF Acc, Start, IsAcc
  <2> QED
    BY <2>1, <2>2, <2>7
<1>3. ASSUME NEW k \in 0..(z - 1), k \in S PROVE k + 1 \in S
  <2>1. k + 1 \in 0..z /\ (k + 1) - 1 = k /\ k + 1 # 0 /\ k \in Nat
    BY <1>0
  <2>2. f[k + 1] = CpyNext(f[k], all, xs, k + 1)
    <3>1. f[k + 1] = CpyNext(f[(k + 1) - 1], all, xs, k + 1)
      BY <1>1, <2>1, Zenon DEF IsUpTo
    <3> QED
      BY <2>1, <3>1
  <2>3. PICK n \in Nat : Acc(f[k], n) /\ (k <= m.nflds => n = k)
    BY <1>3
  <2>4. CASE k + 1 <= m.nflds
    <3>1. k + 1 \in 1..m.nflds /\ Acc(f[k], (k + 1) - 1)
      BY <1>0, <2>1, <2>3, <2>4
    <3>2. Acc(CpyNext(f[k], all, xs, k + 1), k + 1)
      BY <3>1, CpyNextGood
    <3> QED
      BY <2>1, <2>2, <3>2
  <2>5. CASE ~(k + 1 <= m.nflds)
    <3>1. k + 1 \notin xs
      BY <1>0, <2>1, <2>5
    <3>2. f[k + 1] = f[k]
      BY <2>2, <3>1 DEF CpyNext
    <3> QED
      BY <2>1, <2>3, <2>5, <3>2
  <2> QED
    BY <2>4, <2>5
<1> HIDE DEF S
<1>4. \A k \in 0..z : k \in S
  BY <1>0, <1>2, <1>3, UpTo
<1>5. z \in S
  BY <1>0, <1>4
<1> QED
  BY <1>0, <1>1, <1>5 DEF S

(* To say something is to show it, where every text is found. *)
LEMMA SaysShown ==
  ASSUME NEW msg, Good(msg, "live")
  PROVE  SaysAll(msg) = Shown(msg)
<1>0. msg.nflds \in Nat
  BY DEF Good, WellTyped
<1>1. ASSUME NEW k \in 1..msg.nflds PROVE Says(msg, msg.flds[k - 1]) = Shows(msg, msg.flds[k - 1])
  <2>1. k - 1 \in 0..(msg.nflds - 1)
    BY <1>0
  <2>2. msg.flds[k - 1].typ = "OFF" => msg.flds[k - 1].u \in DOMAIN msg.pr
    BY <2>1 DEF Good, TextsFound
  <2> QED
    BY <2>2 DEF Says, Shows
<1> QED
  BY <1>1 DEF SaysAll, Shown

(* An extract of a sound source has its fields and texts, and says what    *)
(* the fields taken said.                                                  *)
LEMMA ExtractGood ==
  ASSUME GoodAt("live"), Sound, InArray(m), NEW c \in Half,
         NEW all, FromSource(all), NEW xs, xs \subseteq 1..m.nflds, NEW sound
  PROVE  LET x == Extracted(c, all, xs, sound)
         IN  /\ x.how = "extract" /\ x.shared = FALSE /\ ~x.bad
             /\ Good(x.msg, "live") /\ SaysAll(x.msg) = x.says
<1> DEFINE r == CpyFlds(c, all, xs)
<1>1. PICK n \in Nat : Acc(r, n)
  BY CpyFldsGood
<1> HIDE DEF r
<1>2. Good(r.msg, "live") /\ r.says = Shown(r.msg) /\ r.bad = FALSE
  BY <1>1 DEF Acc, IsAcc
<1>3. SaysAll(r.msg) = r.says
  BY <1>2, SaysShown
<1> QED
  BY <1>2, <1>3 DEF Extracted, r

-----------------------------------------------------------------------------
(* The invariant *)

IsMsg(msg) ==
  msg \in [ slot : {msg.slot}, f35 : {msg.f35}, nflds : Nat, flds : {msg.flds},
            store : {msg.store}, fspc : {msg.fspc}, vspc : {msg.vspc}, pz : Nat, pr : {msg.pr} ]

DType ==
  d \in [ how : {"none", "copy", "refused", "extract"}, msg : {d.msg}, shared : BOOLEAN,
          says : {d.says}, sound : BOOLEAN, bad : {d.bad}, tsz : Int ]

(* The source is good, but for the texts a copy has moved over.            *)
SourceInv == GoodAt("lost") /\ InArray(m)

(* What is shared is a copy, and not of a message on the heap.             *)
DerivedInv ==
  /\ DType
  /\ d.shared => d.how = "copy" /\ ~d.sound
  /\ d.how = "copy" => IsMsg(d.msg)
  /\ HeapCopyKeeps
  /\ CopyInMemory
  /\ ExtractLive
  /\ ExtractSays

(* Behind the fields lie slots. *)
StaleInv == stale \in Seq(Fld)

DInv == SourceInv /\ StaleInv /\ DerivedInv

(* Nothing is said of the derived message but by itself. *)
LEMMA SameDerived ==
  ASSUME DerivedInv, d' = d
  PROVE  DerivedInv'
<1>1. ExtractLive'
  BY DEF DerivedInv, ExtractLive, WellTyped, Typed, InRoom, AllocdVspc, TextsLive,
         TextsFound, TextsApart
<1>2. ExtractSays'
  BY DEF DerivedInv, ExtractSays, SaysAll, Says
<1>3. HeapCopyKeeps'
  BY DEF DerivedInv, HeapCopyKeeps, SaysAll, Says
<1> QED
  BY <1>1, <1>2, <1>3 DEF DerivedInv, DType, IsMsg, CopyInMemory

-----------------------------------------------------------------------------
(* Sizes *)

(* The least size is what is written, and the sizes the interface names    *)
(* are no smaller.                                                         *)
LEMMA SizesOrdered ==
  ASSUME GoodAt("lost")
  PROVE  /\ MinZ(m) \in Nat /\ FixcMsgZ(m) \in Nat /\ OptZ(m) \in Nat
         /\ MinZ(m) <= FixcMsgZ(m) /\ MinZ(m) <= OptZ(m)
<1>1. m.nflds \in Nat /\ m.pz \in Nat /\ m.fspc \in Nat /\ m.nflds <= m.fspc
  BY DEF GoodAt, Good, WellTyped, InRoom
<1> DEFINE v == Round(m.pz + 1, VspcRnd)
           f == Round(m.nflds, FspcRnd)
<1>2. v \in Nat /\ m.pz + 1 <= v /\ f \in Nat /\ m.nflds <= f
  <2>1. m.pz + 1 \in Nat
    BY <1>1
  <2> QED
    BY <1>1, <2>1, RoundUp, RoundingAssumption
<1> HIDE DEF v, f
<1>3. /\ MinZ(m) = m.pz + 1 + m.nflds * 16 + 96
      /\ FixcMsgZ(m) = v + m.fspc * 16 + 96
      /\ OptZ(m) = v + f * 16 + 96
  BY DEF MinZ, FixcMsgZ, OptZ, MsgZ, FLD_Z, MSG_Z, v, f
<1> QED
  BY <1>1, <1>2, <1>3

(* Moving texts away from a message loses texts and nothing else. *)
LEMMA MovedGood ==
  ASSUME GoodAt("lost"), m' = [m EXCEPT !.pr = MovedOver(m)]
  PROVE  GoodAt("lost")'
<1> DEFINE pr == MovedOver(m)
<1>1. DOMAIN pr \subseteq DOMAIN m.pr /\ \A k \in DOMAIN pr : pr[k] = m.pr[k]
  BY DEF MovedOver
<1> HIDE DEF pr
<1>2. /\ m' \in [ slot : [SlotTags -> Fld], f35 : Fld,
                  nflds : Nat, flds : [0..(m.nflds - 1) -> Fld],
                  store : {"none", "these", "heap"}, fspc : Nat, vspc : Nat,
                  pz : Nat, pr : {pr} ]
      /\ m'.nflds = m.nflds /\ m'.pz = m.pz /\ m'.pr = pr /\ m'.f35 = m.f35
      /\ m'.store = m.store /\ m'.fspc = m.fspc /\ m'.vspc = m.vspc
  BY DEF GoodAt, Good, WellTyped, pr
<1>3. WellTyped(m')
  BY <1>1, <1>2 DEF GoodAt, Good, WellTyped, Typed
<1>4. InRoom(m')
  BY <1>2 DEF GoodAt, Good, InRoom, AllocdVspc
<1>5. TextsApart(m')
  BY <1>1, <1>2 DEF GoodAt, Good, TextsApart
<1> QED
  BY <1>2, <1>3, <1>4, <1>5 DEF GoodAt, Good

-----------------------------------------------------------------------------
(* The steps *)

(* The copy has the source's fields and, of a message on the heap, all of  *)
(* its texts.                                                              *)
LEMMA CopyStep ==
  ASSUME DInv, NEW tsz \in Int, Copy(tsz), MinZ(m) <= tsz
  PROVE  DInv'
<1>0. ~(tsz < MinZ(m))
  BY SizesOrdered DEF DInv, SourceInv
<1>1. PICK pr \in CopiedTexts(m) :
        d' = [how |-> "copy", says |-> SaysAll(m), sound |-> m.store = "heap",
              msg |-> [m EXCEPT !.store = "these", !.fspc = m.nflds,
                                !.vspc = m.pz + 1, !.pr = pr],
              shared |-> Shares(m), bad |-> FALSE, tsz |-> tsz]
  BY <1>0, Zenon DEF Copy
<1>2. m' = [m EXCEPT !.pr = IF Shares(m) THEN MovedOver(m) ELSE @] /\ TextsLive(m)
  BY <1>0, Zenon DEF Copy, Free
<1>3. GoodAt("lost")'
  <2>1. CASE Shares(m)
    BY <1>2, <2>1, MovedGood DEF DInv, SourceInv
  <2>2. CASE ~Shares(m)
    <3>1. m' = m
      BY <1>2, <2>2 DEF DInv, SourceInv, GoodAt, Good, WellTyped
    <3> QED
      BY <3>1 DEF DInv, SourceInv, GoodAt
  <2> QED
    BY <2>1, <2>2
<1> DEFINE c == [m EXCEPT !.store = "these", !.fspc = m.nflds, !.vspc = m.pz + 1, !.pr = pr]
<1>4. /\ IsMsg(c) /\ c.nflds = m.nflds /\ c.flds = m.flds /\ c.pz = m.pz /\ c.pr = pr
      /\ m.nflds \in Nat /\ m.pz \in Nat
  BY DEF DInv, SourceInv, GoodAt, Good, WellTyped, IsMsg
<1> HIDE DEF c
<1>5. /\ d'.how = "copy" /\ d'.msg = c /\ d'.says = SaysAll(m) /\ d'.tsz = tsz
      /\ d'.shared = Shares(m) /\ d'.sound = (m.store = "heap") /\ DType'
  BY <1>1 DEF c, Shares, DType
<1>6. d'.shared => ~d'.sound
  BY <1>5 DEF Shares
<1>7. HeapCopyKeeps'
  <2>1. SUFFICES ASSUME m.store = "heap" PROVE SaysAll(c) = SaysAll(m)
    BY <1>5 DEF HeapCopyKeeps, SaysAll, Says
  <2>2. pr = FirstBytes(m.pr, m.pz + 1)
    BY <2>1 DEF CopiedTexts
  <2>3. \A k \in DOMAIN m.pr : k + Size[m.pr[k]] < m.pz + 1
    <3> TAKE k \in DOMAIN m.pr
    <3>1. k + Size[m.pr[k]] < m.pz /\ k \in Nat /\ Size[m.pr[k]] \in Nat
      BY TextAssumption DEF DInv, SourceInv, GoodAt, Good, TextsApart, WellTyped
    <3> QED
      BY <1>4, <3>1
  <2>4. DOMAIN pr = DOMAIN m.pr /\ \A k \in DOMAIN m.pr : pr[k] = m.pr[k]
    BY <2>2, <2>3 DEF FirstBytes
  <2> QED
    BY <1>4, <2>4 DEF SaysAll, Says
<1>8. CopyInMemory'
  <2>1. WrittenZ(c) <= tsz
    BY <1>4 DEF WrittenZ, MinZ, MsgZ, FLD_Z, MSG_Z
  <2> QED
    BY <1>5, <2>1 DEF CopyInMemory, WrittenZ
<1>9. InArray(m')
  <2>1. m'.nflds = m.nflds /\ m'.flds = m.flds
    BY <1>2 DEF DInv, SourceInv, GoodAt, Good, WellTyped
  <2> QED
    BY <2>1 DEF DInv, SourceInv, InArray
<1>10. ExtractLive' /\ ExtractSays'
  BY <1>5 DEF ExtractLive, ExtractSays
<1>11. StaleInv'
  BY DEF Copy, DInv, StaleInv
<1> QED
  BY <1>3, <1>4, <1>5, <1>6, <1>7, <1>8, <1>9, <1>10, <1>11
     DEF DInv, SourceInv, DerivedInv, IsMsg, ExtractLive, ExtractSays

(* Memory that is too small is left alone. *)
LEMMA RefusedStep ==
  ASSUME DInv, NEW tsz \in Int, Copy(tsz), tsz < MinZ(m)
  PROVE  DInv'
<1>1. d' = [NoDerived EXCEPT !.how = "refused", !.msg = m, !.tsz = tsz] /\ m' = m
  BY Zenon DEF Copy
<1>2. /\ d' \in [ how : {"refused"}, msg : {m}, shared : {FALSE},
                  says : {d'.says}, sound : {TRUE}, bad : {d'.bad}, tsz : {tsz} ]
      /\ d'.msg = m /\ d'.how = "refused" /\ d'.tsz = tsz /\ d'.shared = FALSE
  BY <1>1 DEF NoDerived
<1>3. tsz < FixcMsgZ(m) /\ tsz < OptZ(m)
  BY SizesOrdered DEF DInv, SourceInv
<1>4. CopyInMemory'
  BY <1>2, <1>3 DEF CopyInMemory, FixcMsgZ, OptZ, MsgZ
<1>5. ExtractLive' /\ ExtractSays'
  BY <1>2 DEF ExtractLive, ExtractSays
<1>6. StaleInv'
  BY DEF Copy, DInv, StaleInv
<1> QED
  BY <1>1, <1>2, <1>4, <1>5, <1>6
     DEF DInv, SourceInv, DerivedInv, GoodAt, DType, HeapCopyKeeps

(* Where the loop ends in time nothing behind the fields is taken. *)
LEMMA NothingBehind ==
  ASSUME GoodAt("live"), NEW behind \in Seq(Fld), NEW c, NEW below, NEW n,
         EndsThere(Flds(m), behind, c, below)
  PROVE  TakenDeep(Flds(m), behind, c, below, n) \subseteq 1..m.nflds
<1> DEFINE fs  == Flds(m)
           all == fs \o behind
           z   == m.nflds
<1>1. /\ Len(fs) = z /\ DOMAIN fs = 1..z /\ z \in Nat
      /\ DOMAIN all = 1..(z + Len(behind)) /\ Len(behind) \in Nat
      /\ behind # <<>> => all[z + 1] = Head(behind)
  BY FieldsFirst, LenProperties
<1>2. EndsThere(fs, behind, c, below)
  OBVIOUS
<1> HIDE DEF fs, all, z
<1> SUFFICES ASSUME NEW i \in DOMAIN all, i > z, Last(fs).tpc \in below \ {c},
                    Inside(fs, all, c, below, n, i)
             PROVE  FALSE
  <2>1. ASSUME NEW i \in TakenDeep(fs, behind, c, below, n) PROVE i \in 1..z
    BY <1>1, <2>1 DEF TakenDeep, all
  <2> QED
    BY <2>1 DEF fs, z
<1>3. PICK j \in DOMAIN fs : j < i /\ \A k \in (j + 1)..i : all[k].tpc \in below \ {c}
  BY DEF Inside
<1>4. i \in Nat /\ j \in 1..z /\ z + 1 \in (j + 1)..i
  BY <1>1
<1>5. fs # <<>>
  BY <1>1
<1>6. behind # <<>>
  BY <1>1, EmptySeq
<1>7. Head(behind).tpc \in below \ {c}
  BY <1>1, <1>3, <1>4, <1>6
<1> QED
  BY <1>2, <1>5, <1>6, <1>7 DEF EndsThere

(* An extract takes fields of the source, or is not said to be sound. *)
LEMMA TakenFrom ==
  ASSUME DInv, NEW c \in Contexts, NEW n, Extr(c, n) \/ ExtrDeep(c, n)
  PROVE  \E all, xs : \E sound \in BOOLEAN :
           /\ m' = m /\ d' = Extracted(c, all, xs, sound) /\ stale' = stale
           /\ sound => Sound /\ FromSource(all) /\ xs \subseteq 1..m.nflds
<1>0. GoodAt("live") /\ stale \in Seq(Fld)
  <2>1. TextsLive(m)
    BY DEF Extr, ExtrDeep, CanExtract, Free
  <2> QED
    BY <2>1 DEF DInv, SourceInv, StaleInv, GoodAt, Good, TextsLive
<1>1. CASE Extr(c, n)
  <2> DEFINE xs == Taken(Flds(m), c, n)
  <2>1. FromSource(Flds(m)) /\ DOMAIN Flds(m) = 1..m.nflds
    BY <1>0, FieldsFirst
  <2>2. xs \subseteq 1..m.nflds
    BY <2>1 DEF Taken
  <2>3. Sound \in BOOLEAN
    BY DEF Sound
  <2> HIDE DEF xs
  <2>4. m' = m /\ d' = Extracted(c, Flds(m), xs, Sound) /\ stale' = stale
    BY <1>1, Zenon DEF Extr, xs
  <2> QED
    BY <2>1, <2>2, <2>3, <2>4, Zenon
<1>2. CASE ExtrDeep(c, n)
  <2>1. PICK rest \in Leftovers :
          d' = Extracted(c, Flds(m) \o (stale \o rest),
                         TakenDeep(Flds(m), stale \o rest, c, Below(c), n),
                         Sound /\ EndsThere(Flds(m), stale \o rest, c, Below(c)))
    BY <1>2 DEF ExtrDeep
  <2> DEFINE behind == stale \o rest
             xs     == TakenDeep(Flds(m), behind, c, Below(c), n)
             sound  == Sound /\ EndsThere(Flds(m), behind, c, Below(c))
  <2>2. behind \in Seq(Fld)
    <3>1. rest \in Seq(Fld)
      BY ContextAssumption
    <3> QED
      BY <1>0, <3>1, ConcatProperties
  <2>3. d' = Extracted(c, Flds(m) \o behind, xs, sound) /\ m' = m /\ stale' = stale
    BY <1>2, <2>1 DEF ExtrDeep
  <2> HIDE DEF behind
  <2>4. FromSource(Flds(m) \o behind)
    BY <1>0, <2>2, FieldsFirst
  <2>5. sound => xs \subseteq 1..m.nflds
    BY <1>0, <2>2, NothingBehind
  <2>6. sound \in BOOLEAN /\ (sound => Sound)
    BY DEF Sound, EndsThere
  <2> HIDE DEF xs, sound
  <2> QED
    BY <2>3, <2>4, <2>5, <2>6, Zenon
<1> QED
  BY <1>1, <1>2

(* An extract is good, and says what it should, if it is sound. *)
LEMMA ExtractStep ==
  ASSUME DInv, NEW c \in Contexts, NEW n, Extr(c, n) \/ ExtrDeep(c, n)
  PROVE  DInv'
<1>1. PICK all, xs, sound :
         /\ sound \in BOOLEAN
         /\ m' = m /\ d' = Extracted(c, all, xs, sound) /\ stale' = stale
         /\ sound => Sound /\ FromSource(all) /\ xs \subseteq 1..m.nflds
  BY TakenFrom
<1>2. DType' /\ d'.how = "extract" /\ d'.shared = FALSE /\ d'.sound = sound
  BY <1>1 DEF Extracted, DType
<1>3. GoodAt("live")
  <2>1. TextsLive(m)
    BY DEF Extr, ExtrDeep, CanExtract, Free
  <2> QED
    BY <2>1 DEF DInv, SourceInv, GoodAt, Good, TextsLive
<1>4. ASSUME sound
      PROVE  ~d'.bad /\ Good(d'.msg, "live") /\ SaysAll(d'.msg) = d'.says
  <2>1. c \in Half
    BY ContextAssumption
  <2>2. InArray(m)
    BY DEF DInv, SourceInv
  <2> QED
    BY <1>1, <1>3, <1>4, <2>1, <2>2, ExtractGood
<1>5. ExtractLive'
  <2>1. SUFFICES ASSUME sound
                 PROVE  /\ ~d'.bad /\ WellTyped(d'.msg) /\ InRoom(d'.msg) /\ TextsLive(d'.msg)
    BY <1>2 DEF ExtractLive, WellTyped, InRoom, TextsLive, TextsFound, TextsApart, Typed, AllocdVspc
  <2> QED
    BY <1>4, <2>1 DEF Good, TextsLive
<1>6. ExtractSays'
  <2>1. SUFFICES ASSUME sound PROVE SaysAll(d'.msg) = d'.says
    BY <1>2 DEF ExtractSays, SaysAll, Says
  <2> QED
    BY <1>4, <2>1
<1>7. GoodAt("lost")' /\ InArray(m') /\ StaleInv'
  BY <1>1 DEF DInv, SourceInv, StaleInv, GoodAt
<1> QED
  BY <1>2, <1>5, <1>6, <1>7 DEF DInv, SourceInv, DerivedInv, HeapCopyKeeps, CopyInMemory

(* Fields and texts of a copy that shares them are changed from outside,   *)
(* neither their number nor the sizes are.                                 *)
LEMMA SharedChanged ==
  ASSUME DerivedInv, NEW f, NEW p,
         d' = IF ~d.shared THEN d ELSE [d EXCEPT !.msg.flds = f, !.msg.pr = p]
  PROVE  DerivedInv'
<1>1. CASE ~d.shared
  BY <1>1, SameDerived
<1>2. CASE d.shared
  <2> DEFINE c == [d.msg EXCEPT !.flds = f, !.pr = p]
  <2>1. d' = [d EXCEPT !.msg = c] /\ d.how = "copy" /\ ~d.sound
    BY <1>2 DEF DerivedInv, DType
  <2>2. IsMsg(c) /\ c.nflds = d.msg.nflds /\ c.pz = d.msg.pz
    BY <2>1 DEF DerivedInv, IsMsg
  <2> HIDE DEF c
  <2>3. DType' /\ d'.how = "copy" /\ d'.msg = c /\ ~d'.sound /\ d'.tsz = d.tsz
    BY <2>1 DEF DerivedInv, DType
  <2>4. CopyInMemory'
    BY <2>1, <2>2, <2>3 DEF DerivedInv, CopyInMemory, WrittenZ
  <2>5. ExtractLive' /\ ExtractSays'
    BY <2>3 DEF ExtractLive, ExtractSays
  <2> QED
    BY <2>2, <2>3, <2>4, <2>5 DEF DerivedInv, IsMsg, HeapCopyKeeps
<1> QED
  BY <1>1, <1>2

(* The fields from idx on up move by one, and none has a tag that has a    *)
(* slot.                                                                   *)
LEMMA PlaceInArray ==
  ASSUME NEW msg, IsMsg(msg), InArray(msg),
         NEW fld, fld.tag \notin SlotTags \union {MSG_TYPE}, NEW idx \in 0..msg.nflds
  PROVE  InArray(Place(msg, fld, idx))
<1> DEFINE r == Place(msg, fld, idx)
<1>1. /\ r.nflds = msg.nflds + 1 /\ msg.nflds \in Nat
      /\ r.flds = [i \in 0..msg.nflds |-> IF i < idx THEN msg.flds[i]
                                         ELSE IF i = idx THEN fld ELSE msg.flds[i - 1]]
  BY DEF Place, IsMsg
<1> HIDE DEF r
<1> SUFFICES ASSUME NEW i \in 0..msg.nflds
             PROVE  r.flds[i].tag \notin SlotTags \union {MSG_TYPE}
  BY <1>1 DEF InArray, r
<1>2. CASE i < idx
  <2>1. i \in 0..(msg.nflds - 1)
    BY <1>1, <1>2
  <2> QED
    BY <1>1, <1>2, <2>1 DEF InArray
<1>3. CASE i = idx
  BY <1>1, <1>3
<1>4. CASE idx < i
  <2>1. i - 1 \in 0..(msg.nflds - 1) /\ ~(i < idx) /\ i # idx
    BY <1>1, <1>4
  <2> QED
    BY <1>1, <1>4, <2>1 DEF InArray
<1> QED
  BY <1>1, <1>2, <1>3, <1>4

(* check_size touches no field. *)
LEMMA CheckSizeInArray ==
  ASSUME NEW msg, IsMsg(msg), InArray(msg), NEW addf, NEW addv
  PROVE  LET r == CheckSize(msg, addf, addv)
         IN  IsMsg(r) /\ InArray(r) /\ r.nflds = msg.nflds /\ r.pz = msg.pz
<1> DEFINE r == CheckSize(msg, addf, addv)
<1>1. IsMsg(r) /\ r.nflds = msg.nflds /\ r.pz = msg.pz /\ r.flds = msg.flds
  BY DEF CheckSize, IsMsg
<1> HIDE DEF r
<1> QED
  BY <1>1 DEF InArray, r

(* No call puts a tag that has a slot into the array. *)
LEMMA NextInArray ==
  ASSUME SourceInv, Next
  PROVE  InArray(m')
<1>0. IsMsg(m) /\ InArray(m) /\ m.nflds \in Nat /\ m.flds \in [0..(m.nflds - 1) -> Fld]
  BY DEF SourceInv, GoodAt, Good, WellTyped, IsMsg
<1>1. ASSUME NEW i \in 0..(m.nflds + 1), NEW fld \in Inputs, AddFld(fld, i)
      PROVE  InArray(m')
  <2>1. m' = AddFldAt(m, fld, i) /\ fld.tag # MSG_TYPE
    BY <1>1, NoBatchAssumption DEF AddFld
  <2>2. CASE fld.typ = "OFF" \/ i > m.nflds \/ fld.tag = TAG_UNK
    BY <1>0, <2>1, <2>2 DEF AddFldAt, FldRefused
  <2>3. CASE ~(fld.typ = "OFF" \/ i > m.nflds \/ fld.tag = TAG_UNK) /\ fld.tag \in SlotTags
    <3>1. m'.nflds = m.nflds /\ m'.flds = m.flds
      BY <1>0, <2>1, <2>3 DEF AddFldAt, FldRefused, IsMsg
    <3> QED
      BY <1>0, <3>1 DEF InArray
  <2>4. CASE ~(fld.typ = "OFF" \/ i > m.nflds \/ fld.tag = TAG_UNK) /\ fld.tag \notin SlotTags
    <3>1. m' = Place(CheckSize(m, 1, 0), fld, i)
      BY <2>1, <2>4 DEF AddFldAt, FldRefused, PromoteIfType, InsertFld
    <3>2. i \in 0..m.nflds
      BY <1>0, <2>4
    <3> QED
      BY <1>0, <2>1, <2>4, <3>1, <3>2, CheckSizeInArray, PlaceInArray
  <2> QED
    BY <2>2, <2>3, <2>4
<1>2. ASSUME NEW i \in 0..(m.nflds + 1), NEW tag \in Tags, NEW s \in Strs, AddTag(tag, s, i)
      PROVE  InArray(m')
  <2>1. m' = AddTagAt(m, tag, s, i) /\ tag # MSG_TYPE
    BY <1>2, NoBatchAssumption DEF AddTag
  <2>2. CASE i > m.nflds \/ tag \in SlotTags \union {TAG_UNK}
    <3>1. m' = m
      BY <2>1, <2>2 DEF AddTagAt, TagRefused
    <3> QED
      BY <1>0, <3>1
  <2>3. CASE ~(i > m.nflds \/ tag \in SlotTags \union {TAG_UNK})
    <3> DEFINE c == CheckSize(m, 1, Size[s] + 1)
               t == StoreStr(c, s)
    <3>1. IsMsg(c) /\ InArray(c) /\ c.nflds = m.nflds
      BY <1>0, CheckSizeInArray
    <3>2. \E f : f.tag = tag /\ m' = Place(t, f, i)
      <4>1. m' = InsertStr(m, tag, s, i)
        BY <2>1, <2>3 DEF AddTagAt, TagRefused, PromoteIfType
      <4> DEFINE f == [tag |-> tag, typ |-> "OFF", tpc |-> 0, cnt |-> 0, u |-> c.pz]
      <4>2. m' = Place(t, f, i) /\ f.tag = tag
        BY <4>1 DEF InsertStr
      <4> QED
        BY <4>2
    <3> HIDE DEF c
    <3>3. IsMsg(t) /\ t.nflds = c.nflds /\ t.flds = c.flds
      <4>1. c.pz \in Nat /\ Size[s] \in Nat
        BY <3>1, TextAssumption DEF IsMsg
      <4>2. c.pz + Size[s] + 1 \in Nat
        BY <4>1
      <4> QED
        BY <3>1, <4>2 DEF StoreStr, IsMsg
    <3> HIDE DEF t
    <3>4. i \in 0..t.nflds /\ InArray(t)
      BY <1>0, <2>3, <3>1, <3>3 DEF InArray
    <3> QED
      BY <2>1, <2>3, <3>2, <3>3, <3>4, PlaceInArray
  <2> QED
    BY <2>2, <2>3
<1>3. ASSUME NEW i \in 0..(m.nflds + 1), Del(i)
      PROVE  InArray(m')
  <2>1. m' = DelFld(m, i)
    BY <1>3 DEF Del
  <2>2. CASE i >= m.nflds
    <3>1. i + 1 # m.nflds
      BY <1>0, <2>2
    <3> QED
      BY <1>0, <2>1, <2>2, <3>1 DEF DelFld
  <2>3. CASE i + 1 = m.nflds
    <3>1. ~(i >= m.nflds)
      BY <1>0, <2>3
    <3>2. m'.nflds = i /\ m'.flds = [k \in 0..(i - 1) |-> m.flds[k]]
      BY <1>0, <2>1, <2>3, <3>1 DEF DelFld, IsMsg
    <3>3. 0..(i - 1) \subseteq 0..(m.nflds - 1)
      BY <1>0, <2>3
    <3> QED
      BY <1>0, <3>2, <3>3 DEF InArray
  <2>4. CASE i < m.nflds /\ i + 1 # m.nflds
    <3>1. ~(i >= m.nflds) /\ i \in 0..(m.nflds - 1)
      BY <1>0, <2>4
    <3> DEFINE f == [m.flds[i] EXCEPT !.tag = TAG_UNK]
    <3>2. m'.nflds = m.nflds /\ m'.flds = [m.flds EXCEPT ![i] = f]
      BY <1>0, <2>1, <2>4, <3>1 DEF DelFld, IsMsg
    <3>3. f.tag = TAG_UNK
      BY <1>0, <3>1 DEF Fld
    <3>4. TAG_UNK \notin SlotTags \union {MSG_TYPE}
      BY DEF SlotTags, MSG_TYPE, BEGIN_STRING, BODY_LENGTH, CHECK_SUM, TAG_UNK
    <3> HIDE DEF f
    <3> QED
      BY <1>0, <3>1, <3>2, <3>3, <3>4 DEF InArray
  <2> QED
    BY <1>0, <2>2, <2>3, <2>4
<1> QED
  BY <1>1, <1>2, <1>3 DEF Next

(* Editing the source reaches a derived message only through what they     *)
(* share, and then as SharedChanged allows.                                *)
LEMMA EditStep ==
  ASSUME DInv, EditSource
  PROVE  DInv'
<1>1. Next /\ d' = Touched(m') /\ SourceInv /\ DerivedInv
  BY DEF EditSource, DInv
<1>2. GoodAt("lost")'
  BY <1>1, NextGood DEF SourceInv
<1>3. InArray(m')
  BY <1>1, NextInArray
<1>4. DerivedInv'
  <2>1. CASE ~d.shared \/ m'.store # "these"
    <3>1. d' = d
      BY <1>1, <2>1 DEF Touched
    <3> QED
      BY <1>1, <3>1, SameDerived
  <2>2. CASE ~(~d.shared \/ m'.store # "these")
    <3>1. \E f, p : d' = [d EXCEPT !.msg.flds = f, !.msg.pr = p]
      BY <1>1, <2>2 DEF Touched
    <3> QED
      BY <1>1, <2>2, <3>1, SharedChanged
  <2> QED
    BY <2>1, <2>2
<1>5. StaleInv'
  <2>1. m.nflds \in Nat /\ m'.nflds \in Nat /\ m.flds \in [0..(m.nflds - 1) -> Fld]
    BY <1>1, <1>2 DEF SourceInv, GoodAt, Good, WellTyped
  <2>2. stale \in Seq(Fld) /\ stale' = Left(m')
    BY DEF DInv, StaleInv, EditSource
  <2>3. CASE m'.nflds < m.nflds
    <3> DEFINE f == [m.flds[m'.nflds] EXCEPT !.tag = TAG_UNK]
    <3>1. m.flds[m'.nflds] \in Fld
      BY <2>1, <2>3
    <3>2. f \in Fld
      BY <3>1, Halves DEF Fld
    <3> HIDE DEF f
    <3>3. <<f>> \o stale \in Seq(Fld)
      BY <2>2, <3>2, ConcatProperties
    <3>4. ~(m'.nflds > m.nflds) /\ m'.nflds # m.nflds
      BY <2>1, <2>3
    <3>5. Left(m') = <<f>> \o stale
      BY <2>3, <3>4 DEF Left, f
    <3> QED
      BY <2>2, <3>3, <3>5 DEF StaleInv
  <2>4. CASE ~(m'.nflds < m.nflds)
    <3>0. m'.nflds > m.nflds \/ m'.nflds = m.nflds
      BY <2>1, <2>4
    <3>1. Left(m') \in {<<>>, stale} \/ (stale # <<>> /\ Left(m') = Tail(stale))
      BY <2>4, <3>0 DEF Left
    <3>2. stale # <<>> => Tail(stale) \in Seq(Fld)
      BY <2>2, HeadTailProperties
    <3>3. <<>> \in Seq(Fld)
      BY EmptySeq
    <3>4. Left(m') \in Seq(Fld)
      BY <2>2, <3>1, <3>2, <3>3, Zenon
    <3> QED
      BY <2>2, <3>4 DEF StaleInv
  <2> QED
    BY <2>3, <2>4
<1> QED
  BY <1>2, <1>3, <1>4, <1>5 DEF DInv, SourceInv

(* Freeing the source leaves it empty, and a derived message that is on    *)
(* the heap as it was.                                                     *)
LEMMA FreeStep ==
  ASSUME DInv, FreeSource
  PROVE  DInv'
<1>1. m' = MakeMsg(0)
  BY DEF FreeSource
<1>2. Good(MakeMsg(0), "live") /\ MakeMsg(0).nflds = 0 /\ MakeMsg(0).pz = 0
  <2>1. 0 \in Half
    BY Halves
  <2> QED
    BY <2>1, MadeGood DEF MakeMsg
<1>3. 0 <= MaxFlds + 2 /\ 0 <= MaxPz
  BY BoundAssumption
<1>4. GoodAt("lost")'
  BY <1>1, <1>2, <1>3 DEF GoodAt, Good
<1>5. \E f, p : d' = IF ~d.shared THEN d ELSE [d EXCEPT !.msg.flds = f, !.msg.pr = p]
  BY DEF FreeSource
<1>6. InArray(m')
  BY <1>1, <1>2 DEF InArray
<1>7. DerivedInv'
  BY <1>5, SharedChanged DEF DInv
<1>8. StaleInv'
  BY DEF FreeSource, StaleInv
<1> QED
  BY <1>4, <1>6, <1>7, <1>8 DEF DInv, SourceInv

(* With the derived message dropped there is nothing to say of it.         *)
LEMMA DropStep ==
  ASSUME DInv, Drop
  PROVE  DInv'
<1>1. m' = m /\ d' = NoDerived /\ stale' = stale
  BY DEF Drop
<1>2. DType' /\ d'.how = "none" /\ d'.shared = FALSE
  BY <1>1 DEF NoDerived, DType
<1>3. ExtractLive' /\ ExtractSays' /\ HeapCopyKeeps' /\ CopyInMemory'
  BY <1>2 DEF ExtractLive, ExtractSays, HeapCopyKeeps, CopyInMemory
<1> QED
  BY <1>1, <1>2, <1>3 DEF DInv, SourceInv, StaleInv, DerivedInv, GoodAt

-----------------------------------------------------------------------------
(* The invariant holds *)

(* It holds of a source as it was built or parsed, with nothing derived.   *)
LEMMA DeriveInitInv == DeriveInit => DInv
<1> SUFFICES ASSUME DeriveInit PROVE DInv
  OBVIOUS
<1>1. GoodAt("lost") /\ InArray(m) /\ StaleInv
  BY SourceAssumption DEF DeriveInit, GoodAt, Good, TextsLive, StaleInv
<1>2. d = NoDerived
  BY DEF DeriveInit
<1>3. DType /\ d.how = "none" /\ d.shared = FALSE
  BY <1>2 DEF NoDerived, DType
<1>4. ExtractLive /\ ExtractSays /\ HeapCopyKeeps /\ CopyInMemory
  BY <1>3 DEF ExtractLive, ExtractSays, HeapCopyKeeps, CopyInMemory
<1> QED
  BY <1>1, <1>3, <1>4 DEF DInv, SourceInv, DerivedInv

(* Every step of the source and of what is derived keeps it.               *)
LEMMA DeriveNextInv == DInv /\ [DeriveNext]_derivevars => DInv'
<1> SUFFICES ASSUME DInv, [DeriveNext]_derivevars PROVE DInv'
  OBVIOUS
<1>1. ASSUME NEW tsz \in {FixcMsgZ(m), OptZ(m), MinZ(m), MinZ(m) - 1}, Copy(tsz) PROVE DInv'
  <2>1. MinZ(m) \in Nat /\ tsz \in Int
    BY SizesOrdered DEF DInv, SourceInv
  <2>2. tsz < MinZ(m) \/ MinZ(m) <= tsz
    BY <2>1
  <2> QED
    BY <1>1, <2>1, <2>2, CopyStep, RefusedStep
<1>2. CASE \E c \in Contexts, n \in Nths : Extr(c, n) \/ ExtrDeep(c, n)
  BY <1>2, ExtractStep
<1>3. CASE EditSource
  BY <1>3, EditStep
<1>4. CASE FreeSource
  BY <1>4, FreeStep
<1>5. CASE Drop
  BY <1>5, DropStep
<1>6. CASE UNCHANGED derivevars
  BY <1>6, SameDerived DEF derivevars, DInv, SourceInv, StaleInv, GoodAt
<1> QED
  BY <1>1, <1>2, <1>3, <1>4, <1>5, <1>6 DEF DeriveNext

(* Whatever is copied, extracted, edited and freed in whatever order, the  *)
(* source is in order but for the texts it lost to a copy, a copy on the   *)
(* heap has the fields and the texts it was made with, and no copy is      *)
(* larger than its memory: the invariant of fixc_msg_cpy.                  *)
THEOREM DeriveInvariance == DeriveSpec => []DInv
<1> QED
  BY DeriveInitInv, DeriveNextInv, PTL DEF DeriveSpec

(* A copy of a message on the heap says what the message said when it was  *)
(* made, however that is edited afterwards and after it is freed:          *)
(* fixc_msg_cpy has copied fields and texts, and its offsets still lead to *)
(* them.                                                                   *)
THEOREM HeapCopiesKeep == DeriveSpec => []HeapCopyKeeps
<1>1. DInv => HeapCopyKeeps
  BY DEF DInv, DerivedInv
<1> QED
  BY <1>1, DeriveInvariance, PTL

(* fixc_msg_cpy writes no more than the memory it was given, and refuses   *)
(* no memory of the sizes fixc_msg_z and fixc_msg_optz name.               *)
THEOREM CopiesFit == DeriveSpec => []CopyInMemory
<1>1. DInv => CopyInMemory
  BY DEF DInv, DerivedInv
<1> QED
  BY <1>1, DeriveInvariance, PTL

(* An extract of a source no field of which was deleted or put in front of *)
(* others has every field in its array and every text in memory of its     *)
(* own, and nothing was stored beside it: __cpy_fld is always given a      *)
(* length no smaller than the text's, and fixc_add_tag has made room.      *)
THEOREM ExtractsLive == DeriveSpec => []ExtractLive
<1>1. DInv => ExtractLive
  BY DEF DInv, DerivedInv
<1> QED
  BY <1>1, DeriveInvariance, PTL

(* And such an extract says what the fields taken said, in their order,    *)
(* whatever has become of the source since.                                *)
THEOREM ExtractsSay == DeriveSpec => []ExtractSays
<1>1. DInv => ExtractSays
  BY DEF DInv, DerivedInv
<1> QED
  BY <1>1, DeriveInvariance, PTL

=============================================================================
