---------------------------- MODULE WriterProofs ----------------------------
(***************************************************************************)
(* Proofs about Fixup and FixmlWriter, for any tree of contexts and any    *)
(* messages.                                                               *)
(***************************************************************************)
EXTENDS FixmlWriter, SizeProofs, SequenceTheorems

-----------------------------------------------------------------------------
(* The invariant *)

IsSeq(s) == s \in Seq(Range(s))

(* Fixup: a context is entered at each field at most. *)
FixInv ==
  /\ pc \in {"idle", "start", "look", "some", "fixed"}
  /\ IsSeq(flds) /\ IsSeq(stk)
  /\ pc # "idle" => \E top \in Pow2 : Len(flds) + MinStk <= top
  /\ i \in 1..(Len(flds) + 1) /\ room \in Nat /\ streak \in Nat /\ oos \in BOOLEAN
  /\ \A n \in DOMAIN stk : stk[n].idx \in 1..(IF i = 1 THEN 1 ELSE i - 1)
  /\ pc \in {"idle", "start"} => i = 1
  /\ pc = "look" <=> stk # <<>>
  /\ Len(stk) <= i
  /\ Len(stk) <= room

(* Where the writer is, and in which field. *)
AtField ==
  /\ wpc \in {"wait", "room", "field", "open", "attr", "close", "foot", "done"}
  /\ wpc # "wait" => pc = "fixed"
  /\ wpc = "open" => todo # <<>>
  /\ k \in 1..(Len(flds) + 1)
  /\ wpc \in {"field", "open", "attr"} => k <= Len(flds)

Comp == Ctxs \ {UNK}

(* The elements that are open, their records, and the text so far. *)
Rec == [osub : Comp, cntc : Nat]
Elt == [ctx : Comp, par : Nat, attrs : Seq(Nat)]
Xml == [elts : Seq(Elt), open : Seq(Nat), tag : BOOLEAN, bad : {FALSE}]

Whole(v) ==
  /\ v \in [state : Seq(Rec), free : Nat, fault : {FALSE}, b : {v.b}, xml : Xml]
  /\ Len(v.state) + v.free = NPool
  /\ Len(v.xml.open) = Len(v.state)
  /\ \A n \in 1..Len(v.state) :
       /\ v.xml.open[n] \in 1..Len(v.xml.elts)
       /\ v.xml.elts[v.xml.open[n]].ctx = v.state[n].osub
       /\ n + Height(v.state[n].osub) <= NPool
       /\ n < Len(v.state) => v.state[n].cntc # 0
  /\ v.xml.tag <=> v.state # <<>> /\ v.state[Len(v.state)].cntc = 0
  /\ v.xml.tag => v.xml.open[Len(v.xml.open)] = Len(v.xml.elts)

(* The element of the last field is the innermost one, and it is new. *)
Settled ==
  IF otpc \in {UNK, BATCH} THEN w.state = <<>>
  ELSE w.state # <<>> /\ State(w).osub = otpc /\ State(w).cntc = 0

(* There are records for all that is to be opened. *)
RoomFor(v, c) == Len(v.state) + 1 + Height(c) <= NPool

Opening ==
  /\ \A j \in 1..Len(todo) : Len(w.state) + j + Height(todo[j]) <= NPool
  /\ todo[Len(todo)] = otpc
  /\ otpc = BATCH => w.state = <<>> /\ Len(todo) = 1

(* No count of children is larger than the number of elements. *)
Counted(v, m) == \A n \in 1..Len(v.state) : v.state[n].cntc <= m

(* The fields before n that are to be written. *)
Due(n) == {m \in 1..(n - 1) : flds[m].typ \notin Unwritten /\ flds[m].tag # Rptb(flds[m].tpc)}

(* What InContext says of the elements when n is the field to be written. *)
AttrsDone(elts, n) ==
  /\ UNION {ToSet(elts[e].attrs) : e \in DOMAIN elts} = Due(n)
  /\ \A e, f \in DOMAIN elts : \A a \in DOMAIN elts[e].attrs, b \in DOMAIN elts[f].attrs :
       e < f \/ (e = f /\ a < b) => elts[e].attrs[a] < elts[f].attrs[b]
  /\ \A e \in DOMAIN elts : \A m \in ToSet(elts[e].attrs) : elts[e].ctx = flds[m].tpc

WriteInv ==
  /\ Whole(w) /\ Counted(w, Len(w.xml.elts))
  /\ AttrsDone(w.xml.elts, k)
  /\ IsSeq(todo) /\ Range(todo) \subseteq Comp
  /\ wpc = "open" => Opening
  /\ wpc \in {"open", "attr"} => otpc = Ctx /\ ~Skipped
  /\ wpc \in {"room", "attr"} => Settled
  /\ wpc = "field" /\ (Skipped \/ Ctx = otpc) => Settled
  /\ wpc \in {"foot", "done"} => w.state = <<>>

(* While that is so, a count that is 16 bits wide is right. *)
Few(v) == Len(v.xml.elts) < CntSize

(* What holds of any text, however long. *)
IsXml(x) == x = [elts |-> x.elts, open |-> x.open, tag |-> x.tag, bad |-> x.bad]
XmlShaped(x) == IsXml(x) /\ IsSeq(x.elts)

IsWriter(v) == v = [state |-> v.state, free |-> v.free, xml |-> v.xml, fault |-> v.fault, b |-> v.b]
Shaped(v) == IsWriter(v) /\ XmlShaped(v.xml)

IInv ==
  /\ FixInv /\ AtField /\ Shaped(w)
  /\ wpc = "wait" => k = 1 /\ otpc = UNK /\ todo = <<>> /\ w = NoWriter
  /\ wpc # "wait" /\ Known /\ Few(w) => WriteInv

-----------------------------------------------------------------------------
(* The elements *)

(* The types of a writer's parts, as the proofs below use them. *)
LEMMA WholeTypes ==
  ASSUME NEW v, Whole(v)
  PROVE  /\ v.state \in Seq(Rec) /\ Len(v.state) \in Nat /\ DOMAIN v.state = 1..Len(v.state)
         /\ v.free \in Nat /\ NPool \in Nat
         /\ v.xml \in Xml
         /\ v.xml.elts \in Seq(Elt) /\ Len(v.xml.elts) \in Nat
         /\ v.xml.open \in Seq(Nat) /\ DOMAIN v.xml.open = 1..Len(v.xml.open)
         /\ v.xml.tag \in BOOLEAN /\ v.xml.bad = FALSE /\ v.fault = FALSE
         /\ \A n \in 1..Len(v.state) : v.state[n] \in Rec /\ v.state[n].osub \in Comp
                                       /\ v.state[n].cntc \in Nat
<1>1. /\ v.state \in Seq(Rec) /\ v.free \in Nat /\ v.xml \in Xml /\ v.fault = FALSE
  BY DEF Whole
<1>2. /\ v.xml.elts \in Seq(Elt) /\ v.xml.open \in Seq(Nat) /\ v.xml.tag \in BOOLEAN
      /\ v.xml.bad = FALSE
  BY <1>1 DEF Xml
<1>3. \A n \in 1..Len(v.state) : v.state[n] \in Rec
  BY <1>1, ElementOfSeq
<1>4. \A r \in Rec : r.osub \in Comp /\ r.cntc \in Nat
  BY DEF Rec
<1> QED
  BY <1>1, <1>2, <1>3, <1>4, LenProperties, SchemaAssumption

(* The first child finishes the parent's start tag, and only the first, as *)
(* long as there are not so many that the count comes back to 0.           *)
LEMMA FinishParentGood ==
  ASSUME NEW v, Whole(v), NEW m \in Nat, Counted(v, m), m + 1 < CntSize
  PROVE  LET r == FinishParent(v)
         IN  /\ Whole(r) /\ r.xml.tag = FALSE
             /\ Len(r.state) = Len(v.state) /\ r.free = v.free
             /\ r.xml.elts = v.xml.elts /\ r.xml.open = v.xml.open
             /\ \A n \in 1..Len(r.state) : r.state[n].cntc # 0
             /\ Counted(r, m + 1)
<1> DEFINE r == FinishParent(v)
           z == Len(v.state)
<1>0. /\ v.state \in Seq(Rec) /\ z \in Nat /\ v.xml \in Xml /\ v.free \in Nat
      /\ DOMAIN v.state = 1..z
      /\ \A n \in 1..z : v.state[n] \in Rec /\ v.state[n].cntc \in Nat
  BY WholeTypes
<1>1. CASE v.state = <<>>
  <2>1. r = v
    BY <1>1 DEF FinishParent
  <2>2. v.xml.tag = FALSE /\ z = 0
    BY <1>0, <1>1 DEF Whole, Xml
  <2> QED
    BY <2>1, <2>2 DEF Counted
<1>2. CASE v.state # <<>>
  <2>0. z \in 1..z
    BY <1>0, <1>2, EmptySeq
  <2> DEFINE cnt == v.state[z].cntc + 1
             e == [v.state[z] EXCEPT !.cntc = cnt]
             s == [v.state EXCEPT ![z] = e]
             x == [v.xml EXCEPT !.tag = FALSE]
             u == [v EXCEPT !.state[Len(v.state)].cntc = (@ + 1) % CntSize]
  <2>1. cnt \in Nat /\ cnt # 0 /\ cnt <= m + 1 /\ cnt % CntSize = cnt
    <3>1. v.state[z].cntc \in Nat /\ v.state[z].cntc <= m /\ CntSize \in Nat \ {0}
      BY <1>0, <2>0, CountAssumption DEF Counted
    <3>2. ASSUME NEW a \in Nat, NEW c \in Nat, a <= m, m + 1 < c
          PROVE  a + 1 \in Nat /\ a + 1 # 0 /\ a + 1 <= m + 1 /\ (a + 1) % c = a + 1
      BY <3>2
    <3>3. CntSize \in Nat
      BY <3>1
    <3> QED
      BY <3>1, <3>2, <3>3
  <2>2. e \in Rec /\ e.osub = v.state[z].osub /\ e.cntc = cnt
    BY <1>0, <2>0, <2>1 DEF Rec
  <2>3. u = [v EXCEPT !.state = s]
    <3>1. v \in [state : Seq(Rec), free : Nat, fault : {FALSE}, b : {v.b}, xml : Xml]
      BY DEF Whole
    <3>2. u = [v EXCEPT !.state = [v.state EXCEPT ![z] = [v.state[z] EXCEPT !.cntc = (v.state[z].cntc + 1) % CntSize]]]
      BY <1>0, <2>0, <3>1 DEF Rec
    <3> QED
      BY <2>1, <3>2
  <2> HIDE DEF e, cnt
  <2>4. /\ s \in Seq(Rec) /\ Len(s) = z
        /\ \A n \in 1..z : s[n] = IF n = z THEN e ELSE v.state[n]
    BY <1>0, <2>0, <2>2, ExceptSeq
  <2>5. x \in Xml /\ x.tag = FALSE /\ x.elts = v.xml.elts /\ x.open = v.xml.open
    BY <1>0 DEF Xml
  <2>6. /\ r.state = s /\ r.xml = x /\ r.free = v.free /\ r.fault = v.fault
        /\ r \in [state : {s}, free : Nat, fault : {FALSE}, b : {r.b}, xml : {x}]
    <3>0. v \in [state : Seq(Rec), free : Nat, fault : {FALSE}, b : {v.b}, xml : Xml]
      BY DEF Whole
    <3>1. CASE State(v).cntc = 0
      <4>1. v.xml.tag = TRUE
        BY <1>2, <3>1, WholeTypes DEF Whole, State
      <4>2. Finish(v.xml) = x
        BY <1>0, <4>1 DEF Finish, Xml
      <4> DEFINE b == Char[v.b]
      <4>3. r = [u EXCEPT !.b = Char[@], !.xml = Finish(@)]
        BY <1>2, <3>1 DEF FinishParent
      <4> HIDE DEF s, x, r, u
      <4>4. u.b = v.b /\ u.xml = v.xml
        BY <2>3, <3>0
      <4>5. r = [v EXCEPT !.state = s, !.b = b, !.xml = x]
        <5>1. r = [u EXCEPT !.b = b, !.xml = Finish(v.xml)]
          BY <2>3, <3>0, <4>3, <4>4
        <5> HIDE DEF b
        <5> QED
          BY <2>3, <3>0, <4>2, <5>1
      <4> HIDE DEF b
      <4> QED
        BY <3>0, <4>5
    <3>2. CASE State(v).cntc # 0
      <4>1. v.xml.tag = FALSE
        BY <1>2, <3>2, WholeTypes DEF Whole, State
      <4>2. v.xml = x
        BY <1>0, <4>1 DEF Xml
      <4>3. r = u
        BY <1>2, <3>2 DEF FinishParent
      <4> HIDE DEF s, x, r, u
      <4> QED
        BY <2>3, <3>0, <4>2, <4>3
    <3> QED
      BY <3>1, <3>2
  <2> HIDE DEF s, x, r, u
  <2>7. \A n \in 1..z : s[n].osub = v.state[n].osub /\ s[n].cntc # 0 /\ s[n].cntc <= m + 1
    <3> TAKE n \in 1..z
    <3>1. CASE n = z
      BY <2>1, <2>2, <2>4, <3>1
    <3>2. CASE n # z
      <4>1. v.state[n].cntc <= m /\ v.state[n].cntc \in Nat /\ v.state[n].cntc # 0
        BY <1>0, <3>2 DEF Whole, Counted
      <4> QED
        BY <2>4, <3>2, <4>1
    <3> QED
      BY <3>1, <3>2
  <2>8. Whole(r)
    BY <2>0, <2>4, <2>5, <2>6, <2>7 DEF Whole
  <2> QED
    BY <2>4, <2>5, <2>6, <2>7, <2>8 DEF r, Counted
<1> QED
  BY <1>1, <1>2

(* A new element is the innermost one; its record comes from the pool.     *)
LEMMA PushGood ==
  ASSUME NEW v, Whole(v), NEW c \in Comp, RoomFor(v, c), Height(c) \in Nat,
         Orb(c) = UNK, c # BATCH,
         Counted(v, Len(v.xml.elts)), Len(v.xml.elts) + 1 < CntSize
  PROVE  LET r == Push(v, c)
         IN  /\ Whole(r) /\ Counted(r, Len(r.xml.elts))
             /\ Len(r.state) = Len(v.state) + 1 /\ r.state # <<>>
             /\ State(r).osub = c /\ State(r).cntc = 0
             /\ \E l \in Elt : l.attrs = <<>> /\ r.xml.elts = Append(v.xml.elts, l)
<1> DEFINE f == FinishParent(v)
           r == Push(v, c)
           z == Len(v.state)
           e == [osub |-> c, cntc |-> 0]
           l == [ctx |-> c, par |-> Parent(f.xml), attrs |-> <<>>]
           s == Append(f.state, e)
           es == Append(f.xml.elts, l)
           o == Append(f.xml.open, Len(f.xml.elts) + 1)
           x == [elts |-> es, open |-> o, tag |-> TRUE, bad |-> FALSE]
<1>1. /\ Whole(f) /\ f.xml.tag = FALSE /\ Len(f.state) = z /\ f.free = v.free
      /\ f.xml.elts = v.xml.elts /\ f.xml.open = v.xml.open
      /\ \A n \in 1..Len(f.state) : f.state[n].cntc # 0
      /\ Counted(f, Len(v.xml.elts) + 1)
  <2>1. Len(v.xml.elts) \in Nat
    BY WholeTypes
  <2> QED
    BY <2>1, FinishParentGood
<1> HIDE DEF f
<1>2. /\ f.state \in Seq(Rec) /\ f.xml \in Xml /\ f.free \in Nat /\ z \in Nat /\ NPool \in Nat
      /\ f.xml.elts \in Seq(Elt) /\ Len(f.xml.elts) \in Nat /\ f.xml.open \in Seq(Nat)
      /\ Len(f.xml.open) = z /\ z + f.free = NPool /\ f.xml.bad = FALSE
  BY <1>1, WholeTypes DEF Whole
<1>3. v.free # 0 /\ f.free - 1 \in Nat
  BY <1>1, <1>2 DEF RoomFor
<1>4. Parent(f.xml) \in Nat
  BY <1>2, EmptySeq, ElementOfSeq, SMTT(20) DEF Parent
<1>5. e \in Rec /\ l \in Elt
  <2>1. <<>> \in Seq(Nat)
    BY EmptySeq
  <2> QED
    BY <1>4, <2>1 DEF Rec, Elt
<1>6. Begin(f.xml, c) = x
  <2>1. f.xml = [elts |-> f.xml.elts, open |-> f.xml.open, tag |-> FALSE, bad |-> FALSE]
    BY <1>1, <1>2 DEF Xml
  <2>2. Begin(f.xml, c) =
          [f.xml EXCEPT !.elts = es, !.open = o, !.tag = TRUE, !.bad = f.xml.bad \/ f.xml.tag]
    BY <2>1 DEF Begin
  <2> HIDE DEF es, o
  <2> QED
    BY <1>1, <1>2, <2>1, <2>2
<1> DEFINE b == Chars[Char[f.b], NameLen(c)]
           q == [f EXCEPT !.b = b, !.xml = x, !.free = f.free - 1, !.state = s]
<1>7. r = q
  BY <1>3, <1>6 DEF Push, f
<1> HIDE DEF e, l, s, es, o
<1>8. /\ s \in Seq(Rec) /\ Len(s) = z + 1 /\ s # <<>> /\ s[z + 1] = e
      /\ \A n \in 1..z : s[n] = f.state[n]
  <2>1. Len(f.state) = z /\ z \in Nat
    BY <1>1, <1>2
  <2>2. s \in Seq(Rec) /\ s # <<>> /\ Len(s) = Len(f.state) + 1
    BY <1>2, <1>5, AppendProperties DEF s
  <2>3. s[Len(f.state) + 1] = e /\ \A n \in 1..Len(f.state) : s[n] = f.state[n]
    BY <1>2, <1>5, AppendProperties DEF s
  <2> QED
    BY <2>1, <2>2, <2>3
<1>9. /\ es \in Seq(Elt) /\ Len(es) = Len(f.xml.elts) + 1 /\ es[Len(f.xml.elts) + 1] = l
      /\ \A n \in 1..Len(f.xml.elts) : es[n] = f.xml.elts[n]
  BY <1>2, <1>5, AppendProperties DEF es
<1>10. /\ o \in Seq(Nat) /\ Len(o) = z + 1 /\ o[z + 1] = Len(f.xml.elts) + 1
       /\ \A n \in 1..z : o[n] = f.xml.open[n]
  <2>1. Len(f.xml.elts) + 1 \in Nat
    BY <1>2
  <2>2. Len(f.xml.open) = z /\ z \in Nat
    BY <1>2
  <2> HIDE DEF z
  <2>3. o \in Seq(Nat) /\ Len(o) = Len(f.xml.open) + 1
    BY <1>2, <2>1, AppendProperties DEF o
  <2>4. /\ o[Len(f.xml.open) + 1] = Len(f.xml.elts) + 1
        /\ \A n \in 1..Len(f.xml.open) : o[n] = f.xml.open[n]
    BY <1>2, <2>1, AppendProperties DEF o
  <2> QED
    BY <2>2, <2>3, <2>4
<1>11. x \in Xml /\ x.elts = es /\ x.open = o /\ x.tag = TRUE
  BY <1>9, <1>10 DEF Xml
<1> HIDE DEF b, x, r
<1>12. /\ q \in [state : {s}, free : Nat, fault : {FALSE}, b : {b}, xml : {x}]
       /\ q.state = s /\ q.free = f.free - 1 /\ q.xml = x /\ q.b = b
  BY <1>1, <1>3 DEF Whole
<1> HIDE DEF q
<1>13. e.osub = c /\ e.cntc = 0 /\ l.ctx = c /\ l.attrs = <<>>
  BY DEF e, l
<1>14. ASSUME NEW n \in 1..(z + 1)
       PROVE  /\ o[n] \in 1..Len(es)
              /\ es[o[n]].ctx = s[n].osub
              /\ n + Height(s[n].osub) <= NPool
              /\ n < z + 1 => s[n].cntc # 0
  <2>1. CASE n = z + 1
    <3>1. o[n] = Len(es) /\ es[o[n]] = l /\ s[n] = e
      BY <1>8, <1>9, <1>10, <2>1
    <3>2. Len(es) \in 1..Len(es) /\ ~(n < z + 1)
      BY <1>2, <1>9, <2>1, SMTT(20)
    <3> QED
      BY <1>1, <1>13, <2>1, <3>1, <3>2 DEF RoomFor
  <2>2. CASE n # z + 1
    <3>1. n \in 1..z
      <4>1. z \in Nat
        BY <1>2
      <4> HIDE DEF z
      <4> QED
        BY <2>2, <4>1
    <3>2. o[n] = f.xml.open[n] /\ s[n] = f.state[n] /\ o[n] \in 1..Len(f.xml.elts)
      BY <1>1, <1>8, <1>10, <3>1 DEF Whole
    <3>3. o[n] \in 1..Len(es) /\ es[o[n]] = f.xml.elts[o[n]]
      <4>1. Len(f.xml.elts) \in Nat /\ Len(es) = Len(f.xml.elts) + 1
        BY <1>2, <1>9
      <4> QED
        BY <1>9, <3>2, <4>1
    <3> QED
      BY <1>1, <3>1, <3>2, <3>3 DEF Whole
  <2> QED
    BY <2>1, <2>2
<1>15. q.xml.open[Len(q.xml.open)] = Len(q.xml.elts)
  BY <1>9, <1>10, <1>11, <1>12
<1>16. Whole(q)
  <2>1. Len(q.state) + q.free = NPool
    <3>1. Len(q.state) = z + 1 /\ q.free = f.free - 1
      BY <1>8, <1>12
    <3>2. \A m \in Nat, n \in Nat : (m + 1) + (n - 1) = m + n
      OBVIOUS
    <3>3. z \in Nat /\ f.free \in Nat /\ z + f.free = NPool
      BY <1>2
    <3> QED
      BY <3>1, <3>2, <3>3
  <2>2. q \in [state : Seq(Rec), free : Nat, fault : {FALSE}, b : {q.b}, xml : Xml]
    BY <1>8, <1>11, <1>12
  <2>3. q.xml.tag <=> q.state # <<>> /\ q.state[Len(q.state)].cntc = 0
    BY <1>8, <1>11, <1>12, <1>13
  <2>4. Len(q.xml.open) = Len(q.state) /\ Len(q.state) = z + 1
    BY <1>8, <1>10, <1>11, <1>12
  <2> QED
    BY <1>11, <1>12, <1>14, <1>15, <2>1, <2>2, <2>3, <2>4, ZenonT(30) DEF Whole
<1>17. q.state # <<>> /\ State(q) = e /\ Len(q.state) = z + 1
  BY <1>8, <1>12 DEF State
<1>18. Counted(q, Len(q.xml.elts))
  <2>1. q.state = s /\ Len(q.xml.elts) = Len(v.xml.elts) + 1 /\ Len(v.xml.elts) \in Nat
    BY <1>1, <1>2, <1>9, <1>11, <1>12
  <2>2. \A n \in 1..(z + 1) : s[n].cntc <= Len(v.xml.elts) + 1
    <3> TAKE n \in 1..(z + 1)
    <3>1. CASE n = z + 1
      BY <1>8, <1>13, <2>1, <3>1
    <3>2. CASE n # z + 1
      <4>1. n \in 1..z
        <5>1. z \in Nat
          BY <1>2
        <5> HIDE DEF z
        <5> QED
          BY <3>2, <5>1
      <4> QED
        BY <1>1, <1>8, <4>1 DEF Counted
    <3> QED
      BY <3>1, <3>2
  <2> QED
    BY <1>8, <2>1, <2>2 DEF Counted
<1> QED
  BY <1>1, <1>5, <1>7, <1>11, <1>12, <1>13, <1>16, <1>17, <1>18 DEF r, es

(* An element of the schema that is optimised away, and a batch, are not   *)
(* opened.                                                                 *)
LEMMA PushNone ==
  ASSUME NEW v, NEW c, Orb(c) # UNK \/ c = BATCH
  PROVE  Push(v, c) = v
<1>1. ~(Orb(c) = UNK /\ c # BATCH /\ v.free = 0)
  OBVIOUS
<1> QED
  BY <1>1 DEF Push

(* The innermost element is closed by its own name, and its record goes    *)
(* back to the pool.                                                       *)
LEMMA PopGood ==
  ASSUME NEW v, Whole(v)
  PROVE  LET r == Pop(v)
         IN  /\ Whole(r) /\ r.xml.elts = v.xml.elts
             /\ \A m : Counted(v, m) => Counted(r, m)
             /\ v.state = <<>> => r = v
             /\ v.state # <<>> => Len(r.state) = Len(v.state) - 1
<1> DEFINE r == Pop(v)
           z == Len(v.state)
           s == SubSeq(v.state, 1, z - 1)
           o == SubSeq(v.xml.open, 1, z - 1)
           x == [elts |-> v.xml.elts, open |-> o, tag |-> FALSE, bad |-> FALSE]
<1>0. /\ v.state \in Seq(Rec) /\ z \in Nat /\ v.free \in Nat /\ v.xml \in Xml
      /\ v.xml.elts \in Seq(Elt) /\ v.xml.open \in Seq(Nat) /\ Len(v.xml.open) = z
      /\ NPool \in Nat /\ v.xml.bad = FALSE
      /\ \A n \in 1..z : v.state[n] \in Rec /\ v.state[n].cntc \in Nat
  BY WholeTypes DEF Whole
<1>1. CASE v.state = <<>>
  <2>1. r = v
    BY <1>1 DEF Pop
  <2> QED
    BY <1>1, <2>1
<1>2. CASE v.state # <<>>
  <2>0. z \in 1..z /\ z - 1 \in 0..z /\ z - 1 \in Nat
    BY <1>0, <1>2, EmptySeq
  <2>1. /\ s \in Seq(Rec) /\ Len(s) = z - 1 /\ \A n \in 1..(z - 1) : s[n] = v.state[n]
    <3>1. \A n \in 1..(z - 1) : v.state[n] \in Rec
      BY <1>0
    <3>2. /\ s \in Seq(Rec) /\ Len(s) = IF 1 <= z - 1 THEN z - 1 - 1 + 1 ELSE 0
          /\ \A n \in 1..(z - 1 - 1 + 1) : s[n] = v.state[1 + n - 1]
      BY <2>0, <3>1, SubSeqProperties
    <3> QED
      BY <2>0, <3>2
  <2>2. /\ o \in Seq(Nat) /\ Len(o) = z - 1 /\ \A n \in 1..(z - 1) : o[n] = v.xml.open[n]
    <3>1. \A n \in 1..(z - 1) : v.xml.open[n] \in Nat
      BY <1>0, <2>0, ElementOfSeq, SMTT(20)
    <3>2. /\ o \in Seq(Nat) /\ Len(o) = IF 1 <= z - 1 THEN z - 1 - 1 + 1 ELSE 0
          /\ \A n \in 1..(z - 1 - 1 + 1) : o[n] = v.xml.open[1 + n - 1]
      BY <2>0, <3>1, SubSeqProperties
    <3> QED
      BY <2>0, <3>2
  <2>3. Up(v.xml) = o /\ Parent(v.xml) = v.xml.open[z] /\ v.xml.open # <<>>
    BY <1>0, <2>0, EmptySeq DEF Up, Parent
  <2> HIDE DEF s, o
  <2>4. \E b : r = [v EXCEPT !.state = s, !.free = v.free + 1, !.b = b, !.xml = x]
    <3>1. CASE State(v).cntc = 0
      <4>1. v.xml.tag = TRUE
        BY <1>2, <3>1, WholeTypes DEF Whole, State
      <4>2. EndEmpty(v.xml) = x
        BY <1>0, <2>3, <4>1 DEF EndEmpty, Xml
      <4> QED
        <5> DEFINE u == Char[Char[v.b]]
        <5>1. r = [v EXCEPT !.state = s, !.free = @ + 1, !.b = u, !.xml = EndEmpty(@)]
          BY <1>2, <3>1 DEF Pop, s
        <5>2. r = [v EXCEPT !.state = s, !.free = v.free + 1, !.b = u, !.xml = x]
          BY <4>2, <5>1 DEF Whole
        <5> HIDE DEF r, u, x
        <5> QED
          BY <5>2
    <3>2. CASE State(v).cntc # 0
      <4>1. v.xml.tag = FALSE
        BY <1>2, <3>2, WholeTypes DEF Whole, State
      <4>2. v.xml.elts[Parent(v.xml)].ctx = State(v).osub
        BY <2>0, <2>3 DEF Whole, State
      <4>3. End(v.xml, State(v).osub) = x
        BY <1>0, <2>3, <4>1, <4>2 DEF End, Xml
      <4> QED
        <5> DEFINE u == EndTag(v.b, NameLen(State(v).osub))
        <5>1. r = [v EXCEPT !.state = s, !.free = @ + 1, !.b = u, !.xml = End(@, State(v).osub)]
          BY <1>2, <3>2 DEF Pop, s
        <5>2. r = [v EXCEPT !.state = s, !.free = v.free + 1, !.b = u, !.xml = x]
          BY <4>3, <5>1 DEF Whole
        <5> HIDE DEF r, u, x
        <5> QED
          BY <5>2
    <3> QED
      BY <3>1, <3>2
  <2>5. PICK b : r = [v EXCEPT !.state = s, !.free = v.free + 1, !.b = b, !.xml = x]
    BY <2>4
  <2>6. x \in Xml /\ x.elts = v.xml.elts /\ x.open = o /\ x.tag = FALSE
    BY <1>0, <2>2 DEF Xml
  <2> HIDE DEF x, r
  <2>7. /\ r \in [state : {s}, free : Nat, fault : {FALSE}, b : {r.b}, xml : {x}]
        /\ r.state = s /\ r.free = v.free + 1 /\ r.xml = x
    <3>1. v \in [state : Seq(Rec), free : Nat, fault : {FALSE}, b : {v.b}, xml : Xml]
      BY DEF Whole
    <3>2. v.free + 1 \in Nat
      BY <1>0
    <3> DEFINE m == v.free + 1
    <3>3. r = [v EXCEPT !.state = s, !.free = m, !.b = b, !.xml = x]
      BY <2>5
    <3>4. m \in Nat
      BY <3>2
    <3> HIDE DEF m
    <3>5. r = [state |-> s, free |-> m, fault |-> FALSE, b |-> b, xml |-> x]
      BY <3>1, <3>3
    <3> QED
      BY <3>4, <3>5 DEF m
  <2>8. ASSUME NEW n \in 1..(z - 1)
        PROVE  /\ o[n] \in 1..Len(v.xml.elts)
               /\ v.xml.elts[o[n]].ctx = s[n].osub
               /\ n + Height(s[n].osub) <= NPool
               /\ s[n].cntc # 0
    <3>1. n \in 1..z /\ n < z
      BY <2>0
    <3> QED
      BY <2>1, <2>2, <3>1 DEF Whole
  <2>9. ~(s # <<>> /\ s[Len(s)].cntc = 0)
    <3>1. CASE s # <<>>
      <4>1. z - 1 \in 1..(z - 1)
        BY <2>0, <2>1, <3>1, EmptySeq
      <4> QED
        BY <2>1, <2>8, <4>1
    <3> QED
      BY <3>1
  <2>10. Len(r.state) + r.free = NPool
    BY <1>0, <2>0, <2>1, <2>7 DEF Whole
  <2>11. Whole(r)
    BY <2>1, <2>2, <2>6, <2>7, <2>8, <2>9, <2>10 DEF Whole
  <2>12. ASSUME NEW m, Counted(v, m) PROVE Counted(r, m)
    <3>1. \A n \in 1..(z - 1) : n \in 1..z
      BY <1>0
    <3> QED
      BY <2>1, <2>7, <2>12, <3>1 DEF Counted
  <2> QED
    BY <1>2, <2>1, <2>6, <2>7, <2>11, <2>12 DEF r
<1> QED
  BY <1>1, <1>2

(* An attribute goes into the element whose start tag is unfinished.       *)
LEMMA AttrGood ==
  ASSUME NEW v, Whole(v), v.state # <<>>, State(v).cntc = 0, NEW n \in Nat, NEW b
  PROVE  LET r == [v EXCEPT !.b = b, !.xml = Attr(@, n), !.fault = @ \/ v.state = <<>>]
             l == Len(v.xml.elts)
         IN  /\ Whole(r) /\ r.state = v.state
             /\ l \in 1..l
             /\ r.xml.elts = [v.xml.elts EXCEPT ![l].attrs = Append(@, n)]
             /\ Len(r.xml.elts) = l
             /\ v.xml.elts[l].ctx = State(v).osub
<1> DEFINE r == [v EXCEPT !.b = b, !.xml = Attr(@, n), !.fault = @ \/ v.state = <<>>]
           z == Len(v.state)
           l == Len(v.xml.elts)
           e == [v.xml.elts[l] EXCEPT !.attrs = Append(@, n)]
           es == [v.xml.elts EXCEPT ![l] = e]
           x == [v.xml EXCEPT !.elts = es]
<1>0. /\ v.state \in Seq(Rec) /\ z \in Nat /\ v.free \in Nat /\ v.xml \in Xml /\ v.fault = FALSE
      /\ v.xml.elts \in Seq(Elt) /\ l \in Nat /\ v.xml.open \in Seq(Nat) /\ Len(v.xml.open) = z
      /\ NPool \in Nat /\ v.xml.bad = FALSE /\ v.xml.tag \in BOOLEAN
  BY WholeTypes DEF Whole
<1>1. z \in 1..z /\ v.xml.open # <<>>
  BY <1>0, EmptySeq
<1>2. v.xml.tag = TRUE /\ v.xml.open[z] = l /\ l \in 1..l /\ v.xml.elts[l].ctx = State(v).osub
  BY <1>0, <1>1 DEF Whole, State
<1>3. Parent(v.xml) = l
  BY <1>0, <1>1, <1>2 DEF Parent
<1>4. v.xml.elts[l] \in Elt /\ DOMAIN v.xml.elts = 1..l
  BY <1>0, <1>2, ElementOfSeq, LenProperties
<1>5. e \in Elt /\ e.ctx = v.xml.elts[l].ctx
  <2>1. v.xml.elts[l].attrs \in Seq(Nat)
    BY <1>4 DEF Elt
  <2>2. Append(v.xml.elts[l].attrs, n) \in Seq(Nat)
    BY <2>1, AppendProperties
  <2> QED
    BY <1>4, <2>2 DEF Elt
<1>6. Attr(v.xml, n) = x /\ es = [v.xml.elts EXCEPT ![l].attrs = Append(@, n)]
  BY <1>0, <1>2, <1>3, <1>4 DEF Attr, Xml
<1>7. r = [v EXCEPT !.b = b, !.xml = x]
  BY <1>0, <1>6 DEF Whole
<1> HIDE DEF e
<1>8. /\ es \in Seq(Elt) /\ Len(es) = l
      /\ \A j \in 1..l : es[j].ctx = v.xml.elts[j].ctx
  BY <1>0, <1>2, <1>5, ExceptSeq
<1> HIDE DEF es
<1>9. x \in Xml /\ x.elts = es /\ x.open = v.xml.open /\ x.tag = v.xml.tag
  BY <1>0, <1>8 DEF Xml
<1> HIDE DEF x, r
<1>10. /\ r \in [state : Seq(Rec), free : Nat, fault : {FALSE}, b : {b}, xml : {x}]
       /\ r.state = v.state /\ r.free = v.free /\ r.xml = x /\ r.b = b
  BY <1>7 DEF Whole
<1>11. Whole(r)
  <2>1. r \in [state : Seq(Rec), free : Nat, fault : {FALSE}, b : {r.b}, xml : Xml]
    BY <1>9, <1>10
  <2>2. ASSUME NEW j \in 1..Len(r.state)
        PROVE  /\ r.xml.open[j] \in 1..Len(r.xml.elts)
               /\ r.xml.elts[r.xml.open[j]].ctx = r.state[j].osub
               /\ j + Height(r.state[j].osub) <= NPool
               /\ j < Len(r.state) => r.state[j].cntc # 0
    <3>1. j \in 1..z
      BY <1>10
    <3>2. v.xml.open[j] \in 1..l /\ v.xml.elts[v.xml.open[j]].ctx = v.state[j].osub
      BY <3>1 DEF Whole
    <3>3. r.xml.open[j] \in 1..Len(r.xml.elts)
          /\ r.xml.elts[r.xml.open[j]].ctx = r.state[j].osub
      BY <1>8, <1>9, <1>10, <3>2
    <3> QED
      BY <1>10, <3>1, <3>3 DEF Whole
  <2>3. Len(r.state) + r.free = NPool /\ Len(r.xml.open) = Len(r.state)
    BY <1>0, <1>9, <1>10 DEF Whole
  <2>4. r.xml.tag <=> r.state # <<>> /\ r.state[Len(r.state)].cntc = 0
    BY <1>9, <1>10 DEF Whole
  <2>5. r.xml.open[Len(r.xml.open)] = Len(r.xml.elts)
    BY <1>0, <1>2, <1>8, <1>9, <1>10
  <2> QED
    BY <2>1, <2>2, <2>3, <2>4, <2>5 DEF Whole
<1> QED
  BY <1>2, <1>6, <1>8, <1>9, <1>10, <1>11 DEF r

-----------------------------------------------------------------------------
(* Texts of any length: the elements never become fewer *)

LEMMA WholeIsShaped ==
  ASSUME NEW v, Whole(v) PROVE Shaped(v)
<1>1. v \in [state : Seq(Rec), free : Nat, fault : {FALSE}, b : {v.b}, xml : Xml]
  BY DEF Whole
<1>2. v.xml \in Xml /\ v.xml.elts \in Seq(Elt)
  BY <1>1 DEF Xml
<1>3. IsSeq(v.xml.elts)
  BY <1>2, SeqOfRange DEF IsSeq
<1>4. IsWriter(v)
  BY <1>1 DEF IsWriter
<1>5. IsXml(v.xml)
  BY <1>2 DEF Xml, IsXml
<1> QED
  BY <1>3, <1>4, <1>5 DEF Shaped, XmlShaped

(* A text that follows on another. *)
Follows(y, x) == XmlShaped(y) /\ Len(x.elts) <= Len(y.elts)

LEMMA XmlFollows ==
  ASSUME NEW x, XmlShaped(x)
  PROVE  /\ Len(x.elts) \in Nat
         /\ Follows(x, x)
         /\ \A y : IsXml(y) /\ y.elts = x.elts => Follows(y, x)
<1>1. Len(x.elts) \in Nat
  BY LenProperties DEF XmlShaped, IsSeq
<1> QED
  BY <1>1 DEF Follows, XmlShaped

LEMMA FinishFollows ==
  ASSUME NEW x, XmlShaped(x) PROVE Follows(Finish(x), x) /\ Finish(x).elts = x.elts
<1> DEFINE y == Finish(x)
<1>1. y = [x EXCEPT !.tag = FALSE, !.bad = @ \/ ~x.tag]
  BY DEF Finish
<1> HIDE DEF y
<1>2. IsXml(y) /\ y.elts = x.elts
  BY <1>1 DEF XmlShaped, IsXml
<1> QED
  BY <1>2, XmlFollows DEF y

LEMMA EndFollows ==
  ASSUME NEW x, XmlShaped(x), NEW c PROVE Follows(End(x, c), x)
<1> DEFINE y == End(x, c)
<1>1. y = [x EXCEPT !.open = Up(x)] \/ y = [x EXCEPT !.bad = TRUE]
  BY DEF End
<1> HIDE DEF y
<1>2. IsXml(y) /\ y.elts = x.elts
  BY <1>1 DEF XmlShaped, IsXml
<1> QED
  BY <1>2, XmlFollows DEF y

LEMMA EndEmptyFollows ==
  ASSUME NEW x, XmlShaped(x) PROVE Follows(EndEmpty(x), x)
<1> DEFINE y == EndEmpty(x)
<1>1. y = [x EXCEPT !.open = Up(x), !.tag = FALSE] \/ y = [x EXCEPT !.bad = TRUE]
  BY DEF EndEmpty
<1> HIDE DEF y
<1>2. IsXml(y) /\ y.elts = x.elts
  BY <1>1 DEF XmlShaped, IsXml
<1> QED
  BY <1>2, XmlFollows DEF y

LEMMA BeginFollows ==
  ASSUME NEW x, XmlShaped(x), NEW c
  PROVE  Follows(Begin(x, c), x) /\ Len(Begin(x, c).elts) = Len(x.elts) + 1
<1> DEFINE l == [ctx |-> c, par |-> Parent(x), attrs |-> <<>>]
           es == Append(x.elts, l)
           o == Append(x.open, Len(x.elts) + 1)
           S == Range(x.elts) \union {l}
           y == Begin(x, c)
<1>1. y = [x EXCEPT !.elts = Append(@, l), !.open = Append(@, Len(x.elts) + 1),
                    !.tag = TRUE, !.bad = @ \/ x.tag]
  BY DEF Begin
<1> HIDE DEF y, l
<1>2. IsXml(y) /\ y.elts = es
  BY <1>1 DEF XmlShaped, IsXml
<1>3. x.elts \in Seq(S) /\ l \in S
  BY SeqMonotonic DEF XmlShaped, IsSeq
<1> HIDE DEF S
<1>4. es \in Seq(S) /\ Len(es) = Len(x.elts) + 1 /\ Len(x.elts) \in Nat
  BY <1>3, AppendProperties, LenProperties
<1> HIDE DEF es
<1>5. IsSeq(es)
  BY <1>4, SeqOfRange DEF IsSeq
<1> QED
  BY <1>2, <1>4, <1>5 DEF Follows, XmlShaped, y

LEMMA AttrFollows ==
  ASSUME NEW x, XmlShaped(x), NEW n PROVE Follows(Attr(x, n), x)
<1> DEFINE y == Attr(x, n)
           z == Len(x.elts)
           j == Parent(x)
           es == [x.elts EXCEPT ![j].attrs = Append(@, n)]
<1>1. x.elts \in Seq(Range(x.elts))
  BY DEF XmlShaped, IsSeq
<1>2. z \in Nat /\ DOMAIN x.elts = 1..z
  BY <1>1, LenProperties
<1>3. CASE x.tag
  <2>1. y = [x EXCEPT !.elts[j].attrs = Append(@, n)]
    BY <1>3 DEF Attr
  <2> HIDE DEF y, j
  <2>2. y = [x EXCEPT !.elts = es]
    BY <2>1 DEF XmlShaped, IsXml
  <2>3. es \in [1..z -> Range(es)]
    BY <1>2 DEF Range
  <2> HIDE DEF es
  <2>4. IsXml(y) /\ y.elts = es
    BY <2>2 DEF XmlShaped, IsXml
  <2>5. es \in Seq(Range(es))
    BY <1>2, <2>3, SeqDef
  <2>6. Len(es) = z
    <3>1. DOMAIN es = 1..Len(es) /\ Len(es) \in Nat
      BY <2>5, LenProperties
    <3>2. DOMAIN es = 1..z
      BY <2>3
    <3> QED
      BY <1>2, <3>1, <3>2
  <2> QED
    BY <1>2, <2>4, <2>5, <2>6 DEF Follows, XmlShaped, IsSeq, y
<1>4. CASE ~x.tag
  <2>1. y = [x EXCEPT !.bad = TRUE]
    BY <1>4 DEF Attr
  <2> HIDE DEF y
  <2>2. IsXml(y) /\ y.elts = x.elts
    BY <2>1 DEF XmlShaped, IsXml
  <2> QED
    BY <2>2, XmlFollows DEF y
<1> QED
  BY <1>3, <1>4

(* A writer whose text follows on another's. *)
Longer(r, v) == Shaped(r) /\ Len(v.xml.elts) <= Len(r.xml.elts)

LEMMA LongerIs ==
  ASSUME NEW v, NEW r, IsWriter(r), Follows(r.xml, v.xml) PROVE Longer(r, v)
BY DEF Longer, Shaped, Follows

LEMMA FinishParentLonger ==
  ASSUME NEW v, Shaped(v)
  PROVE  Longer(FinishParent(v), v) /\ FinishParent(v).xml.elts = v.xml.elts
<1> DEFINE r == FinishParent(v)
           u == [v EXCEPT !.state[Len(v.state)].cntc = (@ + 1) % CntSize]
<1>1. IsWriter(v) /\ XmlShaped(v.xml)
  BY DEF Shaped
<1>2. IsWriter(u) /\ u.xml = v.xml
  BY <1>1 DEF IsWriter
<1>3. r = v \/ r = u \/ r = [u EXCEPT !.b = Char[@], !.xml = Finish(@)]
  BY DEF FinishParent
<1> HIDE DEF u, r
<1>4. IsWriter(r) /\ (r.xml = v.xml \/ r.xml = Finish(v.xml))
  BY <1>1, <1>2, <1>3 DEF IsWriter
<1>5. Follows(r.xml, v.xml) /\ r.xml.elts = v.xml.elts
  BY <1>1, <1>4, XmlFollows, FinishFollows
<1> QED
  BY <1>4, <1>5, LongerIs DEF r

LEMMA PushLonger ==
  ASSUME NEW v, Shaped(v), NEW c
  PROVE  /\ Longer(Push(v, c), v)
         /\ Orb(c) = UNK /\ c # BATCH /\ v.free # 0 =>
              Len(Push(v, c).xml.elts) = Len(v.xml.elts) + 1
<1> DEFINE r == Push(v, c)
           f == FinishParent(v)
<1>1. IsWriter(v) /\ XmlShaped(v.xml)
  BY DEF Shaped
<1>2. IsWriter(f) /\ XmlShaped(f.xml) /\ f.xml.elts = v.xml.elts
  BY FinishParentLonger DEF Longer, Shaped
<1>3. CASE ~(Orb(c) = UNK /\ c # BATCH /\ v.free # 0)
  <2>1. r = v \/ r = [v EXCEPT !.fault = TRUE]
    BY <1>3 DEF Push
  <2> HIDE DEF r
  <2>2. IsWriter(r) /\ r.xml = v.xml
    BY <1>1, <2>1 DEF IsWriter
  <2>3. Follows(r.xml, v.xml)
    BY <1>1, <2>2, XmlFollows
  <2> QED
    BY <1>3, <2>2, <2>3, LongerIs DEF r
<1>4. CASE Orb(c) = UNK /\ c # BATCH /\ v.free # 0
  <2>1. r = [f EXCEPT !.b = Chars[Char[@], NameLen(c)], !.xml = Begin(@, c), !.free = @ - 1,
                      !.state = Append(@, [osub |-> c, cntc |-> 0])]
    BY <1>4 DEF Push
  <2> HIDE DEF f, r
  <2>2. IsWriter(r) /\ r.xml = Begin(f.xml, c)
    BY <1>2, <2>1 DEF IsWriter
  <2>3. Follows(r.xml, v.xml) /\ Len(r.xml.elts) = Len(v.xml.elts) + 1
    BY <1>2, <2>2, BeginFollows DEF Follows
  <2> QED
    BY <2>2, <2>3, LongerIs DEF r
<1> QED
  BY <1>3, <1>4

LEMMA PopLonger ==
  ASSUME NEW v, Shaped(v) PROVE Longer(Pop(v), v)
<1> DEFINE r == Pop(v)
           c == State(v).osub
           u == [v EXCEPT !.state = SubSeq(@, 1, Len(@) - 1), !.free = @ + 1]
<1>1. IsWriter(v) /\ XmlShaped(v.xml)
  BY DEF Shaped
<1>2. IsWriter(u) /\ u.xml = v.xml
  <2> DEFINE s == SubSeq(v.state, 1, Len(v.state) - 1)
             n == v.free + 1
  <2>1. u = [v EXCEPT !.state = s, !.free = n]
    BY <1>1 DEF IsWriter
  <2> HIDE DEF s, n
  <2>2. v \in [state : {v.state}, free : {v.free}, xml : {v.xml}, fault : {v.fault}, b : {v.b}]
    BY <1>1, Zenon DEF IsWriter
  <2>3. u \in [state : {s}, free : {n}, xml : {v.xml}, fault : {v.fault}, b : {v.b}]
    BY <2>1, <2>2
  <2> HIDE DEF u
  <2> QED
    BY <2>3 DEF IsWriter
<1>3. \/ r = v
      \/ r = [u EXCEPT !.b = Char[Char[@]], !.xml = EndEmpty(@)]
      \/ r = [u EXCEPT !.b = EndTag(@, NameLen(c)), !.xml = End(@, c)]
  <2>1. CASE v.state = <<>>
    BY <2>1 DEF Pop
  <2>2. CASE v.state # <<>> /\ State(v).cntc = 0
    BY <2>2, Zenon DEF Pop
  <2>3. CASE v.state # <<>> /\ State(v).cntc # 0
    BY <2>3, Zenon DEF Pop
  <2> QED
    BY <2>1, <2>2, <2>3
<1> HIDE DEF u, r, c
<1>4. IsWriter(r) /\ r.xml \in {v.xml, EndEmpty(v.xml), End(v.xml, c)}
  <2>1. CASE r = v
    BY <1>1, <2>1
  <2>2. CASE r = [u EXCEPT !.b = Char[Char[@]], !.xml = EndEmpty(@)]
    <3> DEFINE d == Char[Char[u.b]]
    <3>1. r = [u EXCEPT !.b = d, !.xml = EndEmpty(u.xml)]
      BY <1>2, <2>2 DEF IsWriter
    <3> HIDE DEF d
    <3> QED
      BY <1>2, <3>1 DEF IsWriter
  <2>3. CASE r = [u EXCEPT !.b = EndTag(@, NameLen(c)), !.xml = End(@, c)]
    BY <1>2, <2>3 DEF IsWriter
  <2> QED
    BY <1>3, <2>1, <2>2, <2>3
<1>5. Follows(r.xml, v.xml)
  BY <1>1, <1>4, XmlFollows, EndFollows, EndEmptyFollows
<1> QED
  BY <1>4, <1>5, LongerIs DEF r

LEMMA AttrLonger ==
  ASSUME NEW v, Shaped(v), NEW n, NEW fld PROVE Longer(RenderAttr(v, n, fld), v)
<1> DEFINE r == RenderAttr(v, n, fld)
<1>1. IsWriter(v) /\ XmlShaped(v.xml)
  BY DEF Shaped
<1>2. \/ r = v
      \/ r = [v EXCEPT !.b = Char[Value(Attribute(@, AttrLen(fld.tag)), fld)], !.xml = Attr(@, n),
                       !.fault = @ \/ v.state = <<>>]
  BY DEF RenderAttr
<1> HIDE DEF r
<1>3. IsWriter(r) /\ r.xml \in {v.xml, Attr(v.xml, n)}
  BY <1>1, <1>2 DEF IsWriter
<1>4. Follows(r.xml, v.xml)
  BY <1>1, <1>3, XmlFollows, AttrFollows
<1> QED
  BY <1>3, <1>4, LongerIs DEF r

LEMMA BufferLonger ==
  ASSUME NEW v, Shaped(v), NEW r, NEW b, r = [v EXCEPT !.b = b] PROVE Longer(r, v)
<1>1. IsWriter(v) /\ XmlShaped(v.xml)
  BY DEF Shaped
<1>2. IsWriter(r) /\ r.xml = v.xml
  BY <1>1 DEF IsWriter
<1>3. Follows(r.xml, v.xml)
  BY <1>1, <1>2, XmlFollows
<1> QED
  BY <1>2, <1>3, LongerIs

-----------------------------------------------------------------------------
(* The tree of contexts *)

(* Append to sequences of one and two members. *)
LEMMA ShortAppends ==
  ASSUME NEW a, NEW b, NEW c
  PROVE  Append(<<a>>, b) = <<a, b>> /\ Append(<<a, b>>, c) = <<a, b, c>>
<1> DEFINE S == {a, b, c}
           s == Append(<<a>>, b)
           t == Append(<<a, b>>, c)
<1>1. /\ <<a>> \in Seq(S) /\ <<a, b>> \in Seq(S) /\ <<a, b, c>> \in Seq(S) /\ b \in S /\ c \in S
      /\ Len(<<a>>) = 1 /\ Len(<<a, b>>) = 2 /\ Len(<<a, b, c>>) = 3
  OBVIOUS
<1> HIDE DEF S
<1>2. /\ s \in Seq(S) /\ Len(s) = 2 /\ s[1] = <<a>>[1] /\ s[2] = b
      /\ t \in Seq(S) /\ Len(t) = 3 /\ t[1] = <<a, b>>[1] /\ t[2] = <<a, b>>[2] /\ t[3] = c
  BY <1>1, AppendProperties
<1> HIDE DEF s, t
<1>3. (\A n \in 1..Len(s) : s[n] = <<a, b>>[n]) /\ \A n \in 1..Len(t) : t[n] = <<a, b, c>>[n]
  BY <1>2
<1>4. Len(s) = Len(<<a, b>>) /\ Len(t) = Len(<<a, b, c>>)
  BY <1>1, <1>2
<1>5. s = <<a, b>>
  BY <1>1, <1>2, <1>3, <1>4, SeqEqual
<1>6. t = <<a, b, c>>
  BY <1>1, <1>2, <1>3, <1>4, SeqEqual
<1> QED
  BY <1>5, <1>6 DEF s, t

(* What the schema says of a context. *)
LEMMA ContextTypes ==
  ASSUME NEW c \in Ctxs
  PROVE  /\ Sub(c) \in Seq(Comp \ {BATCH})
         /\ DOMAIN Sub(c) = 1..Len(Sub(c)) /\ Len(Sub(c)) \in Nat
         /\ \A x \in DOMAIN Sub(c) : /\ Sub(c)[x] \in Comp \ {BATCH}
                                     /\ Height(Sub(c)[x]) < Height(c)
         /\ Height(c) \in Nat /\ Height(c) < NPool /\ NPool \in Nat
         /\ \A s \in Ctxs : s \in Members(c) => Height(s) < Height(c)
<1>1. Sub(c) \in Seq(Comp \ {BATCH})
  <2>1. Ctxs \ {UNK, BATCH} = Comp \ {BATCH}
    BY DEF Comp
  <2> QED
    BY <2>1, SchemaAssumption
<1>2. DOMAIN Sub(c) = 1..Len(Sub(c)) /\ Len(Sub(c)) \in Nat
  BY <1>1, LenProperties
<1>3. \A s \in Ctxs : s \in Members(c) => Height(s) < Height(c)
  BY SchemaAssumption DEF Childp
<1>4. ASSUME NEW x \in DOMAIN Sub(c)
      PROVE  Sub(c)[x] \in Comp \ {BATCH} /\ Height(Sub(c)[x]) < Height(c)
  <2>1. Sub(c)[x] \in Comp \ {BATCH} /\ Sub(c)[x] \in Members(c)
    BY <1>1, <1>2, ElementOfSeq DEF Members, ToSet
  <2> QED
    BY <1>3, <2>1 DEF Comp
<1>5. NPool \in Nat /\ Height(c) \in 0..(NPool - 1)
  BY SchemaAssumption
<1> QED
  BY <1>1, <1>2, <1>3, <1>4, <1>5

(* The search finds a way where there is one. *)
LEMMA FirstWayIsOne ==
  ASSUME NEW p \in Ctxs, NEW c, Ways(p, c) # {}
  PROVE  FirstWay(p, c) \in Ways(p, c)
<1> DEFINE W == Ways(p, c)
           A == {v[1] : v \in W}
<1>1. \A v \in W : v[1] \in Nat /\ v[2] \in Nat /\ v = <<v[1], v[2]>>
  <2> TAKE v \in W
  <2>1. PICK x \in DOMAIN Sub(p) : v \in {x} \X DOMAIN Sub(Sub(p)[x])
    BY DEF Ways
  <2>2. x \in Nat /\ Sub(p)[x] \in Ctxs
    BY ContextTypes DEF Comp
  <2>3. \A y \in DOMAIN Sub(Sub(p)[x]) : y \in Nat
    BY <2>2, ContextTypes
  <2> QED
    BY <2>1, <2>2, <2>3
<1>2. PICK a \in A : \A j \in A : a <= j
  <2>1. A \in SUBSET Nat /\ A # {}
    BY <1>1
  <2> HIDE DEF A
  <2> QED
    BY <2>1, LeastElement
<1> DEFINE B == {v[2] : v \in {u \in W : u[1] = a}}
<1>3. PICK b \in B : \A j \in B : b <= j
  <2>1. B \in SUBSET Nat /\ B # {}
    BY <1>1
  <2> HIDE DEF B
  <2> QED
    BY <2>1, LeastElement
<1>4. PICK v \in W : v[1] = a /\ v[2] = b
  OBVIOUS
<1>5. \A u \in W : v[1] < u[1] \/ (v[1] = u[1] /\ v[2] <= u[2])
  <2> TAKE u \in W
  <2>1. a <= u[1] /\ a \in Nat /\ u[1] \in Nat
    BY <1>1, <1>2
  <2>2. u[1] = a => b <= u[2]
    BY <1>3
  <2> QED
    BY <1>4, <2>1, <2>2
<1> HIDE DEF W
<1>6. \E u \in W : \A r \in W : u[1] < r[1] \/ (u[1] = r[1] /\ u[2] <= r[2])
  BY <1>5
<1> QED
  BY <1>6 DEF FirstWay, W

(* The elements to be opened for a context get smaller and smaller trees,  *)
(* so that the pool has a record for each.                                 *)
LEMMA BetweenGood ==
  ASSUME NEW p \in Ctxs, NEW c \in Comp, LeadsTo(p, c)
  PROVE  LET t == Append(Between(p, c), c)
         IN  /\ t \in Seq(Comp) /\ t # <<>> /\ t[Len(t)] = c /\ c # BATCH
             /\ \A j \in 1..Len(t) : Height(t[j]) + j <= Height(p)
<1> DEFINE t == Append(Between(p, c), c)
           v == FirstWay(p, c)
           x == Sub(p)[v[1]]
           y == Sub(x)[v[2]]
<1>0. c \in Ctxs /\ Height(c) \in Nat /\ Height(p) \in Nat
  BY ContextTypes DEF Comp
<1>1. CASE Childp(p, c)
  <2>1. t = <<c>>
    BY <1>1 DEF Between
  <2>2. c # BATCH
    <3>1. CASE c \in Members(p)
      BY <3>1, ContextTypes DEF Members, ToSet
    <3>2. CASE Orb(p) # UNK /\ c \in Members(Orb(p))
      <4>1. Orb(p) \in Ctxs
        BY <3>2, SchemaAssumption
      <4> QED
        BY <3>2, <4>1, ContextTypes DEF Members, ToSet
    <3> QED
      BY <1>1, <3>1, <3>2 DEF Childp
  <2>3. Height(c) < Height(p)
    BY <1>0, <1>1, SchemaAssumption
  <2> QED
    BY <1>0, <2>1, <2>2, <2>3
<1>2. CASE ~Childp(p, c)
  <2>1. v \in Ways(p, c)
    BY <1>2, FirstWayIsOne DEF LeadsTo
  <2>2. v[1] \in DOMAIN Sub(p) /\ v[2] \in DOMAIN Sub(x) /\ (c = y \/ c \in Members(y))
    BY <2>1 DEF Ways
  <2>3. x \in Comp \ {BATCH} /\ Height(x) < Height(p) /\ Height(x) \in Nat
    BY <2>2, ContextTypes DEF Comp
  <2>4. y \in Comp \ {BATCH} /\ Height(y) < Height(x) /\ Height(y) \in Nat
    BY <2>2, <2>3, ContextTypes DEF Comp
  <2>5. Between(p, c) = IF y = c THEN <<x>> ELSE <<x, y>>
    BY <1>2 DEF Between
  <2> HIDE DEF v, x, y
  <2>6. CASE y = c
    <3>1. t = <<x, c>>
      BY <2>5, <2>6, ShortAppends
    <3> QED
      BY <1>0, <2>3, <2>4, <2>6, <3>1
  <2>7. CASE y # c
    <3>1. t = <<x, y, c>>
      BY <2>5, <2>7, ShortAppends
    <3>2. c \in Members(y)
      BY <2>2, <2>7
    <3>3. Height(c) < Height(y) /\ c # BATCH
      BY <1>0, <2>4, <3>2, ContextTypes DEF Members, ToSet, Comp
    <3> QED
      BY <1>0, <2>3, <2>4, <3>1, <3>3
  <2> QED
    BY <2>6, <2>7
<1> QED
  BY <1>1, <1>2

-----------------------------------------------------------------------------
(* The attributes *)

(* An element that is opened has no attributes yet. *)
LEMMA AttrsOpen ==
  ASSUME NEW elts \in Seq(Elt), NEW l \in Elt, l.attrs = <<>>, NEW n, AttrsDone(elts, n)
  PROVE  AttrsDone(Append(elts, l), n)
<1> DEFINE es == Append(elts, l)
           z == Len(elts)
<1>1. /\ es \in Seq(Elt) /\ z \in Nat /\ Len(es) = z + 1
      /\ \A e \in 1..z : es[e] = elts[e]
      /\ es[z + 1] = l
  BY AppendProperties, LenProperties
<1>2. DOMAIN es = 1..(z + 1) /\ DOMAIN elts = 1..z
  BY <1>1, LenProperties
<1>3. DOMAIN l.attrs = {} /\ ToSet(l.attrs) = {}
  BY DEF ToSet
<1> HIDE DEF es
<1>4. \A e \in DOMAIN es : (e \in DOMAIN elts /\ es[e] = elts[e]) \/ es[e] = l
  BY <1>1, <1>2
<1>5. DOMAIN elts \subseteq DOMAIN es /\ \A e \in DOMAIN elts : es[e] = elts[e]
  BY <1>1, <1>2
<1>6. UNION {ToSet(es[e].attrs) : e \in DOMAIN es} = UNION {ToSet(elts[e].attrs) : e \in DOMAIN elts}
  <2>1. ASSUME NEW e \in DOMAIN es, NEW m \in ToSet(es[e].attrs)
        PROVE  \E f \in DOMAIN elts : m \in ToSet(elts[f].attrs)
    BY <1>3, <1>4
  <2>2. ASSUME NEW e \in DOMAIN elts, NEW m \in ToSet(elts[e].attrs)
        PROVE  \E f \in DOMAIN es : m \in ToSet(es[f].attrs)
    BY <1>5
  <2>3. \A m : (\E e \in DOMAIN es : m \in ToSet(es[e].attrs))
              <=> (\E e \in DOMAIN elts : m \in ToSet(elts[e].attrs))
    BY <2>1, <2>2
  <2> QED
    BY <2>3
<1>7. ASSUME NEW e \in DOMAIN es, NEW f \in DOMAIN es,
             NEW a \in DOMAIN es[e].attrs, NEW b \in DOMAIN es[f].attrs,
             e < f \/ (e = f /\ a < b)
      PROVE  es[e].attrs[a] < es[f].attrs[b]
  <2>1. e \in DOMAIN elts /\ es[e] = elts[e] /\ f \in DOMAIN elts /\ es[f] = elts[f]
    BY <1>3, <1>4
  <2> QED
    BY <1>7, <2>1 DEF AttrsDone
<1>8. ASSUME NEW e \in DOMAIN es, NEW m \in ToSet(es[e].attrs)
      PROVE  es[e].ctx = flds[m].tpc
  <2>1. e \in DOMAIN elts /\ es[e] = elts[e]
    BY <1>3, <1>4
  <2> QED
    BY <2>1 DEF AttrsDone
<1>9. AttrsDone(es, n)
  BY <1>6, <1>7, <1>8 DEF AttrsDone
<1> QED
  BY <1>9 DEF es

(* A field is passed that is not to be written. *)
LEMMA AttrsSkip ==
  ASSUME NEW elts, NEW n \in Nat \ {0}, AttrsDone(elts, n),
         flds[n].typ \in Unwritten \/ flds[n].tag = Rptb(flds[n].tpc)
  PROVE  AttrsDone(elts, n + 1)
<1>1. Due(n + 1) = Due(n)
  <2>1. \A m : m \in 1..(n + 1 - 1) <=> m \in 1..(n - 1) \/ m = n
    OBVIOUS
  <2>2. \A m : m \in Due(n + 1) <=> m \in Due(n)
    <3> TAKE m
    <3>1. CASE m = n
      <4>1. m \notin Due(n) /\ m \notin Due(n + 1)
        BY <3>1 DEF Due
      <4> QED
        BY <4>1
    <3>2. CASE m # n
      BY <2>1, <3>2 DEF Due
    <3> QED
      BY <3>1, <3>2
  <2> QED
    BY <2>2
<1> QED
  BY <1>1 DEF AttrsDone

(* A field is written: into the last element, after all others. *)
LEMMA AttrsAdd ==
  ASSUME NEW elts \in Seq(Elt), NEW n \in Nat \ {0}, AttrsDone(elts, n),
         elts # <<>>, elts[Len(elts)].ctx = flds[n].tpc,
         flds[n].typ \notin Unwritten, flds[n].tag # Rptb(flds[n].tpc)
  PROVE  AttrsDone([elts EXCEPT ![Len(elts)].attrs = Append(@, n)], n + 1)
<1> DEFINE l == Len(elts)
           old == elts[l].attrs
           new == Append(old, n)
           e0 == [elts[l] EXCEPT !.attrs = new]
           es == [elts EXCEPT ![l] = e0]
<1>1. l \in Nat /\ l \in 1..l /\ DOMAIN elts = 1..l
  BY EmptySeq, LenProperties
<1>2. elts[l] \in Elt /\ old \in Seq(Nat)
  <2>1. elts[l] \in Elt
    BY <1>1, ElementOfSeq
  <2> QED
    BY <2>1 DEF Elt
<1>3. /\ new \in Seq(Nat) /\ Len(old) \in Nat
      /\ DOMAIN old = 1..Len(old) /\ DOMAIN new = 1..(Len(old) + 1)
      /\ \A a \in 1..Len(old) : new[a] = old[a]
      /\ new[Len(old) + 1] = n
  BY <1>2, AppendProperties, LenProperties
<1>4. es = [elts EXCEPT ![Len(elts)].attrs = Append(@, n)]
  BY <1>1
<1>5. /\ DOMAIN es = 1..l
      /\ es[l].attrs = new /\ es[l].ctx = elts[l].ctx
      /\ \A e \in 1..l : e # l => es[e] = elts[e]
  BY <1>1, <1>2 DEF Elt
<1> HIDE DEF new, es, old, l
<1>6. \A e \in 1..l : \A m \in ToSet(elts[e].attrs) : m \in Due(n) /\ m \in Nat /\ m < n
  BY <1>1 DEF AttrsDone, Due
<1>7. \A m : m \in Due(n + 1) <=> m \in Due(n) \/ m = n
  <2>1. \A m : m \in 1..(n + 1 - 1) <=> m \in 1..(n - 1) \/ m = n
    OBVIOUS
  <2> QED
    BY <2>1 DEF Due
<1>8. \A m : m \in ToSet(new) <=> m \in ToSet(old) \/ m = n
  <2>1. ASSUME NEW a \in DOMAIN new PROVE new[a] \in ToSet(old) \/ new[a] = n
    <3>1. a \in DOMAIN old \/ a = Len(old) + 1
      BY <1>3
    <3> QED
      BY <1>3, <3>1 DEF ToSet
  <2>2. ASSUME NEW a \in DOMAIN old PROVE old[a] \in ToSet(new)
    <3>1. a \in DOMAIN new /\ new[a] = old[a]
      BY <1>3
    <3> QED
      BY <3>1 DEF ToSet
  <2>3. n \in ToSet(new)
    <3>1. Len(old) + 1 \in DOMAIN new
      BY <1>3
    <3> QED
      BY <1>3, <3>1 DEF ToSet
  <2> QED
    BY <2>1, <2>2, <2>3 DEF ToSet
<1>9. elts[l].attrs = old
  BY DEF old
<1>10. UNION {ToSet(es[e].attrs) : e \in DOMAIN es} = Due(n + 1)
  <2>1. \A m : (\E e \in 1..l : m \in ToSet(elts[e].attrs)) <=> m \in Due(n)
    BY <1>1 DEF AttrsDone
  <2>2. \A m : (\E e \in 1..l : m \in ToSet(es[e].attrs))
              <=> (\E e \in 1..l : m \in ToSet(elts[e].attrs)) \/ m = n
    BY <1>1, <1>5, <1>8, <1>9
  <2> QED
    BY <1>5, <1>7, <2>1, <2>2, ZenonT(30)
<1>11. ASSUME NEW e \in 1..l, NEW a \in DOMAIN es[e].attrs, ~(e = l /\ a = Len(old) + 1)
       PROVE  /\ a \in DOMAIN elts[e].attrs
              /\ es[e].attrs[a] = elts[e].attrs[a]
              /\ es[e].attrs[a] < n
  <2>1. a \in DOMAIN elts[e].attrs /\ es[e].attrs[a] = elts[e].attrs[a]
    <3>1. CASE e = l
      <4>1. a \in DOMAIN new /\ a # Len(old) + 1 /\ es[e].attrs = new
        BY <1>5, <1>11, <3>1
      <4>2. a \in 1..Len(old)
        BY <1>3, <4>1
      <4> QED
        BY <1>3, <1>9, <3>1, <4>1, <4>2
    <3>2. CASE e # l
      BY <1>5, <3>2
    <3> QED
      BY <3>1, <3>2
  <2>2. es[e].attrs[a] \in ToSet(elts[e].attrs)
    BY <2>1 DEF ToSet
  <2> QED
    BY <1>6, <2>1, <2>2
<1>12. ASSUME NEW e \in DOMAIN es, NEW f \in DOMAIN es,
              NEW a \in DOMAIN es[e].attrs, NEW b \in DOMAIN es[f].attrs,
              e < f \/ (e = f /\ a < b)
       PROVE  es[e].attrs[a] < es[f].attrs[b]
  <2>0. e \in 1..l /\ f \in 1..l /\ l \in Nat
    BY <1>1, <1>5
  <2>1. ~(e = l /\ a = Len(old) + 1)
    <3>1. SUFFICES ASSUME e = l, a = Len(old) + 1 PROVE FALSE
      OBVIOUS
    <3>2. e = f /\ a < b
      BY <1>12, <2>0, <3>1
    <3> QED
      BY <1>3, <1>5, <3>1, <3>2
  <2>2. CASE f = l /\ b = Len(old) + 1
    BY <1>3, <1>5, <1>11, <2>0, <2>1, <2>2
  <2>3. CASE ~(f = l /\ b = Len(old) + 1)
    <3>1. a \in DOMAIN elts[e].attrs /\ es[e].attrs[a] = elts[e].attrs[a]
      BY <1>11, <2>0, <2>1
    <3>2. b \in DOMAIN elts[f].attrs /\ es[f].attrs[b] = elts[f].attrs[b]
      BY <1>11, <2>0, <2>3
    <3> QED
      BY <1>1, <1>12, <2>0, <3>1, <3>2 DEF AttrsDone
  <2> QED
    BY <2>2, <2>3
<1>13. ASSUME NEW e \in DOMAIN es, NEW m \in ToSet(es[e].attrs)
       PROVE  es[e].ctx = flds[m].tpc
  <2>1. CASE e = l /\ m = n
    BY <1>5, <2>1 DEF l
  <2>2. CASE ~(e = l /\ m = n)
    <3>1. m \in ToSet(elts[e].attrs) /\ es[e].ctx = elts[e].ctx /\ e \in DOMAIN elts
      BY <1>1, <1>5, <1>8, <1>9, <2>2
    <3> QED
      BY <3>1 DEF AttrsDone
  <2> QED
    BY <2>1, <2>2
<1>14. AttrsDone(es, n + 1)
  BY <1>10, <1>12, <1>13 DEF AttrsDone
<1> QED
  BY <1>4, <1>14

-----------------------------------------------------------------------------
(* The steps of the writer *)

(* The buffer is no part of what the invariant says. *)
LEMMA BufferGood ==
  ASSUME NEW v, Whole(v), NEW b
  PROVE  LET r == [v EXCEPT !.b = b]
         IN  Whole(r) /\ r.state = v.state /\ r.xml = v.xml
<1> DEFINE r == [v EXCEPT !.b = b]
<1>1. v \in [state : Seq(Rec), free : Nat, fault : {FALSE}, b : {v.b}, xml : Xml]
  BY DEF Whole
<1>2. /\ r \in [state : Seq(Rec), free : Nat, fault : {FALSE}, b : {b}, xml : Xml]
      /\ r.state = v.state /\ r.free = v.free /\ r.xml = v.xml /\ r.b = b
  BY <1>1
<1> HIDE DEF r
<1>3. Whole(r)
  BY <1>2 DEF Whole
<1> QED
  BY <1>2, <1>3 DEF r

(* What the invariant says before a step that is taken while writing. *)
Before == FixInv /\ AtField /\ WriteInv /\ Known /\ wpc # "wait" /\ UNCHANGED fixvars

(* What the steps below need of it: the types, and that the field at hand, *)
(* if it is to be written, has a context of the schema.                    *)
LEMMA BeforeTypes ==
  ASSUME Before
  PROVE  /\ flds' = flds /\ k \in Nat \ {0} /\ Len(flds) \in Nat /\ DOMAIN flds = 1..Len(flds)
         /\ Whole(w) /\ AttrsDone(w.xml.elts, k) /\ w.xml.elts \in Seq(Elt)
         /\ Counted(w, Len(w.xml.elts))
         /\ todo \in Seq(Comp) /\ Len(todo) \in Nat
         /\ w.state \in Seq(Rec) /\ Len(w.state) \in Nat
         /\ w.state # <<>> => State(w).osub \in Comp /\ Len(w.state) \in 1..Len(w.state)
         /\ k \in DOMAIN flds /\ ~Skipped =>
              /\ Ctx \in Comp /\ Orb(Ctx) = UNK /\ Height(Ctx) \in Nat /\ Height(Ctx) < NPool
              /\ Ctx = BATCH => flds[k].typ \in Unwritten /\ flds[k].cnt # 0
<1>1. flds' = flds /\ Whole(w) /\ Counted(w, Len(w.xml.elts))
  BY DEF Before, WriteInv, fixvars
<1>2. flds \in Seq(Range(flds)) /\ k \in 1..(Len(flds) + 1)
  BY DEF Before, FixInv, AtField, IsSeq
<1>3. k \in Nat \ {0} /\ Len(flds) \in Nat /\ DOMAIN flds = 1..Len(flds)
  BY <1>2, LenProperties
<1>4. AttrsDone(w.xml.elts, k)
  BY DEF Before, WriteInv
<1>5. todo \in Seq(Range(todo)) /\ Range(todo) \subseteq Comp
  BY DEF Before, WriteInv, IsSeq
<1>6. todo \in Seq(Comp) /\ Len(todo) \in Nat
  BY <1>5, SeqMonotonic, LenProperties
<1>7. /\ w.state \in Seq(Rec) /\ Len(w.state) \in Nat /\ w.xml.elts \in Seq(Elt)
      /\ \A n \in 1..Len(w.state) : w.state[n].osub \in Comp
  BY <1>1, WholeTypes
<1>8. w.state # <<>> => State(w).osub \in Comp /\ Len(w.state) \in 1..Len(w.state)
  BY <1>7, EmptySeq DEF State
<1>9. k \in DOMAIN flds /\ ~Skipped =>
        /\ Ctx \in Comp /\ Orb(Ctx) = UNK
        /\ Ctx = BATCH => flds[k].typ \in Unwritten /\ flds[k].cnt # 0
  BY DEF Before, Known, Skipped, Ctx, Comp
<1>10. \A c \in Comp : Height(c) \in Nat /\ Height(c) < NPool
  BY ContextTypes DEF Comp
<1> QED
  BY <1>1, <1>3, <1>4, <1>6, <1>7, <1>8, <1>9, <1>10

(* What has to be shown of a step. *)
LEMMA After ==
  ASSUME Before,
         AttrsDone(w'.xml.elts, k'), Whole(w)', Counted(w, Len(w.xml.elts))', todo' \in Seq(Comp),
         wpc' = "open" => Opening',
         wpc' \in {"open", "attr"} => otpc' = flds[k'].tpc /\ flds[k'].tag # Rptb(flds[k'].tpc),
         wpc' \in {"room", "attr"} => Settled',
         wpc' = "field" /\ (flds[k'].tag = Rptb(flds[k'].tpc) \/ flds[k'].tpc = otpc') => Settled',
         wpc' \in {"foot", "done"} => w'.state = <<>>
  PROVE  WriteInv'
<1>1. flds' = flds
  BY BeforeTypes
<1>2. AttrsDone(w.xml.elts, k)'
  BY <1>1 DEF AttrsDone, Due
<1>3. IsSeq(todo') /\ Range(todo') \subseteq Comp
  BY RangeOfSeq, SeqOfRange DEF IsSeq
<1> QED
  BY <1>1, <1>2, <1>3 DEF WriteInv, Ctx, Skipped

(* resz_rndr changes the buffer alone. *)
LEMMA StepRoom ==
  ASSUME Before, CheckRoom PROVE WriteInv'
<1>1. PICK b : w' = [w EXCEPT !.b = b]
  <2>1. CASE w' = w
    <3>1. w = [w EXCEPT !.b = w.b]
      BY BeforeTypes DEF Whole
    <3> QED
      BY <2>1, <3>1
  <2>2. CASE w' = [w EXCEPT !.b = Resized(w.b)]
    BY <2>2
  <2>3. [w EXCEPT !.b = Resized(@)] = [w EXCEPT !.b = Resized(w.b)]
    BY BeforeTypes DEF Whole
  <2> QED
    BY <2>1, <2>2, <2>3 DEF CheckRoom
<1>2. Whole(w') /\ w'.state = w.state /\ w'.xml = w.xml
  BY <1>1, BeforeTypes, BufferGood
<1>3. Settled /\ wpc' \in {"field", "close"} /\ k' = k /\ otpc' = otpc /\ todo' = todo
  BY DEF CheckRoom, Before, WriteInv
<1>4. Settled' /\ Whole(w)' /\ Counted(w, Len(w.xml.elts))'
  BY <1>2, <1>3, BeforeTypes DEF Settled, State, Whole, Counted
<1> QED
  BY <1>2, <1>3, <1>4, After, BeforeTypes

(* A block's counter has nothing to write. *)
LEMMA StepCounter ==
  ASSUME Before, SkipCounter PROVE WriteInv'
<1>1. Settled /\ k \in DOMAIN flds /\ flds[k].tag = Rptb(flds[k].tpc)
  BY BeforeTypes DEF SkipCounter, Before, WriteInv, AtField, Writing, Skipped, Ctx
<1>2. AttrsDone(w.xml.elts, k + 1)
  BY <1>1, BeforeTypes, AttrsSkip
<1>3. k' = k + 1 /\ wpc' = "room" /\ otpc' = otpc /\ todo' = todo /\ w' = w
  BY DEF SkipCounter
<1>4. Settled' /\ Whole(w)' /\ Counted(w, Len(w.xml.elts))'
  BY <1>1, <1>3, BeforeTypes DEF Settled, State, Whole, Counted
<1> QED
  BY <1>2, <1>3, <1>4, After, BeforeTypes

(* A child is opened, with the elements that are between. *)
LEMMA StepChild ==
  ASSUME Before, OpenChild PROVE WriteInv'
<1> DEFINE p == State(w).osub
           t == Append(Between(p, Ctx), Ctx)
           z == Len(w.state)
<1>1. w.state # <<>> /\ LeadsTo(p, Ctx) /\ k \in DOMAIN flds /\ ~Skipped
  BY BeforeTypes DEF OpenChild, Changed, Writing, Before, AtField
<1>2. p \in Ctxs /\ Ctx \in Comp /\ z \in 1..z /\ z \in Nat
  BY <1>1, BeforeTypes DEF Comp
<1>3. /\ t \in Seq(Comp) /\ t # <<>> /\ t[Len(t)] = Ctx /\ Ctx # BATCH
      /\ \A j \in 1..Len(t) : Height(t[j]) + j <= Height(p)
  BY <1>1, <1>2, BetweenGood
<1>4. todo' = t /\ otpc' = Ctx /\ w' = w /\ wpc' = "open" /\ k' = k
  BY <1>3 DEF OpenChild, Open
<1>5. z + Height(p) <= NPool /\ Height(p) \in Nat /\ NPool \in Nat
  BY <1>2, BeforeTypes, ContextTypes DEF Whole, State
<1> HIDE DEF t, p
<1>6. \A j \in 1..Len(t) : z + j + Height(t[j]) <= NPool
  <2> TAKE j \in 1..Len(t)
  <2>1. t[j] \in Ctxs
    BY <1>3, ElementOfSeq DEF Comp
  <2>2. Height(t[j]) \in Nat /\ j \in Nat
    BY <1>3, <2>1, ContextTypes
  <2> HIDE DEF z
  <2> QED
    BY <1>2, <1>3, <1>5, <2>2
<1>7. Opening' /\ Whole(w)' /\ Counted(w, Len(w.xml.elts))'
  BY <1>3, <1>4, <1>6, BeforeTypes DEF Opening, Whole, Counted
<1> QED
  BY <1>1, <1>3, <1>4, <1>7, After, BeforeTypes DEF Ctx, Skipped

(* An element that the next field is not in is closed. *)
LEMMA StepSibling ==
  ASSUME Before, CloseSibling PROVE WriteInv'
<1>1. Whole(Pop(w)) /\ Pop(w).xml.elts = w.xml.elts /\ Counted(Pop(w), Len(w.xml.elts))
  BY BeforeTypes, PopGood
<1>2. /\ w' = Pop(w) /\ wpc' = "field" /\ k' = k /\ otpc' = otpc /\ todo' = todo
      /\ flds[k].tag # Rptb(flds[k].tpc) /\ flds[k].tpc # otpc
  BY DEF CloseSibling, Changed, Writing, Skipped, Ctx
<1>3. Whole(w)' /\ Counted(w, Len(w.xml.elts))'
  BY <1>1, <1>2 DEF Whole, Counted
<1> QED
  BY <1>1, <1>2, <1>3, After, BeforeTypes

(* The first element of all is opened. *)
LEMMA StepTop ==
  ASSUME Before, OpenTop PROVE WriteInv'
<1>1. w.state = <<>> /\ k \in DOMAIN flds /\ ~Skipped
  BY BeforeTypes DEF OpenTop, Changed, Writing, Before, AtField
<1>2. Ctx \in Comp /\ Height(Ctx) \in Nat /\ Height(Ctx) < NPool /\ NPool \in Nat
  BY <1>1, BeforeTypes, WholeTypes
<1>3. todo' = <<Ctx>> /\ otpc' = Ctx /\ w' = w /\ wpc' = "open" /\ k' = k
  BY DEF OpenTop, Open
<1>4. todo' \in Seq(Comp) /\ Len(todo') = 1 /\ todo'[1] = Ctx /\ Len(w.state) = 0
  BY <1>1, <1>2, <1>3
<1>5. Whole(w)' /\ Counted(w, Len(w.xml.elts))'
  BY <1>3, BeforeTypes DEF Whole, Counted
<1>6. Opening'
  <2>1. Len(w'.state) = 0 /\ w'.state = <<>>
    BY <1>1, <1>3, <1>4
  <2>2. \A j \in 1..Len(todo') : j = 1 /\ todo'[j] = Ctx
    BY <1>4
  <2>3. 0 + 1 + Height(Ctx) <= NPool
    BY <1>2
  <2> QED
    BY <1>3, <1>4, <2>1, <2>2, <2>3 DEF Opening
<1> QED
  BY <1>1, <1>3, <1>4, <1>5, <1>6, After, BeforeTypes DEF Ctx, Skipped

(* An element of the same context is closed and opened again. *)
LEMMA StepAgain ==
  ASSUME Before, OpenAgain PROVE WriteInv'
<1> DEFINE r == Pop(w)
           z == Len(w.state)
<1>1. k \in DOMAIN flds /\ ~Skipped /\ Ctx = otpc /\ flds[k].cnt = 0 /\ wpc = "field"
  BY BeforeTypes DEF OpenAgain, Writing, Before, AtField
<1>2. otpc \in Comp /\ otpc # BATCH /\ Height(otpc) \in Nat
  BY <1>1, BeforeTypes
<1>3. w.state # <<>> /\ State(w).osub = otpc
  BY <1>1, <1>2 DEF Settled, Before, WriteInv, Comp
<1>4. /\ Whole(r) /\ r.xml.elts = w.xml.elts /\ Len(r.state) = z - 1
      /\ Counted(r, Len(w.xml.elts))
  BY <1>3, BeforeTypes, PopGood
<1>5. z \in 1..z /\ z + Height(otpc) <= NPool
  BY <1>3, BeforeTypes DEF Whole, State
<1>6. todo' = <<otpc>> /\ otpc' = otpc /\ w' = r /\ wpc' = "open" /\ k' = k
  BY <1>1, <1>3 DEF OpenAgain, Open
<1> HIDE DEF r
<1>7. todo' \in Seq(Comp) /\ Len(todo') = 1 /\ todo'[1] = otpc
  BY <1>2, <1>6
<1>8. Len(r.state) + 1 + Height(otpc) <= NPool
  <2>1. z \in Nat /\ NPool \in Nat
    BY BeforeTypes, WholeTypes
  <2> HIDE DEF z
  <2> QED
    BY <1>2, <1>4, <1>5, <2>1
<1>9. Whole(w)' /\ Counted(w, Len(w.xml.elts))'
  BY <1>4, <1>6 DEF Whole, Counted
<1>10. Opening'
  <2>1. \A j \in 1..Len(todo') : j = 1 /\ todo'[j] = otpc
    BY <1>7
  <2> QED
    BY <1>2, <1>6, <1>7, <1>8, <2>1 DEF Opening
<1> QED
  BY <1>1, <1>4, <1>6, <1>7, <1>9, <1>10, After, BeforeTypes DEF Ctx, Skipped

(* The next field is in the element that is open. *)
LEMMA StepOn ==
  ASSUME Before, GoOn PROVE WriteInv'
<1>1. k \in DOMAIN flds /\ ~Skipped /\ Ctx = otpc /\ wpc = "field"
  BY BeforeTypes DEF GoOn, Writing, Before, AtField
<1>2. Settled
  BY <1>1 DEF Before, WriteInv
<1>3. todo' = <<>> /\ otpc' = otpc /\ w' = w /\ wpc' = "attr" /\ k' = k
  BY <1>1 DEF GoOn, Open
<1>4. Settled' /\ Whole(w)' /\ Counted(w, Len(w.xml.elts))'
  BY <1>2, <1>3, BeforeTypes DEF Settled, State, Whole, Counted
<1>5. todo' \in Seq(Comp)
  BY <1>3, EmptySeq
<1> QED
  BY <1>1, <1>3, <1>4, <1>5, After, BeforeTypes DEF Ctx, Skipped

(* An element is opened, or the context has none. *)
LEMMA StepPush ==
  ASSUME Before, PushNext, Few(w)' PROVE WriteInv'
<1> DEFINE h == Head(todo)
           u == Tail(todo)
           m == Len(todo)
<1>1. k \in DOMAIN flds /\ ~Skipped /\ Ctx = otpc /\ Opening /\ todo # <<>>
  BY BeforeTypes DEF PushNext, Before, WriteInv, AtField
<1>2. /\ w' = Push(w, h) /\ todo' = u /\ k' = k /\ otpc' = otpc
      /\ wpc' = IF u = <<>> THEN "attr" ELSE "open"
  BY DEF PushNext
<1>3. /\ m \in Nat \ {0} /\ u \in Seq(Comp) /\ Len(u) = m - 1 /\ h \in Comp /\ h = todo[1]
      /\ \A j \in 1..Len(u) : u[j] = todo[j + 1]
  <2>1. todo \in Seq(Comp)
    BY BeforeTypes
  <2> QED
    BY <1>1, <2>1, HeadTailProperties, EmptySeq
<1> HIDE DEF h, u, m
<1>4. /\ u = <<>> => h = otpc
      /\ u # <<>> => m # 1 /\ u[Len(u)] = otpc
  <2>1. u = <<>> => m = 1
    BY <1>3, EmptySeq
  <2>2. u # <<>> => Len(u) \in 1..Len(u)
    BY <1>3, EmptySeq
  <2>3. todo[m] = otpc
    BY <1>1 DEF Opening, m
  <2> QED
    BY <1>3, <2>1, <2>2, <2>3
<1>5. otpc = BATCH => u = <<>> /\ h = BATCH /\ w.state = <<>>
  BY <1>1, <1>4 DEF Opening, m
<1>6. otpc \in Comp /\ otpc # UNK /\ Orb(otpc) = UNK
  BY <1>1, BeforeTypes DEF Comp
<1>7. \A j \in 1..m : Len(w.state) + j + Height(todo[j]) <= NPool
  BY <1>1 DEF Opening, m
<1>8. Height(h) \in Nat /\ Len(w.state) \in Nat /\ NPool \in Nat
  BY <1>3, BeforeTypes, WholeTypes, ContextTypes DEF Comp
<1>9. Whole(w') /\ AttrsDone(w'.xml.elts, k) /\ (u = <<>> => Settled')
      /\ (u # <<>> => Len(w'.state) \in Nat /\ Len(w'.state) <= Len(w.state) + 1)
      /\ Counted(w', Len(w'.xml.elts))
  <2>1. CASE Orb(h) # UNK \/ h = BATCH
    <3>1. w' = w
      BY <1>2, <2>1, PushNone
    <3>2. u = <<>> => otpc = BATCH /\ w.state = <<>>
      BY <1>4, <1>5, <1>6, <2>1
    <3> QED
      BY <1>2, <1>8, <3>1, <3>2, BeforeTypes DEF Settled
  <2>2. CASE Orb(h) = UNK /\ h # BATCH
    <3>0. Len(w.xml.elts) + 1 < CntSize
      <4>1. w.free # 0
        <5>1. Len(w.state) + w.free = NPool /\ w.free \in Nat
          BY BeforeTypes, WholeTypes DEF Whole
        <5>2. Len(w.state) + 1 + Height(todo[1]) <= NPool
          BY <1>3, <1>7
        <5> QED
          BY <1>3, <1>8, <5>1, <5>2
      <4>2. Len(w'.xml.elts) = Len(w.xml.elts) + 1
        BY <1>2, <2>2, <4>1, PushLonger, WholeIsShaped, BeforeTypes
      <4> QED
        BY <4>2 DEF Few
    <3>1. RoomFor(w, h)
      BY <1>3, <1>7 DEF RoomFor
    <3>2. /\ Whole(w') /\ Counted(w', Len(w'.xml.elts)) /\ Len(w'.state) = Len(w.state) + 1 /\ w'.state # <<>>
          /\ State(w').osub = h /\ State(w').cntc = 0
      BY <1>2, <1>3, <1>8, <2>2, <3>0, <3>1, BeforeTypes, PushGood
    <3>3. PICK l \in Elt : l.attrs = <<>> /\ w'.xml.elts = Append(w.xml.elts, l)
      BY <1>2, <1>3, <1>8, <2>2, <3>0, <3>1, BeforeTypes, PushGood
    <3>4. AttrsDone(w'.xml.elts, k)
      BY <3>3, BeforeTypes, AttrsOpen
    <3>5. u = <<>> => otpc \notin {UNK, BATCH}
      BY <1>4, <1>6, <2>2
    <3>6. u = <<>> => Settled'
      BY <1>2, <1>4, <3>2, <3>5 DEF Settled, State
    <3> QED
      BY <1>8, <3>2, <3>4, <3>6
  <2> QED
    BY <2>1, <2>2
<1>10. u # <<>> => Opening'
  <2>1. SUFFICES ASSUME u # <<>> PROVE Opening'
    OBVIOUS
  <2>2. ASSUME NEW j \in 1..Len(u)
        PROVE  Len(w'.state) + j + Height(u[j]) <= NPool
    <3>1. j + 1 \in 1..m /\ j \in Nat
      BY <1>3
    <3>2. Len(w.state) + (j + 1) + Height(u[j]) <= NPool
      BY <1>3, <1>7, <3>1
    <3>3. u[j] \in Ctxs
      BY <1>3, ElementOfSeq DEF Comp
    <3>4. Height(u[j]) \in Nat
      BY <3>3, ContextTypes
    <3>5. Len(w'.state) \in Nat /\ Len(w'.state) <= Len(w.state) + 1
      BY <1>9, <2>1
    <3>6. \A a, b, c, d, n \in Nat : a <= b + 1 /\ b + (c + 1) + d <= n => a + c + d <= n
      OBVIOUS
    <3> QED
      BY <1>8, <3>1, <3>2, <3>4, <3>5, <3>6
  <2>3. otpc # BATCH /\ u[Len(u)] = otpc
    BY <1>4, <1>5, <2>1
  <2> QED
    BY <1>2, <2>2, <2>3 DEF Opening
<1>11. Whole(w)' /\ Counted(w, Len(w.xml.elts))'
  BY <1>9 DEF Whole, Counted
<1> QED
  BY <1>1, <1>2, <1>3, <1>9, <1>10, <1>11, After, BeforeTypes DEF Ctx, Skipped

(* The field is written, or is one that is not. *)
LEMMA StepAttr ==
  ASSUME Before, WriteAttr PROVE WriteInv'
<1>1. k \in DOMAIN flds /\ ~Skipped /\ Ctx = otpc /\ Settled
  BY BeforeTypes DEF WriteAttr, Before, WriteInv, AtField
<1>2. /\ w' = RenderAttr(w, k, flds[k]) /\ k' = k + 1 /\ wpc' = "room"
      /\ otpc' = otpc /\ todo' = todo
  BY DEF WriteAttr
<1>3. CASE flds[k].typ \in Unwritten
  <2>1. w' = w
    BY <1>2, <1>3 DEF RenderAttr
  <2>2. AttrsDone(w.xml.elts, k + 1)
    BY <1>3, BeforeTypes, AttrsSkip
  <2>3. Settled' /\ Whole(w)' /\ Counted(w, Len(w.xml.elts))'
    BY <1>1, <1>2, <2>1, BeforeTypes DEF Settled, State, Whole, Counted
  <2> QED
    BY <1>2, <2>1, <2>2, <2>3, After, BeforeTypes
<1>4. CASE flds[k].typ \notin Unwritten
  <2>1. otpc \notin {UNK, BATCH}
    BY <1>1, <1>4, BeforeTypes DEF Comp
  <2>2. w.state # <<>> /\ State(w).osub = otpc /\ State(w).cntc = 0
    BY <1>1, <2>1 DEF Settled
  <2> DEFINE b == Char[Value(Attribute(w.b, AttrLen(flds[k].tag)), flds[k])]
             r == [w EXCEPT !.b = b, !.xml = Attr(@, k), !.fault = @ \/ w.state = <<>>]
             l == Len(w.xml.elts)
  <2>3. w' = r
    <3>1. w' = [w EXCEPT !.b = Char[Value(Attribute(@, AttrLen(flds[k].tag)), flds[k])],
                         !.xml = Attr(@, k), !.fault = @ \/ w.state = <<>>]
      BY <1>2, <1>4 DEF RenderAttr
    <3> QED
      BY <3>1, BeforeTypes DEF Whole
  <2> HIDE DEF b
  <2>4. /\ Whole(r) /\ r.state = w.state /\ l \in 1..l
        /\ r.xml.elts = [w.xml.elts EXCEPT ![l].attrs = Append(@, k)]
        /\ Len(r.xml.elts) = l
        /\ w.xml.elts[l].ctx = State(w).osub
    <3>1. Whole(w) /\ k \in Nat
      BY BeforeTypes
    <3> QED
      BY <2>2, <3>1, AttrGood
  <2> HIDE DEF r
  <2>5. AttrsDone([w.xml.elts EXCEPT ![l].attrs = Append(@, k)], k + 1)
    <3>1. w.xml.elts # <<>> /\ w.xml.elts[l].ctx = flds[k].tpc /\ flds[k].tag # Rptb(flds[k].tpc)
      BY <1>1, <2>2, <2>4, EmptySeq DEF Ctx, Skipped
    <3> QED
      BY <1>4, <3>1, BeforeTypes, AttrsAdd
  <2>6. AttrsDone(w'.xml.elts, k')
    BY <1>2, <2>3, <2>4, <2>5
  <2>7. Settled' /\ Whole(w)'
    BY <1>1, <1>2, <2>3, <2>4, ZenonT(30) DEF Settled, State, Whole
  <2>8. Counted(w, Len(w.xml.elts))'
    <3>1. Len(w'.xml.elts) = Len(w.xml.elts)
      BY <2>3, <2>4 DEF l
    <3> QED
      BY <2>3, <2>4, <3>1, BeforeTypes DEF Counted
  <2> QED
    BY <1>2, <2>6, <2>7, <2>8, After, BeforeTypes
<1> QED
  BY <1>3, <1>4

(* At the end the elements are closed, from the innermost. *)
LEMMA StepClose ==
  ASSUME Before, CloseAll PROVE WriteInv'
<1>1. /\ Whole(Pop(w)) /\ Pop(w).xml.elts = w.xml.elts /\ Counted(Pop(w), Len(w.xml.elts))
      /\ w.state = <<>> => Pop(w) = w
  BY BeforeTypes, PopGood
<1>2. /\ w' = Pop(w) /\ k' = k /\ otpc' = otpc /\ todo' = todo
      /\ wpc' \in {"foot", "close"} /\ (wpc' = "foot" => w.state = <<>> \/ State(w).osub = UNK)
  BY DEF CloseAll
<1>3. wpc' = "foot" => w'.state = <<>>
  BY <1>1, <1>2, BeforeTypes DEF Comp
<1>4. Whole(w)' /\ Counted(w, Len(w.xml.elts))'
  BY <1>1, <1>2 DEF Whole, Counted
<1> QED
  BY <1>1, <1>2, <1>3, <1>4, After, BeforeTypes

(* The footer changes the buffer alone. *)
LEMMA StepFooter ==
  ASSUME Before, Footer PROVE WriteInv'
<1> DEFINE b == Char[EndTag(IF F35 = BATCH THEN EndTag(w.b, 5) ELSE w.b, 5)]
<1>1. w' = [w EXCEPT !.b = b]
  <2>1. w' = [w EXCEPT !.b = Char[EndTag(IF F35 = BATCH THEN EndTag(@, 5) ELSE @, 5)]]
    BY DEF Footer
  <2> QED
    BY <2>1, BeforeTypes DEF Whole
<1> HIDE DEF b
<1>2. Whole(w') /\ w'.state = w.state /\ w'.xml = w.xml
  BY <1>1, BeforeTypes, BufferGood
<1>3. w.state = <<>> /\ wpc' = "done" /\ k' = k /\ otpc' = otpc /\ todo' = todo
  BY DEF Footer, Before, WriteInv
<1>4. Whole(w)' /\ Counted(w, Len(w.xml.elts))'
  BY <1>2, BeforeTypes DEF Whole, Counted
<1> QED
  BY <1>2, <1>3, <1>4, After, BeforeTypes

-----------------------------------------------------------------------------
(* The steps of the fixup *)

(* The types of the fixup's variables, as the proofs below use them. *)
LEMMA FixTypes ==
  ASSUME FixInv
  PROVE  /\ flds \in Seq(Range(flds)) /\ Len(flds) \in Nat /\ DOMAIN flds = 1..Len(flds)
         /\ stk \in Seq(Range(stk)) /\ Len(stk) \in Nat /\ DOMAIN stk = 1..Len(stk)
         /\ stk # <<>> => Len(stk) \in 1..Len(stk)
         /\ i \in Nat \ {0} /\ i <= Len(flds) + 1
<1>1. flds \in Seq(Range(flds)) /\ stk \in Seq(Range(stk)) /\ i \in 1..(Len(flds) + 1)
  BY DEF FixInv, IsSeq
<1>2. stk # <<>> => Len(stk) \in Nat \ {0}
  BY <1>1, EmptySeq
<1> QED
  BY <1>1, <1>2, LenProperties

(* Fields may change, but there are as many as before. *)
LEMMA SameFields ==
  ASSUME FixInv, NEW g, g = [j \in DOMAIN flds |-> g[j]]
  PROVE  IsSeq(g) /\ Len(g) = Len(flds) /\ DOMAIN g = DOMAIN flds
<1>1. Len(flds) \in Nat /\ g \in [1..Len(flds) -> Range(g)]
  BY FixTypes DEF Range
<1>2. g \in Seq(Range(g))
  BY <1>1, SeqDef
<1>3. DOMAIN g = 1..Len(g) /\ DOMAIN g = 1..Len(flds) /\ Len(g) \in Nat
  BY <1>1, <1>2, LenProperties
<1> QED
  BY <1>1, <1>2, <1>3, FixTypes DEF IsSeq

(* chck_stk makes room for one entry more. *)
LEMMA GrownIsEnough ==
  ASSUME FixInv, pc # "idle", NEW n \in Nat \ {0}, n <= Len(flds) + 1
  PROVE  Grown(n) \in Nat /\ n <= Grown(n)
<1>1. PICK top \in Pow2 : Len(flds) + MinStk <= top
  BY DEF FixInv
<1>2. Len(flds) \in Nat /\ room \in Nat /\ MinStk \in Nat \ {0} /\ top \in Nat
  BY FixTypes, StackAssumption, Pow2Nat DEF FixInv
<1> DEFINE v == n - 1 + MinStk
<1>3. v \in Nat \ {0} /\ v <= top /\ n <= v
  BY <1>1, <1>2
<1> HIDE DEF v
<1>4. NextPow2(v) \in Nat /\ v <= NextPow2(v)
  BY <1>3, NextPow2Least, Pow2Nat
<1>5. CASE n - 1 >= room
  <2>1. Grown(n) = NextPow2(v)
    BY <1>5 DEF Grown, v
  <2> QED
    BY <1>3, <1>4, <2>1
<1>6. CASE ~(n - 1 >= room)
  <2>1. Grown(n) = room
    BY <1>6 DEF Grown
  <2> QED
    BY <1>2, <1>6, <2>1
<1> QED
  BY <1>5, <1>6

(* The stack with one entry more, and with one less. *)
LEMMA Pushed ==
  ASSUME FixInv, pc = "look", i <= Len(flds), NEW c
  PROVE  LET s == Append(stk, Entry(c, i))
         IN  /\ IsSeq(s) /\ Len(s) = Len(stk) + 1 /\ s # <<>>
             /\ \A n \in DOMAIN s : s[n].idx \in 1..i
<1> DEFINE e == Entry(c, i)
           s == Append(stk, e)
           S == Range(stk) \union {e}
<1>1. stk \in Seq(S) /\ e \in S
  BY FixTypes, SeqMonotonic
<1>2. /\ s \in Seq(S) /\ Len(s) = Len(stk) + 1 /\ s # <<>>
      /\ \A n \in 1..Len(stk) : s[n] = stk[n]
      /\ s[Len(stk) + 1] = e
  BY <1>1, AppendProperties
<1>3. e.idx = i
  BY DEF Entry
<1> HIDE DEF s, e, S
<1>4. IsSeq(s) /\ DOMAIN s = 1..Len(s)
  BY <1>2, SeqOfRange, LenProperties DEF IsSeq
<1>5. \A n \in DOMAIN stk : stk[n].idx \in 1..i
  BY FixTypes DEF FixInv
<1>6. \A n \in DOMAIN s : s[n].idx \in 1..i
  BY <1>2, <1>3, <1>4, <1>5, FixTypes
<1> QED
  BY <1>2, <1>4, <1>6 DEF s, e

(* A stack without its last entry is a stack. *)
LEMMA Popped ==
  ASSUME FixInv, pc = "look", Len(stk) > 1
  PROVE  LET s == SubSeq(stk, 1, Len(stk) - 1)
         IN  /\ IsSeq(s) /\ Len(s) = Len(stk) - 1 /\ s # <<>>
             /\ \A n \in DOMAIN s : n \in DOMAIN stk /\ s[n] = stk[n]
<1> DEFINE z == Len(stk)
           s == SubSeq(stk, 1, z - 1)
           S == Range(stk)
<1>1. stk \in Seq(S) /\ z \in Nat /\ z - 1 \in Nat \ {0} /\ DOMAIN stk = 1..z
  BY FixTypes
<1>2. \A n \in 1..(z - 1) : stk[n] \in S
  BY <1>1 DEF Range
<1> HIDE DEF S
<1>3. /\ s \in Seq(S) /\ Len(s) = IF 1 <= z - 1 THEN z - 1 - 1 + 1 ELSE 0
      /\ \A n \in 1..(z - 1 - 1 + 1) : s[n] = stk[1 + n - 1]
  BY <1>1, <1>2, SubSeqProperties
<1>4. Len(s) = z - 1 /\ \A n \in 1..(z - 1) : s[n] = stk[n]
  BY <1>1, <1>3
<1> HIDE DEF s
<1>5. IsSeq(s) /\ DOMAIN s = 1..Len(s) /\ s # <<>>
  BY <1>1, <1>3, <1>4, SeqOfRange, LenProperties, EmptySeq DEF IsSeq
<1> QED
  BY <1>1, <1>4, <1>5 DEF s

(* A field finds its place. *)
LEMMA PlaceStep ==
  ASSUME FixInv, pc = "look", i <= Len(flds), NEW s, NEW count \in Nat, Place(s, count),
         IsSeq(s), s # <<>>, \A n \in DOMAIN s : s[n].idx \in 1..i,
         Len(s) <= i + 1, Len(s) <= room', room' \in Nat
  PROVE  FixInv'
<1> DEFINE c == s[Len(s)].ctx
           first == s[Len(s)].idx + 1
           cnt == IF i > first /\ flds[first].tag = Tag THEN 0 ELSE count
<1>1. /\ flds' = [flds EXCEPT ![i].tpc = c, ![i].cnt = cnt % CntSize]
      /\ streak' = cnt + 1 /\ stk' = s /\ i' = i + 1 /\ pc' = pc /\ oos' = oos
  BY DEF Place
<1>2. cnt \in Nat
  OBVIOUS
<1> HIDE DEF cnt, c
<1>3. flds' = [j \in DOMAIN flds |-> flds'[j]]
  BY <1>1
<1>4. IsSeq(flds') /\ Len(flds') = Len(flds)
  BY <1>3, SameFields
<1>5. i \in Nat \ {0} /\ Len(flds) \in Nat /\ i' # 1 /\ i' - 1 = i
  BY <1>1, FixTypes
<1>6. i' \in 1..(Len(flds') + 1) /\ streak' \in Nat /\ Len(stk') <= i'
  BY <1>1, <1>2, <1>4, <1>5
<1>7. \A n \in DOMAIN stk' : stk'[n].idx \in 1..(IF i' = 1 THEN 1 ELSE i' - 1)
  BY <1>1, <1>5
<1> QED
  BY <1>1, <1>4, <1>6, <1>7 DEF FixInv, IsSeq

(* A field is in the context at hand. *)
LEMMA StayStep ==
  ASSUME FixInv, Stay PROVE FixInv'
<1>1. pc = "look" /\ i <= Len(flds) /\ Place(stk, streak) /\ room' = room
  BY DEF Stay, Looking
<1>2. \A n \in DOMAIN stk : stk[n].idx \in 1..i
  BY FixTypes DEF FixInv
<1> QED
  BY <1>1, <1>2, PlaceStep, FixTypes DEF FixInv

(* A context is entered. *)
LEMMA EnterStep ==
  ASSUME FixInv, Looking, NEW c, Place(Append(stk, Entry(c, i)), 0), room' = Grown(Len(stk) + 1)
  PROVE  FixInv'
<1> DEFINE s == Append(stk, Entry(c, i))
<1>1. pc = "look" /\ i <= Len(flds)
  BY DEF Looking
<1>2. /\ IsSeq(s) /\ Len(s) = Len(stk) + 1 /\ s # <<>>
      /\ \A n \in DOMAIN s : s[n].idx \in 1..i
  BY <1>1, Pushed
<1>3. Len(stk) \in Nat /\ i \in Nat /\ Len(flds) \in Nat /\ Len(stk) <= i
  BY FixTypes DEF FixInv
<1>4. Len(stk) + 1 \in Nat \ {0} /\ Len(stk) + 1 <= Len(flds) + 1 /\ Len(stk) + 1 <= i + 1
  BY <1>1, <1>3
<1>5. room' \in Nat /\ Len(s) <= room'
  BY <1>1, <1>2, <1>4, GrownIsEnough
<1> HIDE DEF s
<1>6. Place(s, 0)
  BY DEF s
<1> QED
  BY <1>1, <1>2, <1>4, <1>5, <1>6, PlaceStep

(* The context is left, the field is looked at again. *)
LEMMA LeaveStep ==
  ASSUME FixInv, Leave PROVE FixInv'
<1> DEFINE s == SubSeq(stk, 1, Len(stk) - 1)
<1>1. /\ pc = "look" /\ Len(stk) > 1
      /\ stk' = s /\ streak' = 0
      /\ flds' = flds /\ pc' = pc /\ i' = i /\ room' = room /\ oos' = oos
  BY DEF Leave, Looking
<1>2. /\ IsSeq(s) /\ Len(s) = Len(stk) - 1 /\ s # <<>>
      /\ \A n \in DOMAIN s : n \in DOMAIN stk /\ s[n] = stk[n]
  BY <1>1, Popped
<1> HIDE DEF s
<1>3. Len(stk) \in Nat /\ i \in Nat /\ Len(stk) <= i /\ Len(stk) <= room /\ room \in Nat
  BY FixTypes DEF FixInv
<1>4. Len(stk') <= i' /\ Len(stk') <= room'
  BY <1>1, <1>2, <1>3
<1>5. \A n \in DOMAIN stk' : stk'[n].idx \in 1..(IF i' = 1 THEN 1 ELSE i' - 1)
  BY <1>1, <1>2 DEF FixInv
<1> QED
  BY <1>1, <1>2, <1>4, <1>5 DEF FixInv, IsSeq

(* The message's context is entered, at its first field. *)
LEMMA OnlyEntry ==
  ASSUME NEW c
  PROVE  LET s == <<Entry(c, 1)>>
         IN  IsSeq(s) /\ Len(s) = 1 /\ s # <<>> /\ \A n \in DOMAIN s : s[n].idx = 1
<1> DEFINE e == Entry(c, 1)
<1>1. e.idx = 1
  BY DEF Entry
<1> HIDE DEF e
<1>2. <<e>> \in Seq({e}) /\ Len(<<e>>) = 1 /\ DOMAIN <<e>> = {1} /\ <<e>>[1] = e /\ <<e>> # <<>>
  OBVIOUS
<1>3. IsSeq(<<e>>)
  BY <1>2, SeqOfRange DEF IsSeq
<1> QED
  BY <1>1, <1>2, <1>3 DEF e

(* No context has the field. *)
LEMMA PassStep ==
  ASSUME FixInv, Pass PROVE FixInv'
<1>1. /\ pc = "look" /\ i <= Len(flds)
      /\ stk' = <<Entry(F35, 1)>> /\ room' = Grown(1) /\ streak' = 0 /\ oos' = TRUE /\ i' = i + 1
      /\ flds' = flds /\ pc' = pc
  BY DEF Pass, Looking
<1>2. IsSeq(stk') /\ Len(stk') = 1 /\ stk' # <<>> /\ \A n \in DOMAIN stk' : stk'[n].idx = 1
  BY <1>1, OnlyEntry
<1>3. i \in Nat \ {0} /\ Len(flds) \in Nat
  BY FixTypes
<1>4. i' \in 1..(Len(flds) + 1) /\ i' # 1 /\ 1 \in 1..(i' - 1) /\ 1 <= i'
  BY <1>1, <1>3
<1>5. room' \in Nat /\ 1 <= room'
  BY <1>1, <1>3, GrownIsEnough
<1>6. \A n \in DOMAIN stk' : stk'[n].idx \in 1..(IF i' = 1 THEN 1 ELSE i' - 1)
  BY <1>2, <1>4
<1> QED
  BY <1>1, <1>2, <1>4, <1>5, <1>6 DEF FixInv, IsSeq

(* Another message, and the stack that the call before has left. *)
LEMMA TakeStep ==
  ASSUME FixInv, NEW mine \in Messages, Take(mine) PROVE FixInv'
<1>1. /\ pc = "idle" /\ flds' = mine.flds /\ pc' = "start" /\ room' \in {0, MinStk}
      /\ i' = i /\ stk' = stk /\ streak' = streak /\ oos' = oos
  BY DEF Take
<1>2. IsSeq(flds') /\ \E top \in Pow2 : Len(flds') + MinStk <= top
  BY <1>1, MessagesAssumption DEF IsSeq
<1>3. stk = <<>> /\ i = 1 /\ Len(stk) = 0
  BY <1>1, EmptySeq DEF FixInv
<1>4. Len(flds') \in Nat
  BY <1>2, LenProperties DEF IsSeq
<1>5. room' \in Nat /\ 0 <= room' /\ i' \in 1..(Len(flds') + 1)
  BY <1>1, <1>3, <1>4, StackAssumption
<1> QED
  BY <1>1, <1>2, <1>3, <1>5 DEF FixInv, IsSeq

(* The three ways fixc_fixup begins. *)
LEMMA StartStep ==
  ASSUME FixInv, StartUser \/ StartFixup \/ NoFixup PROVE FixInv'
<1>1. /\ pc = "start" /\ i = 1 /\ stk = <<>> /\ Len(stk) = 0 /\ Len(flds) \in Nat
      /\ i' = i /\ streak' = streak /\ oos' = oos
  BY FixTypes, EmptySeq DEF FixInv, StartUser, StartFixup, NoFixup
<1>2. Grown(1) \in Nat /\ 1 <= Grown(1)
  BY <1>1, GrownIsEnough
<1>3. CASE StartUser
  <2>1. flds' = [j \in DOMAIN flds |-> flds'[j]] /\ stk' = stk /\ pc' = "fixed" /\ room' = Grown(1)
    BY <1>3 DEF StartUser
  <2>2. IsSeq(flds') /\ Len(flds') = Len(flds)
    BY <2>1, SameFields
  <2> QED
    BY <1>1, <1>2, <2>1, <2>2 DEF FixInv, IsSeq
<1>4. CASE StartFixup
  <2>1. stk' = <<Entry(F35, 1)>> /\ pc' = "look" /\ room' = Grown(1) /\ flds' = flds
    BY <1>4 DEF StartFixup
  <2>2. IsSeq(stk') /\ Len(stk') = 1 /\ stk' # <<>> /\ \A n \in DOMAIN stk' : stk'[n].idx = 1
    BY <2>1, OnlyEntry
  <2> QED
    BY <1>1, <1>2, <2>1, <2>2 DEF FixInv, IsSeq
<1>5. CASE NoFixup
  BY <1>1, <1>5 DEF NoFixup, FixInv, IsSeq
<1> QED
  BY <1>3, <1>4, <1>5

(* The two ways it ends. *)
LEMMA EndStep ==
  ASSUME FixInv, EndLook \/ EndSome PROVE FixInv'
<1>1. Shrunk \in Nat
  BY StackAssumption DEF Shrunk, FixInv
<1>2. IsSeq(<<>>) /\ Len(<<>>) = 0 /\ DOMAIN <<>> = {}
  BY EmptySeq DEF IsSeq
<1>3. CASE EndLook
  <2>1. /\ pc = "look" /\ stk' = <<>> /\ flds' = flds /\ oos' = oos
        /\ \/ pc' = "some" /\ i' = 1 /\ streak' = 1 /\ room' = room
           \/ pc' = "fixed" /\ room' = Shrunk /\ i' = i /\ streak' = streak
    BY <1>3 DEF EndLook
  <2>2. i' \in 1..(Len(flds) + 1) /\ streak' \in Nat /\ room' \in Nat /\ 0 <= i' /\ 0 <= room'
    BY <1>1, <2>1, FixTypes DEF FixInv
  <2> QED
    BY <1>2, <2>1, <2>2 DEF FixInv, IsSeq
<1>4. CASE EndSome
  <2>1. /\ pc = "some" /\ pc' = "fixed" /\ room' = Shrunk
        /\ flds' = flds /\ i' = i /\ stk' = stk /\ streak' = streak /\ oos' = oos
    BY <1>4 DEF EndSome
  <2>2. stk = <<>> /\ 0 <= Shrunk
    BY <1>1, <2>1 DEF FixInv
  <2> QED
    BY <1>1, <1>2, <2>1, <2>2 DEF FixInv, IsSeq
<1> QED
  BY <1>3, <1>4

(* fixc_fixup_some changes contexts and positions, no stack. *)
LEMMA SomeStep ==
  ASSUME FixInv, Some PROVE FixInv'
<1>1. /\ pc = "some" /\ i <= Len(flds) /\ i' = i + 1
      /\ pc' = pc /\ stk' = stk /\ room' = room /\ oos' = oos
  BY DEF Some
<1>2. flds' = flds \/ flds' = [j \in DOMAIN flds |-> flds'[j]]
  BY DEF Some
<1>3. streak' \in Nat
  BY DEF Some, FixInv
<1>4. IsSeq(flds') /\ Len(flds') = Len(flds)
  BY <1>2, SameFields DEF FixInv
<1>5. /\ stk = <<>> /\ Len(stk) = 0 /\ i \in Nat /\ Len(flds) \in Nat /\ DOMAIN stk = {}
  BY <1>1, FixTypes, EmptySeq DEF FixInv
<1>6. i' \in 1..(Len(flds') + 1) /\ 0 <= i'
  BY <1>1, <1>4, <1>5, FixTypes
<1> QED
  BY <1>1, <1>3, <1>4, <1>5, <1>6 DEF FixInv, IsSeq

(* All of them. *)
LEMMA FixStep ==
  ASSUME FixInv, FixNext PROVE FixInv'
<1>1. CASE \E mine \in Messages : Take(mine)
  BY <1>1, TakeStep
<1>2. CASE StartUser \/ StartFixup \/ NoFixup
  BY <1>2, StartStep
<1>3. CASE Stay
  BY <1>3, StayStep
<1>4. CASE EnterMessage
  <2>1. Looking /\ Place(Append(stk, Entry(Mtyp(flds[i]), i)), 0) /\ room' = Grown(Len(stk) + 1)
    BY <1>4 DEF EnterMessage
  <2> QED
    BY <2>1, EnterStep
<1>5. CASE EnterBlock
  <2> DEFINE c == IF Orb(Anc) = UNK THEN Anc ELSE Orb(Anc)
  <2>1. Looking /\ Place(Append(stk, Entry(c, i)), 0) /\ room' = Grown(Len(stk) + 1)
    BY <1>5 DEF EnterBlock
  <2> HIDE DEF c
  <2> QED
    BY <2>1, EnterStep
<1>6. CASE Leave
  BY <1>6, LeaveStep
<1>7. CASE Pass
  BY <1>7, PassStep
<1>8. CASE EndLook \/ EndSome
  BY <1>8, EndStep
<1>9. CASE Some
  BY <1>9, SomeStep
<1> QED
  BY <1>1, <1>2, <1>3, <1>4, <1>5, <1>6, <1>7, <1>8, <1>9 DEF FixNext, Look

-----------------------------------------------------------------------------
(* The invariant holds *)

(* There is no text yet. *)
LEMMA NoWriterShaped == Shaped(NoWriter) /\ NoWriter.xml.elts = <<>>
<1>1. IsSeq(<<>>)
  BY EmptySeq DEF IsSeq
<1>2. NoXml.elts = <<>> /\ XmlShaped(NoXml)
  BY <1>1 DEF NoXml, XmlShaped, IsXml
<1>3. NoWriter.xml = NoXml
  BY DEF NoWriter
<1> HIDE DEF NoXml
<1> QED
  BY <1>2, <1>3 DEF NoWriter, Shaped, IsWriter

(* In the beginning there is no message. *)
LEMMA InitInv ==
  ASSUME Init PROVE IInv
<1>1. IsSeq(<<>>) /\ Len(<<>>) = 0 /\ DOMAIN <<>> = {}
  BY EmptySeq DEF IsSeq
<1>2. FixInv
  <2>1. i = 1 /\ flds = <<>> /\ stk = <<>> /\ room = 0 /\ streak = 0 /\ oos = FALSE /\ pc = "idle"
    BY DEF Init, FixInit
  <2>2. \A n \in DOMAIN stk : FALSE
    BY <1>1, <2>1
  <2>3. Len(flds) = 0 /\ Len(stk) = 0 /\ IsSeq(flds) /\ IsSeq(stk)
    BY <1>1, <2>1
  <2>4. i \in 1..(Len(flds) + 1) /\ Len(stk) <= i /\ Len(stk) <= room
    BY <2>1, <2>3
  <2> QED
    BY <2>1, <2>2, <2>3, <2>4 DEF FixInv
<1>3. AtField
  BY <1>1 DEF Init, FixInit, WriteInit, AtField
<1>4. Shaped(w)
  BY NoWriterShaped DEF Init, WriteInit
<1> QED
  BY <1>2, <1>3, <1>4 DEF Init, WriteInit, IInv

(* A message that is fixed up is not touched any more. *)
LEMMA FixedStays ==
  ASSUME FixNext, wpc # "wait" => pc = "fixed" PROVE wpc = "wait"
BY DEF FixNext, Take, StartUser, StartFixup, NoFixup, Look, Stay, EnterMessage, EnterBlock, Leave,
       Pass, Looking, EndLook, Some, EndSome

(* The writer's position stays within the message, known or not. *)
LEMMA FieldStep ==
  ASSUME FixInv, AtField, Write, UNCHANGED fixvars PROVE AtField'
<1>1. flds' = flds /\ pc' = pc /\ Len(flds) \in Nat /\ k \in Nat
  BY FixTypes DEF fixvars, AtField
<1>2. CASE (\E z : Start(TRUE, z)) \/ (\E z : Start(FALSE, z))
  BY <1>1, <1>2 DEF Start, AtField
<1>3. CASE CheckRoom
  BY <1>1, <1>3 DEF CheckRoom, AtField
<1>4. CASE SkipCounter
  BY <1>1, <1>4 DEF SkipCounter, Writing, AtField
<1>5. ASSUME NEW ctxs, NEW v, Writing, Open(ctxs, v) PROVE AtField'
  BY <1>1, <1>5 DEF Open, Writing, AtField
<1>6. CASE OpenChild \/ OpenTop \/ OpenAgain \/ GoOn
  BY <1>5, <1>6 DEF OpenChild, OpenTop, OpenAgain, GoOn, Changed
<1>7. CASE CloseSibling
  BY <1>1, <1>7 DEF CloseSibling, AtField, Changed, Writing
<1>8. CASE PushNext
  BY <1>1, <1>8 DEF PushNext, AtField
<1>9. CASE WriteAttr
  BY <1>1, <1>9 DEF WriteAttr, AtField
<1>10. CASE CloseAll \/ Footer
  BY <1>1, <1>10 DEF CloseAll, Footer, AtField
<1> QED
  BY <1>2, <1>3, <1>4, <1>6, <1>7, <1>8, <1>9, <1>10 DEF Write

(* The writer begins with no element, no record taken and no attribute. *)
LEMMA StepStart ==
  ASSUME IInv, NEW mine, NEW z, Start(mine, z), UNCHANGED fixvars PROVE WriteInv'
<1> DEFINE h == Header(z)
           v == [NoWriter EXCEPT !.b = h]
<1>1. /\ wpc = "wait" /\ k = 1 /\ otpc = UNK /\ todo = <<>>
      /\ wpc' = "room" /\ w' = v /\ k' = 1 /\ otpc' = UNK /\ todo' = <<>> /\ flds' = flds
  BY DEF Start, IInv, fixvars
<1>2. <<>> \in Seq(Rec) /\ <<>> \in Seq(Elt) /\ <<>> \in Seq(Nat) /\ Len(<<>>) = 0 /\ NPool \in Nat
  BY EmptySeq, SchemaAssumption
<1>3. NoXml \in Xml /\ NoXml.elts = <<>> /\ NoXml.open = <<>> /\ NoXml.tag = FALSE
  BY <1>2 DEF NoXml, Xml
<1>4. /\ NoWriter \in [state : Seq(Rec), free : Nat, fault : {FALSE}, b : {NoWriter.b}, xml : Xml]
      /\ NoWriter.state = <<>> /\ NoWriter.free = NPool /\ NoWriter.xml = NoXml
  BY <1>2, <1>3 DEF NoWriter
<1> HIDE DEF h
<1>5. Whole(v) /\ v.state = <<>> /\ v.xml = NoXml
  <2>1. /\ v \in [state : Seq(Rec), free : Nat, fault : {FALSE}, b : {v.b}, xml : Xml]
        /\ v.state = <<>> /\ v.free = NPool /\ v.xml = NoXml
    BY <1>4
  <2> HIDE DEF v
  <2>2. Len(v.state) = 0 /\ Len(v.xml.open) = 0 /\ v.xml.tag = FALSE /\ 0 + NPool = NPool
    BY <1>2, <1>3, <2>1
  <2>3. \A n \in 1..Len(v.state) : FALSE
    BY <2>2
  <2> QED
    BY <2>1, <2>2, <2>3 DEF Whole
<1> HIDE DEF v
<1>6. Whole(w)' /\ w'.state = <<>> /\ w'.xml.elts = <<>>
  BY <1>1, <1>3, <1>5 DEF Whole
<1>7. AttrsDone(<<>>, 1)
  <2>1. DOMAIN <<>> = {} /\ Due(1) = {}
    BY DEF Due
  <2> QED
    BY <2>1 DEF AttrsDone
<1>8. AttrsDone(w.xml.elts, k)' /\ Counted(w, Len(w.xml.elts))'
  <2>1. w'.xml.elts = <<>> /\ k' = 1 /\ flds' = flds
    BY <1>1, <1>6
  <2>2. AttrsDone(w.xml.elts, k)'
    BY <1>7, <2>1 DEF AttrsDone, Due
  <2>3. \A n \in 1..Len(w'.state) : FALSE
    BY <1>2, <1>6
  <2> QED
    BY <2>2, <2>3 DEF Counted
<1>9. IsSeq(todo') /\ Range(todo') \subseteq Comp
  <2>1. Range(<<>>) = {} /\ <<>> \in Seq({})
    BY EmptySeq DEF Range
  <2> QED
    BY <1>1, <2>1 DEF IsSeq
<1>10. Settled'
  BY <1>1, <1>6 DEF Settled
<1> QED
  BY <1>1, <1>6, <1>8, <1>9, <1>10 DEF WriteInv

(* No step makes the elements fewer. *)
LEMMA LongerStep ==
  ASSUME Shaped(w), Write PROVE Shaped(w)' /\ (wpc # "wait" => (Few(w)' => Few(w)))
<1>0. IsWriter(w) /\ Len(w.xml.elts) \in Nat
  BY XmlFollows DEF Shaped
<1>1. ASSUME Longer(w', w) PROVE Shaped(w)' /\ (wpc # "wait" => (Few(w)' => Few(w)))
  <2>1. Shaped(w')
    BY <1>1 DEF Longer
  <2>2. Len(w'.xml.elts) \in Nat
    BY <2>1, XmlFollows DEF Shaped
  <2>3. Shaped(w)'
    BY <2>1 DEF Shaped, XmlShaped, IsWriter, IsXml, IsSeq
  <2> QED
    BY <1>0, <1>1, <2>2, <2>3, CountAssumption DEF Longer, Few
<1>2. ASSUME NEW b, w' = [w EXCEPT !.b = b] PROVE Longer(w', w)
  BY <1>2, BufferLonger
<1>3. CASE w' = w
  <2>1. w' = [w EXCEPT !.b = w.b]
    BY <1>0, <1>3 DEF IsWriter
  <2> QED
    BY <1>1, <1>2, <2>1
<1>4. CASE (\E z : Start(TRUE, z)) \/ (\E z : Start(FALSE, z))
  <2>1. PICK z : w' = [NoWriter EXCEPT !.b = Header(z)] /\ wpc = "wait"
    BY <1>4 DEF Start
  <2> DEFINE b == Header(z)
  <2>2. w' = [NoWriter EXCEPT !.b = b]
    BY <2>1
  <2> HIDE DEF b
  <2>3. Longer(w', NoWriter)
    BY <2>2, NoWriterShaped, BufferLonger
  <2> QED
    BY <2>1, <2>3 DEF Longer, Shaped, XmlShaped, IsWriter, IsXml, IsSeq
<1>5. CASE CheckRoom
  <2>1. w' = w \/ w' = [w EXCEPT !.b = Resized(w.b)]
    <3>1. [w EXCEPT !.b = Resized(@)] = [w EXCEPT !.b = Resized(w.b)]
      BY <1>0 DEF IsWriter
    <3> QED
      BY <1>5, <3>1 DEF CheckRoom
  <2> QED
    BY <1>1, <1>2, <1>3, <2>1
<1>6. CASE SkipCounter \/ OpenChild \/ OpenTop \/ GoOn
  BY <1>3, <1>6 DEF SkipCounter, OpenChild, OpenTop, GoOn, Open
<1>7. CASE CloseSibling \/ OpenAgain \/ CloseAll
  <2>1. w' = Pop(w)
    BY <1>7 DEF CloseSibling, OpenAgain, CloseAll, Open
  <2> QED
    BY <1>1, <2>1, PopLonger
<1>8. CASE PushNext
  <2>1. w' = Push(w, Head(todo))
    BY <1>8 DEF PushNext
  <2> QED
    BY <1>1, <2>1, PushLonger
<1>9. CASE WriteAttr
  <2>1. w' = RenderAttr(w, k, flds[k])
    BY <1>9 DEF WriteAttr
  <2> QED
    BY <1>1, <2>1, AttrLonger
<1>10. CASE Footer
  <2> DEFINE b == Char[EndTag(IF F35 = BATCH THEN EndTag(w.b, 5) ELSE w.b, 5)]
  <2>1. w' = [w EXCEPT !.b = b]
    BY <1>0, <1>10 DEF Footer, IsWriter
  <2> QED
    BY <1>1, <1>2, <2>1
<1> QED
  BY <1>4, <1>5, <1>6, <1>7, <1>8, <1>9, <1>10 DEF Write

(* All steps of the writer. *)
LEMMA WriteStep ==
  ASSUME IInv, Write, UNCHANGED fixvars, Known', Few(w)' PROVE WriteInv'
<1>1. CASE (\E z : Start(TRUE, z)) \/ (\E z : Start(FALSE, z))
  BY <1>1, StepStart
<1>2. CASE wpc # "wait"
  <2>0. wpc' # "wait"
    BY <1>2 DEF Write, Start, CheckRoom, SkipCounter, OpenChild, CloseSibling, OpenTop, OpenAgain,
                GoOn, Open, Changed, Writing, PushNext, WriteAttr, CloseAll, Footer
  <2>1. Known /\ Few(w)
    BY <1>2, <2>0, LongerStep DEF Known, fixvars, IInv
  <2>2. Before
    BY <1>2, <2>1 DEF Before, IInv
  <2>3. ~Start(TRUE, Estimate(Len(flds), TextLen)) /\ \A z : ~Start(FALSE, z)
    BY <1>2 DEF Start
  <2> QED
    BY <2>2, <2>3, StepRoom, StepCounter, StepChild, StepSibling, StepTop, StepAgain, StepOn,
       StepPush, StepAttr, StepClose, StepFooter DEF Write
<1>3. wpc = "wait" => (\E z : Start(TRUE, z)) \/ (\E z : Start(FALSE, z))
  BY DEF Write, CheckRoom, SkipCounter, OpenChild, CloseSibling, OpenTop, OpenAgain, GoOn, Changed,
         Writing, PushNext, WriteAttr, CloseAll, Footer
<1> QED
  BY <1>1, <1>2, <1>3

(* And all steps there are. *)
LEMMA NextInv ==
  ASSUME IInv, [Next]_vars PROVE IInv'
<1>1. CASE FixNext /\ UNCHANGED writevars
  <2>1. wpc = "wait" /\ wpc' = "wait" /\ k' = k /\ otpc' = otpc /\ todo' = todo /\ w' = w
    BY <1>1, FixedStays DEF IInv, AtField, writevars
  <2>2. FixInv' /\ Shaped(w)'
    BY <1>1, <2>1, FixStep DEF IInv, Shaped, XmlShaped, IsWriter, IsXml, IsSeq
  <2>3. Len(flds') \in Nat
    BY <2>2, LenProperties DEF FixInv, IsSeq
  <2>4. AtField'
    BY <2>1, <2>3 DEF IInv, AtField
  <2> QED
    BY <2>1, <2>2, <2>4 DEF IInv
<1>2. CASE Write /\ UNCHANGED fixvars
  <2>1. FixInv' /\ Shaped(w)'
    BY <1>2, LongerStep DEF fixvars, IInv, FixInv, IsSeq
  <2>2. AtField'
    BY <1>2, FieldStep DEF IInv
  <2>3. wpc' # "wait"
    BY <1>2 DEF Write, Start, CheckRoom, SkipCounter, OpenChild, CloseSibling, OpenTop, OpenAgain,
                GoOn, Open, Changed, Writing, PushNext, WriteAttr, CloseAll, Footer
  <2>4. Known' /\ Few(w)' => WriteInv'
    BY <1>2, WriteStep
  <2> QED
    BY <2>1, <2>2, <2>3, <2>4 DEF IInv
<1>3. CASE UNCHANGED vars
  <2>1. FixInv' /\ AtField' /\ Shaped(w)'
    BY <1>3 DEF vars, IInv, FixInv, AtField, IsSeq, Shaped, XmlShaped, IsWriter, IsXml
  <2>2. (Known' => Known) /\ (Few(w)' => Few(w))
    BY <1>3 DEF vars, Known, Few
  <2>3. WriteInv => WriteInv'
    <3>1. (Whole(w) => Whole(w)') /\ (Counted(w, Len(w.xml.elts)) => Counted(w, Len(w.xml.elts))')
      BY <1>3 DEF vars, Whole, Counted
    <3>2. AttrsDone(w.xml.elts, k) => AttrsDone(w.xml.elts, k)'
      BY <1>3 DEF vars, AttrsDone, Due
    <3>3. (Opening => Opening') /\ (Settled => Settled')
      BY <1>3 DEF vars, Opening, Settled, State
    <3> QED
      BY <1>3, <3>1, <3>2, <3>3 DEF vars, WriteInv, IsSeq, Ctx, Skipped
  <2> QED
    BY <1>3, <2>1, <2>2, <2>3 DEF vars, IInv
<1> QED
  BY <1>1, <1>2, <1>3 DEF Next

(* The invariant holds: the fixup's part (FixInv) and the position         *)
(* (AtField) for every message, the writer's (WriteInv) while the message  *)
(* written is Known and has so few elements that the counts of children,   *)
(* 16 bits wide, are right.                                                *)
THEOREM Invariant == Spec => []IInv
<1>1. Init => IInv
  BY InitInv
<1>2. IInv /\ [Next]_vars => IInv'
  BY NextInv
<1> QED
  BY <1>1, <1>2, PTL DEF Spec

-----------------------------------------------------------------------------
(* What follows from it *)

(* The indices of fixup and writer are in range, whatever the message:     *)
(* fixc_fixup and fixc_render_fixml look at no field that is not there.    *)
THEOREM TypesHold == Spec => []TypeOK
<1>1. IInv => TypeOK
  BY DEF IInv, FixInv, AtField, TypeOK
<1> QED
  BY <1>1, Invariant, PTL

(* chck_stk has made room for every context that is entered, whatever the  *)
(* message and whatever stack the call before has left.                    *)
THEOREM StackFits == Spec => []StackInRoom
<1>1. IInv => StackInRoom
  BY DEF IInv, FixInv, StackInRoom
<1> QED
  BY <1>1, Invariant, PTL

(* A text that is legible, that is: none of it was cut off or stored       *)
(* behind the buffer's end and it has fewer than CntSize elements, is      *)
(* well-formed at every step, for every message whose contexts the engine  *)
(* knows: push_rndr_state, pop_rndr_state and __render_attr are called in  *)
(* an order that leaves no start tag unfinished and no element open, and   *)
(* every record is in the stack or in the pool.                            *)
THEOREM TextIsWellFormed == Spec => [](Known => WellFormed)
<1>1. ASSUME IInv, Known, Legible PROVE WellFormed
  <2>1. CASE wpc = "wait"
    <3>1. w.state = <<>> /\ w.free = NPool /\ w.xml = NoXml
      BY <1>1, <2>1 DEF IInv, NoWriter
    <3>2. NoXml.open = <<>> /\ NoXml.tag = FALSE /\ NoXml.bad = FALSE
      BY DEF NoXml
    <3>3. Len(w.state) + w.free = NPool
      <4>1. NPool \in Nat /\ Len(<<>>) = 0
        BY SchemaAssumption, EmptySeq
      <4> QED
        BY <3>1, <4>1
    <3>4. [n \in DOMAIN w.xml.open |-> w.xml.elts[w.xml.open[n]].ctx] =
            [n \in DOMAIN w.state |-> w.state[n].osub]
      <4>1. DOMAIN w.xml.open = {} /\ DOMAIN w.state = {}
        BY <3>1, <3>2
      <4> QED
        BY <4>1
    <3> QED
      BY <2>1, <3>1, <3>2, <3>3, <3>4 DEF WellFormed
  <2>2. CASE wpc # "wait"
    <3>1. Whole(w) /\ (wpc \in {"foot", "done"} => w.state = <<>>)
      BY <1>1, <2>2 DEF IInv, WriteInv, Legible, Few
    <3>2. /\ DOMAIN w.state = 1..Len(w.state) /\ DOMAIN w.xml.open = 1..Len(w.xml.open)
          /\ Len(w.state) \in Nat /\ w.xml.open \in Seq(Nat) /\ w.xml.bad = FALSE
      BY <3>1, WholeTypes
    <3>3. Len(w.xml.open) = Len(w.state) /\ Len(w.state) + w.free = NPool
      BY <3>1 DEF Whole
    <3>4. w.state = <<>> => w.xml.open = <<>>
      BY <3>2, <3>3, EmptySeq
    <3>5. [n \in DOMAIN w.xml.open |-> w.xml.elts[w.xml.open[n]].ctx] =
            [n \in DOMAIN w.state |-> w.state[n].osub]
      BY <3>1, <3>2, <3>3 DEF Whole
    <3>6. w.xml.tag <=> w.state # <<>> /\ State(w).cntc = 0
      BY <3>1 DEF Whole, State
    <3> QED
      BY <3>1, <3>2, <3>3, <3>4, <3>5, <3>6 DEF WellFormed
  <2> QED
    BY <2>1, <2>2
<1>2. IInv => (Known => WellFormed)
  BY <1>1 DEF WellFormed
<1> QED
  BY <1>2, Invariant, PTL

(* The pool has a record for every element that is opened, and there is an *)
(* element for every attribute: neither __render_attr nor a caller of      *)
(* push_rndr_state follows a NULL.  That is so in any buffer, as long as   *)
(* there are fewer than CntSize elements.                                  *)
THEOREM NoNullFollowed == Spec => [](Known /\ Few(w) => NoFault)
<1>1. ASSUME IInv, Known, Few(w) PROVE NoFault
  <2>1. CASE wpc = "wait"
    BY <1>1, <2>1 DEF IInv, NoWriter, NoFault
  <2>2. CASE wpc # "wait"
    <3>1. Whole(w)
      BY <1>1, <2>2 DEF IInv, WriteInv
    <3> QED
      BY <3>1, WholeTypes DEF NoFault
  <2> QED
    BY <2>1, <2>2
<1>2. IInv => (Known /\ Few(w) => NoFault)
  BY <1>1
<1> QED
  BY <1>2, Invariant, PTL

(* In a text that is legible the fields are in their order, each once, and *)
(* each in an element of its own context.                                  *)
THEOREM FieldsInContext == Spec => [](Known => InContext)
<1>1. IInv => (Known => InContext)
  BY DEF IInv, WriteInv, InContext, AttrsDone, Due, Legible, Few
<1> QED
  BY <1>1, Invariant, PTL

-----------------------------------------------------------------------------
(* The fixup finds a context for every field *)

(* The contexts that have elements of their own. *)
Openable == {c \in Ctxs \ {UNK, BATCH} : Orb(c) = UNK}

(* What a field is made of.  One that begins a message has its type with   *)
(* it.                                                                     *)
Field(fld) ==
  /\ fld \in [tag : Tags, typ : {fld.typ}, u : {fld.u}, tpc : {fld.tpc}, cnt : {fld.cnt}]
  /\ fld.tag = MSG_TYPE => Mtyp(fld) \in Openable

Untouched(fld) == fld.tpc = UNK /\ fld.cnt = 0

(* Context c has a place for the field, or leads to one that has.          *)
Takes(c, fld) ==
  c \in Udef \/ fld.tag = MSG_TYPE \/ c \in FldCtx[fld.tag] \/ FuAncest(fld.tag, c) # UNK

(* A message without contexts, as make_fixc_from_fix leaves it and as most *)
(* programs make it: it has a type, or is a batch, and its first field is  *)
(* of that type.                                                           *)
Bare(mine) ==
  /\ mine.f35 \in Openable \union {BATCH}
  /\ ~(mine.f35 = BATCH /\ BATCH \in Udef)
  /\ \A j \in DOMAIN mine.flds : Field(mine.flds[j]) /\ Untouched(mine.flds[j])
  /\ mine.flds # <<>> => Takes(mine.f35, mine.flds[1])

(* A message with contexts, as one read from FIXML: each that is written   *)
(* has an element of its own.                                              *)
Contexted(mine) ==
  /\ mine.flds # <<>> => mine.flds[1].tpc # UNK
  /\ \A j \in DOMAIN mine.flds : mine.flds[j].tag # Rptb(mine.flds[j].tpc) =>
       /\ mine.flds[j].tpc \in Ctxs \ {UNK} /\ Orb(mine.flds[j].tpc) = UNK
       /\ mine.flds[j].tpc = BATCH => mine.flds[j].typ \in Unwritten /\ mine.flds[j].cnt # 0

(* While contexts are looked for, those entered are such; the first field, *)
(* which speaks for all, finds its own; and a field without one has been   *)
(* passed over.                                                            *)
LookInv ==
  /\ F35 \notin Udef /\ last = UNK
  /\ \A n \in DOMAIN stk : stk[n].ctx \in Openable \union {BATCH}
  /\ i = 1 => stk = <<Entry(F35, 1)>> /\ streak = 0
  /\ i > 1 => flds[1].tpc \in Openable /\ flds[1].cnt = 0
  /\ \A n \in DOMAIN flds : n >= i => Untouched(flds[n])
  /\ \A n \in DOMAIN flds : n < i => flds[n].tpc \in Openable \/ (oos /\ Untouched(flds[n]))

(* While those passed over take the context of the field before, there is  *)
(* one, as the first field's position is 0.                                *)
SomeInv ==
  /\ \A n \in DOMAIN flds : flds[n].tpc \in Openable \/ (n >= i /\ Untouched(flds[n]))
  /\ i = 1 => last = UNK /\ (1 \in DOMAIN flds => flds[1].tpc \in Openable /\ flds[1].cnt = 0)
  /\ i > 1 => last \in Openable

FoundInv ==
  /\ pc \in {"idle", "start"} => streak = 0 /\ oos = FALSE /\ last = UNK
  /\ pc = "start" => flds = msg.flds
  /\ Contexted(msg) => flds = msg.flds /\ pc \in {"idle", "start", "fixed"}
  /\ Bare(msg) /\ pc # "idle" =>
       /\ \A n \in DOMAIN flds : Field(flds[n])
       /\ flds # <<>> => Takes(F35, flds[1])
       /\ pc = "start" => \A n \in DOMAIN flds : Untouched(flds[n])
       /\ pc = "look" => LookInv
       /\ pc = "some" => SomeInv
       /\ pc = "fixed" => \A n \in DOMAIN flds : flds[n].tpc \in Openable

(* A block a field leads to has a place for it. *)
LEMMA AncestHasPlace ==
  ASSUME NEW tag \in Tags, NEW c, FuAncest(tag, c) # UNK
  PROVE  FuAncest(tag, c) \in FldCtx[tag]
<1> DEFINE below == IF c \in Ctxs THEN Below[c] ELSE <<>>
           hits == {n \in DOMAIN below : below[n] \in FldCtx[tag]}
           k0 == CHOOSE n \in hits : \A j \in hits : n <= j
<1>1. hits # {} /\ FuAncest(tag, c) = below[k0]
  BY DEF FuAncest
<1>2. DOMAIN below \subseteq Nat
  <2>1. CASE c \in Ctxs
    <3>1. below = Descendants(c)
      BY <2>1 DEF Below
    <3>2. \A s, t : \A n \in DOMAIN (s \o t) : n \in 1..(Len(s) + Len(t))
      OBVIOUS
    <3>3. \A m : \A n \in 1..m : n \in Nat
      OBVIOUS
    <3> QED
      BY <3>1, <3>2, <3>3 DEF Descendants
  <2>2. CASE c \notin Ctxs
    <3>1. below = <<>>
      BY <2>2
    <3> QED
      BY <3>1
  <2> QED
    BY <2>1, <2>2
<1> HIDE DEF below
<1>3. hits \in SUBSET Nat
  BY <1>2
<1>4. \E n \in hits : \A j \in hits : n <= j
  BY <1>1, <1>3, LeastElement
<1>5. k0 \in hits
  BY <1>4
<1> QED
  BY <1>1, <1>5

(* The context a field is put into is such a one. *)
LEMMA PlacesAreOpenable ==
  ASSUME NEW tag \in Tags, NEW c \in FldCtx[tag]
  PROVE  /\ c \in Ctxs \ {UNK, BATCH}
         /\ (IF Orb(c) = UNK THEN c ELSE Orb(c)) \in Openable
<1>1. c \in Ctxs \ {UNK, BATCH}
  BY ContextsAssumption
<1>2. CASE Orb(c) = UNK
  BY <1>1, <1>2 DEF Openable
<1>3. CASE Orb(c) # UNK
  <2>1. Orb(c) \in Ctxs /\ Orb(Orb(c)) = UNK /\ Orb(c) # BATCH
    BY <1>1, <1>3, SchemaAssumption, ContextsAssumption
  <2>2. Orb(c) \in Openable
    BY <1>3, <2>1 DEF Openable
  <2> QED
    BY <1>1, <1>3, <2>2
<1> QED
  BY <1>1, <1>2, <1>3

(* One field is given a context and a position. *)
WithContext(f, n, c, count) == [f EXCEPT ![n].tpc = c, ![n].cnt = count]

LEMMA FieldSet ==
  ASSUME NEW f, NEW n \in DOMAIN f, f = [j \in DOMAIN f |-> f[j]], Field(f[n]), NEW c, NEW count
  PROVE  LET g == WithContext(f, n, c, count)
         IN  /\ DOMAIN g = DOMAIN f
             /\ Field(g[n]) /\ g[n].tpc = c /\ g[n].cnt = count /\ g[n].tag = f[n].tag
             /\ \A m \in DOMAIN f : m # n => g[m] = f[m]
<1> DEFINE a == [f[n] EXCEPT !.tpc = c]
           b == [a EXCEPT !.cnt = count]
           g == WithContext(f, n, c, count)
<1>1. /\ f[n] \in [tag : Tags, typ : {f[n].typ}, u : {f[n].u}, tpc : {f[n].tpc}, cnt : {f[n].cnt}]
      /\ f[n].tag = MSG_TYPE => Mtyp(f[n]) \in Openable
  BY DEF Field
<1>2. a \in [tag : Tags, typ : {f[n].typ}, u : {f[n].u}, tpc : {c}, cnt : {f[n].cnt}]
      /\ a.tag = f[n].tag /\ a.typ = f[n].typ /\ a.u = f[n].u
  BY <1>1
<1> HIDE DEF a
<1>3. b \in [tag : Tags, typ : {f[n].typ}, u : {f[n].u}, tpc : {c}, cnt : {count}]
      /\ b.tag = f[n].tag /\ b.typ = f[n].typ /\ b.u = f[n].u /\ b.tpc = c /\ b.cnt = count
  BY <1>2
<1>4. g = [[f EXCEPT ![n] = a] EXCEPT ![n] = b]
  BY DEF a, WithContext
<1> HIDE DEF b, g
<1>5. DOMAIN g = DOMAIN f /\ g[n] = b /\ \A m \in DOMAIN f : m # n => g[m] = f[m]
  BY <1>4
<1>6. Mtyp(b) = Mtyp(f[n])
  BY <1>3 DEF Mtyp
<1>7. Field(b)
  BY <1>1, <1>3, <1>6 DEF Field
<1> QED
  BY <1>3, <1>5, <1>7 DEF g

(* A field finds its place, in a context that has elements. *)
LEMMA PlaceFound ==
  ASSUME FixInv, FoundInv, Bare(msg), Looking, NEW s, NEW count, Place(s, count),
         IsSeq(s), s # <<>>, \A n \in DOMAIN s : s[n].ctx \in Openable \union {BATCH},
         s[Len(s)].ctx \in Openable, i = 1 => count = 0
  PROVE  FoundInv'
<1> DEFINE c == s[Len(s)].ctx
           first == s[Len(s)].idx + 1
           cnt == IF i > first /\ flds[first].tag = Tag THEN 0 ELSE count
           pos == cnt % CntSize
           g == WithContext(flds, i, c, pos)
<1>1. /\ flds' = g /\ stk' = s /\ i' = i + 1
      /\ pc' = pc /\ oos' = oos /\ last' = last /\ msg' = msg /\ pc = "look"
  BY DEF Place, Looking, WithContext
<1>2. c \in Openable /\ (i = 1 => pos = 0)
  <2>1. i = 1 => cnt = 0
    OBVIOUS
  <2>2. 0 % CntSize = 0
    BY CountAssumption
  <2> QED
    BY <2>1, <2>2
<1> HIDE DEF c, pos
<1>3. /\ \A n \in DOMAIN flds : Field(flds[n])
      /\ flds # <<>> => Takes(F35, flds[1])
      /\ LookInv /\ ~Contexted(msg)
  BY <1>1 DEF FoundInv
<1>4. /\ DOMAIN flds = 1..Len(flds) /\ Len(flds) \in Nat /\ i \in DOMAIN flds /\ i \in Nat \ {0}
      /\ flds = [j \in DOMAIN flds |-> flds[j]] /\ flds # <<>>
  <2>1. flds \in Seq(Range(flds)) /\ i \in 1..Len(flds)
    BY FixTypes DEF Looking
  <2>2. flds # <<>>
    BY <2>1, EmptySeq
  <2> QED
    BY <2>1, <2>2, FixTypes
<1>5. /\ DOMAIN g = DOMAIN flds /\ Field(g[i]) /\ g[i].tpc = c /\ g[i].cnt = pos
      /\ g[i].tag = flds[i].tag /\ \A m \in DOMAIN flds : m # i => g[m] = flds[m]
  BY <1>3, <1>4, FieldSet
<1> HIDE DEF g
<1>6. \A n \in DOMAIN g : Field(g[n])
  BY <1>3, <1>5
<1>7. Takes(F35, g[1])
  <2>1. g[1].tag = flds[1].tag
    BY <1>4, <1>5
  <2> QED
    BY <1>3, <1>4, <2>1 DEF Takes
<1>8. LookInv'
  <2>1. /\ i' # 1 /\ i' > 1
        /\ \A n \in Nat : (n >= i' => n >= i /\ n # i) /\ (n < i' => n < i \/ n = i)
    BY <1>1, <1>4
  <2>2. F35' = F35
    BY <1>1 DEF F35
  <2>3. g[1].tpc \in Openable /\ g[1].cnt = 0
    <3>1. CASE i = 1
      BY <1>2, <1>5, <3>1
    <3>2. CASE i # 1
      <4>1. 1 \in DOMAIN flds /\ i > 1
        BY <1>4, <3>2
      <4> QED
        BY <1>3, <1>5, <3>2, <4>1 DEF LookInv
    <3> QED
      BY <3>1, <3>2
  <2>4. \A n \in DOMAIN g : n >= i' => Untouched(g[n])
    BY <1>3, <1>4, <1>5, <2>1 DEF LookInv
  <2>5. \A n \in DOMAIN g : n < i' => g[n].tpc \in Openable \/ (oos /\ Untouched(g[n]))
    BY <1>2, <1>3, <1>4, <1>5, <2>1 DEF LookInv
  <2> QED
    BY <1>1, <1>3, <2>1, <2>2, <2>3, <2>4, <2>5 DEF LookInv, Untouched
<1>9. pc' = "look" /\ ~Contexted(msg)' /\ Takes(F35, flds[1])'
  BY <1>1, <1>3, <1>7 DEF F35, Takes
<1>10. \A n \in DOMAIN flds' : Field(flds'[n])
  BY <1>1, <1>6
<1> QED
  BY <1>8, <1>9, <1>10 DEF FoundInv

(* The three ways a field finds its place. *)
LEMMA StayFound ==
  ASSUME FixInv, FoundInv, Bare(msg), Stay PROVE FoundInv'
<1>1. Looking /\ HasPlace /\ Place(stk, streak) /\ pc = "look"
  BY DEF Stay, Looking
<1>2. LookInv /\ \A n \in DOMAIN flds : Field(flds[n])
  BY <1>1 DEF FoundInv
<1>3. i \in DOMAIN flds /\ stk # <<>> /\ IsSeq(stk) /\ Len(stk) \in DOMAIN stk
  BY <1>1, FixTypes DEF FixInv, Looking
<1>4. Tag \in Tags /\ Top.ctx \in FldCtx[Tag]
  BY <1>1, <1>2, <1>3 DEF Field, Tag, HasPlace
<1>5. Top.ctx # BATCH
  BY <1>4, ContextsAssumption
<1>6. Top.ctx \in Openable
  BY <1>2, <1>3, <1>5 DEF LookInv, Top
<1>7. \A n \in DOMAIN stk : stk[n].ctx \in Openable \union {BATCH}
  BY <1>2 DEF LookInv
<1>8. i = 1 => streak = 0
  BY <1>2 DEF LookInv
<1> QED
  BY <1>1, <1>3, <1>6, <1>7, <1>8, PlaceFound DEF Top

LEMMA EnterFound ==
  ASSUME FixInv, FoundInv, Bare(msg), Looking, NEW c \in Openable,
         Place(Append(stk, Entry(c, i)), 0)
  PROVE  FoundInv'
<1> DEFINE e == Entry(c, i)
           s == Append(stk, e)
<1>1. pc = "look" /\ i <= Len(flds)
  BY DEF Looking
<1>2. IsSeq(s) /\ Len(s) = Len(stk) + 1 /\ s # <<>>
  BY <1>1, Pushed
<1>3. LookInv
  BY <1>1 DEF FoundInv
<1>4. /\ DOMAIN s = 1..(Len(stk) + 1) /\ s[Len(stk) + 1] = e
      /\ \A n \in 1..Len(stk) : s[n] = stk[n]
  <2>1. stk \in Seq(Range(stk) \union {e}) /\ e \in Range(stk) \union {e}
    BY FixTypes, SeqMonotonic
  <2> QED
    BY <2>1, AppendProperties, LenProperties
<1>5. e.ctx = c
  BY DEF Entry
<1> HIDE DEF s, e
<1>6. \A n \in DOMAIN s : s[n].ctx \in Openable \union {BATCH}
  BY <1>3, <1>4, <1>5, FixTypes DEF LookInv
<1>7. s[Len(s)].ctx \in Openable
  BY <1>2, <1>4, <1>5
<1>8. Place(s, 0)
  BY DEF s, e
<1> QED
  BY <1>2, <1>6, <1>7, <1>8, PlaceFound

LEMMA EnteredFound ==
  ASSUME FixInv, FoundInv, Bare(msg), EnterMessage \/ EnterBlock PROVE FoundInv'
<1>1. Looking /\ pc = "look"
  BY DEF EnterMessage, EnterBlock, Looking
<1>2. i \in DOMAIN flds /\ Field(flds[i])
  BY <1>1, FixTypes DEF FoundInv, Looking
<1>3. CASE EnterMessage
  <2>1. Tag = MSG_TYPE /\ Place(Append(stk, Entry(Mtyp(flds[i]), i)), 0)
    BY <1>3 DEF EnterMessage
  <2>2. Mtyp(flds[i]) \in Openable
    BY <1>2, <2>1 DEF Field, Tag
  <2> QED
    BY <1>1, <2>1, <2>2, EnterFound
<1>4. CASE EnterBlock
  <2> DEFINE c == IF Orb(Anc) = UNK THEN Anc ELSE Orb(Anc)
  <2>1. Anc # UNK /\ Place(Append(stk, Entry(c, i)), 0)
    BY <1>4 DEF EnterBlock
  <2>2. Tag \in Tags
    BY <1>2 DEF Field, Tag
  <2>3. Anc \in FldCtx[Tag]
    BY <2>1, <2>2, AncestHasPlace DEF Anc
  <2>4. c \in Openable
    BY <2>2, <2>3, PlacesAreOpenable
  <2> HIDE DEF c
  <2> QED
    BY <1>1, <2>1, <2>4, EnterFound
<1> QED
  BY <1>3, <1>4

(* No field but the first may stay without a context: a context that is    *)
(* left, or a field passed over, is not the first field's.                 *)
LEMMA LeaveFound ==
  ASSUME FixInv, FoundInv, Bare(msg), Leave PROVE FoundInv'
<1> DEFINE s == SubSeq(stk, 1, Len(stk) - 1)
<1>1. /\ pc = "look" /\ Len(stk) > 1
      /\ stk' = s /\ streak' = 0 /\ last' = last /\ msg' = msg
      /\ flds' = flds /\ pc' = pc /\ i' = i /\ oos' = oos
  BY DEF Leave, Looking
<1>2. \A n \in DOMAIN s : n \in DOMAIN stk /\ s[n] = stk[n]
  BY <1>1, Popped
<1> HIDE DEF s
<1>3. /\ LookInv /\ \A n \in DOMAIN flds : Field(flds[n])
      /\ (flds # <<>> => Takes(F35, flds[1])) /\ ~Contexted(msg)
  BY <1>1 DEF FoundInv
<1>4. i # 1
  <2>1. Len(<<Entry(F35, 1)>>) = 1
    BY OnlyEntry
  <2>2. i = 1 => Len(stk) = 1
    BY <1>3, <2>1 DEF LookInv
  <2>3. Len(stk) # 1
    BY <1>1, FixTypes
  <2> QED
    BY <2>2, <2>3
<1>5. LookInv'
  <2>1. \A n \in DOMAIN stk' : stk'[n].ctx \in Openable \union {BATCH}
    BY <1>1, <1>2, <1>3 DEF LookInv
  <2> QED
    BY <1>1, <1>3, <1>4, <2>1 DEF LookInv, Untouched, F35
<1>6. pc' = "look" /\ ~Contexted(msg)' /\ (flds # <<>> => Takes(F35, flds[1]))'
  BY <1>1, <1>3 DEF F35, Takes
<1>7. \A n \in DOMAIN flds' : Field(flds'[n])
  BY <1>1, <1>3
<1> QED
  BY <1>5, <1>6, <1>7 DEF FoundInv

LEMMA PassFound ==
  ASSUME FixInv, FoundInv, Bare(msg), Pass PROVE FoundInv'
<1>1. /\ pc = "look" /\ i <= Len(flds) /\ ~HasPlace /\ Tag # MSG_TYPE /\ Anc = UNK
      /\ stk' = <<Entry(F35, 1)>> /\ streak' = 0 /\ oos' = TRUE /\ i' = i + 1
      /\ flds' = flds /\ pc' = pc /\ last' = last /\ msg' = msg
  BY DEF Pass, Looking
<1>2. /\ LookInv /\ \A n \in DOMAIN flds : Field(flds[n])
      /\ (flds # <<>> => Takes(F35, flds[1])) /\ ~Contexted(msg)
  BY <1>1 DEF FoundInv
<1>3. i \in DOMAIN flds /\ i \in Nat \ {0} /\ DOMAIN flds \subseteq Nat /\ flds # <<>>
  <2>1. flds \in Seq(Range(flds)) /\ i \in 1..Len(flds)
    BY <1>1, FixTypes
  <2> QED
    BY <2>1, FixTypes, EmptySeq
<1>4. i # 1
  <2> SUFFICES ASSUME i = 1 PROVE FALSE
    OBVIOUS
  <2>1. stk = <<Entry(F35, 1)>> /\ F35 \notin Udef
    BY <1>2 DEF LookInv
  <2> DEFINE e == Entry(F35, 1)
  <2>2. e.ctx = F35
    BY DEF Entry
  <2> HIDE DEF e
  <2>3. stk[Len(stk)] = e
    BY <2>1 DEF e
  <2>4. Top.ctx = F35
    BY <2>2, <2>3 DEF Top
  <2> QED
    BY <1>1, <1>2, <1>3, <2>1, <2>4 DEF Takes, HasPlace, Anc, Tag
<1>5. LookInv'
  <2>1. /\ i' # 1 /\ i' > 1 /\ i > 1
        /\ \A n \in Nat : (n >= i' => n >= i) /\ (n < i' => n < i \/ n = i)
    BY <1>1, <1>3, <1>4
  <2>2. \A n \in DOMAIN stk' : stk'[n].ctx = F35
    <3> DEFINE e == Entry(F35, 1)
    <3>1. e.ctx = F35
      BY DEF Entry
    <3> HIDE DEF e
    <3>2. stk' = <<e>>
      BY <1>1 DEF e
    <3> QED
      BY <3>1, <3>2
  <2>3. \A n \in DOMAIN flds : n >= i' => Untouched(flds[n])
    BY <1>2, <1>3, <2>1 DEF LookInv
  <2>4. \A n \in DOMAIN flds : n < i' => flds[n].tpc \in Openable \/ Untouched(flds[n])
    <3>1. i >= i /\ Untouched(flds[i])
      BY <1>2, <1>3 DEF LookInv
    <3> QED
      BY <1>2, <1>3, <2>1, <3>1 DEF LookInv
  <2> QED
    BY <1>1, <1>2, <2>1, <2>2, <2>3, <2>4 DEF LookInv, Untouched, F35, Bare
<1>6. pc' = "look" /\ ~Contexted(msg)' /\ (flds # <<>> => Takes(F35, flds[1]))'
  BY <1>1, <1>2 DEF F35, Takes
<1>7. \A n \in DOMAIN flds' : Field(flds'[n])
  BY <1>1, <1>2
<1> QED
  BY <1>5, <1>6, <1>7 DEF FoundInv

(* A message is handed in, and what is done with it is decided. *)
LEMMA TakeFound ==
  ASSUME FixInv, FoundInv, NEW mine \in Messages, Take(mine) PROVE FoundInv'
<1>1. /\ pc = "idle" /\ msg' = mine /\ flds' = mine.flds /\ pc' = "start"
      /\ streak' = streak /\ oos' = oos /\ last' = last
  BY DEF Take
<1>2. streak = 0 /\ oos = FALSE /\ last = UNK
  BY <1>1 DEF FoundInv
<1>3. flds' = msg'.flds
  BY <1>1
<1>4. ASSUME Bare(mine)
      PROVE  /\ \A n \in DOMAIN flds' : Field(flds'[n]) /\ Untouched(flds'[n])
             /\ (flds # <<>> => Takes(F35, flds[1]))'
  BY <1>1, <1>4 DEF Bare, F35, Takes
<1> QED
  BY <1>1, <1>2, <1>3, <1>4 DEF FoundInv

LEMMA StartFound ==
  ASSUME FixInv, FoundInv, StartUser \/ StartFixup \/ NoFixup PROVE FoundInv'
<1>1. /\ pc = "start" /\ i = 1 /\ i' = i /\ msg' = msg /\ flds = msg.flds
      /\ streak' = streak /\ oos' = oos /\ last' = last
  BY DEF FoundInv, FixInv, StartUser, StartFixup, NoFixup
<1>2. streak = 0 /\ oos = FALSE /\ last = UNK
  BY <1>1 DEF FoundInv
<1>3. CASE Contexted(msg)
  <2>1. ~NeedsFixup
    BY <1>1, <1>3 DEF NeedsFixup, Contexted
  <2>2. flds' = flds /\ pc' = "fixed"
    BY <2>1 DEF StartUser, StartFixup, NoFixup
  <2>3. Bare(msg) => flds = <<>>
    <3> SUFFICES ASSUME Bare(msg), flds # <<>> PROVE FALSE
      OBVIOUS
    <3>1. 1 \in DOMAIN flds
      BY FixTypes, EmptySeq
    <3> QED
      BY <1>1, <1>3, <3>1 DEF Bare, Contexted, Untouched
  <2>4. DOMAIN <<>> = {}
    OBVIOUS
  <2> QED
    BY <1>1, <2>2, <2>3, <2>4 DEF FoundInv
<1>4. CASE ~Contexted(msg) /\ ~Bare(msg)
  <2>1. pc' \notin {"idle", "start"}
    BY DEF StartUser, StartFixup, NoFixup
  <2> QED
    BY <1>1, <1>4, <2>1 DEF FoundInv, Contexted, Bare
<1>5. CASE ~Contexted(msg) /\ Bare(msg)
  <2>1. /\ \A n \in DOMAIN flds : Field(flds[n]) /\ Untouched(flds[n])
        /\ flds # <<>> => Takes(F35, flds[1])
    BY <1>1, <1>5 DEF FoundInv
  <2>2. DOMAIN flds = 1..Len(flds) /\ Len(flds) \in Nat /\ (flds # <<>> => 1 \in DOMAIN flds)
    BY FixTypes, EmptySeq
  <2>3. F35 \in Openable \union {BATCH} /\ (F35 \in Udef => F35 \in Openable)
    BY <1>5 DEF Bare, F35
  <2>4. F35' = F35 /\ ~Contexted(msg)'
    BY <1>1, <1>5 DEF F35
  <2>5. CASE StartUser
    <3>1. /\ flds' = [n \in DOMAIN flds |-> WithContext(flds, n, F35, (n - 1) % CntSize)[n]]
          /\ pc' = "fixed" /\ F35 \in Openable
      BY <2>3, <2>5 DEF StartUser, WithContext
    <3>2. \A n \in DOMAIN flds : LET r == WithContext(flds, n, F35, (n - 1) % CntSize)[n]
                                 IN  Field(r) /\ r.tpc = F35 /\ r.tag = flds[n].tag
      BY <2>1, <2>2, FieldSet, FixTypes
    <3>3. /\ DOMAIN flds' = DOMAIN flds
          /\ \A n \in DOMAIN flds' : /\ Field(flds'[n]) /\ flds'[n].tpc \in Openable
                                     /\ flds'[n].tag = flds[n].tag
      BY <3>1, <3>2
    <3>4. Takes(F35, flds[1])'
      BY <2>4, <2>5 DEF StartUser, Takes
    <3> QED
      BY <2>4, <3>1, <3>3, <3>4 DEF FoundInv
  <2>6. CASE StartFixup
    <3>1. flds' = flds /\ pc' = "look" /\ stk' = <<Entry(F35, 1)>> /\ F35 \notin Udef
      BY <2>6 DEF StartFixup
    <3>2. \A n \in DOMAIN stk' : stk'[n].ctx = F35
      <4> DEFINE e == Entry(F35, 1)
      <4>1. e.ctx = F35
        BY DEF Entry
      <4> HIDE DEF e
      <4>2. stk' = <<e>>
        BY <3>1 DEF e
      <4> QED
        BY <4>1, <4>2
    <3>3. \A n \in DOMAIN flds : ~(n < 1)
      BY <2>2
    <3>4. LookInv'
      BY <1>1, <1>2, <2>1, <2>3, <2>4, <3>1, <3>2, <3>3 DEF LookInv, Untouched
    <3>5. (flds # <<>> => Takes(F35, flds[1]))'
      BY <2>1, <2>4, <3>1 DEF Takes
    <3> QED
      BY <1>1, <2>1, <2>4, <3>1, <3>4, <3>5 DEF FoundInv
  <2>7. CASE NoFixup
    <3>1. flds' = flds /\ pc' = "fixed" /\ ~NeedsFixup
      BY <2>7 DEF NoFixup
    <3>2. flds = <<>>
      BY <2>1, <2>2, <3>1 DEF NeedsFixup, Untouched
    <3> QED
      BY <2>4, <3>1, <3>2 DEF FoundInv
  <2> QED
    BY <2>5, <2>6, <2>7
<1> QED
  BY <1>3, <1>4, <1>5

(* When all fields are looked at, the first one has its context, and those *)
(* passed over take that of the field before.                              *)
LEMMA EndFound ==
  ASSUME FixInv, FoundInv, Bare(msg), EndLook \/ EndSome PROVE FoundInv'
<1>1. /\ flds' = flds /\ msg' = msg /\ i > Len(flds) /\ last' = last
      /\ pc \in {"look", "some"} /\ pc' \in {"some", "fixed"}
  BY DEF EndLook, EndSome
<1>2. /\ \A n \in DOMAIN flds : Field(flds[n])
      /\ flds # <<>> => Takes(F35, flds[1])
      /\ ~Contexted(msg)
  BY <1>1 DEF FoundInv
<1>3. \A n \in DOMAIN flds : n < i /\ ~(n >= i)
  BY <1>1, FixTypes
<1>4. /\ pc' = "some" => SomeInv'
      /\ pc' = "fixed" => \A n \in DOMAIN flds : flds[n].tpc \in Openable
  <2>1. CASE EndLook
    <3>1. pc = "look" /\ LookInv /\ pc' = IF oos THEN "some" ELSE "fixed"
      BY <2>1 DEF EndLook, FoundInv
    <3>2. CASE oos
      <4>1. pc' = "some" /\ i' = 1 /\ last' = UNK
        BY <2>1, <3>1, <3>2 DEF EndLook, LookInv
      <4>2. 1 \in DOMAIN flds => i > 1
        BY <1>3
      <4>3. 1 \in DOMAIN flds => flds[1].tpc \in Openable /\ flds[1].cnt = 0
        BY <3>1, <4>2 DEF LookInv
      <4>4. \A n \in DOMAIN flds : n >= 1
        BY FixTypes
      <4>5. \A n \in DOMAIN flds : flds[n].tpc \in Openable \/ Untouched(flds[n])
        BY <1>3, <3>1 DEF LookInv
      <4> QED
        BY <1>1, <4>1, <4>3, <4>4, <4>5 DEF SomeInv, Untouched
    <3>3. CASE ~oos
      BY <1>3, <3>1, <3>3 DEF LookInv
    <3> QED
      BY <3>2, <3>3
  <2>2. CASE EndSome
    <3>1. pc = "some" /\ SomeInv /\ pc' = "fixed"
      BY <2>2 DEF EndSome, FoundInv
    <3> QED
      BY <1>3, <3>1 DEF SomeInv
  <2> QED
    BY <2>1, <2>2
<1>5. pc' \in {"some", "fixed"} /\ ~Contexted(msg)' /\ (flds # <<>> => Takes(F35, flds[1]))'
  BY <1>1, <1>2 DEF F35, Takes
<1> QED
  BY <1>1, <1>2, <1>4, <1>5 DEF FoundInv

LEMMA SomeFound ==
  ASSUME FixInv, FoundInv, Bare(msg), Some PROVE FoundInv'
<1>1. pc = "some" /\ pc' = pc /\ i <= Len(flds) /\ i' = i + 1 /\ msg' = msg
  BY DEF Some
<1>2. /\ \A n \in DOMAIN flds : Field(flds[n])
      /\ flds # <<>> => Takes(F35, flds[1])
      /\ SomeInv /\ ~Contexted(msg)
  BY <1>1 DEF FoundInv
<1>3. /\ i \in DOMAIN flds /\ i \in Nat \ {0} /\ DOMAIN flds = 1..Len(flds) /\ Len(flds) \in Nat
      /\ flds # <<>> /\ flds = [j \in DOMAIN flds |-> flds[j]]
  <2>1. flds \in Seq(Range(flds)) /\ i \in 1..Len(flds)
    BY <1>1, FixTypes
  <2> QED
    BY <2>1, FixTypes, EmptySeq
<1>4. UNK \notin Openable
  BY DEF Openable
<1>5. i' # 1 /\ i' > 1 /\ \A n \in Nat : n >= i /\ n # i => n >= i'
  BY <1>1, <1>3
<1>6. (i = 1 => last = UNK) /\ (i # 1 => last \in Openable)
      /\ (i = 1 => flds[1].tpc \in Openable /\ flds[1].cnt = 0)
  <2>1. i # 1 => i > 1
    BY <1>3
  <2> QED
    BY <1>2, <1>3, <2>1 DEF SomeInv
<1>7. flds[i].tpc \in Openable \/ Untouched(flds[i])
  BY <1>2, <1>3 DEF SomeInv
<1>8. /\ DOMAIN flds' = DOMAIN flds
      /\ \A n \in DOMAIN flds : /\ Field(flds'[n]) /\ flds'[n].tag = flds[n].tag
                                /\ n # i => flds'[n] = flds[n]
      /\ flds'[i].tpc \in Openable /\ last' \in Openable
  <2>1. CASE flds[i].cnt = 0 /\ flds[i].tpc \in {UNK, last}
    <3>1. flds' = WithContext(flds, i, last, streak % CntSize) /\ last' = last
      BY <2>1 DEF Some, WithContext
    <3>2. last \in Openable
      BY <1>4, <1>6, <2>1
    <3> QED
      BY <1>2, <1>3, <3>1, <3>2, FieldSet
  <2>2. CASE flds[i].cnt = 0 /\ flds[i].tpc \notin {UNK, last}
    <3>1. flds' = flds /\ last' = flds[i].tpc
      BY <2>2 DEF Some
    <3> QED
      BY <1>2, <1>3, <1>7, <2>2, <3>1 DEF Untouched
  <2>3. CASE flds[i].cnt # 0
    <3>1. flds' = flds /\ last' = last
      BY <2>3 DEF Some
    <3> QED
      BY <1>2, <1>3, <1>6, <1>7, <2>3, <3>1 DEF Untouched
  <2> QED
    BY <2>1, <2>2, <2>3
<1>9. SomeInv'
  <2>1. ASSUME NEW n \in DOMAIN flds'
        PROVE  flds'[n].tpc \in Openable \/ (n >= i' /\ Untouched(flds'[n]))
    BY <1>2, <1>3, <1>5, <1>8 DEF SomeInv
  <2> QED
    BY <1>5, <1>8, <2>1 DEF SomeInv, Untouched
<1>10. pc' = "some" /\ ~Contexted(msg)' /\ (flds # <<>> => Takes(F35, flds[1]))'
  <2>1. flds'[1].tag = flds[1].tag
    BY <1>3, <1>8
  <2> QED
    BY <1>1, <1>2, <1>3, <2>1 DEF F35, Takes
<1>11. \A n \in DOMAIN flds' : Field(flds'[n])
  BY <1>8
<1> QED
  BY <1>9, <1>10, <1>11 DEF FoundInv

(* All steps of fixup and writer. *)
LEMMA NextFound ==
  ASSUME IInv, FoundInv, [Next]_vars PROVE FoundInv'
<1>0. FixInv
  BY DEF IInv
<1>1. CASE UNCHANGED fixvars
  <2>1. /\ msg' = msg /\ flds' = flds /\ pc' = pc /\ i' = i /\ stk' = stk /\ streak' = streak
        /\ oos' = oos /\ last' = last
    BY <1>1 DEF fixvars
  <2>2. F35' = F35 /\ LookInv' = LookInv /\ SomeInv' = SomeInv
    BY <2>1 DEF F35, LookInv, SomeInv, Untouched
  <2> QED
    BY <2>1, <2>2 DEF FoundInv, Takes
<1>2. CASE FixNext
  <2>1. CASE \E mine \in Messages : Take(mine)
    BY <1>0, <2>1, TakeFound
  <2>2. CASE StartUser \/ StartFixup \/ NoFixup
    BY <1>0, <2>2, StartFound
  <2>3. CASE Look \/ EndLook \/ Some \/ EndSome
    <3>1. pc \in {"look", "some"} /\ pc' \in {"look", "some", "fixed"} /\ msg' = msg
      BY <2>3 DEF Look, Stay, EnterMessage, EnterBlock, Leave, Pass, Looking, Place, EndLook, Some,
                  EndSome
    <3>2. CASE Bare(msg)
      BY <1>0, <2>3, <3>2, StayFound, EnteredFound, LeaveFound, PassFound, EndFound, SomeFound
         DEF Look
    <3>3. CASE ~Bare(msg)
      <4>1. ~Contexted(msg)
        BY <3>1 DEF FoundInv
      <4> QED
        BY <3>1, <3>3, <4>1 DEF FoundInv
    <3> QED
      BY <3>2, <3>3
  <2> QED
    BY <1>2, <2>1, <2>2, <2>3 DEF FixNext
<1> QED
  BY <1>1, <1>2 DEF Next, vars, fixvars

(* The fixup's invariant holds, whatever the message.                      *)
LEMMA FoundHolds == Spec => []FoundInv
<1>1. Init => FoundInv
  <2> SUFFICES ASSUME Init PROVE FoundInv
    OBVIOUS
  <2>1. /\ msg = NoMsg /\ flds = <<>> /\ pc = "idle" /\ streak = 0 /\ oos = FALSE /\ last = UNK
    BY DEF Init, FixInit
  <2>2. msg.flds = <<>>
    BY <2>1 DEF NoMsg
  <2> QED
    BY <2>1, <2>2 DEF FoundInv
<1>2. IInv /\ FoundInv /\ [Next]_vars => FoundInv'
  BY NextFound
<1> QED
  BY <1>1, <1>2, Invariant, PTL DEF Spec

(* The messages fixc_render_fixml can be given. *)
Renderable == Bare(msg) \/ Contexted(msg)

(* fixc_fixup leaves no field without a context, nor any in a block that   *)
(* is optimised to another, if the message's first field is its type's:    *)
(* contexts that are entered have elements of their own, and a field that  *)
(* has been passed over takes the context of the one before.               *)
THEOREM ContextsFound == Spec => [](Renderable => Known)
<1>1. ASSUME IInv, FoundInv, Renderable PROVE Known
  <2> SUFFICES ASSUME wpc # "wait" PROVE Known
    BY DEF Known
  <2>1. pc = "fixed"
    BY <1>1 DEF IInv, AtField
  <2>2. CASE Contexted(msg)
    <3>1. flds = msg.flds
      BY <1>1, <2>2 DEF FoundInv
    <3> QED
      BY <2>2, <3>1 DEF Contexted, Known
  <2>3. CASE Bare(msg)
    <3>1. \A n \in DOMAIN flds : flds[n].tpc \in Openable
      BY <1>1, <2>1, <2>3 DEF FoundInv
    <3> QED
      BY <3>1 DEF Openable, Known
  <2> QED
    BY <1>1, <2>2, <2>3 DEF Renderable
<1>2. IInv /\ FoundInv => (Renderable => Known)
  BY <1>1
<1> QED
  BY <1>2, Invariant, FoundHolds, PTL

(* So of all these messages the text, if it is legible, is well-formed and *)
(* has each field in its context; and whether it is or not, no NULL is     *)
(* followed while there are fewer than CntSize elements.                   *)
THEOREM RenderableIsRendered ==
  Spec => [](Renderable => Known /\ WellFormed /\ InContext /\ (Few(w) => NoFault))
  BY ContextsFound, TextIsWellFormed, NoNullFollowed, FieldsInContext, PTL

=============================================================================
