---------------------------- MODULE ReaderProofs ----------------------------
(***************************************************************************)
(* Proofs about FixmlReader: in any document of any schema the contexts it *)
(* keeps are those of the elements that are open, the version is the one   *)
(* the root states, and the attributes become fields.                      *)
(***************************************************************************)
EXTENDS FixmlReader, SizeProofs, SequenceTheorems

-----------------------------------------------------------------------------
(* The document *)

(* Each element is in one that was started before. *)
Tree(d) == Len(d) \in Nat /\ \A i \in 1..Len(d) : d[i].par \in 0..(i - 1)

(* ReadingOf, by its recursion, as far as element n. *)
IsReading(g, d, n) ==
  g = [i \in 0..n |-> IF i = 0 THEN Nowhere ELSE Entered(d[i].elt, g[d[i].par])]

LEMMA ReadingExists ==
  ASSUME NEW d, Tree(d)
  PROVE  \E g : IsReading(g, d, Len(d))
<1> DEFINE S == {k \in Nat : \E g : IsReading(g, d, k)}
           z == Len(d)
<1>0. z \in Nat /\ \A i \in 1..z : d[i].par \in 0..(i - 1)
  BY DEF Tree
<1> HIDE DEF z
<1>1. 0 \in S
  <2> DEFINE g == [i \in 0..0 |-> Nowhere]
  <2>1. \A i \in 0..0 : i = 0
    OBVIOUS
  <2>2. g = [i \in 0..0 |-> IF i = 0 THEN Nowhere ELSE Entered(d[i].elt, g[d[i].par])]
    BY <2>1, Zenon
  <2> QED
    BY <2>2 DEF IsReading
<1>2. ASSUME NEW k \in 0..(z - 1), k \in S PROVE k + 1 \in S
  <2>1. PICK f : IsReading(f, d, k)
    BY <1>2
  <2> DEFINE e == Entered(d[k + 1].elt, f[d[k + 1].par])
             g == [i \in 0..(k + 1) |-> IF i <= k THEN f[i] ELSE e]
  <2>2. ASSUME NEW i \in 0..(k + 1)
        PROVE  g[i] = IF i = 0 THEN Nowhere ELSE Entered(d[i].elt, g[d[i].par])
    <3>0. i # 0 => i \in 1..z /\ d[i].par \in 0..(i - 1)
      BY <1>0, <1>2
    <3>1. CASE i <= k
      <4>1. i \in 0..k /\ (i # 0 => d[i].par \in 0..(k + 1) /\ d[i].par <= k)
        BY <1>2, <3>0, <3>1
      <4>2. f[i] = IF i = 0 THEN Nowhere ELSE Entered(d[i].elt, f[d[i].par])
        BY <2>1, <4>1, Zenon DEF IsReading
      <4>3. g[i] = f[i] /\ (i # 0 => g[d[i].par] = f[d[i].par])
        BY <3>1, <4>1
      <4> HIDE DEF g
      <4> QED
        BY <4>2, <4>3, Zenon
    <3>2. CASE i = k + 1
      <4>1. ~(i <= k) /\ i # 0 /\ d[i].par \in 0..(k + 1) /\ d[i].par <= k
        BY <1>2, <3>0, <3>2
      <4>2. g[i] = e /\ g[d[i].par] = f[d[i].par]
        BY <4>1
      <4> HIDE DEF g
      <4> QED
        BY <3>2, <4>1, <4>2, Zenon
    <3> QED
      BY <1>2, <3>1, <3>2
  <2>3. g = [i \in 0..(k + 1) |-> g[i]]
    BY Zenon
  <2> HIDE DEF g
  <2>4. g = [i \in 0..(k + 1) |-> IF i = 0 THEN Nowhere ELSE Entered(d[i].elt, g[d[i].par])]
    BY <2>2, <2>3, Zenon
  <2>5. IsReading(g, d, k + 1)
    BY <2>4, Zenon DEF IsReading
  <2>6. k + 1 \in Nat
    BY <1>2
  <2> QED
    BY <2>5, <2>6, Zenon
<1> HIDE DEF S
<1>3. z \in S
  <2>1. \A k \in 0..z : k \in S
    BY <1>0, <1>1, <1>2, UpTo
  <2> QED
    BY <1>0, <2>1
<1> QED
  BY <1>3 DEF S, z

LEMMA ReadingSteps ==
  ASSUME NEW d, Tree(d)
  PROVE  LET r == ReadingOf(d)
         IN  /\ r[0] = Nowhere
             /\ \A i \in 1..Len(d) : r[i] = Entered(d[i].elt, r[d[i].par])
<1> DEFINE r == ReadingOf(d)
<1>1. IsReading(r, d, Len(d))
  <2>1. \E g : IsReading(g, d, Len(d))
    BY ReadingExists
  <2>2. r = CHOOSE g : IsReading(g, d, Len(d))
    BY Zenon DEF ReadingOf, IsReading
  <2> HIDE DEF r
  <2> QED
    BY <2>1, <2>2
<1> HIDE DEF r
<1>2. 0 \in 0..Len(d) /\ \A i \in 1..Len(d) : i \in 0..Len(d) /\ i # 0
  BY DEF Tree
<1>3. \A i \in 0..Len(d) : r[i] = IF i = 0 THEN Nowhere ELSE Entered(d[i].elt, r[d[i].par])
  BY <1>1, Zenon DEF IsReading
<1>4. r[0] = Nowhere /\ \A i \in 1..Len(d) : r[i] = Entered(d[i].elt, r[d[i].par])
  BY <1>2, <1>3, Zenon
<1> QED
  BY <1>4 DEF r

(* What is read of an element does not depend on what comes after it. *)
LEMMA ReadingGrows ==
  ASSUME NEW d, NEW b, Tree(d), Tree(b), Len(d) <= Len(b), \A i \in 1..Len(d) : b[i] = d[i]
  PROVE  \A i \in 0..Len(d) : ReadingOf(b)[i] = ReadingOf(d)[i]
<1> DEFINE r == ReadingOf(d)
           q == ReadingOf(b)
           z == Len(d)
           S == {k \in Nat : \A i \in 0..k : i <= z => q[i] = r[i]}
<1>1. /\ r[0] = Nowhere
      /\ \A i \in 1..z : r[i] = Entered(d[i].elt, r[d[i].par])
  BY ReadingSteps
<1>2. /\ q[0] = Nowhere
      /\ \A i \in 1..Len(b) : q[i] = Entered(b[i].elt, q[b[i].par])
  BY ReadingSteps
<1>3. /\ z \in Nat /\ \A i \in 1..z : i \in 1..Len(b) /\ b[i] = d[i] /\ d[i].par \in 0..(i - 1)
  BY DEF Tree
<1> HIDE DEF r, q, z
<1>4. 0 \in S
  BY <1>1, <1>2
<1>5. ASSUME NEW k \in 0..(z - 1), k \in S PROVE k + 1 \in S
  <2>1. k + 1 \in 1..z /\ k + 1 \in Nat /\ k \in Nat
    BY <1>3, <1>5
  <2>2. d[k + 1].par \in 0..k /\ d[k + 1].par <= z
    BY <1>3, <1>5, <2>1
  <2>3. q[d[k + 1].par] = r[d[k + 1].par]
    BY <1>5, <2>2
  <2>4. q[k + 1] = r[k + 1]
    BY <1>1, <1>2, <1>3, <2>1, <2>3
  <2>5. \A i \in 0..(k + 1) : i \in 0..k \/ i = k + 1
    BY <2>1
  <2> QED
    BY <1>5, <2>1, <2>4, <2>5
<1> HIDE DEF S
<1>6. z \in S
  <2>1. \A k \in 0..z : k \in S
    BY <1>3, <1>4, <1>5, UpTo
  <2> QED
    BY <1>3, <2>1
<1>7. \A i \in 0..z : i <= z
  BY <1>3
<1> QED
  BY <1>6, <1>7 DEF S, r, q, z

-----------------------------------------------------------------------------
(* Paths *)

IsSeq(s) == s \in Seq(Range(s))

(* The contexts of the records of s are those of path p. *)
OnPath(s, p) == IsSeq(s) /\ [n \in DOMAIN s |-> s[n].otag] = p

LEMMA PathTypes ==
  ASSUME NEW s, NEW p, OnPath(s, p)
  PROVE  /\ Len(s) \in Nat /\ DOMAIN s = 1..Len(s)
         /\ IsSeq(p) /\ Len(p) = Len(s) /\ \A n \in 1..Len(s) : p[n] = s[n].otag
         /\ s = <<>> <=> p = <<>>
         /\ s # <<>> => 1 \in 1..Len(s)
<1>1. s \in Seq(Range(s)) /\ p = [n \in DOMAIN s |-> s[n].otag]
  BY DEF OnPath, IsSeq
<1>2. Len(s) \in Nat /\ DOMAIN s = 1..Len(s)
  BY <1>1, LenProperties
<1>3. p = [n \in 1..Len(s) |-> s[n].otag]
  BY <1>1, <1>2
<1>4. p \in [1..Len(s) -> Range(p)]
  BY <1>3 DEF Range
<1>5. p \in Seq(Range(p)) /\ Len(p) = Len(s)
  <2>1. p \in Seq(Range(p))
    BY <1>2, <1>4, SeqDef
  <2>2. DOMAIN p = 1..Len(p) /\ DOMAIN p = 1..Len(s) /\ Len(p) \in Nat
    BY <1>4, <2>1, LenProperties
  <2>3. \A m, n \in Nat : 1..m = 1..n => m = n
    OBVIOUS
  <2>4. Len(p) = Len(s)
    BY <1>2, <2>2, <2>3
  <2> QED
    BY <2>1, <2>4
<1>6. (s = <<>> <=> Len(s) = 0) /\ (p = <<>> <=> Len(p) = 0)
  BY <1>1, <1>5, EmptySeq
<1> QED
  BY <1>2, <1>3, <1>5, <1>6 DEF IsSeq

(* One more is pushed. *)
Pushed(r, s) == <<r>> \o s

LEMMA PushedSeq ==
  ASSUME NEW s, NEW r, IsSeq(s)
  PROVE  /\ IsSeq(Pushed(r, s)) /\ Pushed(r, s) # <<>>
         /\ Len(s) \in Nat /\ Len(Pushed(r, s)) = Len(s) + 1
         /\ Pushed(r, s)[1] = r /\ Head(Pushed(r, s)) = r /\ Tail(Pushed(r, s)) = s
         /\ \A n \in 1..Len(s) : Pushed(r, s)[n + 1] = s[n]
<1> DEFINE S == Range(s) \union {r}
           t == Pushed(r, s)
<1>1. s \in Seq(S) /\ <<r>> \in Seq(S) /\ Len(<<r>>) = 1 /\ <<r>>[1] = r /\ Len(s) \in Nat
  <2>1. r \in S /\ s \in Seq(Range(s))
    BY DEF IsSeq
  <2> QED
    BY <2>1, SeqMonotonic
<1> HIDE DEF S
<1>2. /\ t \in Seq(S) /\ Len(t) = 1 + Len(s) /\ t[1] = r
      /\ \A n \in 1..Len(s) : t[n + 1] = s[n]
  BY <1>1, ConcatProperties DEF Pushed
<1> HIDE DEF t
<1>3. t # <<>> /\ IsSeq(t)
  BY <1>1, <1>2, EmptySeq, SeqOfRange DEF IsSeq
<1>4. /\ Head(t) = t[1] /\ Tail(t) \in Seq(S) /\ Len(Tail(t)) = Len(t) - 1
      /\ \A n \in 1..Len(Tail(t)) : Tail(t)[n] = t[n + 1]
  BY <1>2, <1>3, HeadTailProperties
<1>5. Tail(t) = s
  BY <1>1, <1>2, <1>4, SeqEqual
<1> QED
  BY <1>1, <1>2, <1>3, <1>4, <1>5 DEF t

LEMMA PathPush ==
  ASSUME NEW s, NEW p, OnPath(s, p), NEW r
  PROVE  OnPath(Pushed(r, s), Pushed(r.otag, p))
<1> DEFINE t == Pushed(r, s)
           q == Pushed(r.otag, p)
<1>1. IsSeq(s) /\ IsSeq(p) /\ Len(s) \in Nat /\ Len(p) = Len(s) /\ \A n \in 1..Len(s) : p[n] = s[n].otag
  BY PathTypes DEF OnPath
<1>2. /\ IsSeq(t) /\ Len(t) = Len(s) + 1 /\ t[1] = r /\ \A n \in 1..Len(s) : t[n + 1] = s[n]
      /\ IsSeq(q) /\ Len(q) = Len(s) + 1 /\ q[1] = r.otag /\ \A n \in 1..Len(s) : q[n + 1] = p[n]
  <2>1. /\ IsSeq(t) /\ Len(t) = Len(s) + 1 /\ t[1] = r /\ \A n \in 1..Len(s) : t[n + 1] = s[n]
    BY <1>1, PushedSeq
  <2>2. /\ IsSeq(q) /\ Len(q) = Len(p) + 1 /\ q[1] = r.otag /\ \A n \in 1..Len(p) : q[n + 1] = p[n]
    BY <1>1, PushedSeq
  <2> HIDE DEF t, q
  <2> QED
    BY <1>1, <2>1, <2>2
<1> HIDE DEF t, q
<1>3. t \in Seq(Range(t)) /\ q \in Seq(Range(q))
  BY <1>2 DEF IsSeq
<1>4. DOMAIN t = 1..(Len(s) + 1) /\ DOMAIN q = 1..(Len(s) + 1) /\ q = [n \in DOMAIN q |-> q[n]]
  BY <1>2, <1>3, LenProperties
<1>5. \A n \in 1..(Len(s) + 1) : q[n] = t[n].otag
  <2> TAKE n \in 1..(Len(s) + 1)
  <2>1. CASE n = 1
    BY <1>2, <2>1
  <2>2. CASE n # 1
    <3>1. n - 1 \in 1..Len(s) /\ (n - 1) + 1 = n
      BY <1>1, <2>2
    <3>2. q[n] = p[n - 1] /\ t[n] = s[n - 1]
      BY <1>2, <3>1
    <3> QED
      BY <1>1, <3>1, <3>2
  <2> QED
    BY <2>1, <2>2
<1>6. [n \in DOMAIN t |-> t[n].otag] = q
  BY <1>4, <1>5
<1> QED
  BY <1>2, <1>6 DEF OnPath, t, q

(* The innermost record, and those around it. *)
LEMMA PathTop ==
  ASSUME NEW s, NEW x, NEW p, IsSeq(p), OnPath(s, Pushed(x, p))
  PROVE  /\ s # <<>> /\ s[1].otag = x /\ Len(s) = Len(p) + 1 /\ Len(p) \in Nat
         /\ OnPath(Tail(s), p)
         /\ \A n \in 1..Len(p) : s[n + 1].otag = p[n]
<1> DEFINE q == Pushed(x, p)
<1>1. /\ IsSeq(q) /\ q # <<>> /\ Len(q) = Len(p) + 1 /\ q[1] = x
      /\ \A n \in 1..Len(p) : q[n + 1] = p[n]
  BY PushedSeq
<1> HIDE DEF q
<1>2. OnPath(s, q)
  BY DEF q
<1>3. /\ IsSeq(s) /\ Len(s) = Len(q) /\ DOMAIN s = 1..Len(s) /\ Len(s) \in Nat
      /\ \A n \in 1..Len(s) : q[n] = s[n].otag
      /\ s # <<>>
  BY <1>1, <1>2, PathTypes DEF OnPath
<1>4. p \in Seq(Range(p)) /\ Len(p) \in Nat /\ DOMAIN p = 1..Len(p) /\ s \in Seq(Range(s))
  BY <1>3, LenProperties DEF IsSeq
<1>5. 1 \in 1..Len(s) /\ \A n \in 1..Len(p) : n + 1 \in 1..Len(s)
  BY <1>1, <1>3, <1>4
<1>6. s[1].otag = x /\ \A n \in 1..Len(p) : s[n + 1].otag = p[n]
  BY <1>1, <1>3, <1>5
<1> DEFINE t == Tail(s)
<1>7. /\ t \in Seq(Range(s)) /\ Len(t) = Len(s) - 1 /\ \A n \in 1..Len(t) : t[n] = s[n + 1]
  BY <1>3, <1>4, HeadTailProperties
<1> HIDE DEF t
<1>8. IsSeq(t) /\ DOMAIN t = 1..Len(p)
  <2>1. Len(t) = Len(p)
    BY <1>1, <1>3, <1>4, <1>7
  <2> QED
    BY <1>7, <2>1, SeqOfRange, LenProperties DEF IsSeq
<1>9. \A n \in 1..Len(p) : t[n].otag = p[n]
  BY <1>1, <1>3, <1>4, <1>6, <1>7
<1>10. [n \in DOMAIN t |-> t[n].otag] = p
  BY <1>4, <1>8, <1>9
<1> QED
  BY <1>1, <1>3, <1>4, <1>6, <1>8, <1>10 DEF OnPath, t

(* The innermost record is replaced. *)
LEMMA PathTurned ==
  ASSUME NEW s, NEW x, NEW p, IsSeq(p), OnPath(s, Pushed(x, p)), NEW r
  PROVE  OnPath([s EXCEPT ![1] = r], Pushed(r.otag, p))
<1> DEFINE t == [s EXCEPT ![1] = r]
           u == Pushed(r, Tail(s))
<1>1. /\ s # <<>> /\ Len(s) = Len(p) + 1 /\ Len(p) \in Nat /\ OnPath(Tail(s), p)
      /\ IsSeq(s) /\ IsSeq(Tail(s))
  BY PathTop DEF OnPath
<1>2. OnPath(u, Pushed(r.otag, p))
  BY <1>1, PathPush
<1>3. s \in Seq(Range(s)) /\ Len(s) \in Nat /\ DOMAIN s = 1..Len(s)
  BY <1>1, LenProperties DEF IsSeq
<1>4. /\ Tail(s) \in Seq(Range(s)) /\ Len(Tail(s)) = Len(s) - 1
      /\ \A n \in 1..Len(Tail(s)) : Tail(s)[n] = s[n + 1]
  BY <1>1, <1>3, HeadTailProperties
<1>5. /\ IsSeq(u) /\ Len(u) = Len(Tail(s)) + 1 /\ u[1] = r
      /\ \A n \in 1..Len(Tail(s)) : u[n + 1] = Tail(s)[n]
  <2> DEFINE w == Tail(s)
  <2>1. IsSeq(w) /\ u = Pushed(r, w)
    BY <1>1
  <2> HIDE DEF u, w
  <2>2. IsSeq(u) /\ Len(u) = Len(w) + 1 /\ u[1] = r /\ \A n \in 1..Len(w) : u[n + 1] = w[n]
    BY <2>1, PushedSeq
  <2> QED
    BY <2>2 DEF w
<1> HIDE DEF u
<1>6. DOMAIN u = 1..Len(s) /\ u = [n \in DOMAIN u |-> u[n]]
  <2>1. Len(u) = Len(s) /\ u \in Seq(Range(u))
    BY <1>1, <1>3, <1>4, <1>5 DEF IsSeq
  <2> QED
    BY <2>1, LenProperties
<1>7. \A n \in 1..Len(s) : u[n] = t[n]
  <2> TAKE n \in 1..Len(s)
  <2>1. CASE n = 1
    BY <1>3, <1>5, <2>1
  <2>2. CASE n # 1
    <3>1. n - 1 \in 1..Len(Tail(s)) /\ (n - 1) + 1 = n
      BY <1>3, <1>4, <2>2
    <3>2. u[n] = s[n]
      BY <1>4, <1>5, <3>1
    <3>3. t[n] = s[n]
      BY <1>3, <2>2
    <3> QED
      BY <3>2, <3>3
  <2> QED
    BY <2>1, <2>2
<1>8. t = u
  BY <1>3, <1>6, <1>7
<1> QED
  BY <1>2, <1>8

-----------------------------------------------------------------------------
(* What is read of the elements *)

Outer(p)  == IF p = <<>> THEN UNK ELSE p[1]
Second(p) == IF Len(p) > 1 THEN p[2] ELSE UNK

(* Contents are read in the innermost of the contexts around them. *)
Headed(x) == IsSeq(x.path) /\ x.in = Outer(x.path)

LEMMA EnteredHeaded ==
  ASSUME NEW e, NEW x, Headed(x)
  PROVE  LET y == Entered(e, x)
         IN  /\ Headed(y)
             /\ y.own => y.path = Pushed(y.in, x.path) /\ Second(y.path) = x.in
             /\ ~y.own => y.path = x.path /\ y.in = x.in
<1> DEFINE y == Entered(e, x)
<1>1. IsSeq(x.path) /\ x.in = Outer(x.path)
  BY DEF Headed
<1>2. \/ ~y.own /\ y.path = x.path /\ y.in = x.in
      \/ y.own /\ y.path = Pushed(y.in, x.path)
  BY DEF Entered, Pushed
<1> HIDE DEF y
<1>3. CASE ~y.own /\ y.path = x.path /\ y.in = x.in
  <2>1. Headed(y)
    BY <1>1, <1>3 DEF Headed
  <2> QED
    BY <1>3, <2>1, Zenon DEF y
<1>4. CASE y.own /\ y.path = Pushed(y.in, x.path)
  <2>1. /\ IsSeq(y.path) /\ y.path # <<>> /\ Len(x.path) \in Nat /\ Len(y.path) = Len(x.path) + 1
        /\ y.path[1] = y.in /\ \A n \in 1..Len(x.path) : y.path[n + 1] = x.path[n]
    <3> DEFINE t == Pushed(y.in, x.path)
    <3>1. IsSeq(x.path)
      BY <1>1
    <3>2. /\ IsSeq(t) /\ t # <<>> /\ Len(x.path) \in Nat /\ Len(t) = Len(x.path) + 1
          /\ t[1] = y.in /\ \A n \in 1..Len(x.path) : t[n + 1] = x.path[n]
      BY <3>1, PushedSeq
    <3> HIDE DEF t
    <3>3. y.path = t
      BY <1>4 DEF t
    <3> QED
      BY <3>2, <3>3
  <2>2. x.path = <<>> <=> Len(x.path) = 0
    BY <1>1, EmptySeq DEF IsSeq
  <2>3. Second(y.path) = x.in
    <3>1. CASE x.path = <<>>
      BY <1>1, <2>1, <2>2, <3>1 DEF Outer, Second
    <3>2. CASE x.path # <<>>
      <4>1. 1 \in 1..Len(x.path) /\ 1 + 1 = 2 /\ Len(y.path) > 1
        BY <2>1, <2>2, <3>2
      <4>2. y.path[2] = x.path[1]
        BY <2>1, <4>1
      <4> QED
        BY <1>1, <3>2, <4>1, <4>2 DEF Outer, Second
    <3> QED
      BY <3>1, <3>2
  <2>4. Headed(y)
    BY <2>1 DEF Headed, Outer
  <2> QED
    BY <1>4, <2>3, <2>4, Zenon DEF y
<1> QED
  BY <1>2, <1>3, <1>4

LEMMA ReadingHeaded ==
  ASSUME NEW d, Tree(d)
  PROVE  \A i \in 0..Len(d) : Headed(ReadingOf(d)[i])
<1> DEFINE r == ReadingOf(d)
           z == Len(d)
           S == {k \in Nat : \A i \in 0..k : i <= z => Headed(r[i])}
<1>1. r[0] = Nowhere /\ \A i \in 1..z : r[i] = Entered(d[i].elt, r[d[i].par])
  BY ReadingSteps
<1>2. z \in Nat /\ \A i \in 1..z : d[i].par \in 0..(i - 1)
  BY DEF Tree
<1> HIDE DEF r, z
<1>3. 0 \in S
  <2>1. IsSeq(<<>>)
    BY EmptySeq DEF IsSeq
  <2>2. Headed(Nowhere)
    BY <2>1 DEF Headed, Outer, Nowhere
  <2>3. \A i \in 0..0 : i = 0
    OBVIOUS
  <2> QED
    BY <1>1, <2>2, <2>3
<1>4. ASSUME NEW k \in 0..(z - 1), k \in S PROVE k + 1 \in S
  <2>1. k + 1 \in 1..z /\ k + 1 \in Nat
    BY <1>2, <1>4
  <2>2. d[k + 1].par \in 0..k /\ d[k + 1].par <= z
    BY <1>2, <1>4, <2>1
  <2>3. Headed(r[d[k + 1].par])
    BY <1>4, <2>2
  <2>4. Headed(r[k + 1])
    BY <1>1, <2>1, <2>3, EnteredHeaded
  <2>5. \A i \in 0..(k + 1) : i \in 0..k \/ i = k + 1
    BY <2>1
  <2> QED
    BY <1>4, <2>1, <2>4, <2>5
<1> HIDE DEF S
<1>5. z \in S
  <2>1. \A k \in 0..z : k \in S
    BY <1>2, <1>3, <1>4, UpTo
  <2> QED
    BY <1>2, <2>1
<1>6. \A i \in 0..z : i <= z
  BY <1>2
<1> QED
  BY <1>5, <1>6 DEF S, r, z

-----------------------------------------------------------------------------
(* The context *)

Formed(c) ==
  /\ c = [ns |-> c.ns, nns |-> c.nns, state |-> c.state, pool |-> c.pool,
          flds |-> c.flds, f35 |-> c.f35, ver |-> c.ver, fault |-> c.fault]
  /\ 0 \in DOMAIN c.ns /\ c.ns[0].pref = NULL

Versioned(c) == Formed(c) /\ c.ns[0].nsid \in Known

(* What the handlers keep of a document that uses no prefixes. *)
Along(c, p) == Versioned(c) /\ OnPath(c.state, p)

Kept(c, p) == c.fault # "none" \/ Along(c, p)

(* The stack, the pool and the fields stay what they were. *)
SameStack(c, d) ==
  d.state = c.state /\ d.pool = c.pool /\ d.flds = c.flds /\ d.f35 = c.f35 /\ d.fault = c.fault

LEMMA RegNsKeeps ==
  ASSUME NEW c, NEW href, Formed(c)
  PROVE  LET d == RegNs(c, NULL, href)
         IN  /\ Formed(d) /\ SameStack(c, d)
             /\ Versioned(c) /\ NsId(href) \in Known => Versioned(d)
<1> DEFINE new == [pref |-> NULL, href |-> href, nsid |-> NsId(href)]
           d   == RegNs(c, NULL, href)
<1>1. new.pref = NULL /\ new.nsid = NsId(href) /\ (new.nsid \in Ptx => new.nsid \in Known)
  BY DEF Known
<1> HIDE DEF new
<1>2. \/ d = c
      \/ new.nsid \in Ptx /\ d = [c EXCEPT !.ns = [@ EXCEPT ![c.nns] = c.ns[0], ![0] = new], !.nns = @ + 1]
      \/ new.nsid \in Ptx /\ d = [c EXCEPT !.ns[0] = new]
      \/ d = [c EXCEPT !.ns[c.nns] = new, !.nns = @ + 1]
  BY DEF RegNs, new
<1> HIDE DEF d
<1>3. CASE d = c
  BY <1>3 DEF SameStack, d
<1>4. CASE new.nsid \in Ptx /\ d = [c EXCEPT !.ns = [@ EXCEPT ![c.nns] = c.ns[0], ![0] = new], !.nns = @ + 1]
  <2>1. /\ d = [ns |-> d.ns, nns |-> d.nns, state |-> d.state, pool |-> d.pool,
                flds |-> d.flds, f35 |-> d.f35, ver |-> d.ver, fault |-> d.fault]
        /\ SameStack(c, d)
        /\ d.ns = [c.ns EXCEPT ![c.nns] = c.ns[0], ![0] = new]
    BY <1>4 DEF Formed, SameStack
  <2>2. 0 \in DOMAIN d.ns /\ d.ns[0] = new
    BY <2>1 DEF Formed
  <2> QED
    BY <1>1, <1>4, <2>1, <2>2 DEF Formed, Versioned, d
<1>5. CASE new.nsid \in Ptx /\ d = [c EXCEPT !.ns[0] = new]
  <2>1. /\ d = [ns |-> d.ns, nns |-> d.nns, state |-> d.state, pool |-> d.pool,
                flds |-> d.flds, f35 |-> d.f35, ver |-> d.ver, fault |-> d.fault]
        /\ SameStack(c, d)
        /\ d.ns = [c.ns EXCEPT ![0] = new]
    BY <1>5 DEF Formed, SameStack
  <2>2. 0 \in DOMAIN d.ns /\ d.ns[0] = new
    BY <2>1 DEF Formed
  <2> QED
    BY <1>1, <1>5, <2>1, <2>2 DEF Formed, Versioned, d
<1>6. CASE d = [c EXCEPT !.ns[c.nns] = new, !.nns = @ + 1]
  <2>1. /\ d = [ns |-> d.ns, nns |-> d.nns, state |-> d.state, pool |-> d.pool,
                flds |-> d.flds, f35 |-> d.f35, ver |-> d.ver, fault |-> d.fault]
        /\ SameStack(c, d)
        /\ d.ns = [c.ns EXCEPT ![c.nns] = new]
    BY <1>6 DEF Formed, SameStack
  <2>2. 0 \in DOMAIN d.ns /\ (d.ns[0] = new \/ d.ns[0] = c.ns[0])
    BY <2>1 DEF Formed
  <2> QED
    BY <1>1, <2>1, <2>2 DEF Formed, Versioned, d
<1> QED
  BY <1>2, <1>3, <1>4, <1>5, <1>6

LEMMA UnkAttrKeeps ==
  ASSUME NEW c, NEW a, Formed(c), a.pref = ""
  PROVE  Formed(ProcUnkAttr(c, a)) /\ SameStack(c, ProcUnkAttr(c, a))
<1>1. ProcUnkAttr(c, a) = c \/ ProcUnkAttr(c, a) = RegNs(c, NULL, a.val)
  BY DEF ProcUnkAttr, RegAttr
<1>2. SameStack(c, c)
  BY DEF SameStack
<1> QED
  BY <1>1, <1>2, RegNsKeeps

-----------------------------------------------------------------------------
(* The attributes of an element *)

(* UnkAttrs looks at the attributes one after the other. *)
IsUnkLoop(g, c, as, n) ==
  g = [m \in 0..n |-> IF m = 0 THEN c ELSE ProcUnkAttr(g[m - 1], as[m])]

UnkAttrsRun(g, c, as) ==
  /\ g[0] = c /\ g[Len(as)] = UnkAttrs(c, as)
  /\ \A m \in 1..Len(as) : g[m] = ProcUnkAttr(g[m - 1], as[m])

LEMMA UnkAttrsSteps ==
  ASSUME NEW c, NEW as, Len(as) \in Nat
  PROVE  \E g : UnkAttrsRun(g, c, as)
<1> DEFINE S == {k \in Nat : \E g : IsUnkLoop(g, c, as, k)}
           z == Len(as)
<1>0. z \in Nat
  OBVIOUS
<1> HIDE DEF z
<1>1. 0 \in S
  <2> DEFINE g == [m \in 0..0 |-> c]
  <2>1. \A m \in 0..0 : m = 0
    OBVIOUS
  <2>2. g = [m \in 0..0 |-> IF m = 0 THEN c ELSE ProcUnkAttr(g[m - 1], as[m])]
    BY <2>1, Zenon
  <2> QED
    BY <2>2 DEF IsUnkLoop
<1>2. ASSUME NEW k \in 0..(z - 1), k \in S PROVE k + 1 \in S
  <2>1. PICK f : IsUnkLoop(f, c, as, k)
    BY <1>2
  <2> DEFINE e == ProcUnkAttr(f[k], as[k + 1])
             g == [m \in 0..(k + 1) |-> IF m <= k THEN f[m] ELSE e]
  <2>2. ASSUME NEW m \in 0..(k + 1)
        PROVE  g[m] = IF m = 0 THEN c ELSE ProcUnkAttr(g[m - 1], as[m])
    <3>1. CASE m <= k
      <4>1. m \in 0..k /\ (m # 0 => m - 1 \in 0..(k + 1) /\ m - 1 <= k)
        BY <1>2, <3>1
      <4>2. f[m] = IF m = 0 THEN c ELSE ProcUnkAttr(f[m - 1], as[m])
        BY <2>1, <4>1, Zenon DEF IsUnkLoop
      <4>3. g[m] = f[m] /\ (m # 0 => g[m - 1] = f[m - 1])
        BY <3>1, <4>1
      <4> HIDE DEF g
      <4> QED
        BY <4>2, <4>3, Zenon
    <3>2. CASE m = k + 1
      <4>1. ~(m <= k) /\ m # 0 /\ m - 1 = k /\ k \in 0..(k + 1) /\ k <= k
        BY <1>2, <3>2
      <4>2. g[m] = e /\ g[m - 1] = f[k]
        BY <4>1
      <4> HIDE DEF g
      <4> QED
        BY <3>2, <4>1, <4>2, Zenon
    <3> QED
      BY <1>2, <3>1, <3>2
  <2>3. g = [m \in 0..(k + 1) |-> g[m]]
    BY Zenon
  <2> HIDE DEF g
  <2>4. g = [m \in 0..(k + 1) |-> IF m = 0 THEN c ELSE ProcUnkAttr(g[m - 1], as[m])]
    BY <2>2, <2>3, Zenon
  <2>5. IsUnkLoop(g, c, as, k + 1)
    BY <2>4, Zenon DEF IsUnkLoop
  <2>6. k + 1 \in Nat
    BY <1>2
  <2> QED
    BY <2>5, <2>6, Zenon
<1> HIDE DEF S
<1>3. z \in S
  <2>1. \A k \in 0..z : k \in S
    BY <1>0, <1>1, <1>2, UpTo
  <2> QED
    BY <1>0, <2>1
<1> DEFINE g == CHOOSE h : IsUnkLoop(h, c, as, z)
<1>4. IsUnkLoop(g, c, as, z)
  BY <1>3 DEF S
<1>5. UnkAttrs(c, as) = g[z]
  BY Zenon DEF UnkAttrs, IsUnkLoop, z
<1> HIDE DEF g
<1>6. 0 \in 0..z /\ \A m \in 1..z : m \in 0..z /\ m # 0
  BY <1>0
<1>7. \A m \in 0..z : g[m] = IF m = 0 THEN c ELSE ProcUnkAttr(g[m - 1], as[m])
  BY <1>4, Zenon DEF IsUnkLoop
<1>8. g[0] = c /\ g[z] = UnkAttrs(c, as) /\ \A m \in 1..z : g[m] = ProcUnkAttr(g[m - 1], as[m])
  BY <1>5, <1>6, <1>7, Zenon
<1>9. UnkAttrsRun(g, c, as)
  BY <1>8 DEF UnkAttrsRun, z
<1> QED
  BY <1>9

(* FixmlAttrs looks at the attributes one after the other. *)
IsFixmlLoop(g, c, as, n) ==
  g = [m \in 0..n |-> IF m = 0 THEN c ELSE ProcFixmlAttr(g[m - 1], as[m])]

FixmlAttrsRun(g, c, as) ==
  /\ g[0] = c /\ g[Len(as)] = FixmlAttrs(c, as)
  /\ \A m \in 1..Len(as) : g[m] = ProcFixmlAttr(g[m - 1], as[m])

LEMMA FixmlAttrsSteps ==
  ASSUME NEW c, NEW as, Len(as) \in Nat
  PROVE  \E g : FixmlAttrsRun(g, c, as)
<1> DEFINE S == {k \in Nat : \E g : IsFixmlLoop(g, c, as, k)}
           z == Len(as)
<1>0. z \in Nat
  OBVIOUS
<1> HIDE DEF z
<1>1. 0 \in S
  <2> DEFINE g == [m \in 0..0 |-> c]
  <2>1. \A m \in 0..0 : m = 0
    OBVIOUS
  <2>2. g = [m \in 0..0 |-> IF m = 0 THEN c ELSE ProcFixmlAttr(g[m - 1], as[m])]
    BY <2>1, Zenon
  <2> QED
    BY <2>2 DEF IsFixmlLoop
<1>2. ASSUME NEW k \in 0..(z - 1), k \in S PROVE k + 1 \in S
  <2>1. PICK f : IsFixmlLoop(f, c, as, k)
    BY <1>2
  <2> DEFINE e == ProcFixmlAttr(f[k], as[k + 1])
             g == [m \in 0..(k + 1) |-> IF m <= k THEN f[m] ELSE e]
  <2>2. ASSUME NEW m \in 0..(k + 1)
        PROVE  g[m] = IF m = 0 THEN c ELSE ProcFixmlAttr(g[m - 1], as[m])
    <3>1. CASE m <= k
      <4>1. m \in 0..k /\ (m # 0 => m - 1 \in 0..(k + 1) /\ m - 1 <= k)
        BY <1>2, <3>1
      <4>2. f[m] = IF m = 0 THEN c ELSE ProcFixmlAttr(f[m - 1], as[m])
        BY <2>1, <4>1, Zenon DEF IsFixmlLoop
      <4>3. g[m] = f[m] /\ (m # 0 => g[m - 1] = f[m - 1])
        BY <3>1, <4>1
      <4> HIDE DEF g
      <4> QED
        BY <4>2, <4>3, Zenon
    <3>2. CASE m = k + 1
      <4>1. ~(m <= k) /\ m # 0 /\ m - 1 = k /\ k \in 0..(k + 1) /\ k <= k
        BY <1>2, <3>2
      <4>2. g[m] = e /\ g[m - 1] = f[k]
        BY <4>1
      <4> HIDE DEF g
      <4> QED
        BY <3>2, <4>1, <4>2, Zenon
    <3> QED
      BY <1>2, <3>1, <3>2
  <2>3. g = [m \in 0..(k + 1) |-> g[m]]
    BY Zenon
  <2> HIDE DEF g
  <2>4. g = [m \in 0..(k + 1) |-> IF m = 0 THEN c ELSE ProcFixmlAttr(g[m - 1], as[m])]
    BY <2>2, <2>3, Zenon
  <2>5. IsFixmlLoop(g, c, as, k + 1)
    BY <2>4, Zenon DEF IsFixmlLoop
  <2>6. k + 1 \in Nat
    BY <1>2
  <2> QED
    BY <2>5, <2>6, Zenon
<1> HIDE DEF S
<1>3. z \in S
  <2>1. \A k \in 0..z : k \in S
    BY <1>0, <1>1, <1>2, UpTo
  <2> QED
    BY <1>0, <2>1
<1> DEFINE g == CHOOSE h : IsFixmlLoop(h, c, as, z)
<1>4. IsFixmlLoop(g, c, as, z)
  BY <1>3 DEF S
<1>5. FixmlAttrs(c, as) = g[z]
  BY Zenon DEF FixmlAttrs, IsFixmlLoop, z
<1> HIDE DEF g
<1>6. 0 \in 0..z /\ \A m \in 1..z : m \in 0..z /\ m # 0
  BY <1>0
<1>7. \A m \in 0..z : g[m] = IF m = 0 THEN c ELSE ProcFixmlAttr(g[m - 1], as[m])
  BY <1>4, Zenon DEF IsFixmlLoop
<1>8. g[0] = c /\ g[z] = FixmlAttrs(c, as) /\ \A m \in 1..z : g[m] = ProcFixmlAttr(g[m - 1], as[m])
  BY <1>5, <1>6, <1>7, Zenon
<1>9. FixmlAttrsRun(g, c, as)
  BY <1>8 DEF FixmlAttrsRun, z
<1> QED
  BY <1>9

(* An element's attributes; none of them has a prefix. *)
Plain(e) ==
  /\ e.pref = "" /\ Len(e.attrs) \in Nat /\ DOMAIN e.attrs = 1..Len(e.attrs)
  /\ \A n \in 1..Len(e.attrs) : e.attrs[n].pref = ""

LEMMA UnkAttrsKeep ==
  ASSUME NEW c, NEW e, Formed(c), Plain(e)
  PROVE  Formed(UnkAttrs(c, e.attrs)) /\ SameStack(c, UnkAttrs(c, e.attrs))
<1> DEFINE as == e.attrs
           z  == Len(as)
<1>0. z \in Nat
  BY DEF Plain
<1>p. \A m \in 1..z : as[m].pref = ""
  BY DEF Plain
<1>g. PICK g : UnkAttrsRun(g, c, as)
  BY <1>0, UnkAttrsSteps
<1>1. /\ g[0] = c /\ g[z] = UnkAttrs(c, as)
      /\ \A m \in 1..z : g[m] = ProcUnkAttr(g[m - 1], as[m])
  BY <1>g DEF UnkAttrsRun
<1> HIDE DEF as, z
<1> DEFINE S == {k \in Nat : Formed(g[k]) /\ SameStack(c, g[k])}
<1>2. 0 \in S
  BY <1>1 DEF SameStack
<1>3. ASSUME NEW k \in 0..(z - 1), k \in S PROVE k + 1 \in S
  <2>1. k + 1 \in 1..z /\ k + 1 \in Nat /\ (k + 1) - 1 = k
    BY <1>0, <1>3
  <2>2. g[k + 1] = ProcUnkAttr(g[k], as[k + 1])
    BY <1>1, <2>1
  <2>3. Formed(g[k + 1]) /\ SameStack(g[k], g[k + 1])
    BY <1>p, <1>3, <2>1, <2>2, UnkAttrKeeps
  <2>4. SameStack(c, g[k + 1])
    BY <1>3, <2>3 DEF SameStack
  <2> QED
    BY <2>1, <2>3, <2>4
<1> HIDE DEF S
<1>4. z \in S
  <2>1. \A k \in 0..z : k \in S
    BY <1>0, <1>2, <1>3, UpTo
  <2> QED
    BY <1>0, <2>1
<1> QED
  BY <1>1, <1>4 DEF S, as, z

LEMMA DeclareKeeps ==
  ASSUME NEW c, NEW e, Formed(c), Plain(e)
  PROVE  Formed(Declare(c, e)) /\ SameStack(c, Declare(c, e))
<1> DEFINE d == UnkAttrs(c, e.attrs)
           f == IF e.attrs = <<>> /\ e.pref = "" /\ e.name = "FIXML"
                THEN [d EXCEPT !.ns[0].nsid = "50_SP2"] ELSE d
<1>1. Formed(d) /\ SameStack(c, d)
  BY UnkAttrsKeep
<1> HIDE DEF d
<1>2. f = d \/ f = [d EXCEPT !.ns[0].nsid = "50_SP2"]
  OBVIOUS
<1>3. Declare(c, e) = [f EXCEPT !.ver = f.ns[0].nsid]
  BY DEF Declare, d
<1> HIDE DEF f
<1>4. Formed(f) /\ SameStack(c, f)
  <2>1. CASE f = d
    BY <1>1, <2>1
  <2>2. CASE f = [d EXCEPT !.ns[0].nsid = "50_SP2"]
    <3>1. /\ f = [ns |-> f.ns, nns |-> f.nns, state |-> f.state, pool |-> f.pool,
                  flds |-> f.flds, f35 |-> f.f35, ver |-> f.ver, fault |-> f.fault]
          /\ SameStack(d, f) /\ f.ns = [d.ns EXCEPT ![0].nsid = "50_SP2"]
      BY <1>1, <2>2 DEF Formed, SameStack
    <3>2. 0 \in DOMAIN f.ns /\ f.ns[0].pref = NULL
      BY <1>1, <3>1 DEF Formed
    <3> QED
      BY <1>1, <3>1, <3>2 DEF Formed, SameStack
  <2> QED
    BY <1>2, <2>1, <2>2
<1> DEFINE g == [f EXCEPT !.ver = f.ns[0].nsid]
<1>5. Formed(g) /\ SameStack(f, g)
  BY <1>4 DEF Formed, SameStack
<1> HIDE DEF g
<1>6. SameStack(c, g)
  BY <1>4, <1>5 DEF SameStack
<1> QED
  BY <1>3, <1>5, <1>6 DEF g

-----------------------------------------------------------------------------
(* Handlers *)

LEMMA PushStateKeeps ==
  ASSUME NEW c, NEW p, Along(c, p), c.fault = "none", NEW id
  PROVE  Kept(PushState(c, id), Pushed(id, p))
<1> DEFINE d == PushState(c, id)
<1>1. \/ d = Fault(c, "null")
      \/ \E n : d = [c EXCEPT !.pool = Tail(c.pool),
                              !.state = <<[otag |-> id, cnt |-> 0, cns |-> n]>> \o @]
  BY DEF PushState
<1> HIDE DEF d
<1>2. CASE d = Fault(c, "null")
  <2>1. d.fault = "null"
    BY <1>2 DEF Along, Versioned, Formed, Fault
  <2> QED
    BY <2>1 DEF Kept, d
<1>3. ASSUME NEW n, d = [c EXCEPT !.pool = Tail(c.pool),
                                  !.state = <<[otag |-> id, cnt |-> 0, cns |-> n]>> \o @]
      PROVE  Kept(d, Pushed(id, p))
  <2> DEFINE r == [otag |-> id, cnt |-> 0, cns |-> n]
  <2>1. Formed(d) /\ d.ns = c.ns /\ d.state = Pushed(r, c.state)
    BY <1>3 DEF Along, Versioned, Formed, Pushed
  <2>2. r.otag = id
    OBVIOUS
  <2> HIDE DEF r
  <2>3. OnPath(Pushed(r, c.state), Pushed(r.otag, p))
    BY PathPush DEF Along
  <2> QED
    BY <2>1, <2>2, <2>3 DEF Kept, Along, Versioned
<1> QED
  BY <1>1, <1>2, <1>3 DEF d

(* Neither name spaces nor stack depend on the fields and the type. *)
Filled(c, s, t) ==
  [ns |-> c.ns, nns |-> c.nns, state |-> c.state, pool |-> c.pool,
   flds |-> s, f35 |-> t, ver |-> c.ver, fault |-> c.fault]

LEMMA FilledKeeps ==
  ASSUME NEW c, NEW p, Along(c, p), c.fault = "none", NEW s, NEW t
  PROVE  Along(Filled(c, s, t), p) /\ Filled(c, s, t).fault = "none"
<1> DEFINE d == Filled(c, s, t)
<1>1. /\ d = [ns |-> d.ns, nns |-> d.nns, state |-> d.state, pool |-> d.pool,
              flds |-> d.flds, f35 |-> d.f35, ver |-> d.ver, fault |-> d.fault]
      /\ d.ns = c.ns /\ d.state = c.state /\ d.fault = c.fault
  BY DEF Filled
<1> HIDE DEF d
<1>2. Along(d, p) /\ d.fault = "none"
  BY <1>1 DEF Along, Versioned, Formed
<1> QED
  BY <1>2 DEF d

LEMMA SetTypeKeeps ==
  ASSUME NEW c, NEW p, Along(c, p), c.fault = "none", NEW id, NEW mty
  PROVE  Along(SetType(c, id, mty), p) /\ SetType(c, id, mty).fault = "none"
<1> DEFINE d == SetType(c, id, mty)
           fld   == Fld(MSG_TYPE, "MSGTYP", BATCH, 1, mty, 0)
           first == Fld(MSG_TYPE, "MSGTYP", BATCH, 0, c.f35, 0)
<1>1. /\ c = [ns |-> c.ns, nns |-> c.nns, state |-> c.state, pool |-> c.pool,
              flds |-> c.flds, f35 |-> c.f35, ver |-> c.ver, fault |-> c.fault]
  BY DEF Along, Versioned, Formed
<1>2. \/ d = [c EXCEPT !.f35 = mty]
      \/ d = [c EXCEPT !.flds = Append(@, fld)]
      \/ d = [c EXCEPT !.flds = <<first>> \o Append(@, fld), !.f35 = BATCH]
  BY DEF SetType
<1> HIDE DEF d, fld, first
<1>3. CASE d = [c EXCEPT !.f35 = mty]
  <2>1. d = Filled(c, c.flds, mty)
    BY <1>1, <1>3 DEF Filled
  <2> QED
    BY <2>1, FilledKeeps DEF d
<1>4. CASE d = [c EXCEPT !.flds = Append(@, fld)]
  <2>1. d = Filled(c, Append(c.flds, fld), c.f35)
    BY <1>1, <1>4 DEF Filled
  <2> QED
    BY <2>1, FilledKeeps DEF d
<1>5. CASE d = [c EXCEPT !.flds = <<first>> \o Append(@, fld), !.f35 = BATCH]
  <2>1. d = Filled(c, <<first>> \o Append(c.flds, fld), BATCH)
    BY <1>1, <1>5 DEF Filled
  <2> QED
    BY <2>1, FilledKeeps DEF d
<1> QED
  BY <1>2, <1>3, <1>4, <1>5

LEMMA CheckRptblkKeeps ==
  ASSUME NEW c, NEW p, Kept(c, p)
  PROVE  Kept(CheckRptblk(c), p)
<1> DEFINE d == CheckRptblk(c)
<1>1. CASE d = c
  BY <1>1
<1>2. CASE d # c
  <2>1. c.fault = "none" /\ d = UpdRptb(c, Rptb(c.state[1].otag))
    BY <1>2 DEF CheckRptblk
  <2>2. Along(c, p)
    BY <2>1 DEF Kept
  <2>3. \/ d = Fault(c, "index")
        \/ \E s : d = [c EXCEPT !.flds = s]
    BY <2>1 DEF UpdRptb
  <2> HIDE DEF d
  <2>4. CASE d = Fault(c, "index")
    <3>1. d.fault = "index"
      BY <2>2, <2>4 DEF Along, Versioned, Formed, Fault
    <3> QED
      BY <3>1 DEF Kept, d
  <2>5. CASE \E s : d = [c EXCEPT !.flds = s]
    <3>1. PICK s : d = [c EXCEPT !.flds = s]
      BY <2>5
    <3>2. Formed(d) /\ d.ns = c.ns /\ d.state = c.state
      BY <2>2, <3>1 DEF Along, Versioned, Formed
    <3> QED
      BY <2>2, <3>2 DEF Kept, Along, Versioned, d
  <2> QED
    BY <2>3, <2>4, <2>5
<1> QED
  BY <1>1, <1>2

(* Where a field of the context x leaves it. *)
Names(x, a) == Aid(x, a.name) \notin {UNK, XMLNS, V}
Turned(x, a) == IF Names(x, a) /\ Orb(x) # UNK THEN Orb(x) ELSE x

LEMMA FixmlAttrKeeps ==
  ASSUME NEW c, NEW p, IsSeq(p), NEW x, Along(c, Pushed(x, p)), c.fault = "none",
         NEW a, a.pref = "", Aid(x, a.name) \in {XMLNS, V} => NsId(a.val) \in Known
  PROVE  /\ ProcFixmlAttr(c, a).fault = "none"
         /\ Along(ProcFixmlAttr(c, a), Pushed(Turned(x, a), p))
<1> DEFINE d == ProcFixmlAttr(c, a)
<1>1. c.state # <<>> /\ c.state[1].otag = x
  BY PathTop DEF Along
<1>2. LookUp(c, Ctxid(c), a) = Aid(x, a.name)
  BY <1>1 DEF LookUp, Ctxid
<1>3. CASE Aid(x, a.name) = UNK
  <2>1. d = c
    BY <1>2, <1>3 DEF ProcFixmlAttr, UNK, XMLNS, V
  <2>2. Turned(x, a) = x
    BY <1>3 DEF Turned, Names
  <2> QED
    BY <2>1, <2>2
<1>4. CASE Aid(x, a.name) # UNK /\ Aid(x, a.name) \in {XMLNS, V}
  <2>1. d = RegNs(c, NULL, a.val)
    BY <1>1, <1>2, <1>4 DEF ProcFixmlAttr, RegAttr
  <2>2. NsId(a.val) \in Known /\ Versioned(c) /\ Formed(c)
    BY <1>4 DEF Along, Versioned
  <2>3. Versioned(d) /\ SameStack(c, d)
    BY <2>1, <2>2, RegNsKeeps
  <2>4. Turned(x, a) = x
    BY <1>4 DEF Turned, Names
  <2> HIDE DEF d
  <2>5. d.fault = "none" /\ Along(d, Pushed(x, p))
    BY <2>3 DEF Along, SameStack
  <2> QED
    BY <2>4, <2>5 DEF d
<1>5. CASE Names(x, a)
  <2> DEFINE y == IF Orb(x) = UNK THEN x ELSE Orb(x)
             r == [otag |-> y, cnt |-> c.state[1].cnt + 1, cns |-> c.state[1].cns + 1]
  <2>1. y = Turned(x, a) /\ r.otag = y
    BY <1>5 DEF Turned
  <2>2. d = BangAttr(c, Aid(x, a.name), a.val)
    BY <1>1, <1>2, <1>5 DEF ProcFixmlAttr, Names
  <2>3. \E s : d = [c EXCEPT !.flds = s, !.state[1] = r]
    BY <1>1, <2>2 DEF BangAttr
  <2> HIDE DEF d, r, y
  <2>4. PICK s : d = [c EXCEPT !.flds = s, !.state[1] = r]
    BY <2>3
  <2>5. Formed(d) /\ d.ns = c.ns /\ d.state = [c.state EXCEPT ![1] = r] /\ d.fault = "none"
    BY <2>4 DEF Along, Versioned, Formed
  <2>6. OnPath([c.state EXCEPT ![1] = r], Pushed(r.otag, p))
    BY PathTurned DEF Along
  <2>7. Along(d, Pushed(r.otag, p))
    BY <2>5, <2>6 DEF Along, Versioned
  <2> QED
    BY <2>1, <2>5, <2>7 DEF d
<1> QED
  BY <1>3, <1>4, <1>5 DEF Names

LEMMA FixmlAttrFaulted ==
  ASSUME NEW c, NEW a, c.fault # "none"
  PROVE  ProcFixmlAttr(c, a).fault # "none"
  BY DEF ProcFixmlAttr

(* An element reads as it is meant to: it declares no name space that is   *)
(* none, and if it is optimised it is no more than once; a FIXML is always *)
(* one; and what means nothing here means nothing one level further out,   *)
(* where its end is looked up.                                             *)
Settled(e, out) ==
  LET y == Entered(e, out)
  IN  /\ ~y.own => Cid(Second(out.path), e.name) = UNK
      /\ y.own /\ Cid(out.in, e.name) = FIXML => y.in = FIXML
      /\ y.own /\ Cid(out.in, e.name) # FIXML =>
           /\ \A n \in 1..Len(e.attrs) : \A x \in {y.id, y.in} :
                Aid(x, e.attrs[n].name) \in {XMLNS, V} => NsId(e.attrs[n].val) \in Known
           /\ y.in # y.id => Orb(y.in) = UNK

(* What the first k attributes have made of the context id. *)
After(id, e, k) ==
  IF Orb(id) # UNK /\ \E m \in 1..k : Names(id, e.attrs[m]) THEN Orb(id) ELSE id

(* As the attributes are gone through, the context is the element's own,   *)
(* and in that it is optimised to once a field was named.                  *)
TurnsOnce(e, id, in) ==
  /\ Len(e.attrs) \in Nat /\ After(id, e, 0) = id
  /\ \A k \in 0..Len(e.attrs) : After(id, e, k) \in {id, in}
  /\ \A k \in 0..(Len(e.attrs) - 1) :
       Turned(After(id, e, k), e.attrs[k + 1]) = After(id, e, k + 1)

LEMMA AfterSteps ==
  ASSUME NEW e, Plain(e), NEW id, NEW in, in = After(id, e, Len(e.attrs)),
         in # id => Orb(in) = UNK
  PROVE  TurnsOnce(e, id, in)
<1> DEFINE as == e.attrs
           z  == Len(as)
           X(k) == After(id, e, k)
<1>0. z \in Nat
  BY DEF Plain
<1>2. X(0) = id /\ X(z) = in
  BY DEF After
<1>3. \A k \in 0..z : X(k) \in {id, in}
  <2> TAKE k \in 0..z
  <2>1. CASE X(k) = id
    BY <2>1
  <2>2. CASE X(k) # id
    <3>1. Orb(id) # UNK /\ X(k) = Orb(id) /\ \E m \in 1..k : Names(id, as[m])
      BY <2>2 DEF After
    <3>2. \A m \in 1..k : m \in 1..z
      BY <1>0
    <3>3. \E m \in 1..z : Names(id, as[m])
      BY <3>1, <3>2
    <3>4. in = Orb(id)
      BY <3>1, <3>3 DEF After
    <3> QED
      BY <3>1, <3>4
  <2> QED
    BY <2>1, <2>2
<1>4. ASSUME NEW k \in 0..(z - 1) PROVE Turned(X(k), as[k + 1]) = X(k + 1)
  <2>1. k + 1 \in 1..(k + 1) /\ \A m \in 1..(k + 1) : m \in 1..k \/ m = k + 1
    BY <1>0, <1>4
  <2>2. \A m \in 1..k : m \in 1..(k + 1)
    BY <1>0, <1>4
  <2>3. k \in 0..z /\ k + 1 \in 1..z
    BY <1>0, <1>4
  <2>4. CASE \E m \in 1..k : Names(id, as[m])
    <3>1. \E m \in 1..(k + 1) : Names(id, as[m])
      BY <2>2, <2>4
    <3>2. CASE Orb(id) = UNK
      BY <3>2 DEF After, Turned
    <3>3. CASE Orb(id) # UNK
      <4>1. X(k) = Orb(id) /\ X(k + 1) = Orb(id)
        BY <2>4, <3>1, <3>3 DEF After
      <4>2. Orb(id) = id \/ Orb(id) = in
        BY <1>3, <2>3, <4>1
      <4>3. CASE Orb(id) = id
        BY <4>1, <4>3 DEF Turned
      <4>4. CASE Orb(id) # id
        <5>1. Orb(in) = UNK /\ X(k) = in /\ X(k + 1) = in
          BY <4>1, <4>2, <4>4
        <5> QED
          BY <5>1 DEF Turned
      <4> QED
        BY <4>3, <4>4
    <3> QED
      BY <3>2, <3>3
  <2>5. CASE ~\E m \in 1..k : Names(id, as[m])
    <3>1. X(k) = id
      BY <2>5 DEF After
    <3>2. (\E m \in 1..(k + 1) : Names(id, as[m])) <=> Names(id, as[k + 1])
      BY <2>1, <2>5
    <3>3. X(k + 1) = IF Orb(id) # UNK /\ Names(id, as[k + 1]) THEN Orb(id) ELSE id
      BY <3>2 DEF After
    <3> HIDE DEF X
    <3> QED
      BY <3>1, <3>3 DEF Turned
  <2> QED
    BY <2>4, <2>5
<1> QED
  BY <1>0, <1>2, <1>3, <1>4 DEF TurnsOnce

LEMMA AfterNames ==
  ASSUME NEW e, Plain(e), NEW id, NEW in, in = After(id, e, Len(e.attrs)),
         in # id => Orb(in) = UNK
  PROVE  \A k \in 0..(Len(e.attrs) - 1) :
           Names(After(id, e, k), e.attrs[k + 1]) => Turned(After(id, e, k), e.attrs[k + 1]) = in
<1> DEFINE as == e.attrs
           z  == Len(as)
           X(k) == After(id, e, k)
<1>0. z \in Nat
  BY DEF Plain
<1>1. X(z) = in
  OBVIOUS
<1>3. TurnsOnce(e, id, in)
  BY AfterSteps
<1>4. \A k \in 0..(z - 1) : Turned(X(k), as[k + 1]) = X(k + 1)
  BY <1>3 DEF TurnsOnce
<1>5. ASSUME NEW k \in 0..(z - 1), Names(X(k), as[k + 1]) PROVE X(k + 1) = in
  <2>1. k + 1 \in 1..(k + 1) /\ \A m \in 1..k : m \in 1..(k + 1)
    BY <1>0
  <2>2. \A m \in 1..(k + 1) : m \in 1..z
    BY <1>0
  <2>3. CASE Orb(id) = UNK
    BY <2>3 DEF After
  <2>4. CASE Orb(id) # UNK /\ \E m \in 1..(k + 1) : Names(id, as[m])
    <3>1. \E m \in 1..z : Names(id, as[m])
      BY <2>2, <2>4
    <3> QED
      BY <2>4, <3>1 DEF After
  <2>5. CASE ~\E m \in 1..(k + 1) : Names(id, as[m])
    <3>1. X(k) = id
      BY <2>1, <2>5 DEF After
    <3> HIDE DEF X
    <3> QED
      BY <1>5, <2>1, <2>5, <3>1
  <2> QED
    BY <2>3, <2>4, <2>5
<1> QED
  BY <1>4, <1>5

LEMMA FixmlAttrsAlong ==
  ASSUME NEW c, NEW p, IsSeq(p), NEW e, Plain(e), NEW id, NEW in,
         in = After(id, e, Len(e.attrs)), Kept(c, Pushed(id, p)),
         in # id => Orb(in) = UNK,
         \A n \in 1..Len(e.attrs) : \A x \in {id, in} :
           Aid(x, e.attrs[n].name) \in {XMLNS, V} => NsId(e.attrs[n].val) \in Known,
         NEW g, FixmlAttrsRun(g, c, e.attrs)
  PROVE  \A k \in 0..Len(e.attrs) : Kept(g[k], Pushed(After(id, e, k), p))
<1> DEFINE as == e.attrs
           z  == Len(as)
           X(k) == After(id, e, k)
<1>0. z \in Nat
  BY DEF Plain
<1>p. \A m \in 1..z : as[m].pref = ""
  BY DEF Plain
<1>n. \A n \in 1..z : \A x \in {id, in} : Aid(x, as[n].name) \in {XMLNS, V} => NsId(as[n].val) \in Known
  OBVIOUS
<1>1. g[0] = c /\ \A m \in 1..z : g[m] = ProcFixmlAttr(g[m - 1], as[m])
  BY DEF FixmlAttrsRun
<1>3. TurnsOnce(e, id, in)
  BY AfterSteps
<1>2. X(0) = id /\ \A k \in 0..z : X(k) \in {id, in}
  BY <1>3 DEF TurnsOnce
<1>4. \A k \in 0..(z - 1) : Turned(X(k), as[k + 1]) = X(k + 1)
  BY <1>3 DEF TurnsOnce
<1>5. Kept(c, Pushed(id, p))
  OBVIOUS
<1> HIDE DEF as, z, X
<1> DEFINE S == {k \in Nat : Kept(g[k], Pushed(X(k), p))}
<1>6. 0 \in S
  BY <1>1, <1>2, <1>5
<1>7. ASSUME NEW k \in 0..(z - 1), k \in S PROVE k + 1 \in S
  <2>1. k + 1 \in 1..z /\ k + 1 \in Nat /\ (k + 1) - 1 = k /\ k \in 0..z
    BY <1>0, <1>7
  <2>2. g[k + 1] = ProcFixmlAttr(g[k], as[k + 1])
    BY <1>1, <2>1
  <2>3. Kept(g[k], Pushed(X(k), p))
    BY <1>7
  <2>4. CASE g[k].fault # "none"
    <3>1. g[k + 1].fault # "none"
      BY <2>2, <2>4, FixmlAttrFaulted
    <3> QED
      BY <2>1, <3>1 DEF Kept
  <2>5. CASE g[k].fault = "none"
    <3>1. Along(g[k], Pushed(X(k), p))
      BY <2>3, <2>5 DEF Kept
    <3>2. X(k) \in {id, in} /\ as[k + 1].pref = ""
      BY <1>2, <1>p, <2>1
    <3>3. Aid(X(k), as[k + 1].name) \in {XMLNS, V} => NsId(as[k + 1].val) \in Known
      BY <1>n, <2>1, <3>2
    <3>4. Along(ProcFixmlAttr(g[k], as[k + 1]), Pushed(Turned(X(k), as[k + 1]), p))
      BY <2>5, <3>1, <3>2, <3>3, FixmlAttrKeeps
    <3>5. Along(g[k + 1], Pushed(X(k + 1), p))
      BY <1>4, <2>2, <3>4
    <3> QED
      BY <2>1, <3>5 DEF Kept
  <2> QED
    BY <2>4, <2>5
<1> HIDE DEF S
<1>8. \A k \in 0..z : k \in S
  BY <1>0, <1>6, <1>7, UpTo
<1> QED
  BY <1>8 DEF S, X, as, z

LEMMA FixmlAttrsKeep ==
  ASSUME NEW c, NEW p, IsSeq(p), NEW e, Plain(e), NEW id, NEW in,
         in = After(id, e, Len(e.attrs)), Kept(c, Pushed(id, p)),
         in # id => Orb(in) = UNK,
         \A n \in 1..Len(e.attrs) : \A x \in {id, in} :
           Aid(x, e.attrs[n].name) \in {XMLNS, V} => NsId(e.attrs[n].val) \in Known
  PROVE  Kept(FixmlAttrs(c, e.attrs), Pushed(in, p))
<1>1. Len(e.attrs) \in Nat
  BY DEF Plain
<1>2. PICK g : FixmlAttrsRun(g, c, e.attrs)
  BY <1>1, FixmlAttrsSteps
<1>3. \A k \in 0..Len(e.attrs) : Kept(g[k], Pushed(After(id, e, k), p))
  BY <1>2, FixmlAttrsAlong
<1>4. Len(e.attrs) \in 0..Len(e.attrs)
  BY <1>1
<1> QED
  BY <1>2, <1>3, <1>4 DEF FixmlAttrsRun

LEMMA SaxBoKeeps ==
  ASSUME NEW c, NEW e, NEW out, Along(c, out.path), c.fault = "none",
         Headed(out), Plain(e), Settled(e, out)
  PROVE  Kept(SaxBo(c, e), Entered(e, out).path)
<1> DEFINE y   == Entered(e, out)
           p   == out.path
           cid == Cid(out.in, e.name)
           mty == Mty(e.name)
           typed == IF cid = UNK THEN SetType(c, out.in, mty) ELSE c
           inner == CheckRptblk(PushState(typed, y.id))
<1>1. Ctxid(c) = out.in
  <2>1. c.state = <<>> <=> p = <<>>
    BY PathTypes DEF Along
  <2>2. c.state # <<>> => c.state[1].otag = p[1]
    BY PathTypes DEF Along
  <2> QED
    BY <2>1, <2>2 DEF Ctxid, Headed, Outer
<1>2. IsSeq(p)
  BY DEF Headed
<1>3. y.own => y.path = Pushed(y.in, p) /\ y.id = IF cid # UNK THEN cid ELSE mty
  BY DEF Entered, Pushed
<1>4. y.own <=> ~(cid = UNK /\ mty = UNK)
  BY DEF Entered
<1>5. CASE ~y.own
  <2>1. y.path = p
    BY <1>5, EnteredHeaded
  <2>2. SaxBo(c, e) = c
    BY <1>1, <1>4, <1>5 DEF SaxBo, FIXML, UNK
  <2> QED
    BY <2>1, <2>2 DEF Kept
<1>6. CASE y.own /\ cid = FIXML
  <2>1. y.in = FIXML
    BY <1>6 DEF Settled
  <2>2. SaxBo(c, e) = PushState(InitCtxcb(c), FIXML)
    BY <1>1, <1>6 DEF SaxBo, FIXML, UNK
  <2> DEFINE d == InitCtxcb(c)
  <2>q. \E q : d = [c EXCEPT !.pool = q]
    BY DEF InitCtxcb
  <2> HIDE DEF d
  <2>3. Formed(d) /\ d.ns = c.ns /\ d.state = c.state /\ d.fault = c.fault
    BY <2>q DEF Along, Versioned, Formed
  <2>4. Along(d, p) /\ d.fault = "none"
    BY <2>3 DEF Along, Versioned
  <2>5. Kept(PushState(d, FIXML), Pushed(FIXML, p))
    BY <2>4, PushStateKeeps
  <2> QED
    BY <1>3, <1>6, <2>1, <2>2, <2>5 DEF d
<1>7. CASE y.own /\ cid # FIXML
  <2>1. SaxBo(c, e) = FixmlAttrs(inner, e.attrs)
    BY <1>1, <1>3, <1>4, <1>7 DEF SaxBo
  <2>2. Along(typed, p) /\ typed.fault = "none"
    BY SetTypeKeeps
  <2> HIDE DEF typed
  <2>3. Kept(PushState(typed, y.id), Pushed(y.id, p))
    BY <2>2, PushStateKeeps
  <2>4. Kept(inner, Pushed(y.id, p))
    BY <2>3, CheckRptblkKeeps
  <2> HIDE DEF inner
  <2>5. y.in = After(y.id, e, Len(e.attrs))
    <3>1. HasFld(y.id, e) <=> \E m \in 1..Len(e.attrs) : Names(y.id, e.attrs[m])
      BY DEF HasFld, Names, Plain
    <3>2. y.in = IF Orb(y.id) # UNK /\ HasFld(y.id, e) THEN Orb(y.id) ELSE y.id
      BY <1>7 DEF Entered
    <3> HIDE DEF y
    <3> QED
      BY <3>1, <3>2 DEF After
  <2>6. /\ y.in # y.id => Orb(y.in) = UNK
        /\ \A n \in 1..Len(e.attrs) : \A x \in {y.id, y.in} :
             Aid(x, e.attrs[n].name) \in {XMLNS, V} => NsId(e.attrs[n].val) \in Known
    BY <1>7 DEF Settled
  <2> HIDE DEF y
  <2>7. Kept(FixmlAttrs(inner, e.attrs), Pushed(y.in, p))
    BY <1>2, <2>4, <2>5, <2>6, FixmlAttrsKeep
  <2> QED
    BY <1>3, <1>7, <2>1, <2>7 DEF y
<1> QED
  BY <1>5, <1>6, <1>7

LEMMA SaxEoKeeps ==
  ASSUME NEW c, NEW e, NEW out, Along(c, Entered(e, out).path), c.fault = "none",
         Headed(out), Settled(e, out)
  PROVE  Kept(SaxEo(c, e), out.path)
<1> DEFINE y   == Entered(e, out)
           mty == Mty(e.name)
           ctxid == IF Len(c.state) > 1 THEN c.state[2].otag ELSE UNK
           d     == SaxEo(c, e)
<1>1. IsSeq(out.path)
  BY DEF Headed
<1>2. OnPath(c.state, y.path)
  BY DEF Along
<1>3. ctxid = Second(y.path)
  <2>1. Len(c.state) \in Nat /\ Len(y.path) = Len(c.state)
        /\ \A n \in 1..Len(c.state) : y.path[n] = c.state[n].otag
    BY <1>2, PathTypes
  <2>2. Len(c.state) > 1 => 2 \in 1..Len(c.state)
    BY <2>1
  <2> QED
    BY <2>1, <2>2 DEF Second
<1>4. c.state = <<>> => d.fault = "null"
  BY DEF SaxEo, Fault, Along, Versioned, Formed
<1>5. ASSUME c.state # <<>>, d # c, d # PopState(c)
      PROVE  d.fault # "none"
  <2>1. d = Fault(c, "abort")
    BY <1>5 DEF SaxEo
  <2> HIDE DEF d
  <2> QED
    BY <2>1 DEF Fault, Along, Versioned, Formed
<1>6. CASE y.own /\ c.state # <<>>
  <2>1. y.path = Pushed(y.in, out.path) /\ Second(y.path) = out.in
    BY <1>6, EnteredHeaded
  <2>2. ~(Cid(out.in, e.name) = UNK /\ mty = UNK)
    BY <1>6 DEF Entered
  <2>3. d.fault # "none" \/ d = PopState(c)
    <3>1. Cid(ctxid, e.name) = Cid(out.in, e.name)
      BY <1>3, <2>1
    <3> HIDE DEF ctxid, y
    <3>2. d = Fault(c, "abort") \/ d = PopState(c)
      BY <1>6, <2>2, <3>1 DEF SaxEo, ctxid
    <3>3. Fault(c, "abort").fault # "none"
      BY DEF Fault, Along, Versioned, Formed
    <3> QED
      BY <3>2, <3>3
  <2>4. CASE d.fault # "none"
    BY <2>4 DEF Kept
  <2>5. CASE d = PopState(c)
    <3>1. Formed(d) /\ d.ns = c.ns /\ d.state = Tail(c.state)
      BY <1>6, <2>5 DEF PopState, Along, Versioned, Formed
    <3>2. OnPath(Tail(c.state), out.path)
      BY <1>1, <1>2, <2>1, PathTop
    <3> HIDE DEF d
    <3>3. Along(d, out.path)
      BY <3>1, <3>2 DEF Along, Versioned
    <3> QED
      BY <3>3 DEF Kept, d
  <2> QED
    BY <2>3, <2>4, <2>5
<1>7. CASE ~y.own /\ c.state # <<>>
  <2>1. y.path = out.path
    BY <1>7, EnteredHeaded
  <2>2. Cid(ctxid, e.name) = UNK /\ mty = UNK
    BY <1>3, <1>7, <2>1 DEF Settled, Entered
  <2>3. d = c
    BY <1>7, <2>2 DEF SaxEo
  <2> QED
    BY <2>1, <2>3 DEF Kept
<1>8. CASE c.state = <<>>
  BY <1>4, <1>8 DEF Kept
<1> QED
  BY <1>6, <1>7, <1>8

LEMMA NoPrefix ==
  ASSUME NEW c, Formed(c)
  PROVE  PrefToNs(c, "") = 0
  BY DEF PrefToNs, Formed

LEMMA ElStaKeeps ==
  ASSUME NEW c, NEW e, NEW out, Along(c, out.path), c.fault = "none",
         Headed(out), Plain(e), Settled(e, out)
  PROVE  Kept(ElSta(c, e), Entered(e, out).path)
<1>1. PrefToNs(c, e.pref) = 0 /\ 0 \in DOMAIN c.ns /\ c.ns[0].nsid \in Known
  BY NoPrefix DEF Along, Versioned, Formed, Plain
<1>2. ElSta(c, e) = SaxBo(c, e)
  BY <1>1 DEF ElSta, NoIdx, BadPref
<1> QED
  BY <1>2, SaxBoKeeps

LEMMA ElEndKeeps ==
  ASSUME NEW c, NEW e, NEW out, Along(c, Entered(e, out).path), c.fault = "none",
         Headed(out), Plain(e), Settled(e, out)
  PROVE  Kept(ElEnd(c, e), out.path)
<1>1. PrefToNs(c, e.pref) = 0 /\ 0 \in DOMAIN c.ns /\ c.ns[0].nsid \in Known
  BY NoPrefix DEF Along, Versioned, Formed, Plain
<1>2. ElEnd(c, e) = SaxEo(c, e)
  BY <1>1 DEF ElEnd, NoIdx, BadPref
<1> QED
  BY <1>2, SaxEoKeeps

(* The root states the version. *)
Rooted(e) == Declare(Fresh, e).ns[0].nsid \in Known

LEMMA FreshFormed == Formed(Fresh) /\ Fresh.state = <<>> /\ Fresh.fault = "none" /\ Fresh.ns[0].nsid = UNK
<1>1. 0 \in 0..(NNs - 1)
  BY NNsAssumption
<1>2. Fresh.ns = [i \in 0..(NNs - 1) |-> NoNs]
  BY DEF Fresh
<1>3. 0 \in DOMAIN Fresh.ns /\ Fresh.ns[0] = NoNs
  BY <1>1, <1>2
<1> QED
  BY <1>3 DEF Formed, Fresh, NoNs

LEMMA RootKeeps ==
  ASSUME NEW e, Plain(e), Rooted(e), Settled(e, Nowhere)
  PROVE  Kept(ElSta(Fresh, e), Entered(e, Nowhere).path)
<1> DEFINE d == Declare(Fresh, e)
<1>1. Formed(d) /\ SameStack(Fresh, d)
  BY DeclareKeeps, FreshFormed
<1>2. PrefToNs(Fresh, e.pref) = 0
  BY NoPrefix, FreshFormed DEF Plain
<1>3. Fresh.ns[0].nsid \notin Known
  BY FreshFormed DEF Known, Ptx, UNK
<1>4. d.ns[0].nsid \in Known
  BY DEF Rooted
<1>5. ElSta(Fresh, e) = SaxBo(d, e)
  BY <1>2, <1>3, <1>4 DEF ElSta, NoIdx, BadPref
<1> HIDE DEF d
<1>6. OnPath(<<>>, <<>>) /\ IsSeq(<<>>)
  BY EmptySeq DEF OnPath, IsSeq
<1>7. d.state = <<>> /\ d.fault = "none"
  BY <1>1, FreshFormed DEF SameStack
<1>8. Along(d, Nowhere.path)
  BY <1>1, <1>4, <1>6, <1>7 DEF Along, Versioned, Nowhere
<1>9. Headed(Nowhere)
  BY <1>6 DEF Headed, Nowhere, Outer
<1> QED
  BY <1>5, <1>7, <1>8, <1>9, SaxBoKeeps

-----------------------------------------------------------------------------
(* The document *)

(* It uses no prefixes, its root states the version, and its elements read *)
(* as they are meant to.                                                   *)
Sound(d) ==
  /\ d # <<>> => Rooted(d[1].elt)
  /\ \A i \in 1..Len(d) : Plain(d[i].elt) /\ Settled(d[i].elt, ReadingOf(d)[d[i].par])

OpenInv ==
  /\ doc \in Seq([elt : Elements, par : Nat]) /\ Tree(doc)
  /\ open \in Seq(Nat)
  /\ \A n \in 1..Len(open) : /\ open[n] \in 1..Len(doc)
                             /\ doc[open[n]].par = IF n = 1 THEN 0 ELSE open[n - 1]

PathInv ==
  Sound(doc) /\ Running =>
    IF doc = <<>> THEN ctx = Fresh ELSE Along(ctx, ReadingOf(doc)[Parent].path)

RInv == OpenInv /\ PathInv

LEMMA ParentOpen ==
  ASSUME OpenInv
  PROVE  /\ Parent \in 0..Len(doc) /\ Len(doc) \in Nat
         /\ open # <<>> => Parent \in 1..Len(doc) /\ Parent = open[Len(open)] /\ Len(open) \in 1..Len(open)
         /\ doc = <<>> => Parent = 0 /\ open = <<>>
<1>1. open \in Seq(Nat) /\ Len(open) \in Nat /\ Len(doc) \in Nat
  BY DEF OpenInv
<1>2. CASE open = <<>>
  BY <1>1, <1>2 DEF Parent
<1>3. CASE open # <<>>
  <2>1. Len(open) \in 1..Len(open)
    BY <1>1, <1>3, EmptySeq
  <2>2. open[Len(open)] \in 1..Len(doc) /\ Parent = open[Len(open)]
    BY <1>3, <2>1 DEF OpenInv, Parent, Last
  <2>3. doc # <<>>
    BY <2>2
  <2> QED
    BY <1>1, <1>3, <2>1, <2>2, <2>3
<1> QED
  BY <1>2, <1>3

-----------------------------------------------------------------------------
(* Steps *)

(* What was sound before an element was started is sound after it. *)
LEMMA StartDoc ==
  ASSUME OpenInv, NEW e \in Elements, StartElement(e)
  PROVE  /\ OpenInv' /\ Parent' = Len(doc) + 1 /\ Len(doc') = Len(doc) + 1 /\ doc' # <<>>
         /\ doc'[Len(doc) + 1].elt = e /\ doc'[Len(doc) + 1].par = Parent
         /\ \A i \in 1..Len(doc) : doc'[i] = doc[i]
         /\ \A i \in 0..Len(doc) : ReadingOf(doc')[i] = ReadingOf(doc)[i]
         /\ ReadingOf(doc')[Len(doc) + 1] = Entered(e, ReadingOf(doc)[Parent])
         /\ Sound(doc') => Sound(doc) /\ Plain(e) /\ Settled(e, ReadingOf(doc)[Parent])
<1> DEFINE x == [elt |-> e, par |-> Parent]
           z == Len(doc)
           b == doc'
<1>1. Parent \in 0..z /\ z \in Nat /\ (open # <<>> => Parent = open[Len(open)] /\ Len(open) \in Nat)
  BY ParentOpen
<1>2. x \in [elt : Elements, par : Nat] /\ x.elt = e /\ x.par = Parent
  BY <1>1
<1>3. doc \in Seq([elt : Elements, par : Nat]) /\ b = Append(doc, x)
  BY DEF OpenInv, StartElement
<1> HIDE DEF x, b
<1>4. /\ b \in Seq([elt : Elements, par : Nat]) /\ Len(b) = z + 1 /\ b # <<>>
      /\ b[z + 1] = x /\ \A i \in 1..z : b[i] = doc[i]
  BY <1>2, <1>3, AppendProperties
<1> HIDE DEF z
<1>5. \A i \in 1..(z + 1) : i \in 1..z \/ i = z + 1
  BY <1>1
<1>6. Tree(doc) /\ Tree(b)
  <2>1. Tree(doc)
    BY DEF OpenInv
  <2>2. \A i \in 1..z : doc[i].par \in 0..(i - 1)
    BY <2>1 DEF Tree, z
  <2>3. ASSUME NEW i \in 1..(z + 1) PROVE b[i].par \in 0..(i - 1)
    <3>1. CASE i \in 1..z
      BY <1>4, <2>2, <3>1
    <3>2. CASE i = z + 1
      BY <1>1, <1>2, <1>4, <3>2
    <3> QED
      BY <1>5, <3>1, <3>2
  <2> QED
    BY <1>1, <1>4, <2>1, <2>3 DEF Tree
<1> DEFINE o == open'
<1>7. open \in Seq(Nat) /\ Len(open) \in Nat /\ o = Append(open, z + 1) /\ z + 1 \in Nat
  <2>1. open \in Seq(Nat) /\ Len(open) \in Nat
    BY DEF OpenInv
  <2>2. o = Append(open, z + 1)
    BY DEF StartElement, z
  <2> QED
    BY <1>1, <2>1, <2>2
<1> HIDE DEF o
<1>8. /\ o \in Seq(Nat) /\ Len(o) = Len(open) + 1 /\ o # <<>>
      /\ o[Len(open) + 1] = z + 1 /\ \A n \in 1..Len(open) : o[n] = open[n]
  BY <1>7, AppendProperties
<1>9. ASSUME NEW n \in 1..Len(o)
      PROVE  o[n] \in 1..Len(b) /\ b[o[n]].par = IF n = 1 THEN 0 ELSE o[n - 1]
  <2>1. CASE n \in 1..Len(open)
    <3>1. open[n] \in 1..z /\ doc[open[n]].par = IF n = 1 THEN 0 ELSE open[n - 1]
      BY <2>1 DEF OpenInv, z
    <3>2. o[n] = open[n] /\ (n # 1 => o[n - 1] = open[n - 1])
      BY <1>7, <1>8, <2>1
    <3>3. b[open[n]] = doc[open[n]] /\ open[n] \in 1..(z + 1)
      BY <1>1, <1>4, <3>1
    <3> QED
      BY <1>4, <3>1, <3>2, <3>3
  <2>2. CASE n = Len(open) + 1
    <3>1. o[n] = z + 1 /\ z + 1 \in 1..Len(b) /\ b[o[n]].par = Parent
      BY <1>1, <1>2, <1>4, <1>8, <2>2
    <3>2. CASE open = <<>>
      <4>1. n = 1 /\ Parent = 0
        BY <2>2, <3>2 DEF Parent
      <4> QED
        BY <3>1, <4>1
    <3>3. CASE open # <<>>
      <4>1. Len(open) \in 1..Len(open)
        BY <3>3, ParentOpen
      <4>2. n # 1 /\ n - 1 = Len(open)
        BY <1>7, <2>2, <4>1
      <4>3. o[n - 1] = open[Len(open)]
        BY <1>8, <4>1, <4>2
      <4> QED
        BY <1>1, <3>1, <3>3, <4>2, <4>3
    <3> QED
      BY <3>2, <3>3
  <2>3. n \in 1..Len(open) \/ n = Len(open) + 1
    BY <1>7, <1>8
  <2> QED
    BY <2>1, <2>2, <2>3
<1>10. OpenInv' /\ Parent' = z + 1
  <2>1. OpenInv'
    BY <1>4, <1>6, <1>8, <1>9 DEF OpenInv, o, b
  <2>2. o[Len(o)] = z + 1
    BY <1>8
  <2>3. Parent' = z + 1
    BY <1>8, <2>2 DEF Parent, Last, o
  <2> QED
    BY <2>1, <2>3
<1>11. \A i \in 0..z : ReadingOf(b)[i] = ReadingOf(doc)[i]
  <2>1. Len(doc) <= Len(b) /\ \A i \in 1..Len(doc) : b[i] = doc[i]
    BY <1>1, <1>4 DEF z
  <2> QED
    BY <1>6, <2>1, ReadingGrows DEF z
<1>12. ReadingOf(b)[z + 1] = Entered(e, ReadingOf(doc)[Parent])
  <2>1. z + 1 \in 1..Len(b)
    BY <1>1, <1>4
  <2>2. ReadingOf(b)[z + 1] = Entered(b[z + 1].elt, ReadingOf(b)[b[z + 1].par])
    BY <1>6, <2>1, ReadingSteps
  <2> QED
    BY <1>1, <1>2, <1>4, <1>11, <2>2
<1>13. ASSUME Sound(b)
       PROVE  Sound(doc) /\ Plain(e) /\ Settled(e, ReadingOf(doc)[Parent])
  <2>1. \A i \in 1..(z + 1) : Plain(b[i].elt) /\ Settled(b[i].elt, ReadingOf(b)[b[i].par])
    BY <1>4, <1>13 DEF Sound
  <2>2. z + 1 \in 1..(z + 1)
    BY <1>1
  <2>3. Plain(e) /\ Settled(e, ReadingOf(doc)[Parent])
    BY <1>1, <1>2, <1>4, <1>11, <2>1, <2>2
  <2>4. ASSUME NEW i \in 1..z
        PROVE  Plain(doc[i].elt) /\ Settled(doc[i].elt, ReadingOf(doc)[doc[i].par])
    <3>1. i \in 1..(z + 1) /\ b[i] = doc[i] /\ doc[i].par \in 0..z
      BY <1>1, <1>4, <1>6 DEF Tree, z
    <3> QED
      BY <1>11, <2>1, <3>1
  <2>5. doc # <<>> => Rooted(doc[1].elt)
    <3>1. SUFFICES ASSUME doc # <<>> PROVE Rooted(doc[1].elt)
      OBVIOUS
    <3>2. 1 \in 1..z
      BY <1>1, <1>3, <3>1, EmptySeq DEF z
    <3>3. Rooted(b[1].elt)
      BY <1>4, <1>13 DEF Sound
    <3> QED
      BY <1>4, <3>2, <3>3
  <2> QED
    BY <2>3, <2>4, <2>5 DEF Sound, z
<1> QED
  BY <1>2, <1>4, <1>10, <1>11, <1>12, <1>13 DEF b, z

LEMMA StartElementKeeps ==
  ASSUME RInv, NEW e \in Elements, StartElement(e)
  PROVE  RInv'
<1>1. OpenInv /\ PathInv
  BY DEF RInv
<1>2. /\ OpenInv' /\ Parent' = Len(doc) + 1 /\ doc' # <<>>
      /\ ReadingOf(doc')[Len(doc) + 1] = Entered(e, ReadingOf(doc)[Parent])
      /\ Sound(doc') => Sound(doc) /\ Plain(e) /\ Settled(e, ReadingOf(doc)[Parent])
  BY <1>1, StartDoc
<1>3. ctx' = ElSta(ctx, e) /\ Running
  BY DEF StartElement
<1>4. ASSUME Sound(doc') PROVE Kept(ctx', Entered(e, ReadingOf(doc)[Parent]).path)
  <2>1. Sound(doc) /\ Plain(e) /\ Settled(e, ReadingOf(doc)[Parent])
    BY <1>2, <1>4
  <2>2. Parent \in 0..Len(doc) /\ Tree(doc) /\ (doc = <<>> => Parent = 0)
    BY <1>1, ParentOpen DEF OpenInv
  <2>3. CASE doc = <<>>
    <3>1. ctx = Fresh
      BY <1>1, <1>3, <2>1, <2>3 DEF PathInv
    <3>2. ReadingOf(doc)[Parent] = Nowhere
      BY <2>2, <2>3, ReadingSteps
    <3>3. 1 = Len(doc) + 1
      BY <2>3
    <3>4. Rooted(e)
      <4>1. Rooted(doc'[1].elt) /\ doc'[1].elt = e
        BY <1>1, <1>2, <1>4, <3>3, StartDoc DEF Sound
      <4> QED
        BY <4>1
    <3> QED
      BY <1>3, <2>1, <3>1, <3>2, <3>4, RootKeeps
  <2>4. CASE doc # <<>>
    <3>1. Along(ctx, ReadingOf(doc)[Parent].path)
      BY <1>1, <1>3, <2>1, <2>4 DEF PathInv
    <3>2. Headed(ReadingOf(doc)[Parent])
      BY <2>2, ReadingHeaded
    <3> QED
      BY <1>3, <2>1, <3>1, <3>2, ElStaKeeps DEF Running
  <2> QED
    BY <2>3, <2>4
<1>5. PathInv'
  BY <1>2, <1>4 DEF PathInv, Running, Kept
<1> QED
  BY <1>2, <1>5 DEF RInv

LEMMA EndElementKeeps ==
  ASSUME RInv, EndElement
  PROVE  RInv'
<1>1. OpenInv /\ PathInv /\ Running /\ open # <<>> /\ doc' = doc
  BY DEF RInv, EndElement
<1>2. /\ Parent \in 1..Len(doc) /\ Parent = open[Len(open)] /\ Len(open) \in 1..Len(open)
      /\ Len(doc) \in Nat /\ Parent = Last(open)
  BY <1>1, ParentOpen DEF Parent
<1>3. ctx' = ElEnd(ctx, doc[Parent].elt) /\ open' = Front(open)
  BY <1>2 DEF EndElement
<1> DEFINE o == open'
           k == Len(open) - 1
<1>4. open \in Seq(Nat) /\ Len(open) \in Nat /\ k \in Nat /\ \A n \in 1..Len(open) : open[n] \in Nat
  BY <1>1, <1>2 DEF OpenInv
<1>5. o \in Seq(Nat) /\ Len(o) = k /\ \A n \in 1..k : o[n] = open[n]
  <2>1. o = SubSeq(open, 1, k)
    BY <1>3 DEF Front
  <2>2. \A n \in 1..k : open[n] \in Nat
    BY <1>4
  <2> HIDE DEF o
  <2>3. /\ o \in Seq(Nat) /\ Len(o) = IF 1 <= k THEN k - 1 + 1 ELSE 0
        /\ \A n \in 1..(k - 1 + 1) : o[n] = open[1 + n - 1]
    <3> HIDE DEF k
    <3> QED
      BY <1>4, <2>1, <2>2, SubSeqProperties
  <2>4. k - 1 + 1 = k /\ \A n \in 1..k : 1 + n - 1 = n
    BY <1>4
  <2> HIDE DEF k
  <2>5. \A n \in 1..k : o[n] = open[n]
    BY <2>3, <2>4
  <2>6. Len(o) = k
    BY <1>4, <2>3, <2>4
  <2> QED
    BY <2>3, <2>5, <2>6
<1> HIDE DEF o
<1>6. \A n \in 1..k : n \in 1..Len(open) /\ (n # 1 => n - 1 \in 1..k)
  BY <1>4
<1>7. \A n \in 1..Len(o) : /\ o[n] \in 1..Len(doc)
                          /\ doc[o[n]].par = IF n = 1 THEN 0 ELSE o[n - 1]
  BY <1>1, <1>5, <1>6 DEF OpenInv
<1>8. OpenInv'
  BY <1>1, <1>5, <1>7 DEF OpenInv, o
<1>9. Parent' = doc[Parent].par
  <2>1. doc[Parent].par = IF Len(open) = 1 THEN 0 ELSE open[k]
    BY <1>1, <1>2 DEF OpenInv
  <2>2. CASE Len(open) = 1
    <3>1. o = <<>>
      BY <1>5, <2>2, EmptySeq
    <3> QED
      BY <2>1, <2>2, <3>1 DEF Parent, o
  <2>3. CASE Len(open) # 1
    <3>1. k \in 1..k
      <4>1. k \in Nat /\ k # 0
        BY <1>4, <2>3
      <4>2. \A n \in Nat : n # 0 => n \in 1..n
        OBVIOUS
      <4> HIDE DEF k
      <4> QED
        BY <4>1, <4>2
    <3>2. o # <<>> /\ o[Len(o)] = open[k]
      BY <1>5, <3>1, EmptySeq
    <3> QED
      BY <2>1, <2>3, <3>2 DEF Parent, Last, o
  <2> QED
    BY <2>2, <2>3
<1>10. ASSUME Sound(doc) PROVE Kept(ctx', ReadingOf(doc)[doc[Parent].par].path)
  <2> DEFINE out == ReadingOf(doc)[doc[Parent].par]
             e   == doc[Parent].elt
  <2>1. doc # <<>>
    BY <1>2
  <2>2. Plain(e) /\ Settled(e, out)
    BY <1>2, <1>10 DEF Sound
  <2>3. Tree(doc) /\ doc[Parent].par \in 0..Len(doc)
    BY <1>1, <1>2 DEF OpenInv, Tree
  <2>4. ReadingOf(doc)[Parent] = Entered(e, out)
    BY <1>2, <2>3, ReadingSteps
  <2>5. Along(ctx, Entered(e, out).path)
    BY <1>1, <1>10, <2>1, <2>4 DEF PathInv
  <2>6. Headed(out)
    BY <2>3, ReadingHeaded
  <2>7. ctx' = ElEnd(ctx, e) /\ ctx.fault = "none"
    BY <1>1, <1>3 DEF Running
  <2> HIDE DEF out, e
  <2>8. Kept(ElEnd(ctx, e), out.path)
    BY <2>2, <2>5, <2>6, <2>7, ElEndKeeps
  <2> QED
    BY <2>7, <2>8 DEF out
<1>11. PathInv'
  <2>1. doc # <<>>
    BY <1>2
  <2> QED
    BY <1>1, <1>9, <1>10, <2>1 DEF PathInv, Running, Kept
<1> QED
  BY <1>8, <1>11 DEF RInv

LEMMA PathSteps ==
  /\ Init => RInv
  /\ RInv /\ [Next]_vars => RInv'
<1>1. Init => RInv
  <2> SUFFICES ASSUME Init PROVE RInv
    OBVIOUS
  <2>1. doc \in Seq([elt : Elements, par : Nat]) /\ open \in Seq(Nat) /\ Len(doc) = 0 /\ Len(open) = 0
    BY EmptySeq DEF Init
  <2>2. OpenInv
    <3>1. 1..0 = {} /\ 0 \in Nat
      OBVIOUS
    <3>2. Tree(doc)
      BY <2>1, <3>1, Zenon DEF Tree
    <3> QED
      BY <2>1, <3>1, <3>2, Zenon DEF OpenInv
  <2>3. PathInv
    BY DEF PathInv, Init
  <2> QED
    BY <2>2, <2>3 DEF RInv
<1>2. RInv /\ [Next]_vars => RInv'
  <2> SUFFICES ASSUME RInv, [Next]_vars PROVE RInv'
    OBVIOUS
  <2>1. CASE EndElement
    BY <2>1, EndElementKeeps
  <2>2. CASE \E e \in Elements : StartElement(e)
    BY <2>2, StartElementKeeps
  <2>3. CASE UNCHANGED vars
    BY <2>3 DEF vars, RInv, OpenInv, PathInv, Running, Parent
  <2> QED
    BY <2>1, <2>2, <2>3 DEF Next
<1> QED
  BY <1>1, <1>2

-----------------------------------------------------------------------------
(* Unless a handler goes wrong, the contexts on the stack are those of the *)
(* elements that are open, each replaced by the block it is optimised to,  *)
(* in every document that uses no prefixes, whose root states the version, *)
(* and whose elements mean nothing one level up unless they do here: el_sta *)
(* and el_end look names up in different contexts.                         *)
THEOREM PathFollowed == Spec => [](Sound(doc) => CtxIsPath)
<1>1. RInv => (Sound(doc) => CtxIsPath)
  <2> SUFFICES ASSUME RInv, Sound(doc), Running
               PROVE  [i \in DOMAIN ctx.state |-> ctx.state[i].otag] = ReadingOf(doc)[Parent].path
    BY DEF CtxIsPath, Reading
  <2>1. CASE doc = <<>>
    <3>1. ctx.state = <<>>
      BY <2>1, FreshFormed DEF RInv, PathInv
    <3>2. Parent = 0 /\ Tree(doc)
      BY <2>1, ParentOpen DEF RInv, OpenInv
    <3>3. ReadingOf(doc)[Parent].path = <<>>
      BY <3>2, ReadingSteps DEF Nowhere
    <3> QED
      BY <3>1, <3>3
  <2>2. CASE doc # <<>>
    BY <2>2 DEF RInv, PathInv, Along, OnPath
  <2> QED
    BY <2>1, <2>2
<1> QED
  BY <1>1, PathSteps, PTL DEF Spec
-----------------------------------------------------------------------------
(* The version *)

LEMMA RegNsStates ==
  ASSUME NEW c, NEW href, Formed(c)
  PROVE  LET d == RegNs(c, NULL, href)
         IN  d.ver = c.ver /\ d.ns[0].nsid \in {c.ns[0].nsid, NsId(href)}
<1> DEFINE new == [pref |-> NULL, href |-> href, nsid |-> NsId(href)]
           d   == RegNs(c, NULL, href)
<1>1. new.nsid = NsId(href)
  OBVIOUS
<1> HIDE DEF new
<1>2. \/ d = c
      \/ d = [c EXCEPT !.ns = [@ EXCEPT ![c.nns] = c.ns[0], ![0] = new], !.nns = @ + 1]
      \/ d = [c EXCEPT !.ns[0] = new]
      \/ d = [c EXCEPT !.ns[c.nns] = new, !.nns = @ + 1]
  BY DEF RegNs, new
<1> HIDE DEF d
<1>3. d.ver = c.ver /\ (d.ns[0] = c.ns[0] \/ d.ns[0] = new)
  <2>1. CASE d = c
    BY <2>1
  <2>2. CASE d = [c EXCEPT !.ns = [@ EXCEPT ![c.nns] = c.ns[0], ![0] = new], !.nns = @ + 1]
    <3>1. d.ver = c.ver /\ d.ns = [c.ns EXCEPT ![c.nns] = c.ns[0], ![0] = new]
      BY <2>2 DEF Formed
    <3> QED
      BY <3>1 DEF Formed
  <2>3. CASE d = [c EXCEPT !.ns[0] = new]
    <3>1. d.ver = c.ver /\ d.ns = [c.ns EXCEPT ![0] = new]
      BY <2>3 DEF Formed
    <3> QED
      BY <3>1 DEF Formed
  <2>4. CASE d = [c EXCEPT !.ns[c.nns] = new, !.nns = @ + 1]
    <3>1. d.ver = c.ver /\ d.ns = [c.ns EXCEPT ![c.nns] = new]
      BY <2>4 DEF Formed
    <3> QED
      BY <3>1 DEF Formed
  <2> QED
    BY <1>2, <2>1, <2>2, <2>3, <2>4
<1> QED
  BY <1>1, <1>3 DEF d

(* The version the first name space has is the one an attribute states     *)
(* that has been looked at.                                                *)
Says(a, v) == Aid(UNK, a.name) \in {XMLNS, V} /\ NsId(a.val) = v

SaidBy(c, as, k) ==
  /\ Formed(c) /\ c.state = <<>>
  /\ c.ns[0].nsid # UNK => \E m \in 1..k : Says(as[m], c.ns[0].nsid)

LEMMA UnkAttrsState ==
  ASSUME NEW e, Plain(e)
  PROVE  LET d == UnkAttrs(Fresh, e.attrs)
         IN  d.ns[0].nsid # UNK => \E m \in 1..Len(e.attrs) : Says(e.attrs[m], d.ns[0].nsid)
<1> DEFINE as == e.attrs
           z  == Len(as)
<1>0. z \in Nat
  BY DEF Plain
<1>p. \A m \in 1..z : as[m].pref = ""
  BY DEF Plain
<1>g. PICK g : UnkAttrsRun(g, Fresh, as)
  BY <1>0, UnkAttrsSteps
<1>1. /\ g[0] = Fresh /\ g[z] = UnkAttrs(Fresh, as)
      /\ \A m \in 1..z : g[m] = ProcUnkAttr(g[m - 1], as[m])
  BY <1>g DEF UnkAttrsRun
<1> HIDE DEF as, z
<1> DEFINE S == {k \in Nat : SaidBy(g[k], as, k)}
<1>2. 0 \in S
  BY <1>1, FreshFormed DEF SaidBy
<1>3. ASSUME NEW k \in 0..(z - 1), k \in S PROVE k + 1 \in S
  <2>1. k + 1 \in 1..z /\ k + 1 \in Nat /\ (k + 1) - 1 = k /\ k + 1 \in 1..(k + 1)
        /\ \A m \in 1..k : m \in 1..(k + 1)
    BY <1>0, <1>3
  <2>2. g[k + 1] = ProcUnkAttr(g[k], as[k + 1]) /\ as[k + 1].pref = ""
    BY <1>1, <1>p, <2>1
  <2> DEFINE c == g[k]
             b == g[k + 1]
             a == as[k + 1]
  <2>3. /\ Formed(c) /\ c.state = <<>>
        /\ c.ns[0].nsid # UNK => \E m \in 1..k : Says(as[m], c.ns[0].nsid)
    BY <1>3 DEF SaidBy
  <2>4. b = ProcUnkAttr(c, a) /\ a.pref = ""
    BY <2>2
  <2> HIDE DEF c, b, a
  <2>5. Formed(b) /\ b.state = <<>>
    BY <2>3, <2>4, UnkAttrKeeps DEF SameStack
  <2>6. LookUp(c, Ctxid(c), a) = Aid(UNK, a.name)
    BY <2>3, <2>4 DEF LookUp, Ctxid
  <2>7. b.ns[0].nsid = c.ns[0].nsid \/ Says(a, b.ns[0].nsid)
    <3>1. CASE b = c
      BY <3>1
    <3>2. CASE b # c
      <4>1. Aid(UNK, a.name) \in {XMLNS, V} /\ b = RegNs(c, NULL, a.val)
        BY <2>4, <2>6, <3>2 DEF ProcUnkAttr, RegAttr
      <4>2. b.ns[0].nsid \in {c.ns[0].nsid, NsId(a.val)}
        BY <2>3, <4>1, RegNsStates
      <4> QED
        BY <4>1, <4>2 DEF Says
    <3> QED
      BY <3>1, <3>2
  <2>8. b.ns[0].nsid # UNK => \E m \in 1..(k + 1) : Says(as[m], b.ns[0].nsid)
    <3>1. CASE b.ns[0].nsid = c.ns[0].nsid
      BY <2>1, <2>3, <3>1
    <3>2. CASE Says(a, b.ns[0].nsid)
      BY <2>1, <3>2 DEF a
    <3> QED
      BY <2>7, <3>1, <3>2
  <2> QED
    BY <2>1, <2>5, <2>8 DEF b, SaidBy
<1> HIDE DEF S
<1>4. z \in S
  <2>1. \A k \in 0..z : k \in S
    BY <1>0, <1>2, <1>3, UpTo
  <2> QED
    BY <1>0, <2>1
<1> QED
  BY <1>1, <1>4 DEF S, SaidBy, as, z

LEMMA DeclareStates ==
  ASSUME NEW e, Plain(e)
  PROVE  LET d == Declare(Fresh, e)
         IN  /\ d.ver = d.ns[0].nsid
             /\ d.ver # UNK =>
                  \/ \E m \in 1..Len(e.attrs) : Says(e.attrs[m], d.ver)
                  \/ e.attrs = <<>> /\ e.name = "FIXML" /\ d.ver = "50_SP2"
<1> DEFINE d == UnkAttrs(Fresh, e.attrs)
           bare == e.attrs = <<>> /\ e.pref = "" /\ e.name = "FIXML"
           f == IF bare THEN [d EXCEPT !.ns[0].nsid = "50_SP2"] ELSE d
           h == Declare(Fresh, e)
<1>1. Formed(d)
  BY FreshFormed, UnkAttrsKeep
<1>2. d.ns[0].nsid # UNK => \E m \in 1..Len(e.attrs) : Says(e.attrs[m], d.ns[0].nsid)
  BY UnkAttrsState
<1>3. h = [f EXCEPT !.ver = f.ns[0].nsid]
  BY DEF Declare
<1> HIDE DEF d, h
<1>4. CASE ~bare
  <2>1. h.ver = d.ns[0].nsid /\ h.ns = d.ns
    BY <1>1, <1>3, <1>4 DEF Formed
  <2> QED
    BY <1>2, <2>1 DEF h
<1>5. CASE bare
  <2>1. f = [d EXCEPT !.ns[0].nsid = "50_SP2"]
    BY <1>5
  <2> HIDE DEF f
  <2>2. f.ns = [d.ns EXCEPT ![0].nsid = "50_SP2"]
        /\ f = [ns |-> f.ns, nns |-> f.nns, state |-> f.state, pool |-> f.pool,
                flds |-> f.flds, f35 |-> f.f35, ver |-> f.ver, fault |-> f.fault]
    BY <1>1, <2>1 DEF Formed
  <2>3. h.ver = f.ns[0].nsid /\ h.ns = f.ns
    BY <1>3, <2>2
  <2>4. f.ns[0] = [d.ns[0] EXCEPT !.nsid = "50_SP2"]
    BY <1>1, <2>2 DEF Formed
  <2>5. h.ver = h.ns[0].nsid
    BY <2>3
  <2>6. \/ f.ns[0].nsid = "50_SP2"
        \/ f.ns[0].nsid = d.ns[0].nsid
    BY <2>4
  <2> QED
    BY <1>2, <1>5, <2>3, <2>5, <2>6 DEF h
<1> QED
  BY <1>4, <1>5

(* Once the root is read the version stays, and a type once it is known.   *)
SameHead(c, d) == d.ver = c.ver /\ d.f35 = c.f35

LEMMA PushStateHead ==
  ASSUME NEW c, NEW id, Formed(c)
  PROVE  SameHead(c, PushState(c, id))
<1> DEFINE d == PushState(c, id)
<1>1. \/ d = Fault(c, "null")
      \/ \E q, s : d = [c EXCEPT !.pool = q, !.state = s]
  BY DEF PushState
<1> HIDE DEF d
<1>2. SameHead(c, d)
  BY <1>1 DEF Fault, Formed, SameHead
<1> QED
  BY <1>2 DEF d

LEMMA SetTypeHead ==
  ASSUME NEW c, NEW id, NEW mty, Formed(c), mty # UNK
  PROVE  SetType(c, id, mty).ver = c.ver /\ SetType(c, id, mty).f35 # UNK
<1> DEFINE d     == SetType(c, id, mty)
           fld   == Fld(MSG_TYPE, "MSGTYP", BATCH, 1, mty, 0)
           first == Fld(MSG_TYPE, "MSGTYP", BATCH, 0, c.f35, 0)
<1>1. \/ d = [c EXCEPT !.f35 = mty]
      \/ c.f35 = BATCH /\ d = [c EXCEPT !.flds = Append(@, fld)]
      \/ d = [c EXCEPT !.flds = <<first>> \o Append(@, fld), !.f35 = BATCH]
  BY DEF SetType
<1> HIDE DEF d, fld, first
<1>2. d.ver = c.ver /\ d.f35 # UNK
  BY <1>1 DEF Formed, BATCH, UNK
<1> QED
  BY <1>2 DEF d

LEMMA CheckRptblkHead ==
  ASSUME NEW c, c.fault = "none" => Formed(c)
  PROVE  SameHead(c, CheckRptblk(c))
<1> DEFINE d == CheckRptblk(c)
<1>1. \/ d = c
      \/ c.fault = "none" /\ d = Fault(c, "index")
      \/ c.fault = "none" /\ \E s : d = [c EXCEPT !.flds = s]
  BY DEF CheckRptblk, UpdRptb
<1> HIDE DEF d
<1>2. SameHead(c, d)
  BY <1>1 DEF Fault, Formed, SameHead
<1> QED
  BY <1>2 DEF d

LEMMA FixmlAttrHead ==
  ASSUME NEW c, NEW a, c.fault = "none" => Formed(c), a.pref = ""
  PROVE  SameHead(c, ProcFixmlAttr(c, a))
<1> DEFINE d == ProcFixmlAttr(c, a)
<1>1. \/ d = c
      \/ c.fault = "none" /\ d = RegNs(c, NULL, a.val)
      \/ c.fault = "none" /\ \E s, q : d = [c EXCEPT !.flds = s, !.state[1] = q]
  <2> DEFINE aid == LookUp(c, Ctxid(c), a)
             h   == BangAttr(c, aid, a.val)
  <2>1. d = c \/ (c.fault = "none" /\ d = RegAttr(c, a)) \/ (c.fault = "none" /\ d = h)
    <3>1. d = CASE c.fault # "none" \/ c.state = <<>> \/ aid = UNK -> c
                [] c.fault = "none" /\ c.state # <<>> /\ aid \in {XMLNS, V} -> RegAttr(c, a)
                [] OTHER -> h
      BY Zenon DEF ProcFixmlAttr
    <3> HIDE DEF d, h, aid
    <3>2. CASE c.fault # "none" \/ c.state = <<>> \/ aid = UNK
      <4>1. ~(c.fault = "none" /\ c.state # <<>> /\ aid \in {XMLNS, V}) \/ aid = UNK
        BY <3>2
      <4> QED
        BY <3>1, <3>2, <4>1 DEF UNK, XMLNS, V
    <3>3. CASE ~(c.fault # "none" \/ c.state = <<>> \/ aid = UNK)
      BY <3>1, <3>3
    <3> QED
      BY <3>2, <3>3
  <2>2. RegAttr(c, a) = RegNs(c, NULL, a.val)
    BY DEF RegAttr
  <2> HIDE DEF aid
  <2>3. \E s, q : h = [c EXCEPT !.flds = s, !.state[1] = q]
    <3> DEFINE s == Append(IF c.flds # <<>> /\ Last(c.flds).tag = aid THEN Front(c.flds) ELSE c.flds,
                           Fld(aid, "OFF", IF Orb(c.state[1].otag) = UNK THEN c.state[1].otag
                                           ELSE Orb(c.state[1].otag), c.state[1].cnt % CntSize, a.val, 0))
               q == [otag |-> IF Orb(c.state[1].otag) = UNK THEN c.state[1].otag
                              ELSE Orb(c.state[1].otag),
                     cnt |-> c.state[1].cnt + 1, cns |-> c.state[1].cns + 1]
    <3>1. h = [c EXCEPT !.flds = s, !.state[1] = q]
      BY Zenon DEF BangAttr
    <3> HIDE DEF h, s, q
    <3> QED
      BY <3>1
  <2> HIDE DEF d, h
  <2> QED
    BY <2>1, <2>2, <2>3
<1> HIDE DEF d
<1>2. CASE d = c
  BY <1>2 DEF d, SameHead
<1>3. CASE c.fault = "none" /\ d = RegNs(c, NULL, a.val)
  <2>1. d.ver = c.ver
    BY <1>3, RegNsStates DEF d
  <2>2. SameStack(c, d)
    BY <1>3, RegNsKeeps DEF d
  <2>3. SameHead(c, d)
    BY <2>1, <2>2 DEF SameHead, SameStack
  <2> QED
    BY <2>3 DEF d
<1>4. CASE c.fault = "none" /\ \E s, q : d = [c EXCEPT !.flds = s, !.state[1] = q]
  <2>1. SameHead(c, d)
    BY <1>4 DEF Formed, SameHead
  <2> QED
    BY <2>1 DEF d
<1> QED
  BY <1>1, <1>2, <1>3, <1>4

LEMMA FixmlAttrsHead ==
  ASSUME NEW c, NEW p, IsSeq(p), NEW e, Plain(e), NEW id, NEW in,
         in = After(id, e, Len(e.attrs)), Kept(c, Pushed(id, p)),
         in # id => Orb(in) = UNK,
         \A n \in 1..Len(e.attrs) : \A x \in {id, in} :
           Aid(x, e.attrs[n].name) \in {XMLNS, V} => NsId(e.attrs[n].val) \in Known
  PROVE  SameHead(c, FixmlAttrs(c, e.attrs))
<1> DEFINE as == e.attrs
           z  == Len(as)
<1>0. Len(e.attrs) \in Nat /\ z \in Nat
  BY DEF Plain
<1>p. \A m \in 1..z : as[m].pref = ""
  BY DEF Plain
<1>g. PICK g : FixmlAttrsRun(g, c, e.attrs)
  BY <1>0, FixmlAttrsSteps
<1>1. g[0] = c /\ g[z] = FixmlAttrs(c, as) /\ \A m \in 1..z : g[m] = ProcFixmlAttr(g[m - 1], as[m])
  BY <1>g DEF FixmlAttrsRun
<1>2. \A k \in 0..z : Kept(g[k], Pushed(After(id, e, k), p))
  BY <1>g, FixmlAttrsAlong
<1>3. \A k \in 0..z : g[k].fault = "none" => Formed(g[k])
  BY <1>2 DEF Kept, Along, Versioned
<1> HIDE DEF as, z
<1> DEFINE S == {k \in Nat : SameHead(c, g[k])}
<1>4. 0 \in S
  BY <1>1 DEF SameHead
<1>5. ASSUME NEW k \in 0..(z - 1), k \in S PROVE k + 1 \in S
  <2>1. k + 1 \in 1..z /\ k + 1 \in Nat /\ (k + 1) - 1 = k /\ k \in 0..z
    BY <1>0, <1>5
  <2>2. g[k + 1] = ProcFixmlAttr(g[k], as[k + 1]) /\ as[k + 1].pref = ""
    BY <1>1, <1>p, <2>1
  <2>3. g[k].fault = "none" => Formed(g[k])
    BY <1>3, <2>1
  <2>4. SameHead(g[k], g[k + 1])
    BY <2>2, <2>3, FixmlAttrHead
  <2> QED
    BY <1>5, <2>1, <2>4 DEF SameHead
<1> HIDE DEF S
<1>6. z \in S
  <2>1. \A k \in 0..z : k \in S
    BY <1>0, <1>4, <1>5, UpTo
  <2> QED
    BY <1>0, <2>1
<1> QED
  BY <1>1, <1>6 DEF S, as

LEMMA SaxBoHead ==
  ASSUME NEW c, NEW e, NEW out, Along(c, out.path), c.fault = "none",
         Headed(out), Plain(e), Settled(e, out)
  PROVE  LET y == Entered(e, out)
             d == SaxBo(c, e)
         IN  /\ d.ver = c.ver /\ (c.f35 # UNK => d.f35 # UNK)
             /\ y.own /\ Cid(out.in, e.name) = UNK => d.f35 # UNK
<1> DEFINE y   == Entered(e, out)
           p   == out.path
           cid == Cid(out.in, e.name)
           mty == Mty(e.name)
           typed == IF cid = UNK THEN SetType(c, out.in, mty) ELSE c
           inner == CheckRptblk(PushState(typed, y.id))
<1>1. Ctxid(c) = out.in
  <2>1. c.state = <<>> <=> p = <<>>
    BY PathTypes DEF Along
  <2>2. c.state # <<>> => c.state[1].otag = p[1]
    BY PathTypes DEF Along
  <2> QED
    BY <2>1, <2>2 DEF Ctxid, Headed, Outer
<1>2. IsSeq(p) /\ Formed(c)
  BY DEF Headed, Along, Versioned
<1>3. y.own => y.id = IF cid # UNK THEN cid ELSE mty
  BY DEF Entered
<1>4. y.own <=> ~(cid = UNK /\ mty = UNK)
  BY DEF Entered
<1>5. CASE ~y.own
  BY <1>1, <1>4, <1>5 DEF SaxBo, FIXML, UNK
<1>6. CASE y.own /\ cid = FIXML
  <2>1. SaxBo(c, e) = PushState(InitCtxcb(c), FIXML)
    BY <1>1, <1>6 DEF SaxBo, FIXML, UNK
  <2> DEFINE d == InitCtxcb(c)
  <2>2. \E q : d = [c EXCEPT !.pool = q]
    BY DEF InitCtxcb
  <2> HIDE DEF d
  <2>3. Formed(d) /\ SameHead(c, d)
    BY <1>2, <2>2 DEF Formed, SameHead
  <2>4. SameHead(c, PushState(d, FIXML))
    BY <2>3, PushStateHead DEF SameHead
  <2> QED
    BY <1>6, <2>1, <2>4 DEF d, SameHead, FIXML, UNK
<1>7. CASE y.own /\ cid # FIXML
  <2>1. SaxBo(c, e) = FixmlAttrs(inner, e.attrs)
    BY <1>1, <1>3, <1>4, <1>7 DEF SaxBo
  <2>2. /\ Along(typed, p) /\ typed.fault = "none" /\ typed.ver = c.ver
        /\ cid = UNK => typed.f35 # UNK
        /\ cid # UNK => typed.f35 = c.f35
    BY <1>2, <1>4, <1>7, SetTypeKeeps, SetTypeHead
  <2> HIDE DEF typed
  <2> DEFINE w == PushState(typed, y.id)
  <2>3. Kept(w, Pushed(y.id, p)) /\ SameHead(typed, w)
    <3>1. Formed(typed)
      BY <2>2 DEF Along, Versioned
    <3> QED
      BY <2>2, <3>1, PushStateKeeps, PushStateHead
  <2> HIDE DEF w
  <2>4. Kept(inner, Pushed(y.id, p)) /\ SameHead(typed, inner)
    <3>1. w.fault = "none" => Formed(w)
      BY <2>3 DEF Kept, Along, Versioned
    <3>2. Kept(CheckRptblk(w), Pushed(y.id, p)) /\ SameHead(typed, CheckRptblk(w))
      BY <2>3, <3>1, CheckRptblkKeeps, CheckRptblkHead DEF SameHead
    <3> QED
      BY <3>2 DEF w
  <2> HIDE DEF inner
  <2>5. y.in = After(y.id, e, Len(e.attrs))
    <3>1. HasFld(y.id, e) <=> \E m \in 1..Len(e.attrs) : Names(y.id, e.attrs[m])
      BY DEF HasFld, Names, Plain
    <3>2. y.in = IF Orb(y.id) # UNK /\ HasFld(y.id, e) THEN Orb(y.id) ELSE y.id
      BY <1>7 DEF Entered
    <3> HIDE DEF y
    <3> QED
      BY <3>1, <3>2 DEF After
  <2>6. /\ y.in # y.id => Orb(y.in) = UNK
        /\ \A n \in 1..Len(e.attrs) : \A x \in {y.id, y.in} :
             Aid(x, e.attrs[n].name) \in {XMLNS, V} => NsId(e.attrs[n].val) \in Known
    BY <1>7 DEF Settled
  <2> HIDE DEF y
  <2>7. SameHead(inner, FixmlAttrs(inner, e.attrs))
    BY <1>2, <2>4, <2>5, <2>6, FixmlAttrsHead
  <2> QED
    BY <2>1, <2>2, <2>4, <2>7 DEF SameHead
<1> QED
  BY <1>5, <1>6, <1>7

LEMMA ElEndHead ==
  ASSUME NEW c, NEW e, Formed(c)
  PROVE  SameHead(c, ElEnd(c, e))
<1> DEFINE d == ElEnd(c, e)
<1>1. d = c \/ d = PopState(c) \/ \E what \in {"null", "abort"} : d = Fault(c, what)
  BY DEF ElEnd, SaxEo
<1> HIDE DEF d
<1>2. SameHead(c, d)
  BY <1>1 DEF PopState, Fault, Formed, SameHead
<1> QED
  BY <1>2 DEF d

LEMMA RootHead ==
  ASSUME NEW e, Plain(e), Rooted(e), Settled(e, Nowhere)
  PROVE  /\ ElSta(Fresh, e).ver = Declare(Fresh, e).ver
         /\ Entered(e, Nowhere).own /\ Cid(UNK, e.name) = UNK => ElSta(Fresh, e).f35 # UNK
<1> DEFINE d == Declare(Fresh, e)
<1>1. Formed(d) /\ SameStack(Fresh, d)
  BY DeclareKeeps, FreshFormed
<1>2. PrefToNs(Fresh, e.pref) = 0
  BY NoPrefix, FreshFormed DEF Plain
<1>3. Fresh.ns[0].nsid \notin Known
  BY FreshFormed DEF Known, Ptx, UNK
<1>4. d.ns[0].nsid \in Known
  BY DEF Rooted
<1>5. ElSta(Fresh, e) = SaxBo(d, e)
  BY <1>2, <1>3, <1>4 DEF ElSta, NoIdx, BadPref
<1> HIDE DEF d
<1>6. OnPath(<<>>, <<>>) /\ IsSeq(<<>>)
  BY EmptySeq DEF OnPath, IsSeq
<1>7. d.state = <<>> /\ d.fault = "none"
  BY <1>1, FreshFormed DEF SameStack
<1>8. Along(d, Nowhere.path)
  BY <1>1, <1>4, <1>6, <1>7 DEF Along, Versioned, Nowhere
<1>9. Headed(Nowhere)
  BY <1>6 DEF Headed, Nowhere, Outer
<1>10. /\ SaxBo(d, e).ver = d.ver
       /\ Entered(e, Nowhere).own /\ Cid(Nowhere.in, e.name) = UNK => SaxBo(d, e).f35 # UNK
  BY <1>7, <1>8, <1>9, SaxBoHead
<1>11. Nowhere.in = UNK
  BY DEF Nowhere
<1> QED
  BY <1>5, <1>10, <1>11 DEF d

VersionInv ==
  Sound(doc) /\ Running /\ doc # <<>> => ctx.ver = Declare(Fresh, doc[1].elt).ver

LEMMA StartElementVersion ==
  ASSUME RInv, VersionInv, NEW e \in Elements, StartElement(e)
  PROVE  VersionInv'
<1> SUFFICES ASSUME Sound(doc'), Running'
             PROVE  ctx'.ver = Declare(Fresh, doc'[1].elt).ver
  BY DEF VersionInv
<1> DEFINE out == ReadingOf(doc)[Parent]
<1>1. OpenInv /\ PathInv /\ Running /\ ctx' = ElSta(ctx, e)
  BY DEF RInv, StartElement
<1>2. /\ Sound(doc) /\ Plain(e) /\ Settled(e, out) /\ doc' # <<>>
      /\ doc'[Len(doc) + 1].elt = e /\ \A i \in 1..Len(doc) : doc'[i] = doc[i]
  BY <1>1, StartDoc
<1>3. Parent \in 0..Len(doc) /\ Len(doc) \in Nat /\ Tree(doc) /\ (doc = <<>> => Parent = 0)
  BY <1>1, ParentOpen DEF OpenInv
<1>4. CASE doc = <<>>
  <2>1. ctx = Fresh
    BY <1>1, <1>2, <1>4 DEF PathInv
  <2>2. out = Nowhere
    BY <1>3, <1>4, ReadingSteps
  <2>3. doc'[1].elt = e
    <3>1. 1 = Len(doc) + 1
      BY <1>4
    <3> QED
      BY <1>2, <3>1
  <2>4. Rooted(e)
    BY <1>2, <2>3 DEF Sound
  <2> HIDE DEF out
  <2> QED
    BY <1>1, <1>2, <2>1, <2>2, <2>3, <2>4, RootHead
<1>5. CASE doc # <<>>
  <2>1. Along(ctx, out.path) /\ ctx.fault = "none"
    BY <1>1, <1>2, <1>5 DEF PathInv, Running
  <2>2. Headed(out)
    BY <1>3, ReadingHeaded
  <2> HIDE DEF out
  <2>3. PrefToNs(ctx, e.pref) = 0 /\ 0 \in DOMAIN ctx.ns /\ ctx.ns[0].nsid \in Known
    BY <1>2, <2>1, NoPrefix DEF Along, Versioned, Formed, Plain
  <2>4. ElSta(ctx, e) = SaxBo(ctx, e)
    BY <2>3 DEF ElSta, NoIdx, BadPref
  <2>5. ctx'.ver = ctx.ver
    BY <1>1, <1>2, <2>1, <2>2, <2>4, SaxBoHead
  <2>6. doc'[1] = doc[1]
    <3>1. 1 \in 1..Len(doc)
      <4>1. doc \in Seq([elt : Elements, par : Nat])
        BY <1>1 DEF OpenInv
      <4> QED
        BY <1>3, <1>5, <4>1, EmptySeq
    <3> QED
      BY <1>2, <3>1
  <2> QED
    BY <1>1, <1>2, <1>5, <2>5, <2>6 DEF VersionInv
<1> QED
  BY <1>4, <1>5

LEMMA EndElementVersion ==
  ASSUME RInv, VersionInv, EndElement
  PROVE  VersionInv'
<1> SUFFICES ASSUME Sound(doc), doc # <<>>
             PROVE  ctx'.ver = Declare(Fresh, doc[1].elt).ver
  BY DEF VersionInv, EndElement
<1>1. PathInv /\ Running /\ ctx' = ElEnd(ctx, doc[Last(open)].elt)
  BY DEF RInv, EndElement
<1>2. Formed(ctx)
  BY <1>1 DEF PathInv, Along, Versioned
<1>3. ctx'.ver = ctx.ver
  BY <1>1, <1>2, ElEndHead DEF SameHead
<1> QED
  BY <1>1, <1>3 DEF VersionInv

(* Among some of the first n numbers one is the greatest. *)
LEMMA MaxIn ==
  ASSUME NEW n \in Nat, NEW S \in SUBSET (1..n), S # {}
  PROVE  Max(S) \in S
<1> DEFINE T == {k \in Nat : \A i \in S : i <= k}
<1>1. n \in T /\ T \in SUBSET Nat /\ T # {}
  OBVIOUS
<1>2. PICK k \in T : \A j \in T : k <= j
  BY <1>1, LeastElement
<1>3. k \in S
  <2>1. SUFFICES ASSUME k \notin S PROVE FALSE
    OBVIOUS
  <2>2. \A i \in S : i \in Nat /\ i >= 1 /\ i <= k /\ i # k
    BY <1>2, <2>1
  <2>3. k \in Nat /\ k - 1 \in Nat /\ \A i \in S : i <= k - 1
    <3>1. k \in Nat /\ k >= 1
      <4>1. k \in Nat
        BY <1>2
      <4>2. PICK i \in S : i \in Nat /\ i >= 1 /\ i <= k
        BY <2>2
      <4> HIDE DEF T
      <4> QED
        BY <4>1, <4>2
    <3>2. \A i \in Nat : i <= k /\ i # k => i <= k - 1
      BY <3>1
    <3> HIDE DEF T
    <3> QED
      BY <2>2, <3>1, <3>2
  <2>4. k - 1 \in T
    BY <2>3
  <2> QED
    BY <1>2, <2>3, <2>4
<1>4. \A y \in S : k >= y
  BY <1>2
<1>5. Max(S) = CHOOSE x \in S : \A y \in S : x >= y
  BY DEF Max
<1> QED
  BY <1>3, <1>4, <1>5

(* The root states one version, once or more than once, and its attributes *)
(* xmlns and v, and no others, are known as what they are.                 *)
OneVersion(d) ==
  d # <<>> =>
    LET as == d[1].elt.attrs
    IN  /\ \A i \in 1..Len(as) :
             as[i].name \in {"xmlns", "v"} <=> Aid(UNK, as[i].name) \in {XMLNS, V}
        /\ \A i, j \in 1..Len(as) :
             Declares(as[i]) /\ Declares(as[j]) => NsId(as[i].val) = NsId(as[j].val)

(* The version of the message is that which the root states, through every *)
(* declaration the name spaces are sorted by and whatever elements declare *)
(* that follow.                                                            *)
THEOREM VersionFollowed == Spec => [](Sound(doc) /\ OneVersion(doc) => VersionStated)
<1>1. Init => VersionInv
  BY DEF Init, VersionInv
<1>2. RInv /\ VersionInv /\ [Next]_vars => VersionInv'
  <2> SUFFICES ASSUME RInv, VersionInv, [Next]_vars PROVE VersionInv'
    OBVIOUS
  <2>1. CASE EndElement
    BY <2>1, EndElementVersion
  <2>2. CASE \E e \in Elements : StartElement(e)
    BY <2>2, StartElementVersion
  <2>3. CASE UNCHANGED vars
    BY <2>3 DEF vars, VersionInv, Running
  <2> QED
    BY <2>1, <2>2, <2>3 DEF Next
<1>3. RInv /\ VersionInv => (Sound(doc) /\ OneVersion(doc) => VersionStated)
  <2> SUFFICES ASSUME RInv, VersionInv, Sound(doc), OneVersion(doc), Running, doc # <<>>
               PROVE  VersionStated
    BY DEF VersionStated
  <2> DEFINE e    == doc[1].elt
             as   == e.attrs
             z    == Len(as)
             says == {i \in DOMAIN as : Declares(as[i])}
             v    == ctx.ver
  <2>1. Plain(e) /\ Rooted(e)
    <3>1. 1 \in 1..Len(doc)
      <4>1. doc \in Seq([elt : Elements, par : Nat]) /\ Len(doc) \in Nat
        BY DEF RInv, OpenInv
      <4> QED
        BY <4>1, EmptySeq
    <3> QED
      BY <3>1 DEF Sound
  <2>2. z \in Nat /\ DOMAIN as = 1..z /\ \A i \in 1..z : as[i].pref = ""
    BY <2>1 DEF Plain
  <2>3. v = Declare(Fresh, e).ver
    BY DEF VersionInv
  <2>4. /\ v \in Known /\ v # UNK
        /\ \/ \E m \in 1..z : Says(as[m], v)
           \/ as = <<>> /\ e.name = "FIXML" /\ v = "50_SP2"
    <3>1. v = Declare(Fresh, e).ns[0].nsid
      BY <2>1, <2>3, DeclareStates
    <3>2. v \in Known /\ v # UNK
      BY <2>1, <3>1 DEF Rooted, Known, Ptx, UNK
    <3> QED
      BY <2>1, <2>3, <3>2, DeclareStates
  <2>5. /\ \A i \in 1..z : as[i].name \in {"xmlns", "v"} <=> Aid(UNK, as[i].name) \in {XMLNS, V}
        /\ \A i, j \in 1..z : Declares(as[i]) /\ Declares(as[j]) => NsId(as[i].val) = NsId(as[j].val)
    BY DEF OneVersion
  <2>6. v = IF says # {} THEN NsId(as[Max(says)].val)
            ELSE IF as = <<>> /\ e.name = "FIXML" THEN "50_SP2" ELSE UNK
    <3> HIDE DEF e, as, z, v
    <3>1. ASSUME NEW m \in 1..z, Says(as[m], v)
          PROVE  says # {} /\ v = NsId(as[Max(says)].val)
      <4>1. m \in says /\ NsId(as[m].val) = v
        BY <2>2, <2>4, <2>5, <3>1 DEF Says, Declares, IsDecl
      <4>2. Max(says) \in says
        BY <2>2, <4>1, MaxIn
      <4> QED
        BY <2>2, <2>5, <4>1, <4>2
    <3>2. CASE as = <<>> /\ e.name = "FIXML" /\ v = "50_SP2"
      <4>1. says = {}
        BY <3>2
      <4> QED
        BY <3>2, <4>1
    <3> QED
      BY <2>4, <3>1, <3>2
  <2> QED
    BY <2>6 DEF VersionStated
<1> QED
  BY <1>1, <1>2, <1>3, PathSteps, PTL DEF Spec
-----------------------------------------------------------------------------
(* What fields and attributes say *)

(* OffsOf goes over the fields one after the other. *)
IsOffsLoop(g, s, n) == g = [m \in 0..n |-> IF m = 0 THEN <<>> ELSE Noted(g[m - 1], s[m])]
OffsRun(g, s) ==
  /\ g[0] = <<>> /\ g[Len(s)] = OffsOf(s)
  /\ \A m \in 1..Len(s) : g[m] = Noted(g[m - 1], s[m])

LEMMA OffsOfSteps ==
  ASSUME NEW s, Len(s) \in Nat
  PROVE  \E g : OffsRun(g, s)
<1> DEFINE S == {k \in Nat : \E g : IsOffsLoop(g, s, k)}
           z == Len(s)
<1>0. z \in Nat
  OBVIOUS
<1> HIDE DEF z
<1>1. 0 \in S
  <2> DEFINE g == [m \in 0..0 |-> <<>>]
  <2>1. \A m \in 0..0 : m = 0
    OBVIOUS
  <2>2. g = [m \in 0..0 |-> IF m = 0 THEN <<>> ELSE Noted(g[m - 1], s[m])]
    BY <2>1, Zenon
  <2> QED
    BY <2>2 DEF IsOffsLoop
<1>2. ASSUME NEW k \in 0..(z - 1), k \in S PROVE k + 1 \in S
  <2>1. PICK f : IsOffsLoop(f, s, k)
    BY <1>2
  <2> DEFINE last == Noted(f[k], s[k + 1])
             g == [m \in 0..(k + 1) |-> IF m <= k THEN f[m] ELSE last]
  <2>2. ASSUME NEW m \in 0..(k + 1)
        PROVE  g[m] = IF m = 0 THEN <<>> ELSE Noted(g[m - 1], s[m])
    <3>1. CASE m <= k
      <4>1. m \in 0..k /\ (m # 0 => m - 1 \in 0..(k + 1) /\ m - 1 <= k)
        BY <1>2, <3>1
      <4>2. f[m] = IF m = 0 THEN <<>> ELSE Noted(f[m - 1], s[m])
        BY <2>1, <4>1, Zenon DEF IsOffsLoop
      <4>3. g[m] = f[m] /\ (m # 0 => g[m - 1] = f[m - 1])
        BY <3>1, <4>1
      <4> HIDE DEF g
      <4> QED
        BY <4>2, <4>3, Zenon
    <3>2. CASE m = k + 1
      <4>1. ~(m <= k) /\ m # 0 /\ m - 1 = k /\ k \in 0..(k + 1) /\ k <= k
        BY <1>2, <3>2
      <4>2. g[m] = last /\ g[m - 1] = f[k]
        BY <4>1
      <4> HIDE DEF g
      <4> QED
        BY <3>2, <4>1, <4>2, Zenon
    <3> QED
      BY <1>2, <3>1, <3>2
  <2>3. g = [m \in 0..(k + 1) |-> g[m]]
    BY Zenon
  <2> HIDE DEF g
  <2>4. g = [m \in 0..(k + 1) |-> IF m = 0 THEN <<>> ELSE Noted(g[m - 1], s[m])]
    BY <2>2, <2>3, Zenon
  <2>5. IsOffsLoop(g, s, k + 1)
    BY <2>4, Zenon DEF IsOffsLoop
  <2>6. k + 1 \in Nat
    BY <1>2
  <2> QED
    BY <2>5, <2>6, Zenon
<1> HIDE DEF S
<1>3. z \in S
  <2>1. \A k \in 0..z : k \in S
    BY <1>0, <1>1, <1>2, UpTo
  <2> QED
    BY <1>0, <2>1
<1> DEFINE g == CHOOSE h : IsOffsLoop(h, s, z)
<1>4. IsOffsLoop(g, s, z)
  BY <1>3 DEF S
<1>5. OffsOf(s) = g[z]
  BY Zenon DEF OffsOf, IsOffsLoop, z
<1> HIDE DEF g
<1>6. 0 \in 0..z /\ \A m \in 1..z : m \in 0..z /\ m # 0
  BY <1>0
<1>7. \A m \in 0..z : g[m] = IF m = 0 THEN <<>> ELSE Noted(g[m - 1], s[m])
  BY <1>4, Zenon DEF IsOffsLoop
<1>8. g[0] = <<>> /\ g[z] = OffsOf(s) /\ \A m \in 1..z : g[m] = Noted(g[m - 1], s[m])
  BY <1>5, <1>6, <1>7, Zenon
<1>9. OffsRun(g, s)
  BY <1>8 DEF OffsRun, z
<1> QED
  BY <1>9

(* MeantBy goes over the attributes. *)
IsMeantLoop(g, e, y, o, n) == g = [m \in 0..n |-> IF m = 0 THEN o ELSE Meant(g[m - 1], y, e.attrs[m])]
MeantRun(g, e, y, o) ==
  /\ g[0] = o /\ g[Len(e.attrs)] = MeantBy(e, y, o)
  /\ \A m \in 1..Len(e.attrs) : g[m] = Meant(g[m - 1], y, e.attrs[m])

LEMMA MeantBySteps ==
  ASSUME NEW e, NEW y, NEW o, Len(e.attrs) \in Nat
  PROVE  \E g : MeantRun(g, e, y, o)
<1> DEFINE S == {k \in Nat : \E g : IsMeantLoop(g, e, y, o, k)}
           z == Len(e.attrs)
<1>0. z \in Nat
  OBVIOUS
<1> HIDE DEF z
<1>1. 0 \in S
  <2> DEFINE g == [m \in 0..0 |-> o]
  <2>1. \A m \in 0..0 : m = 0
    OBVIOUS
  <2>2. g = [m \in 0..0 |-> IF m = 0 THEN o ELSE Meant(g[m - 1], y, e.attrs[m])]
    BY <2>1, Zenon
  <2> QED
    BY <2>2 DEF IsMeantLoop
<1>2. ASSUME NEW k \in 0..(z - 1), k \in S PROVE k + 1 \in S
  <2>1. PICK f : IsMeantLoop(f, e, y, o, k)
    BY <1>2
  <2> DEFINE last == Meant(f[k], y, e.attrs[k + 1])
             g == [m \in 0..(k + 1) |-> IF m <= k THEN f[m] ELSE last]
  <2>2. ASSUME NEW m \in 0..(k + 1)
        PROVE  g[m] = IF m = 0 THEN o ELSE Meant(g[m - 1], y, e.attrs[m])
    <3>1. CASE m <= k
      <4>1. m \in 0..k /\ (m # 0 => m - 1 \in 0..(k + 1) /\ m - 1 <= k)
        BY <1>2, <3>1
      <4>2. f[m] = IF m = 0 THEN o ELSE Meant(f[m - 1], y, e.attrs[m])
        BY <2>1, <4>1, Zenon DEF IsMeantLoop
      <4>3. g[m] = f[m] /\ (m # 0 => g[m - 1] = f[m - 1])
        BY <3>1, <4>1
      <4> HIDE DEF g
      <4> QED
        BY <4>2, <4>3, Zenon
    <3>2. CASE m = k + 1
      <4>1. ~(m <= k) /\ m # 0 /\ m - 1 = k /\ k \in 0..(k + 1) /\ k <= k
        BY <1>2, <3>2
      <4>2. g[m] = last /\ g[m - 1] = f[k]
        BY <4>1
      <4> HIDE DEF g
      <4> QED
        BY <3>2, <4>1, <4>2, Zenon
    <3> QED
      BY <1>2, <3>1, <3>2
  <2>3. g = [m \in 0..(k + 1) |-> g[m]]
    BY Zenon
  <2> HIDE DEF g
  <2>4. g = [m \in 0..(k + 1) |-> IF m = 0 THEN o ELSE Meant(g[m - 1], y, e.attrs[m])]
    BY <2>2, <2>3, Zenon
  <2>5. IsMeantLoop(g, e, y, o, k + 1)
    BY <2>4, Zenon DEF IsMeantLoop
  <2>6. k + 1 \in Nat
    BY <1>2
  <2> QED
    BY <2>5, <2>6, Zenon
<1> HIDE DEF S
<1>3. z \in S
  <2>1. \A k \in 0..z : k \in S
    BY <1>0, <1>1, <1>2, UpTo
  <2> QED
    BY <1>0, <2>1
<1> DEFINE g == CHOOSE h : IsMeantLoop(h, e, y, o, z)
<1>4. IsMeantLoop(g, e, y, o, z)
  BY <1>3 DEF S
<1>5. MeantBy(e, y, o) = g[z]
  BY Zenon DEF MeantBy, IsMeantLoop, z
<1> HIDE DEF g
<1>6. 0 \in 0..z /\ \A m \in 1..z : m \in 0..z /\ m # 0
  BY <1>0
<1>7. \A m \in 0..z : g[m] = IF m = 0 THEN o ELSE Meant(g[m - 1], y, e.attrs[m])
  BY <1>4, Zenon DEF IsMeantLoop
<1>8. g[0] = o /\ g[z] = MeantBy(e, y, o) /\ \A m \in 1..z : g[m] = Meant(g[m - 1], y, e.attrs[m])
  BY <1>5, <1>6, <1>7, Zenon
<1>9. MeantRun(g, e, y, o)
  BY <1>8 DEF MeantRun, z
<1> QED
  BY <1>9

(* AttrsOf goes over the elements. *)
IsAttrsLoop(g, d, n) == g = [m \in 0..n |-> IF m = 0 THEN <<>> ELSE MeantBy(d[m].elt, ReadingOf(d)[m], g[m - 1])]
AttrsRun(g, d) ==
  /\ g[0] = <<>> /\ g[Len(d)] = AttrsOf(d)
  /\ \A m \in 1..Len(d) : g[m] = MeantBy(d[m].elt, ReadingOf(d)[m], g[m - 1])

LEMMA AttrsOfSteps ==
  ASSUME NEW d, Len(d) \in Nat
  PROVE  \E g : AttrsRun(g, d)
<1> DEFINE S == {k \in Nat : \E g : IsAttrsLoop(g, d, k)}
           z == Len(d)
<1>0. z \in Nat
  OBVIOUS
<1> HIDE DEF z
<1>1. 0 \in S
  <2> DEFINE g == [m \in 0..0 |-> <<>>]
  <2>1. \A m \in 0..0 : m = 0
    OBVIOUS
  <2>2. g = [m \in 0..0 |-> IF m = 0 THEN <<>> ELSE MeantBy(d[m].elt, ReadingOf(d)[m], g[m - 1])]
    BY <2>1, Zenon
  <2> QED
    BY <2>2 DEF IsAttrsLoop
<1>2. ASSUME NEW k \in 0..(z - 1), k \in S PROVE k + 1 \in S
  <2>1. PICK f : IsAttrsLoop(f, d, k)
    BY <1>2
  <2> DEFINE last == MeantBy(d[k + 1].elt, ReadingOf(d)[k + 1], f[k])
             g == [m \in 0..(k + 1) |-> IF m <= k THEN f[m] ELSE last]
  <2>2. ASSUME NEW m \in 0..(k + 1)
        PROVE  g[m] = IF m = 0 THEN <<>> ELSE MeantBy(d[m].elt, ReadingOf(d)[m], g[m - 1])
    <3>1. CASE m <= k
      <4>1. m \in 0..k /\ (m # 0 => m - 1 \in 0..(k + 1) /\ m - 1 <= k)
        BY <1>2, <3>1
      <4>2. f[m] = IF m = 0 THEN <<>> ELSE MeantBy(d[m].elt, ReadingOf(d)[m], f[m - 1])
        BY <2>1, <4>1, Zenon DEF IsAttrsLoop
      <4>3. g[m] = f[m] /\ (m # 0 => g[m - 1] = f[m - 1])
        BY <3>1, <4>1
      <4> HIDE DEF g
      <4> QED
        BY <4>2, <4>3, Zenon
    <3>2. CASE m = k + 1
      <4>1. ~(m <= k) /\ m # 0 /\ m - 1 = k /\ k \in 0..(k + 1) /\ k <= k
        BY <1>2, <3>2
      <4>2. g[m] = last /\ g[m - 1] = f[k]
        BY <4>1
      <4> HIDE DEF g
      <4> QED
        BY <3>2, <4>1, <4>2, Zenon
    <3> QED
      BY <1>2, <3>1, <3>2
  <2>3. g = [m \in 0..(k + 1) |-> g[m]]
    BY Zenon
  <2> HIDE DEF g
  <2>4. g = [m \in 0..(k + 1) |-> IF m = 0 THEN <<>> ELSE MeantBy(d[m].elt, ReadingOf(d)[m], g[m - 1])]
    BY <2>2, <2>3, Zenon
  <2>5. IsAttrsLoop(g, d, k + 1)
    BY <2>4, Zenon DEF IsAttrsLoop
  <2>6. k + 1 \in Nat
    BY <1>2
  <2> QED
    BY <2>5, <2>6, Zenon
<1> HIDE DEF S
<1>3. z \in S
  <2>1. \A k \in 0..z : k \in S
    BY <1>0, <1>1, <1>2, UpTo
  <2> QED
    BY <1>0, <2>1
<1> DEFINE g == CHOOSE h : IsAttrsLoop(h, d, z)
<1>4. IsAttrsLoop(g, d, z)
  BY <1>3 DEF S
<1>5. AttrsOf(d) = g[z]
  BY Zenon DEF AttrsOf, IsAttrsLoop, z
<1> HIDE DEF g
<1>6. 0 \in 0..z /\ \A m \in 1..z : m \in 0..z /\ m # 0
  BY <1>0
<1>7. \A m \in 0..z : g[m] = IF m = 0 THEN <<>> ELSE MeantBy(d[m].elt, ReadingOf(d)[m], g[m - 1])
  BY <1>4, Zenon DEF IsAttrsLoop
<1>8. g[0] = <<>> /\ g[z] = AttrsOf(d) /\ \A m \in 1..z : g[m] = MeantBy(d[m].elt, ReadingOf(d)[m], g[m - 1])
  BY <1>5, <1>6, <1>7, Zenon
<1>9. AttrsRun(g, d)
  BY <1>8 DEF AttrsRun, z
<1> QED
  BY <1>9

Alike(f, h) == f.typ = h.typ /\ f.tag = h.tag /\ f.val = h.val /\ f.tpc = h.tpc

(* Fields that say the same. *)
LEMMA OffsSame ==
  ASSUME NEW s, NEW t, Len(s) \in Nat, Len(t) = Len(s), \A n \in 1..Len(s) : Alike(t[n], s[n])
  PROVE  OffsOf(t) = OffsOf(s)
<1> DEFINE z == Len(s)
<1>1. PICK g : OffsRun(g, s)
  BY OffsOfSteps
<1>2. PICK h : OffsRun(h, t)
  BY OffsOfSteps
<1>3. /\ g[0] = <<>> /\ g[z] = OffsOf(s) /\ \A m \in 1..z : g[m] = Noted(g[m - 1], s[m])
      /\ h[0] = <<>> /\ h[z] = OffsOf(t) /\ \A m \in 1..z : h[m] = Noted(h[m - 1], t[m])
  BY <1>1, <1>2 DEF OffsRun
<1>4. z \in Nat /\ \A n \in 1..z : Alike(t[n], s[n])
  OBVIOUS
<1> HIDE DEF z
<1> DEFINE S == {k \in Nat : h[k] = g[k]}
<1>5. 0 \in S
  BY <1>3
<1>6. ASSUME NEW k \in 0..(z - 1), k \in S PROVE k + 1 \in S
  <2>1. k + 1 \in 1..z /\ k + 1 \in Nat /\ (k + 1) - 1 = k
    BY <1>4, <1>6
  <2>2. h[k + 1] = Noted(g[k], t[k + 1]) /\ g[k + 1] = Noted(g[k], s[k + 1])
    BY <1>3, <1>6, <2>1
  <2>3. h[k + 1] = g[k + 1]
    BY <1>4, <2>1, <2>2 DEF Noted, Alike
  <2> QED
    BY <2>1, <2>3
<1> HIDE DEF S
<1>7. z \in S
  <2>1. \A k \in 0..z : k \in S
    BY <1>4, <1>5, <1>6, UpTo
  <2> QED
    BY <1>4, <2>1
<1> QED
  BY <1>3, <1>7 DEF S

(* One more field. *)
LEMMA OffsLonger ==
  ASSUME NEW s, NEW t, Len(s) \in Nat, Len(t) = Len(s) + 1, \A n \in 1..Len(s) : t[n] = s[n]
  PROVE  OffsOf(t) = Noted(OffsOf(s), t[Len(s) + 1])
<1> DEFINE z == Len(s)
<1>1. PICK g : OffsRun(g, s)
  BY OffsOfSteps
<1>2. Len(t) \in Nat
  OBVIOUS
<1>h. PICK h : OffsRun(h, t)
  BY <1>2, OffsOfSteps
<1>3. /\ g[0] = <<>> /\ g[z] = OffsOf(s) /\ \A m \in 1..z : g[m] = Noted(g[m - 1], s[m])
      /\ h[0] = <<>> /\ h[z + 1] = OffsOf(t) /\ \A m \in 1..(z + 1) : h[m] = Noted(h[m - 1], t[m])
  BY <1>1, <1>h DEF OffsRun
<1>4. z \in Nat /\ \A n \in 1..z : t[n] = s[n]
  OBVIOUS
<1> HIDE DEF z
<1> DEFINE S == {k \in Nat : h[k] = g[k]}
<1>5. 0 \in S
  BY <1>3
<1>6. ASSUME NEW k \in 0..(z - 1), k \in S PROVE k + 1 \in S
  <2>1. k + 1 \in 1..z /\ k + 1 \in 1..(z + 1) /\ k + 1 \in Nat /\ (k + 1) - 1 = k
    BY <1>4, <1>6
  <2>2. h[k + 1] = Noted(g[k], t[k + 1]) /\ g[k + 1] = Noted(g[k], s[k + 1])
    BY <1>3, <1>6, <2>1
  <2>3. h[k + 1] = g[k + 1]
    BY <1>4, <2>1, <2>2
  <2> QED
    BY <2>1, <2>3
<1> HIDE DEF S
<1>7. z \in S
  <2>1. \A k \in 0..z : k \in S
    BY <1>4, <1>5, <1>6, UpTo
  <2> QED
    BY <1>4, <2>1
<1>8. h[z] = g[z]
  BY <1>7 DEF S
<1>9. z + 1 \in 1..(z + 1) /\ (z + 1) - 1 = z
  BY <1>4
<1>10. h[z + 1] = Noted(g[z], t[z + 1])
  BY <1>3, <1>8, <1>9
<1> QED
  BY <1>3, <1>10 DEF z

(* A field in front that says nothing. *)
LEMMA OffsAfter ==
  ASSUME NEW s, NEW t, Len(s) \in Nat, Len(t) = Len(s) + 1, t[1].typ # "OFF",
         \A n \in 1..Len(s) : t[n + 1] = s[n]
  PROVE  OffsOf(t) = OffsOf(s)
<1> DEFINE z == Len(s)
<1>1. PICK g : OffsRun(g, s)
  BY OffsOfSteps
<1>2. Len(t) \in Nat
  OBVIOUS
<1>h. PICK h : OffsRun(h, t)
  BY <1>2, OffsOfSteps
<1>3. /\ g[0] = <<>> /\ g[z] = OffsOf(s) /\ \A m \in 1..z : g[m] = Noted(g[m - 1], s[m])
      /\ h[0] = <<>> /\ h[z + 1] = OffsOf(t) /\ \A m \in 1..(z + 1) : h[m] = Noted(h[m - 1], t[m])
  BY <1>1, <1>h DEF OffsRun
<1>4. z \in Nat /\ \A n \in 1..z : t[n + 1] = s[n]
  OBVIOUS
<1> HIDE DEF z
<1> DEFINE S == {k \in Nat : h[k + 1] = g[k]}
<1>5. 0 \in S
  <2>1. 1 \in 1..(z + 1) /\ 1 - 1 = 0 /\ 0 + 1 = 1
    BY <1>4
  <2>2. h[1] = Noted(<<>>, t[1])
    BY <1>3, <2>1
  <2>3. h[1] = <<>>
    BY <2>2 DEF Noted
  <2> QED
    BY <1>3, <2>1, <2>3
<1>6. ASSUME NEW k \in 0..(z - 1), k \in S PROVE k + 1 \in S
  <2>1. k + 1 \in 1..z /\ (k + 1) + 1 \in 1..(z + 1) /\ k + 1 \in Nat /\ (k + 1) - 1 = k
        /\ ((k + 1) + 1) - 1 = k + 1
    BY <1>4, <1>6
  <2>2. h[(k + 1) + 1] = Noted(g[k], t[(k + 1) + 1]) /\ g[k + 1] = Noted(g[k], s[k + 1])
    BY <1>3, <1>6, <2>1
  <2>3. h[(k + 1) + 1] = g[k + 1]
    BY <1>4, <2>1, <2>2
  <2> QED
    BY <2>1, <2>3
<1> HIDE DEF S
<1>7. z \in S
  <2>1. \A k \in 0..z : k \in S
    BY <1>4, <1>5, <1>6, UpTo
  <2> QED
    BY <1>4, <2>1
<1> QED
  BY <1>3, <1>7 DEF S

(* The last field holds a text. *)
Texted(s) == s # <<>> /\ Last(s).typ = "OFF"

(* What the fields say, each of which is made by Fld. *)
Tells(s, o) ==
  /\ IsSeq(s) /\ IsSeq(o) /\ OffsOf(s) = o
  /\ \A n \in 1..Len(s) :
       s[n] = [tag |-> s[n].tag, typ |-> s[n].typ, tpc |-> s[n].tpc, cnt |-> s[n].cnt,
               val |-> s[n].val, n |-> s[n].n]

(* And where there is a break it is not a text that comes last. *)
TellsIn(s, o, B) ==
  /\ Tells(s, o)
  /\ \A b \in B : b \in 0..Len(o)
  /\ Len(o) \in B => ~Texted(s)

LEMMA AppendSeq ==
  ASSUME NEW s, NEW x, IsSeq(s)
  PROVE  /\ IsSeq(Append(s, x)) /\ Append(s, x) # <<>>
         /\ Len(s) \in Nat /\ Len(Append(s, x)) = Len(s) + 1
         /\ Append(s, x)[Len(s) + 1] = x
         /\ \A n \in 1..Len(s) : Append(s, x)[n] = s[n]
<1> DEFINE S == Range(s) \union {x}
           t == Append(s, x)
<1>1. s \in Seq(S) /\ x \in S /\ Len(s) \in Nat
  <2>1. s \in Seq(Range(s))
    BY DEF IsSeq
  <2> QED
    BY <2>1, SeqMonotonic
<1> HIDE DEF S
<1>2. /\ t \in Seq(S) /\ t # <<>> /\ Len(t) = Len(s) + 1 /\ t[Len(s) + 1] = x
      /\ \A n \in 1..Len(s) : t[n] = s[n]
  BY <1>1, AppendProperties
<1> HIDE DEF t
<1>3. IsSeq(t)
  BY <1>2, SeqOfRange DEF IsSeq
<1> QED
  BY <1>1, <1>2, <1>3 DEF t

LEMMA FrontSeq ==
  ASSUME NEW s, IsSeq(s), s # <<>>
  PROVE  /\ IsSeq(Front(s)) /\ Len(s) \in Nat /\ Len(s) >= 1
         /\ Len(Front(s)) = Len(s) - 1 /\ Len(s) - 1 \in Nat
         /\ \A n \in 1..(Len(s) - 1) : Front(s)[n] = s[n]
<1> DEFINE k == Len(s) - 1
           t == Front(s)
<1>1. s \in Seq(Range(s)) /\ Len(s) \in Nat /\ Len(s) # 0
  BY EmptySeq DEF IsSeq
<1>2. k \in Nat /\ Len(s) = k + 1
  BY <1>1
<1>3. t = SubSeq(s, 1, k)
  BY DEF Front
<1> HIDE DEF k, t
<1>4. \A n \in 1..k : s[n] \in Range(s)
  <2>1. \A n \in 1..k : n \in 1..Len(s)
    BY <1>2
  <2> QED
    BY <1>1, <2>1, ElementOfSeq
<1>5. /\ t \in Seq(Range(s)) /\ Len(t) = IF 1 <= k THEN k - 1 + 1 ELSE 0
      /\ \A n \in 1..(k - 1 + 1) : t[n] = s[1 + n - 1]
  BY <1>2, <1>3, <1>4, SubSeqProperties
<1>6. k - 1 + 1 = k /\ \A n \in 1..k : 1 + n - 1 = n
  BY <1>2
<1>7. Len(t) = k
  BY <1>2, <1>5, <1>6
<1>8. \A n \in 1..k : t[n] = s[n]
  BY <1>5, <1>6
<1>9. IsSeq(t)
  BY <1>5, SeqOfRange DEF IsSeq
<1> QED
  BY <1>1, <1>2, <1>7, <1>8, <1>9 DEF k, t

LEMMA OffsSeq ==
  ASSUME NEW s, Len(s) \in Nat
  PROVE  IsSeq(OffsOf(s))
<1> DEFINE z == Len(s)
<1>1. PICK g : OffsRun(g, s)
  BY OffsOfSteps
<1>2. g[0] = <<>> /\ g[z] = OffsOf(s) /\ \A m \in 1..z : g[m] = Noted(g[m - 1], s[m])
  BY <1>1 DEF OffsRun
<1>3. z \in Nat
  OBVIOUS
<1> HIDE DEF z
<1> DEFINE S == {k \in Nat : IsSeq(g[k])}
<1>4. 0 \in S
  BY <1>2, EmptySeq DEF IsSeq
<1>5. ASSUME NEW k \in 0..(z - 1), k \in S PROVE k + 1 \in S
  <2>1. k + 1 \in 1..z /\ k + 1 \in Nat /\ (k + 1) - 1 = k
    BY <1>3, <1>5
  <2>2. g[k + 1] = Noted(g[k], s[k + 1]) /\ IsSeq(g[k])
    BY <1>2, <1>5, <2>1
  <2>3. IsSeq(g[k + 1])
    BY <2>2, AppendSeq DEF Noted
  <2> QED
    BY <2>1, <2>3
<1> HIDE DEF S
<1>6. z \in S
  <2>1. \A k \in 0..z : k \in S
    BY <1>3, <1>4, <1>5, UpTo
  <2> QED
    BY <1>3, <2>1
<1> QED
  BY <1>2, <1>6 DEF S

LEMMA TellsAppend ==
  ASSUME NEW s, NEW o, Tells(s, o),
         NEW tag, NEW typ, NEW tpc, NEW cnt, NEW val, NEW num
  PROVE  LET x == Fld(tag, typ, tpc, cnt, val, num)
         IN  Tells(Append(s, x), Noted(o, x)) /\ (Texted(Append(s, x)) <=> typ = "OFF")
<1> DEFINE x == Fld(tag, typ, tpc, cnt, val, num)
           t == Append(s, x)
<1>1. /\ x = [tag |-> x.tag, typ |-> x.typ, tpc |-> x.tpc, cnt |-> x.cnt, val |-> x.val, n |-> x.n]
      /\ x.typ = typ
  BY DEF Fld
<1> HIDE DEF x
<1>2. IsSeq(s) /\ IsSeq(o) /\ OffsOf(s) = o
  BY DEF Tells
<1>3. /\ IsSeq(t) /\ t # <<>> /\ Len(s) \in Nat /\ Len(t) = Len(s) + 1 /\ t[Len(s) + 1] = x
      /\ \A n \in 1..Len(s) : t[n] = s[n]
  BY <1>2, AppendSeq
<1> HIDE DEF t
<1>4. OffsOf(t) = Noted(o, x)
  BY <1>2, <1>3, OffsLonger
<1>5. IsSeq(Noted(o, x))
  BY <1>2, AppendSeq DEF Noted
<1>6. ASSUME NEW n \in 1..Len(t)
      PROVE  t[n] = [tag |-> t[n].tag, typ |-> t[n].typ, tpc |-> t[n].tpc, cnt |-> t[n].cnt,
                     val |-> t[n].val, n |-> t[n].n]
  <2>1. n \in 1..Len(s) \/ n = Len(s) + 1
    BY <1>3
  <2>2. CASE n \in 1..Len(s)
    <3>1. t[n] = s[n]
      BY <1>3, <2>2
    <3> QED
      BY <2>2, <3>1 DEF Tells
  <2>3. CASE n = Len(s) + 1
    <3>1. t[n] = x
      BY <1>3, <2>3
    <3> QED
      BY <1>1, <3>1
  <2> QED
    BY <2>1, <2>2, <2>3
<1>7. Tells(t, Noted(o, x))
  BY <1>3, <1>4, <1>5, <1>6 DEF Tells
<1>8. Texted(t) <=> typ = "OFF"
  BY <1>1, <1>3 DEF Texted, Last
<1> QED
  BY <1>7, <1>8 DEF t, x

(* The last field goes. *)
LEMMA TellsFront ==
  ASSUME NEW s, NEW o, Tells(s, o), s # <<>>
  PROVE  /\ Last(s).typ # "OFF" => Tells(Front(s), o)
         /\ Last(s).typ = "OFF" => o # <<>> /\ Len(o) \in Nat /\ o[Len(o)].tag = Last(s).tag
<1> DEFINE f == Front(s)
<1>1. IsSeq(s) /\ IsSeq(o) /\ OffsOf(s) = o
  BY DEF Tells
<1>2. /\ IsSeq(f) /\ Len(s) \in Nat /\ Len(s) >= 1 /\ Len(f) = Len(s) - 1 /\ Len(f) \in Nat
      /\ \A n \in 1..(Len(s) - 1) : f[n] = s[n]
  BY <1>1, FrontSeq
<1> HIDE DEF f
<1>3. Len(s) = Len(f) + 1 /\ \A n \in 1..Len(f) : s[n] = f[n]
  BY <1>2
<1>4. o = Noted(OffsOf(f), Last(s))
  BY <1>1, <1>2, <1>3, OffsLonger DEF Last
<1>5. IsSeq(OffsOf(f))
  BY <1>2, OffsSeq
<1>6. ASSUME Last(s).typ # "OFF" PROVE Tells(f, o)
  <2>1. OffsOf(f) = o
    BY <1>4, <1>6 DEF Noted
  <2>2. \A n \in 1..Len(f) : f[n] = s[n] /\ n \in 1..Len(s)
    BY <1>2, <1>3
  <2>3. \A n \in 1..Len(f) :
          f[n] = [tag |-> f[n].tag, typ |-> f[n].typ, tpc |-> f[n].tpc, cnt |-> f[n].cnt,
                  val |-> f[n].val, n |-> f[n].n]
    BY <2>2 DEF Tells
  <2> QED
    BY <1>1, <1>2, <2>1, <2>3 DEF Tells
<1>7. ASSUME Last(s).typ = "OFF" PROVE o # <<>> /\ Len(o) \in Nat /\ o[Len(o)].tag = Last(s).tag
  <2> DEFINE x == [tag |-> Last(s).tag, val |-> Last(s).val, tpc |-> Last(s).tpc]
             q == OffsOf(f)
  <2>1. o = Append(q, x)
    BY <1>4, <1>7 DEF Noted
  <2>2. x.tag = Last(s).tag
    OBVIOUS
  <2>3. IsSeq(q)
    BY <1>5
  <2> HIDE DEF x, q
  <2>4. o # <<>> /\ Len(q) \in Nat /\ Len(o) = Len(q) + 1 /\ o[Len(q) + 1] = x
    BY <2>1, <2>3, AppendSeq
  <2> QED
    BY <2>2, <2>4
<1> QED
  BY <1>6, <1>7 DEF f

(* A field in front that says nothing. *)
LEMMA TellsPushed ==
  ASSUME NEW s, NEW o, Tells(s, o), NEW tag, NEW typ, typ # "OFF", NEW tpc, NEW cnt, NEW val, NEW num
  PROVE  LET t == Pushed(Fld(tag, typ, tpc, cnt, val, num), s)
         IN  Tells(t, o) /\ (s # <<>> => (Texted(t) <=> Texted(s)))
<1> DEFINE x == Fld(tag, typ, tpc, cnt, val, num)
           t == Pushed(x, s)
<1>1. /\ x = [tag |-> x.tag, typ |-> x.typ, tpc |-> x.tpc, cnt |-> x.cnt, val |-> x.val, n |-> x.n]
      /\ x.typ # "OFF"
  BY DEF Fld
<1> HIDE DEF x
<1>2. IsSeq(s) /\ IsSeq(o) /\ OffsOf(s) = o
  BY DEF Tells
<1>3. /\ IsSeq(t) /\ t # <<>> /\ Len(s) \in Nat /\ Len(t) = Len(s) + 1 /\ t[1] = x
      /\ \A n \in 1..Len(s) : t[n + 1] = s[n]
  BY <1>2, PushedSeq
<1> HIDE DEF t
<1>4. OffsOf(t) = o
  <2>1. t[1].typ # "OFF"
    BY <1>1, <1>3
  <2> QED
    BY <1>2, <1>3, <2>1, OffsAfter
<1>5. ASSUME NEW n \in 1..Len(t)
      PROVE  t[n] = [tag |-> t[n].tag, typ |-> t[n].typ, tpc |-> t[n].tpc, cnt |-> t[n].cnt,
                     val |-> t[n].val, n |-> t[n].n]
  <2>1. CASE n = 1
    BY <1>1, <1>3, <2>1
  <2>2. CASE n # 1
    <3>1. n - 1 \in 1..Len(s) /\ (n - 1) + 1 = n
      BY <1>3, <2>2
    <3>2. t[n] = s[n - 1]
      BY <1>3, <3>1
    <3> QED
      BY <3>1, <3>2 DEF Tells
  <2> QED
    BY <2>1, <2>2
<1>6. Tells(t, o)
  BY <1>2, <1>3, <1>4, <1>5 DEF Tells
<1>7. s # <<>> => (Texted(t) <=> Texted(s))
  <2>1. s # <<>> => Len(s) \in 1..Len(s)
    BY <1>2, <1>3, EmptySeq DEF IsSeq
  <2>2. s # <<>> => t[Len(t)] = s[Len(s)]
    BY <1>3, <2>1
  <2> QED
    BY <1>3, <2>2 DEF Texted, Last
<1> QED
  BY <1>6, <1>7 DEF t, x

(* A counter counts on. *)
Counted(f) == [f EXCEPT !.n = @ + 1]

LEMMA TellsCount ==
  ASSUME NEW s, NEW o, Tells(s, o), NEW k \in 1..Len(s)
  PROVE  LET t == [s EXCEPT ![k] = Counted(@)] IN Tells(t, o) /\ (Texted(t) <=> Texted(s))
<1> DEFINE t == [s EXCEPT ![k] = Counted(@)]
<1>1. IsSeq(s) /\ IsSeq(o) /\ OffsOf(s) = o
  BY DEF Tells
<1>2. s \in Seq(Range(s)) /\ Len(s) \in Nat /\ DOMAIN s = 1..Len(s)
  BY <1>1, LenProperties DEF IsSeq
<1>3. /\ t[k] = Counted(s[k]) /\ \A n \in 1..Len(s) : n # k => t[n] = s[n]
      /\ DOMAIN t = 1..Len(s) /\ t = [n \in 1..Len(s) |-> t[n]]
  BY <1>2
<1> HIDE DEF t
<1>4. IsSeq(t) /\ Len(t) = Len(s)
  <2>1. t \in [1..Len(s) -> Range(t)]
    BY <1>3 DEF Range
  <2>2. t \in Seq(Range(t))
    BY <1>2, <2>1, SeqDef
  <2>3. Len(t) \in Nat /\ DOMAIN t = 1..Len(t)
    BY <2>2, LenProperties
  <2>4. \A m, n \in Nat : 1..m = 1..n => m = n
    OBVIOUS
  <2>5. Len(t) = Len(s)
    BY <1>2, <1>3, <2>3, <2>4
  <2> QED
    BY <2>2, <2>5 DEF IsSeq
<1> DEFINE f == s[k]
           h == Counted(f)
<1>5. f = [tag |-> f.tag, typ |-> f.typ, tpc |-> f.tpc, cnt |-> f.cnt, val |-> f.val, n |-> f.n]
  BY DEF Tells
<1>6. /\ h = [tag |-> h.tag, typ |-> h.typ, tpc |-> h.tpc, cnt |-> h.cnt, val |-> h.val, n |-> h.n]
      /\ Alike(h, f)
  <2> HIDE DEF f
  <2>1. h = [tag |-> f.tag, typ |-> f.typ, tpc |-> f.tpc, cnt |-> f.cnt, val |-> f.val, n |-> f.n + 1]
    BY <1>5 DEF Counted
  <2> HIDE DEF h
  <2> QED
    BY <2>1 DEF Alike
<1>7. t[k] = h
  BY <1>3
<1> HIDE DEF f, h
<1>8. ASSUME NEW n \in 1..Len(t)
      PROVE  /\ t[n] = [tag |-> t[n].tag, typ |-> t[n].typ, tpc |-> t[n].tpc, cnt |-> t[n].cnt,
                        val |-> t[n].val, n |-> t[n].n]
             /\ Alike(t[n], s[n])
  <2>1. CASE n = k
    BY <1>6, <1>7, <2>1 DEF f
  <2>2. CASE n # k
    <3>1. t[n] = s[n]
      BY <1>3, <1>4, <2>2
    <3> QED
      BY <1>4, <3>1 DEF Tells, Alike
  <2> QED
    BY <2>1, <2>2
<1>9. OffsOf(t) = o
  BY <1>1, <1>2, <1>4, <1>8, OffsSame
<1>10. Tells(t, o)
  BY <1>1, <1>4, <1>8, <1>9 DEF Tells
<1>11. Texted(t) <=> Texted(s)
  <2>1. (s = <<>> <=> Len(s) = 0) /\ (t = <<>> <=> Len(t) = 0)
    BY <1>1, <1>4, EmptySeq DEF IsSeq
  <2>2. s # <<>> => Len(t) \in 1..Len(t)
    BY <1>2, <1>4, <2>1
  <2>3. s # <<>> => t[Len(t)].typ = s[Len(s)].typ
    BY <1>4, <1>8, <2>2 DEF Alike
  <2> QED
    BY <1>4, <2>1, <2>3 DEF Texted, Last
<1> QED
  BY <1>10, <1>11 DEF t

(* Unless a handler goes wrong. *)
TellsOf(c, o, B) == c.fault # "none" \/ TellsIn(c.flds, o, B)

LEMMA PushStateTells ==
  ASSUME NEW c, NEW o, NEW B, NEW id, Formed(c), TellsIn(c.flds, o, B)
  PROVE  TellsOf(PushState(c, id), o, B)
<1> DEFINE d == PushState(c, id)
<1>1. \/ d = Fault(c, "null")
      \/ \E q, s : d = [c EXCEPT !.pool = q, !.state = s]
  BY DEF PushState
<1> HIDE DEF d
<1>2. CASE d = Fault(c, "null")
  <2>1. d.fault = "null"
    BY <1>2 DEF Formed, Fault
  <2> QED
    BY <2>1 DEF TellsOf, d
<1>3. CASE \E q, s : d = [c EXCEPT !.pool = q, !.state = s]
  <2>1. d.flds = c.flds
    BY <1>3 DEF Formed
  <2> QED
    BY <2>1 DEF TellsOf, d
<1> QED
  BY <1>1, <1>2, <1>3

LEMMA SetTypeTells ==
  ASSUME NEW c, NEW o, NEW B, NEW id, NEW mty, Formed(c), TellsIn(c.flds, o, B)
  PROVE  LET d == SetType(c, id, mty)
         IN  /\ TellsIn(d.flds, o, B)
             /\ id = BATCH /\ c.f35 # UNK => ~Texted(d.flds)
<1> DEFINE d     == SetType(c, id, mty)
           fld   == Fld(MSG_TYPE, "MSGTYP", BATCH, 1, mty, 0)
           first == Fld(MSG_TYPE, "MSGTYP", BATCH, 0, c.f35, 0)
<1>0. Tells(c.flds, o)
  BY DEF TellsIn
<1>1. Tells(Append(c.flds, fld), Noted(o, fld)) /\ ~Texted(Append(c.flds, fld))
  BY <1>0, TellsAppend
<1>2. Noted(o, fld) = o
  BY DEF Noted, Fld
<1>3. Tells(Append(c.flds, fld), o) /\ Append(c.flds, fld) # <<>>
  <2>1. IsSeq(c.flds)
    BY <1>0 DEF Tells
  <2> HIDE DEF fld
  <2> QED
    BY <1>1, <1>2, <2>1, AppendSeq
<1>4. Tells(Pushed(first, Append(c.flds, fld)), o) /\ ~Texted(Pushed(first, Append(c.flds, fld)))
  <2> DEFINE t == Append(c.flds, fld)
  <2>1. Tells(t, o) /\ ~Texted(t) /\ t # <<>>
    BY <1>1, <1>3
  <2> HIDE DEF t, fld
  <2>2. Tells(Pushed(first, t), o) /\ (t # <<>> => (Texted(Pushed(first, t)) <=> Texted(t)))
    BY <2>1, TellsPushed
  <2> HIDE DEF first
  <2>3. Tells(Pushed(first, t), o) /\ ~Texted(Pushed(first, t))
    BY <2>1, <2>2
  <2> QED
    BY <2>3 DEF t
<1>5. \/ (id # BATCH \/ c.f35 = UNK) /\ d = [c EXCEPT !.f35 = mty]
      \/ d = [c EXCEPT !.flds = Append(@, fld)]
      \/ d = [c EXCEPT !.flds = Pushed(first, Append(@, fld)), !.f35 = BATCH]
  BY DEF SetType, Pushed
<1> HIDE DEF d, fld, first
<1>6. CASE (id # BATCH \/ c.f35 = UNK) /\ d = [c EXCEPT !.f35 = mty]
  <2>1. d.flds = c.flds
    BY <1>6 DEF Formed
  <2> QED
    BY <1>6, <2>1 DEF d
<1>7. CASE d = [c EXCEPT !.flds = Append(@, fld)]
  <2>1. d.flds = Append(c.flds, fld)
    BY <1>7 DEF Formed
  <2> QED
    BY <1>1, <1>3, <2>1 DEF d, TellsIn
<1>8. CASE d = [c EXCEPT !.flds = Pushed(first, Append(@, fld)), !.f35 = BATCH]
  <2>1. d.flds = Pushed(first, Append(c.flds, fld))
    BY <1>8 DEF Formed
  <2> QED
    BY <1>4, <2>1 DEF d, TellsIn
<1> QED
  BY <1>5, <1>6, <1>7, <1>8

LEMMA CheckRptblkTells ==
  ASSUME NEW c, NEW o, NEW B, c.fault = "none" => Formed(c), TellsOf(c, o, B)
  PROVE  TellsOf(CheckRptblk(c), o, B)
<1> DEFINE tag == Rptb(c.state[1].otag)
           d   == CheckRptblk(c)
           x   == Fld(tag, "INT", c.state[1].otag, 0, NULL, 1)
           k   == RptbIdx(c)
<1>1. CASE d = c
  BY <1>1
<1>2. CASE d # c
  <2>1. c.fault = "none" /\ d = UpdRptb(c, tag)
    BY <1>2 DEF CheckRptblk
  <2>2. Formed(c) /\ TellsIn(c.flds, o, B) /\ Tells(c.flds, o)
    BY <2>1 DEF TellsOf, TellsIn
  <2>3. \/ d = Fault(c, "index")
        \/ k \in DOMAIN c.flds /\ d = [c EXCEPT !.flds[k].n = @ + 1]
        \/ d = [c EXCEPT !.flds = Append(@, x)]
    BY <2>1 DEF UpdRptb
  <2>4. Tells(Append(c.flds, x), Noted(o, x)) /\ Noted(o, x) = o /\ ~Texted(Append(c.flds, x))
    <3>1. Tells(Append(c.flds, x), Noted(o, x)) /\ ~Texted(Append(c.flds, x))
      BY <2>2, TellsAppend
    <3>2. Noted(o, x) = o
      BY DEF Noted, Fld
    <3> QED
      BY <3>1, <3>2
  <2> HIDE DEF d, x, k, tag
  <2>5. CASE d = Fault(c, "index")
    <3>1. d.fault = "index"
      BY <2>2, <2>5 DEF Formed, Fault
    <3> QED
      BY <3>1 DEF TellsOf, d
  <2>6. CASE k \in DOMAIN c.flds /\ d = [c EXCEPT !.flds[k].n = @ + 1]
    <3>1. d.flds = [c.flds EXCEPT ![k] = Counted(@)]
      BY <2>2, <2>6 DEF Formed, Counted
    <3>2. k \in 1..Len(c.flds)
      <4>1. c.flds \in Seq(Range(c.flds))
        BY <2>2 DEF Tells, IsSeq
      <4> QED
        BY <2>6, <4>1, LenProperties
    <3>3. Tells(d.flds, o) /\ (Texted(d.flds) <=> Texted(c.flds))
      BY <2>2, <3>1, <3>2, TellsCount
    <3> QED
      BY <2>2, <3>3 DEF TellsOf, TellsIn, d
  <2>7. CASE d = [c EXCEPT !.flds = Append(@, x)]
    <3>1. d.flds = Append(c.flds, x)
      BY <2>2, <2>7 DEF Formed
    <3> QED
      BY <2>2, <2>4, <3>1 DEF TellsOf, TellsIn, d
  <2> QED
    BY <2>3, <2>5, <2>6, <2>7
<1> QED
  BY <1>1, <1>2

(* What is unrepeated was so before. *)
LEMMA UnrepeatedBefore ==
  ASSUME NEW o, NEW x, NEW B, IsSeq(o), Unrepeated(Append(o, x), B)
  PROVE  Unrepeated(o, B) /\ (o # <<>> => Len(o) \in B \/ o[Len(o)].tag # x.tag)
<1> DEFINE q == Append(o, x)
<1>1. /\ Len(o) \in Nat /\ Len(q) = Len(o) + 1 /\ q[Len(o) + 1] = x
      /\ \A n \in 1..Len(o) : q[n] = o[n]
  BY AppendSeq
<1>2. Unrepeated(q, B)
  OBVIOUS
<1> HIDE DEF q
<1>3. \A n \in 1..Len(o) : n \in B \/ q[n].tag # q[n + 1].tag
  <2>1. Len(q) - 1 = Len(o)
    BY <1>1
  <2> QED
    BY <1>2, <2>1 DEF Unrepeated
<1>4. \A n \in 1..(Len(o) - 1) : n \in 1..Len(o) /\ n + 1 \in 1..Len(o)
  BY <1>1
<1>5. o # <<>> => Len(o) \in 1..Len(o)
  BY <1>1, EmptySeq DEF IsSeq
<1> QED
  BY <1>1, <1>3, <1>4, <1>5 DEF Unrepeated

LEMMA NoneBeyond ==
  ASSUME NEW B, NEW n \in Nat, \A b \in B : b \in 0..n
  PROVE  n + 1 \notin B /\ \A b \in B : b \in 0..(n + 1)
<1>1. \A b \in 0..n : b \in 0..(n + 1) /\ b # n + 1
  OBVIOUS
<1> QED
  BY <1>1, Zenon

LEMMA FixmlAttrTells ==
  ASSUME NEW c, NEW p, IsSeq(p), NEW x, Along(c, Pushed(x, p)), c.fault = "none",
         NEW o, NEW B, TellsIn(c.flds, o, B), NEW a, a.pref = "",
         NEW y, y.own, y.id # FIXML, Aid(x, a.name) = Aid(y.in, a.name),
         Names(x, a) => Turned(x, a) = y.in,
         Unrepeated(Meant(o, y, a), B)
  PROVE  TellsIn(ProcFixmlAttr(c, a).flds, Meant(o, y, a), B)
<1> DEFINE d   == ProcFixmlAttr(c, a)
           aid == Aid(x, a.name)
<1>1. c.state # <<>> /\ c.state[1].otag = x
  BY PathTop DEF Along
<1>2. LookUp(c, Ctxid(c), a) = aid
  BY <1>1 DEF LookUp, Ctxid
<1>3. Formed(c)
  BY DEF Along, Versioned
<1>4. CASE aid \in {UNK, XMLNS, V}
  <2>1. Meant(o, y, a) = o
    BY <1>4 DEF Meant
  <2>2. d = c \/ d = RegNs(c, NULL, a.val)
    <3>1. CASE aid = UNK
      BY <1>2, <3>1 DEF ProcFixmlAttr, UNK, XMLNS, V
    <3>2. CASE aid # UNK
      <4>1. d = RegNs(c, NULL, a.val)
        BY <1>1, <1>2, <1>4, <3>2 DEF ProcFixmlAttr, RegAttr
      <4> QED
        BY <4>1
    <3> QED
      BY <3>1, <3>2
  <2>3. SameStack(c, RegNs(c, NULL, a.val))
    BY <1>3, RegNsKeeps
  <2> HIDE DEF d
  <2>4. d.flds = c.flds
    BY <2>2, <2>3 DEF SameStack
  <2> QED
    BY <2>1, <2>4 DEF d
<1>5. CASE Names(x, a)
  <2> DEFINE dup  == c.flds # <<>> /\ Last(c.flds).tag = aid
             otag == IF Orb(x) = UNK THEN x ELSE Orb(x)
             s    == IF dup THEN Front(c.flds) ELSE c.flds
             f    == Fld(aid, "OFF", otag, c.state[1].cnt % CntSize, a.val, 0)
             m    == [tag |-> aid, val |-> a.val, tpc |-> y.in]
  <2>1. otag = y.in
    BY <1>5 DEF Turned
  <2>2. Meant(o, y, a) = Append(o, m)
    BY <1>5 DEF Meant, Names
  <2>3. d = BangAttr(c, aid, a.val)
    BY <1>1, <1>2, <1>5 DEF ProcFixmlAttr, Names
  <2>4. \E q : d = [c EXCEPT !.flds = Append(s, f), !.state[1] = q]
    <3> DEFINE t == [otag |-> otag, cnt |-> c.state[1].cnt + 1, cns |-> c.state[1].cns + 1]
    <3>1. d = [c EXCEPT !.flds = Append(s, f), !.state[1] = t]
      BY <1>1, <2>3 DEF BangAttr
    <3> HIDE DEF d, s, f, t
    <3> QED
      BY <3>1
  <2>5. Noted(o, f) = Append(o, m)
    BY <2>1 DEF Noted, Fld
  <2>6. IsSeq(o) /\ m.tag = aid /\ Tells(c.flds, o)
    BY DEF Tells, TellsIn
  <2> HIDE DEF m
  <2>7. o # <<>> => Len(o) \in B \/ o[Len(o)].tag # aid
    BY <2>2, <2>6, UnrepeatedBefore
  <2>8. Tells(s, o)
    <3>1. CASE ~dup
      BY <2>6, <3>1
    <3>2. CASE dup
      <4>1. Last(c.flds).typ # "OFF"
        BY <2>6, <2>7, <3>2, TellsFront DEF TellsIn, Texted
      <4>2. Tells(Front(c.flds), o)
        BY <2>6, <3>2, <4>1, TellsFront
      <4> QED
        BY <3>2, <4>2
    <3> QED
      BY <3>1, <3>2
  <2>9. Tells(Append(s, f), Noted(o, f))
    <3> DEFINE cnt == c.state[1].cnt % CntSize
               val == a.val
               h   == Fld(aid, "OFF", otag, cnt, val, 0)
    <3>1. f = h
      OBVIOUS
    <3> HIDE DEF s, otag, aid, cnt, val, f
    <3>2. Tells(Append(s, h), Noted(o, h)) /\ (Texted(Append(s, h)) <=> "OFF" = "OFF")
      BY <2>8, TellsAppend
    <3> QED
      BY <3>1, <3>2
  <2> HIDE DEF d, s, f
  <2>10. d.flds = Append(s, f)
    BY <1>3, <2>4 DEF Formed
  <2>11. Tells(d.flds, Meant(o, y, a))
    BY <2>2, <2>5, <2>9, <2>10
  <2>12. Len(o) \in Nat /\ Len(Meant(o, y, a)) = Len(o) + 1
    <3>1. Len(o) \in Nat /\ Len(Append(o, m)) = Len(o) + 1
      BY <2>6, AppendSeq
    <3> QED
      BY <2>2, <3>1
  <2>13. \A b \in B : b \in 0..Len(o)
    BY DEF TellsIn
  <2>14. TellsIn(d.flds, Meant(o, y, a), B)
    <3>1. Len(o) + 1 \notin B /\ \A b \in B : b \in 0..(Len(o) + 1)
      BY <2>12, <2>13, NoneBeyond
    <3> QED
      BY <2>11, <2>12, <3>1 DEF TellsIn
  <2> QED
    BY <2>14 DEF d
<1> QED
  BY <1>4, <1>5 DEF Names

(* q is o, or goes on after it. *)
Extends(q, o) ==
  /\ IsSeq(q) /\ Len(q) \in Nat /\ Len(o) \in Nat /\ Len(q) >= Len(o)
  /\ \A n \in 1..Len(o) : q[n] = o[n]

LEMMA UnrepeatedPrefix ==
  ASSUME NEW q, NEW o, NEW B, Extends(q, o), Unrepeated(q, B)
  PROVE  Unrepeated(o, B)
<1>1. /\ Len(q) \in Nat /\ Len(o) \in Nat /\ Len(q) >= Len(o)
      /\ \A n \in 1..Len(o) : q[n] = o[n]
  BY DEF Extends
<1>2. ASSUME NEW n \in 1..(Len(o) - 1) PROVE n \in B \/ o[n].tag # o[n + 1].tag
  <2>1. n \in 1..(Len(q) - 1) /\ n \in 1..Len(o) /\ n + 1 \in 1..Len(o)
    BY <1>1
  <2>2. n \in B \/ q[n].tag # q[n + 1].tag
    BY <2>1 DEF Unrepeated
  <2> QED
    BY <1>1, <2>1, <2>2
<1> QED
  BY <1>2 DEF Unrepeated

LEMMA MeantOne ==
  ASSUME NEW o, NEW y, NEW a, IsSeq(o)
  PROVE  Extends(Meant(o, y, a), o)
<1>1. Meant(o, y, a) = o \/ \E x : Meant(o, y, a) = Append(o, x)
  BY DEF Meant
<1>2. CASE Meant(o, y, a) = o
  <2>1. Len(o) \in Nat
    BY LenProperties DEF IsSeq
  <2> QED
    BY <1>2, <2>1 DEF Extends
<1>3. ASSUME NEW x, Meant(o, y, a) = Append(o, x)
      PROVE  Extends(Meant(o, y, a), o)
  <2>1. /\ IsSeq(Append(o, x)) /\ Len(o) \in Nat /\ Len(Append(o, x)) = Len(o) + 1
        /\ \A n \in 1..Len(o) : Append(o, x)[n] = o[n]
    BY AppendSeq
  <2> QED
    BY <1>3, <2>1 DEF Extends
<1> QED
  BY <1>1, <1>2, <1>3

LEMMA ExtendsBoth ==
  ASSUME NEW q, NEW o, NEW w, Extends(q, o), Extends(o, w)
  PROVE  Extends(q, w)
<1>1. \A n \in 1..Len(w) : n \in 1..Len(o)
  BY DEF Extends
<1> QED
  BY <1>1 DEF Extends

LEMMA MeantBefore ==
  ASSUME NEW e, NEW y, NEW o, Len(e.attrs) \in Nat, IsSeq(o), NEW h, MeantRun(h, e, y, o)
  PROVE  /\ \A k \in 0..Len(e.attrs) : Extends(MeantBy(e, y, o), h[k])
         /\ Extends(MeantBy(e, y, o), o)
<1> DEFINE z == Len(e.attrs)
           w == MeantBy(e, y, o)
<1>1. h[0] = o /\ h[z] = w /\ \A m \in 1..z : h[m] = Meant(h[m - 1], y, e.attrs[m])
  BY DEF MeantRun
<1>2. z \in Nat
  OBVIOUS
<1> HIDE DEF z, w
<1> DEFINE S == {k \in Nat : IsSeq(h[k])}
<1>3. 0 \in S
  BY <1>1
<1>4. ASSUME NEW k \in 0..(z - 1), k \in S PROVE k + 1 \in S
  <2>1. k + 1 \in 1..z /\ k + 1 \in Nat /\ (k + 1) - 1 = k
    BY <1>2, <1>4
  <2>2. h[k + 1] = Meant(h[k], y, e.attrs[k + 1]) /\ IsSeq(h[k])
    BY <1>1, <1>4, <2>1
  <2>3. IsSeq(h[k + 1])
    BY <2>2, MeantOne DEF Extends
  <2> QED
    BY <2>1, <2>3
<1> HIDE DEF S
<1>5. \A k \in 0..z : k \in S
  BY <1>2, <1>3, <1>4, UpTo
<1>6. \A k \in 0..z : IsSeq(h[k])
  BY <1>5 DEF S
<1> DEFINE T == {k \in Nat : Extends(w, h[z - k])}
<1>7. 0 \in T
  <2>1. z - 0 = z /\ z \in 0..z
    BY <1>2
  <2>2. IsSeq(w) /\ Len(w) \in Nat
    BY <1>1, <1>6, <2>1, LenProperties DEF IsSeq
  <2>3. Extends(w, w)
    BY <2>2 DEF Extends
  <2> QED
    BY <1>1, <2>1, <2>3
<1>8. ASSUME NEW k \in 0..(z - 1), k \in T PROVE k + 1 \in T
  <2>1. z - k \in 1..z /\ k + 1 \in Nat /\ (z - k) - 1 = z - (k + 1) /\ z - (k + 1) \in 0..z
    BY <1>2, <1>8
  <2>2. h[z - k] = Meant(h[z - (k + 1)], y, e.attrs[z - k]) /\ Extends(w, h[z - k])
    BY <1>1, <1>8, <2>1
  <2>3. IsSeq(h[z - (k + 1)])
    BY <1>6, <2>1
  <2>4. Extends(h[z - k], h[z - (k + 1)])
    BY <2>2, <2>3, MeantOne
  <2>5. Extends(w, h[z - (k + 1)])
    BY <2>2, <2>4, ExtendsBoth
  <2> QED
    BY <2>1, <2>5
<1> HIDE DEF T
<1>9. \A k \in 0..z : k \in T
  BY <1>2, <1>7, <1>8, UpTo
<1>10. ASSUME NEW k \in 0..z PROVE Extends(w, h[k])
  <2>1. z - k \in 0..z /\ z - (z - k) = k
    BY <1>2
  <2>2. z - k \in T
    BY <1>9, <2>1
  <2> QED
    BY <2>1, <2>2 DEF T
<1>11. 0 \in 0..z
  BY <1>2
<1> QED
  BY <1>1, <1>10, <1>11 DEF z, w

(* An element that has no context of its own, or is a root, says nothing. *)
LEMMA MeansNothing ==
  ASSUME NEW e, NEW y, NEW o, Len(e.attrs) \in Nat, ~y.own \/ y.id = FIXML
  PROVE  MeantBy(e, y, o) = o
<1> DEFINE z == Len(e.attrs)
<1>1. PICK h : MeantRun(h, e, y, o)
  BY MeantBySteps
<1>2. /\ h[0] = o /\ h[z] = MeantBy(e, y, o)
      /\ \A m \in 1..z : h[m] = Meant(h[m - 1], y, e.attrs[m])
  BY <1>1 DEF MeantRun
<1>3. z \in Nat
  OBVIOUS
<1> HIDE DEF z
<1> DEFINE S == {k \in Nat : h[k] = o}
<1>4. 0 \in S
  BY <1>2
<1>5. ASSUME NEW k \in 0..(z - 1), k \in S PROVE k + 1 \in S
  <2>1. k + 1 \in 1..z /\ k + 1 \in Nat /\ (k + 1) - 1 = k
    BY <1>3, <1>5
  <2>2. h[k + 1] = Meant(o, y, e.attrs[k + 1])
    BY <1>2, <1>5, <2>1
  <2>3. h[k + 1] = o
    BY <2>2 DEF Meant
  <2> QED
    BY <2>1, <2>3
<1> HIDE DEF S
<1>6. z \in S
  <2>1. \A k \in 0..z : k \in S
    BY <1>3, <1>4, <1>5, UpTo
  <2> QED
    BY <1>3, <2>1
<1> QED
  BY <1>2, <1>6 DEF S

LEMMA FixmlAttrsTells ==
  ASSUME NEW c, NEW p, IsSeq(p), NEW e, Plain(e), NEW y, y.own, y.id # FIXML,
         y.in = After(y.id, e, Len(e.attrs)), Kept(c, Pushed(y.id, p)),
         y.in # y.id => Orb(y.in) = UNK,
         \A n \in 1..Len(e.attrs) : \A x \in {y.id, y.in} :
           Aid(x, e.attrs[n].name) \in {XMLNS, V} => NsId(e.attrs[n].val) \in Known,
         \A n \in 1..Len(e.attrs) : Aid(y.id, e.attrs[n].name) = Aid(y.in, e.attrs[n].name),
         NEW o, NEW B, IsSeq(o), TellsOf(c, o, B), Unrepeated(MeantBy(e, y, o), B)
  PROVE  TellsOf(FixmlAttrs(c, e.attrs), MeantBy(e, y, o), B)
<1> DEFINE as == e.attrs
           z  == Len(as)
           X(k) == After(y.id, e, k)
<1>0. Len(e.attrs) \in Nat /\ z \in Nat
  BY DEF Plain
<1>p. \A m \in 1..z : as[m].pref = ""
  BY DEF Plain
<1>n. \A n \in 1..z : Aid(y.id, as[n].name) = Aid(y.in, as[n].name)
  OBVIOUS
<1>g. PICK g : FixmlAttrsRun(g, c, e.attrs)
  BY <1>0, FixmlAttrsSteps
<1>h. PICK h : MeantRun(h, e, y, o)
  BY <1>0, MeantBySteps
<1>1. /\ g[0] = c /\ g[z] = FixmlAttrs(c, as) /\ \A m \in 1..z : g[m] = ProcFixmlAttr(g[m - 1], as[m])
      /\ h[0] = o /\ h[z] = MeantBy(e, y, o) /\ \A m \in 1..z : h[m] = Meant(h[m - 1], y, as[m])
  BY <1>g, <1>h DEF FixmlAttrsRun, MeantRun
<1>2. \A k \in 0..z : Kept(g[k], Pushed(X(k), p))
  BY <1>g, FixmlAttrsAlong
<1>s. TurnsOnce(e, y.id, y.in)
  BY AfterSteps
<1>3. \A k \in 0..z : X(k) \in {y.id, y.in}
  BY <1>s DEF TurnsOnce
<1>t. \A k \in 0..(z - 1) : Names(X(k), as[k + 1]) => Turned(X(k), as[k + 1]) = y.in
  BY AfterNames
<1>4. \A k \in 0..z : Unrepeated(h[k], B)
  BY <1>0, <1>h, MeantBefore, UnrepeatedPrefix
<1>5. TellsOf(c, o, B)
  OBVIOUS
<1> HIDE DEF as, z, X
<1> DEFINE S == {k \in Nat : TellsOf(g[k], h[k], B)}
<1>6. 0 \in S
  BY <1>1, <1>5
<1>7. ASSUME NEW k \in 0..(z - 1), k \in S PROVE k + 1 \in S
  <2>1. k + 1 \in 1..z /\ k + 1 \in Nat /\ (k + 1) - 1 = k /\ k \in 0..z /\ k + 1 \in 0..z
    BY <1>0, <1>7
  <2>2. g[k + 1] = ProcFixmlAttr(g[k], as[k + 1]) /\ h[k + 1] = Meant(h[k], y, as[k + 1])
    BY <1>1, <2>1
  <2>3. TellsOf(g[k], h[k], B)
    BY <1>7
  <2>4. CASE g[k].fault # "none"
    <3>1. g[k + 1].fault # "none"
      BY <2>2, <2>4, FixmlAttrFaulted
    <3> QED
      BY <2>1, <3>1 DEF TellsOf
  <2>5. CASE g[k].fault = "none"
    <3>1. Along(g[k], Pushed(X(k), p)) /\ TellsIn(g[k].flds, h[k], B)
      BY <1>2, <2>1, <2>3, <2>5 DEF Kept, TellsOf
    <3>2. as[k + 1].pref = "" /\ Aid(X(k), as[k + 1].name) = Aid(y.in, as[k + 1].name)
      BY <1>3, <1>n, <1>p, <2>1
    <3>3. Names(X(k), as[k + 1]) => Turned(X(k), as[k + 1]) = y.in
      BY <1>t
    <3>4. Unrepeated(Meant(h[k], y, as[k + 1]), B)
      BY <1>4, <2>1, <2>2
    <3>5. TellsIn(ProcFixmlAttr(g[k], as[k + 1]).flds, Meant(h[k], y, as[k + 1]), B)
      BY <2>5, <3>1, <3>2, <3>3, <3>4, FixmlAttrTells
    <3> QED
      BY <2>1, <2>2, <3>5 DEF TellsOf
  <2> QED
    BY <2>4, <2>5
<1> HIDE DEF S
<1>8. z \in S
  <2>1. \A k \in 0..z : k \in S
    BY <1>0, <1>6, <1>7, UpTo
  <2> QED
    BY <1>0, <2>1
<1> QED
  BY <1>1, <1>8 DEF S, as, z

(* The element is a root only where FIXML is one, a batch is a message, and *)
(* if the element is optimised its attributes name the same fields before  *)
(* and after.                                                              *)
Clear(e, out) ==
  LET y == Entered(e, out)
  IN  y.own => /\ y.id = FIXML => Cid(out.in, e.name) = FIXML
               /\ y.in = BATCH => Cid(out.in, e.name) = UNK
               /\ y.in # y.id =>
                    \A n \in 1..Len(e.attrs) :
                      Aid(y.id, e.attrs[n].name) = Aid(y.in, e.attrs[n].name)

Broken(e, out, o, B) == IF Begun(e, out) THEN B \union {Len(o)} ELSE B

LEMMA SaxBoTells ==
  ASSUME NEW c, NEW e, NEW out, Along(c, out.path), c.fault = "none",
         Headed(out), Plain(e), Settled(e, out), Clear(e, out),
         out.in = BATCH => c.f35 # UNK,
         NEW o, NEW B, TellsIn(c.flds, o, B),
         NEW D, D = Broken(e, out, o, B), Unrepeated(MeantBy(e, Entered(e, out), o), D)
  PROVE  TellsOf(SaxBo(c, e), MeantBy(e, Entered(e, out), o), D)
<1> DEFINE y   == Entered(e, out)
           p   == out.path
           cid == Cid(out.in, e.name)
           mty == Mty(e.name)
           typed == IF cid = UNK THEN SetType(c, out.in, mty) ELSE c
           inner == CheckRptblk(PushState(typed, y.id))
<1>1. Ctxid(c) = out.in
  <2>1. c.state = <<>> <=> p = <<>>
    BY PathTypes DEF Along
  <2>2. c.state # <<>> => c.state[1].otag = p[1]
    BY PathTypes DEF Along
  <2> QED
    BY <2>1, <2>2 DEF Ctxid, Headed, Outer
<1>2. IsSeq(p) /\ Formed(c) /\ Len(e.attrs) \in Nat /\ IsSeq(o)
  BY DEF Headed, Along, Versioned, Plain, Tells, TellsIn
<1>d. ~(out.in = BATCH /\ cid = UNK /\ y.own) => D = B
  BY DEF Broken, Begun, Entered
<1>3. y.own => y.id = IF cid # UNK THEN cid ELSE mty
  BY DEF Entered
<1>4. y.own <=> ~(cid = UNK /\ mty = UNK)
  BY DEF Entered
<1>5. CASE ~y.own
  <2>1. MeantBy(e, y, o) = o
    BY <1>2, <1>5, MeansNothing
  <2>2. SaxBo(c, e) = c
    BY <1>1, <1>4, <1>5 DEF SaxBo, FIXML, UNK
  <2> QED
    BY <1>5, <1>d, <2>1, <2>2 DEF TellsOf
<1>6. CASE y.own /\ cid = FIXML
  <2>1. y.id = FIXML
    BY <1>3, <1>6 DEF FIXML, UNK
  <2>2. MeantBy(e, y, o) = o
    BY <1>2, <2>1, MeansNothing
  <2>3. SaxBo(c, e) = PushState(InitCtxcb(c), FIXML)
    BY <1>1, <1>6 DEF SaxBo, FIXML, UNK
  <2> DEFINE d == InitCtxcb(c)
  <2>4. \E q : d = [c EXCEPT !.pool = q]
    BY DEF InitCtxcb
  <2> HIDE DEF d
  <2>5. Formed(d) /\ d.flds = c.flds
    BY <1>2, <2>4 DEF Formed
  <2>6. TellsOf(PushState(d, FIXML), o, B)
    BY <2>5, PushStateTells
  <2>7. D = B
    BY <1>6, <1>d DEF FIXML, UNK
  <2> QED
    BY <2>2, <2>3, <2>6, <2>7 DEF d
<1>7. CASE y.own /\ cid # FIXML
  <2>1. SaxBo(c, e) = FixmlAttrs(inner, e.attrs)
    BY <1>1, <1>3, <1>4, <1>7 DEF SaxBo
  <2>2. Along(typed, p) /\ typed.fault = "none" /\ TellsIn(typed.flds, o, D)
    <3>1. Along(typed, p) /\ typed.fault = "none"
      BY SetTypeKeeps
    <3>2. TellsIn(typed.flds, o, B)
      BY <1>2, SetTypeTells
    <3>3. CASE D = B
      BY <3>1, <3>2, <3>3
    <3>4. CASE D # B
      <4>1. out.in = BATCH /\ cid = UNK /\ D = B \union {Len(o)}
        BY <1>7, <1>d, <3>4 DEF Broken
      <4>2. typed = SetType(c, out.in, mty)
        BY <4>1
      <4>3. ~Texted(typed.flds)
        BY <1>2, <4>1, <4>2, SetTypeTells
      <4>4. Len(o) \in Nat
        BY <1>2, LenProperties DEF IsSeq
      <4> HIDE DEF typed
      <4>5. TellsIn(typed.flds, o, D)
        BY <3>2, <4>1, <4>3, <4>4 DEF TellsIn
      <4> QED
        BY <3>1, <4>5
    <3> QED
      BY <3>3, <3>4
  <2> HIDE DEF typed
  <2>3. Kept(PushState(typed, y.id), Pushed(y.id, p)) /\ TellsOf(PushState(typed, y.id), o, D)
    <3>1. Formed(typed)
      BY <2>2 DEF Along, Versioned
    <3> QED
      BY <2>2, <3>1, PushStateKeeps, PushStateTells
  <2>4. Kept(inner, Pushed(y.id, p)) /\ TellsOf(inner, o, D)
    <3> DEFINE w == PushState(typed, y.id)
    <3>1. Kept(w, Pushed(y.id, p)) /\ TellsOf(w, o, D)
      BY <2>3
    <3> HIDE DEF w
    <3>2. w.fault = "none" => Formed(w)
      BY <3>1 DEF Kept, Along, Versioned
    <3>3. Kept(CheckRptblk(w), Pushed(y.id, p)) /\ TellsOf(CheckRptblk(w), o, D)
      BY <3>1, <3>2, CheckRptblkKeeps, CheckRptblkTells
    <3> QED
      BY <3>3 DEF w
  <2> HIDE DEF inner
  <2>5. y.in = After(y.id, e, Len(e.attrs))
    <3>1. HasFld(y.id, e) <=> \E m \in 1..Len(e.attrs) : Names(y.id, e.attrs[m])
      BY DEF HasFld, Names, Plain
    <3>2. y.in = IF Orb(y.id) # UNK /\ HasFld(y.id, e) THEN Orb(y.id) ELSE y.id
      BY <1>7 DEF Entered
    <3> HIDE DEF y
    <3> QED
      BY <3>1, <3>2 DEF After
  <2>6. /\ y.in # y.id => Orb(y.in) = UNK
        /\ \A n \in 1..Len(e.attrs) : \A x \in {y.id, y.in} :
             Aid(x, e.attrs[n].name) \in {XMLNS, V} => NsId(e.attrs[n].val) \in Known
    BY <1>7 DEF Settled
  <2>7. y.id # FIXML
    BY <1>7 DEF Clear
  <2>8. \A n \in 1..Len(e.attrs) : Aid(y.id, e.attrs[n].name) = Aid(y.in, e.attrs[n].name)
    BY <1>7 DEF Clear
  <2>9. Unrepeated(MeantBy(e, y, o), D) /\ y.own
    BY <1>7
  <2> HIDE DEF y
  <2>10. TellsOf(FixmlAttrs(inner, e.attrs), MeantBy(e, y, o), D)
    BY <1>2, <2>4, <2>5, <2>6, <2>7, <2>8, <2>9, FixmlAttrsTells
  <2> QED
    BY <2>1, <2>10 DEF y
<1> QED
  BY <1>5, <1>6, <1>7

LEMMA ElStaTells ==
  ASSUME NEW c, NEW e, NEW out, Along(c, out.path), c.fault = "none",
         Headed(out), Plain(e), Settled(e, out), Clear(e, out),
         out.in = BATCH => c.f35 # UNK,
         NEW o, NEW B, TellsIn(c.flds, o, B),
         NEW D, D = Broken(e, out, o, B), Unrepeated(MeantBy(e, Entered(e, out), o), D)
  PROVE  TellsOf(ElSta(c, e), MeantBy(e, Entered(e, out), o), D)
<1>1. PrefToNs(c, e.pref) = 0 /\ 0 \in DOMAIN c.ns /\ c.ns[0].nsid \in Known
  BY NoPrefix DEF Along, Versioned, Formed, Plain
<1>2. ElSta(c, e) = SaxBo(c, e)
  BY <1>1 DEF ElSta, NoIdx, BadPref
<1> QED
  BY <1>2, SaxBoTells

LEMMA ElEndTells ==
  ASSUME NEW c, NEW e, NEW o, NEW B, Formed(c), TellsIn(c.flds, o, B)
  PROVE  TellsOf(ElEnd(c, e), o, B)
<1> DEFINE d == ElEnd(c, e)
<1>1. d = c \/ d = PopState(c) \/ \E what \in {"null", "abort"} : d = Fault(c, what)
  BY DEF ElEnd, SaxEo
<1> HIDE DEF d
<1>2. d.flds = c.flds
  BY <1>1 DEF PopState, Fault, Formed
<1> QED
  BY <1>2 DEF TellsOf, d

LEMMA RootTells ==
  ASSUME NEW e, Plain(e), Rooted(e), Settled(e, Nowhere), Clear(e, Nowhere),
         Unrepeated(MeantBy(e, Entered(e, Nowhere), <<>>), {})
  PROVE  TellsOf(ElSta(Fresh, e), MeantBy(e, Entered(e, Nowhere), <<>>), {})
<1> DEFINE d == Declare(Fresh, e)
<1>1. Formed(d) /\ SameStack(Fresh, d)
  BY DeclareKeeps, FreshFormed
<1>2. PrefToNs(Fresh, e.pref) = 0
  BY NoPrefix, FreshFormed DEF Plain
<1>3. Fresh.ns[0].nsid \notin Known
  BY FreshFormed DEF Known, Ptx, UNK
<1>4. d.ns[0].nsid \in Known
  BY DEF Rooted
<1>5. ElSta(Fresh, e) = SaxBo(d, e)
  BY <1>2, <1>3, <1>4 DEF ElSta, NoIdx, BadPref
<1> HIDE DEF d
<1>6. OnPath(<<>>, <<>>) /\ IsSeq(<<>>)
  BY EmptySeq DEF OnPath, IsSeq
<1>7. d.state = <<>> /\ d.fault = "none" /\ d.flds = <<>>
  BY <1>1, FreshFormed DEF SameStack, Fresh
<1>8. Along(d, Nowhere.path)
  BY <1>1, <1>4, <1>6, <1>7 DEF Along, Versioned, Nowhere
<1>9. Headed(Nowhere)
  BY <1>6 DEF Headed, Nowhere, Outer
<1>10. TellsIn(d.flds, <<>>, {})
  <2>1. OffsOf(<<>>) = <<>>
    <3>1. Len(<<>>) = 0 /\ Len(<<>>) \in Nat
      OBVIOUS
    <3>2. PICK g : OffsRun(g, <<>>)
      BY <3>1, OffsOfSteps
    <3> QED
      BY <3>1, <3>2 DEF OffsRun
  <2>2. Tells(d.flds, <<>>)
    BY <1>6, <1>7, <2>1 DEF Tells
  <2> QED
    BY <2>2 DEF TellsIn
<1>11. Nowhere.in # BATCH /\ Broken(e, Nowhere, <<>>, {}) = {}
  <2>1. Nowhere.in # BATCH
    BY DEF Nowhere, BATCH, UNK
  <2> QED
    BY <2>1 DEF Broken, Begun
<1> QED
  BY <1>5, <1>7, <1>8, <1>9, <1>10, <1>11, SaxBoTells

LEMMA AttrsSeq ==
  ASSUME NEW d, Len(d) \in Nat, \A i \in 1..Len(d) : Len(d[i].elt.attrs) \in Nat
  PROVE  IsSeq(AttrsOf(d))
<1> DEFINE z == Len(d)
<1>1. PICK g : AttrsRun(g, d)
  BY AttrsOfSteps
<1>2. /\ g[0] = <<>> /\ g[z] = AttrsOf(d)
      /\ \A m \in 1..z : g[m] = MeantBy(d[m].elt, ReadingOf(d)[m], g[m - 1])
  BY <1>1 DEF AttrsRun
<1>3. z \in Nat
  OBVIOUS
<1> HIDE DEF z
<1> DEFINE S == {k \in Nat : IsSeq(g[k])}
<1>4. 0 \in S
  BY <1>2, EmptySeq DEF IsSeq
<1>5. ASSUME NEW k \in 0..(z - 1), k \in S PROVE k + 1 \in S
  <2> DEFINE e == d[k + 1].elt
             y == ReadingOf(d)[k + 1]
  <2>1. k + 1 \in 1..z /\ k + 1 \in Nat /\ (k + 1) - 1 = k
    BY <1>3, <1>5
  <2>2. g[k + 1] = MeantBy(e, y, g[k]) /\ IsSeq(g[k]) /\ Len(e.attrs) \in Nat
    BY <1>2, <1>5, <2>1 DEF z
  <2> HIDE DEF e, y
  <2>3. PICK h : MeantRun(h, e, y, g[k])
    BY <2>2, MeantBySteps
  <2>4. IsSeq(MeantBy(e, y, g[k]))
    BY <2>2, <2>3, MeantBefore DEF Extends
  <2> QED
    BY <2>1, <2>2, <2>4
<1> HIDE DEF S
<1>6. z \in S
  <2>1. \A k \in 0..z : k \in S
    BY <1>3, <1>4, <1>5, UpTo
  <2> QED
    BY <1>3, <2>1
<1> QED
  BY <1>2, <1>6 DEF S

(* One more element says what its attributes do. *)
LEMMA AttrsGrow ==
  ASSUME NEW d, NEW b, Tree(d), Tree(b), Len(b) = Len(d) + 1, \A i \in 1..Len(d) : b[i] = d[i]
  PROVE  AttrsOf(b) = MeantBy(b[Len(d) + 1].elt, ReadingOf(b)[Len(d) + 1], AttrsOf(d))
<1> DEFINE z == Len(d)
           r == ReadingOf(d)
           q == ReadingOf(b)
<1>0. z \in Nat /\ Len(b) \in Nat /\ Len(d) <= Len(b)
  BY DEF Tree
<1>1. PICK g : AttrsRun(g, d)
  BY <1>0, AttrsOfSteps
<1>2. PICK h : AttrsRun(h, b)
  BY <1>0, AttrsOfSteps
<1>3. /\ g[0] = <<>> /\ g[z] = AttrsOf(d) /\ \A m \in 1..z : g[m] = MeantBy(d[m].elt, r[m], g[m - 1])
      /\ h[0] = <<>> /\ h[z + 1] = AttrsOf(b)
      /\ \A m \in 1..(z + 1) : h[m] = MeantBy(b[m].elt, q[m], h[m - 1])
  BY <1>1, <1>2 DEF AttrsRun
<1>4. \A i \in 0..z : q[i] = r[i]
  BY <1>0, ReadingGrows
<1>5. \A n \in 1..z : b[n] = d[n]
  OBVIOUS
<1> HIDE DEF z, r, q
<1> DEFINE S == {k \in Nat : h[k] = g[k]}
<1>6. 0 \in S
  BY <1>3
<1>7. ASSUME NEW k \in 0..(z - 1), k \in S PROVE k + 1 \in S
  <2>1. k + 1 \in 1..z /\ k + 1 \in 1..(z + 1) /\ k + 1 \in 0..z /\ k + 1 \in Nat /\ (k + 1) - 1 = k
    BY <1>0, <1>7
  <2>2. h[k + 1] = MeantBy(b[k + 1].elt, q[k + 1], g[k]) /\ g[k + 1] = MeantBy(d[k + 1].elt, r[k + 1], g[k])
    BY <1>3, <1>7, <2>1
  <2>3. h[k + 1] = g[k + 1]
    BY <1>4, <1>5, <2>1, <2>2
  <2> QED
    BY <2>1, <2>3
<1> HIDE DEF S
<1>8. h[z] = g[z]
  <2>1. \A k \in 0..z : k \in S
    BY <1>0, <1>6, <1>7, UpTo
  <2>2. z \in S
    BY <1>0, <2>1
  <2> QED
    BY <2>2 DEF S
<1>9. z + 1 \in 1..(z + 1) /\ (z + 1) - 1 = z
  BY <1>0
<1>10. h[z + 1] = MeantBy(b[z + 1].elt, q[z + 1], g[z])
  BY <1>3, <1>8, <1>9
<1> QED
  BY <1>3, <1>10 DEF z, q

(* Roots are FIXML elements, batches are messages and optimised elements   *)
(* name the same fields under either name.                                 *)
AllClear(d) == \A i \in 1..Len(d) : Clear(d[i].elt, ReadingOf(d)[d[i].par])

(* And no field is named twice in a row unless a message of a batch begins *)
(* in between.                                                             *)
Distinct(d) ==
  /\ \A i \in 1..Len(d) : Clear(d[i].elt, ReadingOf(d)[d[i].par])
  /\ Unrepeated(AttrsOf(d), Breaks(d))

TypedInv ==
  Sound(doc) /\ Distinct(doc) /\ Running =>
    \A i \in 1..Len(doc) : ReadingOf(doc)[i].in = BATCH => ctx.f35 # UNK

TellInv ==
  Sound(doc) /\ Distinct(doc) /\ Running => TellsIn(ctx.flds, AttrsOf(doc), Breaks(doc))

(* One more element breaks them where it begins a message. *)
LEMMA SubSeqSame ==
  ASSUME NEW d, NEW b, IsSeq(d), IsSeq(b), NEW k \in Nat, k <= Len(d), k <= Len(b),
         \A n \in 1..k : b[n] = d[n]
  PROVE  SubSeq(b, 1, k) = SubSeq(d, 1, k)
<1> DEFINE S == Range(d) \union Range(b)
           t == SubSeq(b, 1, k)
           u == SubSeq(d, 1, k)
<1>1. Len(d) \in Nat /\ Len(b) \in Nat
  BY LenProperties DEF IsSeq
<1>2. \A n \in 1..k : d[n] \in Range(d) /\ b[n] \in Range(b)
  <2>1. \A n \in 1..k : n \in 1..Len(d) /\ n \in 1..Len(b)
    BY <1>1
  <2> QED
    BY <2>1, ElementOfSeq DEF IsSeq
<1>3. \A n \in 1..k : d[n] \in S /\ b[n] \in S
  BY <1>2
<1> HIDE DEF S, t, u
<1>4. /\ u \in Seq(S) /\ Len(u) = IF 1 <= k THEN k - 1 + 1 ELSE 0
      /\ \A n \in 1..(k - 1 + 1) : u[n] = d[1 + n - 1]
  BY <1>3, SubSeqProperties DEF u
<1>5. /\ t \in Seq(S) /\ Len(t) = IF 1 <= k THEN k - 1 + 1 ELSE 0
      /\ \A n \in 1..(k - 1 + 1) : t[n] = b[1 + n - 1]
  BY <1>3, SubSeqProperties DEF t
<1>6. k - 1 + 1 = k /\ \A n \in 1..k : 1 + n - 1 = n
  OBVIOUS
<1>7. Len(t) = Len(u) /\ Len(u) = k
  BY <1>4, <1>5, <1>6
<1>8. \A n \in 1..Len(t) : t[n] = u[n]
  BY <1>4, <1>5, <1>6, <1>7
<1>9. t = u
  BY <1>4, <1>5, <1>7, <1>8, SeqEqual
<1> QED
  BY <1>9 DEF t, u

LEMMA SubSeqWhole ==
  ASSUME NEW d, IsSeq(d)
  PROVE  SubSeq(d, 1, Len(d)) = d
<1> DEFINE k == Len(d)
           u == SubSeq(d, 1, k)
<1>1. d \in Seq(Range(d)) /\ k \in Nat
  BY LenProperties DEF IsSeq
<1>2. \A n \in 1..k : d[n] \in Range(d)
  BY <1>1, ElementOfSeq
<1>3. Len(d) = k
  OBVIOUS
<1> HIDE DEF k, u
<1>4. /\ u \in Seq(Range(d)) /\ Len(u) = IF 1 <= k THEN k - 1 + 1 ELSE 0
      /\ \A n \in 1..(k - 1 + 1) : u[n] = d[1 + n - 1]
  BY <1>1, <1>2, SubSeqProperties DEF u
<1>5. k - 1 + 1 = k /\ \A n \in 1..k : 1 + n - 1 = n
  BY <1>1
<1>6. Len(u) = Len(d)
  BY <1>1, <1>3, <1>4, <1>5
<1>7. \A n \in 1..Len(u) : u[n] = d[n]
  BY <1>3, <1>4, <1>5, <1>6
<1>8. u = d
  BY <1>1, <1>4, <1>6, <1>7, SeqEqual
<1> QED
  BY <1>8 DEF u, k

LEMMA BreaksGrow ==
  ASSUME NEW d, NEW b, IsSeq(d), IsSeq(b), Tree(d), Tree(b), Len(b) = Len(d) + 1,
         \A i \in 1..Len(d) : b[i] = d[i]
  PROVE  LET x == b[Len(d) + 1]
         IN  Breaks(b) = Broken(x.elt, ReadingOf(d)[x.par], AttrsOf(d), Breaks(d))
<1> DEFINE z == Len(d)
           x == b[z + 1]
           q == ReadingOf(b)
           r == ReadingOf(d)
           New(j) == Begun(b[j].elt, q[b[j].par])
           Old(j) == Begun(d[j].elt, r[d[j].par])
           At(i)  == Len(AttrsOf(SubSeq(d, 1, i - 1)))
           Att(i) == Len(AttrsOf(SubSeq(b, 1, i - 1)))
<1>1. z \in Nat /\ Len(b) = z + 1 /\ Len(b) \in Nat /\ Len(d) <= Len(b)
  BY DEF Tree
<1>2. \A i \in 0..z : q[i] = r[i]
  BY <1>1, ReadingGrows
<1>3. \A i \in 1..z : b[i] = d[i] /\ d[i].par \in 0..z
  BY DEF Tree
<1>4. x.par \in 0..z
  BY <1>1 DEF Tree
<1>5. \A i \in 1..(z + 1) : Att(i) = At(i)
  <2> TAKE i \in 1..(z + 1)
  <2>1. i - 1 \in Nat /\ i - 1 <= Len(d) /\ i - 1 <= Len(b) /\ \A n \in 1..(i - 1) : n \in 1..z
    BY <1>1
  <2>2. SubSeq(b, 1, i - 1) = SubSeq(d, 1, i - 1)
    BY <1>3, <2>1, SubSeqSame
  <2> QED
    BY <2>2
<1>6. At(z + 1) = Len(AttrsOf(d))
  <2>1. (z + 1) - 1 = Len(d)
    BY <1>1
  <2>2. SubSeq(d, 1, (z + 1) - 1) = d
    BY <2>1, SubSeqWhole
  <2> QED
    BY <2>2
<1>7. \A j \in 1..z : New(j) <=> Old(j)
  BY <1>2, <1>3
<1>8. New(z + 1) <=> Begun(x.elt, r[x.par])
  BY <1>2, <1>4
<1>9. Breaks(b) = {Att(i) : i \in {j \in 1..(z + 1) : New(j)}}
  BY <1>1 DEF Breaks
<1>10. Breaks(d) = {At(i) : i \in {j \in 1..z : Old(j)}}
  BY DEF Breaks
<1>11. 1..(z + 1) = (1..z) \union {z + 1}
  BY <1>1
<1> DEFINE e == x.elt
           out == r[x.par]
           o == AttrsOf(d)
<1>12. Broken(e, out, o, Breaks(d)) = IF Begun(e, out) THEN Breaks(d) \union {Len(o)} ELSE Breaks(d)
  BY DEF Broken
<1>13. (New(z + 1) <=> Begun(e, out)) /\ At(z + 1) = Len(o)
  BY <1>6, <1>8
<1> HIDE DEF New, Old, At, Att, e, out, o, x, z
<1>14. Breaks(b) = Broken(e, out, o, Breaks(d))
  <2>1. ASSUME NEW v PROVE v \in Breaks(b) <=> v \in Breaks(d) \/ (Begun(e, out) /\ v = Len(o))
    <3>1. v \in Breaks(b) <=> \E j \in 1..(z + 1) : New(j) /\ v = Att(j)
      BY <1>9
    <3>2. v \in Breaks(d) <=> \E j \in 1..z : Old(j) /\ v = At(j)
      BY <1>10
    <3>3. \A j \in 1..(z + 1) : j \in 1..z \/ j = z + 1
      BY <1>11
    <3>4. z + 1 \in 1..(z + 1) /\ \A j \in 1..z : j \in 1..(z + 1)
      BY <1>11
    <3> QED
      BY <1>5, <1>7, <1>13, <3>1, <3>2, <3>3, <3>4, Zenon
  <2>2. CASE Begun(e, out)
    BY <1>12, <2>1, <2>2
  <2>3. CASE ~Begun(e, out)
    BY <1>12, <2>1, <2>3
  <2> QED
    BY <2>2, <2>3
<1> QED
  BY <1>14 DEF e, out, o, x, z

LEMMA StartDistinct ==
  ASSUME OpenInv, NEW e \in Elements, StartElement(e), Sound(doc'), Distinct(doc')
  PROVE  LET out == ReadingOf(doc)[Parent]
             o   == AttrsOf(doc)
             w   == MeantBy(e, Entered(e, out), o)
             D   == Broken(e, out, o, Breaks(doc))
         IN  /\ Sound(doc) /\ Distinct(doc) /\ Clear(e, out)
             /\ AttrsOf(doc') = w /\ Breaks(doc') = D /\ Unrepeated(w, D)
<1> DEFINE b   == doc'
           z   == Len(doc)
           out == ReadingOf(doc)[Parent]
           o   == AttrsOf(doc)
           w   == MeantBy(e, Entered(e, out), o)
           B   == Breaks(doc)
           D   == Broken(e, out, o, B)
<1>1. /\ OpenInv' /\ Len(b) = z + 1 /\ b[z + 1].elt = e /\ b[z + 1].par = Parent
      /\ \A i \in 1..z : b[i] = doc[i]
      /\ \A i \in 0..z : ReadingOf(b)[i] = ReadingOf(doc)[i]
      /\ ReadingOf(b)[z + 1] = Entered(e, out)
      /\ Sound(doc) /\ Plain(e)
  BY StartDoc
<1>2. Tree(doc) /\ Tree(b) /\ z \in Nat /\ Parent \in 0..z
  BY <1>1, ParentOpen DEF OpenInv
<1>3. Sound(b) /\ Distinct(b)
  OBVIOUS
<1>4. AttrsOf(b) = w
  BY <1>1, <1>2, AttrsGrow
<1>5. Breaks(b) = D
  <2>1. IsSeq(doc) /\ IsSeq(b)
    BY <1>1, SeqOfRange DEF OpenInv, IsSeq
  <2> HIDE DEF b
  <2> QED
    BY <1>1, <1>2, <2>1, BreaksGrow
<1>6. IsSeq(o)
  <2>1. \A i \in 1..Len(doc) : Len(doc[i].elt.attrs) \in Nat
    BY <1>1 DEF Sound, Plain
  <2> QED
    BY <1>2, <2>1, AttrsSeq
<1> HIDE DEF b
<1>7. Unrepeated(w, D)
  BY <1>3, <1>4, <1>5 DEF Distinct
<1>8. Unrepeated(o, B)
  <2>1. Len(e.attrs) \in Nat
    BY <1>1 DEF Plain
  <2> DEFINE y == Entered(e, out)
  <2> HIDE DEF y, o
  <2>2. PICK h : MeantRun(h, e, y, o)
    BY <2>1, MeantBySteps
  <2>3. Extends(MeantBy(e, y, o), o)
    BY <1>6, <2>1, <2>2, MeantBefore
  <2> HIDE DEF out, B, D
  <2>4. Unrepeated(o, D)
    BY <1>7, <2>3, UnrepeatedPrefix DEF y
  <2>5. \A n \in 1..(Len(o) - 1) : n \in D => n \in B
    <3>1. Len(o) \in Nat
      BY <2>3 DEF Extends
    <3>2. \A n \in 1..(Len(o) - 1) : n # Len(o)
      BY <3>1
    <3>3. D = B \/ D = B \union {Len(o)}
      BY DEF D, Broken
    <3> QED
      BY <3>2, <3>3
  <2> QED
    BY <2>4, <2>5 DEF Unrepeated
<1>9. ASSUME NEW i \in 1..z PROVE Clear(doc[i].elt, ReadingOf(doc)[doc[i].par])
  <2>1. i \in 1..Len(b) /\ b[i] = doc[i] /\ doc[i].par \in 0..z
    BY <1>1, <1>2 DEF Tree, z
  <2> QED
    BY <1>1, <1>3, <2>1 DEF Distinct
<1>10. Clear(e, out)
  <2>1. z + 1 \in 1..Len(b)
    BY <1>1, <1>2
  <2> QED
    BY <1>1, <1>2, <1>3, <2>1 DEF Distinct
<1>11. Distinct(doc)
  BY <1>8, <1>9 DEF Distinct
<1> QED
  BY <1>1, <1>4, <1>5, <1>7, <1>10, <1>11 DEF b

LEMMA StartElementTells ==
  ASSUME RInv, TypedInv, TellInv, NEW e \in Elements, StartElement(e)
  PROVE  TypedInv' /\ TellInv'
<1> SUFFICES ASSUME Sound(doc'), Distinct(doc'), Running'
             PROVE  /\ \A i \in 1..Len(doc') : ReadingOf(doc')[i].in = BATCH => ctx'.f35 # UNK
                    /\ TellsIn(ctx'.flds, AttrsOf(doc'), Breaks(doc'))
  BY DEF TypedInv, TellInv
<1> DEFINE out == ReadingOf(doc)[Parent]
           o   == AttrsOf(doc)
           y   == Entered(e, out)
           w   == MeantBy(e, y, o)
           B   == Breaks(doc)
           D   == Broken(e, out, o, B)
<1>1. OpenInv /\ PathInv /\ Running /\ ctx' = ElSta(ctx, e)
  BY DEF RInv, StartElement
<1>2. /\ Sound(doc) /\ Distinct(doc) /\ Clear(e, out)
      /\ AttrsOf(doc') = w /\ Breaks(doc') = D /\ Unrepeated(w, D)
  BY <1>1, StartDistinct
<1>3. Plain(e) /\ Settled(e, out) /\ Len(doc') = Len(doc) + 1
      /\ (\A i \in 0..Len(doc) : ReadingOf(doc')[i] = ReadingOf(doc)[i])
      /\ ReadingOf(doc')[Len(doc) + 1] = y
  BY <1>1, StartDoc
<1>4. /\ \A i \in 1..Len(doc) : ReadingOf(doc)[i].in = BATCH => ctx.f35 # UNK
      /\ TellsIn(ctx.flds, o, B)
  BY <1>1, <1>2 DEF TypedInv, TellInv
<1>5. /\ Parent \in 0..Len(doc) /\ Tree(doc) /\ Len(doc) \in Nat /\ ReadingOf(doc)[0] = Nowhere
      /\ doc = <<>> => Parent = 0
  BY <1>1, ParentOpen, ReadingSteps DEF OpenInv
<1>6. Headed(out)
  BY <1>5, ReadingHeaded
<1>7. y.in = BATCH => (y.own /\ Cid(out.in, e.name) = UNK) \/ out.in = BATCH
  BY <1>2, <1>6, EnteredHeaded DEF Clear
<1>8. out.in = BATCH => ctx.f35 # UNK
  BY <1>4, <1>5 DEF Nowhere, BATCH, UNK
<1>9. /\ ctx.f35 # UNK => ctx'.f35 # UNK
      /\ y.own /\ Cid(out.in, e.name) = UNK => ctx'.f35 # UNK
      /\ TellsOf(ctx', w, D)
  <2>1. CASE doc = <<>>
    <3>1. ctx = Fresh
      BY <1>1, <1>2, <2>1 DEF PathInv
    <3>2. out = Nowhere /\ Nowhere.in = UNK
      BY <1>5, <2>1 DEF Nowhere
    <3>3. Rooted(e)
      <4>1. 1 = Len(doc) + 1
        BY <2>1
      <4>2. doc' # <<>> /\ doc'[1].elt = e
        BY <1>1, <4>1, StartDoc
      <4> QED
        BY <4>2 DEF Sound
    <3>4. o = <<>> /\ B = {}
      <4>1. Len(doc) = 0 /\ Len(doc) \in Nat
        BY <2>1
      <4>2. PICK g : AttrsRun(g, doc)
        BY <4>1, AttrsOfSteps
      <4>3. o = <<>>
        BY <4>1, <4>2 DEF AttrsRun
      <4>4. B = {}
        BY <4>1 DEF Breaks
      <4> QED
        BY <4>3, <4>4
    <3>5. Fresh.f35 = UNK
      BY DEF Fresh
    <3>6. D = {}
      BY <3>2, <3>4 DEF Broken, Begun, BATCH, UNK
    <3> HIDE DEF out, o, B, D
    <3> QED
      BY <1>1, <1>2, <1>3, <3>1, <3>2, <3>3, <3>4, <3>5, <3>6, RootTells, RootHead
  <2>2. CASE doc # <<>>
    <3>1. Along(ctx, out.path) /\ ctx.fault = "none"
      BY <1>1, <1>2, <2>2 DEF PathInv, Running
    <3> HIDE DEF out, o, B, D
    <3>2. ElSta(ctx, e) = SaxBo(ctx, e)
      <4>1. PrefToNs(ctx, e.pref) = 0 /\ 0 \in DOMAIN ctx.ns /\ ctx.ns[0].nsid \in Known
        BY <1>3, <3>1, NoPrefix DEF Along, Versioned, Formed, Plain
      <4> QED
        BY <4>1 DEF ElSta, NoIdx, BadPref
    <3>3. /\ ctx.f35 # UNK => ctx'.f35 # UNK
          /\ y.own /\ Cid(out.in, e.name) = UNK => ctx'.f35 # UNK
      BY <1>1, <1>3, <1>6, <3>1, <3>2, SaxBoHead
    <3>4. TellsOf(ElSta(ctx, e), w, D)
      <4>1. D = Broken(e, out, o, B)
        BY DEF D
      <4> QED
        BY <1>2, <1>3, <1>4, <1>6, <1>8, <3>1, <4>1, ElStaTells
    <3> QED
      BY <1>1, <3>3, <3>4
  <2> QED
    BY <2>1, <2>2
<1>10. ASSUME NEW i \in 1..Len(doc'), ReadingOf(doc')[i].in = BATCH PROVE ctx'.f35 # UNK
  <2>1. i \in 1..Len(doc) \/ i = Len(doc) + 1
    BY <1>3, <1>5
  <2>2. CASE i \in 1..Len(doc)
    <3>1. ReadingOf(doc)[i].in = BATCH
      BY <1>3, <1>10, <2>2
    <3> QED
      BY <1>4, <1>9, <2>2, <3>1
  <2>3. CASE i = Len(doc) + 1
    <3>1. y.in = BATCH
      BY <1>3, <1>10, <2>3
    <3> QED
      BY <1>7, <1>8, <1>9, <3>1
  <2> QED
    BY <2>1, <2>2, <2>3
<1> QED
  BY <1>2, <1>9, <1>10 DEF TellsOf, Running

LEMMA EndElementTells ==
  ASSUME RInv, TypedInv, TellInv, EndElement
  PROVE  TypedInv' /\ TellInv'
<1> SUFFICES ASSUME Sound(doc), Distinct(doc), Running'
             PROVE  /\ \A i \in 1..Len(doc) : ReadingOf(doc)[i].in = BATCH => ctx'.f35 # UNK
                    /\ TellsIn(ctx'.flds, AttrsOf(doc), Breaks(doc))
  BY DEF TypedInv, TellInv, EndElement
<1>1. OpenInv /\ PathInv /\ Running /\ open # <<>> /\ ctx' = ElEnd(ctx, doc[Last(open)].elt)
  BY DEF RInv, EndElement
<1>2. doc # <<>>
  BY <1>1, ParentOpen
<1>3. Formed(ctx)
  BY <1>1, <1>2 DEF PathInv, Along, Versioned
<1>4. /\ \A i \in 1..Len(doc) : ReadingOf(doc)[i].in = BATCH => ctx.f35 # UNK
      /\ TellsIn(ctx.flds, AttrsOf(doc), Breaks(doc))
  BY <1>1 DEF TypedInv, TellInv
<1>5. TellsOf(ctx', AttrsOf(doc), Breaks(doc)) /\ ctx'.f35 = ctx.f35
  BY <1>1, <1>3, <1>4, ElEndTells, ElEndHead DEF SameHead
<1> QED
  BY <1>4, <1>5 DEF TellsOf, Running

LEMMA TellSteps ==
  /\ Init => TypedInv /\ TellInv
  /\ RInv /\ TypedInv /\ TellInv /\ [Next]_vars => TypedInv' /\ TellInv'
<1>1. ASSUME Init PROVE TypedInv /\ TellInv
  <2>1. ctx.flds = <<>> /\ doc = <<>> /\ IsSeq(<<>>) /\ Len(<<>>) = 0 /\ Len(<<>>) \in Nat
    BY <1>1, EmptySeq DEF Init, Fresh, IsSeq
  <2>2. OffsOf(<<>>) = <<>> /\ AttrsOf(<<>>) = <<>>
    <3>1. PICK g : OffsRun(g, <<>>)
      BY <2>1, OffsOfSteps
    <3>2. PICK h : AttrsRun(h, <<>>)
      BY <2>1, AttrsOfSteps
    <3> QED
      BY <2>1, <3>1, <3>2 DEF OffsRun, AttrsRun
  <2>3. Breaks(<<>>) = {}
    BY DEF Breaks
  <2>4. Tells(<<>>, <<>>)
    BY <2>1, <2>2 DEF Tells
  <2>5. TellInv
    BY <2>1, <2>2, <2>3, <2>4 DEF TellInv, TellsIn
  <2>6. TypedInv
    BY <2>1 DEF TypedInv
  <2> QED
    BY <2>5, <2>6
<1>2. ASSUME RInv, TypedInv, TellInv, [Next]_vars PROVE TypedInv' /\ TellInv'
  <2>1. CASE EndElement
    BY <1>2, <2>1, EndElementTells
  <2>2. CASE \E e \in Elements : StartElement(e)
    BY <1>2, <2>2, StartElementTells
  <2>3. CASE UNCHANGED vars
    BY <1>2, <2>3 DEF vars, TypedInv, TellInv, Running
  <2> QED
    BY <1>2, <2>1, <2>2, <2>3 DEF Next
<1> QED
  BY <1>1, <1>2

(* In such a document, if roots are FIXML elements, batches are messages   *)
(* and optimised elements name the same fields under either name, every    *)
(* attribute that names a field has become one, in document order and with *)
(* the context of its element, whatever counters and types came between,   *)
(* unless bang_attr has fields of one tag replace each other.              *)
THEOREM AttributesKept == Spec => [](Sound(doc) /\ AllClear(doc) => AttrsKept)
<1>1. TellInv => (Sound(doc) /\ AllClear(doc) => AttrsKept)
  <2> SUFFICES ASSUME TellInv, Sound(doc), AllClear(doc), Running,
                      Unrepeated(AttrsOf(doc), Breaks(doc))
               PROVE  OffsOf(ctx.flds) = AttrsOf(doc)
    BY DEF AttrsKept
  <2>1. Distinct(doc)
    BY Zenon DEF Distinct, AllClear
  <2> QED
    BY <2>1, Zenon DEF TellInv, TellsIn, Tells
<1> QED
  BY <1>1, PathSteps, TellSteps, PTL DEF Spec

=============================================================================
