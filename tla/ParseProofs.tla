----------------------------- MODULE ParseProofs -----------------------------
(***************************************************************************)
(* Proofs about FixParse: where the parser stands in a text, and what it   *)
(* has made of the fields before, wherever inflated text is cut.           *)
(***************************************************************************)
EXTENDS FixParse, SizeProofs, SequenceTheorems

-----------------------------------------------------------------------------
(* Texts *)

LEMMA Glue ==
  ASSUME NEW a \in Seq(Int), NEW b \in Seq(Int)
  PROVE  /\ a \o b \in Seq(Int) /\ Len(a) \in Nat /\ Len(b) \in Nat
         /\ Len(a \o b) = Len(a) + Len(b)
         /\ \A i \in 1..Len(a) : (a \o b)[i] = a[i]
         /\ \A i \in 1..Len(b) : (a \o b)[Len(a) + i] = b[i]
<1>1. Len(a) \in Nat /\ Len(b) \in Nat
  OBVIOUS
<1>2. /\ a \o b \in Seq(Int)
      /\ Len(a \o b) = Len(a) + Len(b)
      /\ \A i \in 1 .. Len(a) + Len(b) : (a \o b)[i] =
                     IF i <= Len(a) THEN a[i] ELSE b[i - Len(a)]
  BY ConcatProperties
<1>3. ASSUME NEW i \in 1..Len(a) PROVE (a \o b)[i] = a[i]
  BY <1>1, <1>2
<1>4. ASSUME NEW i \in 1..Len(b) PROVE (a \o b)[Len(a) + i] = b[i]
  <2>1. /\ Len(a) + i \in 1..Len(a) + Len(b) /\ ~(Len(a) + i <= Len(a))
        /\ (Len(a) + i) - Len(a) = i
    BY <1>1
  <2> QED
    BY <1>2, <2>1
<1> QED
  BY <1>1, <1>2, <1>3, <1>4

(* One byte behind a sequence. *)
LEMMA GlueByte ==
  ASSUME NEW a \in Seq(Int), NEW c \in Int
  PROVE  /\ a \o <<c>> \in Seq(Int)
         /\ Len(a \o <<c>>) = Len(a) + 1
         /\ \A i \in 1..Len(a) : (a \o <<c>>)[i] = a[i]
         /\ (a \o <<c>>)[Len(a) + 1] = c
<1>1. <<c>> \in Seq(Int) /\ Len(<<c>>) = 1 /\ <<c>>[1] = c /\ 1 \in 1..1
  OBVIOUS
<1> QED
  BY <1>1, Glue

(* The bytes of a field. *)
LEMMA FieldBytes ==
  ASSUME NEW f \in Fields
  PROVE  /\ FieldText(f) \in Seq(Int)
         /\ Len(f.key) \in Nat /\ Len(f.val) \in Nat
         /\ Len(FieldText(f)) = Len(f.key) + Len(f.val) + 2
         /\ \A x \in 1..Len(f.key) : FieldText(f)[x] = f.key[x]
         /\ FieldText(f)[Len(f.key) + 1] = EQ
         /\ \A x \in 1..Len(f.val) : FieldText(f)[Len(f.key) + 1 + x] = f.val[x]
         /\ FieldText(f)[Len(f.key) + Len(f.val) + 2] = SOH
<1>1. f.key \in Seq(Int) /\ f.val \in Seq(Int)
  <2>1. f.key \in Seq(0..9) /\ f.val \in Seq(Int) /\ 0..9 \subseteq Int
    BY DEF Fields
  <2> QED
    BY <2>1, SeqMonotonic
<1>2. EQ \in Int /\ SOH \in Int
  BY DEF EQ, SOH
<1> DEFINE k == f.key
           v == f.val
           s1 == k \o <<EQ>>
           s2 == s1 \o v
           s3 == s2 \o <<SOH>>
<1> HIDE DEF k, v
<1>3. /\ k \in Seq(Int) /\ v \in Seq(Int) /\ Len(k) \in Nat /\ Len(v) \in Nat
  BY <1>1 DEF k, v
<1>4. /\ s1 \in Seq(Int) /\ Len(s1) = Len(k) + 1
      /\ \A i \in 1..Len(k) : s1[i] = k[i]
      /\ s1[Len(k) + 1] = EQ
  BY <1>2, <1>3, GlueByte
<1> HIDE DEF s1
<1>5. /\ s2 \in Seq(Int) /\ Len(s2) = Len(s1) + Len(v)
      /\ \A i \in 1..Len(s1) : s2[i] = s1[i]
      /\ \A i \in 1..Len(v) : s2[Len(s1) + i] = v[i]
  BY <1>3, <1>4, Glue
<1> HIDE DEF s2
<1>6. /\ s3 \in Seq(Int) /\ Len(s3) = Len(s2) + 1
      /\ \A i \in 1..Len(s2) : s3[i] = s2[i]
      /\ s3[Len(s2) + 1] = SOH
  BY <1>2, <1>5, GlueByte
<1> HIDE DEF s3
<1>7. /\ s3 \in Seq(Int) /\ Len(s3) = Len(k) + Len(v) + 2
      /\ \A x \in 1..Len(k) : s3[x] = k[x]
      /\ s3[Len(k) + 1] = EQ
      /\ \A x \in 1..Len(v) : s3[Len(k) + 1 + x] = v[x]
      /\ s3[Len(k) + Len(v) + 2] = SOH
  <2>1. Len(s2) = Len(k) + 1 + Len(v) /\ Len(s1) = Len(k) + 1
    BY <1>3, <1>4, <1>5
  <2>2. ASSUME NEW x \in 1..(Len(k) + 1) PROVE s3[x] = s1[x]
    <3>1. x \in 1..Len(s1) /\ x \in 1..Len(s2)
      BY <1>3, <2>1
    <3> QED
      BY <1>5, <1>6, <3>1
  <2>3. ASSUME NEW x \in 1..Len(v) PROVE s3[Len(k) + 1 + x] = v[x]
    <3>1. Len(k) + 1 + x \in 1..Len(s2)
      BY <1>3, <2>1
    <3> QED
      BY <1>5, <1>6, <2>1, <3>1
  <2>4. Len(k) + 1 \in 1..(Len(k) + 1) /\ \A x \in 1..Len(k) : x \in 1..(Len(k) + 1)
    BY <1>3
  <2>5. Len(s2) + 1 = Len(k) + Len(v) + 2
    BY <1>3, <2>1
  <2> QED
    BY <1>4, <1>6, <2>2, <2>3, <2>4, <2>5
<1>8. FieldText(f) = s3
  BY DEF FieldText, s1, s2, s3, k, v
<1> QED
  BY <1>3, <1>7, <1>8 DEF k, v

(* Where the fields of a text end. *)
IsEnds(e, fs) ==
  /\ e \in [0..Len(fs) -> Nat] /\ e[0] = 0
  /\ \A i \in 1..Len(fs) : e[i] = e[i - 1] + Len(FieldText(fs[i]))
  /\ \A i \in 0..Len(fs) : e[i] <= e[Len(fs)]

(* A text with some bytes behind them. *)
IsTextOf(w, e, fs) ==
  /\ w \in Seq(Int) /\ e[Len(fs)] <= Len(w)
  /\ \A i \in 1..Len(fs) : \A x \in 1..Len(FieldText(fs[i])) :
       w[e[i - 1] + x] = FieldText(fs[i])[x]

(* FlattenSeq, by its recursion, as far as the first n. *)
IsFlat(g, ss, n) ==
  g = [i \in 1..n |-> IF i = 1 THEN ss[i] ELSE g[i - 1] \o ss[i]]

LEMMA FlatExists ==
  ASSUME NEW ss, NEW n \in Nat
  PROVE  \E g : IsFlat(g, ss, n)
<1> DEFINE S == {k \in Nat : \E g : IsFlat(g, ss, k)}
<1>1. 0 \in S
  <2> DEFINE g == [i \in 1..0 |-> ss[i]]
  <2>1. g = [i \in 1..0 |-> IF i = 1 THEN ss[i] ELSE g[i - 1] \o ss[i]]
    <3>1. \A i \in 1..0 : FALSE
      OBVIOUS
    <3> QED
      BY <3>1, Zenon
  <2> QED
    BY <2>1 DEF IsFlat
<1>2. ASSUME NEW k \in 0..(n - 1), k \in S PROVE k + 1 \in S
  <2>1. PICK f : IsFlat(f, ss, k)
    BY <1>2
  <2> DEFINE g == [i \in 1..(k + 1) |-> IF i <= k THEN f[i]
                                       ELSE IF i = 1 THEN ss[i] ELSE f[k] \o ss[i]]
  <2>2. ASSUME NEW i \in 1..(k + 1)
        PROVE  g[i] = IF i = 1 THEN ss[i] ELSE g[i - 1] \o ss[i]
    <3>1. CASE i <= k
      <4>1. i \in 1..k /\ (i # 1 => i - 1 \in 1..(k + 1) /\ i - 1 <= k)
        BY <3>1
      <4>2. f[i] = IF i = 1 THEN ss[i] ELSE f[i - 1] \o ss[i]
        BY <2>1, <4>1, Zenon DEF IsFlat
      <4>3. g[i] = f[i] /\ (i # 1 => g[i - 1] = f[i - 1])
        BY <3>1, <4>1
      <4> HIDE DEF g
      <4> QED
        BY <4>2, <4>3, Zenon
    <3>2. CASE i = k + 1
      <4>1. ~(i <= k) /\ (i # 1 => i - 1 = k /\ k \in 1..(k + 1) /\ k <= k)
        BY <3>2
      <4>2. g[i] = (IF i = 1 THEN ss[i] ELSE f[k] \o ss[i]) /\ (i # 1 => g[k] = f[k])
        BY <4>1
      <4> HIDE DEF g
      <4> QED
        BY <4>1, <4>2, Zenon
    <3> QED
      BY <3>1, <3>2
  <2>3. g = [i \in 1..(k + 1) |-> g[i]]
    BY Zenon
  <2> HIDE DEF g
  <2>4. g = [i \in 1..(k + 1) |-> IF i = 1 THEN ss[i] ELSE g[i - 1] \o ss[i]]
    BY <2>2, <2>3, Zenon
  <2>5. IsFlat(g, ss, k + 1)
    BY <2>4, Zenon DEF IsFlat
  <2>6. k + 1 \in Nat
    OBVIOUS
  <2> QED
    BY <2>5, <2>6, Zenon
<1> HIDE DEF S
<1>3. n \in S
  <2>1. \A k \in 0..n : k \in S
    BY <1>1, <1>2, UpTo
  <2> QED
    BY <2>1
<1> QED
  BY <1>3 DEF S

LEMMA FlattenSteps ==
  ASSUME NEW ss, NEW n \in Nat \ {0}, Len(ss) = n
  PROVE  \E g : /\ FlattenSeq(ss) = g[n] /\ g[1] = ss[1]
               /\ \A i \in 2..n : g[i] = g[i - 1] \o ss[i]
<1> DEFINE g == CHOOSE f : IsFlat(f, ss, n)
<1>1. IsFlat(g, ss, n)
  BY FlatExists
<1>2. FlattenSeq(ss) = g[n]
  <2>1. Len(ss) # 0
    OBVIOUS
  <2>2. FlattenSeq(ss) = (CHOOSE f : IsFlat(f, ss, Len(ss)))[Len(ss)]
    BY <2>1, Zenon DEF FlattenSeq, IsFlat
  <2> QED
    BY <2>2
<1> HIDE DEF g
<1>3. 1 \in 1..n /\ \A i \in 2..n : i \in 1..n /\ i # 1
  OBVIOUS
<1>4. \A i \in 1..n : g[i] = IF i = 1 THEN ss[i] ELSE g[i - 1] \o ss[i]
  BY <1>1, Zenon DEF IsFlat
<1>5. g[1] = ss[1] /\ \A i \in 2..n : g[i] = g[i - 1] \o ss[i]
  BY <1>3, <1>4, Zenon
<1> QED
  BY <1>2, <1>5

(* Every text has ends. *)
LEMMA TextEnds ==
  ASSUME NEW fs \in Seq(Fields), fs # <<>>
  PROVE  \E e : IsEnds(e, fs) /\ IsTextOf(TextOf(fs), e, fs) /\ Len(TextOf(fs)) = e[Len(fs)]
<1> DEFINE n == Len(fs)
           ss == [i \in DOMAIN fs |-> FieldText(fs[i])]
<1>1. n \in Nat \ {0} /\ DOMAIN fs = 1..n
  OBVIOUS
<1>2. Len(ss) = n /\ \A i \in 1..n : fs[i] \in Fields /\ ss[i] = FieldText(fs[i]) /\ ss[i] \in Seq(Int)
  <2>1. \A i \in 1..n : fs[i] \in Fields
    BY <1>1, ElementOfSeq
  <2>2. \A i \in 1..n : FieldText(fs[i]) \in Seq(Int)
    BY <2>1, FieldBytes
  <2>3. ss = [i \in 1..n |-> FieldText(fs[i])]
    BY <1>1
  <2>4. ss \in [1..n -> Seq(Int)]
    BY <2>2, <2>3
  <2>5. ss \in Seq(Seq(Int)) /\ Len(ss) = n
    BY <1>1, <2>4
  <2> QED
    BY <2>1, <2>2, <2>3, <2>5
<1> HIDE DEF n, ss
<1>3. PICK g : /\ FlattenSeq(ss) = g[n] /\ g[1] = ss[1]
               /\ \A i \in 2..n : g[i] = g[i - 1] \o ss[i]
  BY <1>1, <1>2, FlattenSteps
<1> DEFINE Good(k) == \A i \in 1..k : /\ g[i] \in Seq(Int)
                                       /\ Len(g[i]) <= Len(g[k])
                                       /\ \A x \in 1..Len(g[i]) : g[k][x] = g[i][x]
           S == {k \in Nat : k > 0 /\ k <= n => Good(k)}
<1>4. ASSUME NEW k \in 1..n, k # 1, Good(k - 1) PROVE Good(k)
  <2>1. k \in 2..n /\ k - 1 \in 1..(k - 1)
    BY <1>1, <1>4
  <2>2. g[k] = g[k - 1] \o ss[k] /\ ss[k] \in Seq(Int) /\ g[k - 1] \in Seq(Int)
    BY <1>2, <1>3, <1>4, <2>1
  <2>3. /\ g[k] \in Seq(Int) /\ Len(g[k - 1]) \in Nat /\ Len(g[k]) \in Nat
        /\ Len(g[k]) >= Len(g[k - 1])
        /\ \A x \in 1..Len(g[k - 1]) : g[k][x] = g[k - 1][x]
    <3>1. Len(ss[k]) \in Nat /\ Len(g[k - 1]) \in Nat
      BY <2>2
    <3>2. /\ g[k - 1] \o ss[k] \in Seq(Int)
          /\ Len(g[k - 1] \o ss[k]) = Len(g[k - 1]) + Len(ss[k])
          /\ \A x \in 1..Len(g[k - 1]) : (g[k - 1] \o ss[k])[x] = g[k - 1][x]
      BY <2>2, Glue, Zenon
    <3>3. g[k] \in Seq(Int) /\ \A x \in 1..Len(g[k - 1]) : g[k][x] = g[k - 1][x]
      BY <2>2, <3>2, Zenon
    <3>4. Len(g[k]) = Len(g[k - 1]) + Len(ss[k])
      BY <2>2, <3>2, Zenon
    <3>5. Len(g[k]) \in Nat /\ Len(g[k]) >= Len(g[k - 1])
      <4> DEFINE a == Len(g[k - 1])
                 b == Len(ss[k])
                 c == Len(g[k])
      <4>1. a \in Nat /\ b \in Nat /\ c = a + b
        BY <3>1, <3>4, Zenon
      <4> HIDE DEF a, b, c
      <4>2. c \in Nat /\ c >= a
        BY <4>1
      <4> QED
        BY <4>2 DEF a, c
    <3> QED
      BY <3>1, <3>3, <3>5, Zenon
  <2>4. ASSUME NEW i \in 1..(k - 1)
        PROVE  /\ g[i] \in Seq(Int) /\ Len(g[i]) <= Len(g[k])
               /\ \A x \in 1..Len(g[i]) : g[k][x] = g[i][x]
    <3>1. /\ g[i] \in Seq(Int) /\ Len(g[i]) <= Len(g[k - 1])
          /\ \A x \in 1..Len(g[i]) : g[k - 1][x] = g[i][x]
      BY <1>4
    <3>2. Len(g[i]) \in Nat
      BY <3>1
    <3>3. Len(g[k - 1]) \in Nat /\ Len(g[k]) \in Nat /\ Len(g[k]) >= Len(g[k - 1])
      BY <2>3, Zenon
    <3>4. \A x \in 1..Len(g[i]) : x \in 1..Len(g[k - 1])
      BY <3>1, <3>2, <3>3
    <3>5. Len(g[i]) <= Len(g[k])
      BY <3>1, <3>2, <3>3
    <3> QED
      BY <2>3, <3>1, <3>4, <3>5, Zenon
  <2>5. \A i \in 1..k : i = k \/ i \in 1..(k - 1)
    OBVIOUS
  <2> QED
    BY <2>3, <2>4, <2>5
<1>5. Good(1)
  <2>1. g[1] \in Seq(Int) /\ Len(g[1]) \in Nat /\ \A i \in 1..1 : i = 1
    BY <1>1, <1>2, <1>3
  <2> QED
    BY <2>1
<1> HIDE DEF Good
<1>6. Good(n)
  <2>1. 0 \in S
    OBVIOUS
  <2>2. ASSUME NEW k \in 0..(n - 1), k \in S PROVE k + 1 \in S
    <3>1. CASE k = 0
      BY <1>5, <3>1
    <3>2. CASE k # 0
      <4>1. Good(k) /\ k + 1 \in 1..n /\ k + 1 # 1 /\ (k + 1) - 1 = k
        BY <1>1, <2>2, <3>2
      <4>2. Good(k + 1)
        BY <1>4, <4>1
      <4> QED
        BY <4>2
    <3> QED
      BY <3>1, <3>2
  <2> HIDE DEF S
  <2>3. \A k \in 0..n : k \in S
    BY <1>1, <2>1, <2>2, UpTo
  <2>4. n \in S
    BY <1>1, <2>3
  <2> QED
    BY <1>1, <2>4 DEF S
<1> DEFINE e == [i \in 0..n |-> IF i = 0 THEN 0 ELSE Len(g[i])]
<1>7. \A i \in 1..n : /\ g[i] \in Seq(Int) /\ Len(g[i]) \in Nat /\ Len(g[i]) <= Len(g[n])
                      /\ \A x \in 1..Len(g[i]) : g[n][x] = g[i][x]
  BY <1>6 DEF Good
<1>8. /\ e \in [0..n -> Nat] /\ e[0] = 0 /\ e[n] = Len(g[n])
      /\ \A i \in 1..n : e[i] = Len(g[i]) /\ i - 1 \in 0..n /\ (i # 1 => e[i - 1] = Len(g[i - 1]))
      /\ \A i \in 0..n : e[i] <= e[n]
  BY <1>1, <1>7
<1> HIDE DEF e
<1>9. ASSUME NEW i \in 1..n
      PROVE  /\ e[i] = e[i - 1] + Len(ss[i])
             /\ \A x \in 1..Len(ss[i]) : g[n][e[i - 1] + x] = ss[i][x]
  <2>1. CASE i = 1
    <3>1. ss[1] = g[1] /\ e[1] = Len(g[1]) /\ e[1 - 1] = 0
      BY <1>1, <1>3, <1>8
    <3> QED
      BY <1>1, <1>7, <2>1, <3>1
  <2>2. CASE i # 1
    <3>1. i \in 2..n /\ i - 1 \in 1..n
      BY <1>1, <2>2
    <3>2. g[i] = g[i - 1] \o ss[i] /\ g[i - 1] \in Seq(Int) /\ ss[i] \in Seq(Int)
      BY <1>2, <1>3, <1>7, <3>1
    <3>3. /\ Len(g[i - 1] \o ss[i]) = Len(g[i - 1]) + Len(ss[i])
          /\ \A x \in 1..Len(ss[i]) : (g[i - 1] \o ss[i])[Len(g[i - 1]) + x] = ss[i][x]
      BY <3>2, Glue, Zenon
    <3>4. e[i] = Len(g[i]) /\ e[i - 1] = Len(g[i - 1]) /\ Len(g[i - 1]) \in Nat /\ Len(ss[i]) \in Nat
      <4>1. e[i] = Len(g[i]) /\ e[i - 1] = Len(g[i - 1])
        BY <1>8, <2>2, Zenon
      <4>2. Len(g[i - 1]) \in Nat /\ Len(ss[i]) \in Nat
        BY <3>2
      <4> QED
        BY <4>1, <4>2
    <3>5. ASSUME NEW x \in 1..Len(ss[i]) PROVE g[n][e[i - 1] + x] = ss[i][x]
      <4>1. Len(g[i - 1]) + x \in 1..Len(g[i])
        <5>1. Len(g[i]) = Len(g[i - 1]) + Len(ss[i])
          BY <3>2, <3>3, Zenon
        <5> DEFINE a == Len(g[i - 1])
                   b == Len(ss[i])
                   c == Len(g[i])
        <5>2. a \in Nat /\ b \in Nat /\ c = a + b /\ x \in 1..b
          BY <3>4, <5>1
        <5> HIDE DEF a, b, c
        <5>3. a + x \in 1..c
          BY <5>2
        <5> QED
          BY <5>3 DEF a, c
      <4>2. g[n][Len(g[i - 1]) + x] = g[i][Len(g[i - 1]) + x]
        BY <1>7, <4>1
      <4> QED
        BY <3>2, <3>3, <3>4, <4>2
    <3> QED
      BY <3>2, <3>3, <3>4, <3>5
  <2> QED
    BY <2>1, <2>2
<1>10. TextOf(fs) = g[n] /\ g[n] \in Seq(Int)
  BY <1>1, <1>3, <1>7 DEF TextOf, ss
<1>11. IsEnds(e, fs)
  BY <1>2, <1>8, <1>9 DEF IsEnds, n
<1>12. IsTextOf(TextOf(fs), e, fs)
  <2>1. e[n] <= Len(g[n])
    BY <1>1, <1>7, <1>8
  <2>2. \A i \in 1..n : \A x \in 1..Len(FieldText(fs[i])) : g[n][e[i - 1] + x] = FieldText(fs[i])[x]
    BY <1>2, <1>9
  <2> QED
    BY <1>10, <2>1, <2>2, Zenon DEF IsTextOf, n
<1>13. Len(TextOf(fs)) = e[Len(fs)]
  BY <1>8, <1>10 DEF n
<1> QED
  BY <1>11, <1>12, <1>13

End(fs) == CHOOSE e : IsEnds(e, fs) /\ IsTextOf(TextOf(fs), e, fs) /\ Len(TextOf(fs)) = e[Len(fs)]

(* A field that the parser's two separators delimit. *)
Clean(f) == f \in Fields /\ SOH \notin Range(f.val) /\ NUL \notin Range(f.val)

(* The fields fs, where they end, and a text that begins with them. *)
Laid(fs, e, w) ==
  /\ fs \in Seq(Fields) /\ Len(fs) \in Nat \ {0} /\ \A i \in 1..Len(fs) : Clean(fs[i])
  /\ IsEnds(e, fs) /\ IsTextOf(w, e, fs)

(* One field of such a text. *)
KeyEnd(e, fs, i) == e[i - 1] + Len(fs[i].key) + 1

LEMMA LaidField ==
  ASSUME NEW fs, NEW e, NEW w, Laid(fs, e, w), NEW i \in 1..Len(fs)
  PROVE  /\ fs[i].key \in Seq(0..9) /\ fs[i].val \in Seq(Int)
         /\ Len(fs[i].key) \in Nat /\ Len(fs[i].val) \in Nat
         /\ e[i - 1] \in Nat /\ e[i] \in Nat /\ w \in Seq(Int) /\ Len(w) \in Nat
         /\ KeyEnd(e, fs, i) \in Nat
         /\ e[i] = KeyEnd(e, fs, i) + Len(fs[i].val) + 1
         /\ e[i] <= e[Len(fs)] /\ e[i] <= Len(w)
         /\ \A x \in 1..Len(fs[i].key) : w[e[i - 1] + x] = fs[i].key[x]
         /\ w[KeyEnd(e, fs, i)] = EQ
         /\ \A x \in 1..Len(fs[i].val) : w[KeyEnd(e, fs, i) + x] = fs[i].val[x]
         /\ w[e[i]] = SOH
<1> DEFINE f == fs[i]
           n == Len(fs)
           lk == Len(f.key)
           lv == Len(f.val)
<1>1. f \in Fields /\ n \in Nat
  BY DEF Laid, Clean
<1>2. f.key \in Seq(0..9) /\ f.val \in Seq(Int)
  BY <1>1 DEF Fields
<1> HIDE DEF f
<1>3. /\ lk \in Nat /\ lv \in Nat /\ Len(FieldText(f)) = lk + lv + 2
      /\ \A x \in 1..lk : FieldText(f)[x] = f.key[x]
      /\ FieldText(f)[lk + 1] = EQ
      /\ \A x \in 1..lv : FieldText(f)[lk + 1 + x] = f.val[x]
      /\ FieldText(f)[lk + lv + 2] = SOH
  BY <1>1, FieldBytes
<1>4. /\ e \in [0..n -> Nat] /\ e[i] = e[i - 1] + Len(FieldText(f)) /\ e[i] <= e[n]
      /\ w \in Seq(Int) /\ e[n] <= Len(w)
      /\ \A x \in 1..Len(FieldText(f)) : w[e[i - 1] + x] = FieldText(f)[x]
  BY DEF Laid, IsEnds, IsTextOf, f
<1> HIDE DEF lk, lv, n
<1>5. i - 1 \in 0..n /\ i \in 0..n /\ n \in 0..n
  BY <1>1 DEF n
<1>6. e[i - 1] \in Nat /\ e[i] \in Nat /\ e[n] \in Nat /\ Len(w) \in Nat
  <2>1. e \in [0..n -> Nat] /\ w \in Seq(Int)
    BY <1>4, Zenon
  <2> QED
    BY <1>5, <2>1, SMTT(30)
<1> DEFINE a == e[i - 1]
           T == FieldText(f)
<1> HIDE DEF a, T
<1>7. a \in Nat /\ Len(T) = lk + lv + 2 /\ \A x \in 1..(lk + lv + 2) : w[a + x] = T[x]
  BY <1>3, <1>4, <1>6 DEF a, T
<1>8. ASSUME NEW x \in 1..lk PROVE w[a + x] = f.key[x]
  <2>1. x \in 1..(lk + lv + 2)
    BY <1>3
  <2> QED
    BY <1>3, <1>7, <2>1 DEF T
<1>9. w[a + lk + 1] = EQ
  <2> lk \in Nat /\ lv \in Nat /\ a \in Nat
    BY <1>3, <1>7, Zenon
  <2>1. lk + 1 \in 1..(lk + lv + 2) /\ a + (lk + 1) = a + lk + 1
    OBVIOUS
  <2>2. w[a + (lk + 1)] = T[lk + 1]
    BY <1>7, <2>1
  <2> QED
    BY <1>3, <2>1, <2>2 DEF T
<1>10. ASSUME NEW x \in 1..lv PROVE w[a + lk + 1 + x] = f.val[x]
  <2>1. lk + 1 + x \in 1..(lk + lv + 2) /\ a + (lk + 1 + x) = a + lk + 1 + x
    BY <1>3, <1>7, SMTT(30)
  <2>2. w[a + (lk + 1 + x)] = T[lk + 1 + x]
    BY <1>7, <2>1
  <2> QED
    BY <1>3, <2>1, <2>2 DEF T
<1>11. w[a + lk + lv + 2] = SOH
  <2> lk \in Nat /\ lv \in Nat /\ a \in Nat
    BY <1>3, <1>7, Zenon
  <2>1. lk + lv + 2 \in 1..(lk + lv + 2) /\ a + (lk + lv + 2) = a + lk + lv + 2
    OBVIOUS
  <2>2. w[a + (lk + lv + 2)] = T[lk + lv + 2]
    BY <1>7, <2>1
  <2>3. T[lk + lv + 2] = SOH
    BY <1>3, Zenon DEF T
  <2> QED
    BY <2>1, <2>2, <2>3
<1>12. e[i] = a + lk + lv + 2 /\ e[i] = (a + lk + 1) + lv + 1
  <2>1. e[i] = a + (lk + lv + 2)
    BY <1>3, <1>4 DEF a
  <2> QED
    BY <1>3, <1>7, <2>1
<1>13. KeyEnd(e, fs, i) = a + lk + 1 /\ a + lk + 1 \in Nat
  <2>1. lk \in Nat /\ a \in Nat
    BY <1>3, <1>7, Zenon
  <2> QED
    BY <2>1 DEF KeyEnd, a, lk, f
<1>14. e[i] <= Len(w)
  BY <1>4, <1>6
<1> QED
  BY <1>2, <1>3, <1>4, <1>6, <1>8, <1>9, <1>10, <1>11, <1>12, <1>13, <1>14 DEF f, lk, lv, n, a

(* Its value in particular. *)
ValueAt(w, p, val) == \A x \in 1..Len(val) : w[p + x] = val[x]

LEMMA LaidValue ==
  ASSUME NEW fs, NEW e, NEW w, Laid(fs, e, w), NEW i \in 1..Len(fs)
  PROVE  ValueAt(w, KeyEnd(e, fs, i), fs[i].val)
BY LaidField DEF ValueAt

-----------------------------------------------------------------------------
(* Where the parser stands *)

(* What has not been looked at is as it was. *)
Unread(w) ==
  /\ pr \in Seq(Int) /\ q \in Nat \ {0} /\ Len(pr) <= Len(w) /\ q <= Len(pr) + 1
  /\ \A x \in q..Len(pr) : pr[x] = w[x]

(* The i-th field is next, at its key or amid it; or all have been read,   *)
(* and, of the last, some of its value.                                    *)
AtKey(fs, e, i) == st = "KEY" /\ i \in 1..Len(fs) /\ q = e[i - 1] + 1

AtValue(fs, e, i) ==
  st = "VALUE" /\ i \in 1..Len(fs) /\ q = KeyEnd(e, fs, i) + 1 /\ cur = TagOf(fs[i])

AtEnd(fs, e, i) ==
  st = "KEY" /\ i = Len(fs) + 1 /\ q \in (KeyEnd(e, fs, Len(fs)) + 1)..(e[Len(fs)] + 1)

(* The first of the bytes looked for. *)
LEMMA FirstOf ==
  ASSUME NEW c, NEW j \in Nat, j \in Ends(c), \A i \in Ends(c) : i \in Nat /\ j <= i
  PROVE  Min(Ends(c)) = j
<1>1. Min(Ends(c)) \in Ends(c) /\ \A i \in Ends(c) : Min(Ends(c)) <= i
  BY DEF Min
<1>2. Min(Ends(c)) <= j /\ j <= Min(Ends(c)) /\ Min(Ends(c)) \in Nat
  BY <1>1
<1> QED
  BY <1>2

(* The bytes from position o on that are those of v are v. *)
LEMMA Cut ==
  ASSUME NEW s, NEW o \in Nat, NEW l \in Nat, NEW v \in Seq(Int), l = o + Len(v) - 1,
         \A x \in 1..Len(v) : s[o + x - 1] = v[x]
  PROVE  SubSeq(s, o, l) = v
<1>1. Len(v) \in Nat /\ l - o + 1 = Len(v) /\ o \in Int /\ l \in Int
  OBVIOUS
<1>2. ASSUME NEW y \in o..l PROVE s[y] \in Int
  <2>1. y - o + 1 \in 1..Len(v) /\ o + (y - o + 1) - 1 = y
    BY <1>1
  <2> QED
    BY <2>1, ElementOfSeq
<1>3. /\ SubSeq(s, o, l) \in Seq(Int)
      /\ Len(SubSeq(s, o, l)) = IF o <= l THEN l - o + 1 ELSE 0
      /\ \A x \in 1..(l - o + 1) : SubSeq(s, o, l)[x] = s[o + x - 1]
  BY <1>1, <1>2, SubSeqProperties
<1>4. Len(SubSeq(s, o, l)) = Len(v)
  <2>1. o <= l => Len(SubSeq(s, o, l)) = l - o + 1
    BY <1>3, Zenon
  <2>2. ~(o <= l) => Len(SubSeq(s, o, l)) = 0
    BY <1>3, Zenon
  <2> QED
    BY <1>1, <2>1, <2>2
<1>5. \A x \in 1..Len(v) : SubSeq(s, o, l)[x] = v[x]
  BY <1>1, <1>3
<1> QED
  BY <1>3, <1>4, <1>5, SeqEqual

(* A byte that ends a piece v of the text is found where that ends. *)
LEMMA PieceFound ==
  ASSUME NEW c, NEW w, NEW v \in Seq(Int), NEW p \in Nat, Unread(w), p = q + Len(v), w[p] = c,
         \A x \in 1..Len(v) : w[q + x - 1] = v[x] /\ v[x] # c
  PROVE  /\ Ends(c) # {} <=> p < Len(pr)
         /\ Ends(c) # {} => Min(Ends(c)) = p /\ SubSeq(pr, q, p - 1) = v
<1>1. pr \in Seq(Int) /\ q \in Nat \ {0} /\ \A x \in q..Len(pr) : pr[x] = w[x]
  BY DEF Unread
<1>2. Len(pr) \in Nat /\ Len(v) \in Nat
  BY <1>1
<1>3. q <= p /\ p - 1 = q + Len(v) - 1 /\ p - 1 \in Nat
  BY <1>1, <1>2
<1>4. ASSUME NEW y \in q..(p - 1), y <= Len(pr) PROVE pr[y] # c
  <2>1. y - q + 1 \in 1..Len(v) /\ q + (y - q + 1) - 1 = y /\ y \in q..Len(pr)
    BY <1>1, <1>2, <1>3, <1>4
  <2> QED
    BY <1>1, <2>1
<1>5. \A j \in Ends(c) : j \in Nat /\ j < Len(pr) /\ p <= j
  <2> TAKE j \in Ends(c)
  <2>1. j \in q..(Len(pr) - 1) /\ pr[j] = c
    BY DEF Ends
  <2>2. j \in Nat /\ q <= j /\ j < Len(pr) /\ j <= Len(pr)
    BY <1>1, <1>2, <2>1
  <2>3. ~(j \in q..(p - 1))
    BY <1>4, <2>1, <2>2
  <2>4. p <= j
    BY <1>3, <2>2, <2>3
  <2> QED
    BY <2>2, <2>4
<1>6. p < Len(pr) => p \in Ends(c)
  <2> SUFFICES ASSUME p < Len(pr) PROVE p \in Ends(c)
    OBVIOUS
  <2>1. p \in q..(Len(pr) - 1) /\ p \in q..Len(pr)
    BY <1>2, <1>3
  <2>2. pr[p] = c
    BY <1>1, <2>1
  <2> QED
    BY <2>1, <2>2 DEF Ends
<1>7. Ends(c) # {} => p < Len(pr)
  <2> SUFFICES ASSUME NEW j \in Ends(c) PROVE p < Len(pr)
    OBVIOUS
  <2>1. j \in Nat /\ j < Len(pr) /\ p <= j
    BY <1>5
  <2> QED
    BY <1>2, <2>1
<1>8. ASSUME p < Len(pr) PROVE Min(Ends(c)) = p /\ SubSeq(pr, q, p - 1) = v
  <2>1. Min(Ends(c)) = p
    BY <1>5, <1>6, <1>8, FirstOf
  <2>2. \A x \in 1..Len(v) : pr[q + x - 1] = v[x]
    <3> TAKE x \in 1..Len(v)
    <3>1. q + x - 1 \in q..Len(pr)
      BY <1>1, <1>2, <1>3, <1>8
    <3> QED
      BY <1>1, <3>1
  <2>3. SubSeq(pr, q, p - 1) = v
    BY <1>1, <1>3, <2>2, Cut
  <2> QED
    BY <2>1, <2>3
<1> QED
  BY <1>6, <1>7, <1>8

(* A key is found, and is that of the field. *)
LEMMA KeyFound ==
  ASSUME NEW fs, NEW e, NEW w, NEW i, Laid(fs, e, w), Unread(w), AtKey(fs, e, i)
  PROVE  /\ KeyEnd(e, fs, i) \in Nat /\ q <= KeyEnd(e, fs, i)
         /\ Ends(EQ) # {} <=> KeyEnd(e, fs, i) < Len(pr)
         /\ Ends(EQ) # {} => /\ Min(Ends(EQ)) = KeyEnd(e, fs, i)
                             /\ SubSeq(pr, q, KeyEnd(e, fs, i) - 1) = fs[i].key
<1>1. i \in 1..Len(fs) /\ q = e[i - 1] + 1
  BY DEF AtKey
<1>10. i \in 1..Len(fs)
  BY <1>1
<1>11. /\ Len(fs[i].key) \in Nat /\ e[i - 1] \in Nat
       /\ w[KeyEnd(e, fs, i)] = EQ
  BY <1>10, LaidField
<1>12. \A x \in 1..Len(fs[i].key) : w[e[i - 1] + x] = fs[i].key[x]
  BY <1>10, LaidField
<1>13. fs[i].key \in Seq(0..9)
  BY <1>10, LaidField, Zenon
<1> DEFINE key == fs[i].key
           p   == KeyEnd(e, fs, i)
<1>2. /\ key \in Seq(0..9) /\ Len(key) \in Nat /\ e[i - 1] \in Nat
      /\ \A x \in 1..Len(key) : w[e[i - 1] + x] = key[x]
      /\ w[p] = EQ
  BY <1>11, <1>12, <1>13
<1>3. p = e[i - 1] + Len(key) + 1
  BY DEF KeyEnd
<1> HIDE DEF key, p
<1>4. key \in Seq(Int) /\ \A x \in 1..Len(key) : key[x] # EQ
  <2>1. 0..9 \subseteq Int
    OBVIOUS
  <2>2. key \in Seq(Int)
    BY <1>2, <2>1, SeqMonotonic
  <2>3. \A x \in 1..Len(key) : key[x] \in 0..9
    BY <1>2, ElementOfSeq
  <2>4. EQ \notin 0..9
    BY DEF EQ
  <2> QED
    BY <2>2, <2>3, <2>4, Zenon
<1>5. p \in Nat /\ p = q + Len(key) /\ q <= p
  <2> DEFINE a == e[i - 1]
             l == Len(key)
  <2>1. a \in Nat /\ l \in Nat /\ q = a + 1 /\ p = a + l + 1
    BY <1>1, <1>2, <1>3, Zenon
  <2> HIDE DEF a, l
  <2>2. p \in Nat /\ p = q + l /\ q <= p
    BY <2>1
  <2> QED
    BY <2>2 DEF l
<1>6. \A x \in 1..Len(key) : w[q + x - 1] = key[x] /\ key[x] # EQ
  <2> TAKE x \in 1..Len(key)
  <2> e[i - 1] \in Nat /\ Len(key) \in Nat
    BY <1>2, Zenon
  <2>1. q + x - 1 = e[i - 1] + x
    BY <1>1
  <2> QED
    BY <1>2, <1>4, <2>1
<1>7. /\ Ends(EQ) # {} <=> p < Len(pr)
      /\ Ends(EQ) # {} => Min(Ends(EQ)) = p /\ SubSeq(pr, q, p - 1) = key
  BY <1>2, <1>4, <1>5, <1>6, PieceFound, Zenon
<1> QED
  BY <1>5, <1>7 DEF key, p

(* So is a value. *)
LEMMA ValueFound ==
  ASSUME NEW fs, NEW e, NEW w, NEW i, Laid(fs, e, w), Unread(w), AtValue(fs, e, i)
  PROVE  /\ e[i] \in Nat /\ q <= e[i] /\ e[i] = q + Len(fs[i].val)
         /\ Ends(SOH) # {} <=> e[i] < Len(pr)
         /\ Ends(SOH) # {} => Min(Ends(SOH)) = e[i] /\ SubSeq(pr, q, e[i] - 1) = fs[i].val
<1> DEFINE val == fs[i].val
           p   == KeyEnd(e, fs, i)
<1>1. i \in 1..Len(fs) /\ q = p + 1
  BY DEF AtValue
<1>2. /\ val \in Seq(Int) /\ Len(val) \in Nat /\ e[i] \in Nat /\ p \in Nat
      /\ e[i] = p + Len(val) + 1
      /\ \A x \in 1..Len(val) : w[p + x] = val[x]
      /\ w[e[i]] = SOH
  BY <1>1, LaidField
<1>3. Clean(fs[i])
  BY <1>1 DEF Laid
<1>4. \A x \in 1..Len(val) : val[x] # SOH
  BY <1>2, <1>3 DEF Clean, Range
<1> HIDE DEF val, p
<1>5. q \in Nat /\ p = q - 1
  <2>1. q \in Nat
    BY DEF Unread
  <2>2. p \in Nat
    BY <1>2, Zenon
  <2> QED
    BY <1>1, <2>1, <2>2
<1>6. e[i] = q + Len(val) /\ q <= e[i]
  <2> Len(val) \in Nat
    BY <1>2, Zenon
  <2>1. e[i] = p + Len(val) + 1
    BY <1>2, Zenon
  <2> QED
    BY <1>5, <2>1
<1>7. \A x \in 1..Len(val) : w[q + x - 1] = val[x] /\ val[x] # SOH
  <2> TAKE x \in 1..Len(val)
  <2>1. q + x - 1 = p + x
    BY <1>2, <1>5
  <2> QED
    BY <1>2, <1>4, <2>1
<1>8. /\ Ends(SOH) # {} <=> e[i] < Len(pr)
      /\ Ends(SOH) # {} => Min(Ends(SOH)) = e[i] /\ SubSeq(pr, q, e[i] - 1) = val
  BY <1>2, <1>6, <1>7, PieceFound, ZenonT(60)
<1> QED
  BY <1>2, <1>6, <1>8 DEF val

-----------------------------------------------------------------------------
(* What the parser makes of the fields it has read *)

(* The fields kept of the first k, for every k. *)
KeptBy(g, fs) ==
  /\ g \in [0..Len(fs) -> Seq(Fields)] /\ g[0] = <<>> /\ g[Len(fs)] = Kept(fs)
  /\ \A k \in 1..Len(fs) : g[k] = IF Plain(fs[k]) THEN Append(g[k - 1], fs[k]) ELSE g[k - 1]
  /\ \A k \in 0..Len(fs) : Len(g[k]) <= k

LEMMA KeptSteps ==
  ASSUME NEW fs \in Seq(Fields), Len(fs) # 0
  PROVE  \E g : KeptBy(g, fs)
<1> DEFINE n == Len(fs)
           ss == [i \in DOMAIN fs |-> IF Plain(fs[i]) THEN <<fs[i]>> ELSE <<>>]
<1>1. n \in Nat \ {0} /\ DOMAIN fs = 1..n /\ \A i \in 1..n : fs[i] \in Fields
  OBVIOUS
<1>2. Len(ss) = n /\ \A i \in 1..n : ss[i] = IF Plain(fs[i]) THEN <<fs[i]>> ELSE <<>>
  <2>1. ss = [i \in 1..n |-> IF Plain(fs[i]) THEN <<fs[i]>> ELSE <<>>]
    BY <1>1
  <2>2. \A i \in 1..n : <<fs[i]>> \in Seq(Fields) /\ <<>> \in Seq(Fields)
    BY <1>1
  <2>3. ss \in [1..n -> Seq(Fields)]
    BY <2>1, <2>2
  <2>4. Len(ss) = n
    BY <1>1, <2>3
  <2> QED
    BY <2>1, <2>4
<1>3. Kept(fs) = FlattenSeq(ss)
  BY DEF Kept
<1> HIDE DEF n, ss
<1>4. PICK f : /\ FlattenSeq(ss) = f[n] /\ f[1] = ss[1]
               /\ \A i \in 2..n : f[i] = f[i - 1] \o ss[i]
  BY <1>1, <1>2, FlattenSteps
<1> DEFINE g == [k \in 0..n |-> IF k = 0 THEN <<>> ELSE f[k]]
<1>5. /\ g[0] = <<>> /\ g[n] = f[n]
      /\ \A k \in 1..n : g[k] = f[k] /\ (k # 1 => g[k - 1] = f[k - 1]) /\ (k = 1 => g[k - 1] = <<>>)
  BY <1>1
<1>6. g = [k \in 0..n |-> g[k]]
  OBVIOUS
<1> HIDE DEF g
<1>7. ASSUME NEW k \in 1..n, g[k - 1] \in Seq(Fields)
      PROVE  g[k] = IF Plain(fs[k]) THEN Append(g[k - 1], fs[k]) ELSE g[k - 1]
  <2>1. fs[k] \in Fields /\ g[k - 1] \o <<>> = g[k - 1]
        /\ Append(g[k - 1], fs[k]) = g[k - 1] \o <<fs[k]>>
    BY <1>1, <1>7, ConcatEmptySeq, AppendIsConcat
  <2>2. g[k] = g[k - 1] \o ss[k]
    <3>1. CASE k = 1
      <4>1. ss[1] \in Seq(Fields)
        <5>1. <<fs[1]>> \in Seq(Fields) /\ <<>> \in Seq(Fields)
          BY <2>1, <3>1
        <5> QED
          BY <1>2, <3>1, <5>1
      <4>2. <<>> \o ss[1] = ss[1]
        BY <4>1, ConcatEmptySeq
      <4> QED
        BY <1>4, <1>5, <3>1, <4>2
    <3>2. CASE k # 1
      <4>1. k \in 2..n
        BY <1>1, <3>2
      <4> QED
        BY <1>4, <1>5, <3>2, <4>1
    <3> QED
      BY <3>1, <3>2
  <2> QED
    BY <1>2, <2>1, <2>2, Zenon
<1> DEFINE S == {k \in Nat : k <= n => g[k] \in Seq(Fields) /\ Len(g[k]) <= k}
<1>8. \A k \in 0..n : k \in S
  <2>1. 0 \in S
    <3>1. <<>> \in Seq(Fields) /\ Len(<<>>) <= 0
      BY EmptySeq
    <3> QED
      BY <1>5, <3>1
  <2>2. ASSUME NEW k \in 0..(n - 1), k \in S PROVE k + 1 \in S
    <3>1. k + 1 \in 1..n /\ (k + 1) - 1 = k /\ k <= n /\ k \in Nat /\ k + 1 \in Nat
      BY <1>1
    <3>2. g[k] \in Seq(Fields) /\ Len(g[k]) <= k /\ fs[k + 1] \in Fields
      BY <1>1, <2>2, <3>1
    <3>3. Len(g[k]) \in Nat
      BY <3>2
    <3>4. Append(g[k], fs[k + 1]) \in Seq(Fields) /\ Len(Append(g[k], fs[k + 1])) = Len(g[k]) + 1
      BY <3>2, AppendProperties
    <3>5. g[k + 1] = Append(g[k], fs[k + 1]) \/ g[k + 1] = g[k]
      BY <1>7, <3>1, <3>2, Zenon
    <3>6. Len(g[k]) + 1 <= k + 1 /\ Len(g[k]) <= k + 1
      BY <3>1, <3>2, <3>3
    <3>7. g[k + 1] \in Seq(Fields) /\ Len(g[k + 1]) <= k + 1
      BY <3>2, <3>4, <3>5, <3>6, Zenon
    <3> QED
      BY <3>1, <3>7
  <2> HIDE DEF S
  <2> QED
    BY <1>1, <2>1, <2>2, UpTo
<1>9. \A k \in 0..n : g[k] \in Seq(Fields) /\ Len(g[k]) <= k
  BY <1>1, <1>8
<1>10. \A k \in 1..n : k - 1 \in 0..n
  BY <1>1
<1>11. g \in [0..n -> Seq(Fields)]
  BY <1>6, <1>9
<1>12. g[n] = Kept(fs)
  BY <1>3, <1>4, <1>5
<1> QED
  BY <1>5, <1>7, <1>9, <1>10, <1>11, <1>12 DEF KeptBy, n

KeptTo(fs) == CHOOSE g : KeptBy(g, fs)

(* The value that is in the slot of a tag after the first k. *)
LastTo(tag, fs, k) ==
  LET I == {i \in 1..k : TagOf(fs[i]) = tag}
  IN  IF I = {} THEN <<>> ELSE fs[Max(I)].val

LEMMA LastSteps ==
  ASSUME NEW tag, NEW fs, Len(fs) \in Nat
  PROVE  /\ LastTo(tag, fs, 0) = <<>>
         /\ LastTo(tag, fs, Len(fs)) = LastVal(tag, fs)
         /\ \A k \in Nat \ {0} : LastTo(tag, fs, k) =
                IF TagOf(fs[k]) = tag THEN fs[k].val ELSE LastTo(tag, fs, k - 1)
<1>1. LastTo(tag, fs, 0) = <<>>
  <2>1. {i \in 1..0 : TagOf(fs[i]) = tag} = {}
    OBVIOUS
  <2> QED
    BY <2>1 DEF LastTo
<1>2. LastTo(tag, fs, Len(fs)) = LastVal(tag, fs)
  <2> DEFINE I == {i \in 1..Len(fs) : TagOf(fs[i]) = tag}
  <2>1. CASE I = {}
    <3>1. LastVal(tag, fs) = <<>>
      BY <2>1, Zenon DEF LastVal, SelectLastInSeq
    <3> QED
      BY <2>1, <3>1, Zenon DEF LastTo
  <2>2. CASE I # {}
    <3>1. LastVal(tag, fs) = IF Max(I) = 0 THEN <<>> ELSE fs[Max(I)].val
      BY <2>2, Zenon DEF LastVal, SelectLastInSeq
    <3>2. Max(I) # 0
      <4> DEFINE T == {Len(fs) - i : i \in I}
      <4>1. T \in SUBSET Nat /\ T # {}
        BY <2>2
      <4>2. PICK t \in T : \A j \in T : t <= j
        BY <4>1, LeastElement
      <4>3. PICK m \in I : t = Len(fs) - m
        BY <4>2
      <4>4. ASSUME NEW i \in I PROVE m >= i
        <5>1. Len(fs) - i \in T
          BY <4>4
        <5>2. t <= Len(fs) - i
          BY <4>2, <5>1, Zenon
        <5>3. i \in Nat /\ m \in Nat
          OBVIOUS
        <5>4. Len(fs) - m <= Len(fs) - i
          BY <4>3, <5>2
        <5> QED
          BY <5>3, <5>4
      <4>5. Max(I) \in I
        BY <4>3, <4>4 DEF Max
      <4> QED
        BY <4>5
    <3> QED
      BY <2>2, <3>1, <3>2, Zenon DEF LastTo
  <2> QED
    BY <2>1, <2>2
<1>3. ASSUME NEW k \in Nat \ {0}
      PROVE  LastTo(tag, fs, k) = IF TagOf(fs[k]) = tag THEN fs[k].val ELSE LastTo(tag, fs, k - 1)
  <2> DEFINE I == {i \in 1..k : TagOf(fs[i]) = tag}
             J == {i \in 1..(k - 1) : TagOf(fs[i]) = tag}
  <2>1. CASE TagOf(fs[k]) = tag
    <3>1. k \in I /\ \A i \in I : i <= k /\ i \in Nat
      BY <2>1
    <3>2. Max(I) \in I /\ \A i \in I : Max(I) >= i
      BY <3>1 DEF Max
    <3>3. Max(I) = k
      BY <3>1, <3>2
    <3> QED
      BY <2>1, <3>1, <3>3, Zenon DEF LastTo
  <2>2. CASE TagOf(fs[k]) # tag
    <3>1. I = J
      BY <2>2
    <3> QED
      BY <2>2, <3>1, Zenon DEF LastTo
  <2> QED
    BY <2>1, <2>2
<1> QED
  BY <1>1, <1>2, <1>3

LEMMA TagIsNat ==
  ASSUME NEW f
  PROVE  TagOf(f) \in Nat
<1>1. UINT16_MAX \in Nat
  BY DEF UINT16_MAX
<1> QED
  BY <1>1 DEF TagOf, StrToUI16

(* What is in range is not changed by narrowing. *)
LEMMA InRange ==
  ASSUME NEW x \in (-IntMax - 1)..IntMax
  PROVE  Int32(x) = x
<1>1. IntMax \in Nat
  BY WidthAssumption
<1> DEFINE n == 2 * (IntMax + 1)
           y == x + IntMax + 1
<1>2. n \in Nat \ {0} /\ y \in 0..(n - 1) /\ y - (IntMax + 1) = x
  BY <1>1
<1>3. Int32(x) = (y % n) - (IntMax + 1)
  BY DEF Int32
<1> HIDE DEF n, y
<1>4. y % n = y
  BY <1>2
<1> QED
  BY <1>2, <1>3, <1>4

(* The number an empty text begins with. *)
IsNumber(v, s) == v = [i \in 0..Len(s) |-> IF i = 0 THEN 0 ELSE 10 * v[i - 1] + s[i]]

LEMMA EmptyNumber ==
  ASSUME NEW s, s = <<>>
  PROVE  ParseLen(s) = 0
<1> DEFINE v == CHOOSE f : IsNumber(f, s)
<1>1. Len(s) = 0 /\ 0 \in 0..Len(s)
  OBVIOUS
<1>2. /\ SelectInSeq(s, LAMBDA c : c \notin 0..9) = 0
      /\ SelectInSeq(s, LAMBDA c : c \notin Blanks) = 0
  <2>1. {i \in 1..Len(s) : s[i] \notin 0..9} = {} /\ {i \in 1..Len(s) : s[i] \notin Blanks} = {}
    BY <1>1
  <2> QED
    BY <2>1, Zenon DEF SelectInSeq
<1>3. Skipped(s) = s
  BY <1>2, Zenon DEF Skipped
<1>4. NumberOf(s) = v[Len(s)]
  BY Zenon DEF NumberOf, IsNumber
<1>5. IsNumber([i \in 0..Len(s) |-> 0], s)
  <2> DEFINE f == [i \in 0..Len(s) |-> 0]
  <2>1. \A i \in 0..Len(s) : i = 0
    BY <1>1
  <2>2. f = [i \in 0..Len(s) |-> IF i = 0 THEN 0 ELSE 10 * f[i - 1] + s[i]]
    BY <2>1, Zenon
  <2> QED
    BY <2>2, Zenon DEF IsNumber
<1>6. IsNumber(v, s)
  BY <1>5, Zenon
<1> HIDE DEF v
<1>7. NumberOf(s) = 0
  BY <1>1, <1>4, <1>6, Zenon DEF IsNumber
<1>8. LongMax \in Nat /\ IntMax \in Nat
  BY WidthAssumption
<1>9. Leading(s, LongMax) = 0
  <2>1. 0 <= LongMax
    BY <1>8
  <2> QED
    BY <1>2, <1>7, <2>1, Zenon DEF Leading
<1>10. StrToL(s) = 0
  BY <1>3, <1>9, Zenon DEF StrToL
<1>11. 0 \in (-IntMax - 1)..IntMax
  BY <1>8
<1> QED
  BY <1>10, <1>11, InRange DEF ParseLen

(* Before any field has been read, there are no version and no length. *)
LEMMA NothingRead ==
  ASSUME NEW s, s = <<>>
  PROVE  Verify(s) = VER_UNK /\ ParseLen(s) = 0
<1>1. s \notin Versions
  BY VersionAssumption DEF VER_UNK
<1> QED
  BY <1>1, EmptyNumber DEF Verify

-----------------------------------------------------------------------------
(* The invariant.  fs are the fields of the text that is being parsed, e    *)
(* says where they end, w is the whole text, and the i-th field is next.    *)

(* A value that has been read, a C string. *)
Held(o, v) ==
  /\ o \in Nat \ {0} /\ o + Len(v) < q
  /\ \A x \in 1..Len(v) : pr[o + x - 1] = v[x]
  /\ pr[o + Len(v)] = NUL

Found(fs, i) ==
  /\ flds \in Seq([tag : Nat, off : Nat])
  /\ Len(flds) = Len(KeptTo(fs)[i - 1])
  /\ \A x \in 1..Len(flds) : /\ flds[x].tag = TagOf(KeptTo(fs)[i - 1][x])
                            /\ Held(flds[x].off, KeptTo(fs)[i - 1][x].val)

Lens == {ParseLen(s) : s \in Seq(Int)}

(* The text is not compressed, or inflates into one chunk. *)
Whole == ~zip \/ Len(TextOf(doc.body)) < chunk

Slots(fs, i) ==
  /\ slot \in [ver : Seq(Int), len : Lens, sum : Int, mtyp : Seq(Int)]
  /\ slot.mtyp = ParseMtyp(LastTo(MSG_TYPE, fs, i - 1))
  /\ NotComp(fs) => slot.ver # Comp
  /\ slot.ver \in {VER_UNK, Verify(LastTo(BEGIN_STRING, fs, i - 1))}
  /\ slot.len \in {0, ParseLen(LastTo(BODY_LENGTH, fs, i - 1))}
  /\ Whole => /\ slot.ver = Verify(LastTo(BEGIN_STRING, fs, i - 1))
              /\ slot.len = ParseLen(LastTo(BODY_LENGTH, fs, i - 1))

ReadTo(fs, e, w, i) ==
  /\ Unread(w) /\ i \in Nat
  /\ AtKey(fs, e, i) \/ AtValue(fs, e, i) \/ AtEnd(fs, e, i)
  /\ Found(fs, i) /\ Slots(fs, i)

(* A plain text.  All of it is there, and it is refused for its last field. *)
PlainAt(fs, e, w, i) ==
  /\ phase \in {"anal", "out", "msg", "null"} /\ ~fin
  /\ Len(pr) = Len(w) /\ fspc = PlainFspc(Len(w))
  /\ i = Len(fs) + 1 => q = e[Len(fs)] + 1 /\ TagOf(Last(fs)) = CHECK_SUM
  /\ phase # "anal" /\ i # Len(fs) + 1 =>
        i = Len(fs) /\ st = "VALUE" /\ TagOf(Last(fs)) # CHECK_SUM
  /\ phase = "msg" => i = Len(fs) + 1
  /\ phase = "null" => i = Len(fs)

(* The header of a compressed text *)
HeadAt(w, i) ==
  /\ ~fin /\ Len(pr) = Len(w)
  /\ (phase = "anal" /\ i <= 2) \/ (phase = "inflate" /\ i = 3)

(* and what inflates: some of it is still to come. *)
BodyAt(fs, w, i) ==
  /\ phase \in {"fill", "anal", "out", "msg", "null"}
  /\ left \in Seq(Int) /\ Len(pr) + Len(left) = Len(w)
  /\ \A x \in 1..Len(left) : left[x] = w[Len(pr) + x]
  /\ fin => left = <<>> /\ doc.intact
  /\ phase = "fill" => ~fin
  /\ Len(w) < chunk => Len(pr) = 0 \/ (left = <<>> /\ (doc.intact => fin))
  /\ phase = "out" /\ left = <<>> => i = Len(fs) + 1
  /\ phase = "msg" => i = Len(fs) + 1 /\ doc.intact
  /\ phase = "null" => ~doc.intact

PlainInv ==
  /\ doc.tail = <<>> /\ zip = FALSE
  /\ \E i \in 1..(Len(doc.head) + 1) :
       LET w == TextOf(doc.head)
       IN  ReadTo(doc.head, End(doc.head), w, i) /\ PlainAt(doc.head, End(doc.head), w, i)

HeadInv ==
  /\ doc.tail # <<>> /\ zip = FALSE
  /\ \E i \in 1..3 :
       LET w == TextOf(doc.head) \o doc.tail
       IN  ReadTo(doc.head, End(doc.head), w, i) /\ HeadAt(w, i)

BodyInv ==
  /\ doc.tail # <<>> /\ zip = TRUE
  /\ \E i \in 1..(Len(doc.body) + 1) :
       LET w == TextOf(doc.body)
       IN  ReadTo(doc.body, End(doc.body), w, i) /\ BodyAt(doc.body, w, i)

ParseInv == doc \in Docs /\ chunk \in Chunks /\ fin \in BOOLEAN /\ (PlainInv \/ HeadInv \/ BodyInv)

-----------------------------------------------------------------------------
(* Values that have been read stay: only bytes further on change. *)
LEMMA HeldStays ==
  ASSUME NEW o, NEW v \in Seq(Int), Held(o, v), q \in Nat, q' \in Nat, q <= q',
         \A x \in 1..(q - 1) : pr'[x] = pr[x]
  PROVE  Held(o, v)'
<1>1. /\ o \in Nat \ {0} /\ o + Len(v) < q /\ Len(v) \in Nat
      /\ \A x \in 1..Len(v) : pr[o + x - 1] = v[x]
      /\ pr[o + Len(v)] = NUL
  BY DEF Held
<1>2. o + Len(v) < q'
  BY <1>1
<1>3. \A x \in 1..Len(v) : pr'[o + x - 1] = v[x]
  <2> TAKE x \in 1..Len(v)
  <2>1. o + x - 1 \in 1..(q - 1)
    BY <1>1
  <2> QED
    BY <1>1, <2>1
<1>4. pr'[o + Len(v)] = NUL
  <2>1. o + Len(v) \in 1..(q - 1)
    BY <1>1
  <2> QED
    BY <1>1, <2>1
<1> QED
  BY <1>1, <1>2, <1>3, <1>4 DEF Held

(* The fields kept have values. *)
LEMMA KeptFields ==
  ASSUME NEW fs, NEW e, NEW w, Laid(fs, e, w), NEW i \in 1..(Len(fs) + 1)
  PROVE  /\ KeptTo(fs)[i - 1] \in Seq(Fields) /\ Len(KeptTo(fs)[i - 1]) <= i - 1
         /\ Len(KeptTo(fs)[i - 1]) \in Nat
         /\ \A x \in 1..Len(KeptTo(fs)[i - 1]) : KeptTo(fs)[i - 1][x].val \in Seq(Int)
         /\ KeptBy(KeptTo(fs), fs)
<1>1. KeptBy(KeptTo(fs), fs)
  <2>1. fs \in Seq(Fields) /\ Len(fs) # 0
    BY DEF Laid
  <2> QED
    BY <2>1, KeptSteps DEF KeptTo
<1>2. i - 1 \in 0..Len(fs)
  BY DEF Laid
<1> DEFINE g == KeptTo(fs)[i - 1]
<1>3. g \in Seq(Fields) /\ Len(g) <= i - 1
  BY <1>1, <1>2 DEF KeptBy
<1> HIDE DEF g
<1>4. Len(g) \in Nat /\ \A x \in 1..Len(g) : g[x] \in Fields
  BY <1>3
<1>5. \A x \in 1..Len(g) : g[x].val \in Seq(Int)
  BY <1>4 DEF Fields
<1> QED
  BY <1>1, <1>3, <1>4, <1>5 DEF g

LEMMA FoundStays ==
  ASSUME NEW fs, NEW e, NEW w, NEW i \in 1..(Len(fs) + 1), Laid(fs, e, w), Found(fs, i),
         flds' = flds, q \in Nat, q' \in Nat, q <= q', \A x \in 1..(q - 1) : pr'[x] = pr[x]
  PROVE  Found(fs, i)'
<1> DEFINE g == KeptTo(fs)[i - 1]
<1>1. \A x \in 1..Len(g) : g[x].val \in Seq(Int)
  BY KeptFields
<1>2. /\ flds \in Seq([tag : Nat, off : Nat]) /\ Len(flds) = Len(g)
      /\ \A x \in 1..Len(flds) : flds[x].tag = TagOf(g[x]) /\ Held(flds[x].off, g[x].val)
  BY DEF Found
<1> HIDE DEF g
<1>3. ASSUME NEW x \in 1..Len(flds) PROVE Held(flds[x].off, g[x].val)'
  <2> DEFINE o == flds[x].off
             v == g[x].val
  <2>1. v \in Seq(Int) /\ Held(o, v)
    BY <1>1, <1>2
  <2>2. o' = o
    OBVIOUS
  <2> HIDE DEF v
  <2>3. \A o1 : Held(o1, v) => Held(o1, v)'
    BY <2>1, HeldStays
  <2> QED
    BY <2>1, <2>2, <2>3 DEF v, Held
<1>4. /\ flds' \in Seq([tag : Nat, off : Nat]) /\ Len(flds') = Len(g)
      /\ \A x \in 1..Len(flds') : flds'[x].tag = TagOf(g[x]) /\ Held(flds[x].off, g[x].val)'
  BY <1>2, <1>3
<1> QED
  BY <1>4 DEF Found, g

(* What fixc_parse_fld does, by the tag. *)
LEMMA ParseFldCases ==
  ASSUME NEW len, ParseFld(len)
  PROVE  /\ cur = BEGIN_STRING => slot' = [slot EXCEPT !.ver = Verify(SubSeq(pr, q, q + len - 1))]
         /\ cur = BODY_LENGTH => slot' = [slot EXCEPT !.len = ParseLen(SubSeq(pr, q, q + len - 1))]
         /\ cur = CHECK_SUM => slot' = [slot EXCEPT !.sum = pr'[q]]
         /\ cur = MSG_TYPE => slot' = [slot EXCEPT !.mtyp = ParseMtyp(SubSeq(pr, q, q + len - 1))]
         /\ cur \notin {BEGIN_STRING, BODY_LENGTH, CHECK_SUM, MSG_TYPE} => slot' = slot
         /\ cur \in {TAG_UNK, BEGIN_STRING, BODY_LENGTH, CHECK_SUM, MSG_TYPE} => flds' = flds
         /\ cur \notin {TAG_UNK, BEGIN_STRING, BODY_LENGTH, CHECK_SUM, MSG_TYPE} =>
              flds' = Append(flds, [tag |-> cur, off |-> q])
  BY DEF ParseFld, TAG_UNK, BEGIN_STRING, BODY_LENGTH, CHECK_SUM, MSG_TYPE

LEMMA ParsedFound ==
  ASSUME NEW fs, NEW e, NEW w, NEW i \in 1..Len(fs), Laid(fs, e, w), Found(fs, i),
         cur = TagOf(fs[i]), NEW len, ParseFld(len),
         q \in Nat, q' \in Nat, q <= q', \A x \in 1..(q - 1) : pr'[x] = pr[x],
         NEW o, o = q, Plain(fs[i]) => Held(o, fs[i].val)'
  PROVE  Found(fs, i + 1)'
<1> DEFINE g == KeptTo(fs)[i - 1]
           h == KeptTo(fs)[i]
<1>1. /\ i \in 1..(Len(fs) + 1) /\ i + 1 \in 1..(Len(fs) + 1) /\ (i + 1) - 1 = i
      /\ i \in 0..Len(fs)
  BY DEF Laid
<1>2. /\ g \in Seq(Fields) /\ Len(g) \in Nat /\ fs[i] \in Fields
      /\ h = IF Plain(fs[i]) THEN Append(g, fs[i]) ELSE g
      /\ \A x \in 1..Len(g) : g[x].val \in Seq(Int)
  <2>1. /\ g \in Seq(Fields) /\ Len(g) \in Nat /\ KeptBy(KeptTo(fs), fs)
        /\ \A x \in 1..Len(g) : g[x].val \in Seq(Int)
    BY <1>1, KeptFields
  <2>2. h = IF Plain(fs[i]) THEN Append(g, fs[i]) ELSE g
    BY <2>1, Zenon DEF KeptBy
  <2>3. fs[i] \in Fields
    BY DEF Laid
  <2> QED
    BY <2>1, <2>2, <2>3, Zenon
<1>3. /\ flds \in Seq([tag : Nat, off : Nat]) /\ Len(flds) = Len(g)
      /\ \A x \in 1..Len(flds) : flds[x].tag = TagOf(g[x]) /\ Held(flds[x].off, g[x].val)
  BY DEF Found
<1>4. CASE ~Plain(fs[i])
  <2>1. flds' = flds
    BY <1>4, ParseFldCases DEF Plain
  <2>2. Found(fs, i)'
    BY <1>1, <2>1, FoundStays
  <2> HIDE DEF g, h
  <2>3. h = g
    BY <1>2, <1>4
  <2>4. /\ flds' \in Seq([tag : Nat, off : Nat]) /\ Len(flds') = Len(g)
        /\ \A x \in 1..Len(flds') : flds'[x].tag = TagOf(g[x]) /\ Held(flds[x].off, g[x].val)'
    BY <2>1, <2>2, Zenon DEF Found, g
  <2> QED
    BY <1>1, <2>1, <2>3, <2>4, Zenon DEF Found, h
<1>5. CASE Plain(fs[i])
  <2> DEFINE r == [tag |-> TagOf(fs[i]), off |-> o]
  <2>1. flds' = Append(flds, r)
    BY <1>5, ParseFldCases DEF Plain
  <2>2. r \in [tag : Nat, off : Nat] /\ r.tag = TagOf(fs[i]) /\ r.off = o
    BY TagIsNat
  <2> HIDE DEF r, g, h
  <2>3. h = Append(g, fs[i])
    BY <1>2, <1>5
  <2>4. /\ flds' \in Seq([tag : Nat, off : Nat]) /\ Len(flds') = Len(flds) + 1
        /\ \A x \in 1..Len(flds) : flds'[x] = flds[x]
        /\ flds'[Len(flds) + 1] = r
    BY <1>3, <2>1, <2>2, AppendProperties
  <2>5. /\ Len(h) = Len(g) + 1 /\ \A x \in 1..Len(g) : h[x] = g[x]
        /\ h[Len(g) + 1] = fs[i]
    BY <1>2, <2>3, AppendProperties
  <2>6. ASSUME NEW x \in 1..Len(flds), NEW o1, o1 = flds[x].off PROVE Held(o1, g[x].val)'
    <3> DEFINE v == g[x].val
    <3>1. v \in Seq(Int) /\ Held(o1, v)
      BY <1>2, <1>3, <2>6
    <3> HIDE DEF v
    <3>2. Held(o1, v)'
      BY <3>1, HeldStays
    <3> QED
      BY <3>2 DEF v
  <2>7. ASSUME NEW x \in 1..(Len(flds) + 1), NEW o1, o1 = flds'[x].off
        PROVE  flds'[x].tag = TagOf(h[x]) /\ Held(o1, h[x].val)'
    <3>1. CASE x \in 1..Len(flds)
      <4>1. flds'[x] = flds[x] /\ h[x] = g[x] /\ flds[x].tag = TagOf(g[x])
        BY <1>3, <2>4, <2>5, <3>1
      <4>2. Held(o1, g[x].val)'
        BY <2>6, <2>7, <3>1, <4>1
      <4> QED
        BY <4>1, <4>2
    <3>2. CASE x = Len(flds) + 1
      <4>1. flds'[x] = r /\ h[x] = fs[i]
        BY <1>3, <2>4, <2>5, <3>2
      <4>2. o1 = o
        BY <2>2, <2>7, <4>1
      <4> QED
        BY <1>5, <2>2, <4>1, <4>2
    <3>3. x \in 1..Len(flds) \/ x = Len(flds) + 1
      <4>1. Len(flds) \in Nat
        BY <1>2, <1>3
      <4> QED
        BY <4>1
    <3> QED
      BY <3>1, <3>2, <3>3
  <2>8. /\ flds' \in Seq([tag : Nat, off : Nat]) /\ Len(flds') = Len(h)
        /\ \A x \in 1..Len(flds') : flds'[x].tag = TagOf(h[x])
        /\ \A x \in 1..Len(flds') : \A o1 : o1 = flds'[x].off => Held(o1, h[x].val)'
    BY <1>3, <2>4, <2>5, <2>7
  <2> QED
    BY <1>1, <2>8 DEF Found, h
<1> QED
  BY <1>4, <1>5

LEMMA ParsedSlots ==
  ASSUME NEW fs, NEW e, NEW w, NEW i \in 1..Len(fs), Laid(fs, e, w), Slots(fs, i),
         cur = TagOf(fs[i]), NEW len, ParseFld(len), Whole' = Whole, pr'[q] \in Int,
         cur # CHECK_SUM => SubSeq(pr, q, q + len - 1) = fs[i].val
  PROVE  Slots(fs, i + 1)'
<1> DEFINE S == [ver : Seq(Int), len : Lens, sum : Int, mtyp : Seq(Int)]
           val == fs[i].val
           sub == SubSeq(pr, q, q + len - 1)
<1>1. (i + 1) - 1 = i /\ i \in Nat \ {0} /\ Len(fs) \in Nat
  BY DEF Laid
<1>2. /\ val \in Seq(Int) /\ ParseLen(val) \in Lens /\ ParseMtyp(val) \in Seq(Int)
      /\ Verify(val) \in Seq(Int) /\ Verify(val) \in {VER_UNK, val} /\ VER_UNK # Comp
  <2>1. val \in Seq(Int)
    BY LaidField
  <2>2. Verify(val) \in {VER_UNK, val} /\ VER_UNK \in Seq(Int) /\ VER_UNK # Comp
    BY VersionAssumption DEF Verify, VER_UNK
  <2> QED
    BY <2>1, <2>2 DEF Lens, ParseMtyp
<1>3. \A tag : LastTo(tag, fs, i) = IF TagOf(fs[i]) = tag THEN val ELSE LastTo(tag, fs, i - 1)
  BY <1>1, LastSteps
<1>4. /\ slot \in S
      /\ slot.mtyp = ParseMtyp(LastTo(MSG_TYPE, fs, i - 1))
      /\ NotComp(fs) => slot.ver # Comp
      /\ slot.ver \in {VER_UNK, Verify(LastTo(BEGIN_STRING, fs, i - 1))}
      /\ slot.len \in {0, ParseLen(LastTo(BODY_LENGTH, fs, i - 1))}
      /\ Whole => /\ slot.ver = Verify(LastTo(BEGIN_STRING, fs, i - 1))
                  /\ slot.len = ParseLen(LastTo(BODY_LENGTH, fs, i - 1))
  BY DEF Slots
<1>5. /\ BEGIN_STRING \notin {BODY_LENGTH, CHECK_SUM, MSG_TYPE} /\ BODY_LENGTH \notin {CHECK_SUM, MSG_TYPE}
      /\ CHECK_SUM # MSG_TYPE
  BY DEF BEGIN_STRING, BODY_LENGTH, CHECK_SUM, MSG_TYPE
<1> SUFFICES /\ slot' \in S
             /\ slot'.mtyp = ParseMtyp(LastTo(MSG_TYPE, fs, i))
             /\ NotComp(fs) => slot'.ver # Comp
             /\ slot'.ver \in {VER_UNK, Verify(LastTo(BEGIN_STRING, fs, i))}
             /\ slot'.len \in {0, ParseLen(LastTo(BODY_LENGTH, fs, i))}
             /\ Whole => /\ slot'.ver = Verify(LastTo(BEGIN_STRING, fs, i))
                         /\ slot'.len = ParseLen(LastTo(BODY_LENGTH, fs, i))
  BY <1>1 DEF Slots
<1>6. /\ cur = BEGIN_STRING => slot' = [slot EXCEPT !.ver = Verify(sub)]
      /\ cur = BODY_LENGTH => slot' = [slot EXCEPT !.len = ParseLen(sub)]
      /\ cur = CHECK_SUM => slot' = [slot EXCEPT !.sum = pr'[q]]
      /\ cur = MSG_TYPE => slot' = [slot EXCEPT !.mtyp = ParseMtyp(sub)]
      /\ cur \notin {BEGIN_STRING, BODY_LENGTH, CHECK_SUM, MSG_TYPE} => slot' = slot
  BY ParseFldCases
<1>7. cur # CHECK_SUM => sub = val
  OBVIOUS
<1>8. NotComp(fs) /\ cur = BEGIN_STRING => val # Comp
  <2>1. DOMAIN fs = 1..Len(fs)
    BY DEF Laid
  <2> QED
    BY <2>1 DEF NotComp
<1> HIDE DEF val, sub
<1>9. CASE cur = BEGIN_STRING
  <2>1. /\ slot' \in S /\ slot'.ver = Verify(val) /\ slot'.len = slot.len /\ slot'.mtyp = slot.mtyp
    BY <1>2, <1>4, <1>5, <1>6, <1>7, <1>9
  <2> QED
    BY <1>2, <1>3, <1>4, <1>5, <1>8, <1>9, <2>1
<1>10. CASE cur = BODY_LENGTH
  <2>1. /\ slot' \in S /\ slot'.ver = slot.ver /\ slot'.len = ParseLen(val) /\ slot'.mtyp = slot.mtyp
    BY <1>2, <1>4, <1>5, <1>6, <1>7, <1>10
  <2> QED
    BY <1>3, <1>4, <1>5, <1>10, <2>1
<1>11. CASE cur = CHECK_SUM
  <2>1. /\ slot' \in S /\ slot'.ver = slot.ver /\ slot'.len = slot.len /\ slot'.mtyp = slot.mtyp
    BY <1>4, <1>6, <1>11
  <2> QED
    BY <1>3, <1>4, <1>5, <1>11, <2>1
<1>12. CASE cur = MSG_TYPE
  <2>1. /\ slot' \in S /\ slot'.ver = slot.ver /\ slot'.len = slot.len /\ slot'.mtyp = ParseMtyp(val)
    BY <1>2, <1>4, <1>5, <1>6, <1>7, <1>12
  <2> QED
    BY <1>3, <1>4, <1>5, <1>12, <2>1
<1>13. CASE cur \notin {BEGIN_STRING, BODY_LENGTH, CHECK_SUM, MSG_TYPE}
  <2>1. slot' = slot
    BY <1>6, <1>13
  <2> QED
    BY <1>3, <1>4, <1>13, <2>1
<1> QED
  BY <1>9, <1>10, <1>11, <1>12, <1>13

-----------------------------------------------------------------------------
(* The steps of anal() *)

(* Only __fixc_from_fixz changes what is left to read. *)
LEMMA WholeStays ==
  ASSUME Key \/ Value \/ ValueAtEnd \/ Out \/ Fill \/ InflateFails \/ Return
  PROVE  Whole' = Whole
<1>1. ASSUME Value PROVE doc' = doc /\ chunk' = chunk /\ zip' = zip
  BY <1>1, Zenon DEF Value
<1>2. ASSUME Fill PROVE doc' = doc /\ chunk' = chunk /\ zip' = zip
  BY <1>2, Zenon DEF Fill
<1>3. doc' = doc /\ chunk' = chunk /\ zip' = zip
  BY <1>1, <1>2 DEF Key, ValueAtEnd, Out, InflateFails, Return
<1> QED
  BY <1>3 DEF Whole

(* A key is read. *)
LEMMA KeyReads ==
  ASSUME NEW fs, NEW e, NEW w, NEW i, Laid(fs, e, w), ReadTo(fs, e, w, i), AtKey(fs, e, i), Key
  PROVE  ReadTo(fs, e, w, i)' /\ AtValue(fs, e, i)' /\ Len(pr') = Len(pr)
<1> DEFINE j == KeyEnd(e, fs, i)
<1>1. /\ j \in Nat /\ q <= j /\ j < Len(pr) /\ Min(Ends(EQ)) = j
      /\ SubSeq(pr, q, j - 1) = fs[i].key
  BY KeyFound DEF ReadTo, Key
<1>2. /\ cur' = StrToUI16(SubSeq(pr, q, j - 1)) /\ pr' = [pr EXCEPT ![j] = NUL] /\ q' = j + 1
      /\ st' = "VALUE" /\ flds' = flds /\ slot' = slot /\ zip' = zip
  BY <1>1 DEF Key
<1> HIDE DEF j
<1>3. /\ pr \in Seq(Int) /\ q \in Nat \ {0} /\ Len(pr) <= Len(w) /\ Len(pr) \in Nat
      /\ \A x \in q..Len(pr) : pr[x] = w[x]
  BY DEF ReadTo, Unread
<1>4. /\ pr' \in Seq(Int) /\ Len(pr') = Len(pr)
      /\ \A x \in 1..Len(pr) : x # j => pr'[x] = pr[x]
  <2>1. NUL \in Int /\ j \in 1..Len(pr)
    BY <1>1, <1>3 DEF NUL
  <2> QED
    BY <1>2, <1>3, <2>1, ExceptSeq
<1>5. q <= q' /\ q' \in Nat \ {0} /\ q' <= Len(pr) + 1 /\ \A x \in 1..(q - 1) : pr'[x] = pr[x]
  <2>1. \A x \in 1..(q - 1) : x \in 1..Len(pr) /\ x # j
    BY <1>1, <1>3
  <2> QED
    BY <1>1, <1>2, <1>3, <1>4, <2>1
<1>6. \A x \in q'..Len(pr') : pr'[x] = w[x]
  <2>1. \A x \in q'..Len(pr') : x \in q..Len(pr) /\ x \in 1..Len(pr) /\ x # j
    BY <1>1, <1>2, <1>3, <1>4
  <2> QED
    BY <1>3, <1>4, <2>1
<1>7. Unread(w)'
  BY <1>3, <1>4, <1>5, <1>6 DEF Unread
<1>8. i \in 1..Len(fs) /\ i \in 1..(Len(fs) + 1) /\ i \in Nat
  BY DEF AtKey, Laid
<1>9. AtValue(fs, e, i)'
  BY <1>1, <1>2, <1>8 DEF AtValue, TagOf, j
<1>10. Found(fs, i)'
  BY <1>2, <1>3, <1>5, <1>8, FoundStays DEF ReadTo
<1>11. Slots(fs, i)'
  BY <1>2, WholeStays DEF ReadTo, Slots
<1> QED
  BY <1>4, <1>7, <1>8, <1>9, <1>10, <1>11 DEF ReadTo

(* A value is read. *)
LEMMA ValueReads ==
  ASSUME NEW fs, NEW e, NEW w, NEW i, Laid(fs, e, w), ReadTo(fs, e, w, i), AtValue(fs, e, i), Value
  PROVE  /\ ReadTo(fs, e, w, i + 1)' /\ Len(pr') = Len(pr) /\ i \in 1..Len(fs)
         /\ e[i] \in Nat /\ e[i] < Len(pr) /\ q' = e[i] + 1
<1> DEFINE val == fs[i].val
           j == e[i]
           n == Len(fs)
           p == KeyEnd(e, fs, i)
<1>1. i \in 1..n /\ q = p + 1 /\ cur = TagOf(fs[i]) /\ n \in Nat \ {0} /\ i \in Nat
  BY DEF AtValue, Laid
<1>2. /\ val \in Seq(Int) /\ Len(val) \in Nat /\ p \in Nat
      /\ \A x \in 1..Len(val) : w[p + x] = val[x]
      /\ j \in Nat
  <2>1. i \in 1..Len(fs)
    BY <1>1
  <2>2. Len(fs[i].val) \in Nat /\ KeyEnd(e, fs, i) \in Nat /\ e[i] \in Nat
    BY <2>1, LaidField, Zenon
  <2>3. fs[i].val \in Seq(Int)
    BY <2>1, LaidField, Zenon
  <2>4. \A x \in 1..Len(fs[i].val) : w[KeyEnd(e, fs, i) + x] = fs[i].val[x]
    <3>1. ValueAt(w, KeyEnd(e, fs, i), fs[i].val)
      BY <2>1, LaidValue, Zenon
    <3> HIDE DEF val, j, n, p
    <3> QED
      BY <3>1 DEF ValueAt
  <2> QED
    BY <2>2, <2>3, <2>4
<1>3. Ends(SOH) # {} /\ Unread(w) /\ Found(fs, i) /\ Slots(fs, i)
  BY DEF Value, ReadTo
<1>4. /\ q <= j /\ j = q + Len(val) /\ j < Len(pr)
      /\ Min(Ends(SOH)) = j /\ SubSeq(pr, q, j - 1) = val
  BY <1>3, ValueFound
<1>15. Len(val) \in Nat /\ j \in Nat /\ p \in Nat
  BY <1>2, Zenon
<1>5. /\ pr' = [pr EXCEPT ![j] = NUL] /\ ParseFld(j - q) /\ q' = j + 1
      /\ st' = "KEY" /\ Whole' = Whole
  BY <1>4, WholeStays, Zenon DEF Value
<1>6. /\ pr \in Seq(Int) /\ q \in Nat \ {0} /\ Len(pr) <= Len(w) /\ Len(pr) \in Nat
      /\ \A x \in q..Len(pr) : pr[x] = w[x]
  BY <1>3 DEF Unread
<1> HIDE DEF j, val, n, p
<1>7. /\ pr' \in Seq(Int) /\ Len(pr') = Len(pr)
      /\ \A x \in 1..Len(pr) : x # j => pr'[x] = pr[x]
      /\ pr'[j] = NUL
  <2>1. NUL \in Int /\ j \in 1..Len(pr)
    BY <1>2, <1>4, <1>6 DEF NUL
  <2> QED
    BY <1>5, <1>6, <2>1, ExceptSeq
<1>8. q <= q' /\ q' \in Nat \ {0} /\ q' <= Len(pr) /\ \A x \in 1..(q - 1) : pr'[x] = pr[x]
  <2>1. \A x \in 1..(q - 1) : x \in 1..Len(pr) /\ x # j
    BY <1>4, <1>6, <1>15
  <2> QED
    BY <1>4, <1>5, <1>6, <1>7, <1>15, <2>1
<1>9. Unread(w)'
  <2>1. \A x \in q'..Len(pr') : x \in q..Len(pr) /\ x \in 1..Len(pr) /\ x # j
    BY <1>2, <1>4, <1>5, <1>6, <1>7
  <2>2. \A x \in q'..Len(pr') : pr'[x] = w[x]
    BY <1>6, <1>7, <2>1
  <2>3. q' <= Len(pr') + 1 /\ Len(pr') <= Len(w)
    BY <1>6, <1>7, <1>8
  <2> QED
    BY <1>7, <1>8, <2>2, <2>3 DEF Unread
<1>10. ASSUME NEW o, o = q PROVE Held(o, val)'
  <2>1. \A x \in 1..Len(val) : pr'[o + x - 1] = val[x]
    <3> TAKE x \in 1..Len(val)
    <3>1. /\ o + x - 1 \in q..Len(pr) /\ o + x - 1 \in 1..Len(pr) /\ o + x - 1 # j
          /\ o + x - 1 = p + x
      BY <1>1, <1>4, <1>6, <1>10, <1>15
    <3>2. pr'[o + x - 1] = w[o + x - 1]
      BY <1>6, <1>7, <3>1
    <3> QED
      BY <1>2, <3>1, <3>2
  <2>2. o \in Nat \ {0} /\ o + Len(val) < q' /\ o + Len(val) = j
    BY <1>2, <1>4, <1>5, <1>6, <1>10
  <2> QED
    BY <1>7, <2>1, <2>2 DEF Held
<1>11. Found(fs, i + 1)'
  <2>1. \A o : o = q => Held(o, val)'
    BY <1>10
  <2> QED
    BY <1>1, <1>3, <1>5, <1>6, <1>8, <2>1, ParsedFound DEF val, n
<1>12. Slots(fs, i + 1)'
  <2>1. q + (j - q) - 1 = j - 1 /\ q \in 1..Len(pr)
    BY <1>2, <1>4, <1>6
  <2>2. SubSeq(pr, q, q + (j - q) - 1) = fs[i].val
    BY <1>4, <2>1 DEF val
  <2>3. pr'[q] \in Int
    BY <1>7, <2>1
  <2> QED
    BY <1>1, <1>3, <1>5, <2>2, <2>3, ParsedSlots DEF n
<1>13. AtKey(fs, e, i + 1)' \/ AtEnd(fs, e, i + 1)'
  <2>1. (i + 1) - 1 = i /\ (i # n => i + 1 \in 1..n)
    BY <1>1
  <2>2. CASE i # n
    BY <1>5, <2>1, <2>2 DEF AtKey, n, j
  <2>3. CASE i = n
    <3>1. q' \in (p + 1)..(j + 1)
      BY <1>1, <1>4, <1>5, <1>15
    <3>2. p = KeyEnd(e, fs, n) /\ j = e[n]
      BY <2>3 DEF j, p
    <3> QED
      BY <1>5, <2>3, <3>1, <3>2 DEF AtEnd, n
  <2> QED
    BY <2>2, <2>3
<1>14. i + 1 \in Nat
  BY <1>1
<1> QED
  BY <1>1, <1>2, <1>4, <1>5, <1>7, <1>9, <1>11, <1>12, <1>13, <1>14 DEF ReadTo, j, n

(* The check sum is read where the bytes end. *)
LEMMA ValueAtEndReads ==
  ASSUME NEW fs, NEW e, NEW w, Laid(fs, e, w), ReadTo(fs, e, w, Len(fs)),
         AtValue(fs, e, Len(fs)), ValueAtEnd
  PROVE  /\ ReadTo(fs, e, w, Len(fs) + 1)' /\ pr' = pr /\ q' = Len(pr) + 1
         /\ TagOf(fs[Len(fs)]) = CHECK_SUM
<1> DEFINE n == Len(fs)
<1>1. n \in 1..Len(fs) /\ q = KeyEnd(e, fs, n) + 1 /\ cur = TagOf(fs[n]) /\ n \in Nat \ {0}
  BY DEF AtValue, Laid
<1>2. Ends(SOH) = {} /\ Unread(w) /\ Found(fs, n) /\ Slots(fs, n) /\ q <= Len(pr)
  BY DEF ValueAtEnd, ReadTo, Busy
<1>3. cur = CHECK_SUM /\ pr' = pr /\ ParseFld(Len(pr) - q) /\ q' = Len(pr) + 1 /\ st' = "KEY" /\ Whole' = Whole
  BY WholeStays DEF ValueAtEnd
<1>4. /\ pr \in Seq(Int) /\ q \in Nat \ {0} /\ Len(pr) <= Len(w) /\ Len(pr) \in Nat
      /\ \A x \in q..Len(pr) : pr[x] = w[x]
  BY <1>2 DEF Unread
<1>5. e[n] \in Nat /\ KeyEnd(e, fs, n) \in Nat
  BY <1>1, LaidField
<1>6. Len(pr) <= e[n]
  <2>1. ~(e[n] < Len(pr))
    BY <1>2, ValueFound
  <2> QED
    BY <1>4, <1>5, <2>1
<1>7. Unread(w)'
  <2>1. \A x \in q'..Len(pr') : FALSE
    BY <1>3, <1>4
  <2> QED
    BY <1>3, <1>4, <2>1 DEF Unread
<1>8. ~Plain(fs[n])
  BY <1>1, <1>3 DEF Plain
<1>9. Found(fs, n + 1)'
  <2>1. q \in Nat /\ q' \in Nat /\ q <= q' /\ \A x \in 1..(q - 1) : pr'[x] = pr[x]
    BY <1>2, <1>3, <1>4
  <2> HIDE DEF n
  <2> QED
    BY <1>1, <1>2, <1>3, <1>8, <2>1, ParsedFound
<1>10. Slots(fs, n + 1)'
  <2>1. pr'[q] \in Int
    BY <1>2, <1>3, <1>4
  <2> HIDE DEF n
  <2> QED
    BY <1>1, <1>2, <1>3, <2>1, ParsedSlots
<1>11. AtEnd(fs, e, n + 1)'
  <2>1. q' \in (KeyEnd(e, fs, n) + 1)..(e[n] + 1)
    BY <1>1, <1>2, <1>3, <1>4, <1>5, <1>6, SMTT(30)
  <2> QED
    BY <1>3, <2>1 DEF AtEnd
<1>12. n + 1 \in Nat
  BY <1>1
<1> QED
  BY <1>1, <1>3, <1>7, <1>9, <1>10, <1>11, <1>12 DEF ReadTo

-----------------------------------------------------------------------------
(* The texts *)

LEMMA TextLaid ==
  ASSUME NEW fs \in Seq(Fields), fs # <<>>, \A i \in 1..Len(fs) : Clean(fs[i])
  PROVE  Laid(fs, End(fs), TextOf(fs)) /\ Len(TextOf(fs)) = End(fs)[Len(fs)]
<1>1. \E e : IsEnds(e, fs) /\ IsTextOf(TextOf(fs), e, fs) /\ Len(TextOf(fs)) = e[Len(fs)]
  BY TextEnds
<1>2. /\ IsEnds(End(fs), fs) /\ IsTextOf(TextOf(fs), End(fs), fs)
      /\ Len(TextOf(fs)) = End(fs)[Len(fs)]
  BY <1>1, Zenon DEF End
<1>3. Len(fs) \in Nat \ {0}
  OBVIOUS
<1> QED
  BY <1>2, <1>3, Zenon DEF Laid

(* Bytes behind a text do not matter to its fields. *)
LEMMA TailLaid ==
  ASSUME NEW fs, NEW e, NEW w, NEW t \in Seq(Int), Laid(fs, e, w)
  PROVE  Laid(fs, e, w \o t) /\ Len(w \o t) = Len(w) + Len(t)
<1> DEFINE n == Len(fs)
           u == w \o t
<1>1. /\ fs \in Seq(Fields) /\ n \in Nat \ {0} /\ \A i \in 1..n : Clean(fs[i])
      /\ IsEnds(e, fs) /\ IsTextOf(w, e, fs)
  BY DEF Laid
<1>2. /\ w \in Seq(Int) /\ e[n] <= Len(w)
      /\ \A i \in 1..n : \A x \in 1..Len(FieldText(fs[i])) :
           w[e[i - 1] + x] = FieldText(fs[i])[x]
  BY <1>1 DEF IsTextOf
<1>3. /\ u \in Seq(Int) /\ Len(w) \in Nat /\ Len(t) \in Nat /\ Len(u) = Len(w) + Len(t)
      /\ \A x \in 1..Len(w) : u[x] = w[x]
  BY <1>2, Glue
<1>4. /\ e \in [0..n -> Nat] /\ \A i \in 1..n : e[i] = e[i - 1] + Len(FieldText(fs[i]))
      /\ \A i \in 0..n : e[i] <= e[n]
  BY <1>1 DEF IsEnds
<1> HIDE DEF u, n
<1>5. ASSUME NEW i \in 1..n, NEW x \in 1..Len(FieldText(fs[i]))
      PROVE  u[e[i - 1] + x] = FieldText(fs[i])[x]
  <2> DEFINE a == e[i - 1]
             b == e[i]
             l == Len(FieldText(fs[i]))
  <2>1. i - 1 \in 0..n /\ i \in 0..n /\ n \in 0..n
    BY <1>1
  <2>2. a \in Nat /\ b \in Nat /\ e[n] \in Nat /\ b <= e[n] /\ b = a + l
    BY <1>4, <2>1
  <2>3. w[a + x] = FieldText(fs[i])[x] /\ x \in 1..l
    BY <1>2
  <2>4. l \in Nat
    BY <1>1, FieldBytes DEF Clean
  <2> HIDE DEF a, b, l
  <2>5. a + x \in 1..Len(w)
    BY <1>2, <1>3, <2>2, <2>3, <2>4
  <2> QED
    BY <1>3, <2>3, <2>5 DEF a
<1>6. e[n] <= Len(u)
  <2>1. e[n] \in Nat
    BY <1>1, <1>4
  <2> QED
    BY <1>2, <1>3, <2>1
<1> QED
  BY <1>1, <1>3, <1>5, <1>6 DEF Laid, IsTextOf, u, n

(* What is laid in memory for the two kinds of texts. *)
LEMMA PlainLaid ==
  ASSUME NEW d \in Docs, d.tail = <<>>
  PROVE  /\ Laid(d.head, End(d.head), TextOf(d.head))
         /\ Len(TextOf(d.head)) = End(d.head)[Len(d.head)]
         /\ NotComp(d.head)
<1>1. /\ d.head \in Seq(Fields) /\ d.head # <<>> /\ NotComp(d.head)
      /\ \A f \in Range(d.head) : SOH \notin Range(f.val) /\ NUL \notin Range(f.val)
  BY DocAssumption
<1>2. ASSUME NEW i \in 1..Len(d.head) PROVE Clean(d.head[i])
  <2>1. d.head[i] \in Fields /\ d.head[i] \in Range(d.head)
    BY <1>1 DEF Range
  <2> QED
    BY <1>1, <2>1 DEF Clean
<1> QED
  BY <1>1, <1>2, TextLaid

LEMMA FixcompLaid ==
  ASSUME NEW d \in Docs, d.tail # <<>>
  PROVE  /\ Laid(d.head, End(d.head), TextOf(d.head) \o d.tail) /\ Len(d.head) = 2
         /\ Len(TextOf(d.head) \o d.tail) > End(d.head)[2]
         /\ TagOf(d.head[1]) = BEGIN_STRING /\ d.head[1].val = Comp
         /\ TagOf(d.head[2]) = BODY_LENGTH /\ ParseLen(d.head[2].val) > 0
         /\ Laid(d.body, End(d.body), TextOf(d.body))
         /\ Len(TextOf(d.body)) = End(d.body)[Len(d.body)]
         /\ NotComp(d.body) /\ IsMessage(d.body)
<1>1. /\ d.head \in Seq(Fields) /\ d.body \in Seq(Fields) /\ d.tail \in Seq(Int)
      /\ \A f \in Range(d.head) \union Range(d.body) :
           SOH \notin Range(f.val) /\ NUL \notin Range(f.val)
      /\ IsFixcomp(d)
  BY DocAssumption
<1>2. /\ Len(d.head) = 2 /\ TagOf(d.head[1]) = BEGIN_STRING /\ d.head[1].val = Comp
      /\ TagOf(d.head[2]) = BODY_LENGTH /\ ParseLen(d.head[2].val) > 0
      /\ d.body # <<>> /\ NotComp(d.body) /\ IsMessage(d.body)
  BY <1>1 DEF IsFixcomp
<1>3. ASSUME NEW i \in 1..Len(d.head) PROVE Clean(d.head[i])
  <2>1. d.head[i] \in Fields /\ d.head[i] \in Range(d.head)
    BY <1>1 DEF Range
  <2> QED
    BY <1>1, <2>1 DEF Clean
<1>4. ASSUME NEW i \in 1..Len(d.body) PROVE Clean(d.body[i])
  <2>1. d.body[i] \in Fields /\ d.body[i] \in Range(d.body)
    BY <1>1 DEF Range
  <2> QED
    BY <1>1, <2>1 DEF Clean
<1>5. /\ Laid(d.body, End(d.body), TextOf(d.body))
      /\ Len(TextOf(d.body)) = End(d.body)[Len(d.body)]
  BY <1>1, <1>2, <1>4, TextLaid
<1>6. /\ Laid(d.head, End(d.head), TextOf(d.head))
      /\ Len(TextOf(d.head)) = End(d.head)[2]
  <2>1. d.head # <<>>
    BY <1>2
  <2> QED
    BY <1>1, <1>2, <1>3, <2>1, TextLaid
<1>7. /\ Laid(d.head, End(d.head), TextOf(d.head) \o d.tail)
      /\ Len(TextOf(d.head) \o d.tail) = Len(TextOf(d.head)) + Len(d.tail)
  BY <1>1, <1>6, TailLaid
<1>8. Len(d.tail) \in Nat \ {0} /\ Len(TextOf(d.head)) \in Nat
  <2>1. TextOf(d.head) \in Seq(Int)
    BY <1>6 DEF Laid, IsTextOf
  <2> QED
    BY <1>1, <2>1
<1>9. Len(TextOf(d.head) \o d.tail) > End(d.head)[2]
  BY <1>6, <1>7, <1>8
<1> QED
  BY <1>2, <1>5, <1>7, <1>9

(* The fields end one behind the other. *)
LEMMA Inside ==
  ASSUME NEW fs, NEW e, NEW w, Laid(fs, e, w), NEW i \in 1..Len(fs)
  PROVE  /\ e[i - 1] \in Nat /\ e[i] \in Nat /\ e[Len(fs)] \in Nat /\ KeyEnd(e, fs, i) \in Nat
         /\ e[i - 1] < KeyEnd(e, fs, i) /\ KeyEnd(e, fs, i) < e[i] /\ e[i] <= e[Len(fs)]
         /\ i # Len(fs) => e[i] < e[Len(fs)]
<1>1. ASSUME NEW k \in 1..Len(fs)
      PROVE  /\ e[k - 1] \in Nat /\ e[k] \in Nat /\ KeyEnd(e, fs, k) \in Nat
             /\ e[k - 1] < KeyEnd(e, fs, k) /\ KeyEnd(e, fs, k) < e[k] /\ e[k] <= e[Len(fs)]
  <2> DEFINE a == e[k - 1]
             b == e[k]
             c == KeyEnd(e, fs, k)
             lk == Len(fs[k].key)
             lv == Len(fs[k].val)
  <2>1. /\ lk \in Nat /\ lv \in Nat /\ a \in Nat /\ b \in Nat /\ c \in Nat
        /\ b = c + lv + 1 /\ b <= e[Len(fs)]
    BY LaidField
  <2>2. c = a + lk + 1
    BY DEF KeyEnd
  <2> HIDE DEF a, b, c, lk, lv
  <2>3. a < c /\ c < b
    BY <2>1, <2>2
  <2> QED
    BY <2>1, <2>3 DEF a, b, c
<1>2. Len(fs) \in 1..Len(fs) /\ (i # Len(fs) => i + 1 \in 1..Len(fs) /\ (i + 1) - 1 = i)
  BY DEF Laid
<1>3. e[Len(fs)] \in Nat
  BY <1>1, <1>2
<1>4. ASSUME i # Len(fs) PROVE e[i] < e[Len(fs)]
  <2>1. /\ e[i] \in Nat /\ e[i + 1] \in Nat /\ KeyEnd(e, fs, i + 1) \in Nat
        /\ e[i] < KeyEnd(e, fs, i + 1) /\ KeyEnd(e, fs, i + 1) < e[i + 1]
        /\ e[i + 1] <= e[Len(fs)]
    <3>1. i + 1 \in 1..Len(fs) /\ (i + 1) - 1 = i
      BY <1>2, <1>4
    <3>2. /\ e[(i + 1) - 1] \in Nat /\ e[i + 1] \in Nat /\ KeyEnd(e, fs, i + 1) \in Nat
          /\ e[(i + 1) - 1] < KeyEnd(e, fs, i + 1) /\ KeyEnd(e, fs, i + 1) < e[i + 1]
          /\ e[i + 1] <= e[Len(fs)]
      BY <1>1, <3>1, Zenon
    <3> QED
      BY <3>1, <3>2
  <2> QED
    BY <1>3, <2>1
<1> QED
  BY <1>1, <1>3, <1>4

(* When all of a text is there, anal() returns at its end, or amid the     *)
(* value of the last field, which is not the check sum.                    *)
LEMMA Stops ==
  ASSUME NEW fs, NEW e, NEW w, NEW i, Laid(fs, e, w), ReadTo(fs, e, w, i), Len(pr) >= e[Len(fs)], Out
  PROVE  \/ AtEnd(fs, e, i)
         \/ i = Len(fs) /\ AtValue(fs, e, i) /\ TagOf(fs[i]) # CHECK_SUM /\ Len(pr) = e[Len(fs)]
<1> DEFINE n == Len(fs)
<1>1. n \in Nat \ {0} /\ Unread(w)
  BY DEF Laid, ReadTo
<1>2. Len(pr) \in Nat /\ q \in Nat
  BY <1>1 DEF Unread
<1>3. ASSUME AtKey(fs, e, i) PROVE FALSE
  <2>1. i \in 1..n /\ q = e[i - 1] + 1 /\ st = "KEY"
    BY <1>3 DEF AtKey
  <2>2. /\ e[i - 1] \in Nat /\ e[i] \in Nat /\ e[n] \in Nat /\ KeyEnd(e, fs, i) \in Nat
        /\ e[i - 1] < KeyEnd(e, fs, i) /\ KeyEnd(e, fs, i) < e[i] /\ e[i] <= e[n]
    BY <2>1, Inside
  <2>3. Ends(EQ) # {} <=> KeyEnd(e, fs, i) < Len(pr)
    BY <1>1, <1>3, KeyFound
  <2>4. KeyEnd(e, fs, i) < Len(pr) /\ q <= Len(pr)
    BY <1>2, <2>1, <2>2
  <2> QED
    BY <1>2, <2>1, <2>3, <2>4 DEF Out
<1>4. ASSUME AtValue(fs, e, i) PROVE i = n /\ TagOf(fs[i]) # CHECK_SUM /\ Len(pr) = e[n]
  <2>1. i \in 1..n /\ st = "VALUE" /\ cur = TagOf(fs[i])
    BY <1>4 DEF AtValue
  <2>2. /\ e[i] \in Nat /\ e[n] \in Nat /\ e[i] <= e[n] /\ (i # n => e[i] < e[n])
    BY <2>1, Inside
  <2>3. q <= e[i] /\ (Ends(SOH) # {} <=> e[i] < Len(pr))
    BY <1>1, <1>4, ValueFound
  <2>4. ~(q > Len(pr))
    BY <1>2, <2>2, <2>3
  <2>5. Ends(SOH) = {} /\ cur # CHECK_SUM
    BY <2>1, <2>4 DEF Out
  <2>6. ~(e[i] < Len(pr))
    BY <2>3, <2>5
  <2>7. i = n /\ Len(pr) = e[n]
    BY <1>2, <2>1, <2>2, <2>6
  <2> QED
    BY <2>1, <2>5, <2>7
<1> QED
  BY <1>3, <1>4 DEF ReadTo

-----------------------------------------------------------------------------
(* Every action keeps the invariant *)

(* Where one of the three holds, anal() is at a key or at a value. *)
LEMMA KeyAt ==
  ASSUME NEW fs, NEW e, NEW w, NEW i, Laid(fs, e, w), ReadTo(fs, e, w, i)
  PROVE  /\ i \in 1..(Len(fs) + 1) /\ Len(fs) \in Nat \ {0} /\ q \in Nat /\ Len(pr) \in Nat
         /\ q <= Len(pr) + 1
         /\ st = "KEY" => AtKey(fs, e, i) \/ AtEnd(fs, e, i)
         /\ st = "VALUE" => AtValue(fs, e, i)
         /\ AtEnd(fs, e, i) <=> i = Len(fs) + 1
         /\ AtEnd(fs, e, i) => st = "KEY"
<1>1. Len(fs) \in Nat \ {0} /\ pr \in Seq(Int) /\ q \in Nat /\ q <= Len(pr) + 1
  BY DEF Laid, ReadTo, Unread
<1>2. AtKey(fs, e, i) \/ AtValue(fs, e, i) \/ AtEnd(fs, e, i)
  BY DEF ReadTo
<1>3. AtKey(fs, e, i) => i \in 1..Len(fs) /\ st = "KEY"
  BY DEF AtKey
<1>4. AtValue(fs, e, i) => i \in 1..Len(fs) /\ st = "VALUE"
  BY DEF AtValue
<1>5. AtEnd(fs, e, i) => i = Len(fs) + 1 /\ st = "KEY"
  BY DEF AtEnd
<1>6. Len(fs) + 1 \in 1..(Len(fs) + 1) /\ Len(fs) + 1 \notin 1..Len(fs)
      /\ 1..Len(fs) \subseteq 1..(Len(fs) + 1) /\ Len(pr) \in Nat
  BY <1>1
<1> QED
  BY <1>1, <1>2, <1>3, <1>4, <1>5, <1>6

(* Nothing that is not compressed is taken for it. *)
LEMMA NotCompressed ==
  ASSUME NEW fs, NEW e, NEW w, NEW i, NotComp(fs), ReadTo(fs, e, w, i)', NextPhase
  PROVE  phase' = "anal"
<1>1. slot'.ver # Comp
  BY DEF ReadTo, Slots
<1> QED
  BY <1>1 DEF NextPhase, Compressed

LEMMA PlainStep ==
  ASSUME NEW fs, NEW e, NEW w, NEW i, Laid(fs, e, w), Len(w) = e[Len(fs)], NotComp(fs),
         zip = FALSE, ReadTo(fs, e, w, i), PlainAt(fs, e, w, i), Next
  PROVE  \E k \in 1..(Len(fs) + 1) : ReadTo(fs, e, w, k)' /\ PlainAt(fs, e, w, k)'
<1> DEFINE n == Len(fs)
<1>1. /\ i \in 1..(n + 1) /\ n \in Nat \ {0} /\ q \in Nat /\ Len(pr) \in Nat
      /\ st = "KEY" => AtKey(fs, e, i) \/ AtEnd(fs, e, i)
      /\ st = "VALUE" => AtValue(fs, e, i)
      /\ AtEnd(fs, e, i) <=> i = n + 1
      /\ AtEnd(fs, e, i) => st = "KEY"
      /\ q <= Len(pr) + 1
  BY KeyAt
<1>2. /\ phase \in {"anal", "out", "msg", "null"} /\ ~fin
      /\ Len(pr) = Len(w) /\ fspc = PlainFspc(Len(w))
      /\ i = n + 1 => q = e[n] + 1 /\ TagOf(Last(fs)) = CHECK_SUM
      /\ phase # "anal" /\ i # n + 1 =>
            i = n /\ st = "VALUE" /\ TagOf(Last(fs)) # CHECK_SUM
  BY DEF PlainAt
<1>3. Last(fs) = fs[n]
  BY DEF Last
<1>4. CASE Key
  <2>1. phase = "anal" /\ q <= Len(pr) /\ st = "KEY" /\ phase' = phase /\ fin' = fin /\ fspc' = fspc
    BY <1>4 DEF Key, Busy
  <2>2. i # n + 1
    BY <1>1, <1>2, <2>1
  <2>3. AtKey(fs, e, i)
    BY <1>1, <2>1, <2>2
  <2>4. ReadTo(fs, e, w, i)' /\ Len(pr') = Len(pr)
    BY <1>4, <2>3, KeyReads
  <2>5. PlainAt(fs, e, w, i)'
    BY <1>2, <2>1, <2>2, <2>4 DEF PlainAt
  <2> QED
    BY <1>1, <2>4, <2>5
<1>5. CASE Value
  <2>1. phase = "anal" /\ st = "VALUE" /\ fin' = fin /\ fspc' = fspc /\ NextPhase
    BY <1>5, Zenon DEF Value, Busy
  <2>2. AtValue(fs, e, i)
    BY <1>1, <2>1
  <2>3. /\ ReadTo(fs, e, w, i + 1)' /\ Len(pr') = Len(pr) /\ i \in 1..n
        /\ e[i] \in Nat /\ e[i] < Len(pr)
    BY <1>5, <2>2, ValueReads
  <2>4. i # n /\ i + 1 \in 1..(n + 1) /\ i + 1 # n + 1
    BY <1>1, <1>2, <2>3
  <2>5. phase' = "anal"
    BY <2>1, <2>3, NotCompressed
  <2>6. PlainAt(fs, e, w, i + 1)'
    BY <1>2, <2>1, <2>3, <2>4, <2>5 DEF PlainAt
  <2> QED
    BY <2>3, <2>4, <2>6
<1>6. CASE ValueAtEnd
  <2>1. phase = "anal" /\ st = "VALUE" /\ fin' = fin /\ fspc' = fspc /\ NextPhase /\ Ends(SOH) = {}
    BY <1>6 DEF ValueAtEnd, Busy
  <2>2. AtValue(fs, e, i) /\ i \in 1..n
    BY <1>1, <2>1 DEF AtValue
  <2>3. ~(e[i] < Len(pr))
    BY <2>1, <2>2, ValueFound DEF ReadTo
  <2>4. i = n
    BY <1>1, <1>2, <2>2, <2>3, Inside
  <2>5. ReadTo(fs, e, w, n + 1)' /\ pr' = pr /\ q' = Len(pr) + 1 /\ TagOf(fs[n]) = CHECK_SUM
    BY <1>6, <2>2, <2>4, ValueAtEndReads
  <2>6. phase' = "anal"
    BY <2>1, <2>5, NotCompressed
  <2>7. PlainAt(fs, e, w, n + 1)'
    BY <1>2, <1>3, <2>1, <2>5, <2>6 DEF PlainAt
  <2>8. n + 1 \in 1..(n + 1)
    BY <1>1
  <2> QED
    BY <2>5, <2>7, <2>8
<1>7. CASE Out
  <2>1. /\ phase' = "out" /\ st' = st /\ pr' = pr /\ q' = q /\ cur' = cur /\ flds' = flds
        /\ slot' = slot /\ zip' = zip /\ fin' = fin /\ fspc' = fspc
    BY <1>7 DEF Out
  <2>0. Whole' = Whole
    BY <1>7, WholeStays
  <2>2. ReadTo(fs, e, w, i)'
    BY <2>0, <2>1 DEF ReadTo, Unread, AtKey, AtValue, AtEnd, Found, Held, Slots
  <2>3. \/ AtEnd(fs, e, i)
        \/ i = n /\ AtValue(fs, e, i) /\ TagOf(fs[i]) # CHECK_SUM
    <3>1. Len(pr) >= e[n]
      BY <1>1, <1>2
    <3> QED
      BY <1>7, <3>1, Stops
  <2>4. i = n + 1 \/ (i = n /\ st = "VALUE" /\ TagOf(Last(fs)) # CHECK_SUM)
    BY <1>1, <1>3, <2>3 DEF AtValue
  <2>5. PlainAt(fs, e, w, i)'
    BY <1>2, <2>1, <2>4 DEF PlainAt
  <2> QED
    BY <1>1, <2>2, <2>5
<1>8. CASE StartInflate \/ Fill \/ InflateFails
  BY <1>2, <1>8 DEF StartInflate, Fill, InflateFails
<1>9. CASE Return
  <2>1. /\ st' = st /\ pr' = pr /\ q' = q /\ cur' = cur /\ flds' = flds
        /\ slot' = slot /\ zip' = zip /\ fin' = fin /\ fspc' = fspc
        /\ phase = "out" /\ phase' = IF st = "KEY" THEN "msg" ELSE "null"
    BY <1>2, <1>9 DEF Return
  <2>0. Whole' = Whole
    BY <1>9, WholeStays
  <2>2. ReadTo(fs, e, w, i)'
    BY <2>0, <2>1 DEF ReadTo, Unread, AtKey, AtValue, AtEnd, Found, Held, Slots
  <2>3. i = n + 1 => st = "KEY"
    BY <1>1
  <2>4. PlainAt(fs, e, w, i)'
    BY <1>1, <1>2, <2>1, <2>3 DEF PlainAt
  <2> QED
    BY <1>1, <2>2, <2>4
<1> QED
  BY <1>4, <1>5, <1>6, <1>7, <1>8, <1>9 DEF Next

(* The header of a compressed text, until __fixc_from_fixz takes over. *)
LEMMA HeadStep ==
  ASSUME NEW fs, NEW e, NEW w, NEW i, Laid(fs, e, w), Len(fs) = 2, Len(w) > e[2],
         TagOf(fs[1]) = BEGIN_STRING, fs[1].val = Comp,
         TagOf(fs[2]) = BODY_LENGTH, ParseLen(fs[2].val) > 0,
         zip = FALSE, ReadTo(fs, e, w, i), HeadAt(w, i), Next, ~StartInflate
  PROVE  \E k \in 1..3 : ReadTo(fs, e, w, k)' /\ HeadAt(w, k)'
<1>1. /\ i \in 1..3 /\ q \in Nat /\ Len(pr) \in Nat
      /\ st = "KEY" => AtKey(fs, e, i) \/ AtEnd(fs, e, i)
      /\ st = "VALUE" => AtValue(fs, e, i)
      /\ AtEnd(fs, e, i) <=> i = 3
  <2>1. /\ i \in 1..(Len(fs) + 1) /\ q \in Nat /\ Len(pr) \in Nat
        /\ st = "KEY" => AtKey(fs, e, i) \/ AtEnd(fs, e, i)
        /\ st = "VALUE" => AtValue(fs, e, i)
        /\ AtEnd(fs, e, i) <=> i = Len(fs) + 1
    BY KeyAt, Zenon
  <2>2. Len(fs) + 1 = 3
    OBVIOUS
  <2> QED
    BY <2>1, <2>2, Zenon
<1>2. ~fin /\ Len(pr) = Len(w) /\ ((phase = "anal" /\ i <= 2) \/ (phase = "inflate" /\ i = 3))
  BY DEF HeadAt
<1>3. 2 \in 1..Len(fs) /\ e[2] \in Nat
  <2>1. 2 \in 1..Len(fs)
    OBVIOUS
  <2> QED
    BY <2>1, Inside
<1>4. CASE Key
  <2>1. phase = "anal" /\ st = "KEY" /\ phase' = phase /\ fin' = fin
    BY <1>4 DEF Key, Busy
  <2>2. i <= 2 /\ AtKey(fs, e, i)
    BY <1>1, <1>2, <2>1
  <2>3. ReadTo(fs, e, w, i)' /\ Len(pr') = Len(pr)
    BY <1>4, <2>2, KeyReads
  <2>4. HeadAt(w, i)'
    BY <1>2, <2>1, <2>2, <2>3 DEF HeadAt
  <2> QED
    BY <1>1, <2>3, <2>4
<1>5. CASE Value
  <2>1. phase = "anal" /\ st = "VALUE" /\ fin' = fin /\ NextPhase /\ zip' = zip
    BY <1>5, Zenon DEF Value, Busy
  <2>2. AtValue(fs, e, i) /\ i \in 1..2
    BY <1>1, <1>2, <2>1
  <2>3. ReadTo(fs, e, w, i + 1)' /\ Len(pr') = Len(pr)
    BY <1>5, <2>2, ValueReads
  <2>4. /\ slot'.ver = Verify(LastTo(BEGIN_STRING, fs, i)) /\ slot'.len = ParseLen(LastTo(BODY_LENGTH, fs, i))
    <3>1. (i + 1) - 1 = i
      BY <2>2
    <3> QED
      BY <2>1, <2>3, <3>1 DEF ReadTo, Slots, Whole
  <2>5. \A tag : /\ LastTo(tag, fs, 0) = <<>>
                 /\ LastTo(tag, fs, 1) = IF TagOf(fs[1]) = tag THEN fs[1].val ELSE LastTo(tag, fs, 0)
                 /\ LastTo(tag, fs, 2) = IF TagOf(fs[2]) = tag THEN fs[2].val ELSE LastTo(tag, fs, 1)
    <3> TAKE tag
    <3>1. Len(fs) \in Nat
      OBVIOUS
    <3>2. /\ LastTo(tag, fs, 0) = <<>>
          /\ \A k \in Nat \ {0} : LastTo(tag, fs, k) =
               IF TagOf(fs[k]) = tag THEN fs[k].val ELSE LastTo(tag, fs, k - 1)
      BY <3>1, LastSteps, ZenonT(30)
    <3>3. 1 \in Nat \ {0} /\ 2 \in Nat \ {0} /\ 1 - 1 = 0 /\ 2 - 1 = 1
      OBVIOUS
    <3> QED
      BY <3>2, <3>3, Zenon
  <2>6. BEGIN_STRING # BODY_LENGTH
    BY DEF BEGIN_STRING, BODY_LENGTH
  <2>7. CASE i = 1
    <3>1. LastTo(BODY_LENGTH, fs, 1) = <<>>
      BY <2>5, <2>6
    <3>2. slot'.len = 0
      BY <2>4, <2>7, <3>1, EmptyNumber
    <3>3. phase' = "anal"
      BY <2>1, <3>2 DEF NextPhase, Compressed
    <3>4. HeadAt(w, 2)' /\ i + 1 = 2 /\ 2 \in 1..3
      BY <1>2, <2>1, <2>3, <2>7, <3>3 DEF HeadAt
    <3> QED
      BY <2>3, <3>4
  <2>8. CASE i = 2
    <3>0. Verify(Comp) = Comp
      BY VersionAssumption DEF Verify
    <3>1. slot'.ver = Comp /\ slot'.len > 0
      BY <2>4, <2>5, <2>6, <2>8, <3>0
    <3>2. phase' = "inflate"
      BY <2>1, <3>1 DEF NextPhase, Compressed
    <3>3. HeadAt(w, 3)' /\ i + 1 = 3 /\ 3 \in 1..3
      BY <1>2, <2>1, <2>3, <2>8, <3>2 DEF HeadAt
    <3> QED
      BY <2>3, <3>3
  <2> QED
    BY <2>2, <2>7, <2>8
<1>6. CASE ValueAtEnd
  <2>1. phase = "anal" /\ st = "VALUE" /\ Ends(SOH) = {}
    BY <1>6 DEF ValueAtEnd, Busy
  <2>2. AtValue(fs, e, i) /\ i \in 1..Len(fs)
    BY <1>1, <2>1 DEF AtValue
  <2>3. ~(e[i] < Len(pr))
    BY <2>1, <2>2, ValueFound DEF ReadTo
  <2>4. e[i] \in Nat /\ e[i] <= e[2]
    BY <2>2, Inside
  <2> QED
    BY <1>1, <1>2, <1>3, <2>3, <2>4
<1>7. CASE Out
  <2>1. Len(pr) > e[2] /\ i <= 2
    BY <1>2, <1>7 DEF Out
  <2>2. Len(pr) >= e[Len(fs)] /\ Len(pr) # e[Len(fs)] /\ i # 3
    BY <1>1, <1>3, <2>1
  <2> QED
    BY <1>1, <1>7, <2>2, Stops
<1>8. CASE Fill \/ InflateFails \/ Return
  BY <1>2, <1>8 DEF Fill, InflateFails, Return
<1> QED
  BY <1>4, <1>5, <1>6, <1>7, <1>8 DEF Next

(* Nothing of the header but its two slots has been filled. *)
LEMMA HeadKeepsNone ==
  ASSUME NEW fs, NEW e, NEW w, Laid(fs, e, w), Len(fs) = 2,
         TagOf(fs[1]) = BEGIN_STRING, TagOf(fs[2]) = BODY_LENGTH, Found(fs, 3), Slots(fs, 3)
  PROVE  flds = <<>> /\ LastTo(MSG_TYPE, fs, 2) = <<>>
<1>1. /\ ~Plain(fs[1]) /\ ~Plain(fs[2]) /\ 2 \in Nat \ {0} /\ 1 \in Nat \ {0} /\ 1 - 1 = 0
      /\ 2 - 1 = 1 /\ 3 - 1 = 2 /\ 1 \in 1..Len(fs) /\ 2 \in 1..Len(fs) /\ 3 \in 1..(Len(fs) + 1)
      /\ BEGIN_STRING # MSG_TYPE /\ BODY_LENGTH # MSG_TYPE
  BY DEF Plain, BEGIN_STRING, BODY_LENGTH, MSG_TYPE
<1>2. KeptBy(KeptTo(fs), fs)
  BY <1>1, KeptFields
<1>3. KeptTo(fs)[2] = <<>>
  BY <1>1, <1>2, Zenon DEF KeptBy
<1>4. flds = <<>>
  <2>1. flds \in Seq([tag : Nat, off : Nat]) /\ Len(flds) = Len(KeptTo(fs)[2])
    BY <1>1 DEF Found
  <2> QED
    BY <1>3, <2>1
<1>5. LastTo(MSG_TYPE, fs, 2) = <<>>
  <2>1. Len(fs) \in Nat
    OBVIOUS
  <2>2. /\ LastTo(MSG_TYPE, fs, 0) = <<>>
        /\ \A k \in Nat \ {0} : LastTo(MSG_TYPE, fs, k) =
             IF TagOf(fs[k]) = MSG_TYPE THEN fs[k].val ELSE LastTo(MSG_TYPE, fs, k - 1)
    BY <2>1, LastSteps
  <2> QED
    BY <1>1, <2>2, Zenon
<1> QED
  BY <1>4, <1>5

(* Before the first field of any text. *)
LEMMA FirstField ==
  ASSUME NEW fs, NEW e, NEW w, Laid(fs, e, w)
  PROVE  /\ KeptTo(fs)[0] = <<>> /\ \A tag : LastTo(tag, fs, 0) = <<>>
         /\ e[0] = 0 /\ 1 - 1 = 0 /\ 1 \in 1..Len(fs) /\ 1 \in 1..(Len(fs) + 1) /\ w \in Seq(Int)
<1>1. /\ Len(fs) \in Nat \ {0} /\ w \in Seq(Int) /\ e[0] = 0
  BY DEF Laid, IsEnds, IsTextOf
<1>2. 1 \in 1..Len(fs) /\ 1 \in 1..(Len(fs) + 1) /\ 1 - 1 = 0
  BY <1>1
<1>3. KeptTo(fs)[0] = <<>>
  BY <1>2, KeptFields DEF KeptBy
<1>4. \A tag : LastTo(tag, fs, 0) = <<>>
  BY <1>1, LastSteps
<1> QED
  BY <1>1, <1>2, <1>3, <1>4

LEMMA StartStep ==
  ASSUME NEW fs, NEW e, NEW w, NEW i, Laid(fs, e, w), Len(fs) = 2,
         TagOf(fs[1]) = BEGIN_STRING, TagOf(fs[2]) = BODY_LENGTH,
         ReadTo(fs, e, w, i), HeadAt(w, i), StartInflate,
         NEW gs, NEW g, NEW x, Laid(gs, g, x), x = TextOf(doc.body)
  PROVE  ReadTo(gs, g, x, 1)' /\ BodyAt(gs, x, 1)'
<1>1. phase = "inflate" /\ i = 3 /\ ~fin
  BY DEF StartInflate, HeadAt
<1>2. /\ slot' = [slot EXCEPT !.ver = VER_UNK, !.len = 0]
      /\ pr' = <<>> /\ q' = 1 /\ st' = "KEY" /\ left' = x /\ phase' = "fill" /\ zip' = TRUE
      /\ flds' = flds /\ fin' = fin
  BY DEF StartInflate
<1>3. flds = <<>> /\ LastTo(MSG_TYPE, fs, 2) = <<>>
  BY <1>1, HeadKeepsNone DEF ReadTo
<1>4. /\ KeptTo(gs)[0] = <<>> /\ \A tag : LastTo(tag, gs, 0) = <<>>
      /\ g[0] = 0 /\ 1 - 1 = 0 /\ 1 \in 1..Len(gs) /\ x \in Seq(Int)
  BY FirstField
<1>5. Unread(x)'
  <2>1. pr' \in Seq(Int) /\ Len(pr') = 0 /\ Len(x) \in Nat
    BY <1>2, <1>4
  <2> QED
    BY <1>2, <2>1 DEF Unread
<1>6. AtKey(gs, g, 1)'
  BY <1>2, <1>4 DEF AtKey
<1>7. Found(gs, 1)'
  <2>1. flds' = <<>> /\ Len(flds') = 0 /\ flds' \in Seq([tag : Nat, off : Nat])
    BY <1>2, <1>3
  <2> QED
    BY <1>4, <2>1 DEF Found
<1>8. Slots(gs, 1)'
  <2>1. /\ slot \in [ver : Seq(Int), len : Lens, sum : Int, mtyp : Seq(Int)]
        /\ slot.mtyp = ParseMtyp(LastTo(MSG_TYPE, fs, 2))
    <3>1. 3 - 1 = 2
      OBVIOUS
    <3> QED
      BY <1>1, <3>1 DEF ReadTo, Slots
  <2>2. 0 \in Lens
    <3>1. <<>> \in Seq(Int)
      OBVIOUS
    <3>2. PICK s \in Seq(Int) : s = <<>>
      BY <3>1, Zenon
    <3> QED
      BY <3>2, EmptyNumber DEF Lens
  <2>3. <<>> \in Seq(Int)
    OBVIOUS
  <2>4. /\ slot' \in [ver : Seq(Int), len : Lens, sum : Int, mtyp : Seq(Int)]
        /\ slot'.mtyp = slot.mtyp /\ slot'.ver = VER_UNK /\ slot'.len = 0
    BY <1>2, <2>1, <2>2, <2>3 DEF VER_UNK
  <2>5. slot'.ver # Comp
    BY <2>4, VersionAssumption
  <2>6. slot'.mtyp = ParseMtyp(LastTo(MSG_TYPE, gs, 0))
    BY <1>3, <1>4, <2>1, <2>4
  <2>7. Verify(LastTo(BEGIN_STRING, gs, 0)) = VER_UNK /\ ParseLen(LastTo(BODY_LENGTH, gs, 0)) = 0
    BY <1>4, NothingRead
  <2> QED
    BY <1>4, <2>4, <2>5, <2>6, <2>7 DEF Slots
<1>9. ReadTo(gs, g, x, 1)'
  BY <1>5, <1>6, <1>7, <1>8 DEF ReadTo
<1>10. BodyAt(gs, x, 1)'
  <2>1. Len(pr') = 0 /\ Len(x) \in Nat /\ \A y \in 1..Len(x) : 0 + y = y
    BY <1>2, <1>4
  <2> QED
    BY <1>1, <1>2, <1>4, <2>1 DEF BodyAt
<1> QED
  BY <1>9, <1>10

(* Of no bytes, no field has been read. *)
LEMMA NoneRead ==
  ASSUME NEW fs, NEW e, NEW w, NEW i, Laid(fs, e, w), ReadTo(fs, e, w, i), Len(pr) = 0
  PROVE  i = 1
<1>1. q \in Nat \ {0} /\ q <= 1 /\ Len(fs) \in Nat \ {0}
  BY DEF ReadTo, Unread, Laid
<1>2. \A k \in 1..Len(fs) :
         /\ e[k - 1] \in Nat /\ e[k] \in Nat /\ KeyEnd(e, fs, k) \in Nat
         /\ e[k - 1] < KeyEnd(e, fs, k) /\ KeyEnd(e, fs, k) < e[k]
  BY Inside
<1>3. ASSUME AtValue(fs, e, i) PROVE FALSE
  BY <1>1, <1>2, <1>3 DEF AtValue
<1>4. ASSUME AtEnd(fs, e, i) PROVE FALSE
  <2>1. Len(fs) \in 1..Len(fs)
    BY <1>1
  <2>2. KeyEnd(e, fs, Len(fs)) \in Nat /\ KeyEnd(e, fs, Len(fs)) > 0 /\ e[Len(fs)] \in Nat
    BY <1>2, <2>1
  <2> QED
    BY <1>1, <1>4, <2>2 DEF AtEnd
<1>5. i \in 1..Len(fs) /\ e[i - 1] = 0
  <2>1. AtKey(fs, e, i)
    BY <1>3, <1>4 DEF ReadTo
  <2>2. i \in 1..Len(fs) /\ q = e[i - 1] + 1
    BY <2>1 DEF AtKey
  <2> QED
    BY <1>1, <1>2, <2>2
<1> QED
  <2>1. i # 1 => i - 1 \in 1..Len(fs)
    BY <1>1, <1>5
  <2> QED
    BY <1>2, <1>5, <2>1

(* More text is appended, and what was found before stays. *)
LEMMA FillStep ==
  ASSUME NEW fs, NEW e, NEW w, NEW i, Laid(fs, e, w), zip = TRUE, chunk \in Nat \ {0},
         w = TextOf(doc.body), doc.intact \in BOOLEAN, ReadTo(fs, e, w, i), BodyAt(fs, w, i), Fill
  PROVE  ReadTo(fs, e, w, i)' /\ BodyAt(fs, w, i)' /\ fin' \in BOOLEAN
<1> DEFINE m == IF Len(left) < chunk THEN Len(left) ELSE chunk
           more == SubSeq(left, 1, m)
           rest == SubSeq(left, m + 1, Len(left))
<1>1. /\ left \in Seq(Int) /\ Len(pr) + Len(left) = Len(w)
      /\ \A x \in 1..Len(left) : left[x] = w[Len(pr) + x]
  BY DEF BodyAt
<1>2. /\ pr \in Seq(Int) /\ q \in Nat \ {0} /\ Len(pr) <= Len(w) /\ q <= Len(pr) + 1
      /\ \A x \in q..Len(pr) : pr[x] = w[x]
  BY DEF ReadTo, Unread
<1>3. w \in Seq(Int) /\ Len(w) \in Nat /\ Len(left) \in Nat /\ Len(pr) \in Nat
  BY <1>1, <1>2 DEF Laid, IsTextOf
<1>4. m \in Nat /\ m <= Len(left) /\ (m < chunk => m = Len(left))
  BY <1>3
<1>5. /\ pr' = pr \o more /\ left' = rest /\ phase' = "anal" /\ zip' = zip
      /\ slot' = [slot EXCEPT !.ver = VER_UNK, !.len = 0]
      /\ st' = st /\ q' = q /\ cur' = cur /\ flds' = flds /\ doc' = doc /\ chunk' = chunk
      /\ fin' \in IF doc.intact THEN {m < chunk, left' = <<>>} ELSE {FALSE}
  BY DEF Fill
<1>6. /\ more \in Seq(Int) /\ Len(more) = m /\ \A x \in 1..m : more[x] = left[x]
  BY <1>1, <1>3, <1>4, SMTT(30)
<1>7. /\ rest \in Seq(Int) /\ Len(rest) = Len(left) - m
      /\ \A x \in 1..(Len(left) - m) : rest[x] = left[m + x]
  <2>1. \A x \in (m + 1)..Len(left) : left[x] \in Int
    BY <1>1, <1>3, <1>4
  <2>2. /\ rest \in Seq(Int)
        /\ Len(rest) = IF m + 1 <= Len(left) THEN Len(left) - (m + 1) + 1 ELSE 0
        /\ \A x \in 1..(Len(left) - (m + 1) + 1) : rest[x] = left[m + 1 + x - 1]
    <3> DEFINE a == m + 1
               b == Len(left)
    <3>1. a \in Int /\ b \in Int
      BY <1>3, <1>4
    <3>2. \A x \in a..b : left[x] \in Int
      BY <2>1
    <3> HIDE DEF m, a, b
    <3>3. /\ SubSeq(left, a, b) \in Seq(Int)
          /\ Len(SubSeq(left, a, b)) = IF a <= b THEN b - a + 1 ELSE 0
          /\ \A x \in 1..(b - a + 1) : SubSeq(left, a, b)[x] = left[a + x - 1]
      BY <3>1, <3>2, SubSeqProperties
    <3> QED
      BY <3>3 DEF a, b
  <2>3. Len(rest) = Len(left) - m /\ Len(left) - (m + 1) + 1 = Len(left) - m
    <3> HIDE DEF rest, m
    <3>1. m + 1 <= Len(left) => Len(rest) = Len(left) - (m + 1) + 1
      BY <2>2, Zenon
    <3>2. ~(m + 1 <= Len(left)) => Len(rest) = 0
      BY <2>2, Zenon
    <3> QED
      BY <1>3, <1>4, <3>1, <3>2
  <2>4. \A x \in 1..(Len(left) - m) : rest[x] = left[m + x]
    <3> HIDE DEF rest, m
    <3> TAKE x \in 1..(Len(left) - m)
    <3>1. m + 1 + x - 1 = m + x
      BY <1>4
    <3> QED
      BY <2>2, <2>3, <3>1
  <2> QED
    BY <2>2, <2>3, <2>4
<1> HIDE DEF m, more, rest
<1>8. /\ pr' \in Seq(Int) /\ Len(pr') = Len(pr) + m
      /\ \A x \in 1..Len(pr) : pr'[x] = pr[x]
      /\ \A x \in 1..m : pr'[Len(pr) + x] = more[x]
  BY <1>2, <1>5, <1>6, Glue
<1>9. Unread(w)'
  <2>1. Len(pr') <= Len(w) /\ q <= Len(pr') + 1
    BY <1>1, <1>2, <1>3, <1>4, <1>8
  <2>2. ASSUME NEW x \in q..Len(pr') PROVE pr'[x] = w[x]
    <3>1. CASE x <= Len(pr)
      <4>1. x \in q..Len(pr) /\ x \in 1..Len(pr)
        BY <1>2, <1>3, <3>1
      <4> QED
        BY <1>2, <1>8, <4>1
    <3>2. CASE ~(x <= Len(pr))
      <4> DEFINE y == x - Len(pr)
      <4>1. y \in 1..m /\ y \in 1..Len(left) /\ Len(pr) + y = x
        BY <1>2, <1>3, <1>4, <1>8, <3>2
      <4> HIDE DEF y
      <4>2. pr'[Len(pr) + y] = more[y] /\ more[y] = left[y] /\ left[y] = w[Len(pr) + y]
        BY <1>1, <1>6, <1>8, <4>1
      <4> QED
        BY <4>1, <4>2
    <3> QED
      BY <3>1, <3>2
  <2> QED
    BY <1>2, <1>5, <1>8, <2>1, <2>2 DEF Unread
<1>10. i \in 1..(Len(fs) + 1)
  BY KeyAt
<1>11. Found(fs, i)'
  <2>1. \A x \in 1..(q - 1) : x \in 1..Len(pr)
    BY <1>2, <1>3
  <2>2. q \in Nat /\ q' \in Nat /\ q <= q' /\ \A x \in 1..(q - 1) : pr'[x] = pr[x]
    BY <1>2, <1>5, <1>8, <2>1
  <2> QED
    BY <1>5, <1>10, <2>2, FoundStays DEF ReadTo
<1>12. Slots(fs, i)'
  <2>1. /\ slot \in [ver : Seq(Int), len : Lens, sum : Int, mtyp : Seq(Int)]
        /\ slot.mtyp = ParseMtyp(LastTo(MSG_TYPE, fs, i - 1))
    BY DEF ReadTo, Slots
  <2>2. 0 \in Lens
    <3>1. <<>> \in Seq(Int)
      OBVIOUS
    <3>2. PICK s \in Seq(Int) : s = <<>>
      BY <3>1, Zenon
    <3> QED
      BY <3>2, EmptyNumber DEF Lens
  <2>3. <<>> \in Seq(Int)
    OBVIOUS
  <2>4. /\ slot' \in [ver : Seq(Int), len : Lens, sum : Int, mtyp : Seq(Int)]
        /\ slot'.mtyp = slot.mtyp /\ slot'.ver = VER_UNK /\ slot'.len = 0
    BY <1>5, <2>1, <2>2, <2>3 DEF VER_UNK
  <2>5. ASSUME Whole
        PROVE  /\ Verify(LastTo(BEGIN_STRING, fs, i - 1)) = VER_UNK
               /\ ParseLen(LastTo(BODY_LENGTH, fs, i - 1)) = 0
    <3>1. Len(w) < chunk /\ ~fin /\ (doc.intact \/ left # <<>>)
      <4>1. phase = "fill" /\ (doc.intact \/ left # <<>>)
        BY DEF Fill
      <4> QED
        BY <2>5, <4>1 DEF Whole, BodyAt
    <3>2. Len(pr) = 0
      BY <3>1 DEF BodyAt
    <3>3. i - 1 = 0
      BY <3>2, NoneRead
    <3> QED
      BY <3>3, FirstField, NothingRead
  <2> QED
    BY <1>5, <2>1, <2>4, <2>5, WholeStays, VersionAssumption DEF Slots
<1>13. ReadTo(fs, e, w, i)'
  <2>1. (AtKey(fs, e, i) \/ AtValue(fs, e, i) \/ AtEnd(fs, e, i))'
    BY <1>5 DEF ReadTo, AtKey, AtValue, AtEnd
  <2> QED
    BY <1>9, <1>11, <1>12, <2>1 DEF ReadTo
<1>14. /\ fin' \in BOOLEAN /\ (fin' => left' = <<>> /\ doc.intact)
       /\ m < chunk => left' = <<>> /\ (doc.intact => fin')
  <2>1. m < chunk => left' = <<>>
    <3>1. m < chunk => Len(rest) = 0
      BY <1>3, <1>4, <1>7
    <3> QED
      BY <1>5, <1>7, <3>1
  <2>2. CASE doc.intact
    <3>1. fin' = (m < chunk) \/ fin' = (left' = <<>>)
      BY <1>5, <2>2
    <3>2. CASE fin' = (m < chunk)
      <4>1. m < chunk => fin' = TRUE
        BY <3>2
      <4>2. ~(m < chunk) => (m < chunk) = FALSE
        OBVIOUS
      <4>3. ~(m < chunk) => fin' = FALSE
        BY <3>2, <4>2, Zenon
      <4> QED
        BY <2>1, <2>2, <4>1, <4>3, Zenon
    <3>3. CASE fin' = (left' = <<>>)
      BY <2>1, <2>2, <3>3
    <3> QED
      BY <3>1, <3>2, <3>3
  <2>3. CASE ~doc.intact
    BY <1>5, <2>1, <2>3
  <2> QED
    BY <2>2, <2>3
<1>15. BodyAt(fs, w, i)'
  <2>1. Len(pr') + Len(left') = Len(w)
    <3>1. Len(pr') = Len(pr) + m /\ Len(left') = Len(left) - m /\ Len(pr) + Len(left) = Len(w)
      BY <1>1, <1>5, <1>7, <1>8
    <3> DEFINE a == Len(pr)
               b == Len(left)
    <3>2. a \in Nat /\ b \in Nat /\ m \in Nat
      BY <1>3, <1>4
    <3>3. Len(pr') = a + m /\ Len(left') = b - m /\ a + b = Len(w)
      BY <3>1
    <3> HIDE DEF a, b
    <3> QED
      BY <3>2, <3>3
  <2>2. ASSUME NEW x \in 1..Len(left') PROVE left'[x] = w[Len(pr') + x]
    <3>1. x \in 1..(Len(left) - m) /\ m + x \in 1..Len(left) /\ Len(pr) + (m + x) = Len(pr') + x
      BY <1>3, <1>4, <1>5, <1>7, <1>8, SMTT(30)
    <3>2. left'[x] = left[m + x] /\ left[m + x] = w[Len(pr) + (m + x)]
      BY <1>1, <1>5, <1>7, <3>1
    <3> QED
      BY <3>1, <3>2
  <2>3. left' \in Seq(Int)
    BY <1>5, <1>7
  <2>4. Len(w) < chunk => m < chunk
    BY <1>1, <1>3, <1>4
  <2> QED
    BY <1>5, <1>14, <2>1, <2>2, <2>3, <2>4 DEF BodyAt
<1> QED
  BY <1>13, <1>14, <1>15

LEMMA BodyStep ==
  ASSUME NEW fs, NEW e, NEW w, NEW i, Laid(fs, e, w), Len(w) = e[Len(fs)],
         NotComp(fs), IsMessage(fs), zip = TRUE, fin \in BOOLEAN,
         ReadTo(fs, e, w, i), BodyAt(fs, w, i), Next, ~Fill
  PROVE  \E k \in 1..(Len(fs) + 1) : ReadTo(fs, e, w, k)' /\ BodyAt(fs, w, k)'
<1> DEFINE n == Len(fs)
<1>1. /\ i \in 1..(n + 1) /\ n \in Nat \ {0} /\ q \in Nat /\ Len(pr) \in Nat
      /\ st = "KEY" => AtKey(fs, e, i) \/ AtEnd(fs, e, i)
      /\ st = "VALUE" => AtValue(fs, e, i)
      /\ AtEnd(fs, e, i) <=> i = n + 1
      /\ AtEnd(fs, e, i) => st = "KEY"
  BY KeyAt
<1>2. /\ phase \in {"fill", "anal", "out", "msg", "null"}
      /\ left \in Seq(Int) /\ Len(pr) + Len(left) = Len(w)
      /\ \A x \in 1..Len(left) : left[x] = w[Len(pr) + x]
      /\ fin => left = <<>> /\ doc.intact
      /\ phase = "fill" => ~fin
      /\ Len(w) < chunk => Len(pr) = 0 \/ (left = <<>> /\ (doc.intact => fin))
      /\ phase = "out" /\ left = <<>> => i = n + 1
  BY DEF BodyAt
<1>3. \A k \in 1..n : TagOf(fs[k]) = CHECK_SUM <=> k = n
  BY <1>1 DEF IsMessage, Laid
<1>4. Len(left) \in Nat /\ Len(w) \in Nat /\ n \in 1..n
  BY <1>1, <1>2 DEF Laid, IsTextOf
<1>5. CASE Key
  <2>1. /\ phase = "anal" /\ st = "KEY" /\ Ends(EQ) # {} /\ phase' = phase /\ fin' = fin
        /\ left' = left /\ doc' = doc /\ chunk' = chunk
    BY <1>5 DEF Key, Busy
  <2>2. ASSUME AtEnd(fs, e, i) PROVE FALSE
    <3> DEFINE p == KeyEnd(e, fs, n)
               v == fs[n].val
    <3>1. PICK j \in q..(Len(pr) - 1) : pr[j] = EQ
      BY <2>1 DEF Ends
    <3>2. /\ v \in Seq(Int) /\ Len(v) \in Nat /\ p \in Nat /\ e[n] = p + Len(v) + 1
          /\ \A y \in 1..Len(v) : w[p + y] = v[y]
      <4> HIDE DEF n
      <4>1. n \in 1..Len(fs)
        BY <1>4 DEF n
      <4>2. fs[n].val \in Seq(Int)
        BY <4>1, LaidField, Zenon
      <4>3. /\ Len(fs[n].val) \in Nat /\ KeyEnd(e, fs, n) \in Nat
            /\ e[n] = KeyEnd(e, fs, n) + Len(fs[n].val) + 1
            /\ \A y \in 1..Len(fs[n].val) : w[KeyEnd(e, fs, n) + y] = fs[n].val[y]
        BY <4>1, LaidField
      <4> QED
        BY <4>2, <4>3
    <3>3. Len(v) \in Nat /\ p \in Nat /\ e[n] = p + Len(v) + 1
      BY <3>2, Zenon
    <3>4. q \in (p + 1)..(e[n] + 1) /\ \A y \in q..Len(pr) : pr[y] = w[y]
      BY <2>2 DEF AtEnd, ReadTo, Unread
    <3>5. EQ \notin Range(v)
      BY DEF IsMessage, Last
    <3> HIDE DEF p, v
    <3>6. j - p \in 1..Len(v) /\ p + (j - p) = j /\ j \in q..Len(pr)
      BY <1>1, <1>2, <1>4, <3>1, <3>3, <3>4
    <3>7. w[j] = EQ /\ w[j] = v[j - p]
      <4>1. w[p + (j - p)] = v[j - p]
        BY <3>2, <3>6
      <4> QED
        BY <3>1, <3>4, <3>6, <4>1
    <3>8. v[j - p] \in Range(v)
      BY <3>2, <3>6 DEF Range
    <3> QED
      BY <3>5, <3>7, <3>8
  <2>3. AtKey(fs, e, i)
    BY <1>1, <2>1, <2>2
  <2>4. ReadTo(fs, e, w, i)' /\ Len(pr') = Len(pr)
    BY <1>5, <2>3, KeyReads
  <2>5. BodyAt(fs, w, i)'
    BY <1>2, <2>1, <2>4 DEF BodyAt
  <2> QED
    BY <1>1, <2>4, <2>5
<1>6. CASE Value
  <2>1. phase = "anal" /\ st = "VALUE" /\ fin' = fin /\ left' = left /\ doc' = doc /\ chunk' = chunk /\ NextPhase
    BY <1>6, Zenon DEF Value, Busy
  <2>2. AtValue(fs, e, i)
    BY <1>1, <2>1
  <2>3. ReadTo(fs, e, w, i + 1)' /\ Len(pr') = Len(pr) /\ i \in 1..n
    BY <1>6, <2>2, ValueReads
  <2>4. phase' = "anal"
    BY <2>1, <2>3, NotCompressed
  <2>5. BodyAt(fs, w, i + 1)'
    BY <1>2, <2>1, <2>3, <2>4 DEF BodyAt
  <2>6. i + 1 \in 1..(n + 1)
    BY <1>1, <2>3
  <2> QED
    BY <2>3, <2>5, <2>6
<1>7. CASE ValueAtEnd
  <2>1. phase = "anal" /\ st = "VALUE" /\ fin' = fin /\ left' = left /\ doc' = doc /\ chunk' = chunk /\ NextPhase /\ cur = CHECK_SUM
    BY <1>7 DEF ValueAtEnd, Busy
  <2>2. AtValue(fs, e, i) /\ i \in 1..n /\ TagOf(fs[i]) = CHECK_SUM
    BY <1>1, <2>1 DEF AtValue
  <2>3. i = n
    BY <1>3, <2>2
  <2>4. ReadTo(fs, e, w, n + 1)' /\ pr' = pr
    BY <1>7, <2>2, <2>3, ValueAtEndReads
  <2>5. phase' = "anal"
    BY <2>1, <2>4, NotCompressed
  <2>6. BodyAt(fs, w, n + 1)'
    BY <1>2, <2>1, <2>4, <2>5 DEF BodyAt
  <2>7. n + 1 \in 1..(n + 1)
    BY <1>1
  <2> QED
    BY <2>4, <2>6, <2>7
<1>8. CASE Out
  <2>1. /\ phase' = "out" /\ st' = st /\ pr' = pr /\ q' = q /\ cur' = cur /\ flds' = flds
        /\ slot' = slot /\ zip' = zip /\ fin' = fin /\ left' = left /\ doc' = doc /\ chunk' = chunk
    BY <1>8 DEF Out
  <2>0. Whole' = Whole
    BY <1>8, WholeStays
  <2>2. ReadTo(fs, e, w, i)'
    BY <2>0, <2>1 DEF ReadTo, Unread, AtKey, AtValue, AtEnd, Found, Held, Slots
  <2>3. ASSUME left = <<>> PROVE i = n + 1
    <3>1. Len(left) = 0
      BY <2>3
    <3>2. Len(pr) = Len(w)
      BY <1>1, <1>2, <1>4, <3>1
    <3>3. Len(pr) >= e[n]
      BY <1>1, <3>2
    <3>4. AtEnd(fs, e, i) \/ (i = n /\ TagOf(fs[i]) # CHECK_SUM)
      BY <1>8, <3>3, Stops
    <3> QED
      BY <1>1, <1>3, <1>4, <3>4
  <2>4. BodyAt(fs, w, i)'
    BY <1>2, <2>1, <2>3 DEF BodyAt
  <2> QED
    BY <1>1, <2>2, <2>4
<1>9. CASE StartInflate
  BY <1>2, <1>9 DEF StartInflate
<1>10. CASE InflateFails \/ Return
  <2>1. /\ st' = st /\ pr' = pr /\ q' = q /\ cur' = cur /\ flds' = flds
        /\ slot' = slot /\ zip' = zip /\ fin' = fin /\ left' = left /\ doc' = doc /\ chunk' = chunk
    BY <1>10 DEF InflateFails, Return
  <2>0. Whole' = Whole
    BY <1>10, WholeStays
  <2>2. ReadTo(fs, e, w, i)'
    BY <2>0, <2>1 DEF ReadTo, Unread, AtKey, AtValue, AtEnd, Found, Held, Slots
  <2>3. \/ phase' = "null" /\ ~doc.intact
        \/ phase' = "fill" /\ (phase = "fill" \/ ~fin)
        \/ phase' = "msg" /\ fin /\ phase = "out"
    <3>1. CASE InflateFails
      BY <3>1 DEF InflateFails
    <3>2. CASE Return
      <4>1. phase = "out" /\ phase' = CASE zip /\ ~fin -> "fill"
                                         [] fin -> "msg"
                                         [] OTHER -> IF st = "KEY" THEN "msg" ELSE "null"
        BY <3>2 DEF Return
      <4> QED
        BY <4>1
    <3> QED
      BY <1>10, <3>1, <3>2
  <2>4. BodyAt(fs, w, i)'
    BY <1>2, <2>1, <2>3 DEF BodyAt
  <2> QED
    BY <1>1, <2>2, <2>4
<1> QED
  BY <1>5, <1>6, <1>7, <1>8, <1>9, <1>10 DEF Next

(* The first field of a text that lies in memory is next. *)
LEMMA StartOf ==
  ASSUME NEW fs, NEW e, NEW w, Laid(fs, e, w), pr = w, q = 1, st = "KEY", flds = <<>>,
         slot = [ver |-> VER_UNK, len |-> 0, sum |-> NUL, mtyp |-> <<>>]
  PROVE  ReadTo(fs, e, w, 1)
<1>1. /\ KeptTo(fs)[0] = <<>> /\ \A tag : LastTo(tag, fs, 0) = <<>>
      /\ e[0] = 0 /\ 1 - 1 = 0 /\ 1 \in 1..Len(fs) /\ w \in Seq(Int)
  BY FirstField
<1>2. Unread(w)
  <2>1. Len(w) \in Nat
    BY <1>1
  <2> QED
    BY <1>1, <2>1 DEF Unread
<1>3. AtKey(fs, e, 1)
  BY <1>1 DEF AtKey
<1>4. Found(fs, 1)
  <2>1. Len(flds) = 0 /\ flds \in Seq([tag : Nat, off : Nat])
    OBVIOUS
  <2> QED
    BY <1>1, <2>1 DEF Found
<1>5. Slots(fs, 1)
  <2> DEFINE s == LastTo(MSG_TYPE, fs, 0)
  <2>1. s = <<>> /\ LastTo(BEGIN_STRING, fs, 0) = <<>> /\ LastTo(BODY_LENGTH, fs, 0) = <<>>
    BY <1>1
  <2>2. ParseLen(LastTo(BODY_LENGTH, fs, 0)) = 0 /\ Verify(LastTo(BEGIN_STRING, fs, 0)) = VER_UNK
    BY <2>1, NothingRead
  <2>3. <<>> \in Seq(Int) /\ Len(<<>>) = 0
    OBVIOUS
  <2>4. PICK t \in Seq(Int) : t = <<>>
    BY <2>3, Zenon
  <2>5. 0 \in Lens
    BY <2>4, EmptyNumber DEF Lens
  <2>6. ParseMtyp(s) = <<>>
    BY <2>1, <2>3 DEF ParseMtyp
  <2>7. slot \in [ver : Seq(Int), len : Lens, sum : Int, mtyp : Seq(Int)]
    <3>1. NUL \in Int
      BY DEF NUL
    <3> QED
      BY <2>3, <2>5, <3>1 DEF VER_UNK
  <2>8. slot.ver = VER_UNK /\ slot.len = 0 /\ slot.mtyp = <<>> /\ slot.ver # Comp
    BY VersionAssumption
  <2> QED
    BY <1>1, <2>1, <2>2, <2>6, <2>7, <2>8 DEF Slots
<1> QED
  BY <1>2, <1>3, <1>4, <1>5 DEF ReadTo

LEMMA ParseInvInit == Init => ParseInv
<1> SUFFICES ASSUME Init PROVE ParseInv
  OBVIOUS
<1>1. /\ doc \in Docs /\ chunk \in Chunks /\ phase = "anal" /\ st = "KEY"
      /\ pr = TextOf(doc.head) \o doc.tail /\ q = 1 /\ flds = <<>> /\ fspc = PlainFspc(Len(pr))
      /\ slot = [ver |-> VER_UNK, len |-> 0, sum |-> NUL, mtyp |-> <<>>]
      /\ zip = FALSE /\ fin = FALSE
  BY DEF Init
<1>2. CASE doc.tail = <<>>
  <2> DEFINE w == TextOf(doc.head)
             n == Len(doc.head)
  <2>1. Laid(doc.head, End(doc.head), w) /\ Len(w) = End(doc.head)[n]
    BY <1>1, <1>2, PlainLaid
  <2>2. w \in Seq(Int) /\ n \in Nat \ {0}
    BY <2>1 DEF Laid, IsTextOf
  <2>3. pr = w
    BY <1>1, <1>2, <2>2, ConcatEmptySeq
  <2>4. ReadTo(doc.head, End(doc.head), w, 1)
    BY <1>1, <2>1, <2>3, StartOf
  <2>5. PlainAt(doc.head, End(doc.head), w, 1) /\ 1 \in 1..(n + 1)
    BY <1>1, <2>2, <2>3 DEF PlainAt
  <2> QED
    BY <1>1, <1>2, <2>4, <2>5 DEF ParseInv, PlainInv
<1>3. CASE doc.tail # <<>>
  <2> DEFINE w == TextOf(doc.head) \o doc.tail
  <2>1. Laid(doc.head, End(doc.head), w)
    BY <1>1, <1>3, FixcompLaid
  <2>2. ReadTo(doc.head, End(doc.head), w, 1)
    BY <1>1, <2>1, StartOf
  <2>3. HeadAt(w, 1) /\ 1 \in 1..3
    BY <1>1 DEF HeadAt
  <2> QED
    BY <1>1, <1>3, <2>2, <2>3 DEF ParseInv, HeadInv
<1> QED
  BY <1>2, <1>3

(* No action changes the text or the size of the buffer. *)
LEMMA SameDoc ==
  ASSUME Next
  PROVE  doc' = doc /\ chunk' = chunk /\ (~Fill => fin' = fin) /\ (~StartInflate => zip' = zip)
<1>1. ASSUME Key \/ ValueAtEnd \/ Out \/ InflateFails \/ Return
      PROVE  doc' = doc /\ chunk' = chunk /\ fin' = fin /\ zip' = zip
  BY <1>1 DEF Key, ValueAtEnd, Out, InflateFails, Return
<1>2. ASSUME Value PROVE doc' = doc /\ chunk' = chunk /\ fin' = fin /\ zip' = zip
  BY <1>2, Zenon DEF Value
<1>3. ASSUME StartInflate PROVE doc' = doc /\ chunk' = chunk /\ fin' = fin
  BY <1>3 DEF StartInflate
<1>4. ASSUME Fill PROVE doc' = doc /\ chunk' = chunk /\ zip' = zip
  BY <1>4 DEF Fill
<1> QED
  BY <1>1, <1>2, <1>3, <1>4 DEF Next

LEMMA ParseInvNext == ParseInv /\ [Next]_vars => ParseInv'
<1> SUFFICES ASSUME ParseInv, [Next]_vars PROVE ParseInv'
  OBVIOUS
<1>1. CASE UNCHANGED vars
  <2>1. \A fs, e, w, i : ReadTo(fs, e, w, i) => ReadTo(fs, e, w, i)'
    BY <1>1 DEF ReadTo, Unread, AtKey, AtValue, AtEnd, Found, Held, Slots, Whole, vars
  <2>2. /\ \A fs, e, w, i : PlainAt(fs, e, w, i) => PlainAt(fs, e, w, i)'
        /\ \A w, i : HeadAt(w, i) => HeadAt(w, i)'
        /\ \A fs, w, i : BodyAt(fs, w, i) => BodyAt(fs, w, i)'
    BY <1>1 DEF PlainAt, HeadAt, BodyAt, vars
  <2>3. doc' = doc /\ chunk' = chunk /\ fin' = fin /\ zip' = zip
    BY <1>1 DEF vars
  <2>4. PlainInv => PlainInv'
    BY <2>1, <2>2, <2>3 DEF PlainInv
  <2>5. HeadInv => HeadInv'
    BY <2>1, <2>2, <2>3 DEF HeadInv
  <2>6. BodyInv => BodyInv'
    BY <2>1, <2>2, <2>3 DEF BodyInv
  <2> QED
    BY <2>3, <2>4, <2>5, <2>6 DEF ParseInv
<1>2. CASE Next
  <2>1. /\ doc \in Docs /\ chunk \in Chunks /\ fin \in BOOLEAN /\ (PlainInv \/ HeadInv \/ BodyInv)
    BY DEF ParseInv
  <2>2. doc' = doc /\ chunk' = chunk /\ (~Fill => fin' = fin) /\ (~StartInflate => zip' = zip)
    BY <1>2, SameDoc
  <2>3. doc.intact \in BOOLEAN /\ chunk \in Nat \ {0}
    BY <2>1, DocAssumption, ChunkAssumption
  <2>4. CASE PlainInv
    <3>1. PICK fs, e, w : fs = doc.head /\ e = End(doc.head) /\ w = TextOf(doc.head)
      OBVIOUS
    <3>2. PICK i \in 1..(Len(fs) + 1) : ReadTo(fs, e, w, i) /\ PlainAt(fs, e, w, i)
      BY <2>4, <3>1 DEF PlainInv
    <3>3. doc.tail = <<>> /\ zip = FALSE
      BY <2>4 DEF PlainInv
    <3>4. Laid(fs, e, w) /\ Len(w) = e[Len(fs)] /\ NotComp(fs)
      BY <2>1, <3>1, <3>3, PlainLaid
    <3>5. \E k \in 1..(Len(fs) + 1) : ReadTo(fs, e, w, k)' /\ PlainAt(fs, e, w, k)'
      BY <1>2, <3>2, <3>3, <3>4, PlainStep
    <3>6. ~Fill /\ ~StartInflate
      BY <3>2 DEF PlainAt, Fill, StartInflate
    <3>7. PlainInv'
      BY <2>2, <3>1, <3>3, <3>5, <3>6 DEF PlainInv
    <3> QED
      BY <2>1, <2>2, <3>6, <3>7 DEF ParseInv
  <2>5. CASE HeadInv
    <3>1. PICK fs, e, w : fs = doc.head /\ e = End(doc.head) /\ w = TextOf(doc.head) \o doc.tail
      OBVIOUS
    <3>2. PICK i \in 1..3 : ReadTo(fs, e, w, i) /\ HeadAt(w, i)
      BY <2>5, <3>1 DEF HeadInv
    <3>3. doc.tail # <<>> /\ zip = FALSE
      BY <2>5 DEF HeadInv
    <3>4. /\ Laid(fs, e, w) /\ Len(fs) = 2 /\ Len(w) > e[2]
          /\ TagOf(fs[1]) = BEGIN_STRING /\ fs[1].val = Comp
          /\ TagOf(fs[2]) = BODY_LENGTH /\ ParseLen(fs[2].val) > 0
      BY <2>1, <3>1, <3>3, FixcompLaid
    <3>5. ~Fill
      BY <3>2 DEF HeadAt, Fill
    <3>6. CASE ~StartInflate
      <4>1. \E k \in 1..3 : ReadTo(fs, e, w, k)' /\ HeadAt(w, k)'
        BY <1>2, <3>2, <3>3, <3>4, <3>6, HeadStep
      <4>2. HeadInv'
        BY <2>2, <3>1, <3>3, <3>6, <4>1 DEF HeadInv
      <4> QED
        BY <2>1, <2>2, <3>5, <4>2 DEF ParseInv
    <3>7. CASE StartInflate
      <4>1. PICK gs, g, x : gs = doc.body /\ g = End(doc.body) /\ x = TextOf(doc.body)
        OBVIOUS
      <4>2. Laid(gs, g, x)
        BY <2>1, <3>3, <4>1, FixcompLaid
      <4>3. ReadTo(gs, g, x, 1)' /\ BodyAt(gs, x, 1)'
        BY <3>2, <3>4, <3>7, <4>1, <4>2, StartStep
      <4>4. zip' = TRUE /\ 1 \in 1..(Len(gs) + 1)
        BY <3>7, <4>2, FirstField DEF StartInflate
      <4>5. BodyInv'
        BY <2>2, <3>3, <4>1, <4>3, <4>4 DEF BodyInv
      <4> QED
        BY <2>1, <2>2, <3>5, <4>5 DEF ParseInv
    <3> QED
      BY <3>6, <3>7
  <2>6. CASE BodyInv
    <3>1. PICK fs, e, w : fs = doc.body /\ e = End(doc.body) /\ w = TextOf(doc.body)
      OBVIOUS
    <3>2. PICK i \in 1..(Len(fs) + 1) : ReadTo(fs, e, w, i) /\ BodyAt(fs, w, i)
      BY <2>6, <3>1 DEF BodyInv
    <3>3. doc.tail # <<>> /\ zip = TRUE
      BY <2>6 DEF BodyInv
    <3>4. Laid(fs, e, w) /\ Len(w) = e[Len(fs)] /\ NotComp(fs) /\ IsMessage(fs)
      BY <2>1, <3>1, <3>3, FixcompLaid
    <3>5. ~StartInflate
      BY <3>2 DEF BodyAt, StartInflate
    <3>6. CASE ~Fill
      <4>1. \E k \in 1..(Len(fs) + 1) : ReadTo(fs, e, w, k)' /\ BodyAt(fs, w, k)'
        BY <1>2, <2>1, <3>2, <3>3, <3>4, <3>6, BodyStep
      <4>2. BodyInv'
        BY <2>2, <3>1, <3>3, <3>5, <4>1 DEF BodyInv
      <4> QED
        BY <2>1, <2>2, <3>6, <4>2 DEF ParseInv
    <3>7. CASE Fill
      <4>1. ReadTo(fs, e, w, i)' /\ BodyAt(fs, w, i)' /\ fin' \in BOOLEAN
        BY <2>3, <3>1, <3>2, <3>3, <3>4, <3>7, FillStep
      <4>2. BodyInv'
        BY <2>2, <3>1, <3>2, <3>3, <3>5, <4>1 DEF BodyInv
      <4> QED
        BY <2>1, <2>2, <4>1, <4>2 DEF ParseInv
    <3> QED
      BY <3>6, <3>7
  <2> QED
    BY <2>1, <2>4, <2>5, <2>6
<1> QED
  BY <1>1, <1>2

(* Wherever the parser stands, the fields before that are in the message. *)
THEOREM ReadSoFar == Spec => []ParseInv
<1> QED
  BY ParseInvInit, ParseInvNext, PTL DEF Spec

-----------------------------------------------------------------------------
(* What follows *)

(* A field that is kept is a field of the text. *)
LEMMA KeptClean ==
  ASSUME NEW fs, NEW e, NEW w, Laid(fs, e, w)
  PROVE  \A x \in 1..Len(Kept(fs)) : Clean(Kept(fs)[x])
<1> DEFINE n == Len(fs)
           g == KeptTo(fs)
           S == {k \in Nat : k <= n => \A x \in 1..Len(g[k]) : Clean(g[k][x])}
<1>1. n \in Nat \ {0} /\ \A i \in 1..n : Clean(fs[i])
  BY DEF Laid
<1>2. /\ g \in [0..n -> Seq(Fields)] /\ g[0] = <<>> /\ g[n] = Kept(fs)
      /\ \A k \in 1..n : g[k] = IF Plain(fs[k]) THEN Append(g[k - 1], fs[k]) ELSE g[k - 1]
  <2>1. 1 \in 1..(Len(fs) + 1)
    BY <1>1
  <2> QED
    BY <2>1, KeptFields DEF KeptBy
<1> HIDE DEF g, n
<1>3. 0 \in S
  <2>1. Len(g[0]) = 0
    BY <1>2
  <2> QED
    BY <2>1
<1>4. ASSUME NEW k \in 0..(n - 1), k \in S PROVE k + 1 \in S
  <2>1. k + 1 \in 1..n /\ (k + 1) - 1 = k /\ k <= n /\ k \in 0..n /\ k + 1 \in Nat
    BY <1>1
  <2>2. /\ g[k] \in Seq(Fields) /\ Clean(fs[k + 1]) /\ fs[k + 1] \in Fields
        /\ \A x \in 1..Len(g[k]) : Clean(g[k][x])
    BY <1>1, <1>2, <1>4, <2>1 DEF Clean
  <2>3. g[k + 1] = Append(g[k], fs[k + 1]) \/ g[k + 1] = g[k]
    BY <1>2, <2>1, Zenon
  <2>4. CASE g[k + 1] = g[k]
    BY <2>1, <2>2, <2>4
  <2>5. CASE g[k + 1] = Append(g[k], fs[k + 1])
    <3> DEFINE h == Append(g[k], fs[k + 1])
    <3>1. /\ Len(h) = Len(g[k]) + 1 /\ h[Len(g[k]) + 1] = fs[k + 1] /\ Len(g[k]) \in Nat
          /\ \A x \in 1..Len(g[k]) : h[x] = g[k][x]
      BY <2>2, AppendProperties
    <3> HIDE DEF h
    <3>2. ASSUME NEW x \in 1..Len(h) PROVE Clean(h[x])
      <4>1. x \in 1..Len(g[k]) \/ x = Len(g[k]) + 1
        BY <3>1
      <4> QED
        BY <2>2, <3>1, <4>1
    <3>3. \A x \in 1..Len(g[k + 1]) : Clean(g[k + 1][x])
      BY <2>5, <3>2 DEF h
    <3> QED
      BY <2>1, <3>3
  <2> QED
    BY <2>3, <2>4, <2>5
<1>5. n \in S
  <2> HIDE DEF S
  <2>1. \A k \in 0..n : k \in S
    BY <1>1, <1>3, <1>4, UpTo
  <2> QED
    BY <1>1, <2>1
<1>6. n <= n
  BY <1>1
<1> QED
  BY <1>2, <1>5, <1>6

(* A value that is held is the C string at its place. *)
LEMMA HeldIsStr ==
  ASSUME NEW o, NEW v \in Seq(Int), NUL \notin Range(v), Held(o, v), NEW w, Unread(w)
  PROVE  StrAt(o) = v
<1> DEFINE l == Len(v)
           z == Len(pr)
           s == SubSeq(pr, o, z)
           I == {k \in 1..Len(s) : s[k] = NUL}
<1>1. /\ pr \in Seq(Int) /\ z \in Nat /\ q \in Nat /\ q <= z + 1
  BY DEF Unread
<1>2. /\ o \in Nat \ {0} /\ l \in Nat /\ o + l < q
      /\ \A x \in 1..l : pr[o + x - 1] = v[x]
      /\ pr[o + l] = NUL
  BY DEF Held
<1>3. \A x \in 1..l : v[x] # NUL
  BY DEF Range
<1> HIDE DEF l, z
<1>4. /\ Len(s) = z - o + 1 /\ \A k \in 1..(z - o + 1) : s[k] = pr[o + k - 1]
  <2>1. \A k \in o..z : pr[k] \in Int
    BY <1>1, <1>2 DEF z
  <2>2. o \in Int /\ z \in Int /\ o <= z
    BY <1>1, <1>2
  <2>3. /\ Len(s) = IF o <= z THEN z - o + 1 ELSE 0
        /\ \A k \in 1..(z - o + 1) : s[k] = pr[o + k - 1]
    BY <2>1, <2>2, SubSeqProperties
  <2> QED
    BY <2>2, <2>3
<1> HIDE DEF s
<1>5. l + 1 \in I
  <2>1. l + 1 \in 1..(z - o + 1) /\ o + (l + 1) - 1 = o + l
    BY <1>1, <1>2
  <2> QED
    BY <1>2, <1>4, <2>1
<1>6. ASSUME NEW k \in I PROVE k \in Nat /\ l + 1 <= k
  <2>1. k \in 1..(z - o + 1) /\ s[k] = NUL
    BY <1>4
  <2>2. k \in 1..l => FALSE
    BY <1>2, <1>3, <1>4, <2>1
  <2> QED
    BY <1>1, <1>2, <2>1, <2>2
<1>7. Min(I) = l + 1
  <2>1. Min(I) \in I /\ \A k \in I : Min(I) <= k
    BY <1>5, <1>6 DEF Min
  <2>2. Min(I) <= l + 1 /\ l + 1 <= Min(I) /\ Min(I) \in Nat
    BY <1>5, <1>6, <2>1
  <2> QED
    BY <1>2, <2>2
<1>8. SelectInSeq(s, LAMBDA c : c = NUL) = l + 1
  <2>1. I # {}
    BY <1>5
  <2> QED
    BY <1>7, <2>1, Zenon DEF SelectInSeq
<1>9. StrAt(o) = SubSeq(pr, o, o + (l + 1) - 2)
  <2>1. l + 1 # 0
    BY <1>2
  <2> QED
    BY <1>8, <2>1, Zenon DEF StrAt, s, z
<1>10. o + (l + 1) - 2 = o + l - 1 /\ o + l - 1 \in Nat
  BY <1>2
<1>11. SubSeq(pr, o, o + l - 1) = v
  BY <1>2, <1>10, Cut DEF l
<1> QED
  BY <1>9, <1>10, <1>11

(* All fields have been read. *)
LEMMA AllRead ==
  ASSUME NEW fs, NEW e, NEW w, Laid(fs, e, w), ReadTo(fs, e, w, Len(fs) + 1)
  PROVE  /\ [x \in 1..nflds |-> [tag |-> flds[x].tag, val |-> StrAt(flds[x].off)]] =
              [x \in DOMAIN Kept(fs) |-> [tag |-> TagOf(Kept(fs)[x]), val |-> Kept(fs)[x].val]]
         /\ slot.mtyp = ParseMtyp(LastVal(MSG_TYPE, fs))
         /\ slot.ver \in {VER_UNK, Verify(LastVal(BEGIN_STRING, fs))}
         /\ slot.len \in {0, ParseLen(LastVal(BODY_LENGTH, fs))}
         /\ Whole => /\ slot.ver = Verify(LastVal(BEGIN_STRING, fs))
                     /\ slot.len = ParseLen(LastVal(BODY_LENGTH, fs))
<1> DEFINE g == Kept(fs)
           n == Len(fs)
<1>1. n \in Nat \ {0} /\ (n + 1) - 1 = n
  BY DEF Laid
<1>2. /\ g \in Seq(Fields) /\ KeptTo(fs)[n] = g
  <2>1. n + 1 \in 1..(n + 1) /\ n \in 0..n
    BY <1>1
  <2>2. KeptTo(fs)[n] = g
    BY <2>1, KeptFields DEF KeptBy
  <2>3. KeptTo(fs)[(n + 1) - 1] \in Seq(Fields)
    BY <2>1, KeptFields
  <2> QED
    BY <1>1, <2>2, <2>3
<1>3. Unread(w) /\ Found(fs, n + 1) /\ Slots(fs, n + 1)
  BY DEF ReadTo
<1>4. /\ flds \in Seq([tag : Nat, off : Nat]) /\ Len(flds) = Len(g)
      /\ \A x \in 1..Len(flds) : flds[x].tag = TagOf(g[x]) /\ Held(flds[x].off, g[x].val)
  BY <1>1, <1>2, <1>3 DEF Found
<1>5. \A x \in 1..Len(g) : Clean(g[x])
  BY KeptClean
<1> HIDE DEF g
<1>6. ASSUME NEW x \in 1..Len(g) PROVE StrAt(flds[x].off) = g[x].val
  <2> DEFINE o == flds[x].off
             v == g[x].val
  <2>1. v \in Seq(Int) /\ NUL \notin Range(v)
    BY <1>5 DEF Clean, Fields
  <2>2. Held(o, v)
    BY <1>4
  <2> HIDE DEF o, v
  <2>3. StrAt(o) = v
    BY <1>3, <2>1, <2>2, HeldIsStr
  <2> QED
    BY <2>3 DEF o, v
<1>7. DOMAIN g = 1..Len(g) /\ nflds = Len(g)
  BY <1>2, <1>4 DEF nflds
<1>8. [x \in 1..nflds |-> [tag |-> flds[x].tag, val |-> StrAt(flds[x].off)]] =
         [x \in DOMAIN g |-> [tag |-> TagOf(g[x]), val |-> g[x].val]]
  BY <1>4, <1>6, <1>7
<1>9. \A tag : LastTo(tag, fs, n) = LastVal(tag, fs)
  BY <1>1, LastSteps
<1>10. /\ slot.mtyp = ParseMtyp(LastTo(MSG_TYPE, fs, n))
       /\ slot.ver \in {VER_UNK, Verify(LastTo(BEGIN_STRING, fs, n))}
       /\ slot.len \in {0, ParseLen(LastTo(BODY_LENGTH, fs, n))}
       /\ Whole => /\ slot.ver = Verify(LastTo(BEGIN_STRING, fs, n))
                   /\ slot.len = ParseLen(LastTo(BODY_LENGTH, fs, n))
  BY <1>1, <1>3 DEF Slots
<1> QED
  BY <1>8, <1>9, <1>10 DEF g

(* When a message is returned, all fields of what was sent have been read. *)
LEMMA MessageRead ==
  ASSUME ParseInv, phase = "msg"
  PROVE  /\ \E e, w : Laid(Payload, e, w) /\ ReadTo(Payload, e, w, Len(Payload) + 1)
         /\ doc.tail = <<>> => zip = FALSE
<1>1. doc \in Docs /\ (PlainInv \/ HeadInv \/ BodyInv)
  BY DEF ParseInv
<1>2. CASE PlainInv
  <2>1. doc.tail = <<>> /\ zip = FALSE
    BY <1>2 DEF PlainInv
  <2>2. Laid(doc.head, End(doc.head), TextOf(doc.head)) /\ Payload = doc.head
    BY <1>1, <2>1, PlainLaid DEF Payload
  <2>3. ReadTo(doc.head, End(doc.head), TextOf(doc.head), Len(doc.head) + 1)
    BY <1>2 DEF PlainInv, PlainAt
  <2> QED
    BY <2>1, <2>2, <2>3
<1>3. CASE HeadInv
  BY <1>3 DEF HeadInv, HeadAt
<1>4. CASE BodyInv
  <2>1. doc.tail # <<>>
    BY <1>4 DEF BodyInv
  <2>2. Laid(doc.body, End(doc.body), TextOf(doc.body)) /\ Payload = doc.body
    BY <1>1, <2>1, FixcompLaid DEF Payload
  <2>3. ReadTo(doc.body, End(doc.body), TextOf(doc.body), Len(doc.body) + 1)
    BY <1>4 DEF BodyInv, BodyAt
  <2> QED
    BY <2>1, <2>2, <2>3
<1> QED
  BY <1>1, <1>2, <1>3, <1>4

(* Wherever a compressed text is cut into chunks, and whether it is         *)
(* compressed at all, the message that make_fixc_from_fix returns holds the *)
(* fields of the text in their order, each tag with its own value.          *)
THEOREM TextIsParsed == Spec => []ParsedIsDoc
<1>1. ParseInv => ParsedIsDoc
  <2> SUFFICES ASSUME ParseInv, phase = "msg"
               PROVE  /\ [x \in 1..nflds |-> [tag |-> flds[x].tag, val |-> StrAt(flds[x].off)]] =
                           [x \in DOMAIN Kept(Payload) |->
                              [tag |-> TagOf(Kept(Payload)[x]), val |-> Kept(Payload)[x].val]]
                      /\ slot.mtyp = ParseMtyp(LastVal(MSG_TYPE, Payload))
    BY Zenon DEF ParsedIsDoc
  <2> QED
    BY MessageRead, AllRead
<1> QED
  BY <1>1, ReadSoFar, PTL

(* The version and the length of a plain text, or of one that inflates     *)
(* into one chunk, are in its message, as far as these are known and fit;  *)
(* any other compressed text has these or none.                            *)
THEOREM HeaderStays == Spec => []HeaderKept
<1>1. ParseInv => HeaderKept
  <2> SUFFICES ASSUME ParseInv, phase = "msg" PROVE HeaderKept
    BY DEF HeaderKept
  <2> DEFINE ver == LastVal(BEGIN_STRING, Payload)
             len == LastVal(BODY_LENGTH, Payload)
             one == doc.tail = <<>> \/ Len(TextOf(doc.body)) < chunk
  <2>1. one => Whole
    BY MessageRead DEF Whole
  <2>2. /\ slot.ver \in {VER_UNK, Verify(ver)} /\ slot.len \in {0, ParseLen(len)}
        /\ Whole => slot.ver = Verify(ver) /\ slot.len = ParseLen(len)
    BY MessageRead, AllRead
  <2>3. /\ ver \in Versions => Verify(ver) = ver
        /\ ver \notin Versions => Verify(ver) = VER_UNK
    BY DEF Verify
  <2>4. StrToL(len) \in (-IntMax - 1)..IntMax => ParseLen(len) = StrToL(len)
    BY InRange DEF ParseLen
  <2> HIDE DEF ver, len, one
  <2>5. slot.ver = ver \/ (slot.ver = VER_UNK /\ (one => ver \notin Versions))
    BY <2>1, <2>2, <2>3
  <2>6. StrToL(len) \in (-IntMax - 1)..IntMax =>
          slot.len = StrToL(len) \/ (slot.len = 0 /\ ~one)
    BY <2>1, <2>2, <2>4
  <2> QED
    BY <2>5, <2>6 DEF HeaderKept, ver, len, one
<1> QED
  BY <1>1, ReadSoFar, PTL

(* make_fixc_from_fix returns nothing only for a text that does not         *)
(* inflate, or for a plain one that the check sum does not end.             *)
THEOREM OnlyForCause == Spec => []RefusedForCause
<1>1. ParseInv => RefusedForCause
  <2> SUFFICES ASSUME ParseInv, Ended
               PROVE  (phase = "null") =
                        (IF doc.tail = <<>> THEN TagOf(Last(doc.head)) # CHECK_SUM ELSE ~doc.intact)
    BY DEF RefusedForCause
  <2>1. phase = "msg" \/ phase = "null"
    BY DEF Ended
  <2>2. doc \in Docs /\ (PlainInv \/ HeadInv \/ BodyInv)
    BY DEF ParseInv
  <2>3. CASE PlainInv
    <3>1. /\ doc.tail = <<>>
          /\ phase = "msg" => TagOf(Last(doc.head)) = CHECK_SUM
      BY <2>3 DEF PlainInv, PlainAt
    <3>2. phase = "null" => TagOf(Last(doc.head)) # CHECK_SUM
      <4> SUFFICES ASSUME phase = "null" PROVE TagOf(Last(doc.head)) # CHECK_SUM
        OBVIOUS
      <4>1. Len(doc.head) # Len(doc.head) + 1
        <5>1. Len(doc.head) \in Nat
          BY <2>2, <3>1, PlainLaid DEF Laid
        <5> QED
          BY <5>1
      <4> QED
        BY <2>3, <4>1 DEF PlainInv, PlainAt
    <3> QED
      BY <2>1, <3>1, <3>2
  <2>4. CASE HeadInv
    BY <2>1, <2>4 DEF HeadInv, HeadAt
  <2>5. CASE BodyInv
    <3>1. /\ doc.tail # <<>> /\ doc.intact \in BOOLEAN
          /\ phase = "msg" => doc.intact
          /\ phase = "null" => ~doc.intact
      BY <2>2, <2>5, DocAssumption DEF BodyInv, BodyAt
    <3> QED
      BY <2>1, <3>1
  <2> QED
    BY <2>2, <2>3, <2>4, <2>5
<1> QED
  BY <1>1, ReadSoFar, PTL

(* Every field of a plain text takes the room of a slot. *)
LEMMA RoomOfFields ==
  ASSUME NEW fs, NEW e, NEW w, Laid(fs, e, w), \A f \in Range(fs) : Len(FieldText(f)) >= PlainRate
  PROVE  PlainRate * Len(fs) <= e[Len(fs)]
<1> DEFINE n == Len(fs)
           S == {k \in Nat : k <= n => PlainRate * k <= e[k]}
<1>1. /\ n \in Nat \ {0} /\ e \in [0..n -> Nat] /\ e[0] = 0
      /\ \A k \in 1..n : e[k] = e[k - 1] + Len(FieldText(fs[k]))
      /\ \A k \in 1..n : fs[k] \in Fields /\ fs[k] \in Range(fs)
  BY DEF Laid, IsEnds, Clean, Range
<1>2. PlainRate \in Nat
  BY RateAssumption
<1> HIDE DEF n
<1>3. 0 \in S
  BY <1>1, <1>2
<1>4. ASSUME NEW k \in 0..(n - 1), k \in S PROVE k + 1 \in S
  <2> DEFINE a == e[k]
             b == e[k + 1]
             l == Len(FieldText(fs[k + 1]))
  <2>1. k + 1 \in 1..n /\ (k + 1) - 1 = k /\ k <= n /\ k \in 0..n /\ k + 1 \in 0..n
    BY <1>1
  <2>2. a \in Nat /\ b \in Nat /\ b = a + l /\ PlainRate * k <= a
    <3>1. a \in Nat /\ b \in Nat
      BY <1>1, <2>1
    <3>2. b = e[(k + 1) - 1] + l
      BY <1>1, <2>1
    <3> QED
      BY <1>4, <2>1, <3>1, <3>2
  <2>3. l \in Nat /\ l >= PlainRate
    BY <1>1, <2>1, FieldBytes
  <2> HIDE DEF a, b, l
  <2>4. PlainRate * (k + 1) = PlainRate * k + PlainRate /\ PlainRate * k \in Nat
    BY <1>2
  <2>5. PlainRate * (k + 1) <= b
    BY <1>2, <2>2, <2>3, <2>4
  <2> QED
    BY <2>1, <2>5 DEF b
<1>5. n \in S
  <2> HIDE DEF S
  <2>1. \A k \in 0..n : k \in S
    BY <1>1, <1>3, <1>4, UpTo
  <2> QED
    BY <1>1, <2>1
<1>6. PlainRate * n <= e[n]
  BY <1>1, <1>5
<1> QED
  BY <1>6 DEF n

(* So many slots are reserved. *)
LEMMA SlotsForAll ==
  ASSUME NEW n \in Nat, NEW z \in Nat, PlainRate * n <= z
  PROVE  PlainFspc(z) \in Nat /\ n <= PlainFspc(z)
<1>1. PlainRate \in Nat \ {0} /\ FspcRnd \in Nat \ {0}
  BY RateAssumption
<1> DEFINE d == z \div PlainRate
<1>2. d \in Nat /\ z < PlainRate * (d + 1)
  BY <1>1
<1> HIDE DEF d
<1>3. n <= d
  <2> SUFFICES ASSUME d + 1 <= n PROVE FALSE
    BY <1>2
  <2>1. PlainRate * (d + 1) <= PlainRate * n
    <3> DEFINE x == n - (d + 1)
    <3>1. x \in Nat /\ n = (d + 1) + x
      BY <1>2
    <3> HIDE DEF x
    <3>2. PlainRate * ((d + 1) + x) = PlainRate * (d + 1) + PlainRate * x
      BY <1>1, <1>2, <3>1
    <3>3. PlainRate * x \in Nat /\ PlainRate * (d + 1) \in Nat
      BY <1>1, <1>2, <3>1
    <3> QED
      BY <3>1, <3>2, <3>3
  <2>2. PlainRate * (d + 1) \in Nat /\ PlainRate * n \in Nat
    BY <1>1, <1>2
  <2> QED
    BY <1>2, <2>1, <2>2
<1>4. Round(d, FspcRnd) \in Nat /\ d <= Round(d, FspcRnd)
  BY <1>1, <1>2, RoundUp
<1>5. PlainFspc(z) = Round(d, FspcRnd)
  BY DEF PlainFspc, d
<1> QED
  BY <1>2, <1>3, <1>4, <1>5

(* anal() never writes behind the slots reserved for a plain text. *)
THEOREM PlainSlots == Spec => []SlotsEnough
<1>1. ParseInv => SlotsEnough
  <2> SUFFICES ASSUME ParseInv, doc.tail = <<>>, phase = "anal", st = "VALUE" \/ Ends(EQ) # {}
               PROVE  HasSlot
    BY DEF SlotsEnough
  <2>1. doc \in Docs /\ PlainInv
    BY DEF ParseInv, HeadInv, BodyInv
  <2> DEFINE fs == doc.head
             e  == End(doc.head)
             w  == TextOf(doc.head)
             n  == Len(fs)
  <2>2. Laid(fs, e, w) /\ Len(w) = e[n] /\ n \in Nat \ {0} /\ Len(w) \in Nat
    BY <2>1, PlainLaid DEF Laid, IsTextOf
  <2>3. PICK i \in 1..(n + 1) : ReadTo(fs, e, w, i) /\ PlainAt(fs, e, w, i)
    BY <2>1 DEF PlainInv
  <2> HIDE DEF fs, e, w, n
  <2>4. i # n + 1
    <3> SUFFICES ASSUME i = n + 1 PROVE FALSE
      OBVIOUS
    <3>1. AtEnd(fs, e, i) /\ st = "KEY"
      BY <2>2, <2>3, KeyAt DEF n
    <3>2. q = Len(pr) + 1 /\ Len(pr) \in Nat
      BY <2>2, <2>3 DEF PlainAt, n
    <3>3. Ends(EQ) = {}
      BY <3>2 DEF Ends
    <3> QED
      BY <3>1, <3>3
  <2>5. Len(flds) \in Nat /\ Len(flds) < n
    <3>1. Len(flds) = Len(KeptTo(fs)[i - 1])
      BY <2>3 DEF ReadTo, Found
    <3>2. Len(KeptTo(fs)[i - 1]) \in Nat /\ Len(KeptTo(fs)[i - 1]) <= i - 1
      BY <2>2, <2>3, KeptFields DEF n
    <3> QED
      BY <2>2, <2>4, <3>1, <3>2
  <2>6. PlainRate * n <= Len(w)
    <3>1. \A f \in Range(fs) : Len(FieldText(f)) >= PlainRate
      BY <2>1, RateAssumption DEF fs
    <3> QED
      BY <2>2, <3>1, RoomOfFields DEF n
  <2>7. PlainFspc(Len(w)) \in Nat /\ n <= PlainFspc(Len(w))
    BY <2>2, <2>6, SlotsForAll
  <2>8. fspc = PlainFspc(Len(w))
    BY <2>3 DEF PlainAt
  <2> QED
    BY <2>2, <2>5, <2>7, <2>8 DEF HasSlot, nflds
<1> QED
  BY <1>1, ReadSoFar, PTL

=============================================================================
