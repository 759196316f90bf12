------------------------------ MODULE FixRender ------------------------------
(***************************************************************************)
(* fixc_render_fix and fixc_render_fix_rndr, fix.c: a message, whatever    *)
(* has been done to it (MsgStore), is written as a FIX text into a buffer, *)
(* the caller's or one the library maps, and that is released again.       *)
(*                                                                         *)
(* The body is written first, behind room left for tags 8 and 9, because   *)
(* its length goes in front of it; then the two are moved together.  The  *)
(* buffer is the set of the pieces that lie in it.                         *)
(***************************************************************************)
EXTENDS MsgStore, Sequences, SequencesExt

CONSTANTS
  VerLen,      \* [versions -> Nat], the lengths of their names (__ver_fixify)
  LenRnd,      \* 8, the rounding of the room for tag 9
  PtrSize,     \* sizeof(void*)
  CallerSizes  \* sizes of the buffers that callers of fixc_render_fix have

(* The longest name of a version is FIX.5.0.SP2. *)
ASSUME NameAssumption == \A v \in DOMAIN VerLen : VerLen[v] \in 0..11
ASSUME RoomAssumption == LenRnd = 8 /\ PtrSize \in {4, 8} /\ CallerSizes \subseteq Nat

VARIABLES
  rpc,   \* "edit", "type", "fields", "length", "sum", "done" or "freed"
  own,   \* the buffer is the library's (fixc_render_fix_rndr)
  z,     \* the size of the buffer
  bsz, hdrz, lenz, totz, blen, j,   \* as in the code; j is i
  off,   \* where in the library's buffer the text begins
  text,  \* the pieces in the buffer, placed from where the text begins
  past   \* something was written outside the buffer

rndrvars == <<rpc, own, z, bsz, hdrz, lenz, totz, blen, j, off, text, past>>

-----------------------------------------------------------------------------
(* fixc_render_fld and its conversions, in a room of the given size *)

Tens == <<10, 100, 1000, 10000, 100000, 1000000, 10000000, 100000000, 1000000000>>

(* An int has ten at most. *)
Digits(n) == CHOOSE d \in 1..10 : (d = 10 \/ n < Tens[d]) /\ (d = 1 \/ Tens[d - 1] <= n)

(* A negative one has a sign as well. *)
Width(n) == IF n < 0 THEN 1 + Digits(-n) ELSE Digits(n)

(* __ui16tostr: "tag=", which is left out where there is no room, and loses *)
(* its first digit where there is room for three of four.                  *)
Key(tag, room) ==
  LET d == Digits(tag)
  IN  CASE room >= d + 1          -> [n |-> d + 1, whole |-> TRUE]
        [] d = 4 /\ room = 4      -> [n |-> 4, whole |-> FALSE]
        [] OTHER                  -> [n |-> 0, whole |-> FALSE]

(* The versions without a name have the empty one. *)
NameLen(v) == IF v \in DOMAIN VerLen THEN VerLen[v] ELSE 0

MtypLen(u) == (IF u \div 256 = 0 THEN 0 ELSE 1) + (IF u % 256 = 0 THEN 0 ELSE 1)

ValLen(fld) ==
  CASE fld.typ = "OFF"    -> Size[m.pr[fld.u]]
    [] fld.typ = "VER"    -> NameLen(fld.u)
    [] fld.typ = "UCHAR"  -> 3
    [] fld.typ = "INT"    -> Width(fld.u)
    [] fld.typ = "MSGTYP" -> MtypLen(fld.u)
    [] fld.typ = "CTXT"   -> 0

(* Mutant: no room is kept for the separator. *)
RenderFldTight(fld, room) ==
  LET key  == Key(fld.tag, room)
      rest == room - key.n
      n    == key.n + ValLen(fld) + 1
  IN  CASE fld.typ = "OFF" /\ ValLen(fld) > rest ->
             [n |-> 0, key |-> key, whole |-> FALSE, past |-> room = 0]
        [] fld.typ = "UCHAR" /\ rest < 3 ->
             [n |-> key.n + 1, key |-> key, whole |-> FALSE, past |-> rest = 0]
        [] OTHER -> [n |-> n, key |-> key, whole |-> key.whole /\ n <= room, past |-> n > room]

(* "tag=value|": n bytes on.  A text is only written if it fits, a check   *)
(* sum neither; other values run over the end, or count as if they had.    *)
RenderFld(fld, room) ==
  LET key  == Key(fld.tag, room)
      rest == room - key.n
      n    == key.n + ValLen(fld) + 1
  IN  CASE fld.typ = "OFF" /\ ValLen(fld) + 1 > rest ->
             [n |-> 0, key |-> key, whole |-> FALSE, past |-> room = 0]
        [] fld.typ = "UCHAR" /\ rest < 3 ->
             [n |-> key.n + 1, key |-> key, whole |-> FALSE, past |-> rest = 0]
        [] OTHER -> [n |-> n, key |-> key, whole |-> key.whole /\ n <= room, past |-> n > room]

-----------------------------------------------------------------------------
(* The buffer *)

Piece(at, n, is) == [at |-> at, n |-> n, is |-> is]

Apart(x, p) == x.at + x.n <= p.at \/ p.at + p.n <= x.at

(* A piece is written: those it runs into are gone. *)
Store(t, p) == {x \in t : Apart(x, p)} \union {p}

(* Mutant: the body is moved onto the separator in front of it. *)
MoveBodyOnto(t, from, to) ==
  {x \in t : x.at + x.n < to}
    \union {[x EXCEPT !.at = @ - (from - to) - 1] : x \in {y \in t : y.at >= from}}

(* memmove() of what is from `from' on to `to', which is not behind it.    *)
MoveBody(t, from, to) ==
  {x \in t : x.at + x.n <= to}
    \union {[x EXCEPT !.at = @ - (from - to)] : x \in {y \in t : y.at >= from}}

Is(what, n) == <<what, n>>
Junk == Is("junk", 0)

(* A field is written at o. *)
Written(t, o, r, is) == IF r.n = 0 THEN t ELSE Store(t, Piece(o, r.n, IF r.whole THEN is ELSE Junk))

-----------------------------------------------------------------------------
RndrInit ==
  /\ Init
  /\ rpc = "edit" /\ own = FALSE /\ z = 0 /\ bsz = 0 /\ hdrz = 0 /\ lenz = 0 /\ totz = 0
  /\ blen = 0 /\ j = 0 /\ off = 0 /\ text = {} /\ past = FALSE

Edit == rpc = "edit" /\ InSpace /\ Next /\ UNCHANGED rndrvars

(* Mutant: no room is made for texts. *)
EstimateNoTexts == (4 + m.nflds) * 8 + 16 + 3

(* The size of the library's buffer *)
Estimate == (4 + m.nflds) * 8 + m.pz + 16 + 3

(* Where tags 8 and 9 are not set, they are texts at offset 0: the first   *)
(* text there is.  Without any, or at an offset amid one, strlen() finds   *)
(* what this model knows nothing of.                                       *)
Printable == \A t \in {BEGIN_STRING, BODY_LENGTH} : m.slot[t].typ = "OFF" => 0 \in DOMAIN m.pr

F8 == [m.slot[BEGIN_STRING] EXCEPT !.tag = BEGIN_STRING]
F9 == [m.slot[BODY_LENGTH] EXCEPT !.tag = BODY_LENGTH]

(* Mutant: the room for the length is what its old value took. *)
RoomAsWas(n) == n

(* The room left for tag 9 *)
Room(n) == Round(n, LenRnd)

RenderHead(mine, size) ==
  LET h == RenderFld(F8, size)
      l == RenderFld(F9, size - h.n)
  IN  /\ rpc = "edit" /\ InSpace /\ Printable
      /\ own' = mine /\ z' = size
      /\ m' = [m EXCEPT !.slot[BEGIN_STRING] = F8, !.slot[BODY_LENGTH] = F9]
      /\ hdrz' = h.n /\ lenz' = Room(l.n) /\ totz' = Round(h.n + lenz', PtrSize)
      /\ bsz' = size - totz' /\ bsz' >= 0
      /\ text' = LET t == Written({}, 0, h, Is("8=", 0))
                 IN  IF l.key.whole THEN Store(t, Piece(h.n, 2, Is("9=", 0))) ELSE t
      /\ past' = (h.past \/ l.past)
      /\ rpc' = "type" /\ UNCHANGED <<blen, j, off>>

(* A field goes behind the body as it is, z' being set. *)
Render(fld, is, end) ==
  LET r == RenderFld(fld, end - blen)
  IN  /\ text' = Written(text, totz + blen, r, is)
      /\ blen' = blen + r.n
      /\ past' = (past \/ r.past \/ totz + blen' > z')

RenderType ==
  /\ rpc = "type" /\ UNCHANGED z
  /\ Render(m.f35, Is("35=", 0), bsz)
  /\ rpc' = "fields" /\ UNCHANGED <<m, own, bsz, hdrz, lenz, totz, j, off>>

(* resz_rndr, in the last tenth: twice what is left behind the room, which *)
(* itself is forgotten.                                                    *)
Resized == IF own /\ ((bsz - blen) * 10) \div bsz < 1 THEN 2 * bsz ELSE bsz

RenderField ==
  /\ rpc = "fields" /\ j < m.nflds /\ blen < bsz
  /\ bsz' = Resized /\ z' = IF bsz' = bsz THEN z ELSE bsz'
  /\ Render(m.flds[j], Is("field", j), bsz')
  /\ j' = j + 1
  /\ UNCHANGED <<m, rpc, own, hdrz, lenz, totz, off>>

EndFields ==
  /\ rpc = "fields" /\ (j = m.nflds \/ blen >= bsz)
  /\ rpc' = "length" /\ bsz' = bsz + totz
  /\ UNCHANGED <<m, own, z, hdrz, lenz, totz, blen, j, off, text, past>>

(* The length goes to tag 9, and tags 8 and 9 and the body are moved       *)
(* together: the body in a caller's buffer, in the library's the tags.     *)
PasteLength ==
  LET d    == Digits(blen - 1)
      fits == lenz = 0 \/ d <= lenz - 2
      hz   == hdrz + 2 + d
      num  == Store(text, Piece(hdrz + 2, d + 1, IF fits THEN Is("length", blen - 1) ELSE Junk))
  IN  /\ rpc = "length"
      /\ text' = MoveBody(num, totz, hz + 1)
      /\ off' = IF own THEN totz - hz - 1 ELSE 0
      /\ hdrz' = hz /\ totz' = hz + 1 + blen
      /\ rpc' = "sum" /\ UNCHANGED <<m, own, z, bsz, lenz, blen, j, past>>

F10 == [NoFld EXCEPT !.tag = CHECK_SUM, !.typ = "UCHAR"]

(* The check sum is pasted, always or if there is room, the last separator *)
(* goes and a NUL comes.  Its value stands for the totz bytes summed up.   *)
PasteSum ==
  LET pasted == own \/ totz + 5 < bsz
      r      == RenderFld(F10, bsz - totz)
  IN  /\ rpc = "sum"
      /\ IF pasted
         THEN /\ m' = [m EXCEPT !.slot[CHECK_SUM] = F10]
              /\ text' = Store(text, Piece(totz, r.n - 1, IF r.n = 7 THEN Is("10=", totz) ELSE Junk))
              /\ totz' = totz + r.n - 1
         ELSE UNCHANGED <<m, text, totz>>
      /\ past' = (past \/ off + totz' >= z)
      /\ rpc' = "done" /\ UNCHANGED <<own, z, bsz, hdrz, lenz, blen, j, off>>

(* Mutant: what is unmapped starts with the text. *)
FreeAsIs ==
  /\ rpc = "done" /\ own
  /\ rpc' = "freed" /\ UNCHANGED <<m, own, z, bsz, hdrz, lenz, totz, blen, j, off, text, past>>

(* __round_to_align *)
RoundToAlign(x) == x - (x % (2 * PtrSize))

(* fixc_free_rndr finds the start of the mapping by rounding down. *)
FreeRndr ==
  /\ rpc = "done" /\ own
  /\ off' = RoundToAlign(off)
  /\ rpc' = "freed" /\ UNCHANGED <<m, own, z, bsz, hdrz, lenz, totz, blen, j, text, past>>

RndrNext ==
  \/ Edit
  \/ RenderHead(TRUE, Estimate) \/ \E size \in CallerSizes : RenderHead(FALSE, size)
  \/ RenderType \/ RenderField \/ EndFields \/ PasteLength \/ PasteSum \/ FreeRndr

RndrSpec == RndrInit /\ [][RndrNext]_<<m, rndrvars>>

-----------------------------------------------------------------------------
(* Properties *)

FldLen(fld) == Digits(fld.tag) + 1 + ValLen(fld) + 1

(* Where in the body a field ends. *)
Ends ==
  LET e[k \in 0..m.nflds] ==
        IF k = 0 THEN FldLen(m.f35) ELSE e[k - 1] + FldLen(m.flds[k - 1])
  IN  e

(* The whole text: for each piece where it is, how long and what.  The     *)
(* length is that of the body without its last separator, the check sum    *)
(* that of all there is before it.                                         *)
Layout ==
  LET e     == Ends
      bodyz == e[m.nflds]
      h9    == FldLen(F8)
      front == h9 + 2 + Digits(bodyz - 1) + 1
      sum   == front + bodyz
  IN  [len  |-> sum + 6,
       text |-> { Piece(0, h9, Is("8=", 0)), Piece(h9, 2, Is("9=", 0)),
                  Piece(h9 + 2, Digits(bodyz - 1) + 1, Is("length", bodyz - 1)),
                  Piece(front, e[0], Is("35=", 0)), Piece(sum, 6, Is("10=", sum)) }
                \union { Piece(front + e[k], FldLen(m.flds[k]), Is("field", k)) :
                           k \in 0..(m.nflds - 1) }]

AllTexts == \A k \in 0..(m.nflds - 1) : m.flds[k].typ = "OFF"
Stated   == /\ m.slot[BEGIN_STRING].typ = "VER" /\ m.slot[BODY_LENGTH].typ = "INT"
            /\ m.f35.typ \in {"MSGTYP", "CTXT"}

(* The body's length has five digits at most. *)
Short == blen <= 100000

Done  == rpc \in {"done", "freed"}
Whole == text = Layout.text /\ totz = Layout.len

(* In a buffer of the library's a message of texts is rendered whole: all  *)
(* fields in their order, none over another, the right length in front and *)
(* a check sum of all that is before it, though the body was written first *)
(* and moved, and the buffer's size was reckoned before its fields were    *)
(* looked at.                                                              *)
OwnWhole == Done /\ own /\ Stated /\ AllTexts /\ Short => Whole

(* So it is in a caller's buffer with some bytes to spare: the room left   *)
(* for the length may be 16 bytes more than it takes.                      *)
CallerWhole == Done /\ ~own /\ Stated /\ AllTexts /\ Short /\ z >= Layout.len + 16 => Whole

(* No byte is written outside the buffer, if that has room for tags 8, 9   *)
(* and 35, but for the NUL behind a text that fills a caller's buffer to   *)
(* the last byte.                                                          *)
InBuffer == Stated /\ AllTexts /\ Short /\ (own \/ z >= 41) /\ past => ~own /\ z = totz

(* fixc_free_rndr finds the start of the mapping, though the text begins   *)
(* some bytes into it: no more than tag 9 had room for.                    *)
Released ==
  rpc = "freed" /\ Stated /\ Short /\ Width(m.slot[BODY_LENGTH].u) <= 5 => off = 0

(* "Render MSG into an (allocated) rndr buffer in fix notation" (fix.h): a *)
(* message that fixc_add_fld has given a version and no length, as those   *)
(* the FIXML reader makes, is rendered whole.                              *)
VersionedWhole == Done /\ own /\ m.slot[BEGIN_STRING].typ = "VER" /\ AllTexts => Whole

=============================================================================
