------------------------------ MODULE FixParse ------------------------------
(***************************************************************************)
(* make_fixc_from_fix: the two-state parser anal() run over a text held in *)
(* the pr area, and, for a message of version FIXCOMP, __fixc_from_fixz,   *)
(* which runs anal() again after each chunk that inflate() delivers, from  *)
(* wherever the last run stopped.                                          *)
(*                                                                         *)
(* A byte is its distance to '0', as __strtoui16 takes it, so a digit is   *)
(* its own value.  Positions count from 1.                                 *)
(***************************************************************************)
EXTENDS FixSizes, FiniteSets, Sequences, SequencesExt

CONSTANTS
  Docs,      \* texts, see DocAssumption
  Chunks,    \* sizes of the buffer inflate() writes to (tb)
  FspcRnd,   \* rounding of the field space of a plain text
  PlainRate, \* bytes of a plain text for which one field is reserved
  ZipRate,   \* bytes of an inflated chunk for which one field is reserved
  Versions,  \* the values of tag 8 that are known
  Comp,      \* the one that says FIXCOMP
  IntMax,    \* INT32_MAX
  LongMax    \* LONG_MAX

EQ     == 13
SOH    == -47
NUL    == -48
MINUS  == -3
PLUS   == -5
Blanks == {-16} \union (-39)..(-35)  \* isspace()

VER_UNK == <<>>

TAG_UNK      == 0
BEGIN_STRING == 8
BODY_LENGTH  == 9
CHECK_SUM    == 10
MSG_TYPE     == 35

(* A text is a list of fields; tail are the compressed bytes behind them,  *)
(* body the fields they inflate to, intact whether they do.                *)
Fields == [key : Seq(0..9), val : Seq(Int)]

FieldText(f) == f.key \o <<EQ>> \o f.val \o <<SOH>>
TextOf(fs)   == FlattenSeq([i \in DOMAIN fs |-> FieldText(fs[i])])

-----------------------------------------------------------------------------
(* Conversions *)

(* The number of some digits. *)
NumberOf(s) ==
  LET v[i \in 0..Len(s)] == IF i = 0 THEN 0 ELSE 10 * v[i - 1] + s[i]
  IN  v[Len(s)]

UINT16_MAX == 65535

(* __strtoui16 *)
StrToUI16(s) == IF NumberOf(s) \in 0..UINT16_MAX THEN NumberOf(s) ELSE 0

(* strtol(): blanks, a sign and digits; what follows these is left, and   *)
(* what a long does not hold becomes the last number it does.              *)
Skipped(s) ==
  LET k == SelectInSeq(s, LAMBDA c : c \notin Blanks)
  IN  IF k = 0 THEN <<>> ELSE SubSeq(s, k, Len(s))

Leading(s, most) ==
  LET k == SelectInSeq(s, LAMBDA c : c \notin 0..9)
      n == NumberOf(IF k = 0 THEN s ELSE SubSeq(s, 1, k - 1))
  IN  IF n <= most THEN n ELSE most

StrToL(s) ==
  LET t == Skipped(s)
  IN  CASE t # <<>> /\ t[1] = MINUS -> -Leading(Tail(t), LongMax + 1)
        [] t # <<>> /\ t[1] = PLUS -> Leading(Tail(t), LongMax)
        [] OTHER -> Leading(t, LongMax)

(* Mutant: the number has no sign. *)
UInt32(x) == x % (2 * (IntMax + 1))

(* A long that is stored in an int32_t. *)
Int32(x) == ((x + IntMax + 1) % (2 * (IntMax + 1))) - (IntMax + 1)

ParseLen(s) == Int32(StrToL(s))

(* __fix_verify, and what is made of its answer. *)
Verify(s) == IF s \in Versions THEN s ELSE VER_UNK

(* fixc_parse_mtyp: a type has one or two characters. *)
ParseMtyp(s) == IF Len(s) \in {1, 2} THEN s ELSE <<>>

TagOf(f) == StrToUI16(f.key)

-----------------------------------------------------------------------------
(* What is parsed *)

(* A text that is not compressed does not say so. *)
NotComp(fs) == \A i \in DOMAIN fs : TagOf(fs[i]) = BEGIN_STRING => fs[i].val # Comp

(* One message, which the check sum ends. *)
IsMessage(fs) ==
  /\ \A i \in DOMAIN fs : TagOf(fs[i]) = CHECK_SUM <=> i = Len(fs)
  /\ EQ \notin Range(Last(fs).val)

IsFixcomp(d) ==
  /\ Len(d.head) = 2
  /\ TagOf(d.head[1]) = BEGIN_STRING /\ d.head[1].val = Comp
  /\ TagOf(d.head[2]) = BODY_LENGTH /\ ParseLen(d.head[2].val) > 0
  /\ d.body # <<>> /\ NotComp(d.body) /\ IsMessage(d.body)

ASSUME DocAssumption ==
  \A d \in Docs :
     /\ d.head \in Seq(Fields) /\ d.body \in Seq(Fields)
     /\ d.tail \in Seq(Int) /\ d.intact \in BOOLEAN
     /\ \A f \in Range(d.head) \union Range(d.body) :
          Len(f.key) \in 1..5 /\ SOH \notin Range(f.val) /\ NUL \notin Range(f.val)
     /\ IF d.tail = <<>> THEN d.head # <<>> /\ NotComp(d.head) ELSE IsFixcomp(d)

(* A plain text has no field that is shorter than what one slot is reserved *)
(* for: N=V and the separator are four bytes.                               *)
ASSUME RateAssumption ==
  /\ PlainRate \in Nat \ {0} /\ FspcRnd \in Nat \ {0}
  /\ \A d \in Docs : \A f \in Range(d.head) : Len(FieldText(f)) >= PlainRate

ASSUME VersionAssumption == Comp \in Versions /\ VER_UNK \notin Versions /\ Versions \subseteq Seq(Int)
ASSUME WidthAssumption   == IntMax \in Nat /\ LongMax \in Nat
ASSUME ChunkAssumption   == Chunks \subseteq Nat \ {0}

VARIABLES
  doc, chunk, \* the text and the buffer size of this call
  phase,      \* "anal", "out", "inflate", "fill"; at the end "msg" or "null"
  st,         \* kv_state_t
  pr, q,      \* the text as it lies in memory, the next byte to look at
  cur,        \* the tag in the slot behind the last field, CUR_FLD
  flds,       \* the fields found: tag and offset
  fspc,       \* the slots there are
  slot,       \* f8.ver, f9.i32, f10.u8 and f35.mtyp
  zip,        \* __fixc_from_fixz has begun
  left, fin   \* what inflate() has still to deliver; it has reported the end

vars == <<doc, chunk, phase, st, pr, q, cur, flds, fspc, slot, zip, left, fin>>

nflds == Len(flds)

(* Mutant: one slot for eight bytes, as for an inflated chunk. *)
PlainFspcHalf(z) == Round(z \div (2 * PlainRate), FspcRnd)

(* The slots reserved for a plain text of z bytes. *)
PlainFspc(z) == Round(z \div PlainRate, FspcRnd)

Init ==
  /\ doc \in Docs /\ chunk \in Chunks
  /\ phase = "anal" /\ st = "KEY" /\ cur = TAG_UNK
  /\ pr = TextOf(doc.head) \o doc.tail /\ q = 1
  /\ flds = <<>>
  /\ fspc = PlainFspc(Len(pr))
  /\ slot = [ver |-> VER_UNK, len |-> 0, sum |-> NUL, mtyp |-> <<>>]
  /\ zip = FALSE /\ left = <<>> /\ fin = FALSE

-----------------------------------------------------------------------------
(* anal() *)

(* The loops that look for a byte c, while p < ep, stop short of the end   *)
(* only on a c that is not the last byte.                                  *)
Ends(c) == {j \in q..(Len(pr) - 1) : pr[j] = c}

Busy == phase = "anal" /\ q <= Len(pr)

(* A store behind the last slot is not described. *)
HasSlot == nflds < fspc

Compressed(sl) == sl.ver = Comp /\ sl.len > 0

(* A key: its tag goes to the slot behind the last field. *)
Key ==
  /\ Busy /\ HasSlot /\ st = "KEY" /\ Ends(EQ) # {}
  /\ LET j == Min(Ends(EQ))
     IN  /\ cur' = StrToUI16(SubSeq(pr, q, j - 1))
         /\ pr' = [pr EXCEPT ![j] = NUL]
         /\ q' = j + 1
  /\ st' = "VALUE"
  /\ UNCHANGED <<doc, chunk, phase, flds, fspc, slot, zip, left, fin>>

(* fixc_parse_fld on the len bytes at q. *)
ParseFld(len) ==
  LET val == SubSeq(pr, q, q + len - 1)
  IN  CASE cur = BEGIN_STRING -> slot' = [slot EXCEPT !.ver = Verify(val)] /\ UNCHANGED flds
        [] cur = BODY_LENGTH  -> slot' = [slot EXCEPT !.len = ParseLen(val)] /\ UNCHANGED flds
        [] cur = CHECK_SUM    -> slot' = [slot EXCEPT !.sum = pr'[q]] /\ UNCHANGED flds
        [] cur = MSG_TYPE     -> slot' = [slot EXCEPT !.mtyp = ParseMtyp(val)] /\ UNCHANGED flds
        [] cur = TAG_UNK      -> UNCHANGED <<slot, flds>>
        [] OTHER -> flds' = Append(flds, [tag |-> cur, off |-> q]) /\ UNCHANGED slot

(* After every field: is this the header of a compressed message? *)
NextPhase == phase' = IF Compressed(slot') THEN "inflate" ELSE "anal"

(* Mutants of Value: no NUL is written behind the value; the length is   *)
(* one short.                                                              *)
ValueUnended ==
  /\ Busy /\ st = "VALUE" /\ Ends(SOH) # {}
  /\ UNCHANGED pr
  /\ ParseFld(Min(Ends(SOH)) - q)
  /\ q' = Min(Ends(SOH)) + 1
  /\ st' = "KEY" /\ NextPhase
  /\ UNCHANGED <<doc, chunk, cur, fspc, zip, left, fin>>

ValueShort ==
  /\ Busy /\ st = "VALUE" /\ Ends(SOH) # {}
  /\ LET j == Min(Ends(SOH))
     IN  /\ pr' = [pr EXCEPT ![j] = NUL]
         /\ ParseFld(j - q - 1)
         /\ q' = j + 1
  /\ st' = "KEY" /\ NextPhase
  /\ UNCHANGED <<doc, chunk, cur, fspc, zip, left, fin>>

(* A value up to its separator becomes a field. *)
Value ==
  /\ Busy /\ st = "VALUE" /\ Ends(SOH) # {}
  /\ LET j == Min(Ends(SOH))
     IN  /\ pr' = [pr EXCEPT ![j] = NUL]
         /\ ParseFld(j - q)
         /\ q' = j + 1
  /\ st' = "KEY" /\ NextPhase
  /\ UNCHANGED <<doc, chunk, cur, fspc, zip, left, fin>>

(* Mutant: any value is taken where the bytes end. *)
AnyValueAtEnd ==
  /\ Busy /\ st = "VALUE" /\ Ends(SOH) = {}
  /\ UNCHANGED pr
  /\ ParseFld(Len(pr) - q)
  /\ q' = Len(pr) + 1
  /\ st' = "KEY" /\ NextPhase
  /\ UNCHANGED <<doc, chunk, cur, fspc, zip, left, fin>>

(* The check sum is taken as it is where the bytes end. *)
ValueAtEnd ==
  /\ Busy /\ st = "VALUE" /\ Ends(SOH) = {} /\ cur = CHECK_SUM
  /\ UNCHANGED pr
  /\ ParseFld(Len(pr) - q)
  /\ q' = Len(pr) + 1
  /\ st' = "KEY" /\ NextPhase
  /\ UNCHANGED <<doc, chunk, cur, fspc, zip, left, fin>>

(* Mutant: a value cut short is waited for. *)
OutButNotAmidValue ==
  /\ phase = "anal"
  /\ (q > Len(pr) \/ (st = "KEY" /\ Ends(EQ) = {}))
  /\ phase' = "out"
  /\ UNCHANGED <<doc, chunk, st, pr, q, cur, flds, fspc, slot, zip, left, fin>>

(* Out of bytes, perhaps amid a key or a value: q stays where that began. *)
Out ==
  /\ phase = "anal"
  /\ \/ q > Len(pr)
     \/ st = "KEY" /\ Ends(EQ) = {}
     \/ st = "VALUE" /\ Ends(SOH) = {} /\ cur # CHECK_SUM
  /\ phase' = "out"
  /\ UNCHANGED <<doc, chunk, st, pr, q, cur, flds, fspc, slot, zip, left, fin>>

-----------------------------------------------------------------------------
(* __fixc_from_fixz *)

(* What has been found so far stays; version, length and text start anew.  *)
StartInflate ==
  /\ phase = "inflate"
  /\ slot' = [slot EXCEPT !.ver = VER_UNK, !.len = 0]
  /\ pr' = <<>> /\ q' = 1 /\ st' = "KEY"
  /\ left' = TextOf(doc.body)
  /\ phase' = "fill" /\ zip' = TRUE
  /\ UNCHANGED <<doc, chunk, cur, flds, fspc, fin>>

(* Mutant: check_size moves the fields but not the slot behind them. *)
FillLosesTag ==
  /\ phase = "fill" /\ (doc.intact \/ left # <<>>)
  /\ LET nproc == IF Len(left) < chunk THEN Len(left) ELSE chunk
         addf  == nproc \div ZipRate
         fits  == addf + nflds < fspc /\ nproc + Len(pr) < NextPow2(Len(pr) + 1)
     IN  /\ fspc' = IF fits THEN fspc ELSE NextPow2(nflds + addf)
         /\ cur'  = IF fits THEN cur ELSE TAG_UNK
         /\ pr'   = pr \o SubSeq(left, 1, nproc)
         /\ left' = SubSeq(left, nproc + 1, Len(left))
         /\ fin'  \in IF doc.intact THEN {nproc < chunk, left' = <<>>} ELSE {FALSE}
  /\ slot' = [slot EXCEPT !.ver = VER_UNK, !.len = 0]
  /\ phase' = "anal"
  /\ UNCHANGED <<doc, chunk, st, q, flds, zip>>

(* inflate() fills the buffer as long as it can; it may report the end     *)
(* with the last full buffer or with an empty one after that.  check_size  *)
(* goes by the number of fields the chunk is reckoned to hold.  A damaged  *)
(* text fails before its end, at the latest when nothing is left.          *)
Fill ==
  /\ phase = "fill" /\ (doc.intact \/ left # <<>>)
  /\ LET nproc == IF Len(left) < chunk THEN Len(left) ELSE chunk
         addf  == nproc \div ZipRate
         fits  == addf + nflds < fspc /\ nproc + Len(pr) < NextPow2(Len(pr) + 1)
     IN  /\ fspc' = IF fits THEN fspc ELSE NextPow2(nflds + addf)
         /\ pr'   = pr \o SubSeq(left, 1, nproc)
         /\ left' = SubSeq(left, nproc + 1, Len(left))
         /\ fin'  \in IF doc.intact THEN {nproc < chunk, left' = <<>>} ELSE {FALSE}
  /\ slot' = [slot EXCEPT !.ver = VER_UNK, !.len = 0]
  /\ phase' = "anal"
  /\ UNCHANGED <<doc, chunk, st, q, cur, flds, zip>>

(* Mutant: an error of inflate() ends the loop like its end does. *)
InflateFailsQuietly ==
  /\ phase = "fill" /\ ~doc.intact
  /\ phase' = "msg"
  /\ UNCHANGED <<doc, chunk, st, pr, q, cur, flds, fspc, slot, zip, left, fin>>

InflateFails ==
  /\ phase = "fill" /\ ~doc.intact
  /\ phase' = "null"
  /\ UNCHANGED <<doc, chunk, st, pr, q, cur, flds, fspc, slot, zip, left, fin>>

(* Mutant: the loop over chunks does not ask for the end. *)
ReturnForever ==
  /\ phase = "out"
  /\ phase' = IF zip THEN "fill" ELSE IF st = "KEY" THEN "msg" ELSE "null"
  /\ UNCHANGED <<doc, chunk, st, pr, q, cur, flds, fspc, slot, zip, left, fin>>

(* anal() has returned: to the loop over chunks, which goes on until the   *)
(* end and then succeeds, or to make_fixc_from_fix, which asks for st.     *)
Return ==
  /\ phase = "out"
  /\ phase' = CASE zip /\ ~fin -> "fill"
                [] fin -> "msg"
                [] OTHER -> IF st = "KEY" THEN "msg" ELSE "null"
  /\ UNCHANGED <<doc, chunk, st, pr, q, cur, flds, fspc, slot, zip, left, fin>>

Next == Key \/ Value \/ ValueAtEnd \/ Out \/ StartInflate \/ Fill \/ InflateFails \/ Return

Spec == Init /\ [][Next]_vars /\ WF_vars(Next)

-----------------------------------------------------------------------------
(* Properties *)

Ended == phase \in {"msg", "null"}

(* The fields the text is made of, those with a slot in the header apart.  *)
Payload == IF doc.tail = <<>> THEN doc.head ELSE doc.body
Plain(f) == TagOf(f) \notin {TAG_UNK, BEGIN_STRING, BODY_LENGTH, CHECK_SUM, MSG_TYPE}
Kept(fs) == FlattenSeq([i \in DOMAIN fs |-> IF Plain(fs[i]) THEN <<fs[i]>> ELSE <<>>])
LastVal(tag, fs) ==
  LET i == SelectLastInSeq(fs, LAMBDA f : TagOf(f) = tag)
  IN  IF i = 0 THEN <<>> ELSE fs[i].val

(* A C string in memory. *)
StrAt(o) ==
  LET k == SelectInSeq(SubSeq(pr, o, Len(pr)), LAMBDA c : c = NUL)
  IN  IF k = 0 THEN SubSeq(pr, o, Len(pr)) ELSE SubSeq(pr, o, o + k - 2)

(* The message holds the fields of the text, in order, each tag with its   *)
(* own value, and its type, wherever the chunks were cut.                  *)
ParsedIsDoc ==
  phase = "msg" =>
    /\ [i \in 1..nflds |-> [tag |-> flds[i].tag, val |-> StrAt(flds[i].off)]] =
         LET fs == Kept(Payload)
         IN  [i \in DOMAIN fs |-> [tag |-> TagOf(fs[i]), val |-> fs[i].val]]
    /\ slot.mtyp = ParseMtyp(LastVal(MSG_TYPE, Payload))

(* In a plain text, the slot anal() writes a tag to, and reads it from     *)
(* again, is inside the array.                                             *)
SlotsEnough ==
  doc.tail = <<>> /\ phase = "anal" /\ (st = "VALUE" \/ Ends(EQ) # {}) => HasSlot

(* "fixed fields, must be present in every msg" (fix.h): a message of a    *)
(* plain text, or of one that inflates into one chunk, has the version the *)
(* text states, if that is known, and its length, if an int32_t holds it.  *)
(* Of other compressed texts it has these or nothing, never a version or a *)
(* length that is none of the text's.                                      *)
HeaderKept ==
  LET ver == LastVal(BEGIN_STRING, Payload)
      len == LastVal(BODY_LENGTH, Payload)
      one == doc.tail = <<>> \/ Len(TextOf(doc.body)) < chunk
  IN  phase = "msg" =>
        /\ slot.ver = ver \/ (slot.ver = VER_UNK /\ (one => ver \notin Versions))
        /\ StrToL(len) \in (-IntMax - 1)..IntMax =>
             slot.len = StrToL(len) \/ (slot.len = 0 /\ ~one)

(* A text is refused if, and only if, it does not inflate or, uncompressed, *)
(* its last field is not the check sum.                                     *)
RefusedForCause ==
  Ended => (phase = "null") =
             (IF doc.tail = <<>> THEN TagOf(Last(doc.head)) # CHECK_SUM ELSE ~doc.intact)

(* Every call returns. *)
Terminates == <>Ended

=============================================================================
