----------------------------- MODULE RoundTrip -----------------------------
(***************************************************************************)
(* FIXML in, FIXML out: a document is read (FixmlReader), and the message  *)
(* is rendered as FIXML again (FixmlWriter), either at once, as a program  *)
(* would that calls make_fixc_from_fixml and fixc_render_fixml, or by way  *)
(* of a FIX text, as fixml2fix and fix2fixml do one after the other, which *)
(* keeps tags and values and none of the contexts, so that fixc_fixup has  *)
(* to find them.                                                           *)
(*                                                                         *)
(* Beside the messages read there are some that programs make: Messages.   *)
(***************************************************************************)
EXTENDS FixmlWriter, Extract

CONSTANTS  \* of FixmlReader
  Elements, Allowed(_, _, _), MaxElts,
  Cid(_, _), Mty(_), Aid(_, _), Begins(_, _), NsUris, NNs

VARIABLES ctx, doc, open

R == INSTANCE FixmlReader

-----------------------------------------------------------------------------
(* The document as the writer should write it: of the elements those that  *)
(* state something, themselves or in an element inside.                    *)
FieldsOf(n, in) ==
  LET as == SelectSeq(doc[n].elt.attrs, LAMBDA a : Aid(in, a.name) \notin {UNK, R!XMLNS, R!V})
  IN  [a \in DOMAIN as |-> <<Aid(in, as[a].name), as[a].val>>]

(* n and the elements around it *)
Around(n) == LET f[j \in 0..n] == IF j = 0 THEN {} ELSE {j} \union f[doc[j].par] IN f[n]

Said ==
  LET r    == R!Reading
      kept == SelectSeq([n \in DOMAIN doc |-> n],
                LAMBDA n : /\ r[n].own /\ r[n].id \notin {R!FIXML, BATCH}
                           /\ \E m \in n..Len(doc) :
                                n \in Around(m) /\ r[m].own /\ FieldsOf(m, r[m].in) # <<>>)
  IN  [j \in DOMAIN kept |->
         [ctx |-> r[kept[j]].in, attrs |-> FieldsOf(kept[j], r[kept[j]].in),
          par |-> LET out == {h \in 1..(j - 1) : kept[h] \in Around(kept[j])}
                  IN  IF out = {} THEN 0 ELSE Max(out)]]

(* Every message states something itself, before its components do. *)
Proper(said) == \A j \in DOMAIN said : said[j].par = 0 => said[j].attrs # <<>>

(* The message that has been read, as fix.h has it. *)
ReadFld(fld) ==
  [tag |-> fld.tag, typ |-> fld.typ, u |-> IF fld.typ = "INT" THEN fld.n ELSE fld.val,
   tpc |-> fld.tpc, cnt |-> fld.cnt]

(* The same as the FIX parser makes it of a FIX text. *)
TextFld(fld) == [ReadFld(fld) EXCEPT !.typ = "OFF", !.tpc = UNK, !.cnt = 0]

Message(fs) ==
  LET said == Said
      ids  == {R!Reading[n].id : n \in DOMAIN doc}
  IN  [f35 |-> ctx.f35, flds |-> fs,
       proper |-> Proper(said), said |-> said,
       counters |-> {Rptb(c) : c \in {d \in ids : Orb(d) # UNK}}]

-----------------------------------------------------------------------------
docvars == <<ctx, doc, open>>
allvars == <<ctx, doc, open, msg, flds, pc, i, stk, room, streak, oos, last,
             wpc, own, k, otpc, todo, w>>

RTInit == R!Init /\ Init

Read == pc = "idle" /\ R!Next /\ UNCHANGED vars

Whole == R!Running /\ doc # <<>> /\ open = <<>>

Direct ==
  /\ Whole /\ Take(Message([n \in DOMAIN ctx.flds |-> ReadFld(ctx.flds[n])]))
  /\ UNCHANGED <<docvars, writevars>>

(* A FIX text has one message type. *)
ByText ==
  /\ Whole /\ ctx.f35 # BATCH
  /\ Take(Message([n \in DOMAIN ctx.flds |-> TextFld(ctx.flds[n])]))
  /\ UNCHANGED <<docvars, writevars>>

(* A program's own message, and all that is done with a message. *)
Render == (pc = "idle" => doc = <<>>) /\ Next /\ UNCHANGED docvars

RTNext == Read \/ Direct \/ ByText \/ Render

(* A call that has begun goes on; nobody has to begin one. *)
Begun == pc # "idle" /\ Next /\ UNCHANGED docvars

RTSpec == RTInit /\ [][RTNext]_allvars /\ WF_allvars(Begun)

-----------------------------------------------------------------------------
(* Properties of extraction *)

(* What the fields of the indices xs say, counters and message types left  *)
(* out.                                                                    *)
Says(xs) ==
  LET no   == {MSG_TYPE} \union {Rptb(c) : c \in Ctxs}
      own_ == SelectSeq(xs, LAMBDA x : flds[x].tag \notin no)
  IN  [x \in DOMAIN own_ |-> <<flds[own_[x]].tag, flds[own_[x]].u>>]

Elems(c) == SelectSeq([j \in DOMAIN msg.said |-> j], LAMBDA j : msg.said[j].ctx = c)

(* Occurrences are told apart by the positions in them, so it takes two.   *)
Told(c) ==
  \A e \in ToSet(Elems(c)) : Len(msg.said[e].attrs) >= 2 \/ Len(Elems(c)) = 1

(* The n-th extract of a context holds what the n-th element of that       *)
(* context says, and nothing of any other, whether the contexts came with  *)
(* the elements of the document or were found by fixc_fixup, whatever the  *)
(* context is part of and whatever repeats inside it.                      *)
ExtractsNth ==
  pc = "fixed" /\ wpc = "wait" /\ CountsKept /\ msg.proper =>
    \A c \in {msg.said[j].ctx : j \in DOMAIN msg.said} :
      Told(c) => \A n \in DOMAIN Elems(c) :
                   Says(ExtrCtxt(flds, c, n - 1)) = msg.said[Elems(c)[n]].attrs

(* The elements inside j, all of them its own. *)
Within(j) == SelectSeq([h \in DOMAIN msg.said |-> h], LAMBDA h : msg.said[h].par = j)
FlatBelow(j) ==
  /\ msg.said[j].attrs # <<>>
  /\ \A h \in ToSet(Within(j)) : /\ msg.said[h].ctx \in ToSet(Sub(msg.said[j].ctx))
                                  /\ Within(h) = <<>>

(* Contexts a slot may happen to have: one not below c, and one below. *)
Others(c) == {UNK} \union (IF Sub(c) = <<>> THEN {} ELSE {Last(Sub(c))})

(* The deep extract holds that and what the elements inside it say, if it  *)
(* says something itself and these have no elements inside them.  Behind   *)
(* the last field of the message it has something only if the fields of an *)
(* element inside are the last, and the slot behind, whatever is in it, is *)
(* of a context below, too.                                                *)
ExtractsDeep ==
  pc = "fixed" /\ wpc = "wait" /\ CountsKept /\ msg.proper =>
    \A c \in {msg.said[j].ctx : j \in DOMAIN msg.said} :
      Told(c) => \A n \in DOMAIN Elems(c) :
        LET e    == Elems(c)[n]
            here == msg.said[e].attrs \o
                    FlattenSeq([h \in DOMAIN Within(e) |-> msg.said[Within(e)[h]].attrs])
        IN  FlatBelow(e) =>
              \A other \in Others(c) :
                LET xs == ExtrCtxtDeep(flds, <<[tpc |-> other]>>, c, ToSet(Sub(c)), n - 1)
                    in == SelectSeq(xs, LAMBDA x : x \in DOMAIN flds)
                IN  /\ Says(in) = here
                    /\ xs # in => /\ {other, Last(flds).tpc} \subseteq ToSet(Sub(c))
                                  /\ e = Last(Elems(c))

=============================================================================
