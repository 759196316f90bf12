----------------------------- MODULE FixmlWriter -----------------------------
(***************************************************************************)
(* fixc_render_fixml and fixc_render_fixml_rndr, fixml-wr.c: the fields of *)
(* a message, their contexts known or found by Fixup, are written as XML.  *)
(* A stack of records says which elements are open; a field of another     *)
(* context closes elements until it finds one its context can be part of.  *)
(*                                                                         *)
(* Beside the writer's own state goes what a reader would make of the text *)
(* so far (xml), as long as all of it is in the buffer; the properties are *)
(* about that.                                                             *)
(***************************************************************************)
EXTENDS Fixup

CONSTANTS
  Rptb(_),     \* the counter of a repeating block, or UNK (__comp_rptb)
  NPool,       \* countof(ctxcb_pool)
  Height(_),   \* how many levels of contexts there can be below a context
  NameLen(_),  \* length of an element's name
  AttrLen(_),  \* length of an attribute's name
  ValLen(_),   \* length of a field's value, as written
  UriLen,      \* length of the name space's URI (__ver_fixmlify)
  VerLen,      \* length of the version's name (__ver_fixml_v_ify)
  CallerSizes  \* sizes of the buffers that callers of fixc_render_fixml have

(* Mutant: the type of a message is written as an attribute. *)
UnwrittenButTypes == {"VER", "CTXT"}

(* Types whose values are in no attribute. *)
Unwritten == {"VER", "MSGTYP", "CTXT"}

-----------------------------------------------------------------------------
(* The buffer: b.p and b.z are the offsets of p and ep; lost says that a   *)
(* part of the text is not where it should be, having been cut off, or     *)
(* stored behind the end; and ran that memcpy() was called with a negative *)
(* length, from which it does not return.                                  *)
Buffers   == [p : Nat, z : Nat, lost : BOOLEAN, ran : BOOLEAN]
Buffer(z) == [p |-> 0, z |-> z, lost |-> FALSE, ran |-> FALSE]

(* sputc *)
Char[b \in Buffers] ==
  IF b.p + 1 < b.z THEN [b EXCEPT !.p = @ + 1] ELSE [b EXCEPT !.lost = TRUE]

(* sncpy fills the last byte, too. *)
Chars[b \in Buffers, n \in Nat] ==
  CASE b.p > b.z -> [b EXCEPT !.lost = TRUE, !.ran = TRUE]
    [] b.p <= b.z /\ b.p + n <= b.z -> [b EXCEPT !.p = @ + n]
    [] OTHER -> [b EXCEPT !.p = b.z, !.lost = TRUE]

(* snprintf() keeps two bytes free, but what it answers, which is added to *)
(* p, is the length the number would have had.                             *)
Number[b \in Buffers, n \in Nat] ==
  [b EXCEPT !.p = @ + n, !.lost = @ \/ b.p + n + 2 > b.z]

\* ' name="', '<name>' and '</name>'
Attribute(b, n) == Char[Char[Chars[Char[b], n]]]
StartTag(b, n)  == Char[Chars[Char[b], n]]
EndTag(b, n)    == Char[Chars[Char[Char[b]], n]]

(* The value: for each type the call that writes it, or none. *)
Value(b, fld) ==
  CASE fld.typ = "OFF" -> Chars[b, ValLen(fld)]
    [] fld.typ \in {"INT", "UCHAR"} -> Number[b, ValLen(fld)]
    [] fld.typ = "CHAR" -> Char[b]
    [] OTHER -> b

(* Mutant: the buffer is left as it is. *)
ResizedNever(b) == b

(* The buffer is doubled in its last tenth (resz_rndr). *)
Resized(b) == IF ((b.z - b.p) * 10) \div b.z < 1 THEN [b EXCEPT !.z = 2 * @] ELSE b

(* bsz at first: 14 for an attribute, 25 for every fourth as an element. *)
Estimate(nflds, pz) == (4 + nflds) * 14 + ((4 + nflds) \div 4) * 25 + pz + 64

-----------------------------------------------------------------------------
(* What a reader makes of the text: the elements seen, each with the index *)
(* of its parent; those open, innermost last; whether the last one's start *)
(* tag is unfinished; and whether anything was not well-formed.            *)
NoXml == [elts |-> <<>>, open |-> <<>>, tag |-> FALSE, bad |-> FALSE]

Parent(x) == IF x.open = <<>> THEN 0 ELSE x.open[Len(x.open)]
Up(x)     == SubSeq(x.open, 1, Len(x.open) - 1)

\* '<name'
Begin(x, c) ==
  [x EXCEPT !.elts = Append(@, [ctx |-> c, par |-> Parent(x), attrs |-> <<>>]),
            !.open = Append(@, Len(x.elts) + 1), !.tag = TRUE, !.bad = @ \/ x.tag]

\* '>'
Finish(x) == [x EXCEPT !.tag = FALSE, !.bad = @ \/ ~x.tag]

\* ' attr="val"'
Attr(x, k) ==
  IF x.tag THEN [x EXCEPT !.elts[Parent(x)].attrs = Append(@, k)] ELSE [x EXCEPT !.bad = TRUE]

\* '</name>'
End(x, c) ==
  IF ~x.tag /\ x.open # <<>> /\ x.elts[Parent(x)].ctx = c THEN [x EXCEPT !.open = Up(x)]
  ELSE [x EXCEPT !.bad = TRUE]

\* '/>'
EndEmpty(x) ==
  IF x.tag THEN [x EXCEPT !.open = Up(x), !.tag = FALSE] ELSE [x EXCEPT !.bad = TRUE]

-----------------------------------------------------------------------------
(* The stack of elements.  w.state is the stack, the current one last, of  *)
(* [osub, cntc]; w.free counts the records in the pool.                    *)

State(w) == w.state[Len(w.state)]

(* Mutant: the parent's start tag is always finished. *)
FinishParentAlways(w) ==
  IF w.state = <<>> THEN w
  ELSE [w EXCEPT !.b = Char[@], !.xml = Finish(@), !.state[Len(w.state)].cntc = 1]

(* The first child finishes the parent's start tag, and so does each that  *)
(* the count of the children, 16 bits wide, is back at 0 for.              *)
FinishParent(w) ==
  LET v == [w EXCEPT !.state[Len(w.state)].cntc = (@ + 1) % CntSize]
  IN  CASE w.state = <<>> -> w
        [] w.state # <<>> /\ State(w).cntc = 0 -> [v EXCEPT !.b = Char[@], !.xml = Finish(@)]
        [] OTHER -> v

(* push_rndr_state: '<name' *)
Push(w, c) ==
  CASE Orb(c) # UNK \/ c = BATCH -> w
    [] Orb(c) = UNK /\ c # BATCH /\ w.free = 0 -> [w EXCEPT !.fault = TRUE]
    [] OTHER -> [FinishParent(w) EXCEPT
                   !.b = Chars[Char[@], NameLen(c)], !.xml = Begin(@, c), !.free = @ - 1,
                   !.state = Append(@, [osub |-> c, cntc |-> 0])]

(* Mutant: the record does not return to the pool. *)
PopLost(w) ==
  LET top == State(w)
      v   == [w EXCEPT !.state = SubSeq(@, 1, Len(@) - 1)]
  IN  CASE w.state = <<>> -> w
        [] w.state # <<>> /\ top.cntc = 0 -> [v EXCEPT !.b = Char[Char[@]], !.xml = EndEmpty(@)]
        [] OTHER -> [v EXCEPT !.b = EndTag(@, NameLen(top.osub)), !.xml = End(@, top.osub)]

(* pop_rndr_state: '/>' or '</name>' *)
Pop(w) ==
  LET top == State(w)
      v   == [w EXCEPT !.state = SubSeq(@, 1, Len(@) - 1), !.free = @ + 1]
  IN  CASE w.state = <<>> -> w
        [] w.state # <<>> /\ top.cntc = 0 -> [v EXCEPT !.b = Char[Char[@]], !.xml = EndEmpty(@)]
        [] OTHER -> [v EXCEPT !.b = EndTag(@, NameLen(top.osub)), !.xml = End(@, top.osub)]

(* __render_attr: ' attr="val"'; without an element there is no counter of *)
(* attributes to raise.                                                    *)
RenderAttr(w, k, fld) ==
  IF fld.typ \in Unwritten THEN w
  ELSE [w EXCEPT !.b = Char[Value(Attribute(@, AttrLen(fld.tag)), fld)],
                 !.xml = Attr(@, k), !.fault = @ \/ w.state = <<>>]

-----------------------------------------------------------------------------
(* Is c part of context p?  __childp, and __ancest_rndr with the contexts  *)
(* that come between: an element is opened for each of them.               *)
Members(p) == ToSet(Sub(p))

Childp(p, c) == c \in Members(p) \/ (Orb(p) # UNK /\ c \in Members(Orb(p)))

(* The tree of contexts is finite, not higher than the pool is large;      *)
(* batches are no part of it, and a block that another is optimised to is  *)
(* not optimised itself.                                                   *)
ASSUME SchemaAssumption ==
  /\ NPool \in Nat
  /\ \A c \in Ctxs :
       /\ Sub(c) \in Seq(Ctxs \ {UNK, BATCH})
       /\ Orb(c) # UNK => Orb(c) \in Ctxs /\ Orb(Orb(c)) = UNK
       /\ Height(c) \in 0..(NPool - 1)
       /\ \A s \in Ctxs : Childp(c, s) => Height(s) < Height(c)

(* The places among p's children, and among their children, of a context   *)
(* that is c or has c as a child.                                          *)
Ways(p, c) ==
  {v \in UNION {{x} \X DOMAIN Sub(Sub(p)[x]) : x \in DOMAIN Sub(p)} :
     LET y == Sub(Sub(p)[v[1]])[v[2]] IN c = y \/ c \in Members(y)}

LeadsTo(p, c) == Childp(p, c) \/ Ways(p, c) # {}

(* They are searched in their order, and the first one is taken. *)
FirstWay(p, c) ==
  CHOOSE v \in Ways(p, c) :
    \A u \in Ways(p, c) : v[1] < u[1] \/ (v[1] = u[1] /\ v[2] <= u[2])

(* Mutant: nothing is opened between. *)
BetweenNone(p, c) == <<>>

(* What lies between p and c, two contexts at most. *)
Between(p, c) ==
  LET v == FirstWay(p, c)
      x == Sub(p)[v[1]]
      y == Sub(x)[v[2]]
  IN  IF Childp(p, c) THEN <<>> ELSE IF y = c THEN <<x>> ELSE <<x, y>>

-----------------------------------------------------------------------------
VARIABLES
  wpc,   \* "wait", "room", "field", "open", "attr", "close", "foot" or "done"
  own,   \* the buffer is the library's (fixc_render_fixml_rndr)
  k,     \* the field to be written
  otpc,  \* the context of the last one
  todo,  \* the contexts whose elements are to be opened for it
  w      \* [state, free, xml, b, fault]

writevars == <<wpc, own, k, otpc, todo, w>>
vars == <<msg, flds, pc, i, stk, room, streak, oos, last, wpc, own, k, otpc, todo, w>>

NoWriter == [state |-> <<>>, free |-> NPool, xml |-> NoXml, fault |-> FALSE,
             b |-> Buffer(0)]

WriteInit == wpc = "wait" /\ own = FALSE /\ k = 1 /\ otpc = UNK /\ todo = <<>> /\ w = NoWriter

Init == FixInit /\ WriteInit

TextLen == SumFunction([j \in DOMAIN flds |-> IF flds[j].typ = "OFF" THEN ValLen(flds[j]) + 1 ELSE 0])

(* __render_hdr: the declaration of 21 bytes and a newline, for which the  *)
(* end is not looked at, FIXML with its two attributes, and perhaps Batch. *)
Header(z) ==
  LET pre   == Chars[Buffer(z), 21]
      line  == [pre EXCEPT !.p = @ + 1, !.lost = @ \/ pre.p >= z]
      xmlns == Char[Chars[Attribute(Chars[Char[line], 5], 5), UriLen]]
      v     == Char[Chars[Attribute(xmlns, 1), VerLen]]
  IN  IF F35 = BATCH THEN StartTag(Char[v], 5) ELSE Char[v]

Start(mine, z) ==
  /\ pc = "fixed" /\ wpc = "wait"
  /\ wpc' = "room" /\ own' = mine /\ w' = [NoWriter EXCEPT !.b = Header(z)]
  /\ UNCHANGED <<k, otpc, todo>>

(* The call goes on: no NULL was followed, and no memcpy() ran away. *)
GoesOn == ~w.fault /\ ~w.b.ran

CheckRoom ==
  /\ wpc = "room" /\ GoesOn
  /\ wpc' = IF k <= Len(flds) THEN "field" ELSE "close"
  /\ w' = IF own /\ k <= Len(flds) THEN [w EXCEPT !.b = Resized(@)] ELSE w
  /\ UNCHANGED <<own, k, otpc, todo>>

Writing == wpc = "field" /\ GoesOn
Ctx == flds[k].tpc
Skipped == flds[k].tag = Rptb(Ctx)

(* The counter of a repeating block is not written. *)
SkipCounter ==
  /\ Writing /\ Skipped
  /\ k' = k + 1 /\ wpc' = "room" /\ UNCHANGED <<own, otpc, todo, w>>

Open(ctxs, v) ==
  /\ todo' = ctxs /\ otpc' = Ctx /\ w' = v
  /\ wpc' = IF ctxs = <<>> THEN "attr" ELSE "open"
  /\ UNCHANGED <<own, k>>

Changed == Writing /\ ~Skipped /\ Ctx # otpc

(* __change_ctx *)
OpenChild ==
  /\ Changed /\ w.state # <<>> /\ LeadsTo(State(w).osub, Ctx)
  /\ Open(Append(Between(State(w).osub, Ctx), Ctx), w)

(* Mutant: one element is closed, and that has to do. *)
CloseOne ==
  /\ Changed /\ w.state # <<>> /\ ~LeadsTo(State(w).osub, Ctx)
  /\ Open(<<>>, Pop(w))

CloseSibling ==
  /\ Changed /\ w.state # <<>> /\ ~LeadsTo(State(w).osub, Ctx)
  /\ w' = Pop(w)
  /\ UNCHANGED <<wpc, own, k, otpc, todo>>

OpenTop ==
  /\ Changed /\ w.state = <<>>
  /\ Open(<<Ctx>>, w)

(* The counter starts again in the same context: another element. *)
OpenAgain ==
  /\ Writing /\ ~Skipped /\ Ctx = otpc /\ flds[k].cnt = 0
  /\ Open(<<IF w.state = <<>> THEN UNK ELSE State(w).osub>>, Pop(w))

GoOn ==
  /\ Writing /\ ~Skipped /\ Ctx = otpc /\ flds[k].cnt # 0
  /\ Open(<<>>, w)

PushNext ==
  /\ wpc = "open" /\ GoesOn
  /\ w' = Push(w, Head(todo)) /\ todo' = Tail(todo)
  /\ wpc' = IF Tail(todo) = <<>> THEN "attr" ELSE "open"
  /\ UNCHANGED <<own, k, otpc>>

WriteAttr ==
  /\ wpc = "attr" /\ GoesOn
  /\ w' = RenderAttr(w, k, flds[k])
  /\ k' = k + 1 /\ wpc' = "room"
  /\ UNCHANGED <<own, otpc, todo>>

(* pop_rndr_state returns the context it has closed; 0 ends the loop.      *)
CloseAll ==
  /\ wpc = "close" /\ GoesOn
  /\ w' = Pop(w)
  /\ wpc' = IF w.state = <<>> \/ State(w).osub = UNK THEN "foot" ELSE "close"
  /\ UNCHANGED <<own, k, otpc, todo>>

(* __render_ftr *)
Footer ==
  /\ wpc = "foot" /\ GoesOn
  /\ w' = [w EXCEPT !.b = Char[EndTag(IF F35 = BATCH THEN EndTag(@, 5) ELSE @, 5)]]
  /\ wpc' = "done" /\ UNCHANGED <<own, k, otpc, todo>>

Write ==
  \/ Start(TRUE, Estimate(Len(flds), TextLen)) \/ \E z \in CallerSizes : Start(FALSE, z)
  \/ CheckRoom \/ SkipCounter
  \/ OpenChild \/ CloseSibling \/ OpenTop \/ OpenAgain \/ GoOn
  \/ PushNext \/ WriteAttr
  \/ CloseAll \/ Footer

Next ==
  \/ FixNext /\ UNCHANGED writevars
  \/ Write /\ UNCHANGED fixvars

Spec == Init /\ [][Next]_vars /\ WF_vars(Next)

-----------------------------------------------------------------------------
(* Properties *)

(* The types of the variables; while fields are looked at there is always  *)
(* a context on the stack, entered at a field no later than this one.      *)
TypeOK ==
  /\ pc \in {"idle", "start", "look", "some", "fixed"}
  /\ i \in 1..(Len(flds) + 1) /\ room \in Nat /\ streak \in Nat /\ oos \in BOOLEAN
  /\ \A n \in DOMAIN stk : stk[n].idx \in 1..(IF i = 1 THEN 1 ELSE i - 1)
  /\ pc = "look" => stk # <<>>
  /\ wpc \in {"wait", "room", "field", "open", "attr", "close", "foot", "done"}
  /\ (wpc # "wait" => pc = "fixed") /\ (wpc = "open" => todo # <<>>)
  /\ k \in 1..(Len(flds) + 1) /\ (wpc \in {"field", "open", "attr"} => k <= Len(flds))

(* The stack of contexts never has more entries than there is room for:    *)
(* chck_stk is called for each push, and what an earlier call left of the  *)
(* stack, which is static, does not count for more than it is.             *)
StackInRoom == Len(stk) <= room

(* A field that is written is in a context that has an element of its own: *)
(* the fixup leaves none without a context, nor any in a block that is     *)
(* optimised to another; and what a batch has are types only.              *)
Known ==
  wpc # "wait" =>
    \A j \in DOMAIN flds : flds[j].tag # Rptb(flds[j].tpc) =>
      /\ flds[j].tpc \in Ctxs \ {UNK} /\ Orb(flds[j].tpc) = UNK
      /\ flds[j].tpc = BATCH => flds[j].typ \in Unwritten /\ flds[j].cnt # 0

(* All of the text is in the buffer, and it has not so many elements that  *)
(* a count of children can have come back to 0: only then does it say what *)
(* xml does.                                                               *)
Legible == ~w.b.lost /\ Len(w.xml.elts) < CntSize

(* A text that is legible is well-formed.  An attribute is only written    *)
(* into a start tag that is not yet finished; the elements open are those  *)
(* the writer has records of, which come from a pool and all return to it; *)
(* and in the end every element is closed, once, by its own name.          *)
WellFormed ==
  Legible =>
    /\ ~w.xml.bad
    /\ Len(w.state) + w.free = NPool
    /\ [n \in DOMAIN w.xml.open |-> w.xml.elts[w.xml.open[n]].ctx] =
         [n \in DOMAIN w.state |-> w.state[n].osub]
    /\ w.xml.tag <=> w.state # <<>> /\ State(w).cntc = 0
    /\ wpc \in {"foot", "done"} => w.xml.open = <<>>

(* No handler follows a NULL: neither is the pool exhausted, nor is there  *)
(* an attribute and no element to write it into.                           *)
NoFault == ~w.fault

(* In a text that is legible are the fields in their order, each once, but *)
(* for the counters of repeating blocks, and in elements of their contexts.*)
InContext ==
  wpc # "wait" /\ Legible =>
    LET elts == w.xml.elts
    IN  /\ UNION {ToSet(elts[e].attrs) : e \in DOMAIN elts} =
             {n \in 1..(k - 1) : flds[n].typ \notin Unwritten /\ flds[n].tag # Rptb(flds[n].tpc)}
        /\ \A e, f \in DOMAIN elts : \A a \in DOMAIN elts[e].attrs, b \in DOMAIN elts[f].attrs :
             e < f \/ (e = f /\ a < b) => elts[e].attrs[a] < elts[f].attrs[b]
        /\ \A e \in DOMAIN elts : \A n \in ToSet(elts[e].attrs) : elts[e].ctx = flds[n].tpc

(* What the text says: the elements in document order, each with its       *)
(* parent and its attributes, the counters of optimised blocks left out.   *)
Written(counters) ==
  [e \in DOMAIN w.xml.elts |->
     [ctx |-> w.xml.elts[e].ctx, par |-> w.xml.elts[e].par,
      attrs |-> LET own_ == SelectSeq(w.xml.elts[e].attrs, LAMBDA n : flds[n].tag \notin counters)
                IN  [n \in DOMAIN own_ |-> <<flds[own_[n]].tag, flds[own_[n]].u>>]]]

(* Legible, it says what the message says: blocks that repeat are told     *)
(* apart, and inner blocks are in the occurrence they belong to.           *)
Restores ==
  wpc = "done" /\ Legible /\ CountsKept /\ msg.proper => Written(msg.counters) = msg.said

(* In a buffer of the library's own no text is cut off. *)
WholeText == own => ~w.b.lost

(* Every message that is handed in is rendered, if it is not in a caller's *)
(* buffer that memcpy() runs away from.                                    *)
Rendered == pc = "start" ~> wpc = "done" \/ w.b.ran

=============================================================================
