----------------------------- MODULE FixmlReader -----------------------------
(***************************************************************************)
(* make_fixc_from_fixml: expat's callbacks el_sta and el_end, the name     *)
(* spaces, the stack of contexts and its pool, and the message they fill.  *)
(*                                                                         *)
(* c is struct __ctx_s with the message it builds: operators take it and   *)
(* return it changed.  A handler that leaves the array of fields, follows  *)
(* a NULL or calls abort() sets c.fault, and nothing is described after.   *)
(***************************************************************************)
EXTENDS Integers, FiniteSets, Sequences, SequencesExt

CONSTANTS
  Elements,       \* start tags: [pref, name, attrs], an attr [pref, name, val]
  Allowed(_, _, _), \* Allowed(p, ns, n): n may stand in p, "" for the document,
                    \* after elements of the names ns
  MaxElts,        \* bound on the elements of a document
  Cid(_, _), Mty(_), Aid(_, _), Rptb(_), Orb(_),  \* the engine's lookups
  Begins(_, _),   \* Begins(p, q): the text q begins with p (strncmp)
  NsUris,         \* [texts that name a version -> version]
  NNs,            \* countof(ns)
  CntSize,        \* 2^16: cnt of a field is uint16_t
  NPool           \* countof(ctxcb_pool)

ASSUME NNsAssumption == NNs \in Nat \ {0}
ASSUME CntAssumption == CntSize \in Nat \ {0}

UNK   == "UNK"    \* no version, component, attribute or message type
NULL  == "NULL"
FIXML == "FIXML"  \* FIXC_COMP_FIXML
BATCH == "Batch"  \* FIXC_MSGT_BATCH
XMLNS == "XMLNS"  \* FIXC_ATTR_XMLNS
V     == "V"      \* FIXC_ATTR_V

MSG_TYPE == "35"

Ptx   == {"50", "50_SP1", "50_SP2"}
Known == Ptx \union {"44"}

NoNs  == [pref |-> NULL, href |-> NULL, nsid |-> UNK]
NoCtx == [otag |-> UNK, cnt |-> 0, cns |-> 0]

(* state[1] is the current context, state[i + 1] the old_state of state[i]; *)
(* pool[1] is ctxcb_head.                                                  *)
Fresh ==
  [ ns |-> [i \in 0..(NNs - 1) |-> NoNs], nns |-> 0,
    state |-> <<>>, pool |-> <<>>,
    flds |-> <<>>, f35 |-> UNK, ver |-> UNK, fault |-> "none" ]

Fault(c, what) == [c EXCEPT !.fault = what]

-----------------------------------------------------------------------------
(* Name spaces *)

NsId(href) == IF href \in DOMAIN NsUris THEN NsUris[href] ELSE UNK

(* Mutant: ours is queued like any other. *)
RegNsQueued(c, pref, href) ==
  IF c.nns >= NNs THEN c
  ELSE [c EXCEPT !.ns[c.nns] = [pref |-> pref, href |-> href, nsid |-> NsId(href)],
                 !.nns = @ + 1]

(* ptx_reg_ns *)
RegNs(c, pref, href) ==
  LET new == [pref |-> pref, href |-> href, nsid |-> NsId(href)]
  IN  CASE c.nns >= NNs -> c
        [] c.nns < NNs /\ new.nsid \in Ptx /\ c.ns[0].href # NULL ->
             [c EXCEPT !.ns = [@ EXCEPT ![c.nns] = c.ns[0], ![0] = new], !.nns = @ + 1]
        [] c.nns < NNs /\ new.nsid \in Ptx /\ c.ns[0].href = NULL -> [c EXCEPT !.ns[0] = new]
        [] OTHER -> [c EXCEPT !.ns[c.nns] = new, !.nns = @ + 1]

(* ptx_pref_p, for a prefix that is there. *)
PtxPref(c, pref) == c.ns[0].pref # NULL /\ Begins(pref, c.ns[0].pref)

(* __pref_to_ns: the index of the name space, or none.  An element without *)
(* a prefix in a document whose first name space has one is compared on no *)
(* characters; the byte before it is no colon.                             *)
NoIdx   == -1  \* NULL is returned
BadPref == -2  \* a prefix that is NULL was compared
PrefToNs(c, pref) ==
  LET from == IF c.ns[0].pref = NULL THEN 1 ELSE 0
      hits == {i \in from..(c.nns - 1) :
                 c.ns[i].pref = NULL \/ pref = "" \/ Begins(pref, c.ns[i].pref)}
      i    == CHOOSE k \in hits : \A j \in hits : k <= j
  IN  CASE c.ns[0].nsid = UNK \/ (pref = "" /\ c.ns[0].pref = NULL) -> 0
        [] OTHER -> IF hits = {} THEN NoIdx
                    ELSE IF c.ns[i].pref = NULL THEN BadPref ELSE i

(* What an attribute is looked up as: the prefix of one that has a prefix, *)
(* unless that is ours, in which case the first letters of the prefix,     *)
(* which mean nothing.                                                     *)
LookUp(c, ctxid, a) ==
  CASE a.pref = "" -> Aid(ctxid, a.name)
    [] a.pref # "" /\ PtxPref(c, a.pref) -> UNK
    [] OTHER -> Aid(ctxid, a.pref)

Ctxid(c) == IF c.state = <<>> THEN UNK ELSE c.state[1].otag

RegAttr(c, a) == RegNs(c, IF a.pref = "" THEN NULL ELSE a.name, a.val)

ProcUnkAttr(c, a) ==
  IF LookUp(c, Ctxid(c), a) \in {XMLNS, V} THEN RegAttr(c, a) ELSE c

-----------------------------------------------------------------------------
(* Contexts *)

InitCtxcb(c) == [c EXCEPT !.pool = [i \in 1..NPool |-> NoCtx]]

(* Mutant: the record is not given back to the pool. *)
PopStateLost(c) == IF c.state = <<>> THEN Fault(c, "null") ELSE [c EXCEPT !.state = Tail(@)]

PopState(c) ==
  IF c.state = <<>> THEN Fault(c, "null")
  ELSE [c EXCEPT !.state = Tail(@), !.pool = <<Head(c.state)>> \o @]

(* Mutant: every context starts to count anew. *)
PushStateAnew(c, otag) ==
  IF c.pool = <<>> THEN Fault(c, "null")
  ELSE [c EXCEPT !.pool  = Tail(@),
                 !.state = <<[otag |-> otag, cnt |-> 0, cns |-> 0]>> \o @]

(* A context that was the last to be left goes on counting, unless fields  *)
(* of another context and a fresh record say that it was left for good.    *)
PushState(c, otag) ==
  LET rest  == Tail(c.pool)
      away  == c.flds # <<>> /\ Last(c.flds).tpc # otag
      again == Head(c.pool).otag = otag /\ ~(away /\ Head(rest).cns = 0)
  IN  IF c.pool = <<>> \/ (away /\ rest = <<>>) THEN Fault(c, "null")
      ELSE [c EXCEPT !.pool  = rest,
                     !.state = <<[otag |-> otag, cnt |-> 0,
                                  cns |-> IF again THEN Head(c.pool).cns ELSE 0]>> \o @]

-----------------------------------------------------------------------------
(* Fields *)

Fld(tag, typ, tpc, cnt, val, n) ==
  [tag |-> tag, typ |-> typ, tpc |-> tpc, cnt |-> cnt, val |-> val, n |-> n]

(* __upd_rptb: the counter of the block is where counting back over the    *)
(* fields of the block, and of a child, leads; else a new one is added.    *)
RptbIdx(c) ==
  Len(c.flds) - c.state[1].cns
    - (IF Last(c.flds).tpc # c.state[1].otag THEN Head(c.pool).cns + 1 ELSE 0)

UpdRptb(c, tag) ==
  LET goon == c.state[1].cns > 0
  IN  CASE goon /\ (c.flds = <<>> \/ c.pool = <<>>) -> Fault(c, "index")
        [] goon /\ c.flds # <<>> /\ c.pool # <<>> /\ RptbIdx(c) \notin DOMAIN c.flds ->
             Fault(c, "index")
        [] goon /\ c.flds # <<>> /\ c.pool # <<>> /\ RptbIdx(c) \in DOMAIN c.flds
             /\ c.flds[RptbIdx(c)].tag = tag -> [c EXCEPT !.flds[RptbIdx(c)].n = @ + 1]
        [] OTHER -> [c EXCEPT !.flds =
                       Append(@, Fld(tag, "INT", c.state[1].otag, 0, NULL, 1))]

CheckRptblk(c) ==
  IF c.fault # "none" \/ Rptb(c.state[1].otag) = UNK THEN c
  ELSE UpdRptb(c, Rptb(c.state[1].otag))

(* Mutant: the field takes the context before that is replaced by the      *)
(* block it is optimised to.                                               *)
BangAttrEarly(c, tag, val) ==
  LET dup  == c.flds # <<>> /\ Last(c.flds).tag = tag
      otag == IF Orb(c.state[1].otag) = UNK THEN c.state[1].otag ELSE Orb(c.state[1].otag)
  IN  [c EXCEPT
         !.flds = Append(IF dup THEN Front(@) ELSE @,
                         Fld(tag, "OFF", c.state[1].otag, c.state[1].cnt % CntSize, val, 0)),
         !.state[1] = [otag |-> otag, cnt |-> @.cnt + 1, cns |-> @.cns + 1]]

(* bang_attr: a field with the tag of the last one replaces that. *)
BangAttr(c, tag, val) ==
  LET dup  == c.flds # <<>> /\ Last(c.flds).tag = tag
      otag == IF Orb(c.state[1].otag) = UNK THEN c.state[1].otag ELSE Orb(c.state[1].otag)
  IN  [c EXCEPT
         !.flds = Append(IF dup THEN Front(@) ELSE @,
                         Fld(tag, "OFF", otag, c.state[1].cnt % CntSize, val, 0)),
         !.state[1] = [otag |-> otag, cnt |-> @.cnt + 1, cns |-> @.cns + 1]]

ProcFixmlAttr(c, a) ==
  LET aid == LookUp(c, Ctxid(c), a)
  IN  CASE c.fault # "none" \/ c.state = <<>> \/ aid = UNK -> c
        [] c.fault = "none" /\ c.state # <<>> /\ aid \in {XMLNS, V} -> RegAttr(c, a)
        [] OTHER -> BangAttr(c, aid, a.val)

(* A message in a batch becomes a field, by fixc_add_fld with its rule for *)
(* types; any other is the type of the whole.                              *)
SetType(c, ctxid, mty) ==
  LET fld   == Fld(MSG_TYPE, "MSGTYP", BATCH, 1, mty, 0)
      first == Fld(MSG_TYPE, "MSGTYP", BATCH, 0, c.f35, 0)
  IN  CASE ctxid # BATCH \/ c.f35 = UNK -> [c EXCEPT !.f35 = mty]
        [] ctxid = BATCH /\ c.f35 = BATCH -> [c EXCEPT !.flds = Append(@, fld)]
        [] OTHER -> [c EXCEPT !.flds = <<first>> \o Append(@, fld), !.f35 = BATCH]

-----------------------------------------------------------------------------
(* Elements *)

(* Their attributes are looked at one after the other. *)
FixmlAttrs(c, as) ==
  LET f[n \in 0..Len(as)] == IF n = 0 THEN c ELSE ProcFixmlAttr(f[n - 1], as[n])
  IN  f[Len(as)]

UnkAttrs(c, as) ==
  LET f[n \in 0..Len(as)] == IF n = 0 THEN c ELSE ProcUnkAttr(f[n - 1], as[n])
  IN  f[Len(as)]

SaxBo(c, e) ==
  LET cid == Cid(Ctxid(c), e.name)
      mty == Mty(e.name)
  IN  CASE cid = FIXML -> PushState(InitCtxcb(c), FIXML)
        [] cid = UNK /\ mty = UNK -> c
        [] OTHER ->
             LET typed == IF cid = UNK THEN SetType(c, Ctxid(c), mty) ELSE c
                 inner == CheckRptblk(PushState(typed, IF cid = UNK THEN mty ELSE cid))
             IN  FixmlAttrs(inner, e.attrs)

(* Mutant: the name is looked up in the context that is being left. *)
SaxEoHere(c, e) ==
  LET cid == Cid(Ctxid(c), e.name)
      mty == Mty(e.name)
  IN  CASE c.state = <<>> -> Fault(c, "null")
        [] c.state # <<>> /\ cid = UNK /\ mty = UNK -> c
        [] c.state # <<>> /\ cid = UNK /\ mty # UNK /\ Ctxid(c) # BATCH /\ mty # c.f35 ->
             Fault(c, "abort")
        [] OTHER -> PopState(c)

SaxEo(c, e) ==
  LET ctxid == IF Len(c.state) > 1 THEN c.state[2].otag ELSE UNK
      cid   == Cid(ctxid, e.name)
      mty   == Mty(e.name)
  IN  CASE c.state = <<>> -> Fault(c, "null")
        [] c.state # <<>> /\ cid = UNK /\ mty = UNK -> c
        [] c.state # <<>> /\ cid = UNK /\ mty # UNK /\ ctxid # BATCH /\ mty # c.f35 ->
             Fault(c, "abort")
        [] OTHER -> PopState(c)

(* An element of no known name space may declare one: its attributes are   *)
(* looked at, and, if that did not help, looked at once more.              *)
Declare(c, e) ==
  LET d == UnkAttrs(c, e.attrs)
      f == IF e.attrs = <<>> /\ e.pref = "" /\ e.name = "FIXML"
           THEN [d EXCEPT !.ns[0].nsid = "50_SP2"] ELSE d
  IN  [f EXCEPT !.ver = f.ns[0].nsid]

ElSta(c, e) ==
  LET ns == PrefToNs(c, e.pref)
      d  == Declare(c, e)
  IN  CASE ns = NoIdx -> c
        [] ns = BadPref -> Fault(c, "null")
        [] ns \in DOMAIN c.ns /\ c.ns[ns].nsid \in Known -> SaxBo(c, e)
        [] OTHER -> IF d.ns[0].nsid \in Known THEN SaxBo(d, e) ELSE Declare(d, e)

ElEnd(c, e) ==
  LET ns == PrefToNs(c, e.pref)
  IN  CASE ns \in {NoIdx, BadPref} -> Fault(c, "null")
        [] ns \in DOMAIN c.ns /\ c.ns[ns].nsid \in Known -> SaxEo(c, e)
        [] OTHER -> c

-----------------------------------------------------------------------------
(* expat reads one document and calls back. *)

VARIABLES
  ctx,   \* the context
  doc,   \* the elements started so far, each with the index of its parent
  open   \* the indices of those that are open, innermost last

vars == <<ctx, doc, open>>

Init == ctx = Fresh /\ doc = <<>> /\ open = <<>>

Running == ctx.fault = "none"

Parent == IF open = <<>> THEN 0 ELSE Last(open)

StartElement(e) ==
  /\ Running /\ Len(doc) < MaxElts
  /\ Allowed(IF Parent = 0 THEN "" ELSE doc[Parent].elt.name,
             {doc[i].elt.name : i \in {j \in DOMAIN doc : doc[j].par = Parent}}, e.name)
  /\ ctx' = ElSta(ctx, e)
  /\ doc' = Append(doc, [elt |-> e, par |-> Parent])
  /\ open' = Append(open, Len(doc) + 1)

EndElement ==
  /\ Running /\ open # <<>>
  /\ ctx' = ElEnd(ctx, doc[Last(open)].elt)
  /\ open' = Front(open)
  /\ UNCHANGED doc

Next == EndElement \/ \E e \in Elements : StartElement(e)

Spec == Init /\ [][Next]_vars

-----------------------------------------------------------------------------
(* What a document says, element by element: whether it has a context of   *)
(* its own, that context, the context its contents are read in, and this   *)
(* with those it is in.                                                    *)
HasFld(in, e) == \E i \in DOMAIN e.attrs : Aid(in, e.attrs[i].name) \notin {UNK, XMLNS, V}

Nowhere == [own |-> FALSE, id |-> UNK, in |-> UNK, path |-> <<>>]

Entered(e, out) ==
  LET cid == Cid(out.in, e.name)
      id  == IF cid # UNK THEN cid ELSE Mty(e.name)
      in  == IF Orb(id) # UNK /\ HasFld(id, e) THEN Orb(id) ELSE id
  IN  IF id = UNK THEN [own |-> FALSE, id |-> UNK, in |-> out.in, path |-> out.path]
      ELSE [own |-> TRUE, id |-> id, in |-> in, path |-> <<in>> \o out.path]

ReadingOf(d) ==
  LET f[i \in 0..Len(d)] == IF i = 0 THEN Nowhere ELSE Entered(d[i].elt, f[d[i].par])
  IN  f

Reading == ReadingOf(doc)

(* What the attributes of a document say: field, value and context.        *)
Meant(o, y, a) ==
  LET aid == Aid(y.in, a.name)
  IN  IF ~y.own \/ y.id = FIXML \/ aid \in {UNK, XMLNS, V} THEN o
      ELSE Append(o, [tag |-> aid, val |-> a.val, tpc |-> y.in])

MeantBy(e, y, o) ==
  LET f[n \in 0..Len(e.attrs)] == IF n = 0 THEN o ELSE Meant(f[n - 1], y, e.attrs[n])
  IN  f[Len(e.attrs)]

AttrsOf(d) ==
  LET r == ReadingOf(d)
      f[i \in 0..Len(d)] == IF i = 0 THEN <<>> ELSE MeantBy(d[i].elt, r[i], f[i - 1])
  IN  f[Len(d)]

(* And what the fields that hold texts do. *)
Noted(o, f) ==
  IF f.typ = "OFF" THEN Append(o, [tag |-> f.tag, val |-> f.val, tpc |-> f.tpc]) ELSE o

OffsOf(s) ==
  LET f[n \in 0..Len(s)] == IF n = 0 THEN <<>> ELSE Noted(f[n - 1], s[n])
  IN  f[Len(s)]

(* Properties *)

(* No handler follows a NULL, leaves the array of fields or calls abort(), *)
(* but for the slot before the array: __upd_rptb counts one too far back   *)
(* where a child of the block has no counter of its own, or a field was    *)
(* replaced, and the block's counter may be the first field of all.        *)
NoFault ==
  Running \/ /\ ctx.fault = "index" /\ RptbIdx(ctx) = 0
             /\ ctx.flds[1].tag = Rptb(ctx.state[1].otag)

(* The contexts on the stack are those of the elements that are open.      *)
CtxIsPath ==
  Running => [i \in DOMAIN ctx.state |-> ctx.state[i].otag] = Reading[Parent].path

(* A message of a batch begins: its type comes before its fields.          *)
Begun(e, out) == out.in = BATCH /\ Cid(BATCH, e.name) = UNK /\ Mty(e.name) # UNK

(* How many attributes were meant before each message of a batch.          *)
Breaks(d) ==
  {Len(AttrsOf(SubSeq(d, 1, i - 1))) : i \in {j \in 1..Len(d) : Begun(d[j].elt, ReadingOf(d)[d[j].par])}}

(* No field is named twice in a row, unless at a break: bang_attr has the  *)
(* later one replace the other.                                            *)
Unrepeated(o, B) == \A n \in 1..(Len(o) - 1) : n \in B \/ o[n].tag # o[n + 1].tag

(* Every attribute of the document that names a field has become one, in   *)
(* document order, with its value and the context of its element, unless   *)
(* fields replace each other.                                              *)
AttrsKept ==
  Running /\ Unrepeated(AttrsOf(doc), Breaks(doc)) => OffsOf(ctx.flds) = AttrsOf(doc)

(* For every row of neighbouring blocks of one kind there is one counter,  *)
(* which says how many they are.                                           *)
CountersCount ==
  Running =>
    LET r    == Reading
        nums == SelectSeq(ctx.flds, LAMBDA f : f.typ = "INT")
        Sibs(i) == {j \in DOMAIN doc : doc[j].par = doc[i].par /\ r[j].own}
        Same(i, k) == \A j \in Sibs(i) : j \in i..k => r[j].id = r[i].id
        IsHead(i) == /\ r[i].own /\ Rptb(r[i].id) # UNK
                     /\ \A h \in Sibs(i) : h < i => ~Same(h, i)
        heads == SelectSeq([i \in DOMAIN doc |-> i], IsHead)
    IN  [k \in DOMAIN nums |-> [tag |-> nums[k].tag, n |-> nums[k].n]] =
          [k \in DOMAIN heads |->
             [tag |-> Rptb(r[heads[k]].id),
              n |-> Cardinality({j \in Sibs(heads[k]) : j >= heads[k] /\ Same(heads[k], j)})]]

(* They are right in one message whose repeating blocks are not optimised, *)
(* hold no components, repeating or not, and state a field each, if no     *)
(* field replaces another.                                                 *)
Flat ==
  LET r == Reading
  IN  /\ \A i \in DOMAIN doc :
            /\ Orb(r[i].id) = UNK
            /\ r[i].own => Rptb(r[doc[i].par].id) = UNK
            /\ Rptb(r[i].id) # UNK => HasFld(r[i].id, doc[i].elt)
      /\ Cardinality({i \in DOMAIN doc : r[i].own /\ r[i].id = Mty(doc[i].elt.name)}) <= 1
      /\ Unrepeated(AttrsOf(doc), Breaks(doc))

FlatCountersCount == Flat => CountersCount

(* The version of the message is the one the root states last; a bare root *)
(* is taken for 5.0 SP2.                                                   *)
IsDecl(a) == (a.pref = "" /\ a.name \in {"xmlns", "v"}) \/ a.pref = "xmlns"

Declares(a) == IsDecl(a) /\ NsId(a.val) \in Known

VersionStated ==
  Running /\ doc # <<>> =>
    LET root == doc[1].elt
        says == {i \in DOMAIN root.attrs : Declares(root.attrs[i])}
    IN  ctx.ver = IF says # {} THEN NsId(root.attrs[Max(says)].val)
                  ELSE IF root.attrs = <<>> /\ root.name = "FIXML" THEN "50_SP2" ELSE UNK

=============================================================================
