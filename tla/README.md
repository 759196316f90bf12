# libfixc in TLA+

A verification development for libfixc, a C library that reads FIX text and FIXML
documents into one kind of object, the message, and writes them again as either.
Modules are named for what they model; line numbers refer to the files under `src/`.

## 1. The system

| part | file | state it keeps | operations |
|---|---|---|---|
| message store | `fix.c`, `fix.h` | a message: header slots (8, 9, 10, 35), the array of fields, the `pr` area their texts lie in; array and `pr` share one block, at first the tail of the message, after the first growth a block on the heap | make, add/insert a field or a text, delete, read, copy, measure, free |
| FIX text parser | `fix.c` | the two-state parser (`KEY`, `VALUE`), its position, the tag of the value to come, kept in the slot behind the last field | `make_fixc_from_fix`, for FIXCOMP messages `__fixc_from_fixz` around zlib |
| extraction | `fix.c` | a position in the source message, an occurrence counter | `fixc_extr_ctxt`, `fixc_extr_ctxt_deep` |
| FIX renderer | `fix.c` | a buffer, the room left in it | `fixc_render_fix`, `fixc_render_fix_rndr` |
| FIXML reader | `fixml-rd.c` | name spaces (16), a stack of contexts from a pool of 16, the message being built | expat's callbacks `el_sta`, `el_end` |
| FIXML writer | `fixml-wr.c` | a stack of contexts from a pool of 16, the buffer | `fixc_fixup`, `fixc_render_fixml`, `fixc_render_fixml_rndr` |
| engine loader | `engdso.c` | ten process-wide pointers to lookup functions | `fixc_open_eng`, `fixc_close_eng` |
| tools | `fix2fixml.c`, `fixml2fix.c`, `test/cme-settle.c` | none of their own | main loops |
| tables | `*.xsl`, `fix50sp2_cme.xml` | none | perfect hashes from names to numbers and back |

The parser and the reader *make* messages; extraction, fixup and the interface change
them through `fixc_add_fld` and `fixc_add_tag`; renderers read them (and write their
header slots). Reader, extraction and writer ask the engine's lookups which component,
attribute or message type a name is. The library starts no threads and takes no locks; a
message belongs to one caller at a time. What makes it hard is elsewhere: sizes that are
estimated and not stored, offsets and indices that must survive moves, a parser that is
resumed at any byte, counters found by counting back, and fixed pools.

### What would make each part correct

* **store** - fields stay inside the array and texts inside the `pr` area whatever the
  sequence of calls; no insertion, deletion or move loses or mixes a text; the message
  is, to its readers, a list with insertion at an index and one rule about types.
* **parser** - the message holds exactly the fields of the text, wherever a compressed
  text was cut; the slots reserved for a plain text are enough; version and length are what
  the text states; a text is refused only for cause; the loop over chunks ends.
* **copies, extraction** - what is made of a message says what the message said, in memory
  that is large enough, whatever becomes of the message; the n-th occurrence and nothing
  else; no access behind the last field.
* **FIX renderer** - length and check sum are those of the bytes written; whatever the
  buffer, the output is cut off and never the buffer overrun.
* **FIXML reader** - the context is the path of open elements; counters of repeating
  blocks count; the pool suffices for documents of the schema.
* **FIXML writer** - the fixup finds the contexts that a text does not state; elements are
  closed in the order they were opened; what is written says what was read, if it is all in
  the buffer; no text is cut off in a buffer that grows.
* **engine** - a lookup never leads into an engine that has been closed.

The behaviours that are hard to test are listed, with the lines where they bite and the
properties that cover them, under "hazards" in `PROJECT.json`.

## 2. The modules

### FixSizes, FixMsg, MsgStore, MsgCalls, FieldList

`FixSizes` has the arithmetic: `NextPow2` is `__next_2power` in a word of `Bits` bits,
`Round` the macro `ROUND`.

`FixMsg` is the message as a record and each function of `fix.c` that changes or reads
one as an operator from messages to messages.

| in the model | in the code |
|---|---|
| `slot[8]`, `slot[9]`, `slot[10]`, `f35` | `f8`, `f9`, `f10`, `f35` |
| `nflds`, `flds[0..nflds-1]` | `nflds`, `flds` |
| `store` | `flds == these`, a block of its own, or NULL |
| `fspc` | `(pr - flds) / sizeof(*flds)`, the slots there are |
| `vspc` | the bytes that were allocated for `pr`; the code does not keep this number |
| `pz` | `pz` |
| `pr`, a function from offsets to texts | the bytes of `pr`; a `memcpy` over a text removes it |

A text is an abstract value with a length (`Size`) and, as the value of tag 35, a meaning
(`MtypOf`). `CheckSize` is `check_size` with its estimate `AllocdVspc` and its copy of the
first `pz` bytes; `AddFldAt`, `AddTagAt` and `DelFld` are the three ways of changing a
message, with the promotion of a message to a batch when a second type arrives. `FldRefused` and
`TagRefused` are the conditions under which a call answers -1. A field's `u` is the union: a
number, negative ones among them, or an offset.

`MsgStore` is the state machine: one message, made empty or left by the parser, and any
sequence of `AddFld`, `AddTag` and `Del` at any legal index and one past. `InSpace` guards
every action: what follows a store outside the `pr` area is not described (see what is said
on `__allocd_vspc`; it can only be false for a message still in its own block).

`MsgCalls` is the same machine with a variable `call` that records what the caller asked
for and was answered: the operation, the field or text, the index, whether the field refers
to a text it does not have, and 0 or -1.

`FieldList` is the abstract specification: a list of (tag, value) pairs, a type, and the
call; no memory. Nothing in it is left open: the call alone says at which index which entry goes
in, which is blanked or dropped, whether a type is stored in the message or the message becomes
a batch, and what is answered. `MsgCalls` implements it under the mapping `Contents`.

### FixParse

`make_fixc_from_fix` on a text. A byte is its distance to `'0'`. A document of the model
is a list of fields, and for a compressed one the fields the body inflates to, whether
the compressed bytes are intact, and the size of the buffer. One action per turn of
`anal()`'s loop:

| action | code |
|---|---|
| `Key` | `case KEY`, a separator found |
| `Value`, `ValueAtEnd` | `case VALUE`; the second is the jump to `succ` for the check sum |
| `Out` | `goto out` and the loop's end |
| `StartInflate` | the head of `__fixc_from_fixz` |
| `Fill`, `InflateFails` | one turn of its loop up to the call of `anal()` |
| `Return` | the return from `anal()`, to that loop or to `make_fixc_from_fix` |

zlib itself is outside: `inflate()` delivers the next bytes as long as the buffer has
room, reports the end with the last ones or after them, and for a damaged stream may fail
at any call. That and "fail at the latest when there is nothing left" is all the model
assumes. `NUL`s the parser writes into the text are modelled, because values are read back
as C strings. `check_size` appears by what it does to the number of slots; what it does
to memory is `FixMsg`'s. `Verify` is the lookup of a version (`__fix_verify`, generated: a set
of texts, all others are `VER_UNK`), `ParseLen` the conversion of the length: `strtol()` with its
blanks, sign and limits, then the cut to an `int32_t`. The widths are constants (`IntMax`,
`LongMax`).

`DocAssumption` says which texts there are: sequences of fields with keys of one to five
digits and values without separator and `NUL`. A plain text does not say `FIXCOMP`; one that does
has nothing but tags 8 and 9 before the compressed bytes, and these inflate to one message,
which its check sum ends. What happens to texts beyond that is in section 3.

### FixmlReader

`make_fixc_from_fixml` between two calls of expat: a document is a tree of elements with
attributes, and expat reports the start and the end of each, which are the two actions,
`StartElement` (`el_sta`) and `EndElement` (`el_end`). Everything the handlers call is an
operator from contexts (`struct __ctx_s` with its message) to contexts:

| in the model | in the code |
|---|---|
| `ns[0..NNs-1]`, `nns` | `ns[16]`, `nns`: index 0 is filled without being counted |
| `state`, innermost first | the list from `state` along `old_state` |
| `pool`, next one first | the list from `ctxcb_head` along `next`; records keep what they last held |
| `flds`, `f35`, `ver` | the fields of the message, its type and its version |
| `cnt` modulo `CntSize` | the `uint16_t` a position is stored in |
| `fault` | `"null"`: a NULL is followed; `"index"`: an index leaves `flds`; `"abort"`: `abort()` |

After a fault nothing is described. `NoCtx` is a record as `memset()` leaves it. The
lookups of the engine that the reader uses are constants (`Cid`, `Mty`, `Aid`, `Rptb`,
`Orb`), as is the comparison of prefixes (`Begins`), so names stay abstract. Insertion into
the message is `FixMsg`'s and appears here by its effect on the list of fields.
`BangAttr` reads the last field of a message that has none at `flds[-1]`: these are the
bytes of `nflds`, which is 0 then, and no tag.

`doc` and `open` are the document so far. `Reading` says what it means, element by element,
without stack, pool or counting back; the properties compare the two.

### Fixup, FixmlWriter

`Fixup` is `fixc_fixup`: a walk over the fields that gives each its context (`tpc`) and its
position in it (`cnt`).

| in the model | in the code |
|---|---|
| `stk`, innermost last | `static struct { ctx; idx } *stk` up to `stkp` |
| `room` | `stkz`, which survives the call, as the stack does |
| `streak`, `oos`, `last` | `streak`, `out_of_stack_p`, `last_ctx` of `fixc_fixup_some` |
| `Stay`, `EnterMessage`, `EnterBlock`, `Leave`, `Pass` | the ways one turn of the loop can go |
| `Some`, `EndSome` | `fixc_fixup_some` |
| `StartUser` | messages users define: no loop over contexts at all |

`FixmlWriter` is the renderer behind it, up to the last byte of the buffer. `w` holds the
stack of open elements (`state`) with the number of children each has so far, how many of
the pool's records are free, the buffer (`b`), and `xml`: what a reader of the text so far
would have seen were it all there, which only the properties look at. A call goes
through `CheckRoom` (`resz_rndr`), then one of `SkipCounter`, `OpenChild`, `CloseSibling`,
`OpenTop`, `OpenAgain` and `GoOn` (the alternatives of `__change_ctx` and of the loop
around it), `PushNext` for each element to be opened, `WriteAttr`, and at the end
`CloseAll` and `Footer`. `FirstWay` is the
search of `__change_ctx` for the elements between a context and one below it. `Height`
stands for a fact about the schema, not for code: how many levels of elements there are
below a context. `SchemaAssumption` says that the pool has records for them.

| in the model | in the code |
|---|---|
| `b.p`, `b.z` | `p` and `ep`, as offsets; `p` may pass `ep` |
| `Char` | `sputc`: stores nothing where `p + 1 >= ep` |
| `Chars` | `sncpy`: cuts off at `ep`; with `p > ep` the length it computes is negative |
| `Number` | `p += snprintf()`: what is added is the length the number would have had |
| `b.lost` | some of the text was cut off, or stored behind the end |
| `b.ran` | `memcpy()` was called with a negative length: nothing is done after that |
| `cntc` modulo `CntSize` | the `uint16_t` children are counted in; `Place` has the same of positions |

The bytes of a text are counted, not spelled. `Legible` says of which texts `xml` is what a
reader sees: nothing was lost, and there are fewer elements than make a count come back to 0.

`Known` is what the writer relies on: the fields it writes have contexts of their own, none
that is unknown and none that is an optimised block's. The fixup sees to it for messages
without contexts that the engine knows the fields of; a field nobody knows has the
context `UNK`, and it goes into whatever element is open, if any.

### RoundTrip

Puts `FixmlReader` in front of `FixmlWriter`: a document is read and its message rendered
again, either directly (`Direct`) or after the detour by a FIX text that drops all contexts
(`ByText`), which is what the two tools do one after the other. `Said` is the document as
the writer should write it, defined on the tree of elements alone; `Restores` compares.
The messages programs make by hand, as those of `src/test` do, are handed in as
`Messages`.

### Extract, MsgDerive

`Extract` has the two selections, `Taken` and `TakenDeep`, as operators from a
sequence of fields, and what lies in the slots behind it, to the indices taken.
`fixc_extr_ctxt_deep` advances its index in an inner loop (fix.c:1243) that does not look at
the number of fields; `EndsThere` says that it is not in that loop at the last field, or that
the slot behind ends it. `RoundTrip` compares the selections with the elements of the document
(`ExtractsNth`, `ExtractsDeep`), whatever context that slot has.

`MsgDerive` extends `MsgStore` by what is made of the message: a copy in the caller's
memory or an extract (`d`), between edits of the source (`EditSource`, any step of
`MsgStore`) and its end (`FreeSource`).

| in the model | in the code |
|---|---|
| `d.shared` | the copy's `flds` still points into the source (`fixc_msg_cpy`) |
| `stale` | the slots behind the last field that `fixc_del_fld` has left there, without their tags |
| `Leftovers` | what is in the slots behind these: memory never written, or used before |
| `d.bad` | a store beside the array, or a negative length |
| `d.tsz`, `MinZ`, `OptZ`, `FixcMsgZ` | `tsz`, `fixc_msg_minz`, `fixc_msg_optz`, `fixc_msg_z` |
| `d.says`, `d.sound` | for the properties: what was to be said; whether the source is one of which it can be asked, and no slot behind the last field was taken |

What a `memcpy()` of overlapping memory does is left open: `CopiedTexts` has the text whole
or gone.

### FixRender

`fixc_render_fix` and `fixc_render_fix_rndr` on a message of `MsgStore`. The buffer is the
set of the pieces that lie in it (a field, `8=`, `9=`, the length, the check sum), each with
its place and number of bytes; writing a piece removes those it runs into. `bsz`, `hdrz`,
`lenz`, `totz`, `blen` and `j` are the code's, `off` is where the text starts in the library's
buffer, `past` that something was written outside. The actions are the function's parts in
their order: `RenderHead`, `RenderType`, `RenderField` (with `resz_rndr`), `EndFields`,
`PasteLength`, `PasteSum`, and `FreeRndr`. `Layout` says what the text should be, from the
message alone; `Ends` is where in it each field should end. `Width` is the number of characters
of a number, with its sign.

### Engine

`fixc_open_eng` and `fixc_close_eng`: which function each of the pointers leads to, and how
often libltdl has each module open. libltdl is outside; that it counts, and unloads with
the last close, is all that is assumed.

### The proofs

| module | about |
|---|---|
| `SizeProofs` | lemmas on `NextPow2` and `Round`; `UpTo`, the induction over a recursive function |
| `MsgProofs` | `MsgStore`: types, room, texts; that it implements `FieldList` |
| `DeriveProofs` | what `CpyFlds` of `MsgDerive` makes of a source, and copies and extracts over time |
| `RenderProofs` | `FixRender`: what lies where in the buffer |
| `ParseProofs` | `FixParse`: where the parser stands, and what it has made of the fields before |
| `WriterProofs` | `Fixup` and `FixmlWriter` |
| `ReaderProofs` | `FixmlReader`: contexts, version and attributes |
| `EngineProofs` | `Engine` |

Section 4 says what they prove and how.

### How they are put together

    FixSizes <- FixMsg <- MsgStore <- MsgDerive, FixRender
                                   <- MsgCalls => FieldList      (INSTANCE, a refinement)
             <- FixParse
             <- Fixup <- FixmlWriter <- RoundTrip -> FixmlReader (INSTANCE), Extract

The modules `MC...` hold the instances for TLC. `FixSchema` is the schema that `MCFixmlReader`
and `MCRoundTrip` share: a message `SecDef` with a header, an instrument, that one with a
repeating block (`AID`), parties (`Pty`, repeating) with sub-parties (repeating), legs
(optimised and repeating) with names, market segments (`Mkt`, repeating) with trading rules that
repeat nothing themselves (`Trdg`) but hold ticks, which do, and batches of messages. What
`Trdg` is to `Mkt` the underlying instrument is to a position (fix50sp2_cme.xml:4602).
`BySchema` has the children of an element in the order of the schema.

An operator introduced by a comment "Mutant" is a faulty variant of the one that follows
it; replacing the latter by the former makes TLC report the property named with it in
`PROJECT.json`. Nothing else refers to these.

## 3. The runs

| run | checks | result |
|---|---|---|
| `msg_store` | `TypeOK`, `Fits`, `ValuesLive`, `ImplementsFieldList` on a message made empty and one made from text | hold |
| `parse` | `ParsedIsDoc`, `SlotsEnough`, `HeaderKept`, `RefusedForCause`, `Terminates` on plain texts and on one compressed message | hold |
| `reader` | `NoFault`, `CtxIsPath`, `AttrsKept`, `FlatCountersCount`, `VersionStated` on documents of the schema | hold |
| `reader_counters` | `CountersCount` with nested repeating blocks | violated |
| `fixml` | `TypeOK`, `StackInRoom`, `Known`, `WellFormed`, `NoFault`, `InContext`, `Restores`, `WholeText`, `Rendered`, `ExtractsNth`, `ExtractsDeep` on every document of six elements, directly and by way of a FIX text, and on messages programs make, in the library's buffer and in callers' that are large enough or too small | hold |
| `fixml_unknown` | `Restores` with a field nobody knows behind two parties | violated |
| `fixml_header` | `Restores` with the header's fields first | violated |
| `derive` | `ExtractLive`, `ExtractSays`, `HeapCopyKeeps`, `CopyInMemory` with the source edited and freed | hold |
| `derive_copy` | `SourceKept` for a message in one block | violated |
| `render` | `OwnWhole`, `CallerWhole`, `InBuffer`, `Released` for messages edited in any way | hold |
| `render_versioned` | `VersionedWhole` for a message with a version and no length | violated |
| `engine` | `NoDangling` | holds |

**Bounds.** In `msg_store`, `MaxFlds = 2` and `MaxPz = 16` stop *calls* on messages with more than two
fields or that would take `pz` past sixteen: states have up to four fields (a call that
promotes adds two), which is enough for three reallocations of the array (0, 1, 2, 4
slots), for insertion before, between and behind, for a promotion in each of these, and
for texts of 1 and 6 bytes to cross three sizes of the `pr` area (1, 8, 16 ...). The
parsed message is a text of fourteen bytes, rounded to blocks of 16 bytes and four slots
where the code has 128 and 32, so that it stays in its own block for one more field and
leaves it for two, or for a text. `Bits` only has to exceed the sizes that occur
(`WordAssumption`). The view of the run is the message: what becomes of it does not depend on
the last call, while the refinement is checked of every step.

Plain texts in `parse` have up to ten fields; keys with up to five digits, among them the tag of no
meaning and one beyond 16 bits; values containing `'='`; `FspcRnd = 1` takes away the slack
that rounding to 32 gives, so that `SlotsEnough` is about the rate of four bytes alone,
and texts of nothing but four-byte fields meet it exactly. Three versions are known and others
occur; `IntMax = 127` and `LongMax = 2047` have lengths that just fit, that are narrowed to
another number, and at which `strtol()` stops, with signs and blanks. Compressed texts are cut by
buffers of 21 sizes from 1 to 64 bytes, where the code has one of 1024, which puts a cut at each
position of keys, values and separators. At the code's rate such chunks would have no slots
reserved for them at all, and the code relies on the 32 of the rounding; the run has
`ZipRate = 1` and says nothing of the number of slots for compressed texts (see below).

`MaxElts` bounds the elements of a document. In `reader` there are seven: a batch of two messages with
three blocks, or one message with an instrument of up to four alternative names, or with up to
five parties, sub-parties, legs, segments and rules in any mixture of the schema. Messages
and parties may state nothing, so that a counter is the message's first field, and
parties one attribute, so that the next one's replaces it. `NNs = 16` as in
the code; `NPool = 6` where the code has 16, hardly more than the deepest document of the
schema opens, so that a lost record is missed at once.

In `fixml` documents have up to six elements: two of one block, each with one inside, in a
message, is the least that tells whether inner blocks are put in the right outer one.
`MinStk = 2` has the fixup's stack grow twice for the batch of five messages, and both a
stack that is new and one that was kept are tried; names and values are longer than the
averages the buffer's size is reckoned from, so that `resz_rndr` is called at several
places; callers' buffers have 4096 bytes, or 100, in which the header fits and nothing
else: there texts are cut off, and numbers take `p` past the end, from where `memcpy()` runs
away. `CntSize = 16` where the code has 65536: messages of 20 fields and of 21 elements go
beyond it.

In `derive` the source is edited up to three times (`MaxEdits`) in any order with copying,
extracting and freeing: enough to delete a field, put another in its place and extract, or to
make the array move while a copy is in use. Sources have one occurrence of a block within
another. `Leftovers` has memory of no meaning, a text's slot and a number's of contexts inside
the one extracted; deep extracts that run on into each of them are made, and left out of the
properties. `derive_copy` has thirteen fields of four bytes, the least of which the texts run
over their own copies with rounding to four slots and sixteen bytes.

In `render` two parsed texts, with values of 30 and 60 bytes, and an empty message are
edited with up to `MaxFlds = 2`; tags have four and five digits (a key of four is treated
specially), buffers of callers have each size at which something begins or ceases to fit,
from 41 bytes, the least in which tags 8, 9 and 35 have room whatever they say,
and the library's buffer comes to its last tenth for some messages and not for others. A
program may state a length of -1234, the longest that leaves `Released` its room, or -1234567890,
which takes all that can be left for one, and add a negative number.

Three engines, one with some of the lookups only, are each open up to three times
(`MaxRefs`).

Calls, documents and edits end: there is no deadlock check in runs where they do. Where
every state has a next call there is.

**Fairness.** `FixParse` has `WF_vars(Next)`, a call that can go on goes on; `RoundTrip` the
same of a call of the writer that has begun, while nobody has to begin one. These are
sequential programs that nothing preempts for good. `Rendered` then says that fixup and
renderer, two loops that do not advance in every turn (`Leave`, `CloseSibling`), come to an
end with every message, but for those in a caller's buffer that `memcpy()` runs away from
(`b.ran`): that call does not return.

### What the violated properties show

1. `CountersCount`. The counter of a row is searched a number of fields back that leaves
   out the children of earlier blocks. It is no better with children that do not repeat: for
   one of these `__upd_rptb` takes off a counter that it does not have, so of two positions with
   an underlying instrument each the second already gets a counter of its own.
   `FlatCountersCount` says where counters can be relied on, which is little: blocks hold no
   components at all, and each states a field; none is optimised (bang_attr changes
   the context of an optimised block, so that the next one is not taken for its neighbour); there is one
   message (a record of the pool may carry a count from one to the next); and no
   field is replaced by one of its tag (`Unrepeated`), as replaced fields are counted, too.
2. `Restores` in `fixml_unknown`. One field without a place sends the whole message through
   `fixc_fixup_some`, which counts on where a new occurrence begins: two parties are written
   as one element that has its attributes twice.
3. `Restores` in `fixml_header`. In a FIX text the header comes first; the message is no
   part of the header, so the writer closes the header and opens the message beside it.
   For this reason `ByText` in the `fixml` run is about texts in the order of the document,
   and `Proper` asks that a message states something before its components do.
4. `SourceKept`. A copy of a message in one block keeps the source's `flds`, and computes
   its `pr` from that: nothing lies in the caller's memory, and texts are moved within the
   source. Confirmed with the library itself: of 197 fields of 5 bytes the source's first
   is empty after the copy.
5. `VersionedWhole`. The room left for a body length that was not set is the length of the
   message's first text, and a field that no longer fits the library's buffer is dropped.

### Seen while modelling

What follows is in the models (the definitions named describe what the code does) and has
no run of its own; the properties that hold are stated so as to leave it out.

*Store and parser.* `__allocd_vspc` is right about every block `check_size` made (proved:
`RoomIsThere`), but a parsed message has `ROUND(len + 1, 128)` bytes and the function answers
the next power of two. The length `fixc_get_tag_data` reports is the distance to the next
field's text, which need not be the next text (`GetTagDataSize`). A second message type is not
inserted "before field IDX" (fix.h:203) by `fixc_add_fld_at`, as the first has just moved all
fields up (`Promote`): it goes to the index IDX of the list as it is then, so before the field
that was at IDX - 1, which is what `BecomeBatch` of `FieldList` says. A first type given as a
text of no or more than two characters is neither stored nor refused, where fix.h:206-208 has
"Upon failure a value <0": the answer is 0 and the type stays unknown (`SetType` of
`FieldList`). A version that is not among the known ones is lost, as `FIXC_VER_UNK` (`Verify`),
and a length that an `int32_t` does not hold becomes another (`Int32`). For a compressed text
one slot per eight bytes is reserved, not four: with enough fields shorter than that the slot
for the next tag is behind the array (`HasSlot`). The header's slots are reset with each chunk,
so that version and length of a message of more than one are lost; and the rule for a check sum
at the end of the bytes is applied at the end of each chunk, so that a second message in the
text is lost. The NULL "only entered upon zlib handling" is also what a plain text without a
check sum at its end gets (`Return` in `FixParse`).

*Reader.* Two neighbouring fields of one tag, from two elements of one attribute each, are taken
for one (`Unrepeated`). Counting back over a child that has no counter of its own, over a field
that was replaced, or over a block that states nothing, the index may be that of the slot before
the first field, which is outside the array: `flds[-1]` is read, and changed if it looks like
the counter (`NoFault` has the exception). The 65536th attribute of an element has position 0,
like the first of another element. The name space at index 0 is not counted, so that a second
one takes its place, and elements with a prefix for it end in a NULL. Documents that break the
schema are left out: starts and ends of elements decide by different contexts, so an element out
of place may leave its parent's context, and a message in a message ends in the `abort()` of
`sax_eo_FIXML_elt`.

*Fixup and writer.* The counter of an optimised block is not that of the context its fields
have, so it is written as an attribute (`counters` in `Written`). A message promoted to a batch
after the fact has fields with contexts in front and is not fixed up: the rest goes into an
element of context 0, as does a deleted field. A tag 35 met within the header's context has its
place there and begins no message. Fields of a message behind its components open a second
element of the message's name. Messages of a batch that state nothing vanish. `CloseAll` stops
at an element of context 0. A value longer than the doubled buffer is cut off (`ValLen` in the
run stays below). In a caller's buffer that is too small the text is cut off where it is full,
in the midst of a tag if need be, and the length returned does not tell; and where it is a
number that does not fit, `p` is moved by the whole length of it, past `ep`, the room for the
next number comes out negative, and the next name or text is copied by a `memcpy()` of a
negative length (`Number`, `Chars`). The newline of the declaration is stored without a look at
the end (`Header`). With 65536 children of one element its start tag is finished a second time
(`FinishParent`), and the 65536th field of one context begins another element (`Place`).

*Copies and extracts.* A deep extract whose last field is inside the context goes on with the
slots behind the last field, whether anything was deleted or not: with whatever that memory
holds, until a slot is of another context. A number found there is copied; so is a text of
length 0 under a tag found there; a field that was deleted has lost its tag and is refused, but
its context is still stored, behind the extract's last field (`TakenDeep`, `CpyFld`).
`ExtractLive` and `ExtractSays` are about extracts that end in time (`EndsThere`). Texts
inserted in front of others make a negative length (`d.bad`); a deleted field makes `__cpy_fld`
store beside the array. Two occurrences of one field each are merged (`Told`). A message type
within a batch, extracted, promotes the extract. The deep extract takes only direct children,
not "all subcontexts" (`FlatBelow`). Copying a message that was made and never written to reads
a NULL `pr` (the guard of `Copy`).

*FIX renderer.* Numbers are not in the estimate of the buffer (`AllTexts`); the length of a
body of more than 100000 bytes may be longer than the room left for it (`Short`); a caller's
buffer of less than 41 bytes may be overrun by the values of tags 9 and 35, which are written
without a look at the room; the NUL goes one past a text that fills
a caller's buffer exactly (`InBuffer` has both exceptions); a deleted field is rendered as
`0=`; after `resz_rndr` the mapping has `2 * bsz` bytes where `bsz + totz` are assumed;
`fixc_free_rndr` rounds down by less than 16 bytes, which is exceeded by a long first text in
front of an unset length (`Stated` in `Released`), and by a length of six characters or more, its
sign included, in a message whose body is short, as after deleting from it.

*Engine.* Closing one of two open engines puts the husks back for the lookups of the other,
too (`Reset`).

## 4. The proofs

What follows is proved for every value of the constants that meets the assumptions named.
Each property is also checked by a run, on an instance.

### The message store

`MsgProofs`: `TypeCorrect` (`Spec => []TypeOK`), `RoomIsThere` (`Spec => []Fits`),
`TextsSurvive` (`Spec => []ValuesLive`).

`Inv` is the conjunction of the predicates on messages, `WellTyped`, `InRoom`,
`TextsFound` and `TextsApart`, and the bounds. None is inductive alone. That a new text
does not run into an old one (`TextsApart`) needs that old ones end before `pz`, which is
part of it, and that the first `pz` bytes survive `check_size`; that the fields fit
(`InRoom`) needs the array that `check_size` makes to be the next power of two, hence that
it does not overflow the word; that the promotion cannot fail (and leave `AddFldAt` half
done) needs that a type in use is not of kind `OFF`, which is in `WellTyped`.

The argument goes by operators: one lemma for each of `CheckSize`, `Place`, `StoreStr`,
`InsertFld`, `InsertStr`, `Promote`, `PromoteIfType`, `AddFldAt`, `SetType`, `AddTagAt`,
`DelFld`, `MakeMsg` and `ParsedMsg` says that a good message becomes a good one and what it
does to `nflds` and `pz`; `NextGood` has one step per action. `Good` has a parameter: the
lemmas hold, without `TextsFound`, of a message whose texts a copy has moved over, too, which
`DeriveProofs` needs. Below them are the lemmas of `SizeProofs` on `NextPow2` (it exists, is
least, is monotone), proved from the well-foundedness of the naturals.

Assumptions: the constants have their types; what parsing leaves is as `IsParsed` says
(values apart and inside the text, at most one field in four bytes; of the parser the
latter is `PlainSlots`, below); no size reaches the end of `size_t` (`WordAssumption`).

`ListIsImplemented` (`CallSpec => ImplementsFieldList`), in the same module, is a refinement:
each step of `MsgCalls` is the step of `FieldList` that its call names, one lemma for each of
`CallAddFld`, `CallAddTag` and `CallDel` (`AddFldStep`, `AddTagStep`, `DelStep`). `Shown` is
what a message stands for; the lemmas say what each operator does to it: `CheckSize` nothing, as
it keeps fields and texts (`CheckSizeShown`), `StoreStr` nothing, as the new text overlaps no
old one, `Place` an insertion at the index, `Promote` an insertion in front. All of them need
that texts are live, so the refinement rests on `Inv`.

### Copies and extracts

`DeriveProofs`: `HeapCopiesKeep` (`DeriveSpec => []HeapCopyKeeps`), `CopiesFit`
(`DeriveSpec => []CopyInMemory`), `ExtractsLive` (`DeriveSpec => []ExtractLive`),
`ExtractsSay` (`DeriveSpec => []ExtractSays`).

`DInv` says that the source is good but for texts a copy has moved over (`SourceInv`), that
what is shared is a copy of a message in one block, and the four properties (`DerivedInv`).
That an extract is made of the source's own fields where
`EndsThere` says so is `NothingBehind`; what is in `stale` and `Leftovers` may be any fields.
Of a message on the heap all texts end before `pz` (`TextsApart`), so the `pz + 1` bytes
copied hold all of them. The sizes the interface names are no smaller than what is written
because the array has room for the fields (`InRoom`) and `ROUND` rounds up.

The first half of the module has what `__cpy_fld` does, field by field. `TagDataSize` is the
heart: between two texts `fixc_get_tag_data` takes the distance, which is no less than the
length of the first because texts in order do not overlap, and no more than the source's `pz`.
So `fixc_add_tag` stores the text whole (`AddBytesGood`), and the context is then stored in the
slot just filled (`SetContextGood`), which is there because no tag is refused: `InArray`, an
invariant of the source (`NextInArray`). `Sound` is the property's own hypothesis, not the
theorem's: of a source with deleted or prepended fields it is false, which is in section 3.

`CpyFlds` is a recursive function. That it is one at all (`UpToExists`), and that `Acc` holds
of it after each field (`CpyFldsGood`), are inductions, made by `UpTo`: if something that holds
of 0 did not hold up to `n`, there would be a least number of which it does not, by
`LeastElement`; both are in `SizeProofs`.
Assumptions, besides those of the message store: messages a source starts as are good and have
tags 8, 9, 10 and 35 in their slots (`SourceAssumption`, `InArray`); callers add no second type
(`NoBatchAssumption`; with one, `__cpy_fld` can be refused); `size_t` holds an extract of as
many fields and bytes as the bounds allow (`ExtractAssumption`).

### The FIX text parser

`ParseProofs`, for any texts, plain or compressed, and any sizes of the buffer that cuts what
inflates into chunks:

* `ReadSoFar`: `Spec => []ParseInv`
* `TextIsParsed`: `Spec => []ParsedIsDoc`
* `HeaderStays`: `Spec => []HeaderKept`
* `OnlyForCause`: `Spec => []RefusedForCause`
* `PlainSlots`: `Spec => [](doc.tail = <<>> => SlotsEnough)`

None of the properties says where the parser is while it works, and all of them depend on that.
`ParseInv` counts in fields: some `i` is the field that is next, and the parser is at its key
(`AtKey`), at its value (`AtValue`), or done, with all of the check sum's value or as much of it
as the last chunk had (`AtEnd`). What it has not looked at is as the text has it (`Unread`),
while what it has may hold `NUL`s; the `i - 1` fields before have their tags in `flds` and their
values in memory as C strings (`Found`, `Held`), and the header's slots say what the last field
of each tag said (`Slots`): the version `Verify` makes of it, the length `ParseLen` does, or, of
a compressed text, nothing if a chunk has begun since. There are three such states of affairs,
of a plain text (`PlainInv`), of the header in front of compressed bytes (`HeadInv`), and of the
fields that inflate (`BodyInv`), where memory ends wherever the last chunk did and `left` is the
rest.

This is inductive because a turn of the loop finds the first `=` or separator at or after `q`
and nothing else: `KeyFound` and `ValueFound` say that it is the one that ends the key or the
value of field `i`, whatever other `=` the value has, or that it has not come yet, in which case
the turn changes nothing but `phase` and the next chunk finds the parser in the same place.
`Stops` says that with all of the text there the parser returns at its end, or at the value of a
last field that is no check sum. `Fill` only appends, and no turn writes before `q`, so what is
held stays held (`HeldStays`). Where field `i` ends is the function `End`, with `e[i] = e[i - 1]
+ Len(FieldText(fs[i]))`; that there is one, and that the concatenation has the fields at these
places, are inductions by `UpTo` (`FlatExists`, `TextEnds`).

`RefusedForCause` needs of the invariant that a plain text's last separator is not found, so
that its last value is only taken as a check sum's (`PlainAt`); `PlainSlots` needs that
`PlainRate` bytes for each of the fields before lie before `q` (`RoomOfFields`) and that the
reserve is rounded up. `SlotsEnough` itself is about plain texts only: of compressed ones one
slot in eight bytes is reserved, and fields may have four.

Assumptions: texts are as `DocAssumption` says; each field of a plain one has the bytes one slot
is reserved for, which only a field without a value lacks (`RateAssumption`); the value that
says `FIXCOMP` is not empty (`CompAssumption`); the buffer has room for at least a byte
(`ChunkAssumption`).

### Fixup and writer

`WriterProofs`, for any tree of contexts and any messages:

* `TypesHold`: `Spec => []TypeOK`
* `StackFits`: `Spec => []StackInRoom`
* `TextIsWellFormed`: `Spec => [](Known => WellFormed)`
* `NoNullFollowed`: `Spec => [](Known /\ Few(w) => NoFault)`
* `FieldsInContext`: `Spec => [](Known => InContext)`
* `ContextsFound`: `Spec => [](Renderable => Known)`
* `RenderableIsRendered`: `Spec => [](Renderable => Known /\ WellFormed /\ InContext /\ (Few(w)
  => NoFault))`

`WellFormed` and `InContext` are about texts that are legible: a text that was cut off is not
claimed to be any XML. `Few`, fewer elements than make a count of children come back to 0, is
the part of that which `NoFault` needs as well; the buffer has no part in it.

The first two need no hypothesis. `Known` is one of the next three because without it they
are false: a field of context `UNK` can be met when no element is open. The last two discharge
it for the messages `fixc_render_fixml` is meant for, which `Renderable` describes as they are
handed in: those that have contexts (`Contexted`, as the reader leaves them), each with an
element of its own, and those that have none (`Bare`, as the FIX parser leaves them), whose
first field has a place in the message's type or leads to one that has. That
is so of every message of the run `fixml`, of documents, FIX texts of them and programs.

The invariant `IInv` has three parts. `FixInv` bounds the fixup's stack by the fields passed
(each entry was made at another field; a context that is left and entered again makes none
more), which with `chck_stk`'s power of two is the room. `AtField` says where the writer can be.
`WriteInv`, which holds while there are `Few` elements, is the interesting one: `Counted` says
that no count of children exceeds the number of elements, hence none comes back to 0; `Whole`
relates the records of the stack, those left in the pool, the elements that are open and the
start tag that is not closed yet; the n-th element has at most `NPool - n` levels below it,
which is why the pool suffices; `Settled` says that between fields the innermost element is that
of the last field, with nothing in it but attributes, and is what `WriteAttr` needs to write
into the right element; `Opening` that the elements still to be opened lead down to the next
field's context. None of the three properties is inductive: `InContext` needs `Settled`, that
needs `Opening`, and `Opening` that the way `FirstWay` finds is one of the tree. One lemma per
operator (`PushGood`, `PopGood`, `AttrGood`, `FinishParentGood`), one per action (`StepChild`,
...), and `BetweenGood` for the search of a way. No step takes elements away (`Longer`), so a
text that is `Few` has always been.

For `ContextsFound` the fixup has an invariant of its own, `FoundInv`. While it looks
(`LookInv`) every context on its stack has elements of its own: instead of a block optimised
to another, that one is entered. A field without a place is passed over once the stack has
been unwound, never the first. So `fixc_fixup_some`, which gives those passed over the context
of the field before (`SomeInv`), always finds one; that it does at the first field rests on the
first field's position being 0. Each block entered on the way to a field has a place for it
(`AncestHasPlace`, `EnteredFound`), so that the field stays there.

Assumptions: the tables name no batch as a component (`ContextsAssumption`, for `ContextsFound`);
a component is lower than what it is in and the tree of contexts is no deeper
than the pool (`SchemaAssumption`: with 16 records that is so of the FIX schema); the stack's
least size is not 0 (`StackAssumption`); the number of fields does not reach the end of the
word (`MessagesAssumption`). `RoundTrip` hands the writer what the reader makes, which is one
more set of such messages.

### The FIX renderer

`RenderProofs`, for messages made by any sequence of calls, of any number of fields and any
lengths of texts, any numbers, and buffers of any size:

* `RenderInvariance`: `RndrSpec => []RndrInv`
* `RenderedWhole`: `RndrSpec => []OwnWhole`
* `CallersWhole`: `RndrSpec => []CallerWhole`
* `InsideBuffer`: `RndrSpec => []InBuffer`
* `FoundAgain`: `RndrSpec => []Released`

The conditions of the properties (`Stated`, `AllTexts`, `Short`, the sizes) are those under
which the code is right; each one dropped is something "Seen while modelling" names.

The invariant has a predicate for each part of the function, `AtType`, `AtFields`, `AtLength`,
`AtSum` and `AtEnd`, which says what lies in the buffer, where, and what is left of it. That the
buffer suffices is the interesting part. Its size is reckoned as eight bytes for each field and
`pz`; a text takes its own bytes, a separator and a key of up to six. So the texts of the
message must not take more than `pz` bytes in all, which is so because they lie apart in the
`pr` area (`TextsApart`), with a `NUL` behind each, *and because no two fields have one text*.
The latter, `TextsOwn`, is an invariant of the message that nothing else needs, and the first
part of the module proves it of each operation (`PlaceOwned`, ..., `DelFldOwned`). `Packed` is
the argument: the sets of the offsets of the texts are disjoint, and within `0..pz`, hence so
are their sizes added up. `resz_rndr` doubles what is left behind the room in front and forgets
the room: `AtFields` has either case. Pieces are placed by `StoreField` and moved by `MoveUp`,
which need that what is written lies behind all that is there (`StoreBehind`). `FoundAgain`
needs of the whole only that the room for tag 9, once the length is in it, exceeds that by less
than twice the size of a pointer, for pointers of four bytes and of eight.

Assumptions, besides those of the message store: no name of a version is longer than
`FIX.5.0.SP2` (`NameAssumption`, from the table in `fixml-nsuri-rev.c`); the room for tag 9 is
rounded to eight bytes (`RoomAssumption`). That a parsed message has a text of its own for each
field (`TextsOwn` in `IsParsed`) is what the parser does: every field's offset is where it stood
in the text.

### The FIXML reader

`ReaderProofs`, for documents of any number of elements, any schema and any bounds on name
spaces and records:

* `PathFollowed`: `Spec => [](Sound(doc) => CtxIsPath)`
* `VersionFollowed`: `Spec => [](Sound(doc) /\ OneVersion(doc) => VersionStated)`
* `AttributesKept`: `Spec => [](Sound(doc) /\ AllClear(doc) => AttrsKept)`

`Reading` and `AttrsOf`, which the properties compare contexts and fields with, are recursive
over the document and know nothing of stacks; the proofs unfold them by `UpTo`, as they do the
loops over attributes. `RInv` says that the open elements are each in the one before (`OpenInv`)
and that the stack's contexts are the path of the innermost of them (`PathInv`). The end of an
element pops the stack if its start pushed. This is not obvious: `el_sta` looks the name up in
the current context, `el_end` in the one around it, and, if the element has one of its own, that
is the same only since the context was pushed in between; if it has none, the end is looked up
one level further out than the start was. So `Sound`, which says what a document must be, has
(`Settled`) that what means nothing in a context means nothing one level out. It also has that
the root states a version (else elements are skipped at their start and not at their end, or the
other way round), that there are no prefixes (`Plain`), that an element within declares no name
space without a version, and that a block is optimised no more than once.

`VersionFollowed` rests on the root: while its attributes are looked at, once or twice, and name
spaces change places, the first of them has the version of one that has been looked at
(`UnkAttrsState`, `DeclareStates`), and no handler changes the version later (`VersionInv`), as
attributes within register name spaces only. `OneVersion` is needed: `ptx_reg_ns` puts a 5.0 in
front and a 4.4 behind, so of a root that states both it is not the last that counts. It also
says that of the root's attributes `xmlns` and `v`, and no others, are looked up as such
(`Aid`), as the generated table does.

`TellInv` says that the fields that hold texts tell what the attributes do (`Tells`). Counters
and types come between, in front and behind, and counters change: none of that tells anything
(`TellsAppend`, `TellsPushed`, `TellsCount`). `bang_attr` drops a field if the next one has its
tag, which `Unrepeated`, the condition of the property itself, excludes, but for where a message
of a batch begins (`Breaks`): there its type is the last field, unless the batch itself has no
type yet, so the invariant has (`TypedInv`) that a document with a batch has one. `AllClear` has
that a batch is a message and that an optimised element names the same fields under either name.
TLC finds that every document of up to six elements of the run `reader` is `Sound`, `OneVersion`
and `AllClear`, and that the invariants hold of each.

Assumption: there is a name space (`NNsAssumption`).

### The engine

`EngineProofs`: `HooksLive` (`Spec => []NoDangling`), from the invariant that adds only that
counts are naturals (a count that is not 0 is then still positive after another open), with
one lemma per action.

### Only model-checked

* Of the reader `NoFault` and `FlatCountersCount`. That `__upd_rptb` never counts back further
  than to the slot before the first field needs a relation between the counters of the pool's
  records and the number of fields since each context was entered, through blocks in blocks; the
  counters, which that is for, are right in flat documents only, as the run `reader_counters`
  shows.
* Of the extraction what `RoundTrip` says of it (`ExtractsNth`, `ExtractsDeep`), and of the
  writer `Restores`: they compare whole documents with each other by folds and selections
  (`Said`, `SelectSeq`), whose induction takes an operator as a parameter; and `Restores` is
  false of some messages.
* Of the writer `WholeText`: it is so of the names and values of a schema like FIX's, not of
  any: a tenth of the least buffer is the room left for one field with its elements, and these
  may be longer.
* Liveness (`Terminates`, `Rendered`), which is out of the prover's reach.

## 5. Not modelled, and the plan

Left out for good: `fixc_dump` and debugging output, alignment of the `pr` area, failures of
`malloc()` and `mmap()`. The first has no effect on state, the code assumes the others away.
A FIXCOMP text within a FIXCOMP text is not modelled (both levels would use the one static
buffer), nor a text that is no XML, for which the reader returns NULL, nor messages of
values `FIXC_TYP_CHAR`, `_LONG` and `_PTR`, which neither parser nor reader makes, nor
buffers of callers that have no room for tags 8 and 9.

The tools `fix2fixml` and `fixml2fix` map a file, call one parser and one renderer and write
the result: no state between files, and `RoundTrip` is their composition. `cme-settle` is a
program of the test directory. The tables are perfect hashes generated from the
specification of FIX, to the modules that use them a constant function. Of the engine
loader the search path is missing: libltdl keeps it.

Nothing else is planned. What could be proved further is `NoFault` of the reader, by the
relation between counters and fields that section 4 names.
