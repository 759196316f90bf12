----------------------------- MODULE MCFixParse -----------------------------
(* Texts for TLC.  Letters are their distances to '0'. *)
EXTENDS FixParse

A == 17
B == 18

MCComp     == <<22>>
MCVersions == {MCComp, <<B>>, <<A, B>>}

F(key, val) == [key |-> key, val |-> val]

Hd(ver, len) == <<F(<<8>>, ver), F(<<9>>, len)>>
Typ(t)       == <<F(<<3, 5>>, t)>>
Sum          == <<F(<<1, 0>>, <<0, 7, 1>>)>>

Text(fs) == [head |-> fs, tail |-> <<>>, body |-> <<>>, intact |-> TRUE]

(* Short values, a value with an equal sign in it, a tag of no meaning and *)
(* one that does not fit 16 bits.                                          *)
Some == { F(<<5, 8>>, <<A>>), F(<<4, 4>>, <<B, EQ>>), F(<<0>>, <<A>>),
          F(<<7, 0, 0, 0, 0>>, <<A>>) }
SomeSeqs == {<<>>} \union {<<f>> : f \in Some} \union {<<f, g>> : f \in Some, g \in Some}

Messages == { Hd(<<B>>, <<1, 2>>) \o Typ(t) \o fs \o Sum :
                t \in {<<A>>, <<A, B>>, <<A, B, A>>}, fs \in SomeSeqs }

(* Versions known and not; lengths with signs and blanks, and such that an *)
(* int32_t, and a long, just holds or does not hold.                       *)
Headers == { Hd(v, n) \o Sum :
               v \in {<<B>>, <<A>>, <<B, A>>},
               n \in {<<A>>, <<MINUS, 1>>, <<-16, PLUS, 2, A>>, <<1, 2, 7>>, <<1, 2, 8>>,
                      <<MINUS, 1, 2, 8>>, <<MINUS, 1, 2, 9>>, <<2, 0, 4, 8>>,
                      <<MINUS, 3, 0, 0, 0>>} }

(* Texts with next to nothing but fields of four bytes. *)
Tight == { Text([i \in 1..n |-> F(<<5>>, <<A>>)] \o <<F(<<1, 0>>, <<7>>)>>) : n \in 0..8 }

(* One message, two in a row, and one that ends before its check sum. *)
PlainDocs ==
  LET msgs == {Text(ms) : ms \in Messages}
      small == {ms \in Messages : Len(ms) = 5}
  IN  msgs \union Tight \union {Text(ms) : ms \in Headers} \union {Text(ms \o ns) : ms \in small, ns \in small}
           \union {Text(SubSeq(ms, 1, Len(ms) - 1)) : ms \in Messages}

Zipped(fs, ok) == [head |-> Hd(MCComp, <<5>>), tail |-> <<99, 98>>, body |-> fs, intact |-> ok]

Long == { F(<<5, 8>>, <<A, B, A, B>>), F(<<4, 4>>, <<B, EQ, A, B, B>>),
          F(<<7, 0, 0, 0, 0>>, <<A, A>>) }
LongMessage(fs) ==
  Hd(<<A, B>>, <<3, 5>>) \o Typ(<<A, B>>) \o fs \o Sum

ZipDocs == { Zipped(LongMessage(<<f, g, h>>), ok) : f \in Long, g \in Long, h \in Long, ok \in BOOLEAN }

AllDocs == PlainDocs \union ZipDocs

=============================================================================
