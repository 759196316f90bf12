---------------------------- MODULE EngineProofs -----------------------------
(* Proofs about Engine. *)
EXTENDS Engine, TLAPS

(* A pointer that leads into a module is one of a module that is open, and *)
(* the counts are numbers, so that one that is not 0 stays above it.       *)
Inv == TypeOK /\ NoDangling

LEMMA InitInv == Init => Inv
<1> SUFFICES ASSUME Init PROVE Inv
  OBVIOUS
<1>1. TypeOK
  BY DEF Init, TypeOK
<1>2. NoDangling
  BY EngineAssumption DEF Init, NoDangling
<1> QED
  BY <1>1, <1>2 DEF Inv

(* fixc_open_eng: a pointer is left where it was, in a module that has not *)
(* been closed since, or led into the module just opened.                  *)
LEMMA OpenInv ==
  ASSUME Inv, NEW e \in Engines, Open(e)
  PROVE  Inv'
<1>1. TypeOK'
  BY DEF Inv, TypeOK, Open
<1>2. ASSUME NEW f \in Engines, Loaded(f) \/ f = e
      PROVE  refs'[f] > 0
  BY <1>2 DEF Inv, TypeOK, Open, Loaded
<1>3. NoDangling'
  <2> SUFFICES ASSUME NEW h \in Hooks, hook'[h] \in Engines
               PROVE  refs'[hook'[h]] > 0
    BY DEF NoDangling, Loaded
  <2>1. CASE h \in Exports[e]
    <3>1. hook'[h] = e
      BY <2>1 DEF Open
    <3> QED
      BY <3>1, <1>2
  <2>2. CASE h \notin Exports[e]
    <3>1. hook'[h] = hook[h]
      BY <2>2 DEF Open
    <3>2. hook[h] \in Engines /\ Loaded(hook[h])
      BY <3>1 DEF Inv, NoDangling
    <3> QED
      BY <3>1, <3>2, <1>2
  <2> QED
    BY <2>1, <2>2
<1> QED
  BY <1>1, <1>3 DEF Inv

(* fixc_close_eng: no pointer leads into a module any more. *)
LEMMA CloseInv ==
  ASSUME Inv, NEW e \in Engines, Close(e)
  PROVE  Inv'
<1>1. TypeOK'
  BY DEF Inv, TypeOK, Close, Reset, Loaded
<1>2. NoDangling'
  BY EngineAssumption DEF Close, Reset, NoDangling
<1> QED
  BY <1>1, <1>2 DEF Inv

LEMMA NextInv == Inv /\ [Next]_vars => Inv'
<1> SUFFICES ASSUME Inv, [Next]_vars PROVE Inv'
  OBVIOUS
<1>1. CASE \E e \in Engines : Open(e)
  BY <1>1, OpenInv
<1>2. CASE \E e \in Engines : Close(e)
  BY <1>2, CloseInv
<1>3. CASE UNCHANGED vars
  BY <1>3 DEF Inv, TypeOK, NoDangling, Loaded, vars
<1> QED
  BY <1>1, <1>2, <1>3 DEF Next

(* However engines are opened and closed, whichever lookups they have, no  *)
(* pointer leads into one that has been unloaded.                          *)
THEOREM HooksLive == Spec => []NoDangling
<1>1. Inv => NoDangling
  BY DEF Inv
<1> QED
  BY <1>1, InitInv, NextInv, PTL DEF Spec

=============================================================================
