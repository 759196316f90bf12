------------------------------- MODULE Engine --------------------------------
(***************************************************************************)
(* engdso.c: engines, modules opened at run time, and the process-wide     *)
(* pointers through which the rest of the library looks names up.  Each    *)
(* pointer leads to a husk, a function that finds nothing, or into an      *)
(* engine.  libltdl counts how often a module is open and unloads it with  *)
(* the last close.                                                         *)
(***************************************************************************)
EXTENDS Naturals

CONSTANTS
  Engines,   \* the modules that can be opened
  Hooks,     \* __get_cid, __get_aid, ...
  Exports,   \* [engine -> the hooks lt_dlsym finds a function for]
  Husk,      \* fixc_get_cid, fixc_get_aid, ... of the library itself
  MaxRefs    \* bound on how often a module is open at a time

ASSUME EngineAssumption ==
  /\ Husk \notin Engines
  /\ Exports \in [Engines -> SUBSET Hooks]
  /\ MaxRefs \in Nat

VARIABLES
  hook,  \* the pointers
  refs   \* how often each module is open; at 0 it is not in memory

vars == <<hook, refs>>

Init ==
  /\ hook = [h \in Hooks |-> Husk]
  /\ refs = [e \in Engines |-> 0]

Loaded(e) == refs[e] > 0

(* fixc_open_eng, of a module that can be opened. *)
Open(e) ==
  /\ refs[e] < MaxRefs
  /\ refs' = [refs EXCEPT ![e] = @ + 1]
  /\ hook' = [h \in Hooks |-> IF h \in Exports[e] THEN e ELSE hook[h]]

(* Mutant: one pointer is forgotten. *)
ResetButOne ==
  [h \in Hooks |-> IF h = CHOOSE g \in Hooks : TRUE THEN hook[h] ELSE Husk]

Reset == [h \in Hooks |-> Husk]

(* fixc_close_eng, by a caller who opened it. *)
Close(e) ==
  /\ Loaded(e)
  /\ refs' = [refs EXCEPT ![e] = @ - 1]
  /\ hook' = Reset

Next == \E e \in Engines : Open(e) \/ Close(e)

Spec == Init /\ [][Next]_vars

-----------------------------------------------------------------------------
TypeOK == hook \in [Hooks -> Engines \union {Husk}] /\ refs \in [Engines -> Nat]

(* No lookup leads into an engine that is no longer in memory. *)
NoDangling == \A h \in Hooks : hook[h] \in Engines => Loaded(hook[h])

=============================================================================
