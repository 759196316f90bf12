------------------------------- MODULE Extract -------------------------------
(***************************************************************************)
(* Which fields fixc_extr_ctxt and fixc_extr_ctxt_deep, fix.c, take from a *)
(* message whose fields have their contexts: from the sequence fs of the   *)
(* fields, each with its tpc and cnt, the indices of those to be copied.   *)
(***************************************************************************)
EXTENDS Integers, FiniteSets, Sequences, SequencesExt

(* Mutant: an occurrence begins with a position of 0, and only then. *)
NextOccurrenceAtZero(fs, c, j) ==
  /\ fs[j].tpc = c /\ fs[j].cnt = 0
  /\ \E h \in 1..(j - 1) : fs[h].tpc = c

(* The next occurrence begins where the positions in the context fall.     *)
NextOccurrence(fs, c, j) ==
  /\ fs[j].tpc = c
  /\ \E h \in 1..(j - 1) :
       /\ fs[h].tpc = c /\ fs[j].cnt < fs[h].cnt
       /\ \A k \in (h + 1)..(j - 1) : fs[k].tpc # c

(* Field i belongs to the n-th occurrence; of a negative n, to any. *)
OfNth(fs, c, n, i) ==
  /\ fs[i].tpc = c
  /\ n < 0 \/ Cardinality({j \in 1..i : NextOccurrence(fs, c, j)}) = n

(* fixc_extr_ctxt *)
Taken(fs, c, n) == {i \in DOMAIN fs : OfNth(fs, c, n, i)}

(* Mutant: the fields behind occurrences that were skipped count, too. *)
InsideAny(fs, all, c, below, n, i) ==
  \E j \in DOMAIN fs : /\ j < i /\ fs[j].tpc = c
                       /\ \A k \in (j + 1)..i : all[k].tpc \in below \ {c}

(* Between slot i and the last field taken of the context are none but     *)
(* fields of the contexts below.                                           *)
Inside(fs, all, c, below, n, i) ==
  \E j \in DOMAIN fs : /\ j < i /\ OfNth(fs, c, n, j)
                       /\ \A k \in (j + 1)..i : all[k].tpc \in below \ {c}

(* fixc_extr_ctxt_deep, below the contexts __ancestp finds below c.  The   *)
(* loop over the fields inside does not heed the number of fields: once in *)
(* it, it goes on in the slots behind the last field.                      *)
TakenDeep(fs, behind, c, below, n) ==
  LET all == fs \o behind
  IN  {i \in DOMAIN all :
         \/ i \in DOMAIN fs /\ (OfNth(fs, c, n, i) \/ Inside(fs, all, c, below, n, i))
         \/ i > Len(fs) /\ Last(fs).tpc \in below \ {c} /\ Inside(fs, all, c, below, n, i)}

(* It does not if it is not in the loop there, or the first of these slots *)
(* happens to end it.                                                      *)
EndsThere(fs, behind, c, below) ==
  \/ fs = <<>> \/ Last(fs).tpc \notin below \ {c}
  \/ behind = <<>> \/ Head(behind).tpc \notin below \ {c}

InOrder(fs, xs) == SelectSeq([i \in DOMAIN fs |-> i], LAMBDA i : i \in xs)

ExtrCtxt(fs, c, n) == InOrder(fs, Taken(fs, c, n))

ExtrCtxtDeep(fs, behind, c, below, n) ==
  InOrder(fs \o behind, TakenDeep(fs, behind, c, below, n))

=============================================================================
