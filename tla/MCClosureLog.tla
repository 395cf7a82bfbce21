---------------------------- MODULE MCClosureLog ----------------------------
(* One facility, two requests at a time. *)
EXTENDS ClosureLog, TLC

CONSTANTS f1, t1, t2

MCFacilities == {f1}
MCThreads == {t1, t2}
Symmetry == Permutations(MCThreads)

(* "Records are never rewritten [...] so the original entry stays           *)
(* auditable": an entry the operator was told is stored is in the list.     *)
AckedStaysListed == acked \subseteq Entered
=============================================================================
