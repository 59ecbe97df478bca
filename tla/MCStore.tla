------------------------------ MODULE MCStore -----------------------------
(***************************************************************************)
(* AssessmentStore for TLC: two workers, one finding and two identifiers   *)
(* to create, so that two insertions can race.                             *)
(***************************************************************************)
EXTENDS AssessmentStore, TLC

CONSTANT f1

MCOne == <<f1>>
MCSymmetry ==
  Permutations(Workers) \cup Permutations(Keys) \cup Permutations(Findings \ {f1})
=============================================================================
