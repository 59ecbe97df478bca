---------------------------- MODULE MCWorkspace ---------------------------
(***************************************************************************)
(* AssessmentWorkspace for TLC: two tabs on an assessment with two         *)
(* findings and one identifier to create.                                  *)
(***************************************************************************)
EXTENDS AssessmentWorkspace, TLC

CONSTANTS f1, f2

MCOne == <<f1>>
MCTwo == <<f1, f2>>
MCPayloads == 0..MaxStamp
MCKeys == 1..MaxStamp
MCSymmetry == Permutations(Workers) \cup Permutations(Tabs)
=============================================================================
