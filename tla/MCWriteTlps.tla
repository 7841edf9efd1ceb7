---------------------------- MODULE MCWriteTlps -----------------------------
(***************************************************************************)
(* The write engine for TLC: two fence tags, and AFU tags that are         *)
(* interchangeable.                                                        *)
(***************************************************************************)
EXTENDS WriteTlps, TLC

AfuTagSymmetry == Permutations(AfuTags)

=============================================================================
