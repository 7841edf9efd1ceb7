----------------------------- MODULE MCReadTlps -----------------------------
(***************************************************************************)
(* The read engine for TLC: one reserved tag for fences, a few PCIe tags   *)
(* for reads, and a length field in which a read of the greatest length    *)
(* wraps to 0.  AFU tags are interchangeable, which the run of the safety  *)
(* properties uses and the run of the liveness property does not.          *)
(***************************************************************************)
EXTENDS ReadTlps, TLC

AfuTagSymmetry == Permutations(AfuTags)

=============================================================================
