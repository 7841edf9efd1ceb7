---------------------------- MODULE MCTaggedRam -----------------------------
(* Four tags, the first of them reserved, and two values to store.           *)
EXTENDS TaggedRam
=============================================================================
