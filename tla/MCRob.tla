------------------------------- MODULE MCRob --------------------------------
(***************************************************************************)
(* The reorder buffer for TLC, with 8 entries.  The payload that answers   *)
(* an entry is the entry's own index with its epoch bit, so no two         *)
(* payloads in the buffer, or left in its memory by the previous trip, are *)
(* alike.  num_valid has 2 bits instead of 3, so that it saturates with    *)
(* entries left to count.                                                  *)
(***************************************************************************)
EXTENDS Rob

MCData == t_epoch_idx
MCNoData == 2 * N_ENTRIES
MCResponse(e) == {e}

=============================================================================
