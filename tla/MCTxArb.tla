------------------------------ MODULE MCTxArb -------------------------------
(***************************************************************************)
(* TxArb for TLC: packets of one or two beats and a short timeout.         *)
(***************************************************************************)
EXTENDS TxArb
=============================================================================
