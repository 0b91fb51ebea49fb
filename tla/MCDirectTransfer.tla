-------------------------- MODULE MCDirectTransfer --------------------------
(* DirectTransfer on a file of two blocks; the constants are in the cfg. *)
EXTENDS DirectTransfer
=============================================================================
