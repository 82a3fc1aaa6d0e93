-------------------------- MODULE MCUDPAssociations --------------------------
(* A small instance of UDPAssociations. *)
EXTENDS UDPAssociations, TLC

CONSTANTS c1, c2
Symmetric == Permutations(Calls)
=============================================================================
