---------------------------- MODULE MCNativeClient ----------------------------
(***************************************************************************)
(* Instances of NativeClient for TLC; the .cfg files give the constants.   *)
(* The names of dials are interchangeable, and so are the callers, which   *)
(* all may call DialContext and DialPacket.  (No symmetry with liveness.)  *)
(***************************************************************************)
EXTENDS NativeClient, TLC
Symmetry == Permutations(Dials) \cup Permutations(Callers)
=============================================================================
