-------------------------- MODULE MCPacketSendQueue --------------------------
(* Instances of PacketSendQueue for TLC; the .cfg files give the constants. *)
EXTENDS PacketSendQueue
=============================================================================
