---------------------------- MODULE MCBroadcast ----------------------------
(* A small instance of Broadcast. *)
EXTENDS Broadcast
=============================================================================
