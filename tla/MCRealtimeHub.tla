---------------------------- MODULE MCRealtimeHub ----------------------------
(* Small instances of RealtimeHub for TLC. *)
EXTENDS RealtimeHub, TLC

Symmetry == Permutations(Sockets) \cup Permutations(Users)
=============================================================================
