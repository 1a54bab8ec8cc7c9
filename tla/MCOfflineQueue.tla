--------------------------- MODULE MCOfflineQueue ---------------------------
(* A small instance of OfflineQueue. *)
EXTENDS OfflineQueue

CONSTANTS r1, ann, bob, nobody, none
=============================================================================
