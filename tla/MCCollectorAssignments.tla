----------------------- MODULE MCCollectorAssignments -----------------------
(* A small instance of CollectorAssignments. *)
EXTENDS CollectorAssignments

CONSTANTS ann, bob, client, route, never
=============================================================================
