-------------------------- MODULE MCReportingCache --------------------------
(* A small instance of ReportingCache. *)
EXTENDS ReportingCache

CONSTANTS c1, c2, north, south, east, none
=============================================================================
