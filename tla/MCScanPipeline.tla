--------------------------- MODULE MCScanPipeline ---------------------------
(***************************************************************************)
(* Instances of ScanPipeline for TLC, in which every kind of transaction   *)
(* may be refused.                                                         *)
(***************************************************************************)
EXTENDS ScanPipeline

AllFaults == {"create", "audit", "mark", "persist", "score"}
=============================================================================
