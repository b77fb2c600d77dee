--------------------------- MODULE MCNav2Adapter ---------------------------
(* Instances of Nav2Adapter for TLC. *)
EXTENDS Nav2Adapter

=============================================================================
