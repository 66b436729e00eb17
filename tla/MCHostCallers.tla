--------------------------- MODULE MCHostCallers ---------------------------
(* Model checking stop() with two application threads and two workers. *)
EXTENDS HostCallers
=============================================================================
