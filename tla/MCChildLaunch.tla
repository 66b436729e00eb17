--------------------------- MODULE MCChildLaunch ---------------------------
(* Model checking run_child over the host. *)
EXTENDS ChildLaunch
=============================================================================
