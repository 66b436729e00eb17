------------------------- MODULE MCHostRegistration -------------------------
(* What a host is given, of two tables: a process manager and a projector. *)
EXTENDS HostRegistration, TLC

CONSTANTS t1, t2

MCKindOf       == (t1 :> "process_manager") @@ (t2 :> "projector")
MCNamesDomains == (t1 :> FALSE) @@ (t2 :> TRUE)
=============================================================================
