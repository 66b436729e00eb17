-------------------------- MODULE MCComponentHost --------------------------
(* Model checking the host's lifecycle on small pools and few calls. *)
EXTENDS ComponentHost, TLC

CallSymmetry == Permutations(Call)
=============================================================================
