--------------------------- MODULE MCCompensation ---------------------------
(* Three steps; the undos of two of them are commands. *)
EXTENDS Compensation

MCCompletedBy == [s \in Step |-> s]
MCTargetOf    == [s \in Step |-> s]

\* Two steps undone by the same command (two charges, each refunded).
MCSharedTarget == [s \in Step |-> IF s = "charge" THEN "refund" ELSE
                                  IF s = "deposit" THEN "refund" ELSE s]
=============================================================================
