----------------------------- MODULE MCCoevent -----------------------------
(* Two workers and one pid, used twice.                                       *)
EXTENDS Coevent
=============================================================================
