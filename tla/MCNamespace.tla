---------------------------- MODULE MCNamespace ----------------------------
(* A small instance of Namespace for TLC: two workers of nsd. *)
EXTENDS Namespace, TLC

CONSTANTS w1, w2

SymWorkers == Permutations({w1, w2})
=============================================================================
