---------------------------- MODULE MCCocarrier -----------------------------
(* Small instances of Cocarrier for TLC. *)
EXTENDS Cocarrier, TLC

CONSTANTS w1, w2, w3

TwoWorkers   == {w1, w2}
ThreeWorkers == {w1, w2, w3}

SymTwo   == Permutations(TwoWorkers)
SymThree == Permutations(ThreeWorkers)
=============================================================================
