------------------------------ MODULE MCAssoc ------------------------------
(* Instance of Assoc for TLC: seven keys are enough for three expansions,     *)
(* from one bucket to eight, and their hash values collide in each size.      *)
EXTENDS Assoc

MCKeys == {"k1", "k2", "k3", "k4", "k5", "k6", "k7"}
MCHash == [k1 |-> 0, k2 |-> 2, k3 |-> 3, k4 |-> 5, k5 |-> 4, k6 |-> 13, k7 |-> 10]
=============================================================================
