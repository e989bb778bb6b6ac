------------------------------ MODULE MCRejigIQ ------------------------------
(***************************************************************************)
(* Instances of RejigIQ for TLC.                                           *)
(***************************************************************************)
EXTENDS RejigIQ, TLC

\* Clients of one kind, and servers, are interchangeable.
IQSymmetry == Permutations(Readers) \cup Permutations(Writers) \cup Permutations(Servers)
==============================================================================
