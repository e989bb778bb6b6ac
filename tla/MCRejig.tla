------------------------------- MODULE MCRejig -------------------------------
(***************************************************************************)
(* Instances of Rejig for TLC.                                             *)
(***************************************************************************)
EXTENDS Rejig, ConfigurationAssignment

\* The assignments do not depend on the state: once per run is enough.
AtStart == phase = "populating" /\ allConfigurations = <<>>

\* ConfigurationAssignment.assign evens out the fragments (AssignEven), and
\* assignBalanceLoad keeps every fragment and bounds the load (BalanceBounded).
AssignmentsSound == AtStart => AssignEven /\ BalanceBounded
==============================================================================
