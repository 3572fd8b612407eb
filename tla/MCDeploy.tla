------------------------------ MODULE MCDeploy ------------------------------
(***************************************************************************)
(* Instances of DeploySessions for TLC.  Bonds, ids and goroutines are     *)
(* interchangeable, and the runs check safety only.                        *)
(***************************************************************************)
EXTENDS DeploySessions, TLC

DeploySymmetry ==
  Permutations(Bonds) \cup Permutations(SessionIds)
    \cup Permutations(OrderIds) \cup Permutations(Threads)
=============================================================================
