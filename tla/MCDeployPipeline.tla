-------------------------- MODULE MCDeployPipeline --------------------------
(* DeployPipeline on small instances.                                      *)
EXTENDS DeployPipeline, TLC

Symmetry == Permutations(Workers) \cup Permutations(PRs)
=============================================================================
