-------------------------- MODULE MCPipelineStore --------------------------
(* Pipelines for TLC: replicas and tenants are interchangeable.             *)
EXTENDS Pipelines, TLC

Symmetry == Permutations(Routers) \cup Permutations(Customers)
=============================================================================
