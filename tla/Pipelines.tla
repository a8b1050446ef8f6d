------------------------------ MODULE Pipelines ------------------------------
(* The pipeline store under names of its own, so that it can be put beside   *)
(* the other parts of the platform.                                          *)

CONSTANTS Routers, Customers, \* router processes, and tenants with API keys
          Pipes, Shipped,     \* names of pipelines, and those with a file in the image
          MaxVersions, MaxMishaps

VARIABLES dbUp, conn, rows, data, mem, dbMem, named, author, filed, off, job, mishaps

S == INSTANCE PipelineStore WITH Replicas <- Routers, Tenants <- Customers, Names <- Pipes

ASSUME PipelinesAssumption == S!PipelineStoreAssumption

PipelinesSpec == S!Spec

\* See PipelineStore: a replica answers what the stores say.
LoadedAgrees == S!LoadedAgrees

\* See PipelineStore: no tenant is served what another one wrote.
OwnOrShared == S!OwnOrShared

\* See PipelineStore: a job runs what its creator was authorised for.
JobRunsWhatWasAccepted == S!JobRunsWhatWasAccepted
=============================================================================
