------------------------------- MODULE MCJobs -------------------------------
(* Instances of Jobs for TLC: at most one single job and one batch whose    *)
(* children are k1 and, where there are two, another.                       *)
EXTENDS Jobs

CONSTANTS k1, named, v2file

MCParent == [k \in Kids |-> CHOOSE b \in Batches : TRUE]
MCIndex  == [k \in Kids |-> IF k = k1 THEN 1 ELSE 2]
MCEngine == [p \in Pipelines |-> IF p = named THEN "named"
                                 ELSE IF p = v2file THEN "v2file" ELSE "v2db"]

=============================================================================
