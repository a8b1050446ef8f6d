------------------------------ MODULE MCAudit ------------------------------
(* Instances of AuditChain for TLC: the session of a thread is its home in  *)
(* a run with two routers, s1 for both threads in a run with one.           *)
EXTENDS AuditChain

CONSTANTS t1, s1

MCSessionOf ==
  [t \in Threads |-> IF t = t1 \/ Sessions = {s1} THEN s1
                     ELSE CHOOSE s \in Sessions : s # s1]

=============================================================================
