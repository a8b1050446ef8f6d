------------------------------ MODULE MCAccess ------------------------------
(* Two roles and a group: a manifest that asks for the role r1, and one that  *)
(* asks for nothing.  The user starts active, with at most two rows of roles  *)
(* by an administrator, mappings and grants, or none and the admin flag; the  *)
(* changes do the rest.                                                       *)
EXTENDS Access, FiniteSets

CONSTANTS r1, r2, g, l1, k1

GatesOf == {Open, [roles |-> {r1}, groups |-> {}]}

Start ==
    /\ Init
    /\ db.active /\ db.person /\ db.scimMap = {} /\ idp = Groups
    /\ db.grants \subseteq Grantees \X {"whole"}
    /\ \A r \in Roles : db.assigned[r] # "sso"
    /\ Cardinality(Held(db)) + Cardinality(db.ssoMap) + Cardinality(db.grants)
          + (IF db.admin THEN 2 ELSE 0) <= 2

MCSpec == Start /\ [][Next]_vars
=============================================================================
