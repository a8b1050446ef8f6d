------------------------------- MODULE Access -------------------------------
(* Who may call an MCP server: the identity tables as sign-in, the portal's *)
(* administrators, SCIM and erasure write them, and the checks of the router *)
(* that read them while they change (runtime/router.py                       *)
(* _enforce_user_mcp_access and _authorize_action, portal/src/auth.ts).      *)
(*                                                                         *)
(* One user and one MCP server.  Every statement commits on its own, so a    *)
(* step of a sign-in or of a check is one statement.  The manifest's policy  *)
(* and its tenant (module Registry) are read once, at the start of a check,  *)
(* which takes them as they are then.   A check is of a call   *)
(* ("mcp") or of an action ("action"); `grants` stands for the table it      *)
(* reads, mcp_permissions or action_permissions.                             *)
EXTENDS Guards, Naturals

CONSTANTS Gates,           \* the policies that the manifest may have
          Logins, Checks,  \* sign-ins and checks in flight
          AdminRoles,      \* names that make is_admin in the portal's token
          MaxChanges       \* bound: administrators' statements, changes at the IdP, failures

ASSUME AccessAssumption ==
    /\ Gates \subseteq Policy
    /\ AdminRoles \subseteq Roles
    /\ MaxChanges \in Nat

VARIABLES db,      \* the tables: rows of users, user_roles, mappings, grants, servers
          idp,     \* groups that the identity provider asserts of the user
          session, \* the portal's token: a set with at most one record
          login, check, changes

vars == <<db, idp, session, login, check, changes>>

Self == "user"

Grantees == {Self} \cup Roles

Pairs == Groups \X Roles

\* user_roles has one row for a user and a role, with the source that made it.
Sources == {"none", "manual", "sso"}

Tables == [active : BOOLEAN, admin : BOOLEAN, person : BOOLEAN,
           assigned : [Roles -> Sources],
           ssoMap : SUBSET Pairs, scimMap : SUBSET Pairs,
           grants : SUBSET (Grantees \X {"whole", "other"})]

Token == [admin : BOOLEAN, groups : SUBSET Groups]

Ended == {"idle", "admitted", "refused"}

Stages == {"gateAssigned", "gateMapped", "admin", "user", "role", "group", "delegated"}

\* The ways to be let in: as an administrator, by a grant to oneself, by one
\* to a role one holds, by one to a role that a group one shows maps to.
Paths == ({"admin", "user"} \X {Self}) \cup ({"role"} \X Roles) \cup ({"group"} \X Pairs)

\* The entries that may satisfy a gate that names roles.
GatePaths == ({"role"} \X Roles) \cup ({"group"} \X Pairs)

Check == [pc : Ended \cup Stages, kind : {"mcp", "action"}, delegated : BOOLEAN,
          groups : SUBSET Groups, tool : BOOLEAN, gate : Policy,
          saw : BOOLEAN, kept : SUBSET Paths,
          sawGate : BOOLEAN, keptGate : SUBSET GatePaths,
          free : BOOLEAN, failed : BOOLEAN]

Login == [pc : {"idle", "resolve", "delete", "insert", "admin"},
          sso : BOOLEAN, claims : SUBSET Groups, mapped : SUBSET Roles,
          todo : SUBSET Roles, manual : SUBSET Roles, alone : BOOLEAN]

(***************************************************************************)
(* What the statements of a check find in the tables d.                     *)
(***************************************************************************)
Held(d) == {r \in Roles : d.assigned[r] # "none"}

\* A row covers a call when it lists no tools or lists this one; a check that
\* names no tool takes any row (_allowed_tools_clause).
Covered(d, who, c) ==
    \/ <<who, "whole">> \in d.grants
    \/ ~c.tool /\ <<who, "other">> \in d.grants

\* The roles of a group: both mapping tables for calls, SCIM's for actions.
Mapping(d, c) == IF c.kind = "mcp" THEN d.ssoMap \cup d.scimMap ELSE d.scimMap

AdminRow(d) == d.admin /\ d.active

\* Mutant: the grants of every role count, held or not.
RoleGrantOfAnyone(d, c) == \E r \in Roles : Covered(d, r, c)

RoleGrant(d, c) == \E r \in Held(d) : Covered(d, r, c)

GroupGrant(d, c) ==
    \E p \in Mapping(d, c) : p[1] \in c.groups /\ Covered(d, p[2], c)

Finds(d, stage, c) ==
    \/ stage = "admin" /\ AdminRow(d)
    \/ stage = "user" /\ Covered(d, Self, c)
    \/ stage = "role" /\ RoleGrant(d, c)
    \/ stage = "group" /\ GroupGrant(d, c)
    \/ stage = "delegated" /\ c.delegated /\ AdminRow(d)

GateFinds(d, stage, c) ==
    \/ stage = "gateAssigned" /\ Held(d) \cap c.gate.roles # {}
    \/ stage = "gateMapped" /\ \E p \in d.ssoMap \cup d.scimMap :
                                  p[1] \in c.groups /\ p[2] \in c.gate.roles

\* The order of the statements; a check that shows no groups skips theirs.
\* Mutant: the role statement is left out of the order.
AfterWithoutRole(stage, c) ==
    CASE stage = "admin" -> "user"
      [] stage = "user" -> IF c.groups # {} THEN "group" ELSE "refused"
      [] OTHER -> "refused"

After(stage, c) ==
    LET last == IF c.kind = "mcp" THEN "refused" ELSE "delegated"
    IN  CASE stage = "gateAssigned" /\ c.groups # {} -> "gateMapped"
          [] stage = "admin" -> "user"
          [] stage = "user" -> "role"
          [] stage = "role" -> IF c.groups # {} THEN "group" ELSE last
          [] stage = "group" -> last
          [] OTHER -> "refused"

(***************************************************************************)
(* The grants that cover the call in the tables d, and the entries that     *)
(* satisfy the manifest's gate: what the properties measure a check by.      *)
(***************************************************************************)
PathsOf(d, c) ==
    {p \in Paths :
       \/ p[1] = "admin" /\ d.admin /\ d.active /\ (c.kind = "mcp" \/ c.delegated)
       \/ p[1] = "user" /\ Covered(d, Self, c)
       \/ p[1] = "role" /\ d.assigned[p[2]] # "none" /\ Covered(d, p[2], c)
       \/ /\ p[1] = "group" /\ p[2][1] \in c.groups
          /\ p[2] \in d.scimMap \/ (c.kind = "mcp" /\ p[2] \in d.ssoMap)
          /\ Covered(d, p[2][2], c)}

GatePathsOf(d, c) ==
    {p \in GatePaths :
       \/ p[1] = "role" /\ p[2] \in c.gate.roles /\ d.assigned[p[2]] # "none"
       \/ /\ p[1] = "group" /\ p[2] \in d.ssoMap \cup d.scimMap
          /\ p[2][1] \in c.groups /\ p[2][2] \in c.gate.roles}

\* A check in flight takes note of the tables at every instant.
Watched(c, d) ==
    IF c.pc \in Ended THEN c
    ELSE [c EXCEPT !.saw = @ \/ PathsOf(d, c) # {},
                   !.kept = @ \cap PathsOf(d, c),
                   !.sawGate = @ \/ GatePathsOf(d, c) # {},
                   !.keptGate = @ \cap GatePathsOf(d, c)]

\* A statement that leaves the tables d.
Tell(d) ==
    /\ db' = d
    /\ check' = [c \in Checks |-> Watched(check[c], d)]

\* The same from outside the sign-ins: those that already replaced the roles
\* are no longer alone if the roles change under them.
Disturbed(l, d) ==
    IF l.pc \in {"insert", "admin"} /\ d.assigned # db.assigned
    THEN [l EXCEPT !.alone = FALSE] ELSE l

Write(d) ==
    /\ Tell(d)
    /\ login' = [l \in Logins |-> Disturbed(login[l], d)]

Counting == changes < MaxChanges /\ changes' = changes + 1

(***************************************************************************)
(* The checks.                                                              *)
(***************************************************************************)
NoCheck == [pc |-> "idle", kind |-> "mcp", delegated |-> FALSE, groups |-> {},
            tool |-> FALSE, gate |-> Open, saw |-> FALSE, kept |-> {},
            sawGate |-> FALSE, keptGate |-> {}, free |-> FALSE, failed |-> FALSE]

\* A check that needs no statement is over; any other notes the tables from
\* its first instant on.
Opened(c) ==
    IF c.pc \in Ended THEN [NoCheck EXCEPT !.pc = c.pc, !.free = TRUE]
    ELSE [c EXCEPT !.saw = PathsOf(db, c) # {}, !.kept = PathsOf(db, c),
                   !.sawGate = GatePathsOf(db, c) # {}, !.keptGate = GatePathsOf(db, c)]

\* _enforce_user_mcp_access up to its first statement: a token, or the portal's
\* key on the user's behalf, which carries no is_admin; `visible`: the MCP is
\* shared or of the user's tenant.
BeginCall(k, token, delegated, tool, gate, visible) ==
    LET claim == token.admin /\ ~delegated
        shown == Allows(gate, {}, token.groups)
        start == CASE claim -> "admitted"
                   [] ~claim /\ visible /\ shown -> "admin"
                   [] ~claim /\ visible /\ ~shown /\ gate.roles # {} -> "gateAssigned"
                   [] OTHER -> "refused"
    IN  /\ check[k].pc \in Ended
        /\ check' = [check EXCEPT ![k] =
                       Opened([NoCheck EXCEPT !.pc = start, !.delegated = delegated,
                                              !.groups = token.groups, !.tool = tool,
                                              !.gate = gate])]
        /\ UNCHANGED <<db, idp, session, login, changes>>

\* _authorize_action up to its first statement; `listed`: the permissions of
\* the delegating key name the action.
BeginAction(k, token, delegated, listed) ==
    LET free == (token.admin /\ ~delegated) \/ (delegated /\ listed)
    IN  /\ check[k].pc \in Ended
        /\ check' = [check EXCEPT ![k] =
                       Opened([NoCheck EXCEPT !.pc = IF free THEN "admitted" ELSE "user",
                                              !.kind = "action", !.delegated = delegated,
                                              !.groups = token.groups])]
        /\ UNCHANGED <<db, idp, session, login, changes>>

\* One SELECT.  The gate opens the way to the grants; a grant ends the check.
\* A server without a row has no grants either (they are deleted with it).
Select(k) ==
    LET c == check[k]
        to == CASE GateFinds(db, c.pc, c) -> "admin"
                [] Finds(db, c.pc, c) -> "admitted"
                [] OTHER -> After(c.pc, c)
    IN  /\ c.pc \in Stages
        /\ check' = [check EXCEPT ![k].pc = to]
        /\ UNCHANGED <<db, idp, session, login, changes>>

\* A SELECT raises: no role names, no grant; only the last look of
\* _authorize_action is still made.
SelectFails(k) ==
    LET c == check[k]
        to == IF c.kind = "action" /\ c.pc # "delegated" THEN "delegated" ELSE "refused"
    IN  /\ c.pc \in Stages
        /\ Counting
        /\ check' = [check EXCEPT ![k].pc = to, ![k].failed = TRUE]
        /\ UNCHANGED <<db, idp, session, login>>

(***************************************************************************)
(* Signing in (portal/src/auth.ts).                                         *)
(***************************************************************************)
NoLogin == [pc |-> "idle", sso |-> FALSE, claims |-> {}, mapped |-> {},
            todo |-> {}, manual |-> {}, alone |-> TRUE]

Goes(l, rec) == login' = [login EXCEPT ![l] = rec]

\* upsertSsoUser as far as is_active, authorize as far as the password; a row
\* that was erased has neither the address nor a password.
SignIn(l, sso) ==
    /\ login[l].pc = "idle"
    /\ db.person /\ db.active
    /\ Goes(l, [NoLogin EXCEPT !.pc = IF sso THEN "resolve" ELSE "admin", !.sso = sso,
                               !.claims = IF sso THEN idp ELSE {}])
    /\ UNCHANGED <<db, idp, session, check, changes>>

\* applySSORoleMappings.
ResolveRoles(l) ==
    LET found == {r \in Roles : \E g \in login[l].claims : <<g, r>> \in db.ssoMap}
    IN  /\ login[l].pc = "resolve"
        /\ Goes(l, [login[l] EXCEPT !.pc = "delete", !.mapped = found])
        /\ UNCHANGED <<db, idp, session, check, changes>>

\* It catches its exceptions and answers no roles.
ResolveFails(l) ==
    /\ login[l].pc = "resolve"
    /\ Counting
    /\ Goes(l, [login[l] EXCEPT !.pc = "delete"])
    /\ UNCHANGED <<db, idp, session, check>>

\* Mutant: the roles that an administrator gave are deleted as well.
WithoutAnySource(assigned) == [r \in Roles |-> "none"]

WithoutSso(assigned) ==
    [r \in Roles |-> IF assigned[r] = "sso" THEN "none" ELSE assigned[r]]

ManualOf(d) == {r \in Roles : d.assigned[r] = "manual"}

\* The others that are replacing roles are disturbed.
DeleteSso(l) ==
    LET d == [db EXCEPT !.assigned = WithoutSso(@)]
    IN  /\ login[l].pc = "delete"
        /\ Tell(d)
        /\ login' = [k \in Logins |->
                       IF k = l
                       THEN [login[l] EXCEPT !.pc = IF login[l].mapped = {} THEN "admin"
                                                    ELSE "insert",
                                             !.todo = login[l].mapped,
                                             !.manual = ManualOf(db), !.alone = TRUE]
                       ELSE Disturbed(login[k], d)]
        /\ UNCHANGED <<idp, session, changes>>

\* INSERT ... ON CONFLICT DO NOTHING, one statement a role.
InsertRole(l, r) ==
    LET d == [db EXCEPT !.assigned[r] = IF @ = "none" THEN "sso" ELSE @]
        left == login[l].todo \ {r}
    IN  /\ login[l].pc = "insert" /\ r \in login[l].todo
        /\ Tell(d)
        /\ login' = [k \in Logins |->
                       IF k = l
                       THEN [login[l] EXCEPT !.todo = left,
                                             !.pc = IF left = {} THEN "admin" ELSE "insert"]
                       ELSE Disturbed(login[k], d)]
        /\ UNCHANGED <<idp, session, changes>>

\* The last SELECT, and the token with what it found and the groups.
TokenMinted(l) ==
    /\ login[l].pc = "admin"
    /\ session' = {[admin |-> Held(db) \cap AdminRoles # {}, groups |-> login[l].claims]}
    /\ Goes(l, NoLogin)
    /\ UNCHANGED <<db, idp, check, changes>>

\* Another statement raises: no token; the roles stay as far as they got.
SignInFails(l) ==
    /\ login[l].pc \in {"delete", "insert", "admin"}
    /\ Counting
    /\ Goes(l, NoLogin)
    /\ UNCHANGED <<db, idp, session, check>>

SessionEnds ==
    /\ session # {}
    /\ session' = {}
    /\ UNCHANGED <<db, idp, login, check, changes>>

(***************************************************************************)
(* Everybody else who writes the tables.                                    *)
(***************************************************************************)
\* PUT /api/admin/users/[id], one transaction: the manual roles are replaced,
\* is_active is set if given.  A role that is there from SSO violates the key
\* and undoes it all.
AdminPut(rs, act) ==
    /\ \A r \in rs : db.assigned[r] # "sso"
    /\ Write([db EXCEPT !.assigned = [r \in Roles |-> IF r \in rs THEN "manual"
                                                      ELSE IF @[r] = "manual" THEN "none"
                                                      ELSE @[r]],
                        !.active = IF act = {} THEN @ ELSE TRUE \in act])
    /\ UNCHANGED <<idp, session>>

\* PUT /api/admin/roles/[id], one transaction: the grants of a role are replaced.
AdminRole(r, kinds) ==
    /\ Write([db EXCEPT !.grants = {row \in @ : row[1] # r} \cup ({r} \X kinds)])
    /\ UNCHANGED <<idp, session>>

\* No code writes the grants of a user or those of actions: they are given and
\* taken by hand; and each grant may expire.
GrantComesOrGoes(row) ==
    /\ Write([db EXCEPT !.grants = IF row \in @ THEN @ \ {row} ELSE @ \cup {row}])
    /\ UNCHANGED <<idp, session>>

\* POST and DELETE /api/admin/tenants/[id]/sso-mappings.
AdminMap(p) ==
    /\ Write([db EXCEPT !.ssoMap = IF p \in @ THEN @ \ {p} ELSE @ \cup {p}])
    /\ UNCHANGED <<idp, session>>

\* PUT /scim/v2/Groups/{id}: the group's list of roles is replaced.
ScimPutGroup(g, rs) ==
    /\ Write([db EXCEPT !.scimMap = {p \in @ : p[1] # g} \cup ({g} \X rs)])
    /\ UNCHANGED <<idp, session>>

\* POST /scim/v2/Users finds the row by its address.
ScimUpsert(act) ==
    /\ db.person
    /\ Write([db EXCEPT !.active = act])
    /\ UNCHANGED <<idp, session>>

\* PATCH /scim/v2/Users/{id} finds it by id: active is what the body says and
\* TRUE if it says nothing; an address in the body is written.  With active
\* false it deactivates, and the roles of source scim that it deletes and the
\* sessions that it revokes are rows that nothing writes.
ScimPatch(act, address) ==
    /\ Write([db EXCEPT !.active = act, !.person = @ \/ (act /\ address)])
    /\ UNCHANGED <<idp, session>>

\* POST /privacy/erase: the sessions, then the row.
PrivacyErase(anonymize) ==
    /\ Write([db EXCEPT !.active = FALSE, !.person = @ /\ ~anonymize])
    /\ UNCHANGED <<idp, session>>

IdpChange(gs) ==
    /\ gs # idp
    /\ idp' = gs
    /\ UNCHANGED <<db, session, login, check>>

Administration ==
    /\ Counting
    /\ \/ \E rs \in SUBSET Roles : \E act \in {{}, {TRUE}, {FALSE}} : AdminPut(rs, act)
       \/ \E r \in Roles, kinds \in SUBSET {"whole", "other"} : AdminRole(r, kinds)
       \/ \E row \in Grantees \X {"whole", "other"} : GrantComesOrGoes(row)
       \/ \E p \in Pairs : AdminMap(p)
       \/ \E g \in Groups, rs \in SUBSET Roles : ScimPutGroup(g, rs)
       \/ \E act \in BOOLEAN : ScimUpsert(act) \/ ScimPatch(act, TRUE) \/ ScimPatch(act, FALSE)
       \/ \E anonymize \in BOOLEAN : PrivacyErase(anonymize)
       \/ \E gs \in SUBSET Groups : IdpChange(gs)

-----------------------------------------------------------------------------
Init ==
    /\ db \in Tables
    /\ idp \in SUBSET Groups
    /\ session = {}
    /\ login = [l \in Logins |-> NoLogin]
    /\ check = [c \in Checks |-> NoCheck]
    /\ changes = 0

SignInStep(l) ==
    \/ \E sso \in BOOLEAN : SignIn(l, sso)
    \/ ResolveRoles(l) \/ ResolveFails(l) \/ DeleteSso(l)
    \/ \E r \in Roles : InsertRole(l, r)
    \/ TokenMinted(l) \/ SignInFails(l)

CheckStep(k) ==
    \/ \E token \in session, delegated \in BOOLEAN, b \in BOOLEAN :
          \/ \E gate \in Gates, visible \in BOOLEAN :
                BeginCall(k, token, delegated, b, gate, visible)
          \/ BeginAction(k, token, delegated, b)
    \/ Select(k)
    \/ SelectFails(k)

Next ==
    \/ \E l \in Logins : SignInStep(l)
    \/ \E k \in Checks : CheckStep(k)
    \/ SessionEnds
    \/ Administration

Spec == Init /\ [][Next]_vars

(***************************************************************************)
(* Properties.                                                              *)
(***************************************************************************)
TypeOK ==
    /\ db \in Tables
    /\ idp \in SUBSET Groups
    /\ session \in SUBSET Token
    /\ login \in [Logins -> Login]
    /\ check \in [Checks -> Check]
    /\ changes \in 0 .. MaxChanges

\* However sign-ins, administrators and SCIM write between its statements: a
\* call or action that a check admits on a grant had a covering grant, and one
\* whose manifest names roles or groups had satisfied it, at some instant of
\* the check (router.py:2092, 2313).
AdmittedWasGranted ==
    \A k \in Checks :
       LET c == check[k]
       IN  (c.pc = "admitted" /\ ~c.free)
              => /\ c.saw
                 /\ \/ c.sawGate \/ ~Restricted(c.gate)
                    \/ c.groups \cap c.gate.groups # {}

\* A check that refuses without a failed statement did not overlook anybody:
\* no grant that covers the call held from its beginning to its end, or no
\* entry of the manifest's gate did.
HeldThroughoutIsAdmitted ==
    \A k \in Checks :
       LET c == check[k]
       IN  (c.pc = "refused" /\ ~c.free /\ ~c.failed)
              => \/ c.kept = {}
                 \/ /\ c.kind = "mcp" /\ Restricted(c.gate)
                    /\ c.groups \cap c.gate.groups = {}
                    /\ c.keptGate = {}

\* A sign-in through SSO that nobody disturbed while it replaced the roles
\* leaves exactly the roles its claims map to besides those that an
\* administrator gave ("SSO is authoritative for SSO-managed grants",
\* portal/src/auth.ts:290).
SignInIsAuthoritative ==
    \A l \in Logins :
       (login[l].pc = "admin" /\ login[l].sso /\ login[l].alone)
          => /\ {r \in Roles : db.assigned[r] = "sso"} \subseteq login[l].mapped
             /\ login[l].mapped \cup login[l].manual \subseteq Held(db)
=============================================================================
