---------------------------- MODULE AccessProofs ----------------------------
(* Proofs about Access: however many checks and sign-ins are in flight, and    *)
(* whatever is written between their statements.                              *)
EXTENDS Access, TLAPS

(***************************************************************************)
(* The inductive invariant.                                                 *)
(***************************************************************************)
\* The manifest admits the caller, or some instant of the check satisfied it.
MeetsGate(c) ==
    \/ c.sawGate
    \/ ~Restricted(c.gate)
    \/ c.groups \cap c.gate.groups # {}

AtGate(c) == c.pc \in {"gateAssigned", "gateMapped"}

\* The kinds of paths that the statements before this one looked for; a check
\* of an action looks for an administrator last.
Tried(c) ==
    (CASE c.pc = "user" -> {"admin"}
       [] c.pc = "role" -> {"admin", "user"}
       [] c.pc = "group" -> {"admin", "user", "role"}
       [] c.pc = "delegated" -> {"user", "role", "group"}
       [] OTHER -> {}) \ (IF c.kind = "action" THEN {"admin"} ELSE {})

GateTried(c) == IF c.pc = "gateMapped" THEN {"role"} ELSE {}

\* What a check that is under way knows of the tables d: it took note of every
\* way in that there is, and of those that held from its beginning on none is
\* of a kind that it looked for.
InFlight(c, d) ==
    c.pc \in Stages =>
      /\ ~c.free
      /\ AtGate(c) => c.kind = "mcp" /\ ~Allows(c.gate, {}, c.groups)
      /\ ~AtGate(c) => MeetsGate(c)
      /\ c.pc = "admin" => c.kind = "mcp"
      /\ c.pc = "delegated" => c.kind = "action"
      /\ PathsOf(d, c) # {} => c.saw
      /\ GatePathsOf(d, c) # {} => c.sawGate
      /\ c.kept \subseteq PathsOf(d, c)
      /\ c.keptGate \subseteq GatePathsOf(d, c)
      /\ ~c.failed => /\ \A p \in c.kept : p[1] \notin Tried(c)
                      /\ \A p \in c.keptGate : p[1] \notin GateTried(c)

\* What the properties say of a check that is over.
Right(c) ==
    /\ c.pc = "admitted" /\ ~c.free => c.saw /\ MeetsGate(c)
    /\ c.pc = "refused" /\ ~c.free /\ ~c.failed =>
          \/ c.kept = {}
          \/ /\ c.kind = "mcp" /\ Restricted(c.gate)
             /\ c.groups \cap c.gate.groups = {}
             /\ c.keptGate = {}

\* A sign-in that has deleted the roles of SSO and was not disturbed since.
SignedIn(l, d) ==
    /\ l.todo \subseteq l.mapped
    /\ l.pc # "insert" => l.todo = {}
    /\ l.pc \in {"insert", "admin"} /\ l.sso /\ l.alone =>
          /\ {r \in Roles : d.assigned[r] = "sso"} \subseteq l.mapped
          /\ (l.mapped \ l.todo) \cup l.manual \subseteq Held(d)

IInv ==
    /\ TypeOK
    /\ \A k \in Checks : InFlight(check[k], db) /\ Right(check[k])
    /\ \A l \in Logins : SignedIn(login[l], db)

(***************************************************************************)
(* The ways in, and what the statements find of them.                       *)
(***************************************************************************)
\* They depend on nothing that the check itself changes.
LEMMA SamePaths ==
    ASSUME NEW d, NEW c, NEW e,
           e.kind = c.kind, e.delegated = c.delegated, e.groups = c.groups,
           e.tool = c.tool, e.gate = c.gate
    PROVE  PathsOf(d, e) = PathsOf(d, c) /\ GatePathsOf(d, e) = GatePathsOf(d, c)
  BY DEF PathsOf, GatePathsOf, Covered

\* A statement finds something when there is a way of its kind.
LEMMA FindsPath ==
    ASSUME NEW d \in Tables, NEW c \in Check, NEW stage \in {"admin", "user", "role", "group"},
           stage = "admin" => c.kind = "mcp"
    PROVE  Finds(d, stage, c) <=> \E p \in PathsOf(d, c) : p[1] = stage
  <1>1. Finds(d, stage, c) <=>
          \/ stage = "admin" /\ d.admin /\ d.active
          \/ stage = "user" /\ Covered(d, Self, c)
          \/ stage = "role" /\ \E r \in Roles : d.assigned[r] # "none" /\ Covered(d, r, c)
          \/ stage = "group" /\ \E p \in Mapping(d, c) : p[1] \in c.groups /\ Covered(d, p[2], c)
      BY DEF Finds, AdminRow, RoleGrant, GroupGrant, Held
  <1>2. CASE stage = "admin"
    <2>1. <<"admin", Self>> \in Paths
        BY DEF Paths
    <2> QED  BY <1>1, <1>2, <2>1 DEF PathsOf
  <1>3. CASE stage = "user"
    <2>1. <<"user", Self>> \in Paths
        BY DEF Paths
    <2> QED  BY <1>1, <1>3, <2>1 DEF PathsOf
  <1>4. CASE stage = "role"
    <2>1. \A r \in Roles : <<"role", r>> \in Paths
        BY DEF Paths
    <2>2. \A p \in Paths : p[1] = "role" => p[2] \in Roles
        BY DEF Paths
    <2>3. ASSUME NEW r \in Roles, d.assigned[r] # "none", Covered(d, r, c)
          PROVE  <<"role", r>> \in PathsOf(d, c)
      <3>1. <<"role", r>>[1] = "role" /\ <<"role", r>>[2] = r
          OBVIOUS
      <3> QED  BY <2>1, <2>3, <3>1 DEF PathsOf
    <2>4. ASSUME NEW p \in PathsOf(d, c), p[1] = "role"
          PROVE  p[2] \in Roles /\ d.assigned[p[2]] # "none" /\ Covered(d, p[2], c)
        BY <2>2, <2>4 DEF PathsOf
    <2>5. ASSUME NEW r \in Roles, d.assigned[r] # "none", Covered(d, r, c)
          PROVE  \E p \in PathsOf(d, c) : p[1] = stage
      <3>1. <<"role", r>> \in PathsOf(d, c) /\ <<"role", r>>[1] = stage
          BY <1>4, <2>3, <2>5
      <3> QED  BY <3>1
    <2> QED  BY <1>1, <1>4, <2>4, <2>5
  <1>5. CASE stage = "group"
    <2>1. \A p \in Pairs : <<"group", p>> \in Paths
        BY DEF Paths
    <2>2. \A p \in Paths : p[1] = "group" => p[2] \in Pairs
        BY DEF Paths
    <2>3. Mapping(d, c) \subseteq Pairs
        BY DEF Mapping, Tables
    <2>4. \A p : p \in Mapping(d, c) <=> p \in d.scimMap \/ (c.kind = "mcp" /\ p \in d.ssoMap)
        BY DEF Mapping, Check
    <2>5. ASSUME NEW p \in Mapping(d, c), p[1] \in c.groups, Covered(d, p[2], c)
          PROVE  \E q \in PathsOf(d, c) : q[1] = stage
      <3>1. <<"group", p>>[1] = "group" /\ <<"group", p>>[2] = p /\ <<"group", p>> \in Paths
          BY <2>1, <2>3
      <3>2. <<"group", p>> \in PathsOf(d, c)
          BY <2>4, <2>5, <3>1 DEF PathsOf
      <3> QED  BY <1>5, <3>1, <3>2
    <2>6. ASSUME NEW q \in PathsOf(d, c), q[1] = "group"
          PROVE  q[2] \in Mapping(d, c) /\ q[2][1] \in c.groups /\ Covered(d, q[2][2], c)
        BY <2>4, <2>6 DEF PathsOf
    <2> QED  BY <1>1, <1>5, <2>5, <2>6
  <1> QED  BY <1>2, <1>3, <1>4, <1>5

\* The look for an administrator that a check of an action ends with.
LEMMA DelegatedPath ==
    ASSUME NEW d, NEW c \in Check, c.kind = "action"
    PROVE  Finds(d, "delegated", c) <=> \E p \in PathsOf(d, c) : p[1] = "admin"
  <1>1. <<"admin", Self>> \in Paths
      BY DEF Paths
  <1> QED  BY <1>1 DEF Finds, AdminRow, PathsOf

LEMMA GateFindsPath ==
    ASSUME NEW d \in Tables, NEW c \in Check
    PROVE  /\ GateFinds(d, "gateAssigned", c) <=> \E p \in GatePathsOf(d, c) : p[1] = "role"
           /\ GateFinds(d, "gateMapped", c) <=> \E p \in GatePathsOf(d, c) : p[1] = "group"
           /\ \A stage : GateFinds(d, stage, c) => stage \in {"gateAssigned", "gateMapped"}
  <1>1. /\ \A r \in Roles : <<"role", r>> \in GatePaths
        /\ \A p \in GatePaths : p[1] = "role" => p[2] \in Roles
      BY DEF GatePaths
  <1>2. /\ \A p \in Pairs : <<"group", p>> \in GatePaths
        /\ \A p \in GatePaths : p[1] = "group" => p[2] \in Pairs
      BY DEF GatePaths
  <1>3. d.ssoMap \cup d.scimMap \subseteq Pairs
      BY DEF Tables
  <1>4. ASSUME NEW r \in Roles, d.assigned[r] # "none", r \in c.gate.roles
        PROVE  \E p \in GatePathsOf(d, c) : p[1] = "role"
    <2>1. <<"role", r>>[1] = "role" /\ <<"role", r>>[2] = r /\ <<"role", r>> \in GatePaths
        BY <1>1
    <2>2. <<"role", r>> \in GatePathsOf(d, c)
        BY <1>4, <2>1 DEF GatePathsOf
    <2> QED  BY <2>1, <2>2
  <1>5. ASSUME NEW p \in d.ssoMap \cup d.scimMap, p[1] \in c.groups, p[2] \in c.gate.roles
        PROVE  \E q \in GatePathsOf(d, c) : q[1] = "group"
    <2>1. <<"group", p>>[1] = "group" /\ <<"group", p>>[2] = p /\ <<"group", p>> \in GatePaths
        BY <1>2, <1>3
    <2>2. <<"group", p>> \in GatePathsOf(d, c)
        BY <1>5, <2>1 DEF GatePathsOf
    <2> QED  BY <2>1, <2>2
  <1>6. ASSUME NEW p \in GatePathsOf(d, c), p[1] = "role"
        PROVE  p[2] \in Roles /\ d.assigned[p[2]] # "none" /\ p[2] \in c.gate.roles
      BY <1>1, <1>6 DEF GatePathsOf
  <1>7. ASSUME NEW q \in GatePathsOf(d, c), q[1] = "group"
        PROVE  /\ q[2] \in d.ssoMap \cup d.scimMap
               /\ q[2][1] \in c.groups /\ q[2][2] \in c.gate.roles
      BY <1>7 DEF GatePathsOf
  <1>8. GateFinds(d, "gateAssigned", c) <=>
          \E r \in Roles : d.assigned[r] # "none" /\ r \in c.gate.roles
      BY DEF GateFinds, Held
  <1>9. GateFinds(d, "gateMapped", c) <=>
          \E p \in d.ssoMap \cup d.scimMap : p[1] \in c.groups /\ p[2] \in c.gate.roles
      BY DEF GateFinds
  <1>10. GateFinds(d, "gateAssigned", c) <=> \E p \in GatePathsOf(d, c) : p[1] = "role"
      BY <1>4, <1>6, <1>8
  <1>11. GateFinds(d, "gateMapped", c) <=> \E p \in GatePathsOf(d, c) : p[1] = "group"
      BY <1>5, <1>7, <1>9
  <1> QED  BY <1>10, <1>11 DEF GateFinds

\* The kinds of ways that there are.
LEMMA Kinds ==
    ASSUME NEW d, NEW c
    PROVE  /\ \A p \in PathsOf(d, c) : p[1] \in {"admin", "user", "role", "group"}
           /\ \A p \in GatePathsOf(d, c) : p[1] \in {"role", "group"}
           /\ c.groups = {} => \A p \in PathsOf(d, c) : p[1] # "group"
           /\ c.groups = {} => \A p \in GatePathsOf(d, c) : p[1] # "group"
  <1>1. \A p \in Paths : p[1] \in {"admin", "user", "role", "group"}
      BY DEF Paths
  <1>2. \A p \in GatePaths : p[1] \in {"role", "group"}
      BY DEF GatePaths
  <1> QED  BY <1>1, <1>2 DEF PathsOf, GatePathsOf

(***************************************************************************)
(* Statements of others.                                                    *)
(***************************************************************************)
LEMMA WatchedHolds ==
    ASSUME NEW c \in Check, NEW d, NEW b, InFlight(c, b), Right(c)
    PROVE  /\ Watched(c, d) \in Check
           /\ InFlight(Watched(c, d), d) /\ Right(Watched(c, d))
  <1> DEFINE e == Watched(c, d)
  <1>1. CASE c.pc \in Ended
    <2>1. e = c /\ c.pc \notin Stages
        BY <1>1 DEF Watched, Ended, Stages
    <2> QED  BY <2>1 DEF InFlight
  <1>2. CASE c.pc \notin Ended
    <2>1. e = [c EXCEPT !.saw = @ \/ PathsOf(d, c) # {},
                        !.kept = @ \cap PathsOf(d, c),
                        !.sawGate = @ \/ GatePathsOf(d, c) # {},
                        !.keptGate = @ \cap GatePathsOf(d, c)]
        BY <1>2 DEF Watched
    <2>2. /\ e.saw = (c.saw \/ PathsOf(d, c) # {}) /\ e.kept = c.kept \cap PathsOf(d, c)
          /\ e.sawGate = (c.sawGate \/ GatePathsOf(d, c) # {})
          /\ e.keptGate = c.keptGate \cap GatePathsOf(d, c)
          /\ e.pc = c.pc /\ e.kind = c.kind /\ e.delegated = c.delegated /\ e.groups = c.groups
          /\ e.tool = c.tool /\ e.gate = c.gate /\ e.free = c.free /\ e.failed = c.failed
        BY <2>1 DEF Check
    <2>3. PathsOf(d, e) = PathsOf(d, c) /\ GatePathsOf(d, e) = GatePathsOf(d, c)
        BY <2>2, SamePaths
    <2>4. e \in Check
      <3> DEFINE saw == c.saw \/ PathsOf(d, c) # {}
                 kept == c.kept \cap PathsOf(d, c)
                 sawGate == c.sawGate \/ GatePathsOf(d, c) # {}
                 keptGate == c.keptGate \cap GatePathsOf(d, c)
      <3>1. /\ saw \in BOOLEAN /\ sawGate \in BOOLEAN
            /\ kept \in SUBSET Paths /\ keptGate \in SUBSET GatePaths
          BY DEF Check
      <3>2. e = [c EXCEPT !.saw = saw, !.kept = kept, !.sawGate = sawGate, !.keptGate = keptGate]
          BY <2>1
      <3> HIDE DEF e, saw, kept, sawGate, keptGate
      <3> QED  BY <3>1, <3>2 DEF Check
    <2>5. Tried(e) = Tried(c) /\ GateTried(e) = GateTried(c) /\ AtGate(e) = AtGate(c)
        BY <2>2 DEF Tried, GateTried, AtGate
    <2>6. MeetsGate(c) => MeetsGate(e)
        BY <2>2 DEF MeetsGate
    <2> HIDE DEF e
    <2>7. InFlight(e, d)
        BY <2>2, <2>3, <2>5, <2>6 DEF InFlight
    <2>8. Right(e)
        BY <1>2, <2>2 DEF Right, Ended
    <2> QED  BY <2>4, <2>7, <2>8 DEF e
  <1> QED  BY <1>1, <1>2

\* A statement that is none of a sign-in's.
LEMMA DisturbedHolds ==
    ASSUME NEW l \in Login, SignedIn(l, db), NEW d
    PROVE  Disturbed(l, d) \in Login /\ SignedIn(Disturbed(l, d), d)
  <1> DEFINE e == Disturbed(l, d)
  <1>1. CASE l.pc \in {"insert", "admin"} /\ d.assigned # db.assigned
    <2>1. e = [l EXCEPT !.alone = FALSE]
        BY <1>1 DEF Disturbed
    <2>2. e.alone = FALSE /\ e.todo = l.todo /\ e.mapped = l.mapped /\ e.pc = l.pc
          /\ e.sso = l.sso
        BY <2>1 DEF Login
    <2>3. e \in Login
        BY <2>1 DEF Login
    <2> QED  BY <2>2, <2>3 DEF SignedIn
  <1>2. CASE ~(l.pc \in {"insert", "admin"} /\ d.assigned # db.assigned)
    <2>1. e = l
        BY <1>2 DEF Disturbed
    <2>2. SignedIn(l, d)
        BY <1>2 DEF SignedIn, Held
    <2> QED  BY <2>1, <2>2
  <1> QED  BY <1>1, <1>2

LEMMA TellHolds ==
    ASSUME IInv, NEW d \in Tables, Tell(d)
    PROVE  /\ db' \in Tables /\ check' \in [Checks -> Check]
           /\ \A k \in Checks : InFlight(check'[k], db') /\ Right(check'[k])
  <1>1. \A k \in Checks : check[k] \in Check
      BY DEF IInv, TypeOK
  <1>2. db' = d /\ check' = [k \in Checks |-> Watched(check[k], d)]
      BY DEF Tell
  <1>3. \A k \in Checks : /\ Watched(check[k], d) \in Check
                          /\ InFlight(Watched(check[k], d), d) /\ Right(Watched(check[k], d))
      BY <1>1, WatchedHolds DEF IInv
  <1> QED  BY <1>2, <1>3

LEMMA WriteHolds ==
    ASSUME IInv, NEW d \in Tables, Write(d), UNCHANGED <<idp, session>>, changes' \in 0 .. MaxChanges
    PROVE  IInv'
  <1>1. login' = [l \in Logins |-> Disturbed(login[l], d)] /\ Tell(d) /\ db' = d
      BY DEF Write, Tell
  <1>2. \A l \in Logins : Disturbed(login[l], d) \in Login /\ SignedIn(Disturbed(login[l], d), d)
      BY DisturbedHolds DEF IInv, TypeOK
  <1>3. login' \in [Logins -> Login] /\ \A l \in Logins : SignedIn(login'[l], db')
      BY <1>1, <1>2
  <1>4. TypeOK'
      BY <1>1, <1>3, TellHolds DEF IInv, TypeOK
  <1> QED  BY <1>1, <1>3, <1>4, TellHolds DEF IInv

(***************************************************************************)
(* The steps of a check.                                                    *)
(***************************************************************************)
\* A check that begins takes note of the ways there are.
LEMMA OpenedHolds ==
    ASSUME NEW c \in Check, c.pc \in Ended \cup {"gateAssigned", "admin", "user"}, ~c.free,
           AtGate(c) => c.kind = "mcp" /\ ~Allows(c.gate, {}, c.groups),
           c.pc \in {"admin", "user"} =>
               ~Restricted(c.gate) \/ c.groups \cap c.gate.groups # {},
           c.pc = "admin" => c.kind = "mcp",
           c.pc = "user" => c.kind = "action"
    PROVE  /\ Opened(c) \in Check
           /\ InFlight(Opened(c), db) /\ Right(Opened(c))
  <1> DEFINE e == Opened(c)
  <1>1. CASE c.pc \in Ended
    <2>1. e = [NoCheck EXCEPT !.pc = c.pc, !.free = TRUE]
        BY <1>1 DEF Opened
    <2>2. e.pc = c.pc /\ e.free
        BY <2>1 DEF NoCheck
    <2>3. Open \in Policy
        BY DEF Open, Policy
    <2>4. e \in Check
        BY <1>1, <2>1, <2>3 DEF NoCheck, Check
    <2>5. e.pc \notin Stages
        BY <1>1, <2>2 DEF Ended, Stages
    <2> HIDE DEF e
    <2>6. InFlight(e, db) /\ Right(e)
        BY <2>2, <2>5 DEF InFlight, Right
    <2> QED  BY <2>4, <2>6 DEF e
  <1>2. CASE c.pc \notin Ended
    <2>1. e = [c EXCEPT !.saw = PathsOf(db, c) # {}, !.kept = PathsOf(db, c),
                        !.sawGate = GatePathsOf(db, c) # {}, !.keptGate = GatePathsOf(db, c)]
        BY <1>2 DEF Opened
    <2>2. /\ e.saw = (PathsOf(db, c) # {}) /\ e.kept = PathsOf(db, c)
          /\ e.sawGate = (GatePathsOf(db, c) # {}) /\ e.keptGate = GatePathsOf(db, c)
          /\ e.pc = c.pc /\ e.kind = c.kind /\ e.delegated = c.delegated /\ e.groups = c.groups
          /\ e.tool = c.tool /\ e.gate = c.gate /\ e.free = c.free /\ e.failed = c.failed
        BY <2>1 DEF Check
    <2>3. PathsOf(db, e) = PathsOf(db, c) /\ GatePathsOf(db, e) = GatePathsOf(db, c)
        BY <2>2, SamePaths
    <2>4. PathsOf(db, c) \in SUBSET Paths /\ GatePathsOf(db, c) \in SUBSET GatePaths
        BY DEF PathsOf, GatePathsOf
    <2>5. e \in Check
        BY <2>1, <2>4 DEF Check
    <2>6. Tried(e) = {} /\ GateTried(e) = {} /\ AtGate(e) = AtGate(c)
        BY <1>2, <2>2 DEF Tried, GateTried, AtGate
    <2>7. c.pc \in {"admin", "user"} => MeetsGate(e)
        BY <2>2 DEF MeetsGate
    <2>8. c.pc \in {"gateAssigned", "admin", "user"}
        BY <1>2
    <2> HIDE DEF e
    <2>9. InFlight(e, db)
        BY <2>2, <2>3, <2>6, <2>7, <2>8 DEF InFlight, AtGate
    <2>10. Right(e)
        BY <2>2, <2>8 DEF Right
    <2> QED  BY <2>5, <2>9, <2>10 DEF e
  <1> QED  BY <1>1, <1>2

\* A check goes on: what it knows stays.
LEMMA GoesOn ==
    ASSUME NEW c \in Check, NEW to \in Ended \cup Stages, NEW d
    PROVE  LET e == [c EXCEPT !.pc = to]
           IN  /\ e \in Check
               /\ e.pc = to /\ e.saw = c.saw /\ e.kept = c.kept
               /\ e.sawGate = c.sawGate /\ e.keptGate = c.keptGate
               /\ e.kind = c.kind /\ e.groups = c.groups /\ e.gate = c.gate
               /\ e.free = c.free /\ e.failed = c.failed
               /\ PathsOf(d, e) = PathsOf(d, c) /\ GatePathsOf(d, e) = GatePathsOf(d, c)
  <1> DEFINE e == [c EXCEPT !.pc = to]
  <1>1. /\ e.pc = to /\ e.saw = c.saw /\ e.kept = c.kept
        /\ e.sawGate = c.sawGate /\ e.keptGate = c.keptGate
        /\ e.kind = c.kind /\ e.delegated = c.delegated /\ e.groups = c.groups
        /\ e.tool = c.tool /\ e.gate = c.gate /\ e.free = c.free /\ e.failed = c.failed
      BY DEF Check
  <1>2. PathsOf(d, e) = PathsOf(d, c) /\ GatePathsOf(d, e) = GatePathsOf(d, c)
    <2> HIDE DEF e
    <2> QED  BY <1>1, SamePaths
  <1>3. e \in Check
      BY DEF Check
  <1> QED  BY <1>1, <1>2, <1>3

\* A SELECT of the gate finds an entry.
LEMMA GateFound ==
    ASSUME db \in Tables, NEW c \in Check, InFlight(c, db), c.pc \in Stages,
           GateFinds(db, c.pc, c), NEW e, e = [c EXCEPT !.pc = "admin"]
    PROVE  e \in Check /\ InFlight(e, db) /\ Right(e)
  <1>1. c.pc \in {"gateAssigned", "gateMapped"} /\ GatePathsOf(db, c) # {}
      BY GateFindsPath
  <1>2. "admin" \in Ended \cup Stages
      BY DEF Stages
  <1>3. Tried(e) = {} /\ GateTried(e) = {} /\ ~AtGate(e) /\ MeetsGate(e)
    <2>1. c.sawGate /\ e.sawGate = c.sawGate /\ e.pc = "admin" /\ e.kind = c.kind
        BY <1>1, <1>2, GoesOn DEF InFlight
    <2> QED  BY <2>1 DEF Tried, GateTried, AtGate, MeetsGate
  <1>4. InFlight(e, db)
      BY <1>1, <1>2, <1>3, GoesOn DEF InFlight, AtGate
  <1>5. Right(e)
      BY <1>2, GoesOn DEF Right
  <1> QED  BY <1>2, <1>4, <1>5, GoesOn

\* A SELECT finds a grant.
LEMMA GrantFound ==
    ASSUME db \in Tables, NEW c \in Check, InFlight(c, db), c.pc \in Stages,
           Finds(db, c.pc, c), NEW e, e = [c EXCEPT !.pc = "admitted"]
    PROVE  e \in Check /\ InFlight(e, db) /\ Right(e)
  <1>1. "admitted" \in Ended \cup Stages /\ "admitted" \notin Stages
      BY DEF Stages, Ended
  <1>2. c.pc \in {"admin", "user", "role", "group", "delegated"}
      BY DEF Finds
  <1>3. PathsOf(db, c) # {}
    <2>1. CASE c.pc = "delegated"
        BY <2>1, DelegatedPath DEF InFlight
    <2>2. CASE c.pc # "delegated"
        BY <1>2, <2>2, FindsPath DEF InFlight
    <2> QED  BY <2>1, <2>2
  <1>4. c.saw /\ MeetsGate(c)
      BY <1>2, <1>3 DEF InFlight, AtGate
  <1>5. Right(e)
    <2>1. MeetsGate(e) /\ e.saw /\ e.pc = "admitted"
        BY <1>1, <1>4, GoesOn DEF MeetsGate
    <2> QED  BY <2>1 DEF Right
  <1>6. InFlight(e, db)
      BY <1>1, GoesOn DEF InFlight
  <1> QED  BY <1>1, <1>5, <1>6, GoesOn

\* A SELECT of the gate finds none.
LEMMA GateMissed ==
    ASSUME db \in Tables, NEW c \in Check, InFlight(c, db), c.pc \in Stages, AtGate(c),
           ~GateFinds(db, c.pc, c), NEW e, e = [c EXCEPT !.pc = After(c.pc, c)]
    PROVE  e \in Check /\ InFlight(e, db) /\ Right(e)
  <1>1. /\ c.kind = "mcp" /\ ~Allows(c.gate, {}, c.groups)
        /\ c.keptGate \subseteq GatePathsOf(db, c) /\ ~c.free
      BY DEF InFlight
  <1>2. Restricted(c.gate) /\ c.groups \cap c.gate.groups = {}
      BY <1>1 DEF Allows
  <1>3. CASE c.pc = "gateAssigned" /\ c.groups # {}
    <2>1. After(c.pc, c) = "gateMapped" /\ "gateMapped" \in Ended \cup Stages
        BY <1>3 DEF After, Stages
    <2>2. \A p \in c.keptGate : p[1] # "role"
        BY <1>1, <1>3, GateFindsPath
    <2>3. e.pc = "gateMapped" /\ e.kind = "mcp" /\ e.gate = c.gate /\ e.groups = c.groups
        BY <1>1, <2>1, GoesOn
    <2>4. Tried(e) = {} /\ GateTried(e) = {"role"} /\ AtGate(e)
        BY <2>3 DEF Tried, GateTried, AtGate
    <2>5. InFlight(e, db)
        BY <1>1, <2>1, <2>2, <2>3, <2>4, GoesOn DEF InFlight
    <2> QED  BY <2>1, <2>3, <2>5, GoesOn DEF Right
  <1>4. CASE ~(c.pc = "gateAssigned" /\ c.groups # {})
    <2>1. After(c.pc, c) = "refused" /\ "refused" \in Ended \cup Stages /\ "refused" \notin Stages
        BY <1>4 DEF After, Stages, Ended, AtGate
    <2>2. ~c.failed => c.keptGate = {}
      <3>1. \A p \in c.keptGate : p[1] \in {"role", "group"}
          BY <1>1, Kinds
      <3>2. CASE c.pc = "gateAssigned"
          BY <1>1, <1>4, <3>1, <3>2, GateFindsPath, Kinds
      <3>3. CASE c.pc = "gateMapped"
        <4>1. ~c.failed => \A p \in c.keptGate : p[1] # "role"
            BY <3>3 DEF InFlight, GateTried
        <4>2. \A p \in c.keptGate : p[1] # "group"
            BY <1>1, <3>3, GateFindsPath
        <4> QED  BY <3>1, <4>1, <4>2
      <3> QED  BY <3>2, <3>3 DEF AtGate
    <2>3. Right(e)
        BY <1>1, <1>2, <2>1, <2>2, GoesOn DEF Right
    <2>4. InFlight(e, db)
        BY <2>1, GoesOn DEF InFlight
    <2> QED  BY <2>1, <2>3, <2>4, GoesOn
  <1> QED  BY <1>3, <1>4

\* A SELECT finds no grant.
LEMMA GrantMissed ==
    ASSUME db \in Tables, NEW c \in Check, InFlight(c, db), c.pc \in Stages, ~AtGate(c),
           ~Finds(db, c.pc, c), NEW e, e = [c EXCEPT !.pc = After(c.pc, c)]
    PROVE  e \in Check /\ InFlight(e, db) /\ Right(e)
  <1> DEFINE last == IF c.kind = "mcp" THEN "refused" ELSE "delegated"
             to == After(c.pc, c)
  <1>1. /\ MeetsGate(c) /\ ~c.free /\ c.kept \subseteq PathsOf(db, c)
        /\ c.pc = "admin" => c.kind = "mcp"
        /\ c.pc = "delegated" => c.kind = "action"
        /\ c.kind \in {"mcp", "action"}
      BY DEF InFlight, Check
  <1>2. c.pc \in {"admin", "user", "role", "group", "delegated"}
      BY DEF Stages, AtGate
  <1>3. /\ c.pc = "admin" => to = "user"
        /\ c.pc = "user" => to = "role"
        /\ c.pc = "role" => to = IF c.groups # {} THEN "group" ELSE last
        /\ c.pc = "group" => to = last
        /\ c.pc = "delegated" => to = "refused"
      BY DEF After
  <1> HIDE DEF to
  <1>4. to \in {"user", "role", "group", "delegated", "refused"} /\ to \in Ended \cup Stages
      BY <1>2, <1>3 DEF Ended, Stages
  <1>5. \A p \in c.kept : p[1] # IF c.pc = "delegated" THEN "admin" ELSE c.pc
    <2>1. CASE c.pc = "delegated"
        BY <1>1, <2>1, DelegatedPath
    <2>2. CASE c.pc # "delegated"
        BY <1>1, <1>2, <2>2, FindsPath
    <2> QED  BY <2>1, <2>2
  <1>6. \A p \in c.kept : /\ p[1] \in {"admin", "user", "role", "group"}
                          /\ c.groups = {} => p[1] # "group"
      BY <1>1, Kinds
  <1>7. CASE to = "refused"
    <2>1. ~c.failed => c.kept = {}
      <3> SUFFICES ASSUME ~c.failed, NEW p \in c.kept PROVE FALSE
          OBVIOUS
      <3>1. p[1] \notin Tried(c)
          BY DEF InFlight
      <3>2. CASE c.pc = "delegated"
          BY <1>1, <1>5, <1>6, <3>1, <3>2 DEF Tried
      <3>3. CASE c.pc # "delegated"
        <4>1. c.kind = "mcp" /\ (c.pc = "group" \/ (c.pc = "role" /\ c.groups = {}))
            BY <1>1, <1>2, <1>3, <1>7, <3>3
        <4> QED  BY <1>5, <1>6, <3>1, <4>1 DEF Tried
      <3> QED  BY <3>2, <3>3
    <2>2. "refused" \notin Stages
        BY DEF Stages
    <2> QED  BY <1>4, <1>7, <2>1, <2>2, GoesOn DEF InFlight, Right, to
  <1>8. CASE to # "refused"
    <2>1. e.pc = to /\ e.kind = c.kind /\ to \in {"user", "role", "group", "delegated"}
        BY <1>4, <1>8, GoesOn DEF to
    <2>2. ~AtGate(e) /\ MeetsGate(e) /\ GateTried(e) = {}
        BY <1>1, <1>4, <2>1, GoesOn DEF AtGate, MeetsGate, GateTried, to
    <2>3. ~c.failed => \A p \in c.kept : p[1] \notin Tried(e)
      <3> SUFFICES ASSUME ~c.failed, NEW p \in c.kept PROVE p[1] \notin Tried(e)
          OBVIOUS
      <3>1. p[1] \notin Tried(c)
          BY DEF InFlight
      <3>2. c.pc # "delegated"
          BY <1>3, <1>8
      <3>3. CASE c.pc = "admin"
          BY <1>3, <1>5, <2>1, <3>3 DEF Tried
      <3>4. CASE c.pc = "user"
          BY <1>3, <1>5, <2>1, <3>1, <3>4 DEF Tried
      <3>5. CASE c.pc = "role"
          BY <1>1, <1>3, <1>5, <1>6, <1>8, <2>1, <3>1, <3>5 DEF Tried
      <3>6. CASE c.pc = "group"
          BY <1>1, <1>3, <1>5, <1>8, <2>1, <3>1, <3>6 DEF Tried
      <3> QED  BY <1>2, <3>2, <3>3, <3>4, <3>5, <3>6
    <2>4. e.pc = "delegated" => e.kind = "action"
        BY <1>1, <1>2, <1>3, <1>8, <2>1
    <2>5. InFlight(e, db)
        BY <1>1, <1>4, <2>1, <2>2, <2>3, <2>4, GoesOn DEF InFlight, to
    <2>6. Right(e)
        BY <2>1 DEF Right
    <2> QED  BY <1>4, <2>5, <2>6, GoesOn DEF to
  <1> QED  BY <1>7, <1>8

\* One check moves and nothing else.
LEMMA CheckHolds ==
    ASSUME IInv, NEW k \in Checks, NEW e \in Check, InFlight(e, db), Right(e),
           check' = [check EXCEPT ![k] = e], UNCHANGED <<db, idp, session, login>>,
           changes' \in 0 .. MaxChanges
    PROVE  IInv'
  <1>1. check' \in [Checks -> Check]
        /\ \A j \in Checks : check'[j] = IF j = k THEN e ELSE check[j]
      BY DEF IInv, TypeOK
  <1>2. \A j \in Checks : InFlight(check'[j], db) /\ Right(check'[j])
      BY <1>1 DEF IInv
  <1>3. TypeOK'
      BY <1>1 DEF IInv, TypeOK
  <1> QED  BY <1>2, <1>3 DEF IInv

LEMMA BeginCallHolds ==
    ASSUME IInv, NEW k \in Checks, NEW token \in session, NEW delegated \in BOOLEAN,
           NEW tool \in BOOLEAN, NEW gate \in Gates, NEW visible \in BOOLEAN,
           BeginCall(k, token, delegated, tool, gate, visible)
    PROVE  IInv'
  <1> DEFINE claim == token.admin /\ ~delegated
             shown == Allows(gate, {}, token.groups)
             start == CASE claim -> "admitted"
                        [] ~claim /\ visible /\ shown -> "admin"
                        [] ~claim /\ visible /\ ~shown /\ gate.roles # {} -> "gateAssigned"
                        [] OTHER -> "refused"
             c == [NoCheck EXCEPT !.pc = start, !.delegated = delegated,
                                  !.groups = token.groups, !.tool = tool, !.gate = gate]
  <1>1. check' = [check EXCEPT ![k] = Opened(c)] /\ UNCHANGED <<db, idp, session, login, changes>>
      BY DEF BeginCall
  <1>2. token \in Token /\ gate \in Policy
      BY AccessAssumption DEF IInv, TypeOK
  <1>3. /\ start \in Ended \cup {"gateAssigned", "admin"}
        /\ start = "admin" => shown
        /\ start = "gateAssigned" => ~shown
      BY DEF Ended
  <1> HIDE DEF start
  <1>4. /\ c.pc = start /\ c.kind = "mcp" /\ c.groups = token.groups /\ c.gate = gate
        /\ c.free = FALSE
      BY DEF NoCheck
  <1>5. c \in Check
      BY <1>2, <1>3 DEF NoCheck, Check, Token, Ended, Stages
  <1>6. shown => ~Restricted(gate) \/ token.groups \cap gate.groups # {}
      BY DEF Allows
  <1> HIDE DEF c, shown
  <1>7. AtGate(c) => ~Allows(c.gate, {}, c.groups)
      BY <1>3, <1>4 DEF AtGate, Ended, shown
  <1>8. c.pc # "user" /\ c.pc \in Ended \cup {"gateAssigned", "admin", "user"}
      BY <1>3, <1>4 DEF Ended
  <1>9. Opened(c) \in Check /\ InFlight(Opened(c), db) /\ Right(Opened(c))
      BY <1>3, <1>4, <1>5, <1>6, <1>7, <1>8, OpenedHolds
  <1> QED  BY <1>1, <1>9, CheckHolds DEF IInv, TypeOK

LEMMA BeginActionHolds ==
    ASSUME IInv, NEW k \in Checks, NEW token \in session, NEW delegated \in BOOLEAN,
           NEW listed \in BOOLEAN, BeginAction(k, token, delegated, listed)
    PROVE  IInv'
  <1> DEFINE free == (token.admin /\ ~delegated) \/ (delegated /\ listed)
             start == IF free THEN "admitted" ELSE "user"
             c == [NoCheck EXCEPT !.pc = start, !.kind = "action", !.delegated = delegated,
                                  !.groups = token.groups]
  <1>1. check' = [check EXCEPT ![k] = Opened(c)] /\ UNCHANGED <<db, idp, session, login, changes>>
      BY DEF BeginAction
  <1>2. token \in Token /\ Open \in Policy /\ ~Restricted(Open)
      BY DEF IInv, TypeOK, Open, Policy, Restricted
  <1>3. start \in {"admitted", "user"}
      OBVIOUS
  <1> HIDE DEF start
  <1>4. /\ c.pc = start /\ c.kind = "action" /\ c.gate = Open /\ c.free = FALSE
      BY DEF NoCheck
  <1>5. c \in Check
      BY <1>2, <1>3 DEF NoCheck, Check, Token, Ended, Stages
  <1> HIDE DEF c
  <1>6. ~AtGate(c) /\ c.pc # "admin" /\ c.pc \in Ended \cup {"gateAssigned", "admin", "user"}
      BY <1>3, <1>4 DEF AtGate, Ended
  <1>7. Opened(c) \in Check /\ InFlight(Opened(c), db) /\ Right(Opened(c))
      BY <1>2, <1>4, <1>5, <1>6, OpenedHolds
  <1> QED  BY <1>1, <1>7, CheckHolds DEF IInv, TypeOK

LEMMA SelectHolds ==
    ASSUME IInv, NEW k \in Checks, Select(k)
    PROVE  IInv'
  <1> DEFINE c == check[k]
             to == CASE GateFinds(db, c.pc, c) -> "admin"
                     [] Finds(db, c.pc, c) -> "admitted"
                     [] OTHER -> After(c.pc, c)
             e == [c EXCEPT !.pc = to]
  <1>1. /\ c.pc \in Stages /\ check' = [check EXCEPT ![k].pc = to]
        /\ UNCHANGED <<db, idp, session, login, changes>>
      BY DEF Select
  <1>2. c \in Check /\ InFlight(c, db) /\ db \in Tables
      BY DEF IInv, TypeOK
  <1>3. check' = [check EXCEPT ![k] = e]
      BY <1>1
  <1>4. e \in Check /\ InFlight(e, db) /\ Right(e)
    <2>1. CASE GateFinds(db, c.pc, c)
      <3>1. ~Finds(db, c.pc, c)
          BY <1>2, <2>1, GateFindsPath DEF Finds
      <3>2. to = "admin"
          BY <2>1, <3>1
      <3> QED  BY <1>1, <1>2, <2>1, <3>2, GateFound
    <2>2. CASE ~GateFinds(db, c.pc, c) /\ Finds(db, c.pc, c)
      <3>1. to = "admitted"
          BY <2>2
      <3> QED  BY <1>1, <1>2, <2>2, <3>1, GrantFound
    <2>3. CASE ~GateFinds(db, c.pc, c) /\ ~Finds(db, c.pc, c)
      <3>1. to = After(c.pc, c)
          BY <2>3
      <3> QED  BY <1>1, <1>2, <2>3, <3>1, GateMissed, GrantMissed
    <2> QED  BY <2>1, <2>2, <2>3
  <1> HIDE DEF e
  <1> QED  BY <1>1, <1>3, <1>4, CheckHolds DEF IInv, TypeOK

\* Only an action goes on after a failure, and then only to its last statement.
LEMMA SelectFailsHolds ==
    ASSUME IInv, NEW k \in Checks, SelectFails(k)
    PROVE  IInv'
  <1> DEFINE c == check[k]
             to == IF c.kind = "action" /\ c.pc # "delegated" THEN "delegated" ELSE "refused"
             e == [c EXCEPT !.pc = to, !.failed = TRUE]
  <1>1. /\ c.pc \in Stages /\ UNCHANGED <<db, idp, session, login>>
        /\ check' = [check EXCEPT ![k].pc = to, ![k].failed = TRUE] /\ Counting
      BY DEF SelectFails
  <1>2. c \in Check /\ InFlight(c, db) /\ check \in [Checks -> Check]
      BY DEF IInv, TypeOK
  <1>3. check' = [check EXCEPT ![k] = e]
      BY <1>1, <1>2
  <1>4. /\ to \in {"delegated", "refused"}
        /\ to = "delegated" => c.kind = "action" /\ ~AtGate(c)
      BY <1>1, <1>2 DEF InFlight
  <1> HIDE DEF to
  <1>5. /\ e.pc = to /\ e.failed = TRUE /\ e.saw = c.saw /\ e.kept = c.kept
        /\ e.sawGate = c.sawGate /\ e.keptGate = c.keptGate
        /\ e.kind = c.kind /\ e.delegated = c.delegated /\ e.groups = c.groups
        /\ e.tool = c.tool /\ e.gate = c.gate /\ e.free = c.free
      BY <1>2 DEF Check
  <1>6. e \in Check
      BY <1>2, <1>4 DEF Check, Ended, Stages
  <1> HIDE DEF e, c
  <1>7. PathsOf(db, e) = PathsOf(db, c) /\ GatePathsOf(db, e) = GatePathsOf(db, c)
      BY <1>5, SamePaths
  <1>8. ~AtGate(e) /\ e.pc # "admin"
      BY <1>4, <1>5 DEF AtGate
  <1>9. e.pc \in Stages => MeetsGate(e) /\ e.kind = "action"
      BY <1>1, <1>2, <1>4, <1>5 DEF MeetsGate, InFlight, Stages
  <1>10. InFlight(e, db)
      BY <1>1, <1>2, <1>5, <1>7, <1>8, <1>9 DEF InFlight
  <1>11. Right(e)
      BY <1>4, <1>5 DEF Right
  <1>12. changes' \in 0 .. MaxChanges
      BY <1>1, AccessAssumption DEF Counting, IInv, TypeOK
  <1> QED  BY <1>1, <1>3, <1>6, <1>10, <1>11, <1>12, CheckHolds

(***************************************************************************)
(* The steps of a sign-in.                                                  *)
(***************************************************************************)
\* One sign-in moves, and the tables stay.
LEMMA LoginHolds ==
    ASSUME IInv, NEW l \in Logins, NEW rec \in Login, SignedIn(rec, db), Goes(l, rec),
           UNCHANGED <<db, idp, check>>, session' \in SUBSET Token, changes' \in 0 .. MaxChanges
    PROVE  IInv'
  <1>1. login' \in [Logins -> Login]
        /\ \A j \in Logins : login'[j] = IF j = l THEN rec ELSE login[j]
      BY DEF Goes, IInv, TypeOK
  <1>2. \A j \in Logins : SignedIn(login'[j], db)
      BY <1>1 DEF IInv
  <1>3. TypeOK'
      BY <1>1 DEF IInv, TypeOK
  <1> QED  BY <1>2, <1>3 DEF IInv

\* One sign-in writes the roles, and disturbs the others.
LEMMA RolesHold ==
    ASSUME IInv, NEW l \in Logins, NEW d \in Tables, Tell(d),
           NEW rec \in Login, SignedIn(rec, d),
           login' = [k \in Logins |-> IF k = l THEN rec ELSE Disturbed(login[k], d)],
           UNCHANGED <<idp, session, changes>>
    PROVE  IInv'
  <1>1. \A k \in Logins : Disturbed(login[k], d) \in Login /\ SignedIn(Disturbed(login[k], d), d)
      BY DisturbedHolds DEF IInv, TypeOK
  <1>2. db' = d
      BY DEF Tell
  <1>3. login' \in [Logins -> Login] /\ \A k \in Logins : SignedIn(login'[k], db')
      BY <1>1, <1>2
  <1>4. TypeOK'
      BY <1>2, <1>3, TellHolds DEF IInv, TypeOK
  <1> QED  BY <1>3, <1>4, TellHolds DEF IInv

LEMMA NoLoginHolds == NoLogin \in Login /\ SignedIn(NoLogin, db)
  BY DEF NoLogin, Login, SignedIn

LEMMA SignInHolds ==
    ASSUME IInv, NEW l \in Logins, NEW sso \in BOOLEAN, SignIn(l, sso)
    PROVE  IInv'
  <1> DEFINE rec == [NoLogin EXCEPT !.pc = IF sso THEN "resolve" ELSE "admin", !.sso = sso,
                                    !.claims = IF sso THEN idp ELSE {}]
  <1>1. rec \in Login
      BY DEF NoLogin, Login, IInv, TypeOK
  <1>2. rec.todo = {} /\ rec.mapped = {} /\ rec.sso = sso
        /\ rec.pc = IF sso THEN "resolve" ELSE "admin"
      BY DEF NoLogin
  <1>3. SignedIn(rec, db)
    <2> HIDE DEF rec
    <2> QED  BY <1>2 DEF SignedIn
  <1> QED  BY <1>1, <1>3, LoginHolds DEF SignIn, IInv, TypeOK

LEMMA ResolveHolds ==
    ASSUME IInv, NEW l \in Logins, ResolveRoles(l) \/ ResolveFails(l)
    PROVE  IInv'
  <1> DEFINE found == {r \in Roles : \E g \in login[l].claims : <<g, r>> \in db.ssoMap}
  <1>1. /\ login[l] \in Login /\ login[l].pc = "resolve" /\ SignedIn(login[l], db)
        /\ changes' \in 0 .. MaxChanges
      BY AccessAssumption DEF ResolveRoles, ResolveFails, Counting, IInv, TypeOK
  <1>2. PICK rec \in {[login[l] EXCEPT !.pc = "delete", !.mapped = found],
                      [login[l] EXCEPT !.pc = "delete"]} :
          Goes(l, rec) /\ UNCHANGED <<db, idp, session, check>>
      BY DEF ResolveRoles, ResolveFails
  <1>3. found \in SUBSET Roles
      OBVIOUS
  <1> HIDE DEF found
  <1>4. rec \in Login /\ rec.pc = "delete" /\ rec.todo = login[l].todo
      BY <1>1, <1>2, <1>3 DEF Login
  <1>5. SignedIn(rec, db)
      BY <1>1, <1>4 DEF SignedIn
  <1> QED  BY <1>1, <1>2, <1>4, <1>5, LoginHolds DEF IInv, TypeOK

LEMMA DeleteHolds ==
    ASSUME IInv, NEW l \in Logins, DeleteSso(l)
    PROVE  IInv'
  <1> DEFINE d == [db EXCEPT !.assigned = WithoutSso(@)]
             rec == [login[l] EXCEPT !.pc = IF login[l].mapped = {} THEN "admin" ELSE "insert",
                                     !.todo = login[l].mapped,
                                     !.manual = ManualOf(db), !.alone = TRUE]
  <1>1. /\ login[l] \in Login /\ SignedIn(login[l], db) /\ db \in Tables
      BY DEF IInv, TypeOK
  <1>2. /\ Tell(d) /\ UNCHANGED <<idp, session, changes>>
        /\ login' = [k \in Logins |-> IF k = l THEN rec ELSE Disturbed(login[k], d)]
      BY DEF DeleteSso
  <1>3. d.assigned = WithoutSso(db.assigned) /\ db.assigned \in [Roles -> Sources]
      BY <1>1 DEF Tables
  <1>4. WithoutSso(db.assigned) \in [Roles -> Sources]
      BY <1>3 DEF WithoutSso, Sources
  <1>5. d \in Tables
      BY <1>1, <1>4 DEF Tables
  <1>6. /\ rec.mapped = login[l].mapped /\ rec.todo = login[l].mapped
        /\ rec.manual = ManualOf(db)
        /\ rec.pc = (IF login[l].mapped = {} THEN "admin" ELSE "insert")
        /\ rec \in Login
    <2>1. ManualOf(db) \in SUBSET Roles
        BY DEF ManualOf
    <2> QED  BY <1>1, <2>1 DEF Login
  <1>7. {r \in Roles : d.assigned[r] = "sso"} = {} /\ ManualOf(db) \subseteq Held(d)
    <2>1. \A r \in Roles : WithoutSso(db.assigned)[r] = IF db.assigned[r] = "sso" THEN "none"
                                                        ELSE db.assigned[r]
        BY DEF WithoutSso
    <2>2. \A r \in Roles : d.assigned[r] = IF db.assigned[r] = "sso" THEN "none"
                                           ELSE db.assigned[r]
        BY <1>3, <2>1
    <2> HIDE DEF d
    <2>3. {r \in Roles : d.assigned[r] = "sso"} = {}
        BY <2>2
    <2>4. ManualOf(db) \subseteq Held(d)
        BY <2>2 DEF ManualOf, Held
    <2> QED  BY <2>3, <2>4
  <1> HIDE DEF rec, d
  <1>8. SignedIn(rec, d)
      BY <1>6, <1>7 DEF SignedIn
  <1> QED  BY <1>2, <1>5, <1>6, <1>8, RolesHold

LEMMA InsertHolds ==
    ASSUME IInv, NEW l \in Logins, NEW r \in Roles, InsertRole(l, r)
    PROVE  IInv'
  <1> DEFINE d == [db EXCEPT !.assigned[r] = IF @ = "none" THEN "sso" ELSE @]
             left == login[l].todo \ {r}
             rec == [login[l] EXCEPT !.todo = left, !.pc = IF left = {} THEN "admin" ELSE "insert"]
             new == [db.assigned EXCEPT ![r] = IF db.assigned[r] = "none" THEN "sso"
                                               ELSE db.assigned[r]]
  <1>1. /\ login[l] \in Login /\ SignedIn(login[l], db) /\ db \in Tables
        /\ login[l].pc = "insert" /\ r \in login[l].todo
      BY DEF IInv, TypeOK, InsertRole
  <1>2. /\ Tell(d) /\ UNCHANGED <<idp, session, changes>>
        /\ login' = [k \in Logins |-> IF k = l THEN rec ELSE Disturbed(login[k], d)]
      BY DEF InsertRole
  <1>3. db.assigned \in [Roles -> Sources]
      BY <1>1 DEF Tables
  <1>4. d = [db EXCEPT !.assigned = new] /\ d.assigned = new
      BY <1>1, <1>3 DEF Tables
  <1>5. new \in [Roles -> Sources]
      BY <1>3 DEF Sources
  <1>6. d \in Tables
      BY <1>1, <1>4, <1>5 DEF Tables
  <1>7. /\ rec.mapped = login[l].mapped /\ rec.todo = left /\ rec.manual = login[l].manual
        /\ rec.sso = login[l].sso /\ rec.alone = login[l].alone
        /\ rec.pc = (IF left = {} THEN "admin" ELSE "insert")
        /\ rec \in Login
      BY <1>1 DEF Login
  <1>8. /\ \A q \in Roles : q # r => d.assigned[q] = db.assigned[q]
        /\ d.assigned[r] # "none"
      BY <1>3, <1>4
  <1> HIDE DEF rec, d, new
  <1>9. SignedIn(rec, d)
    <2>1. ASSUME rec.sso, rec.alone
          PROVE  /\ {q \in Roles : d.assigned[q] = "sso"} \subseteq rec.mapped
                 /\ (rec.mapped \ rec.todo) \cup rec.manual \subseteq Held(d)
      <3>1. /\ {q \in Roles : db.assigned[q] = "sso"} \subseteq login[l].mapped
            /\ (login[l].mapped \ login[l].todo) \cup login[l].manual \subseteq Held(db)
            /\ login[l].todo \subseteq login[l].mapped
          BY <1>1, <1>7, <2>1 DEF SignedIn
      <3>2. {q \in Roles : d.assigned[q] = "sso"} \subseteq login[l].mapped
          BY <1>1, <1>8, <3>1
      <3>3. Held(db) \cup {r} \subseteq Held(d)
          BY <1>8 DEF Held
      <3>4. login[l].mapped \ left \subseteq (login[l].mapped \ login[l].todo) \cup {r}
          OBVIOUS
      <3> QED  BY <1>7, <3>1, <3>2, <3>3, <3>4
    <2>2. rec.todo \subseteq rec.mapped
        BY <1>1, <1>7 DEF SignedIn
    <2>3. rec.pc # "insert" => rec.todo = {}
        BY <1>7
    <2> QED  BY <2>1, <2>2, <2>3 DEF SignedIn
  <1> QED  BY <1>2, <1>6, <1>7, <1>9, RolesHold

LEMMA SignInEndsHolds ==
    ASSUME IInv, NEW l \in Logins, TokenMinted(l) \/ SignInFails(l)
    PROVE  IInv'
  <1>1. /\ Goes(l, NoLogin) /\ UNCHANGED <<db, idp, check>> /\ changes' \in 0 .. MaxChanges
      BY AccessAssumption DEF TokenMinted, SignInFails, Counting, IInv, TypeOK
  <1>2. session' \in SUBSET Token
    <2> DEFINE named == Held(db) \cap AdminRoles # {}
               new == [admin |-> named, groups |-> login[l].claims]
    <2>1. login[l].claims \in SUBSET Groups /\ session \in SUBSET Token
        BY DEF IInv, TypeOK, Login
    <2>2. session' = session \/ session' = {new}
        BY DEF TokenMinted, SignInFails
    <2>3. named \in BOOLEAN
        OBVIOUS
    <2> HIDE DEF named
    <2>4. new \in Token
        BY <2>1, <2>3 DEF Token
    <2> QED  BY <2>1, <2>2, <2>4
  <1> QED  BY <1>1, <1>2, NoLoginHolds, LoginHolds

(***************************************************************************)
(* Everybody else.                                                          *)
(***************************************************************************)
LEMMA AdministrationHolds ==
    ASSUME IInv, Administration
    PROVE  IInv'
  <1>1. changes' \in 0 .. MaxChanges
      BY AccessAssumption DEF Administration, Counting, IInv, TypeOK
  <1>2. db \in Tables
      BY DEF IInv, TypeOK
  <1>3. ASSUME NEW rs \in SUBSET Roles, NEW act \in {{}, {TRUE}, {FALSE}}, AdminPut(rs, act)
        PROVE  IInv'
    <2> DEFINE new == [r \in Roles |-> IF r \in rs THEN "manual"
                                       ELSE IF db.assigned[r] = "manual" THEN "none"
                                       ELSE db.assigned[r]]
               a == IF act = {} THEN db.active ELSE TRUE \in act
               d == [db EXCEPT !.assigned = new, !.active = a]
    <2>1. Write(d) /\ UNCHANGED <<idp, session>>
        BY <1>2, <1>3 DEF AdminPut, Tables
    <2>2. new \in [Roles -> Sources] /\ a \in BOOLEAN
      <3>1. db.assigned \in [Roles -> Sources] /\ db.active \in BOOLEAN
          BY <1>2 DEF Tables
      <3>2. new \in [Roles -> Sources]
          BY <3>1 DEF Sources
      <3>3. (TRUE \in act) \in BOOLEAN
          OBVIOUS
      <3> DEFINE given == TRUE \in act
      <3> HIDE DEF given
      <3>4. a = IF act = {} THEN db.active ELSE given
          BY DEF given
      <3>5. given \in BOOLEAN
          BY <3>3 DEF given
      <3>6. a \in BOOLEAN
          BY <3>1, <3>4, <3>5
      <3> QED  BY <3>2, <3>6
    <2> HIDE DEF new, a
    <2>3. d \in Tables
        BY <1>2, <2>2 DEF Tables
    <2> HIDE DEF d
    <2> QED  BY <1>1, <2>1, <2>3, WriteHolds
  <1>11. ASSUME NEW r \in Roles, NEW kinds \in SUBSET {"whole", "other"}, AdminRole(r, kinds)
         PROVE  IInv'
    <2> DEFINE new == {row \in db.grants : row[1] # r} \cup ({r} \X kinds)
               d == [db EXCEPT !.grants = new]
    <2>1. Write(d) /\ UNCHANGED <<idp, session>>
        BY <1>2, <1>11 DEF AdminRole, Tables
    <2>2. new \in SUBSET (Grantees \X {"whole", "other"})
        BY <1>2 DEF Tables, Grantees
    <2> HIDE DEF new
    <2>3. d \in Tables
        BY <1>2, <2>2 DEF Tables
    <2> HIDE DEF d
    <2> QED  BY <1>1, <2>1, <2>3, WriteHolds
  <1>4. ASSUME NEW row \in Grantees \X {"whole", "other"}, GrantComesOrGoes(row)
        PROVE  IInv'
    <2> DEFINE new == IF row \in db.grants THEN db.grants \ {row} ELSE db.grants \cup {row}
               d == [db EXCEPT !.grants = new]
    <2>1. Write(d) /\ UNCHANGED <<idp, session>>
        BY <1>2, <1>4 DEF GrantComesOrGoes, Tables
    <2>2. new \in SUBSET (Grantees \X {"whole", "other"})
        BY <1>2 DEF Tables
    <2> HIDE DEF new
    <2>3. d \in Tables
        BY <1>2, <2>2 DEF Tables
    <2> HIDE DEF d
    <2> QED  BY <1>1, <2>1, <2>3, WriteHolds
  <1>5. ASSUME NEW p \in Pairs, AdminMap(p)
        PROVE  IInv'
    <2> DEFINE new == IF p \in db.ssoMap THEN db.ssoMap \ {p} ELSE db.ssoMap \cup {p}
               d == [db EXCEPT !.ssoMap = new]
    <2>1. Write(d) /\ UNCHANGED <<idp, session>>
        BY <1>2, <1>5 DEF AdminMap, Tables
    <2>2. new \in SUBSET Pairs
        BY <1>2 DEF Tables
    <2> HIDE DEF new
    <2>3. d \in Tables
        BY <1>2, <2>2 DEF Tables
    <2> HIDE DEF d
    <2> QED  BY <1>1, <2>1, <2>3, WriteHolds
  <1>6. ASSUME NEW g \in Groups, NEW rs \in SUBSET Roles, ScimPutGroup(g, rs)
        PROVE  IInv'
    <2> DEFINE new == {p \in db.scimMap : p[1] # g} \cup ({g} \X rs)
               d == [db EXCEPT !.scimMap = new]
    <2>1. Write(d) /\ UNCHANGED <<idp, session>>
        BY <1>2, <1>6 DEF ScimPutGroup, Tables
    <2>2. new \in SUBSET Pairs
        BY <1>2 DEF Tables, Pairs
    <2> HIDE DEF new
    <2>3. d \in Tables
        BY <1>2, <2>2 DEF Tables
    <2> HIDE DEF d
    <2> QED  BY <1>1, <2>1, <2>3, WriteHolds
  <1>7. ASSUME NEW active \in BOOLEAN, NEW person \in BOOLEAN,
               Write([db EXCEPT !.active = active, !.person = person]),
               UNCHANGED <<idp, session>>
        PROVE  IInv'
    <2> DEFINE d == [db EXCEPT !.active = active, !.person = person]
    <2>1. d \in Tables
        BY <1>2 DEF Tables
    <2> HIDE DEF d
    <2> QED  BY <1>1, <1>7, <2>1, WriteHolds DEF d
  <1>8. ASSUME NEW act \in BOOLEAN, ScimUpsert(act)
        PROVE  IInv'
    <2>1. [db EXCEPT !.active = act] = [db EXCEPT !.active = act, !.person = db.person]
          /\ db.person \in BOOLEAN
        BY <1>2 DEF Tables
    <2> QED  BY <1>7, <1>8, <2>1 DEF ScimUpsert
  <1>9. ASSUME NEW act \in BOOLEAN, NEW address \in BOOLEAN, ScimPatch(act, address)
        PROVE  IInv'
    <2> DEFINE person == db.person \/ (act /\ address)
    <2>1. [db EXCEPT !.active = act, !.person = @ \/ (act /\ address)] =
            [db EXCEPT !.active = act, !.person = person] /\ person \in BOOLEAN
        BY <1>2 DEF Tables
    <2> HIDE DEF person
    <2> QED  BY <1>7, <1>9, <2>1 DEF ScimPatch
  <1>10. ASSUME NEW anonymize \in BOOLEAN, PrivacyErase(anonymize)
         PROVE  IInv'
    <2> DEFINE person == db.person /\ ~anonymize
    <2>1. [db EXCEPT !.active = FALSE, !.person = @ /\ ~anonymize] =
            [db EXCEPT !.active = FALSE, !.person = person] /\ person \in BOOLEAN
        BY <1>2 DEF Tables
    <2> HIDE DEF person
    <2> QED  BY <1>7, <1>10, <2>1 DEF PrivacyErase
  <1>12. ASSUME NEW gs \in SUBSET Groups, IdpChange(gs)
         PROVE  IInv'
      BY <1>1, <1>12 DEF IdpChange, IInv, TypeOK
  <1> QED  BY <1>3, <1>4, <1>5, <1>6, <1>8, <1>9, <1>10, <1>11, <1>12 DEF Administration

LEMMA InitHolds == Init => IInv
  <1> SUFFICES ASSUME Init PROVE IInv
      OBVIOUS
  <1>1. NoCheck \in Check /\ NoCheck.pc = "idle"
      BY DEF NoCheck, Check, Open, Policy, Ended
  <1>2. TypeOK
      BY <1>1, NoLoginHolds, AccessAssumption DEF Init, TypeOK
  <1>3. InFlight(NoCheck, db) /\ Right(NoCheck)
      BY <1>1 DEF InFlight, Right, Stages
  <1> QED  BY <1>2, <1>3, NoLoginHolds DEF Init, IInv

LEMMA NextHolds == IInv /\ [Next]_vars => IInv'
  <1> SUFFICES ASSUME IInv, [Next]_vars PROVE IInv'
      OBVIOUS
  <1>1. ASSUME NEW l \in Logins, SignInStep(l)
        PROVE  IInv'
      BY <1>1, SignInHolds, ResolveHolds, DeleteHolds, InsertHolds, SignInEndsHolds
         DEF SignInStep
  <1>2. ASSUME NEW k \in Checks, CheckStep(k)
        PROVE  IInv'
      BY <1>2, BeginCallHolds, BeginActionHolds, SelectHolds, SelectFailsHolds DEF CheckStep
  <1>3. CASE SessionEnds
      BY <1>3 DEF SessionEnds, IInv, TypeOK
  <1>4. CASE UNCHANGED vars
      BY <1>4 DEF vars, IInv, TypeOK
  <1> QED  BY <1>1, <1>2, <1>3, <1>4, AdministrationHolds DEF Next

\* Every variable keeps its type, the notes that checks take included.
THEOREM AccessTypes == Spec => []TypeOK
  <1>1. IInv => TypeOK
      BY DEF IInv
  <1> QED  BY <1>1, InitHolds, NextHolds, PTL DEF Spec

\* Whatever is written between the statements of a check: what it admits had
\* been granted, and had satisfied the manifest's gate, at some instant of it
\* (_enforce_user_mcp_access, _authorize_action).
THEOREM NobodyAdmittedUngranted == Spec => []AdmittedWasGranted
  <1>1. IInv => AdmittedWasGranted
      BY DEF IInv, Right, MeetsGate, AdmittedWasGranted
  <1> QED  BY <1>1, InitHolds, NextHolds, PTL DEF Spec

\* A grant that holds throughout a check, and an entry of the gate that does,
\* are not overlooked: the order of the statements leaves no gap between them
\* that somebody who may call falls through.
THEOREM NobodyOverlooked == Spec => []HeldThroughoutIsAdmitted
  <1>1. IInv => HeldThroughoutIsAdmitted
      BY DEF IInv, Right, HeldThroughoutIsAdmitted
  <1> QED  BY <1>1, InitHolds, NextHolds, PTL DEF Spec

\* With any number of sign-ins that replace roles at once, one that nobody
\* disturbs ends with the roles of its claims and those that an administrator
\* gave (portal/src/auth.ts).
THEOREM SignInSettlesRoles == Spec => []SignInIsAuthoritative
  <1>1. IInv => SignInIsAuthoritative
      BY DEF IInv, SignedIn, SignInIsAuthoritative
  <1> QED  BY <1>1, InitHolds, NextHolds, PTL DEF Spec

====
