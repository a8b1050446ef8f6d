----------------------------- MODULE AuditChain -----------------------------
(***************************************************************************)
(* The tamper-evident audit log: _write_audit_event and /audit/verify of   *)
(* runtime/router.py, and the writer of deploy/server.py, over the table   *)
(* audit_events.                                                           *)
(*                                                                         *)
(* Every router process has one database connection, cached for its life:  *)
(* one session, for which Postgres keeps the advisory lock that serializes *)
(* the writers.  The threads of a process share that session.  A statement *)
(* is one step; nothing else orders the statements of two threads.         *)
(***************************************************************************)
EXTENDS Naturals, Sequences, FiniteSets

CONSTANTS
  Sessions,   \* database sessions, one per router process
  Threads,    \* threads of the router processes that write events
  SessionOf,  \* Threads -> Sessions
  Events,     \* contents of the events to record, each used once
  MaxOld,     \* bound on the rows of each kind older than this release
  Original,   \* payload of an old row, as it was when it was hashed
  Reordered,  \* the same payload as JSONB returns it
  None,
  Deploys,    \* whether the deploy service writes to the same table
  Faults      \* whether statements fail, connections drop, routers restart

ASSUME AuditConstants ==
  /\ SessionOf \in [Threads -> Sessions]
  /\ None \notin Sessions \cup Events \cup Seq(Events \cup {Original, Reordered})
  /\ Original # Reordered
  /\ {Original, Reordered} \cap Events = {}
  /\ MaxOld \in Nat
  /\ Deploys \in BOOLEAN
  /\ Faults \in BOOLEAN

VARIABLES
  rows,    \* audit_events in the order of seq
  holder,  \* session that has the advisory lock, or None
  depth,   \* times it has it: Postgres grants a session its own lock again
  conn,    \* _db_conn of each process: not opened, open, or open and broken
  pc,      \* next statement of each thread's _write_audit_event
  ev,      \* the event it writes
  prev,    \* the prev_hash it has read
  todo     \* events that are still to happen

vars == <<rows, holder, depth, conn, pc, ev, prev, todo>>

(* SHA-256 over the previous hash and the fields, taken to be injective:   *)
(* the hash of an entry is the sequence of everything hashed before it,    *)
(* and the hash "" that starts a chain is the empty sequence.              *)
Contents       == Events \cup {Original, Reordered}
Hashes         == Seq(Contents)
EntryHash(h, e) == Append(h, e)

Row == [ev : Contents, prev : Hashes \cup {None}, hash : Hashes \cup {None},
        version : {"canonical", "legacy", "none"}]

(* A row without hashes: older than the chain, or of the deploy service. *)
Unchained(e) == [ev |-> e, prev |-> None, hash |-> None, version |-> "none"]

NewRow(e, h) ==
  [ev |-> e, prev |-> h, hash |-> EntryHash(h, e), version |-> "canonical"]

PCs    == {"idle", "lock", "read", "insert", "unlock"}
Inside == {"read", "insert", "unlock"}

TypeOK ==
  /\ rows \in Seq(Row)
  /\ holder \in Sessions \cup {None}
  /\ depth \in Nat
  /\ conn \in [Sessions -> {"none", "up", "broken"}]
  /\ pc \in [Threads -> PCs]
  /\ ev \in [Threads -> Events \cup {None}]
  /\ prev \in [Threads -> Hashes]
  /\ todo \subseteq Events

Up(t) == conn[SessionOf[t]] = "up"

-----------------------------------------------------------------------------
(* GET /audit/verify.                                                      *)

Chained(rs) == {i \in DOMAIN rs : rs[i].hash # None}

(* Mutant: any earlier entry will do. *)
LinkedToSome(rs, i) ==
  \/ rs[i].prev = <<>>
  \/ \E j \in Chained(rs) : j < i /\ rs[i].prev = rs[j].hash

(* A row without a hash is skipped; expected_prev is the hash of the       *)
(* chained row before this one.                                            *)
Linked(rs, i) ==
  LET before == {j \in Chained(rs) : j < i}
  IN  \/ before = {} /\ rs[i].prev = <<>>
      \/ \E j \in before : (\A k \in before : k <= j) /\ rs[i].prev = rs[j].hash

(* A payload that JSONB has reordered is excused in a row marked as old. *)
ContentOK(rs, i) ==
  rs[i].hash = EntryHash(rs[i].prev, rs[i].ev) \/ rs[i].version = "legacy"

Verify(rs) == \A i \in Chained(rs) : Linked(rs, i) /\ ContentOK(rs, i)

-----------------------------------------------------------------------------
(* _write_audit_event.                                                     *)

(* _get_db opens the connection on first use and then keeps it. *)
Begin(t, e) ==
  /\ pc[t] = "idle"
  /\ e \in todo
  /\ conn' = [conn EXCEPT ![SessionOf[t]] = IF @ = "none" THEN "up" ELSE @]
  /\ pc' = [pc EXCEPT ![t] = "lock"]
  /\ ev' = [ev EXCEPT ![t] = e]
  /\ todo' = todo \ {e}
  /\ UNCHANGED <<rows, holder, depth, prev>>

(* No database to connect to: the event is dropped. *)
BeginWithoutDb(t, e) ==
  /\ Faults
  /\ pc[t] = "idle"
  /\ e \in todo
  /\ conn[SessionOf[t]] = "none"
  /\ todo' = todo \ {e}
  /\ UNCHANGED <<rows, holder, depth, conn, pc, ev, prev>>

(* Mutant: pg_try_advisory_lock, whose result nobody looks at. *)
LockTried(t) ==
  /\ pc[t] = "lock"
  /\ Up(t)
  /\ pc' = [pc EXCEPT ![t] = "read"]
  /\ IF holder \in {None, SessionOf[t]}
     THEN holder' = SessionOf[t] /\ depth' = depth + 1
     ELSE UNCHANGED <<holder, depth>>
  /\ UNCHANGED <<rows, conn, ev, prev, todo>>

(* pg_advisory_lock. *)
Lock(t) ==
  /\ pc[t] = "lock"
  /\ Up(t)
  /\ holder \in {None, SessionOf[t]}
  /\ holder' = SessionOf[t]
  /\ depth' = depth + 1
  /\ pc' = [pc EXCEPT ![t] = "read"]
  /\ UNCHANGED <<rows, conn, ev, prev, todo>>

(* Mutant: the hash of a row that has none is read as it is. *)
LastHashRaw == IF rows = <<>> THEN <<>> ELSE rows[Len(rows)].hash

LastHash ==
  IF rows = <<>> \/ rows[Len(rows)].hash = None THEN <<>> ELSE rows[Len(rows)].hash

Read(t) ==
  /\ pc[t] = "read"
  /\ Up(t)
  /\ prev' = [prev EXCEPT ![t] = LastHash]
  /\ pc' = [pc EXCEPT ![t] = "insert"]
  /\ UNCHANGED <<rows, holder, depth, conn, ev, todo>>

Insert(t) ==
  /\ pc[t] = "insert"
  /\ Up(t)
  /\ rows' = Append(rows, NewRow(ev[t], prev[t]))
  /\ pc' = [pc EXCEPT ![t] = "unlock"]
  /\ UNCHANGED <<holder, depth, conn, ev, prev, todo>>

(* The finally clause: pg_advisory_unlock. *)
Unlock(t) ==
  /\ pc[t] = "unlock"
  /\ Up(t)
  /\ depth' = depth - 1
  /\ holder' = IF depth = 1 THEN None ELSE holder
  /\ pc' = [pc EXCEPT ![t] = "idle"]
  /\ UNCHANGED <<rows, conn, ev, prev, todo>>

(* Mutant: no finally clause. *)
StatementFailsAndLeaves(t) ==
  /\ Faults
  /\ pc[t] \in {"lock", "read", "insert"}
  /\ Up(t)
  /\ pc' = [pc EXCEPT ![t] = "idle"]
  /\ UNCHANGED <<rows, holder, depth, conn, ev, prev, todo>>

(* A statement raises: the event is dropped, after the finally clause if   *)
(* the lock was granted.                                                   *)
StatementFails(t) ==
  /\ Faults
  /\ pc[t] \in {"lock", "read", "insert"}
  /\ Up(t)
  /\ pc' = [pc EXCEPT ![t] = IF @ = "lock" THEN "idle" ELSE "unlock"]
  /\ UNCHANGED <<rows, holder, depth, conn, ev, prev, todo>>

(* On a broken connection every statement raises, the unlock too.  Nothing *)
(* clears _db_conn, so this goes on until the process restarts.            *)
StatementOnBroken(t) ==
  /\ pc[t] # "idle"
  /\ conn[SessionOf[t]] = "broken"
  /\ pc' = [pc EXCEPT ![t] = "idle"]
  /\ UNCHANGED <<rows, holder, depth, conn, ev, prev, todo>>

-----------------------------------------------------------------------------
(* The rest of the system.                                                 *)

(* Postgres ends a session and gives its locks back. *)
EndSession(s) ==
  /\ holder' = IF holder = s THEN None ELSE holder
  /\ depth' = IF holder = s THEN 0 ELSE depth

ConnectionLost(s) ==
  /\ Faults
  /\ conn[s] = "up"
  /\ conn' = [conn EXCEPT ![s] = "broken"]
  /\ EndSession(s)
  /\ UNCHANGED <<rows, pc, ev, prev, todo>>

Restart(s) ==
  /\ Faults
  /\ conn[s] # "none"
  /\ conn' = [conn EXCEPT ![s] = "none"]
  /\ pc' = [t \in Threads |-> IF SessionOf[t] = s THEN "idle" ELSE pc[t]]
  /\ EndSession(s)
  /\ UNCHANGED <<rows, ev, prev, todo>>

(* write_deploy_audit_event: neither lock nor hashes. *)
DeployInsert(e) ==
  /\ Deploys
  /\ e \in todo
  /\ rows' = Append(rows, Unchained(e))
  /\ todo' = todo \ {e}
  /\ UNCHANGED <<holder, depth, conn, pc, ev, prev>>

-----------------------------------------------------------------------------

(* The table an older release leaves: n rows from before the chain and m   *)
(* whose payloads were hashed in an order that is lost.                    *)
OldRows(n, m) ==
  LET hash(i) == [k \in 1 .. i |-> Original]
  IN  [i \in 1 .. n + m |->
        IF i <= n THEN Unchained(Original)
        ELSE [ev |-> Reordered, prev |-> hash(i - n - 1), hash |-> hash(i - n),
              version |-> "legacy"]]

Init ==
  /\ \E n, m \in 0 .. MaxOld : rows = OldRows(n, m)
  /\ holder = None
  /\ depth = 0
  /\ conn = [s \in Sessions |-> "none"]
  /\ pc = [t \in Threads |-> "idle"]
  /\ ev = [t \in Threads |-> None]
  /\ prev = [t \in Threads |-> <<>>]
  /\ todo = Events

Statement(t) == Read(t) \/ Insert(t) \/ Unlock(t) \/ StatementOnBroken(t)

Next ==
  \/ \E t \in Threads :
       \/ Lock(t) \/ Statement(t) \/ StatementFails(t)
       \/ \E e \in Events : Begin(t, e) \/ BeginWithoutDb(t, e)
  \/ \E s \in Sessions : ConnectionLost(s) \/ Restart(s)
  \/ \E e \in Events : DeployInsert(e)

Spec == Init /\ [][Next]_vars

(* A thread goes on with its write, and Postgres grants the lock to those  *)
(* who wait for it in the order they came.                                 *)
FairSpec ==
  Spec /\ \A t \in Threads : WF_vars(Statement(t)) /\ SF_vars(Lock(t))

-----------------------------------------------------------------------------
(* Properties.                                                             *)

OneThreadPerSession ==
  \A t, u \in Threads : SessionOf[t] = SessionOf[u] => t = u

(* Every row without hashes is older than the chain. *)
ChainLast(rs) ==
  \A i, j \in DOMAIN rs : i < j /\ rs[i].hash # None => rs[j].hash # None

(* Nobody has tampered with the table, so /audit/verify says intact, after *)
(* any failures and restarts and at any moment of concurrent writes, as    *)
(* long as no other service has written into the chain.                    *)
ChainIntact == ChainLast(rows) => Verify(rows)

(* The same whatever writes the deploy service and a second thread of the  *)
(* router make.                                                            *)
AlwaysIntact == Verify(rows)

Without(rs, i)  == [k \in 1 .. Len(rs) - 1 |-> IF k < i THEN rs[k] ELSE rs[k + 1]]
Edited(rs, i)   == [rs EXCEPT ![i].ev = CHOOSE c \in Contents : c # @]
Swapped(rs, i, j) == [rs EXCEPT ![i] = rs[j], ![j] = rs[i]]

(* What /audit/verify is for: in a table it accepts, deleting a chained    *)
(* entry that another follows, editing one of this release, or exchanging  *)
(* two is reported.                                                        *)
TamperShows ==
  Verify(rows) => \A i \in Chained(rows) :
    /\ rows[i].version = "canonical" => ~Verify(Edited(rows, i))
    /\ \A j \in Chained(rows) : i < j =>
         ~Verify(Without(rows, i)) /\ ~Verify(Swapped(rows, i, j))

Writing == {t \in Threads : pc[t] \in Inside /\ Up(t)}

(* The lock is held exactly while some thread is between its lock and its  *)
(* unlock, as often as there are such threads, and by their session: no    *)
(* error path leaves it behind to stop every other router's writes.        *)
LockHeldByWriters ==
  /\ depth = Cardinality(Writing)
  /\ \A t \in Writing : SessionOf[t] = holder
  /\ Writing = {} => holder = None

(* A request that records an event gets past it: the lock is granted and   *)
(* the write ends, whatever happened to the writers before it.             *)
WritesEnd == \A t \in Threads : pc[t] = "lock" ~> pc[t] = "idle"

=============================================================================
