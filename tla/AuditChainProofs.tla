-------------------------- MODULE AuditChainProofs --------------------------
(***************************************************************************)
(* Theorems of AuditChain: its types, the lock, and the chain.             *)
(*                                                                         *)
(* The chain is intact because a writer that has read the last hash is the *)
(* only one inside the lock, so that the hash it has read is still the     *)
(* last when it inserts (Fresh), and every entry links to the row before   *)
(* it (LinkedToPrevious).                                                  *)
(***************************************************************************)
EXTENDS AuditChain, FiniteSetTheorems, TLAPS

(* The hash a row after the first n rows links to. *)
HashAfter(rs, n) == IF n = 0 \/ rs[n].hash = None THEN <<>> ELSE rs[n].hash

LinkedToPrevious ==
  \A i \in DOMAIN rows : rows[i].hash # None =>
    rows[i].prev = HashAfter(rows, i - 1) /\ ContentOK(rows, i)

Fresh == \A t \in Threads : pc[t] = "insert" /\ Up(t) => prev[t] = LastHash

(* A thread that is writing has an event to write and a connection. *)
Carrying ==
  \A t \in Threads : pc[t] # "idle" =>
    ev[t] \in Events /\ conn[SessionOf[t]] # "none"

LockInv == IsFiniteSet(Writing) /\ LockHeldByWriters

ChainInv == ChainLast(rows) => LinkedToPrevious /\ Fresh

-----------------------------------------------------------------------------
(* Types. *)

(* The rows an older release leaves are rows, linked as that release did. *)
LEMMA OldRowsType ==
  ASSUME NEW n \in Nat, NEW m \in Nat
  PROVE  /\ OldRows(n, m) \in Seq(Row)
         /\ Len(OldRows(n, m)) = n + m
<1> DEFINE hash(i) == [k \in 1 .. i |-> Original]
<1>1. \A i \in Nat : hash(i) \in Hashes
  BY DEF Hashes, Contents
<1>2. ASSUME NEW i \in 1 .. n + m
      PROVE  OldRows(n, m)[i] \in Row
  <2>1. CASE i <= n
    BY <2>1 DEF OldRows, Unchained, Row, Contents
  <2>2. CASE ~(i <= n)
    <3>1. i - n \in Nat /\ i - n - 1 \in Nat
      BY <2>2
    <3>2. hash(i - n) \in Hashes /\ hash(i - n - 1) \in Hashes
      BY <3>1, <1>1
    <3>3. OldRows(n, m)[i] =
            [ev |-> Reordered, prev |-> hash(i - n - 1), hash |-> hash(i - n),
             version |-> "legacy"]
      BY <2>2 DEF OldRows
    <3> HIDE DEF hash
    <3>4. QED
      BY <3>2, <3>3 DEF Row, Contents
  <2>3. QED
    BY <2>1, <2>2
<1>3. DOMAIN OldRows(n, m) = 1 .. n + m
  BY DEF OldRows
<1>4. n + m \in Nat
  OBVIOUS
<1>5. OldRows(n, m) = [i \in 1 .. n + m |-> OldRows(n, m)[i]]
  BY DEF OldRows
<1>6. QED
  BY <1>2, <1>3, <1>4, <1>5

LEMMA TypeInit == Init => TypeOK
<1> SUFFICES ASSUME Init PROVE TypeOK
  OBVIOUS
<1>1. rows \in Seq(Row)
  BY OldRowsType, AuditConstants DEF Init
<1>2. QED
  BY <1>1 DEF Init, TypeOK, PCs, Hashes

LEMMA Homes ==
  /\ \A t \in Threads : SessionOf[t] \in Sessions
  /\ None \notin Sessions
  BY AuditConstants

LEMMA LastHashType ==
  ASSUME TypeOK
  PROVE  LastHash \in Hashes
<1>1. CASE rows = <<>> \/ rows[Len(rows)].hash = None
  BY <1>1 DEF LastHash, Hashes
<1>2. CASE ~(rows = <<>> \/ rows[Len(rows)].hash = None)
  <2>1. Len(rows) \in 1 .. Len(rows)
    BY <1>2 DEF TypeOK
  <2>2. rows[Len(rows)] \in Row
    BY <2>1 DEF TypeOK
  <2>3. QED
    BY <1>2, <2>2 DEF LastHash, Row
<1>3. QED
  BY <1>1, <1>2

LEMMA NewRowType ==
  ASSUME TypeOK, NEW e \in Events, NEW h \in Hashes
  PROVE  /\ NewRow(e, h) \in Row
         /\ NewRow(e, h).hash # None
  BY AuditConstants DEF NewRow, Row, EntryHash, Hashes, Contents

LEMMA TypeNext ==
  ASSUME TypeOK, Carrying, LockInv, [Next]_vars
  PROVE  TypeOK' /\ Carrying'
<1> USE DEF TypeOK, Carrying
<1>1. ASSUME NEW t \in Threads, Lock(t)
      PROVE  TypeOK' /\ Carrying'
  BY <1>1, Homes DEF Lock, PCs
<1>2. ASSUME NEW t \in Threads, Read(t)
      PROVE  TypeOK' /\ Carrying'
  BY <1>2, LastHashType DEF Read, PCs
<1>3. ASSUME NEW t \in Threads, Insert(t)
      PROVE  TypeOK' /\ Carrying'
  <2>1. ev[t] \in Events /\ prev[t] \in Hashes
    BY <1>3 DEF Insert
  <2>2. NewRow(ev[t], prev[t]) \in Row
    BY <2>1, NewRowType
  <2>3. rows' \in Seq(Row)
    BY <1>3, <2>2 DEF Insert
  <2>4. QED
    BY <1>3, <2>3 DEF Insert, PCs
<1>4. ASSUME NEW t \in Threads, Unlock(t)
      PROVE  TypeOK' /\ Carrying'
  <2>1. t \in Writing
    BY <1>4 DEF Unlock, Writing, Inside
  <2>2. depth # 0
    BY <2>1, FS_EmptySet DEF LockInv, LockHeldByWriters
  <2>3. QED
    BY <1>4, <2>2 DEF Unlock, PCs
<1>5. ASSUME NEW t \in Threads, StatementOnBroken(t)
      PROVE  TypeOK' /\ Carrying'
  BY <1>5 DEF StatementOnBroken, PCs
<1>6. ASSUME NEW t \in Threads, StatementFails(t)
      PROVE  TypeOK' /\ Carrying'
  BY <1>6 DEF StatementFails, PCs
<1>7. ASSUME NEW t \in Threads, NEW e \in Events, Begin(t, e)
      PROVE  TypeOK' /\ Carrying'
  BY <1>7, Homes DEF Begin, PCs
<1>8. ASSUME NEW t \in Threads, NEW e \in Events, BeginWithoutDb(t, e)
      PROVE  TypeOK' /\ Carrying'
  BY <1>8 DEF BeginWithoutDb
<1>9. ASSUME NEW s \in Sessions, ConnectionLost(s)
      PROVE  TypeOK' /\ Carrying'
  BY <1>9 DEF ConnectionLost, EndSession
<1>10. ASSUME NEW s \in Sessions, Restart(s)
      PROVE  TypeOK' /\ Carrying'
  BY <1>10 DEF Restart, EndSession, PCs
<1>11. ASSUME NEW e \in Events, DeployInsert(e)
      PROVE  TypeOK' /\ Carrying'
  <2>1. Unchained(e) \in Row
    BY DEF Unchained, Row, Contents
  <2>2. QED
    BY <1>11, <2>1 DEF DeployInsert
<1>12. CASE UNCHANGED vars
  BY <1>12 DEF vars
<1>13. QED
  BY <1>1, <1>2, <1>3, <1>4, <1>5, <1>6, <1>7, <1>8, <1>9, <1>10, <1>11, <1>12
  DEF Next, Statement

-----------------------------------------------------------------------------
(* The lock. *)

LEMMA LockInit == Init => LockInv
<1> SUFFICES ASSUME Init PROVE LockInv
  OBVIOUS
<1>1. Writing = {}
  BY DEF Init, Writing, Inside
<1>2. QED
  BY <1>1, FS_EmptySet DEF Init, LockInv, LockHeldByWriters

LEMMA LockKept ==
  ASSUME LockInv, Writing' = Writing, UNCHANGED <<holder, depth>>
  PROVE  LockInv'
  BY DEF LockInv, LockHeldByWriters

(* A session ends: its threads were the writers, or none of its threads    *)
(* was.                                                                    *)
LEMMA LockDropped ==
  ASSUME TypeOK, LockInv, NEW s \in Sessions, EndSession(s),
         Writing' = {t \in Writing : SessionOf[t] # s}
  PROVE  LockInv'
<1> USE DEF LockInv, LockHeldByWriters
<1>1. CASE holder = s
  <2>1. Writing' = {}
    BY <1>1
  <2>2. holder' = None /\ depth' = 0
    BY <1>1 DEF EndSession
  <2>3. QED
    BY <2>1, <2>2, FS_EmptySet
<1>2. CASE holder # s
  <2>1. Writing' = Writing
    BY <1>2
  <2>2. UNCHANGED <<holder, depth>>
    BY <1>2 DEF EndSession
  <2>3. QED
    BY <2>1, <2>2, LockKept
<1>3. QED
  BY <1>1, <1>2

LEMMA LockNext ==
  ASSUME TypeOK, Carrying, LockInv, [Next]_vars
  PROVE  LockInv'
<1> USE DEF TypeOK, Inside, Up
<1>1. ASSUME NEW t \in Threads, Lock(t)
      PROVE  LockInv'
  <2>1. Writing' = Writing \cup {t} /\ t \notin Writing
    BY <1>1 DEF Lock, Writing
  <2>2. IsFiniteSet(Writing') /\ Cardinality(Writing') = depth + 1
    BY <2>1, FS_AddElement DEF LockInv, LockHeldByWriters
  <2>3. holder' = SessionOf[t] /\ depth' = depth + 1
    BY <1>1 DEF Lock
  <2>4. \A u \in Writing : SessionOf[u] = holder /\ SessionOf[u] # None
    BY Homes DEF LockInv, LockHeldByWriters, Writing
  <2>5. holder \in {None, SessionOf[t]}
    BY <1>1 DEF Lock
  <2>6. QED
    BY <2>1, <2>2, <2>3, <2>4, <2>5 DEF LockInv, LockHeldByWriters
<1>2. ASSUME NEW t \in Threads, Read(t) \/ Insert(t) \/ StatementFails(t)
                               \/ StatementOnBroken(t)
      PROVE  LockInv'
  <2>1. Writing' = Writing
    BY <1>2 DEF Read, Insert, StatementFails, StatementOnBroken, Writing
  <2>2. UNCHANGED <<holder, depth>>
    BY <1>2 DEF Read, Insert, StatementFails, StatementOnBroken
  <2>3. QED
    BY <2>1, <2>2, LockKept
<1>3. ASSUME NEW t \in Threads, Unlock(t)
      PROVE  LockInv'
  <2>1. Writing' = Writing \ {t} /\ t \in Writing
    BY <1>3 DEF Unlock, Writing
  <2>2. IsFiniteSet(Writing') /\ Cardinality(Writing') = depth - 1
    BY <2>1, FS_RemoveElement DEF LockInv, LockHeldByWriters
  <2>3. depth' = depth - 1 /\ holder' = IF depth = 1 THEN None ELSE holder
    BY <1>3 DEF Unlock
  <2>4. depth = 1 => Writing' = {}
    BY <2>2, FS_EmptySet
  <2>5. depth # 1 => Writing' # {}
    BY <2>2, FS_EmptySet
  <2>6. \A u \in Writing' : SessionOf[u] = holder'
    BY <2>1, <2>3, <2>4 DEF LockInv, LockHeldByWriters
  <2>7. QED
    BY <2>2, <2>3, <2>5, <2>6 DEF LockInv, LockHeldByWriters
<1>4. ASSUME NEW t \in Threads, NEW e \in Events, Begin(t, e)
      PROVE  LockInv'
  <2>1. Writing' = Writing
    BY <1>4, Homes DEF Begin, Writing, Carrying
  <2>2. QED
    BY <1>4, <2>1, LockKept DEF Begin
<1>5. ASSUME NEW t \in Threads, NEW e \in Events, BeginWithoutDb(t, e)
      PROVE  LockInv'
  BY <1>5, LockKept DEF BeginWithoutDb, Writing
<1>6. ASSUME NEW s \in Sessions, ConnectionLost(s)
      PROVE  LockInv'
  <2>1. Writing' = {t \in Writing : SessionOf[t] # s}
    BY <1>6, Homes DEF ConnectionLost, Writing
  <2>2. QED
    BY <1>6, <2>1, LockDropped DEF ConnectionLost
<1>7. ASSUME NEW s \in Sessions, Restart(s)
      PROVE  LockInv'
  <2>1. Writing' = {t \in Writing : SessionOf[t] # s}
    BY <1>7, Homes DEF Restart, Writing
  <2>2. QED
    BY <1>7, <2>1, LockDropped DEF Restart
<1>8. ASSUME NEW e \in Events, DeployInsert(e)
      PROVE  LockInv'
  BY <1>8, LockKept DEF DeployInsert, Writing
<1>9. CASE UNCHANGED vars
  BY <1>9, LockKept DEF vars, Writing
<1>10. QED
  BY <1>1, <1>2, <1>3, <1>4, <1>5, <1>6, <1>7, <1>8, <1>9 DEF Next, Statement

LEMMA LockAlways == Spec => [](TypeOK /\ Carrying /\ LockInv)
<1>1. Init => TypeOK /\ Carrying /\ LockInv
  BY TypeInit, LockInit DEF Init, Carrying
<1>2. TypeOK /\ Carrying /\ LockInv /\ [Next]_vars
        => (TypeOK /\ Carrying /\ LockInv)'
  BY TypeNext, LockNext
<1>3. QED
  BY <1>1, <1>2, PTL DEF Spec

(* Every variable keeps its type: rows, connections and the depth of the   *)
(* lock, which no unlock makes negative.                                   *)
THEOREM AuditTypes == Spec => []TypeOK
  BY LockAlways, PTL

(* However many routers and threads write, and wherever statements fail,   *)
(* connections break and processes restart, the advisory lock is held      *)
(* exactly while a thread is between its lock and its unlock.              *)
THEOREM LockFollowsWriters == Spec => []LockHeldByWriters
<1>1. LockInv => LockHeldByWriters
  BY DEF LockInv
<1>2. QED
  BY <1>1, LockAlways, PTL

-----------------------------------------------------------------------------
(* The chain. *)

LEMMA OldRowsLinked ==
  ASSUME NEW n \in Nat, NEW m \in Nat, rows = OldRows(n, m)
  PROVE  LinkedToPrevious
<1> DEFINE hash(i) == [k \in 1 .. i |-> Original]
<1> SUFFICES ASSUME NEW i \in DOMAIN rows, rows[i].hash # None
             PROVE  rows[i].prev = HashAfter(rows, i - 1) /\ ContentOK(rows, i)
  BY DEF LinkedToPrevious
<1>1. DOMAIN rows = 1 .. n + m
  BY DEF OldRows
<1>2. \A j \in 1 .. n : rows[j].hash = None
  BY DEF OldRows, Unchained
<1>3. \A j \in n + 1 .. n + m :
        /\ rows[j].prev = hash(j - n - 1)
        /\ rows[j].hash = hash(j - n)
        /\ rows[j].version = "legacy"
  <2>1. \A j \in n + 1 .. n + m : j \in 1 .. n + m /\ ~(j <= n)
    OBVIOUS
  <2>2. QED
    BY <2>1 DEF OldRows
<1>4. i \in n + 1 .. n + m
  BY <1>1, <1>2
<1>5. \A k \in Nat : hash(k) # None
  BY AuditConstants
<1>6. hash(0) = <<>>
  OBVIOUS
<1> HIDE DEF hash
<1>7. rows[i].prev = hash(i - n - 1) /\ rows[i].version = "legacy"
  BY <1>3, <1>4
<1>8. CASE i = n + 1
  <2>1. HashAfter(rows, i - 1) = <<>>
    BY <1>2, <1>8 DEF HashAfter
  <2>2. QED
    BY <1>6, <1>7, <1>8, <2>1 DEF ContentOK
<1>9. CASE i # n + 1
  <2>1. i - 1 \in n + 1 .. n + m /\ i - 1 - n \in Nat /\ i - 1 # 0
    BY <1>4, <1>9
  <2>2. rows[i - 1].hash = hash(i - 1 - n)
    BY <1>3, <2>1
  <2>3. i - 1 - n = i - n - 1
    BY <1>4
  <2>4. HashAfter(rows, i - 1) = hash(i - n - 1)
    BY <1>5, <2>1, <2>2, <2>3 DEF HashAfter
  <2>5. QED
    BY <1>7, <2>4 DEF ContentOK
<1>10. QED
  BY <1>8, <1>9

LEMMA ChainInit == Init => ChainInv
<1> SUFFICES ASSUME Init PROVE ChainInv
  OBVIOUS
<1>1. LinkedToPrevious
  BY OldRowsLinked, AuditConstants DEF Init
<1>2. QED
  BY <1>1 DEF Init, ChainInv, Fresh

(* What a chain whose rows, reads and sessions stand keeps. *)
LEMMA ChainKept ==
  ASSUME ChainInv, UNCHANGED rows,
         \A t \in Threads : (pc[t] = "insert" /\ Up(t))' =>
           pc[t] = "insert" /\ Up(t) /\ prev'[t] = prev[t]
  PROVE  ChainInv'
  BY DEF ChainInv, ChainLast, LinkedToPrevious, Fresh, LastHash, HashAfter, ContentOK

LEMMA InsertChains ==
  ASSUME TypeOK, Carrying, LockInv, ChainInv, OneThreadPerSession,
         NEW t \in Threads, Insert(t)
  PROVE  ChainInv'
<1> DEFINE n == Len(rows)
           new == NewRow(ev[t], prev[t])
<1> SUFFICES ASSUME ChainLast(rows)'
             PROVE  LinkedToPrevious' /\ Fresh'
  BY DEF ChainInv
<1>1. rows \in Seq(Row) /\ rows' = Append(rows, new)
  BY DEF TypeOK, Insert
<1>2. /\ n \in Nat /\ DOMAIN rows = 1 .. n
      /\ DOMAIN rows' = 1 .. n + 1
      /\ \A i \in 1 .. n : rows'[i] = rows[i]
      /\ rows'[n + 1] = new
  BY <1>1 DEF TypeOK
<1>3. ChainLast(rows)
  BY <1>2 DEF ChainLast
<1>4. LinkedToPrevious /\ Fresh
  BY <1>3 DEF ChainInv
<1>5. prev[t] = HashAfter(rows, n)
  BY <1>1, <1>4 DEF Fresh, Insert, LastHash, HashAfter
<1> HIDE DEF n
<1>6. new.prev = prev[t] /\ new.hash = EntryHash(new.prev, new.ev)
  BY DEF NewRow
<1>7. LinkedToPrevious'
  <2> SUFFICES ASSUME NEW i \in 1 .. n + 1, rows'[i].hash # None
               PROVE  rows'[i].prev = HashAfter(rows', i - 1) /\ ContentOK(rows', i)
    BY <1>2 DEF LinkedToPrevious
  <2>1. HashAfter(rows', i - 1) = HashAfter(rows, i - 1)
    BY <1>2 DEF HashAfter
  <2>2. CASE i \in 1 .. n
    <3>1. rows[i].prev = HashAfter(rows, i - 1) /\ ContentOK(rows, i)
      BY <1>2, <1>4, <2>2 DEF LinkedToPrevious
    <3>2. QED
      BY <1>2, <2>1, <2>2, <3>1 DEF ContentOK
  <2>3. CASE i = n + 1
    <3>1. i - 1 = n
      BY <1>2, <2>3
    <3>2. QED
      BY <1>2, <1>5, <1>6, <2>1, <2>3, <3>1 DEF ContentOK
  <2>4. QED
    BY <1>2, <2>2, <2>3
<1>8. Fresh'
  <2> SUFFICES ASSUME NEW u \in Threads, (pc[u] = "insert" /\ Up(u))'
               PROVE  FALSE
    BY DEF Fresh
  <2>1. pc[u] = "insert" /\ Up(u) /\ u # t
    BY DEF Insert, TypeOK, Up
  <2>2. t \in Writing /\ u \in Writing
    BY <2>1 DEF Writing, Inside, Insert
  <2>3. SessionOf[t] = SessionOf[u]
    BY <2>2 DEF LockInv, LockHeldByWriters
  <2>4. QED
    BY <2>1, <2>3 DEF OneThreadPerSession
<1>9. QED
  BY <1>7, <1>8

LEMMA DeployChains ==
  ASSUME TypeOK, ChainInv, NEW e \in Events, DeployInsert(e)
  PROVE  ChainInv'
<1> DEFINE n == Len(rows)
<1> SUFFICES ASSUME ChainLast(rows)'
             PROVE  LinkedToPrevious' /\ Fresh'
  BY DEF ChainInv
<1>1. /\ n \in Nat /\ DOMAIN rows = 1 .. n
      /\ DOMAIN rows' = 1 .. n + 1 /\ Len(rows') = n + 1
      /\ \A i \in 1 .. n : rows'[i] = rows[i]
      /\ rows'[n + 1].hash = None
  BY DEF TypeOK, DeployInsert, Unchained
<1> HIDE DEF n
<1>2. \A i \in 1 .. n + 1 : rows'[i].hash = None
  BY <1>1 DEF ChainLast
<1>3. LinkedToPrevious'
  BY <1>1, <1>2 DEF LinkedToPrevious
<1>4. ChainLast(rows) /\ LastHash = <<>> /\ LastHash' = <<>>
  BY <1>1, <1>2 DEF ChainLast, LastHash, n
<1>5. Fresh
  BY <1>4 DEF ChainInv
<1>6. QED
  BY <1>3, <1>4, <1>5 DEF Fresh, DeployInsert, Up

LEMMA ChainNext ==
  ASSUME TypeOK, Carrying, LockInv, ChainInv, OneThreadPerSession, [Next]_vars
  PROVE  ChainInv'
<1> USE DEF TypeOK, Up
<1>1. ASSUME NEW t \in Threads, Lock(t) \/ Unlock(t) \/ StatementFails(t)
                               \/ StatementOnBroken(t)
      PROVE  ChainInv'
  <2>1. \A u \in Threads : pc'[u] = "insert" => pc[u] = "insert"
    BY <1>1 DEF Lock, Unlock, StatementFails, StatementOnBroken
  <2>2. UNCHANGED <<rows, conn, prev>>
    BY <1>1 DEF Lock, Unlock, StatementFails, StatementOnBroken
  <2>3. QED
    BY <2>1, <2>2, ChainKept
<1>2. ASSUME NEW t \in Threads, Read(t)
      PROVE  ChainInv'
  <2>1. /\ UNCHANGED <<rows, conn>>
        /\ prev'[t] = LastHash
        /\ \A u \in Threads \ {t} :
             pc'[u] = pc[u] /\ prev'[u] = prev[u]
    BY <1>2 DEF Read
  <2>2. LastHash' = LastHash /\ (LinkedToPrevious <=> LinkedToPrevious')
        /\ (ChainLast(rows) <=> ChainLast(rows)')
    BY <2>1 DEF LastHash, LinkedToPrevious, ChainLast, HashAfter, ContentOK
  <2>3. Fresh => Fresh'
    BY <2>1, <2>2 DEF Fresh
  <2>4. QED
    BY <2>2, <2>3 DEF ChainInv
<1>3. ASSUME NEW t \in Threads, NEW e \in Events, Begin(t, e)
      PROVE  ChainInv'
  <2>1. UNCHANGED <<rows, prev>>
    BY <1>3 DEF Begin
  <2>2. ASSUME NEW u \in Threads, (pc[u] = "insert" /\ Up(u))'
        PROVE  pc[u] = "insert" /\ Up(u)
    BY <1>3, <2>2, Homes DEF Begin, Carrying
  <2>3. QED
    BY <2>1, <2>2, ChainKept
<1>4. ASSUME NEW t \in Threads, NEW e \in Events, BeginWithoutDb(t, e)
      PROVE  ChainInv'
  BY <1>4, ChainKept DEF BeginWithoutDb
<1>5. ASSUME NEW s \in Sessions, ConnectionLost(s) \/ Restart(s)
      PROVE  ChainInv'
  <2>1. UNCHANGED <<rows, prev>>
    BY <1>5 DEF ConnectionLost, Restart
  <2>2. ASSUME NEW u \in Threads, (pc[u] = "insert" /\ Up(u))'
        PROVE  pc[u] = "insert" /\ Up(u)
    BY <1>5, <2>2, Homes DEF ConnectionLost, Restart
  <2>3. QED
    BY <2>1, <2>2, ChainKept
<1>6. CASE UNCHANGED vars
  BY <1>6, ChainKept DEF vars
<1>7. QED
  BY <1>1, <1>2, <1>3, <1>4, <1>5, <1>6, InsertChains, DeployChains
  DEF Next, Statement

(* Rows that link to the row before them make a chain that /audit/verify   *)
(* accepts.                                                                *)
LEMMA LinkedVerifies ==
  ASSUME TypeOK, ChainLast(rows), LinkedToPrevious
  PROVE  Verify(rows)
<1> SUFFICES ASSUME NEW i \in Chained(rows)
             PROVE  Linked(rows, i) /\ ContentOK(rows, i)
  BY DEF Verify
<1>1. /\ i \in DOMAIN rows /\ rows[i].hash # None /\ i \in Nat \ {0}
      /\ \A j \in DOMAIN rows : j \in Nat \ {0}
      /\ \A j \in Nat \ {0} : j < i => j \in DOMAIN rows
  BY DEF Chained, TypeOK
<1>2. rows[i].prev = HashAfter(rows, i - 1) /\ ContentOK(rows, i)
  BY <1>1 DEF LinkedToPrevious
<1>3. CASE i = 1 \/ rows[i - 1].hash = None
  <2>1. rows[i].prev = <<>>
    BY <1>2, <1>3 DEF HashAfter
  <2>2. ASSUME NEW j \in Chained(rows), j < i
        PROVE  FALSE
    <3>1. j \in DOMAIN rows /\ rows[j].hash # None
      BY DEF Chained
    <3>2. i # 1 /\ i - 1 \in DOMAIN rows /\ (j = i - 1 \/ j < i - 1)
      BY <1>1, <2>2, <3>1
    <3>3. QED
      BY <1>3, <3>1, <3>2 DEF ChainLast
  <2>3. QED
    BY <1>2, <2>1, <2>2 DEF Linked
<1>4. CASE ~(i = 1 \/ rows[i - 1].hash = None)
  <2>1. i - 1 \in DOMAIN rows /\ i - 1 # 0
    BY <1>1, <1>4
  <2>2. i - 1 \in Chained(rows) /\ rows[i].prev = rows[i - 1].hash /\ i - 1 < i
    BY <1>1, <1>2, <1>4, <2>1 DEF Chained, HashAfter
  <2>3. \A k \in Chained(rows) : k < i => k <= i - 1
    BY <1>1 DEF Chained
  <2>4. QED
    BY <1>2, <2>2, <2>3 DEF Linked
<1>5. QED
  BY <1>3, <1>4

(* Routers with one writing thread each, however many there are and        *)
(* whatever fails, leave a table that /audit/verify accepts unless the     *)
(* deploy service has written into the chain.                              *)
THEOREM ChainStaysIntact ==
  ASSUME OneThreadPerSession
  PROVE  Spec => []ChainIntact
<1>1. TypeOK /\ Carrying /\ LockInv /\ ChainInv /\ [Next]_vars => ChainInv'
  BY ChainNext
<1>2. TypeOK /\ ChainInv => ChainIntact
  BY LinkedVerifies DEF ChainInv, ChainIntact
<1>3. QED
  BY <1>1, <1>2, ChainInit, LockAlways, PTL DEF Spec

-----------------------------------------------------------------------------
(* What /audit/verify shows. *)

(* Of the rows as they can be, whoever writes them: a hash is one entry    *)
(* longer than the one it links to; a chained row that is not the last has *)
(* a next one; and in a table that verifies, later hashes are longer.      *)
EntryLonger(r) == r.hash # None => r.prev \in Hashes /\ Len(r.hash) = Len(r.prev) + 1

NextIs(i, k) ==
  k \in Chained(rows) /\ i < k /\ \A l \in Chained(rows) : i < l => k <= l

SomeNext == \A i, j \in Chained(rows) : i < j => \E k \in DOMAIN rows : NextIs(i, k)

LongerLater ==
  Verify(rows) =>
    \A i, j \in Chained(rows) : i < j => Len(rows[i].hash) < Len(rows[j].hash)

TamperInv == (\A i \in DOMAIN rows : EntryLonger(rows[i])) /\ SomeNext /\ LongerLater

LEMMA ChainedRow ==
  ASSUME TypeOK, NEW i \in Chained(rows)
  PROVE  /\ i \in Nat \ {0} /\ i \in 1 .. Len(rows) /\ i \in DOMAIN rows
         /\ rows[i] \in Row /\ rows[i].hash # None /\ rows[i].hash \in Hashes
<1>1. i \in DOMAIN rows /\ rows[i].hash # None /\ rows[i] \in Row
  BY DEF Chained, TypeOK
<1>2. QED
  BY <1>1 DEF TypeOK, Row

(* A chained row that follows another links to the hash of the last one    *)
(* before it.                                                              *)
LEMMA LinkedToLast ==
  ASSUME TypeOK, TamperInv, Verify(rows),
         NEW i \in Chained(rows), NEW j \in Chained(rows), i < j
  PROVE  \E p \in Chained(rows) :
           /\ i <= p /\ p < j
           /\ \A k \in Chained(rows) : k < j => k <= p
           /\ rows[j].prev = rows[p].hash
<1>1. Linked(rows, j)
  BY DEF Verify
<1>2. QED
  BY <1>1 DEF Linked

LEMMA HashNotEmpty ==
  ASSUME TypeOK, TamperInv, NEW i \in Chained(rows)
  PROVE  /\ rows[i].hash # <<>> /\ rows[i].hash # rows[i].prev
         /\ rows[i].prev \in Hashes /\ Len(rows[i].hash) \in Nat
<1>1. /\ rows[i].prev \in Hashes /\ rows[i].hash \in Hashes
      /\ Len(rows[i].hash) = Len(rows[i].prev) + 1
  BY ChainedRow DEF TamperInv, EntryLonger
<1>2. Len(rows[i].prev) \in Nat /\ Len(rows[i].hash) \in Nat
  BY <1>1 DEF Hashes
<1>3. Len(rows[i].hash) # Len(rows[i].prev) /\ Len(rows[i].hash) # 0
  BY <1>1, <1>2
<1>4. QED
  BY <1>1, <1>2, <1>3

LEMMA EditShows ==
  ASSUME TypeOK, TamperInv, Verify(rows),
         NEW i \in Chained(rows), rows[i].version = "canonical"
  PROVE  ~Verify(Edited(rows, i))
<1> DEFINE rs == Edited(rows, i)
           c == CHOOSE c \in Contents : c # rows[i].ev
<1> SUFFICES ASSUME Verify(rs) PROVE FALSE
  OBVIOUS
<1>1. c \in Contents /\ c # rows[i].ev
  <2>1. \E d \in Contents : d # rows[i].ev
    BY AuditConstants DEF Contents
  <2>2. QED
    BY <2>1
<1>2. i \in DOMAIN rows /\ rows[i] \in Row /\ rows[i].hash # None
  BY ChainedRow
<1>3. /\ DOMAIN rs = DOMAIN rows
      /\ rs[i] = [rows[i] EXCEPT !.ev = c]
  BY <1>2 DEF Edited
<1> HIDE DEF rs, c
<1>4. rs[i].hash = rows[i].hash /\ rs[i].prev = rows[i].prev /\ rs[i].ev = c
      /\ rs[i].version = "canonical"
  BY <1>2, <1>3 DEF Row
<1>5. i \in Chained(rs)
  BY <1>2, <1>3, <1>4 DEF Chained
<1>6. rows[i].hash = Append(rows[i].prev, c)
  BY <1>4, <1>5 DEF Verify, ContentOK, EntryHash
<1>7. rows[i].hash = Append(rows[i].prev, rows[i].ev)
  BY DEF Verify, ContentOK, EntryHash
<1>8. rows[i].prev \in Hashes /\ rows[i].ev \in Contents
  BY <1>2, HashNotEmpty DEF Row
<1>9. \A h \in Hashes : \A d \in Contents : Append(h, d)[Len(h) + 1] = d
  BY DEF Hashes
<1>10. /\ Append(rows[i].prev, c)[Len(rows[i].prev) + 1] = c
       /\ Append(rows[i].prev, rows[i].ev)[Len(rows[i].prev) + 1] = rows[i].ev
  BY <1>1, <1>8, <1>9
<1>11. QED
  BY <1>1, <1>6, <1>7, <1>10

LEMMA DeletionShows ==
  ASSUME TypeOK, TamperInv, Verify(rows),
         NEW i \in Chained(rows), NEW j \in Chained(rows), i < j
  PROVE  ~Verify(Without(rows, i))
<1> DEFINE rs == Without(rows, i)
           n == Len(rows)
<1> SUFFICES ASSUME Verify(rs) PROVE FALSE
  OBVIOUS
<1>1. PICK k \in DOMAIN rows : NextIs(i, k)
  BY DEF TamperInv, SomeNext
<1>2. /\ k \in Chained(rows) /\ i < k
      /\ \A l \in Chained(rows) : i < l => k <= l
  BY <1>1 DEF NextIs
<1>3. i \in 1 .. n /\ k \in 1 .. n /\ n \in Nat /\ DOMAIN rows = 1 .. n
  BY <1>2, ChainedRow DEF TypeOK
<1>4. /\ DOMAIN rs = 1 .. n - 1
      /\ \A l \in 1 .. n - 1 : l < i => rs[l] = rows[l]
      /\ \A l \in 1 .. n - 1 : i <= l => rs[l] = rows[l + 1]
  BY <1>3 DEF Without
<1> HIDE DEF rs, n
<1>5. k - 1 \in 1 .. n - 1 /\ i <= k - 1 /\ rs[k - 1] = rows[k]
  <2>1. k - 1 \in 1 .. n - 1 /\ i <= k - 1 /\ k - 1 + 1 = k
    BY <1>2, <1>3
  <2>2. QED
    BY <2>1, <1>4
<1>6. rows[k].prev = rows[i].hash
  <2>1. PICK p \in Chained(rows) : i <= p /\ p < k /\ rows[k].prev = rows[p].hash
    BY <1>2, LinkedToLast
  <2>2. p = i
    BY <2>1, <1>2, <1>3, ChainedRow
  <2>3. QED
    BY <2>1, <2>2
<1>7. k - 1 \in Chained(rs)
  BY <1>2, <1>4, <1>5 DEF Chained
<1>8. rs[k - 1].prev # <<>>
  BY <1>5, <1>6, HashNotEmpty
<1>9. PICK m \in Chained(rs) :
        /\ m < k - 1
        /\ \A l \in Chained(rs) : l < k - 1 => l <= m
        /\ rs[k - 1].prev = rs[m].hash
  BY <1>7, <1>8 DEF Verify, Linked
<1>10. m \in 1 .. n - 1 /\ rs[m].hash # None
  BY <1>4 DEF Chained
<1>11. m < i
  <2> SUFFICES ASSUME i <= m PROVE FALSE
    BY <1>3, <1>10
  <2>1. rs[m] = rows[m + 1] /\ m + 1 \in DOMAIN rows
    BY <1>3, <1>4, <1>10
  <2>2. m + 1 \in Chained(rows)
    BY <2>1, <1>10 DEF Chained
  <2>3. QED
    BY <1>2, <1>3, <1>9, <1>10, <2>2
<1>12. rs[m] = rows[m] /\ m \in Chained(rows)
  BY <1>3, <1>4, <1>10, <1>11 DEF Chained
<1>13. PICK p \in Chained(rows) :
         /\ m <= p /\ p < i
         /\ rows[i].prev = rows[p].hash
  BY <1>11, <1>12, LinkedToLast
<1>14. p \in Chained(rs) /\ p < k - 1
  <2>1. p \in 1 .. n /\ p < i
    BY <1>13, <1>3, ChainedRow
  <2>2. p \in 1 .. n - 1 /\ p < k - 1 /\ rs[p] = rows[p]
    BY <2>1, <1>3, <1>4, <1>5
  <2>3. QED
    BY <2>2, <1>4, <1>13, ChainedRow DEF Chained
<1>15. p = m
  BY <1>9, <1>13, <1>14, <1>10, ChainedRow
<1>16. rows[i].hash = rows[i].prev
  BY <1>5, <1>6, <1>9, <1>12, <1>13, <1>15
<1>17. QED
  BY <1>16, HashNotEmpty

LEMMA ExchangeShows ==
  ASSUME TypeOK, TamperInv, Verify(rows),
         NEW i \in Chained(rows), NEW j \in Chained(rows), i < j
  PROVE  ~Verify(Swapped(rows, i, j))
<1> DEFINE rs == Swapped(rows, i, j)
<1> SUFFICES ASSUME Verify(rs) PROVE FALSE
  OBVIOUS
<1>1. i \in DOMAIN rows /\ j \in DOMAIN rows /\ i \in Nat /\ j \in Nat
  BY ChainedRow
<1>2. /\ DOMAIN rs = DOMAIN rows /\ rs[i] = rows[j] /\ rs[j] = rows[i]
      /\ \A k \in DOMAIN rows : k # i /\ k # j => rs[k] = rows[k]
  BY <1>1 DEF Swapped
<1> HIDE DEF rs
<1>3. Chained(rs) = Chained(rows)
  BY <1>1, <1>2, ChainedRow DEF Chained
<1>4. PICK p \in Chained(rows) : i <= p /\ p < j /\ rows[j].prev = rows[p].hash
  BY LinkedToLast
<1>5. rows[j].prev # <<>>
  BY <1>4, HashNotEmpty
<1>6. PICK m \in Chained(rows) : m < i /\ rs[i].prev = rs[m].hash
  BY <1>2, <1>3, <1>5 DEF Verify, Linked
<1>7. rs[m] = rows[m]
  BY <1>1, <1>2, <1>6, ChainedRow
<1>8. rows[m].hash = rows[p].hash
  BY <1>2, <1>4, <1>6, <1>7
<1>9. m < p
  BY <1>1, <1>4, <1>6, ChainedRow
<1>10. Len(rows[m].hash) < Len(rows[p].hash)
  BY <1>9 DEF TamperInv, LongerLater
<1>11. QED
  BY <1>8, <1>10, HashNotEmpty

LEMMA TamperingShows ==
  ASSUME TypeOK, TamperInv
  PROVE  TamperShows
  BY EditShows, DeletionShows, ExchangeShows DEF TamperShows

LEMMA TamperInit == Init => TamperInv
<1> SUFFICES ASSUME NEW n \in Nat, NEW m \in Nat, rows = OldRows(n, m)
             PROVE  TamperInv
  BY AuditConstants DEF Init
<1> DEFINE hash(i) == [k \in 1 .. i |-> Original]
<1>1. DOMAIN rows = 1 .. n + m
  BY DEF OldRows
<1>2. \A j \in 1 .. n : rows[j].hash = None
  BY DEF OldRows, Unchained
<1>3. \A j \in n + 1 .. n + m :
        rows[j].prev = hash(j - n - 1) /\ rows[j].hash = hash(j - n)
  <2>1. \A j \in n + 1 .. n + m : j \in 1 .. n + m /\ ~(j <= n)
    OBVIOUS
  <2>2. QED
    BY <2>1 DEF OldRows
<1>4. \A k \in Nat : hash(k) # None /\ hash(k) \in Hashes /\ Len(hash(k)) = k
  BY AuditConstants DEF Hashes, Contents
<1> HIDE DEF hash
<1>5. \A j \in n + 1 .. n + m : j - n \in Nat /\ j - n - 1 \in Nat /\ j - n - 1 + 1 = j - n
  OBVIOUS
<1>6. Chained(rows) = n + 1 .. n + m
  BY <1>1, <1>2, <1>3, <1>4, <1>5 DEF Chained
<1>7. \A i \in DOMAIN rows : EntryLonger(rows[i])
  BY <1>1, <1>2, <1>3, <1>4, <1>5 DEF EntryLonger
<1>8. SomeNext
  <2> SUFFICES ASSUME NEW i \in n + 1 .. n + m, NEW j \in n + 1 .. n + m, i < j
               PROVE  NextIs(i, i + 1) /\ i + 1 \in DOMAIN rows
    BY <1>6 DEF SomeNext
  <2>1. QED
    BY <1>1, <1>6 DEF NextIs
<1>9. LongerLater
  BY <1>3, <1>4, <1>5, <1>6 DEF LongerLater
<1>10. QED
  BY <1>7, <1>8, <1>9 DEF TamperInv

LEMMA TamperAppend ==
  ASSUME TypeOK, TamperInv, NEW r \in Row, EntryLonger(r), rows' = Append(rows, r)
  PROVE  TamperInv'
<1> DEFINE n == Len(rows)
<1>1. /\ n \in Nat /\ DOMAIN rows = 1 .. n /\ DOMAIN rows' = 1 .. n + 1
      /\ \A i \in 1 .. n : rows'[i] = rows[i]
      /\ rows'[n + 1] = r
  BY DEF TypeOK
<1>2. /\ Chained(rows) \subseteq 1 .. n
      /\ \A i \in 1 .. n : i \in Chained(rows') <=> i \in Chained(rows)
      /\ \A i \in Chained(rows') : i \in Chained(rows) \/ i = n + 1
      /\ n + 1 \in Chained(rows') <=> r.hash # None
  BY <1>1 DEF Chained
<1> HIDE DEF n
<1>3. (\A i \in DOMAIN rows : EntryLonger(rows[i]))'
  BY <1>1 DEF TamperInv, EntryLonger
<1>4. SomeNext'
  <2> SUFFICES ASSUME NEW i \in Chained(rows'), NEW j \in Chained(rows'), i < j
               PROVE  \E k \in 1 .. n + 1 : NextIs(i, k)'
    BY <1>1 DEF SomeNext
  <2>1. i \in Chained(rows)
    BY <1>1, <1>2
  <2>2. CASE \E l \in Chained(rows) : i < l
    <3>1. PICK k \in DOMAIN rows : NextIs(i, k)
      BY <2>1, <2>2 DEF TamperInv, SomeNext
    <3>2. k \in Chained(rows') /\ k \in 1 .. n
      BY <1>1, <1>2, <3>1 DEF NextIs
    <3>3. \A l \in Chained(rows') : i < l => k <= l
      BY <1>1, <1>2, <3>1, <3>2 DEF NextIs
    <3>4. QED
      BY <1>1, <3>1, <3>2, <3>3 DEF NextIs
  <2>3. CASE ~\E l \in Chained(rows) : i < l
    <3>1. j = n + 1
      BY <1>2, <2>3
    <3>2. \A l \in Chained(rows') : i < l => l = n + 1
      BY <1>2, <2>3
    <3>3. QED
      BY <1>1, <3>1, <3>2 DEF NextIs
  <2>4. QED
    BY <2>2, <2>3
<1>5. LongerLater'
  <2> SUFFICES ASSUME Verify(rows'), NEW i \in Chained(rows'), NEW j \in Chained(rows'), i < j
               PROVE  Len(rows'[i].hash) < Len(rows'[j].hash)
    BY DEF LongerLater
  <2>1. Verify(rows)
    <3> SUFFICES ASSUME NEW l \in Chained(rows)
                 PROVE  Linked(rows, l) /\ ContentOK(rows, l)
      BY DEF Verify
    <3>1. l \in Chained(rows') /\ l \in 1 .. n /\ rows'[l] = rows[l]
      BY <1>1, <1>2
    <3>2. Linked(rows', l) /\ ContentOK(rows', l)
      BY <3>1 DEF Verify
    <3>3. {k \in Chained(rows') : k < l} = {k \in Chained(rows) : k < l}
      <4>1. \A k \in Chained(rows') : k < l => k \in Chained(rows)
        BY <1>1, <1>2, <3>1
      <4>2. \A k \in Chained(rows) : k \in Chained(rows')
        BY <1>2
      <4>3. QED
        BY <4>1, <4>2
    <3>4. \A k \in Chained(rows) : k < l => rows'[k] = rows[k]
      BY <1>1, <1>2
    <3>5. Linked(rows, l)
      BY <3>1, <3>2, <3>3, <3>4 DEF Linked
    <3>6. QED
      BY <3>1, <3>2, <3>5 DEF ContentOK
  <2>2. \A k, l \in Chained(rows) : k < l => Len(rows[k].hash) < Len(rows[l].hash)
    BY <2>1 DEF TamperInv, LongerLater
  <2>3. i \in Chained(rows) /\ rows'[i] = rows[i]
    BY <1>1, <1>2
  <2>4. CASE j \in Chained(rows)
    BY <1>1, <1>2, <2>2, <2>3, <2>4
  <2>5. CASE j = n + 1
    <3>1. r.hash # None
      BY <1>2, <2>5
    <3>2. r.prev \in Hashes /\ r.hash \in Hashes /\ Len(r.hash) = Len(r.prev) + 1
      BY <3>1 DEF EntryLonger, Row
    <3>3. PICK p \in Chained(rows') :
            /\ p < j
            /\ \A k \in Chained(rows') : k < j => k <= p
            /\ r.prev = rows'[p].hash
      <4>1. Linked(rows', j)
        BY DEF Verify
      <4>2. QED
        BY <1>1, <2>5, <4>1 DEF Linked
    <3>4. p \in Chained(rows) /\ rows'[p] = rows[p] /\ i <= p
      <4>1. p # n + 1
        BY <1>1, <2>5, <3>3
      <4>2. p \in Chained(rows) /\ p \in 1 .. n
        BY <1>2, <4>1
      <4>3. QED
        BY <1>1, <3>3, <4>2
    <3>5. /\ Len(rows[i].hash) \in Nat /\ Len(rows[p].hash) \in Nat
          /\ Len(rows[i].hash) <= Len(rows[p].hash)
      <4>1. Len(rows[i].hash) \in Nat /\ Len(rows[p].hash) \in Nat
        BY <2>3, <3>4, HashNotEmpty
      <4>2. i = p \/ i < p
        BY <1>1, <1>2, <2>3, <3>4
      <4>3. QED
        BY <2>2, <2>3, <3>4, <4>1, <4>2
    <3>6. QED
      BY <1>1, <2>3, <2>5, <3>2, <3>3, <3>4, <3>5
  <2>6. QED
    BY <1>2, <2>4, <2>5
<1>6. QED
  BY <1>3, <1>4, <1>5 DEF TamperInv

LEMMA TamperNext ==
  ASSUME TypeOK, Carrying, TamperInv, [Next]_vars
  PROVE  TamperInv'
<1>1. ASSUME UNCHANGED rows PROVE TamperInv'
  BY <1>1 DEF TamperInv, EntryLonger, SomeNext, NextIs, LongerLater, Verify, Linked,
     ContentOK, Chained
<1>2. ASSUME NEW t \in Threads, Insert(t) PROVE TamperInv'
  <2>1. ev[t] \in Events /\ prev[t] \in Hashes
    BY <1>2 DEF Insert, Carrying, TypeOK
  <2>2. NewRow(ev[t], prev[t]) \in Row
    BY <2>1, NewRowType
  <2>3. EntryLonger(NewRow(ev[t], prev[t]))
    BY <2>1 DEF EntryLonger, NewRow, EntryHash, Hashes
  <2>4. QED
    BY <1>2, <2>2, <2>3, TamperAppend DEF Insert
<1>3. ASSUME NEW e \in Events, DeployInsert(e) PROVE TamperInv'
  <2>1. Unchained(e) \in Row /\ EntryLonger(Unchained(e))
    BY DEF Unchained, Row, Contents, EntryLonger
  <2>2. QED
    BY <1>3, <2>1, TamperAppend DEF DeployInsert
<1>4. ASSUME NEW t \in Threads,
             Lock(t) \/ Read(t) \/ Unlock(t) \/ StatementOnBroken(t) \/ StatementFails(t)
      PROVE  UNCHANGED rows
  BY <1>4 DEF Lock, Read, Unlock, StatementOnBroken, StatementFails
<1>5. ASSUME NEW t \in Threads, NEW e \in Events, Begin(t, e) \/ BeginWithoutDb(t, e)
      PROVE  UNCHANGED rows
  BY <1>5 DEF Begin, BeginWithoutDb
<1>6. ASSUME NEW s \in Sessions, ConnectionLost(s) \/ Restart(s)
      PROVE  UNCHANGED rows
  BY <1>6 DEF ConnectionLost, Restart
<1>7. CASE UNCHANGED vars
  BY <1>1, <1>7 DEF vars
<1>8. QED
  BY <1>1, <1>2, <1>3, <1>4, <1>5, <1>6, <1>7 DEF Next, Statement

(* Whatever the routers, the deploy service and the failures have left in  *)
(* the table: if /audit/verify accepts it, it reports the deletion of an   *)
(* entry that another follows, the edit of one and the exchange of two.    *)
THEOREM TamperingIsReported == Spec => []TamperShows
<1>1. TypeOK /\ Carrying /\ TamperInv /\ [Next]_vars => TamperInv'
  BY TamperNext
<1>2. TypeOK /\ TamperInv => TamperShows
  BY TamperingShows
<1>3. QED
  BY <1>1, <1>2, TamperInit, LockAlways, PTL DEF Spec

=============================================================================
