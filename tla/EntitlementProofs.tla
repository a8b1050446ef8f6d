-------------------------- MODULE EntitlementProofs --------------------------
(***************************************************************************)
(* Theorems of Entitlement, for any number of webhook requests, routers,   *)
(* subscriptions and events, and any interval.                             *)
(***************************************************************************)
EXTENDS Entitlement, SequenceTheorems, TLAPS

(***************************************************************************)
(* Types.                                                                  *)
(***************************************************************************)
LEMMA TypeInit == Init => TypeOK
<1> SUFFICES ASSUME Init PROVE TypeOK
  OBVIOUS
<1> USE EntitlementConstants DEF Init, Charged, Status, Old
<1>1. log \in Seq(Events) /\ Len(log) = 0
  OBVIOUS
<1>2. pc \in [Webhooks -> {"idle", "upsert", "keys"}] /\ event \in [Webhooks -> 0 .. Len(log)]
  BY <1>1
<1>3. age \in [Routers -> 0 .. Old] /\ off \in 0 .. Old
  OBVIOUS
<1>5. /\ pending \subseteq 1 .. Len(log) /\ Len(log) <= MaxEvents
      /\ \A w \in Webhooks : event[w] = 0 <=> pc[w] = "idle"
  BY <1>1
<1>4. QED
  BY <1>1, <1>2, <1>3, <1>5 DEF TypeOK

LEMMA EmitsType ==
  ASSUME TypeOK, NEW s \in 1 .. MaxSubs, NEW status \in Charged, Emits(s, status)
  PROVE  /\ log' \in Seq(Events)
         /\ Len(log') = Len(log) + 1 /\ Len(log') <= MaxEvents
         /\ pending' \subseteq 1 .. Len(log')
         /\ \A n \in 1 .. Len(log) : log'[n] = log[n]
<1> DEFINE e == [sub |-> s, status |-> status]
<1>1. e \in Events
  BY DEF Events
<1>2. log \in Seq(Events) /\ log' = Append(log, e)
  BY DEF TypeOK, Emits
<1> HIDE DEF e
<1>3. /\ log' \in Seq(Events) /\ Len(log') = Len(log) + 1
      /\ \A n \in 1 .. Len(log) : log'[n] = log[n]
  BY <1>1, <1>2, AppendProperties
<1>4. Len(log) \in Nat /\ Len(log) < MaxEvents /\ pending' = pending \cup {Len(log) + 1}
      /\ pending \subseteq 1 .. Len(log)
  BY <1>2, LenProperties DEF TypeOK, Emits
<1>5. Len(log') <= MaxEvents
  BY <1>3, <1>4, EntitlementConstants
<1>6. ASSUME NEW m \in pending' PROVE m \in 1 .. Len(log')
  <2>1. m \in 1 .. Len(log) \/ m = Len(log) + 1
    BY <1>4, <1>6
  <2>2. Len(log) \in Nat /\ Len(log') = Len(log) + 1
    BY <1>3, <1>4
  <2>3. QED
    BY <2>1, <2>2
<1>7. QED
  BY <1>3, <1>5, <1>6

LEMMA StatusType ==
  ASSUME TypeOK, NEW n \in 0 .. Len(log)
  PROVE  StatusAt(n) \in Status
<1>1. CASE n = 0
  BY <1>1 DEF StatusAt, Status
<1>2. CASE n # 0
  <2>1. log[n] \in Events
    BY <1>2, ElementOfSeq, LenProperties DEF TypeOK
  <2>2. QED
    BY <1>2, <2>1 DEF StatusAt, Status, Events
<1>3. QED
  BY <1>1, <1>2

LEMMA OlderType ==
  ASSUME NEW t \in 0 .. Old
  PROVE  Older(t) \in 0 .. Old
  BY EntitlementConstants DEF Older, Old

LEMMA TypeNext == TypeOK /\ [Next]_vars => TypeOK'
<1> SUFFICES ASSUME TypeOK, [Next]_vars PROVE TypeOK'
  OBVIOUS
<1> USE EntitlementConstants
<1> USE DEF TypeOK, stripe, webhook, tables, routers, history
<1>1. ASSUME NEW s \in 1 .. MaxSubs, NEW status \in Charged, Emits(s, status),
             UNCHANGED <<webhook, tables, routers, history>>
      PROVE  TypeOK'
  <2>1. /\ log' \in Seq(Events) /\ Len(log') <= MaxEvents
        /\ pending' \subseteq 1 .. Len(log')
    BY <1>1, EmitsType
  <2>2. event' \in [Webhooks -> 0 .. Len(log')]
    <3>1. Len(log) \in Nat /\ Len(log') = Len(log) + 1
      BY <1>1, EmitsType, LenProperties
    <3>2. QED
      BY <1>1, <3>1
  <2>3. QED
    BY <1>1, <2>1, <2>2
<1>2. ASSUME NEW w \in Webhooks, NEW n \in 1 .. Len(log), Deliver(w, n) PROVE TypeOK'
  BY <1>2 DEF Deliver
<1>3. ASSUME NEW w \in Webhooks, Upsert(w) PROVE TypeOK'
  <2>1. row' \in Status
    BY <1>3, StatusType DEF Upsert
  <2>2. QED
    BY <1>3, <2>1 DEF Upsert
<1>4. ASSUME NEW w \in Webhooks, NEW acknowledged \in BOOLEAN, SetKeys(w, acknowledged)
      PROVE  TypeOK'
  <2>1. active' \in BOOLEAN /\ off' \in 0 .. Old
    BY <1>4 DEF SetKeys, KeysFor, Old
  <2>2. /\ log' = log /\ row' = row /\ broken' = broken /\ admits' = admits /\ age' = age
        /\ overlap' = overlap /\ disorder' = disorder
        /\ pending' \subseteq pending
    BY <1>4 DEF SetKeys
  <2>3. /\ pc' \in [Webhooks -> {"idle", "upsert", "keys"}]
        /\ event' \in [Webhooks -> 0 .. Len(log)]
        /\ \A v \in Webhooks : event'[v] = 0 <=> pc'[v] = "idle"
    BY <1>4, LenProperties DEF SetKeys, Ends
  <2>4. QED
    BY <2>1, <2>2, <2>3
<1>5. ASSUME NEW w \in Webhooks, Fails(w) PROVE TypeOK'
  BY <1>5 DEF Fails, Ends
<1>6. ASSUME NEW r \in Routers, Refresh(r) PROVE TypeOK'
  BY <1>6 DEF Refresh, Old
<1>7. ASSUME NEW r \in Routers, ConnectionLost(r) PROVE TypeOK'
  BY <1>7 DEF ConnectionLost
<1>8. ASSUME NEW r \in Routers, Restart(r) PROVE TypeOK'
  BY <1>8 DEF Restart, Old
<1>9. CASE Tick
  <2>1. age' \in [Routers -> 0 .. Old] /\ off' \in 0 .. Old
    BY <1>9, OlderType DEF Tick, Old
  <2>2. QED
    BY <1>9, <2>1 DEF Tick
<1>10. CASE UNCHANGED vars
  BY <1>10 DEF vars
<1>11. QED
  <2>1. ASSUME NEW s \in 1 .. MaxSubs, Checkout(s) PROVE TypeOK'
    BY <1>1, <2>1 DEF Checkout, Charged
  <2>2. ASSUME NEW s \in 1 .. MaxSubs, NEW status \in Charged, Changes(s, status) PROVE TypeOK'
    BY <1>1, <2>2 DEF Changes
  <2>3. QED
    BY <1>2, <1>3, <1>4, <1>5, <1>6, <1>7, <1>8, <1>9, <1>10, <2>1, <2>2 DEF Next

(* Every variable keeps its type. *)
THEOREM EntitlementTypes == Spec => []TypeOK
  BY TypeInit, TypeNext, PTL DEF Spec

(***************************************************************************)
(* The routers.  A list that holds the tenant's keys was loaded while they *)
(* were active, and from then on both clocks run alike; it takes that keys *)
(* which are active have been inactive for no time.                        *)
(***************************************************************************)
StaleInv == (active => off = 0) /\ StaleIsKnown

LEMMA StaleNext == TypeOK /\ StaleInv /\ [Next]_vars => StaleInv'
<1> SUFFICES ASSUME TypeOK, StaleInv, [Next]_vars PROVE StaleInv'
  OBVIOUS
<1> USE EntitlementConstants
<1> USE DEF StaleInv, StaleIsKnown, stripe, webhook, tables, routers, history
<1>1. CASE UNCHANGED <<off, active, admits, age>>
  BY <1>1
<1>2. ASSUME NEW w \in Webhooks, NEW acknowledged \in BOOLEAN, SetKeys(w, acknowledged)
      PROVE  StaleInv'
  BY <1>2 DEF SetKeys, TypeOK
<1>3. ASSUME NEW r \in Routers, Refresh(r) PROVE StaleInv'
  BY <1>3 DEF Refresh, TypeOK
<1>4. ASSUME NEW r \in Routers, Restart(r) PROVE StaleInv'
  BY <1>4 DEF Restart, TypeOK
<1>5. CASE Tick
  <2>1. \A r \in admits : r \in Routers /\ age[r] \in 0 .. Old /\ off \in 0 .. Old
    BY DEF TypeOK
  <2>2. ASSUME NEW r \in admits PROVE off' <= age'[r]
    BY <1>5, <2>1 DEF Tick, Older, Old
  <2>3. QED
    BY <1>5, <2>2 DEF Tick
<1>6. QED
  BY <1>1, <1>2, <1>3, <1>4, <1>5
     DEF Next, vars, Checkout, Changes, Deliver, Upsert, Fails, ConnectionLost

(* A router's list is no older than it believes. *)
THEOREM ListAgeIsKnown == Spec => []StaleIsKnown
<1>1. Init => StaleInv
  BY DEF Init, StaleInv, StaleIsKnown
<1>2. StaleInv => StaleIsKnown
  BY DEF StaleInv
<1>3. QED
  BY <1>1, <1>2, EntitlementTypes, StaleNext, PTL DEF Spec

(***************************************************************************)
(* The webhook.  As long as deliveries do not overlap, the event a request *)
(* is about stays pending until that request is answered, and the row that *)
(* setTenantKeysActive follows is the one its own request has written.     *)
(***************************************************************************)
Busy == {w \in Webhooks : pc[w] # "idle"}

AloneInv ==
  ~overlap =>
    /\ \A v, w \in Busy : v = w
    /\ \A w \in Busy : event[w] \in pending
    /\ \A w \in Webhooks : pc[w] = "keys" => row = StatusAt(event[w])
    /\ pending = {} /\ log # <<>> => active = (row \in Entitled)

LEMMA AloneNext == TypeOK /\ AloneInv /\ [Next]_vars => AloneInv'
<1> SUFFICES ASSUME TypeOK, AloneInv, [Next]_vars, ~overlap' PROVE AloneInv'
  BY DEF AloneInv
<1> USE DEF AloneInv, Busy, stripe, webhook, tables, routers, history
<1>0. ~overlap
  BY DEF Next, vars, Checkout, Changes, Deliver, Upsert, SetKeys, Fails, Refresh,
         ConnectionLost, Restart, Tick
<1>1. ASSUME NEW s \in 1 .. MaxSubs, NEW status \in Charged, Emits(s, status),
             UNCHANGED <<webhook, tables, routers, history>>
      PROVE  AloneInv'
  <2>1. pending' # {} /\ pending \subseteq pending'
    BY <1>1 DEF Emits
  <2>2. ASSUME NEW w \in Webhooks, pc'[w] = "keys" PROVE row' = StatusAt(event[w])'
    <3>1. event[w] \in pending /\ event[w] \in 1 .. Len(log)
      BY <1>0, <1>1, <2>2 DEF TypeOK
    <3>2. log'[event[w]] = log[event[w]]
      BY <1>1, <3>1, EmitsType
    <3>3. QED
      BY <1>0, <1>1, <2>2, <3>1, <3>2 DEF StatusAt
  <2>3. QED
    BY <1>0, <1>1, <2>1, <2>2
<1>2. ASSUME NEW w \in Webhooks, NEW n \in 1 .. Len(log), Deliver(w, n) PROVE AloneInv'
  BY <1>0, <1>2 DEF Deliver, Idle, StatusAt, TypeOK
<1>3. ASSUME NEW w \in Webhooks, Upsert(w) PROVE AloneInv'
  BY <1>0, <1>3 DEF Upsert, StatusAt, TypeOK
<1>4. ASSUME NEW w \in Webhooks, NEW acknowledged \in BOOLEAN, SetKeys(w, acknowledged)
      PROVE  AloneInv'
  <2>1. Busy = {w} /\ Busy' = {}
    BY <1>0, <1>4 DEF SetKeys, Ends, TypeOK
  <2>2. active' = (row' \in Entitled)
    BY <1>0, <1>4 DEF SetKeys, KeysFor
  <2>3. QED
    BY <2>1, <2>2
<1>5. ASSUME NEW w \in Webhooks, Fails(w) PROVE AloneInv'
  BY <1>0, <1>5 DEF Fails, Ends, StatusAt, TypeOK
<1>6. CASE UNCHANGED <<log, pending, pc, event, row, active, overlap>>
  BY <1>0, <1>6 DEF StatusAt
<1>7. QED
  <2>1. ASSUME NEW s \in 1 .. MaxSubs, Checkout(s) PROVE AloneInv'
    BY <1>1, <2>1 DEF Checkout, Charged
  <2>2. ASSUME NEW s \in 1 .. MaxSubs, NEW status \in Charged, Changes(s, status) PROVE AloneInv'
    BY <1>1, <2>2 DEF Changes
  <2>3. QED
    BY <1>2, <1>3, <1>4, <1>5, <1>6, <2>1, <2>2
       DEF Next, vars, Refresh, ConnectionLost, Restart, Tick

LEMMA Alone == Spec => []AloneInv
<1>1. Init => AloneInv
  BY DEF Init, AloneInv, Busy
<1>2. QED
  BY <1>1, EntitlementTypes, AloneNext, PTL DEF Spec

(* Once every event is answered the keys are what the row says, unless two *)
(* deliveries overlapped, whatever failed and was delivered again.         *)
THEOREM KeysFollowRow == Spec => []RowDecidesKeys
<1>1. AloneInv => RowDecidesKeys
  BY DEF AloneInv, RowDecidesKeys, NothingUnderWay
<1>2. QED
  BY <1>1, Alone, PTL

(***************************************************************************)
(* The row.  In order, what is pending is an end of the log and a request  *)
(* is about its first event; the last of them is the one that empties it.  *)
(***************************************************************************)
OrderInv ==
  ~overlap /\ ~disorder =>
    /\ \A m \in pending : \A n \in m .. Len(log) : n \in pending
    /\ \A w \in Busy : \A m \in pending : event[w] <= m
    /\ pending = {} => row = StatusAt(Len(log))

LEMMA OrderNext == TypeOK /\ AloneInv /\ OrderInv /\ [Next]_vars => OrderInv'
<1> SUFFICES ASSUME TypeOK, AloneInv, OrderInv, [Next]_vars, ~overlap', ~disorder'
             PROVE  OrderInv'
  BY DEF OrderInv
<1> USE DEF OrderInv, Busy, stripe, webhook, tables, routers, history
<1>0. ~overlap /\ ~disorder
  <2>1. ~overlap
    BY DEF Next, vars, Checkout, Changes, Deliver, Upsert, SetKeys, Fails, Refresh,
           ConnectionLost, Restart, Tick
  <2>2. ~disorder
    BY DEF Next, vars, Checkout, Changes, Deliver, Upsert, SetKeys, Fails, Refresh,
           ConnectionLost, Restart, Tick
  <2>3. QED
    BY <2>1, <2>2
<1>1. ASSUME NEW s \in 1 .. MaxSubs, NEW status \in Charged, Emits(s, status),
             UNCHANGED <<webhook, tables, routers, history>>
      PROVE  OrderInv'
  <2>1. Len(log) \in Nat /\ Len(log') = Len(log) + 1 /\ pending' = pending \cup {Len(log) + 1}
    BY <1>1, EmitsType DEF Emits, TypeOK
  <2>2. \A w \in Webhooks : event[w] \in 0 .. Len(log)
    BY DEF TypeOK
  <2>3. pending \subseteq 1 .. Len(log)
    BY DEF TypeOK
  <2>4. \A m \in pending' : \A n \in m .. Len(log') : n \in pending'
    BY <1>0, <2>1, <2>3
  <2>5. \A w \in Busy : \A m \in pending' : event[w] <= m
    BY <1>0, <2>1, <2>2
  <2>6. QED
    BY <1>1, <2>1, <2>4, <2>5
<1>2. ASSUME NEW w \in Webhooks, NEW n \in 1 .. Len(log), Deliver(w, n) PROVE OrderInv'
  <2>1. ~ \E m \in pending : m < n
    BY <1>2 DEF Deliver
  <2>2. pending \subseteq Nat /\ n \in Nat
    BY LenProperties DEF TypeOK
  <2>3. \A m \in pending : n <= m
    BY <2>1, <2>2
  <2>4. /\ log' = log /\ pending' = pending /\ row' = row /\ event' = [event EXCEPT ![w] = n]
        /\ pc' = [pc EXCEPT ![w] = "upsert"] /\ n \in pending
    BY <1>2 DEF Deliver
  <2>5. QED
    BY <1>0, <2>3, <2>4 DEF TypeOK
<1>3. ASSUME NEW w \in Webhooks, Upsert(w) PROVE OrderInv'
  <2>1. pending # {}
    BY <1>0, <1>3 DEF Upsert, AloneInv
  <2>2. QED
    BY <1>0, <1>3, <2>1 DEF Upsert, TypeOK
<1>4. ASSUME NEW w \in Webhooks, NEW acknowledged \in BOOLEAN, SetKeys(w, acknowledged)
      PROVE  OrderInv'
  <2>1. Busy = {w} /\ Busy' = {}
    BY <1>0, <1>4 DEF SetKeys, Ends, AloneInv, TypeOK
  <2>2. event[w] \in pending /\ row = StatusAt(event[w])
    BY <1>0, <1>4 DEF SetKeys, AloneInv
  <2>3. pending \subseteq 1 .. Len(log) /\ Len(log) \in Nat
    BY DEF TypeOK
  <2>4. \A m \in pending : event[w] <= m
    BY <1>0, <2>1
  <2>5. \A m \in pending' : \A n \in m .. Len(log') : n \in pending'
    BY <1>0, <1>4, <2>2, <2>3, <2>4 DEF SetKeys
  <2>6. ASSUME pending' = {} PROVE row' = StatusAt(Len(log))'
    <3>1. pending = {event[w]}
      BY <1>4, <2>2, <2>6 DEF SetKeys
    <3>2. Len(log) \in event[w] .. Len(log)
      <4>1. event[w] \in 1 .. Len(log)
        BY <2>2, <2>3
      <4>2. QED
        BY <2>3, <4>1
    <3>3. Len(log) = event[w]
      BY <1>0, <2>2, <3>1, <3>2
    <3>4. QED
      BY <1>4, <2>2, <3>3 DEF SetKeys, StatusAt
  <2>7. QED
    BY <2>1, <2>5, <2>6
<1>5. ASSUME NEW w \in Webhooks, Fails(w) PROVE OrderInv'
  BY <1>0, <1>5 DEF Fails, Ends, StatusAt, TypeOK
<1>6. CASE UNCHANGED <<log, pending, pc, event, row, overlap, disorder>>
  BY <1>0, <1>6 DEF StatusAt
<1>7. QED
  <2>1. ASSUME NEW s \in 1 .. MaxSubs, Checkout(s) PROVE OrderInv'
    BY <1>1, <2>1 DEF Checkout, Charged
  <2>2. ASSUME NEW s \in 1 .. MaxSubs, NEW status \in Charged, Changes(s, status) PROVE OrderInv'
    BY <1>1, <2>2 DEF Changes
  <2>3. QED
    BY <1>2, <1>3, <1>4, <1>5, <1>6, <2>1, <2>2
       DEF Next, vars, Refresh, ConnectionLost, Restart, Tick

(* Once every event is answered the row is the newest event's status,      *)
(* unless deliveries overlapped or came out of order.                      *)
THEOREM RowFollowsEvents == Spec => []RowFollowsStripe
<1>1. Init => OrderInv
  BY DEF Init, OrderInv, Busy, StatusAt
<1>2. OrderInv => RowFollowsStripe
  BY DEF OrderInv, RowFollowsStripe, NothingUnderWay
<1>3. QED
  BY <1>1, <1>2, Alone, EntitlementTypes, OrderNext, PTL DEF Spec
=============================================================================
