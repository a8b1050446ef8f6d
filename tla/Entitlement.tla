----------------------------- MODULE Entitlement -----------------------------
(***************************************************************************)
(* What a Stripe subscription does to a tenant's access.  The webhook of   *)
(* the portal (app/api/billing/webhook/route.ts, lib/billing.ts) writes    *)
(* the tenant's row in subscriptions and then is_active of its API keys;   *)
(* every router admits the keys of a list it loads at most once per        *)
(* interval (ApiKeyManager of runtime/router.py).                          *)
(*                                                                         *)
(* Stripe delivers an event until it is answered with 200, in any order,   *)
(* and may deliver it again while an earlier delivery is under way.        *)
(***************************************************************************)
EXTENDS Naturals, Sequences, FiniteSets

CONSTANTS
  MaxSubs,     \* bound on the Stripe subscriptions of the tenant
  Webhooks,    \* requests to the webhook that may be under way together
  Routers,
  MaxEvents,   \* bound on the events Stripe creates
  Interval     \* API_KEY_REFRESH_INTERVAL, in ticks

ASSUME EntitlementConstants == MaxSubs \in Nat /\ MaxEvents \in Nat /\ Interval \in Nat

VARIABLES
  (* Stripe *)
  log,         \* the events of the tenant, in the order they were created
  pending,     \* the numbers of those Stripe has not been answered 200 for
  (* the webhook *)
  pc, event,   \* where each request is, and the number of its event or 0
  (* the database *)
  row,         \* status of the tenant's row in subscriptions
  active,      \* is_active of the tenant's keys
  (* the routers *)
  broken,      \* routers whose _db_conn is a connection that is gone
  admits,      \* routers with the tenant's keys in ApiKeyManager.keys
  age,         \* time since last_refresh, up to Interval + 1
  (* history *)
  off,         \* time since the keys became inactive, up to Interval + 1
  overlap,     \* a delivery began while another was under way
  disorder     \* a delivery began while an older event was pending

stripe  == <<log, pending>>
webhook == <<pc, event>>
tables  == <<row, active>>
routers == <<broken, admits, age>>
history == <<off, overlap, disorder>>
vars    == <<stripe, webhook, tables, routers, history>>

Charged  == {"active", "past_due", "canceled"}
Status   == Charged \cup {"inactive"}
Entitled == {"active"}    \* isEntitled; trialing is no different
Events   == [sub : 1 .. MaxSubs, status : Charged]
Old      == Interval + 1

TypeOK ==
  /\ log \in Seq(Events) /\ Len(log) <= MaxEvents
  /\ pending \subseteq 1 .. Len(log)
  /\ pc \in [Webhooks -> {"idle", "upsert", "keys"}]
  /\ event \in [Webhooks -> 0 .. Len(log)]
  /\ \A w \in Webhooks : event[w] = 0 <=> pc[w] = "idle"
  /\ row \in Status
  /\ active \in BOOLEAN
  /\ broken \subseteq Routers
  /\ admits \subseteq Routers
  /\ age \in [Routers -> 0 .. Old]
  /\ off \in 0 .. Old
  /\ overlap \in BOOLEAN /\ disorder \in BOOLEAN

Idle == \A w \in Webhooks : pc[w] = "idle"

(* The status of the subscription the n-th event is about; before any event *)
(* the row is the one sign-up has written.                                  *)
StatusAt(n) == IF n = 0 THEN "inactive" ELSE log[n].status

-----------------------------------------------------------------------------
(* Stripe.                                                                 *)

(* Subscriptions are numbered as they are bought. *)
Bought == {log[n].sub : n \in 1 .. Len(log)}

Live(s) == \E n \in 1 .. Len(log) :
             /\ log[n].sub = s /\ log[n].status # "canceled"
             /\ \A m \in n + 1 .. Len(log) : log[m].sub # s

Emits(s, status) ==
  /\ Len(log) < MaxEvents
  /\ log' = Append(log, [sub |-> s, status |-> status])
  /\ pending' = pending \cup {Len(log) + 1}

(* A subscription is bought, checkout.session.completed.  The checkout     *)
(* route does not ask whether the tenant has another subscription.         *)
Checkout(s) ==
  /\ s = Cardinality(Bought) + 1
  /\ Emits(s, "active")
  /\ UNCHANGED <<webhook, tables, routers, history>>

(* customer.subscription.created, .updated (which a renewal creates too)   *)
(* or .deleted.                                                            *)
Changes(s, status) ==
  /\ Live(s)
  /\ Emits(s, status)
  /\ UNCHANGED <<webhook, tables, routers, history>>

-----------------------------------------------------------------------------
(* The webhook.                                                            *)

Deliver(w, n) ==
  /\ pc[w] = "idle"
  /\ n \in pending
  /\ pc' = [pc EXCEPT ![w] = "upsert"]
  /\ event' = [event EXCEPT ![w] = n]
  /\ overlap' = (overlap \/ ~Idle)
  /\ disorder' = (disorder \/ \E m \in pending : m < n)
  /\ UNCHANGED <<stripe, tables, routers, off>>

(* Mutant: a row that is canceled is kept. *)
UpsertOnce(w) ==
  /\ pc[w] = "upsert"
  /\ pc' = [pc EXCEPT ![w] = "keys"]
  /\ row' = IF row = "canceled" THEN row ELSE StatusAt(event[w])
  /\ UNCHANGED <<stripe, event, active, routers, history>>

(* upsertSubscription: there is one row per tenant, whichever subscription *)
(* the event is about.                                                     *)
Upsert(w) ==
  /\ pc[w] = "upsert"
  /\ pc' = [pc EXCEPT ![w] = "keys"]
  /\ row' = StatusAt(event[w])
  /\ UNCHANGED <<stripe, event, active, routers, history>>

(* Mutant: the variables of the handler outlive it. *)
EndsKeepsEvent(w) == pc' = [pc EXCEPT ![w] = "idle"] /\ event' = event

(* The handler is over. *)
Ends(w) ==
  /\ pc' = [pc EXCEPT ![w] = "idle"]
  /\ event' = [event EXCEPT ![w] = 0]

(* Mutant: the statuses that bar a tenant are named, and one is forgotten. *)
KeysByName(status) == status # "canceled"

(* setTenantKeysActive(tenantId, isEntitled(status)): all keys of the tenant. *)
KeysFor(status) == status \in Entitled

(* The keys are written and the answer is 200; unless it is lost, Stripe   *)
(* has done with the event.                                                *)
SetKeys(w, acknowledged) ==
  /\ pc[w] = "keys"
  /\ active' = KeysFor(StatusAt(event[w]))
  /\ off' = IF active \/ active' THEN 0 ELSE off
  /\ pending' = IF acknowledged THEN pending \ {event[w]} ELSE pending
  /\ Ends(w)
  /\ UNCHANGED <<log, row, routers, overlap, disorder>>

(* Mutant: the answer is 200 whatever happens. *)
FailsSilently(w) ==
  /\ pc[w] # "idle"
  /\ Ends(w)
  /\ pending' = pending \ {event[w]}
  /\ UNCHANGED <<log, tables, routers, history>>

(* A statement raises and the answer is 500, or the portal is restarted:  *)
(* Stripe delivers the event again.                                        *)
Fails(w) ==
  /\ pc[w] # "idle"
  /\ Ends(w)
  /\ UNCHANGED <<stripe, tables, routers, history>>

-----------------------------------------------------------------------------
(* The routers.                                                            *)

(* Mutant: last_refresh is set whether or not the keys could be loaded. *)
RefreshMarks(r) ==
  /\ age[r] > Interval
  /\ age' = [age EXCEPT ![r] = 0]
  /\ admits' = IF r \notin broken /\ active THEN admits \cup {r}
               ELSE IF r \notin broken THEN admits \ {r} ELSE admits
  /\ UNCHANGED <<stripe, webhook, tables, broken, history>>

(* refresh_if_needed of a request, or load_keys at startup, when the       *)
(* router has a connection or can make its first one.  Otherwise load_keys *)
(* changes nothing and the request is answered from the list there is.     *)
Refresh(r) ==
  /\ age[r] > Interval
  /\ r \notin broken
  /\ admits' = IF active THEN admits \cup {r} ELSE admits \ {r}
  /\ age' = [age EXCEPT ![r] = 0]
  /\ UNCHANGED <<stripe, webhook, tables, broken, history>>

(* The session ends; _get_db goes on handing out its connection. *)
ConnectionLost(r) ==
  /\ broken' = broken \cup {r}
  /\ UNCHANGED <<stripe, webhook, tables, admits, age, history>>

(* A new process: no connection, no keys, last_refresh 0. *)
Restart(r) ==
  /\ broken' = broken \ {r}
  /\ admits' = admits \ {r}
  /\ age' = [age EXCEPT ![r] = Old]
  /\ UNCHANGED <<stripe, webhook, tables, history>>

Older(t) == IF t < Old THEN t + 1 ELSE t

(* Time passes. *)
Tick ==
  /\ age' = [r \in Routers |-> Older(age[r])]
  /\ off' = IF active THEN 0 ELSE Older(off)
  /\ UNCHANGED <<stripe, webhook, tables, broken, admits, overlap, disorder>>

-----------------------------------------------------------------------------
(* Sign-up has written an inactive row and one active key each.            *)
Init ==
  /\ log = <<>> /\ pending = {}
  /\ pc = [w \in Webhooks |-> "idle"] /\ event = [w \in Webhooks |-> 0]
  /\ row = "inactive" /\ active = TRUE
  /\ broken = {}
  /\ admits = {}
  /\ age = [r \in Routers |-> Old]
  /\ off = 0 /\ overlap = FALSE /\ disorder = FALSE

Next ==
  \/ \E s \in 1 .. MaxSubs : Checkout(s)
  \/ \E s \in 1 .. MaxSubs, status \in Charged : Changes(s, status)
  \/ \E w \in Webhooks : \E n \in 1 .. Len(log) : Deliver(w, n)
  \/ \E w \in Webhooks : Upsert(w)
  \/ \E w \in Webhooks, acknowledged \in BOOLEAN : SetKeys(w, acknowledged)
  \/ \E w \in Webhooks : Fails(w)
  \/ \E r \in Routers : Refresh(r)
  \/ \E r \in Routers : ConnectionLost(r)
  \/ \E r \in Routers : Restart(r)
  \/ Tick

Spec == Init /\ [][Next]_vars

(* Stripe delivers what is pending again and again, a request to the       *)
(* webhook ends, and a statement that is tried over and over succeeds some *)
(* day; time passes and requests reach every router.  Nobody has to buy    *)
(* or change anything, and connections need not break.                     *)
Fairness ==
  /\ WF_vars(\E w \in Webhooks : \E n \in 1 .. Len(log) : Deliver(w, n))
  /\ \A w \in Webhooks : SF_vars(Upsert(w)) /\ SF_vars(SetKeys(w, TRUE))
  /\ \A r \in Routers : WF_vars(Refresh(r))
  /\ WF_vars(Tick)

FairSpec == Spec /\ Fairness

-----------------------------------------------------------------------------
(* Properties.                                                             *)

NothingUnderWay == pending = {} /\ Idle

(* route.ts: the row and the keys are written by two statements, and an    *)
(* event whose second statement failed is delivered again; once every      *)
(* event is answered the keys are what the row says, unless two deliveries *)
(* overlapped.                                                             *)
RowDecidesKeys ==
  NothingUnderWay /\ ~overlap /\ log # <<>> => active = (row \in Entitled)

(* route.ts takes an event as the truth without looking at its time: the   *)
(* row is the newest event's status once all are answered, provided no     *)
(* event was delivered before an older one was answered.                   *)
RowFollowsStripe ==
  NothingUnderWay /\ ~overlap /\ ~disorder => row = StatusAt(Len(log))

(* refresh_if_needed, load_keys: a router's list is no older than it       *)
(* believes, so keys that are inactive for longer than the interval are    *)
(* admitted by a router only while its loading fails.                      *)
StaleIsKnown ==
  \A r \in admits : off <= age[r]

Unpaid == log # <<>> /\ \A n \in 1 .. Len(log) :
            (\A m \in n + 1 .. Len(log) : log[m].sub # log[n].sub)
              => log[n].status \notin Entitled

(* The whole path, from Stripe to the router: when no subscription is paid *)
(* any more the tenant is refused in the end, if deliveries came one after *)
(* the other and in order and the router's connection lives.               *)
UnpaidIsRefused ==
  \A r \in Routers :
    <>[](Unpaid /\ ~overlap /\ ~disorder /\ r \notin broken) => <>[](r \notin admits)

(* docs/BILLING.md:25-26, "On cancellation the keys go inactive and the    *)
(* router refuses them", whatever the order of the deliveries.             *)
CancellationIsRefused ==
  \A r \in Routers : <>[](Unpaid /\ r \notin broken) => <>[](r \notin admits)
=============================================================================
