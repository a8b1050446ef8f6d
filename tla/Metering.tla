------------------------------ MODULE Metering ------------------------------
(***************************************************************************)
(* Usage billing of one tenant: POST /api/billing/report-usage of the      *)
(* portal (app/api/billing/report-usage/route.ts, lib/billing.ts) over the *)
(* rows that _log_api_usage of runtime/router.py writes, and the meter     *)
(* events Stripe receives.                                                 *)
(*                                                                         *)
(* A run of the reporter is a request of its own; every await in it is a   *)
(* place where other runs, the router and the webhook go on.  The tenants  *)
(* of a run do not touch each other's rows; that an earlier tenant makes   *)
(* the whole run throw is one of the ways in which a run breaks off.       *)
(***************************************************************************)
EXTENDS Naturals, FiniteSets

CONSTANTS
  Runs,      \* requests to report-usage that may be under way together
  Calls,     \* API calls of the tenant
  MaxTime    \* bound on the clock

ASSUME MeteringConstants == MaxTime \in Nat \ {0}

VARIABLES
  clock,      \* the portal's clock
  (* the database *)
  metered,    \* the subscription is active, on the usage plan, with a customer
  watermark,  \* usage_reported_through, 0 for NULL
  stamp,      \* created_at of a call's row, 0 as long as there is none
  (* each run *)
  pc, to, from, counted,
  (* Stripe *)
  sent,       \* identifiers of the meter events it has accepted
  billed,     \* times a call was in one: 0, 1, or 2 for more than once
  (* history *)
  lastTo,     \* the latest time a run has taken
  late,       \* calls whose row came after a run had taken a time past it
  planted,    \* the latest first watermark
  mishap      \* runs overlapped, or one broke off after Stripe took its event

vars == <<clock, metered, watermark, stamp, pc, to, from, counted, sent, billed,
          lastTo, late, planted, mishap>>

Times == 1 .. MaxTime
PCs   == {"idle", "list", "plant", "count", "report", "advance"}

TypeOK ==
  /\ clock \in Times
  /\ metered \in BOOLEAN
  /\ watermark \in 0 .. MaxTime
  /\ stamp \in [Calls -> 0 .. MaxTime]
  /\ pc \in [Runs -> PCs]
  /\ to \in [Runs -> 0 .. MaxTime]
  /\ from \in [Runs -> 0 .. MaxTime]
  /\ counted \in [Runs -> SUBSET Calls]
  /\ sent \subseteq 0 .. MaxTime
  /\ billed \in [Calls -> 0 .. 2]
  /\ lastTo \in 0 .. MaxTime
  /\ late \subseteq Calls
  /\ planted \in 0 .. MaxTime
  /\ mishap \in BOOLEAN

-----------------------------------------------------------------------------
(* The router and the subscription.                                        *)

(* The row of a call becomes visible.  Its time is the database's, taken   *)
(* when the INSERT began; nothing ties it to the portal's clock.  A call   *)
(* whose INSERT fails is never logged.                                     *)
LogCall(c, t) ==
  /\ stamp[c] = 0
  /\ stamp' = [stamp EXCEPT ![c] = t]
  /\ late' = IF t <= lastTo THEN late \cup {c} ELSE late
  /\ UNCHANGED <<clock, metered, watermark, pc, to, from, counted, sent, billed,
                 lastTo, planted, mishap>>

(* The webhook upserts status and plan; the watermark column stays. *)
SubscriptionChanges ==
  /\ metered' = ~metered
  /\ UNCHANGED <<clock, watermark, stamp, pc, to, from, counted, sent, billed,
                 lastTo, late, planted, mishap>>

Tick ==
  /\ clock < MaxTime
  /\ clock' = clock + 1
  /\ UNCHANGED <<metered, watermark, stamp, pc, to, from, counted, sent, billed,
                 lastTo, late, planted, mishap>>

-----------------------------------------------------------------------------
(* A run of the reporter.                                                  *)

(* The response is sent and the variables of the handler are gone. *)
Ends(r) ==
  /\ pc' = [pc EXCEPT ![r] = "idle"]
  /\ to' = [to EXCEPT ![r] = 0]
  /\ from' = [from EXCEPT ![r] = 0]
  /\ counted' = [counted EXCEPT ![r] = {}]

Begin(r) ==
  /\ pc[r] = "idle"
  /\ pc' = [pc EXCEPT ![r] = "list"]
  /\ to' = [to EXCEPT ![r] = clock]
  /\ lastTo' = clock
  /\ mishap' = (mishap \/ \E s \in Runs : pc[s] # "idle")
  /\ UNCHANGED <<clock, metered, watermark, stamp, from, counted, sent, billed,
                 late, planted>>

(* meteredSubscriptions: a tenant that is not on the plan is not visited. *)
List(r) ==
  /\ pc[r] = "list"
  /\ IF metered
     THEN /\ pc' = [pc EXCEPT ![r] = IF watermark = 0 THEN "plant" ELSE "count"]
          /\ from' = [from EXCEPT ![r] = watermark]
          /\ UNCHANGED <<to, counted>>
     ELSE Ends(r)
  /\ UNCHANGED <<clock, metered, watermark, stamp, sent, billed, lastTo, late,
                 planted, mishap>>

(* Mutant: the watermark is set to the time of the UPDATE. *)
SetWatermarkNow(r) == watermark' = clock

(* Mutant: the next window begins one after this one. *)
SetWatermarkPast(r) == watermark' = to[r] + 1

(* advanceUsageWatermark *)
SetWatermark(r) == watermark' = to[r]

Plant(r) ==
  /\ pc[r] = "plant"
  /\ SetWatermark(r)
  /\ planted' = IF to[r] > planted THEN to[r] ELSE planted
  /\ Ends(r)
  /\ UNCHANGED <<clock, metered, stamp, sent, billed, lastTo, late, mishap>>

(* Mutant: created_at >= from. *)
WindowClosed(r) == {c \in Calls : stamp[c] # 0 /\ from[r] <= stamp[c] /\ stamp[c] <= to[r]}

(* Mutant: created_at < to. *)
WindowOpen(r) == {c \in Calls : from[r] < stamp[c] /\ stamp[c] < to[r]}

(* usageCountBetween *)
Window(r) == {c \in Calls : from[r] < stamp[c] /\ stamp[c] <= to[r]}

Count(r) ==
  /\ pc[r] = "count"
  /\ counted' = [counted EXCEPT ![r] = Window(r)]
  /\ pc' = [pc EXCEPT ![r] = IF Window(r) = {} THEN "advance" ELSE "report"]
  /\ UNCHANGED <<clock, metered, watermark, stamp, to, from, sent, billed, lastTo,
                 late, planted, mishap>>

(* reportMeterEvent, as Stripe takes it: an identifier, tenant and time, it *)
(* has seen already adds nothing.                                           *)
Accepts(r) ==
  /\ sent' = sent \cup {to[r]}
  /\ billed' = IF to[r] \in sent THEN billed
               ELSE [c \in Calls |-> IF c \notin counted[r] THEN billed[c]
                                     ELSE IF billed[c] = 0 THEN 1 ELSE 2]

Report(r) ==
  /\ pc[r] = "report"
  /\ Accepts(r)
  /\ pc' = [pc EXCEPT ![r] = "advance"]
  /\ UNCHANGED <<clock, metered, watermark, stamp, to, from, counted, lastTo, late,
                 planted, mishap>>

Advance(r) ==
  /\ pc[r] = "advance"
  /\ SetWatermark(r)
  /\ Ends(r)
  /\ UNCHANGED <<clock, metered, stamp, sent, billed, lastTo, late, planted, mishap>>

(* Stripe takes the event and the portal never hears of it. *)
AnswerLost(r) ==
  /\ pc[r] = "report"
  /\ Accepts(r)
  /\ mishap' = TRUE
  /\ Ends(r)
  /\ UNCHANGED <<clock, metered, watermark, stamp, lastTo, late, planted>>

(* A query or the request to Stripe raises, or the portal stops: the       *)
(* watermark stays where it is.                                            *)
BreaksOff(r) ==
  /\ pc[r] # "idle"
  /\ mishap' = (mishap \/ (pc[r] = "advance" /\ counted[r] # {}))
  /\ Ends(r)
  /\ UNCHANGED <<clock, metered, watermark, stamp, sent, billed, lastTo, late, planted>>

-----------------------------------------------------------------------------

Init ==
  /\ clock = 1
  /\ metered = FALSE
  /\ watermark = 0
  /\ stamp = [c \in Calls |-> 0]
  /\ pc = [r \in Runs |-> "idle"]
  /\ to = [r \in Runs |-> 0]
  /\ from = [r \in Runs |-> 0]
  /\ counted = [r \in Runs |-> {}]
  /\ sent = {}
  /\ billed = [c \in Calls |-> 0]
  /\ lastTo = 0
  /\ late = {}
  /\ planted = 0
  /\ mishap = FALSE

RunStep(r) ==
  \/ Begin(r) \/ List(r) \/ Plant(r) \/ Count(r) \/ Report(r) \/ Advance(r)
  \/ AnswerLost(r) \/ BreaksOff(r)

Next ==
  \/ \E c \in Calls, t \in Times : LogCall(c, t)
  \/ SubscriptionChanges
  \/ Tick
  \/ \E r \in Runs : RunStep(r)

Spec == Init /\ [][Next]_vars

(* The scheduler calls the endpoint again and again, a run ends somehow,   *)
(* time passes, and the queries and Stripe do not fail every time.         *)
Fairness ==
  /\ WF_vars(Tick)
  /\ \A r \in Runs :
       /\ WF_vars(RunStep(r))
       /\ SF_vars(List(r)) /\ SF_vars(Count(r)) /\ SF_vars(Report(r))

FairSpec == Spec /\ Fairness

-----------------------------------------------------------------------------
(* Properties.                                                             *)

Logged(c) == stamp[c] # 0 /\ c \notin late

(* Every call up to time t that is to be billed was billed. *)
Settled(t) ==
  \A c \in Calls : Logged(c) /\ planted < stamp[c] /\ stamp[c] <= t => billed[c] > 0

(* The watermark never passes a call that was not billed, whatever run     *)
(* failed where, and however runs overlap: a call made since metering      *)
(* began, and logged before a run took a time past it, cannot be skipped.  *)
NothingSkipped == Settled(watermark)

(* A call is billed at most once, as long as runs do not overlap and none  *)
(* breaks off between Stripe's acceptance and the UPDATE of the watermark. *)
OnceUnlessMishap == ~mishap => \A c \in Calls : billed[c] <= 1

(* The same without the proviso. *)
BilledAtMostOnce == \A c \in Calls : billed[c] <= 1

(* A call logged while the tenant is on the usage plan is billed in the    *)
(* end, unless the plan ends first or metering is begun anew.              *)
CallsGetBilled ==
  \A c \in Calls :
    metered /\ Logged(c) /\ 0 < planted /\ planted < stamp[c]
      ~> billed[c] > 0 \/ ~metered \/ stamp[c] <= planted

=============================================================================
