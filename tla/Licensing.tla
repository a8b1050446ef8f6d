----------------------------- MODULE Licensing -----------------------------
(* What the router answers when it is asked for the entitlement              *)
(* (runtime/licensing.py, GET /license, _require_feature), and what the      *)
(* portal makes of that answer (portal/src/lib/entitlement.ts): two caches,   *)
(* one behind the other, in front of sources that change on their own.        *)
EXTENDS Naturals, FiniteSets

CONSTANTS Features, Signers, LicenseIds,
          Environments,  \* what a router may be started with: a set of Environment
          Terms,         \* until when a subscription of the product may run
          Requests,      \* the portal's requests that may be under way at once
          TTL,           \* SEALFLEET_LICENSE_CACHE_TTL
          PortalTTL,     \* CACHE_TTL_MS
          Perpetual, Unnamed, NoLicense, Nobody,
          Horizon        \* bound: the clock stops here

License == [signer : Signers, expires : Nat \cup {Perpetual}, id : LicenseIds \cup {Unnamed},
            enterprise : BOOLEAN, features : SUBSET Features]

Environment == [license : {NoLicense} \cup License, ring : SUBSET Signers,
                revoked : SUBSET LicenseIds, marketplace : BOOLEAN]

LicensingAssumption ==
    /\ Environments \subseteq Environment
    /\ Terms \subseteq Nat \cup {Perpetual}
    /\ TTL \in Nat \ {0} /\ PortalTTL \in Nat \ {0} /\ Horizon \in Nat
    /\ {Perpetual, Nobody} \cap Nat = {} /\ Unnamed \notin LicenseIds

VARIABLES now,
          env,        \* the environment of the router's process
          file,       \* the revocation file: the ids in it, or Nobody when it cannot be read
          aws,        \* AWS: until when each subscription of the product runs, or Nobody on an error
          cache,      \* _CACHE of the router
          heard,      \* the portal's cache
          asking,     \* the portal's requests under way
          lastTrue    \* per answer, when the sources last gave it

vars == <<now, env, file, aws, cache, heard, asking, lastTrue>>

Empty == [features |-> {}, at |-> Nobody]

\* An entitlement, by the features it unlocks; the free tier has none.
Free == {}

TypeOK ==
    /\ now \in 0 .. Horizon
    /\ env \in Environments
    /\ file = Nobody \/ file \in SUBSET LicenseIds
    /\ aws = Nobody \/ aws \in SUBSET Terms
    /\ cache \in [features : SUBSET Features, at : (0 .. Horizon) \cup {Nobody}]
    /\ heard \in [features : SUBSET Features, at : (0 .. Horizon) \cup {Nobody}]
    /\ asking \in [Requests -> [at : (0 .. Horizon) \cup {Nobody}, answered : BOOLEAN,
                              answer : SUBSET Features]]
    /\ lastTrue \in [SUBSET Features -> (0 .. Horizon) \cup {Nobody}]

(***************************************************************************)
(* licensing.py.                                                            *)
(***************************************************************************)
\* _load_revoked_ids: a file that cannot be read revokes nothing.
Revoked == env.revoked \cup (IF file = Nobody THEN {} ELSE file)

\* verify_license_key falls back to the free tier unless all of this holds.
Valid(license) ==
    /\ license # NoLicense
    /\ license.signer \in env.ring
    /\ license.expires = Perpetual \/ now <= license.expires
    /\ license.id \notin Revoked

\* verify_license_key: no list of features means all of them.
Licensed ==
    IF Valid(env.license) /\ env.license.enterprise
    THEN IF env.license.features = {} THEN Features ELSE env.license.features
    ELSE Free

\* resolve_aws_marketplace_entitlement: nothing when it is switched off, on an
\* error, and when every subscription has run out.
FromMarketplace ==
    IF /\ env.marketplace /\ aws # Nobody
       /\ \E until \in aws : until = Perpetual \/ until > now
    THEN Features
    ELSE Free

\* The sources of resolve_entitlement: an enterprise key comes first.
Sources ==
    IF Valid(env.license) /\ env.license.enterprise THEN Licensed ELSE FromMarketplace

Hit(kept, ttl) == kept.at # Nobody /\ now - kept.at < ttl

\* resolve_entitlement.
Answer == IF Hit(cache, TTL) THEN cache.features ELSE Sources

\* Mutant: every answer makes the cached one last longer.
KeptAlive == [features |-> Answer, at |-> now]

Kept == IF Hit(cache, TTL) THEN cache ELSE [features |-> Sources, at |-> now]

\* The sources, as they are after the step, are noted down with the time.
Noted == lastTrue' = [lastTrue EXCEPT ![Sources'] = now']

(***************************************************************************)
(* Steps.                                                                   *)
(***************************************************************************)
\* Idle: nothing was asked for.
Idle == [at |-> Nobody, answered |-> FALSE, answer |-> Free]

Init ==
    /\ now = 0
    /\ env \in Environments
    /\ file = {}
    /\ aws = {}
    /\ cache = Empty
    /\ heard = Empty
    /\ asking = [q \in Requests |-> Idle]
    /\ lastTrue = [f \in SUBSET Features |-> IF f = Sources THEN 0 ELSE Nobody]

\* _require_feature and GET /license ask alike.
Ask ==
    /\ cache' = Kept
    /\ UNCHANGED <<now, env, file, aws, heard, asking, lastTrue>>

\* getEntitlement: one that the portal's cache answers changes nothing.
PortalAsks(q) ==
    /\ asking[q] = Idle
    /\ ~Hit(heard, PortalTTL)
    /\ asking' = [asking EXCEPT ![q] = [Idle EXCEPT !.at = now]]
    /\ UNCHANGED <<now, env, file, aws, cache, heard, lastTrue>>

RouterAnswers(q) ==
    /\ asking[q] # Idle /\ ~asking[q].answered
    /\ cache' = Kept
    /\ asking' = [asking EXCEPT ![q].answered = TRUE, ![q].answer = Kept.features]
    /\ UNCHANGED <<now, env, file, aws, heard, lastTrue>>

\* The portal counts from when it asked.
PortalHears(q) ==
    /\ asking[q].answered
    /\ heard' = [features |-> asking[q].answer, at |-> asking[q].at]
    /\ asking' = [asking EXCEPT ![q] = Idle]
    /\ UNCHANGED <<now, env, file, aws, cache, lastTrue>>

\* No answer, or one that is not 200: the free tier, and it is cached.
PortalHearsNothing(q) ==
    /\ asking[q] # Idle
    /\ heard' = [features |-> Free, at |-> asking[q].at]
    /\ asking' = [asking EXCEPT ![q] = Idle]
    /\ UNCHANGED <<now, env, file, aws, cache, lastTrue>>

\* The router's process starts again, perhaps with another environment.
RestartRouter(e) ==
    /\ env' = e
    /\ cache' = Empty
    /\ UNCHANGED <<now, file, aws, heard, asking>>
    /\ Noted

RestartPortal ==
    /\ heard' = Empty
    /\ asking' = [q \in Requests |-> Idle]
    /\ UNCHANGED <<now, env, file, aws, cache, lastTrue>>

\* Somebody rewrites the revocation file, or takes it away.
FileChanges(ids) ==
    /\ file' = ids
    /\ UNCHANGED <<now, env, aws, cache, heard, asking>>
    /\ Noted

\* A subscription begins or ends, or AWS cannot be reached.
MarketplaceChanges(subscriptions) ==
    /\ aws' = subscriptions
    /\ UNCHANGED <<now, env, file, cache, heard, asking>>
    /\ Noted

Tick ==
    /\ now < Horizon
    /\ now' = now + 1
    /\ UNCHANGED <<env, file, aws, cache, heard, asking>>
    /\ Noted

Next ==
    \/ Ask
    \/ \E q \in Requests :
          PortalAsks(q) \/ RouterAnswers(q) \/ PortalHears(q) \/ PortalHearsNothing(q)
    \/ \E e \in Environments : RestartRouter(e)
    \/ RestartPortal
    \/ \E ids \in {{}, Nobody} \cup {{i} : i \in LicenseIds} : FileChanges(ids)
    \/ \E subscriptions \in {{}, Nobody} \cup {{until} : until \in Terms} : MarketplaceChanges(subscriptions)
    \/ Tick

Spec == Init /\ [][Next]_vars

(***************************************************************************)
(* Properties.                                                              *)
(***************************************************************************)
TrueWithin(features, span) ==
    lastTrue[features] # Nobody /\ now - lastTrue[features] < span

\* Whatever the sources do, an answer of the router was what the sources said
\* less than TTL ago, and features that the portal unlocks were unlocked less
\* than TTL + PortalTTL ago, with slow answers that overlap newer ones as well
\* (resolve_entitlement, getEntitlement).
AnswersAreRecent ==
    /\ TrueWithin(Answer, TTL)
    /\ Hit(heard, PortalTTL) /\ heard.features # Free =>
           TrueWithin(heard.features, TTL + PortalTTL)
=============================================================================
