--------------------------- MODULE TokenExchange ---------------------------
(* POST /token of runtime/router.py: a session token of the portal is          *)
(* exchanged for a token of one MCP server.  The limit on attempts per address *)
(* and per session token, the cached key of the portal, the portal that        *)
(* changes its key, and restarts of the router.                                *)
EXTENDS Naturals, Sequences, FiniteSets

CONSTANTS Addresses, Tokens, Resources,
          Registered,   \* what /token takes as a resource: names and endpoints of manifests
          SigningKeys,  \* the portal's, one after another
          Pinned,       \* PORTAL_RS256_PUBLIC_KEY, or NoKey
          Secret,       \* NEXTAUTH_SECRET, which signed the portal's tokens (HS256) once
          HS256Allowed, \* _legacy_portal_hs256_allowed(), with the secret set
          Signer,       \* per token, what signed it, or NoKey for one of the router's own
          Expires,      \* per token, its exp claim
          IsAdmin,      \* the tokens whose claims name a platform admin
          Window,       \* TOKEN_EXCHANGE_RATE_LIMIT_WINDOW_SECONDS
          MaxAttempts,  \* TOKEN_EXCHANGE_RATE_LIMIT_MAX
          MaxBuckets,   \* TOKEN_EXCHANGE_RATE_LIMIT_MAX_BUCKETS
          JwksTTL,      \* _JWKS_CACHE_TTL
          NoKey, Never,
          Horizon       \* bound: the clock stops here

TokenExchangeAssumption ==
    /\ {Window, MaxAttempts, JwksTTL} \subseteq Nat \ {0}
    /\ MaxBuckets \in Nat /\ Horizon \in Nat
    /\ NoKey \notin SigningKeys /\ Secret \notin SigningKeys \cup {NoKey} /\ Never \notin Nat
    /\ HS256Allowed \in BOOLEAN
    /\ Pinned \in SigningKeys \cup {NoKey}
    /\ Signer \in [Tokens -> SigningKeys \cup {Secret, NoKey}]
    /\ Expires \in [Tokens -> Nat]
    /\ IsAdmin \subseteq Tokens /\ Registered \subseteq Resources

VARIABLES now,
          attempts,      \* _token_exchange_rate_limits: the buckets and their times
          jwks,          \* _jwks_cache
          published,     \* the key that the portal signs with and publishes
          lastPublished, \* per key, when the portal last published it
          passed,        \* per bucket, when a request it counts passed the limit
          issued         \* the token that the last step issued

vars == <<now, attempts, jwks, published, lastPublished, passed, issued>>

Buckets == {<<"ip", a>> : a \in Addresses} \cup {<<"subject", t>> : t \in Tokens}

Scopes == {{}, {"mcp:call"}, {"mcp:call", "mcp:admin"}}

NoneIssued == [signer |-> NoKey]

TypeOK ==
    /\ now \in 0 .. Horizon
    /\ DOMAIN attempts \subseteq Buckets
    /\ \A b \in DOMAIN attempts : attempts[b] \in Seq(0 .. Horizon)
    /\ jwks \in [key : SigningKeys \cup {NoKey}, at : (0 .. Horizon) \cup {Never}]
    /\ published \in SigningKeys
    /\ lastPublished \in [SigningKeys -> (0 .. Horizon) \cup {Never}]
    /\ passed \in [Buckets -> Seq(0 .. Horizon)]
    /\ issued \in {NoneIssued} \cup
           [signer : SigningKeys \cup {Secret}, at : 0 .. Horizon,
            keyLast : (0 .. Horizon) \cup {Never}]

(***************************************************************************)
(* _check_token_exchange_rate_limit.                                        *)
(***************************************************************************)
InWindow(t) == t + Window >= now

\* The clock (time.monotonic) never goes back: the times that are out of the
\* window come first.
TooOld(times) ==
    CHOOSE n \in 0 .. Len(times) : \A i \in DOMAIN times : InWindow(times[i]) <=> i > n

Recent(times) == SubSeq(times, TooOld(times) + 1, Len(times))

Pruned ==
    LET kept == [b \in DOMAIN attempts |-> Recent(attempts[b])]
    IN  [b \in {b \in DOMAIN attempts : kept[b] # <<>>} |-> kept[b]]

Of(table, b) == IF b \in DOMAIN table THEN table[b] ELSE <<>>

With(table, b, times) == [x \in DOMAIN table \cup {b} |-> IF x = b THEN times ELSE table[x]]

\* Mutant: the limit is looked at before the window.
FullAfterAppend(table, b) == Len(Of(table, b)) > MaxAttempts

Full(table, b) == Len(Of(table, b)) >= MaxAttempts

\* The address is charged before the token is looked at, and stays charged.
Charged(table, b) ==
    With(table, b, IF Full(table, b) THEN Of(table, b) ELSE Append(Of(table, b), now))

AfterAddress(a) == Charged(Pruned, <<"ip", a>>)

Passes(a, t) == ~Full(Pruned, <<"ip", a>>) /\ ~Full(AfterAddress(a), <<"subject", t>>)

AfterCheck(a, t) ==
    IF Full(Pruned, <<"ip", a>>) THEN AfterAddress(a)
    ELSE Charged(AfterAddress(a), <<"subject", t>>)

LastOf(times) == IF times = <<>> THEN 0 ELSE times[Len(times)]

\* _evict_token_exchange_rate_limit_buckets: what it may throw out, the stalest
\* first; the order of equals is that of a dictionary.
Evictions(table, own) ==
    LET limit == IF MaxBuckets = 0 THEN 1 ELSE MaxBuckets
        count == Cardinality(DOMAIN table)
        overflow == IF count > limit THEN count - limit ELSE 0
        others == DOMAIN table \ own
        size == IF overflow < Cardinality(others) THEN overflow ELSE Cardinality(others)
    IN  {out \in SUBSET others :
            /\ Cardinality(out) = size
            /\ \A b \in out, c \in others \ out : LastOf(table[b]) <= LastOf(table[c])}

Without(table, out) == [b \in DOMAIN table \ out |-> table[b]]

(***************************************************************************)
(* _validate_user_jwt and the checks after it.                              *)
(***************************************************************************)
\* Mutant: a cached key is used as long as there is one.
HasKeyForGood == jwks.key # NoKey

HasKey == jwks.key # NoKey /\ now - jwks.at < JwksTTL

\* The keys that a token is validated with.
KeyUsed(fetched) ==
    IF Pinned # NoKey THEN Pinned
    ELSE IF HasKey THEN jwks.key
    ELSE IF fetched THEN published ELSE NoKey

ValidSubject(t, fetched) ==
    /\ \/ Signer[t] \in SigningKeys /\ Signer[t] = KeyUsed(fetched)
       \/ Signer[t] = Secret /\ HS256Allowed
    /\ Expires[t] > now

Allowed(t) == IF t \in IsAdmin THEN {"mcp:call", "mcp:admin"} ELSE {"mcp:call"}

\* The token's own kind, the resource and the scope.
Granted(t, fetched, resource, scope) ==
    /\ ValidSubject(t, fetched)
    /\ resource \in Registered
    /\ scope # {} /\ scope \subseteq Allowed(t)

\* _fetch_jwks_sync, when nothing is pinned and the cache is too old; a token
\* of the router's own is refused before, one under the secret needs no key.
Fetches(t, fetched) ==
    Signer[t] \in SigningKeys /\ Pinned = NoKey /\ ~HasKey /\ fetched

(***************************************************************************)
(* Steps.                                                                   *)
(***************************************************************************)
Init ==
    /\ now = 0
    /\ attempts = <<>>
    /\ jwks = [key |-> NoKey, at |-> Never]
    /\ published \in SigningKeys
    /\ lastPublished = [k \in SigningKeys |-> IF k = published THEN 0 ELSE Never]
    /\ passed = [b \in Buckets |-> <<>>]
    /\ issued = NoneIssued

RateLimited(a, t) ==
    /\ ~Passes(a, t)
    /\ attempts' = AfterCheck(a, t)
    /\ issued' = NoneIssued
    /\ UNCHANGED <<now, jwks, published, lastPublished, passed>>

LastPublished(signer) == IF signer \in SigningKeys THEN lastPublished[signer] ELSE Never

\* After the limit.  grant: grant_type and subject_token_type are the ones
\* expected; fetched: the portal answers should it be asked for its keys.
Decided(t, grant, fetched, resource, scope) ==
    [jwks |-> IF grant /\ Fetches(t, fetched) THEN [key |-> published, at |-> now] ELSE jwks,
     issued |-> IF grant /\ Granted(t, fetched, resource, scope)
                THEN [signer |-> Signer[t], at |-> now, keyLast |-> LastPublished(Signer[t])]
                ELSE NoneIssued]

Outcomes(t) ==
    {Decided(t, grant, fetched, resource, scope) :
        grant \in BOOLEAN, fetched \in BOOLEAN, resource \in Resources, scope \in Scopes}

Exchange(a, t) ==
    /\ Passes(a, t)
    /\ LET table == AfterCheck(a, t)
           own == {<<"ip", a>>, <<"subject", t>>}
       IN  \E out \in Evictions(table, own) :
              /\ attempts' = Without(table, out)
              /\ passed' = [b \in Buckets |->
                               IF b \in out THEN <<>>
                               ELSE Recent(passed[b]) \o (IF b \in own THEN <<now>> ELSE <<>>)]
    /\ \E outcome \in Outcomes(t) : jwks' = outcome.jwks /\ issued' = outcome.issued
    /\ UNCHANGED <<now, published, lastPublished>>

\* The portal is started with another key.
PortalRotates(k) ==
    /\ k # published
    /\ published' = k
    /\ lastPublished' = [lastPublished EXCEPT ![k] = now]
    /\ issued' = NoneIssued
    /\ UNCHANGED <<now, attempts, jwks, passed>>

Restart ==
    /\ attempts' = <<>>
    /\ jwks' = [key |-> NoKey, at |-> Never]
    /\ passed' = [b \in Buckets |-> <<>>]
    /\ issued' = NoneIssued
    /\ UNCHANGED <<now, published, lastPublished>>

Tick ==
    /\ now < Horizon
    /\ now' = now + 1
    /\ lastPublished' = [lastPublished EXCEPT ![published] = now + 1]
    /\ issued' = NoneIssued
    /\ UNCHANGED <<attempts, jwks, published, passed>>

Next ==
    \/ \E a \in Addresses, t \in Tokens :
          RateLimited(a, t) \/ Exchange(a, t)
    \/ \E k \in SigningKeys : PortalRotates(k)
    \/ Restart
    \/ Tick

Spec == Init /\ [][Next]_vars

(***************************************************************************)
(* Properties.                                                              *)
(***************************************************************************)
\* No address and no session token gets more than MaxAttempts requests past
\* the limit within a window, as long as its bucket is not thrown out.
WindowHolds ==
    \A b \in Buckets :
        Cardinality({i \in DOMAIN passed[b] : InWindow(passed[b][i])}) <= MaxAttempts

\* A token is issued on the word of the pinned key, or of a key that the
\* portal published less than JwksTTL before; or on that of the old secret,
\* which knows no rotation.
KeysAreRecent ==
    issued # NoneIssued /\ Pinned = NoKey /\ issued.signer # Secret =>
        /\ issued.keyLast # Never
        /\ issued.at - issued.keyLast < JwksTTL

\* Requests that interleave with restarts, evictions, a portal that rotates
\* its key and a cache that outlives the rotation: what is issued stays within
\* the limit and rests on a key that was current lately (token_exchange).
IssuedInOrder == WindowHolds /\ KeysAreRecent
=============================================================================
