------------------------------ MODULE Platform ------------------------------
(* Five parts of the platform that share no state: the credential store,      *)
(* licensing, the token exchange, the agent's turn and the registry of MCP    *)
(* servers.  Each moves on its own, so together they are the conjunction of   *)
(* their specifications.                                                     *)
EXTENDS Credentials

CONSTANTS Features, Signers, LicenseIds, Environments, Terms, Requests, TTL, PortalTTL,
          Perpetual, Unnamed, NoLicense, Nobody,
          LicenseHorizon,  \* bound on the clock of the licensing part

          Addresses, Tokens, Resources, Registered, SigningKeys, Pinned, Secret, HS256Allowed,
          Signer, Expires, IsAdmin, Window, MaxAttempts, MaxBuckets, JwksTTL, Never,
          TokenHorizon,    \* bound on the clock of the token exchange

          Reads, Writes, MaxSteps, MaxCalls,

          Mcps, Types, Prims, ToolDefs, Roles, Groups, Fields, Seed, FileOrder, Offers,
          Registrants,     \* tenants that register and import
          MaxRegistrations

VARIABLES now, env, file, aws, cache, heard, asking, lastTrue,
          clock, attempts, jwks, published, lastPublished, passed, issued,
          doing, round, calls, failures, written, corrected, answer, applied, lost,
          manifests, typed, owner, typedOwner, graph, declared, agents, imported, registrations, exported

L == INSTANCE Licensing WITH Horizon <- LicenseHorizon

X == INSTANCE TokenExchange WITH Horizon <- TokenHorizon, now <- clock

G == INSTANCE Agent

R == INSTANCE Registry WITH Tenants <- Registrants, file <- exported

ASSUME PlatformAssumption ==
    /\ L!LicensingAssumption
    /\ X!TokenExchangeAssumption
    /\ G!AgentAssumption
    /\ R!RegistryAssumption

PlatformSpec == Spec /\ L!Spec /\ X!Spec /\ G!Spec /\ R!Spec

\* See Licensing: a cached answer is never older than its time to live.
AnswersAreRecent == L!AnswersAreRecent

\* See TokenExchange: what is issued keeps to the limit and to a recent key.
IssuedInOrder == X!IssuedInOrder

\* See Agent: no write is repeated in a turn but for an answer that was lost.
TurnsAreSound == G!TurnsAreSound

\* See Registry: no registration weakens what the YAML files declare.
GuardsStand == R!GuardsStand

\* See Registry: the capabilities that are shown are those of the manifests that stand.
CapabilitiesStand == R!CapabilitiesStand
=============================================================================
