---------------------------- MODULE Credentials ----------------------------
(* The credential store (runtime/credentials.py and the /credentials handlers *)
(* of runtime/router.py) while the platform's key ring is rotated: replicas   *)
(* that are restarted one by one with the next environment, rows that any of   *)
(* them writes, and the resolution of {{credential:name}} tokens.             *)
EXTENDS Naturals, Sequences

CONSTANTS Tenants, Names, Replicas, Values,
          Keys,      \* the platform's key material
          UserKeys,  \* the tenants' own
          Stages,    \* the environments of a rotation: a sequence of Environment
          ByokKey,   \* BYOK_KEY of the deployment, or NoKey
          Legacy,    \* the key of tokens that carry no key id
          InCluster, \* KUBERNETES_SERVICE_HOST is set
          Ids, NoKey, Bare, Nothing

Environment == [ring : [Ids -> Keys \cup {NoKey}], current : Ids]

Held(s) == {Stages[s].ring[i] : i \in Ids} \ {NoKey}

EncryptsWith(s) == Stages[s].ring[Stages[s].current]

\* A rotation in small steps: what one environment encrypts with, its
\* neighbours can decrypt.
ASSUME CredentialsAssumption ==
    /\ Keys \cap UserKeys = {}
    /\ NoKey \notin Keys \cup UserKeys /\ Bare \notin Ids /\ Nothing \notin Values
    /\ ByokKey \in UserKeys \cup {NoKey}
    /\ Stages \in Seq(Environment) /\ Len(Stages) > 0
    /\ Legacy \in Held(1)
    /\ \A s \in DOMAIN Stages : EncryptsWith(s) \in Keys
    /\ \A s \in 1 .. Len(Stages) - 1 : /\ EncryptsWith(s) \in Held(s + 1)
                                       /\ EncryptsWith(s + 1) \in Held(s)
    /\ InCluster \in BOOLEAN

VARIABLES stage,   \* per replica, the environment it was started with
          creds,   \* the credentials table, by tenant and name
          secrets, \* per tenant, its Secret in the cluster (no two share one)
          latest   \* what was stored last under a name by its tenant

vars == <<stage, creds, secrets, latest>>

Row == [mode : {"platform", "byok", "k8s"}, active : BOOLEAN,
        tag : Ids \cup {Bare}, key : Keys \cup UserKeys \cup {NoKey}, value : Values \cup {Nothing}]

NoRow == [mode |-> "none"]

TypeOK ==
    /\ stage \in [Replicas -> DOMAIN Stages]
    /\ creds \in [Tenants \X Names -> Row \cup {NoRow}]
    /\ secrets \in [Tenants \X Names -> Values \cup {Nothing}]
    /\ latest \in [Tenants \X Names -> Values \cup {Nothing}]

\* encrypt_platform by replica r: the value in an envelope with the key id.
Encrypted(row, r, v) ==
    [row EXCEPT !.tag = Stages[stage[r]].current, !.key = EncryptsWith(stage[r]), !.value = v]

\* Mutant: only the key that the envelope names is tried.
DecryptsTagged(r, row) ==
    /\ row.tag \in Ids
    /\ Stages[stage[r]].ring[row.tag] = row.key
    /\ row.key # NoKey

\* decrypt_platform by replica r: the key that the envelope names, then every
\* key of the ring.
Decrypts(r, row) == row.key # NoKey /\ row.key \in Held(stage[r])

\* Rows written before there were envelopes, or none.
Init ==
    /\ stage = [r \in Replicas |-> 1]
    /\ creds \in [Tenants \X Names ->
                    {NoRow} \cup {[mode |-> "platform", active |-> TRUE, tag |-> Bare,
                                   key |-> Legacy, value |-> v] : v \in Values}]
    /\ secrets = [c \in Tenants \X Names |-> Nothing]
    /\ latest = [c \in Tenants \X Names |-> IF creds[c] = NoRow THEN Nothing ELSE creds[c].value]

(***************************************************************************)
(* The handlers.                                                            *)
(***************************************************************************)
Stores(c, row, v) ==
    /\ creds' = [creds EXCEPT ![c] = row]
    /\ latest' = [latest EXCEPT ![c] = v]
    /\ UNCHANGED <<stage, secrets>>

Fresh(mode) == [mode |-> mode, active |-> TRUE, tag |-> Bare, key |-> NoKey, value |-> Nothing]

\* POST /credentials; a second one of the same name breaks the unique index.
CreatePlatform(r, c, v) ==
    /\ creds[c] = NoRow
    /\ Stores(c, Encrypted(Fresh("platform"), r, v), v)

CreateByok(c, key, v) ==
    /\ creds[c] = NoRow
    /\ Stores(c, [Fresh("byok") EXCEPT !.key = key, !.value = v], v)

CreatePointer(c) ==
    /\ creds[c] = NoRow
    /\ Stores(c, Fresh("k8s"), Nothing)

\* PATCH /credentials/{id} with a value: encrypted with the platform's key,
\* whatever the mode of the row, which stays as it is.
PatchValue(r, c, v) ==
    /\ creds[c] # NoRow
    /\ Stores(c, Encrypted(creds[c], r, v), v)

PatchActive(c, active) ==
    /\ creds[c] # NoRow
    /\ Stores(c, [creds[c] EXCEPT !.active = active], latest[c])

Delete(c) ==
    /\ creds[c] # NoRow
    /\ Stores(c, NoRow, Nothing)

\* reencrypt_platform on a row, by whoever runs the rotation.
Reencrypt(r, c) ==
    /\ creds[c] # NoRow
    /\ Decrypts(r, creds[c])
    /\ Stores(c, Encrypted(creds[c], r, creds[c].value), latest[c])

(***************************************************************************)
(* The rotation and the cluster.                                            *)
(***************************************************************************)
\* A replica is restarted with the next environment once no other is behind
\* it, and once no row needs a key that the environment leaves out.
NextStage(r) ==
    /\ stage[r] < Len(Stages)
    /\ \A o \in Replicas : stage[o] >= stage[r]
    /\ \A c \in Tenants \X Names :
          creds[c] # NoRow /\ creds[c].key \in Held(stage[r]) =>
              creds[c].key \in Held(stage[r] + 1)
    /\ stage' = [stage EXCEPT ![r] = @ + 1]
    /\ UNCHANGED <<creds, secrets, latest>>

\* Somebody changes the Secret "mcpfinder-creds-<tenant>".
SetSecret(c, v) ==
    /\ InCluster
    /\ secrets' = [secrets EXCEPT ![c] = v]
    /\ UNCHANGED <<stage, creds, latest>>

Found(c) == creds[c] # NoRow /\ creds[c].active

\* resolve_credential_token: the tenant's Secret, the row with the tenant's
\* key, the row with the platform's keys.
Resolved(r, c) ==
    IF InCluster /\ secrets[c] # Nothing THEN secrets[c]
    ELSE IF /\ Found(c)
            /\ \/ creds[c].mode = "byok" /\ ByokKey # NoKey /\ creds[c].key = ByokKey
               \/ Decrypts(r, creds[c])
         THEN creds[c].value
         ELSE Nothing

Next ==
    \/ \E c \in Tenants \X Names :
          \/ \E r \in Replicas, v \in Values : CreatePlatform(r, c, v) \/ PatchValue(r, c, v)
          \/ \E key \in UserKeys, v \in Values : CreateByok(c, key, v)
          \/ CreatePointer(c)
          \/ \E active \in BOOLEAN : PatchActive(c, active)
          \/ Delete(c)
          \/ \E r \in Replicas : Reencrypt(r, c)
          \/ \E v \in Values \cup {Nothing} : SetSecret(c, v)
    \/ \E r \in Replicas : NextStage(r)

Spec == Init /\ [][Next]_vars

(***************************************************************************)
(* Properties.                                                              *)
(***************************************************************************)
\* The platform can read the value of a row: one that it encrypted itself, or
\* one encrypted with the tenant's key that the deployment was given.
Readable(c) ==
    \/ creds[c].mode = "platform"
    \/ creds[c].tag # Bare
    \/ creds[c].mode = "byok" /\ creds[c].key = ByokKey

\* However far each replica is with the rotation, a token is replaced by what
\* its tenant stored last under the name, and by nothing when the credential
\* is off or deleted (resolve_credential_token, update_credential).  A key of
\* the same name in the tenant's Secret comes first.
ResolvesLatest ==
    \A r \in Replicas, c \in Tenants \X Names :
        ~InCluster \/ secrets[c] = Nothing =>
            Resolved(r, c) =
                IF creds[c] # NoRow /\ creds[c].active /\ Readable(c) THEN latest[c] ELSE Nothing
=============================================================================
