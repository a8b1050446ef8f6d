--------------------------- MODULE PlatformProofs ---------------------------
(* Proofs about the parts of Platform, and about the pipeline store, for     *)
(* every value of their constants.                                           *)
EXTENDS Platform, Pipelines, TLAPS, SequenceTheorems, FiniteSetTheorems

(***************************************************************************)
(* Credentials: a credential resolves to what was stored last, on every      *)
(* replica and at every moment of a rotation, for every number of tenants,    *)
(* replicas, keys and environments.                                          *)
(***************************************************************************)

Slots == Tenants \X Names

\* A row that the platform encrypted is readable with the ring of each
\* replica; one of a tenant's own is not, whatever the ring.
RowOK(row) ==
    row # NoRow =>
        IF row.mode = "platform" \/ row.tag # Bare
        THEN \A r \in Replicas : row.key \in Held(stage[r])
        ELSE row.key \in UserKeys \/ (row.mode = "k8s" /\ row.key = NoKey)

Together == \A r, o \in Replicas : stage[o] <= stage[r] + 1

RowsOK == \A c \in Slots : RowOK(creds[c])

LatestStands == \A c \in Slots : creds[c] # NoRow => latest[c] = creds[c].value

IInv == TypeOK /\ Together /\ RowsOK /\ LatestStands

\* What a replica encrypts with is a key that every replica at its stage or
\* the next one holds, and no key of a tenant.
LEMMA EncryptsHeld ==
    ASSUME NEW s \in DOMAIN Stages, NEW u \in DOMAIN Stages, s <= u + 1, u <= s + 1
    PROVE  EncryptsWith(s) \in Held(u) /\ EncryptsWith(s) \in Keys
<1>1. s \in Nat /\ u \in Nat /\ s \in 1 .. Len(Stages) /\ u \in 1 .. Len(Stages)
    BY CredentialsAssumption
<1>2. EncryptsWith(s) \in Keys
    BY CredentialsAssumption
<1>3. CASE u = s
    <2>1. Stages[s] \in Environment
        BY CredentialsAssumption
    <2>2. Stages[s].current \in Ids
        BY <2>1 DEF Environment
    <2> QED BY <1>2, <1>3, <2>2, CredentialsAssumption DEF EncryptsWith, Held
<1>4. CASE u = s + 1
    <2>1. s \in 1 .. Len(Stages) - 1
        BY <1>1, <1>4, CredentialsAssumption
    <2> QED BY <2>1, <1>2, <1>4, CredentialsAssumption
<1>5. CASE s = u + 1
    <2>1. u \in 1 .. Len(Stages) - 1
        BY <1>1, <1>5, CredentialsAssumption
    <2> QED BY <2>1, <1>2, <1>5, CredentialsAssumption
<1> QED BY <1>1, <1>3, <1>4, <1>5

\* No ring holds a key of a tenant.
LEMMA HeldKeys ==
    ASSUME NEW s \in DOMAIN Stages
    PROVE  Held(s) \subseteq Keys
<1>1. Stages[s] \in Environment
    BY CredentialsAssumption
<1>2. \A i \in Ids : Stages[s].ring[i] \in Keys \cup {NoKey}
    BY <1>1 DEF Environment
<1> QED BY <1>2 DEF Held

\* One row is stored: the invariant holds after it if the row is in order.
LEMMA StoresKeeps ==
    ASSUME IInv, NEW c \in Slots, NEW row \in Row \cup {NoRow},
           NEW v \in Values \cup {Nothing},
           RowOK(row), row # NoRow => v = row.value, Stores(c, row, v)
    PROVE  IInv'
<1> USE DEF IInv
<1>1. /\ creds' = [creds EXCEPT ![c] = row]
      /\ latest' = [latest EXCEPT ![c] = v]
      /\ UNCHANGED <<stage, secrets>>
    BY DEF Stores
<1>2. TypeOK'
    BY <1>1 DEF TypeOK, Slots
<1>3. Together'
    BY <1>1 DEF Together
<1>4. \A d \in Slots : creds'[d] = IF d = c THEN row ELSE creds[d]
    BY <1>1 DEF TypeOK, Slots
<1>5. RowsOK'
    <2>1. SUFFICES ASSUME NEW d \in Slots PROVE RowOK(creds[d])'
        BY DEF RowsOK
    <2>2. RowOK(creds'[d])
        BY <1>4 DEF RowsOK
    <2> QED BY <1>1, <2>2 DEF RowOK
<1>6. \A d \in Slots : latest'[d] = IF d = c THEN v ELSE latest[d]
    BY <1>1 DEF TypeOK, Slots
<1>7. LatestStands'
    BY <1>4, <1>6 DEF LatestStands
<1> QED BY <1>2, <1>3, <1>5, <1>7

\* What a replica encrypts is in order, whichever row it was.
LEMMA EncryptedOK ==
    ASSUME IInv, NEW r \in Replicas, NEW row \in Row, NEW v \in Values \cup {Nothing}
    PROVE  /\ Encrypted(row, r, v) \in Row
           /\ Encrypted(row, r, v).value = v
           /\ RowOK(Encrypted(row, r, v))
<1>1. stage[r] \in DOMAIN Stages
    BY DEF IInv, TypeOK
<1>2. Stages[stage[r]].current \in Ids
    <2>1. Stages[stage[r]] \in Environment
        BY <1>1, CredentialsAssumption
    <2> QED BY <2>1 DEF Environment
<1>3. \A o \in Replicas : EncryptsWith(stage[r]) \in Held(stage[o])
    <2> TAKE o \in Replicas
    <2>1. stage[o] \in DOMAIN Stages /\ stage[r] <= stage[o] + 1 /\ stage[o] <= stage[r] + 1
        BY DEF IInv, TypeOK, Together
    <2> QED BY <1>1, <2>1, EncryptsHeld
<1>4. EncryptsWith(stage[r]) \in Keys
    BY <1>1, CredentialsAssumption
<1>5. /\ Encrypted(row, r, v).tag = Stages[stage[r]].current
      /\ Encrypted(row, r, v).key = EncryptsWith(stage[r])
      /\ Encrypted(row, r, v).value = v
    BY DEF Encrypted, Row
<1>6. Encrypted(row, r, v) \in Row
    BY <1>2, <1>4 DEF Encrypted, Row
<1>7. Encrypted(row, r, v).tag # Bare
    BY <1>2, <1>5, CredentialsAssumption
<1> QED BY <1>3, <1>5, <1>6, <1>7 DEF RowOK

LEMMA InitIInv == Init => IInv
<1> SUFFICES ASSUME Init PROVE IInv
    OBVIOUS
<1>1. 1 \in DOMAIN Stages
    BY CredentialsAssumption
<1>2. Legacy \in Held(1) /\ Legacy \in Keys
    BY <1>1, HeldKeys, CredentialsAssumption
<1> DEFINE Old(v) == [mode |-> "platform", active |-> TRUE, tag |-> Bare,
                      key |-> Legacy, value |-> v]
<1>3. \A c \in Slots : creds[c] = NoRow \/ \E v \in Values : creds[c] = Old(v)
    BY DEF Init, Slots
<1>a. \A v \in Values : Old(v) \in Row /\ Old(v).mode = "platform" /\ Old(v).key = Legacy
    BY <1>2 DEF Row
<1> HIDE DEF Old
<1>4. \A c \in Slots : creds[c] \in Row \cup {NoRow}
    BY <1>3, <1>a
<1>5. \A c \in Slots : latest[c] = IF creds[c] = NoRow THEN Nothing ELSE creds[c].value
    BY DEF Init, Slots
<1>6. \A c \in Slots : latest[c] \in Values \cup {Nothing}
    BY <1>4, <1>5 DEF Row
<1>7. creds = [c \in Slots |-> creds[c]] /\ latest = [c \in Slots |-> latest[c]]
    BY DEF Init, Slots
<1>8. TypeOK
    BY <1>1, <1>4, <1>6, <1>7 DEF Init, TypeOK, Slots
<1>9. Together
    BY DEF Init, Together
<1>10. RowsOK
    <2> SUFFICES ASSUME NEW c \in Slots, creds[c] # NoRow PROVE RowOK(creds[c])
        BY DEF RowsOK, RowOK
    <2>1. creds[c].mode = "platform" /\ creds[c].key = Legacy
        BY <1>3, <1>a
    <2> QED BY <1>2, <2>1 DEF RowOK, Init
<1>11. LatestStands
    BY <1>5 DEF LatestStands
<1> QED BY <1>8, <1>9, <1>10, <1>11 DEF IInv

\* A restart with the next environment: the rows were looked at before it.
LEMMA NextStageKeeps ==
    ASSUME IInv, NEW r \in Replicas, NextStage(r)
    PROVE  IInv'
<1> USE DEF IInv
<1>1. /\ stage[r] < Len(Stages)
      /\ \A o \in Replicas : stage[o] >= stage[r]
      /\ \A c \in Slots : creds[c] # NoRow /\ creds[c].key \in Held(stage[r]) =>
                              creds[c].key \in Held(stage[r] + 1)
      /\ stage' = [stage EXCEPT ![r] = @ + 1]
      /\ UNCHANGED <<creds, secrets, latest>>
    BY DEF NextStage, Slots
<1>2. stage[r] \in 1 .. Len(Stages) /\ Len(Stages) \in Nat
    BY CredentialsAssumption DEF TypeOK
<1>3. stage[r] + 1 \in DOMAIN Stages
    BY <1>1, <1>2, CredentialsAssumption
<1>4. TypeOK'
    BY <1>1, <1>3 DEF TypeOK
<1>5. \A o \in Replicas : stage'[o] = IF o = r THEN stage[r] + 1 ELSE stage[o]
    BY <1>1 DEF TypeOK
<1>6. \A o \in Replicas : stage[o] \in Nat
    BY CredentialsAssumption DEF TypeOK
<1>7. Together'
    BY <1>1, <1>5, <1>6 DEF Together
<1>8. RowsOK'
    <2>1. SUFFICES ASSUME NEW c \in Slots PROVE RowOK(creds[c])'
        BY DEF RowsOK
    <2>2. RowOK(creds[c])
        BY DEF RowsOK
    <2>3. SUFFICES ASSUME creds[c] # NoRow, creds[c].mode = "platform" \/ creds[c].tag # Bare,
                          NEW o \in Replicas
                   PROVE  creds[c].key \in Held(stage'[o])
        BY <1>1, <2>2 DEF RowOK
    <2>4. \A q \in Replicas : creds[c].key \in Held(stage[q])
        BY <2>2, <2>3 DEF RowOK
    <2> QED BY <1>1, <1>5, <2>3, <2>4
<1>9. LatestStands'
    BY <1>1 DEF LatestStands
<1> QED BY <1>4, <1>7, <1>8, <1>9

LEMMA NextIInv == IInv /\ [Next]_vars => IInv'
<1> SUFFICES ASSUME IInv, [Next]_vars PROVE IInv'
    OBVIOUS
<1> USE DEF Slots
<1>1. \A c \in Slots : creds[c] # NoRow => creds[c] \in Row /\ creds[c].value = latest[c]
    BY DEF IInv, TypeOK, LatestStands
<1>2. \A c \in Slots : latest[c] \in Values \cup {Nothing} /\ RowOK(creds[c])
    BY DEF IInv, TypeOK, RowsOK
<1>3. \A mode \in {"platform", "byok", "k8s"} : Fresh(mode) \in Row
    BY DEF Fresh, Row
<1>4. ASSUME NEW c \in Slots, NEW r \in Replicas, NEW v \in Values, CreatePlatform(r, c, v)
      PROVE  IInv'
    <2>1. Stores(c, Encrypted(Fresh("platform"), r, v), v)
        BY <1>4 DEF CreatePlatform
    <2> QED BY <1>3, <2>1, EncryptedOK, StoresKeeps
<1>5. ASSUME NEW c \in Slots, NEW r \in Replicas, NEW v \in Values, PatchValue(r, c, v)
      PROVE  IInv'
    <2>1. creds[c] \in Row /\ Stores(c, Encrypted(creds[c], r, v), v)
        BY <1>1, <1>5 DEF PatchValue
    <2> QED BY <2>1, EncryptedOK, StoresKeeps
<1>6. ASSUME NEW c \in Slots, NEW key \in UserKeys, NEW v \in Values, CreateByok(c, key, v)
      PROVE  IInv'
    <2> DEFINE row == [Fresh("byok") EXCEPT !.key = key, !.value = v]
    <2>1. Stores(c, row, v)
        BY <1>6 DEF CreateByok
    <2>2. row \in Row /\ row.value = v /\ row.mode = "byok" /\ row.tag = Bare /\ row.key = key
        BY DEF Fresh, Row
    <2>3. RowOK(row)
        BY <2>2 DEF RowOK
    <2> HIDE DEF row
    <2> QED BY <2>1, <2>2, <2>3, StoresKeeps
<1>7. ASSUME NEW c \in Slots, CreatePointer(c)
      PROVE  IInv'
    <2>1. Stores(c, Fresh("k8s"), Nothing)
        BY <1>7 DEF CreatePointer
    <2>2. RowOK(Fresh("k8s")) /\ Fresh("k8s").value = Nothing
        BY DEF RowOK, Fresh
    <2> QED BY <1>3, <2>1, <2>2, StoresKeeps
<1>8. ASSUME NEW c \in Slots, NEW active \in BOOLEAN, PatchActive(c, active)
      PROVE  IInv'
    <2> DEFINE row == [creds[c] EXCEPT !.active = active]
    <2>1. creds[c] \in Row /\ creds[c].value = latest[c] /\ Stores(c, row, latest[c])
        BY <1>1, <1>8 DEF PatchActive
    <2>2. /\ row \in Row /\ row.value = creds[c].value /\ row.mode = creds[c].mode
          /\ row.tag = creds[c].tag /\ row.key = creds[c].key
        BY <2>1 DEF Row
    <2>3. creds[c] # NoRow
        BY <1>8 DEF PatchActive
    <2>4. RowOK(row)
        BY <1>2, <2>2, <2>3 DEF RowOK
    <2> HIDE DEF row
    <2> QED BY <1>2, <2>1, <2>2, <2>4, StoresKeeps
<1>9. ASSUME NEW c \in Slots, Delete(c)
      PROVE  IInv'
    <2>1. Stores(c, NoRow, Nothing) /\ RowOK(NoRow)
        BY <1>9 DEF Delete, RowOK
    <2> QED BY <2>1, StoresKeeps
<1>10. ASSUME NEW c \in Slots, NEW r \in Replicas, Reencrypt(r, c)
       PROVE  IInv'
    <2>1. /\ creds[c] \in Row /\ creds[c].value = latest[c]
          /\ Stores(c, Encrypted(creds[c], r, creds[c].value), latest[c])
        BY <1>1, <1>10 DEF Reencrypt
    <2> QED BY <1>2, <2>1, EncryptedOK, StoresKeeps
<1>11. ASSUME NEW c \in Slots, NEW v \in Values \cup {Nothing}, SetSecret(c, v)
       PROVE  IInv'
    <2>1. UNCHANGED <<stage, creds, latest>> /\ secrets' = [secrets EXCEPT ![c] = v]
        BY <1>11 DEF SetSecret
    <2> QED BY <2>1 DEF IInv, TypeOK, Together, RowsOK, RowOK, LatestStands
<1>12. CASE UNCHANGED vars
    BY <1>12 DEF vars, IInv, TypeOK, Together, RowsOK, RowOK, LatestStands
<1> QED
    BY <1>4, <1>5, <1>6, <1>7, <1>8, <1>9, <1>10, <1>11, <1>12, NextStageKeeps DEF Next

\* The invariant says what a token resolves to.
LEMMA IInvResolves == IInv => ResolvesLatest
<1> SUFFICES ASSUME IInv, NEW r \in Replicas, NEW c \in Slots,
                    ~InCluster \/ secrets[c] = Nothing
             PROVE  Resolved(r, c) =
                        IF creds[c] # NoRow /\ creds[c].active /\ Readable(c)
                        THEN latest[c] ELSE Nothing
    BY DEF ResolvesLatest, Slots
<1>1. Resolved(r, c) = IF /\ Found(c)
                          /\ \/ creds[c].mode = "byok" /\ ByokKey # NoKey /\ creds[c].key = ByokKey
                             \/ Decrypts(r, creds[c])
                       THEN creds[c].value ELSE Nothing
    BY DEF Resolved
<1>2. CASE ~Found(c)
    BY <1>1, <1>2 DEF Found
<1>3. CASE Found(c)
    <2>1. creds[c] # NoRow /\ creds[c].active /\ latest[c] = creds[c].value /\ RowOK(creds[c])
        BY <1>3 DEF Found, IInv, LatestStands, RowsOK
    <2>2. Held(stage[r]) \subseteq Keys
        BY HeldKeys DEF IInv, TypeOK
    <2>3. CASE creds[c].mode = "platform" \/ creds[c].tag # Bare
        <3>1. Readable(c)
            BY <2>3 DEF Readable
        <3>2. Decrypts(r, creds[c])
            BY <2>1, <2>2, <2>3, CredentialsAssumption DEF RowOK, Decrypts
        <3> QED BY <1>1, <1>3, <2>1, <3>1, <3>2
    <2>4. CASE ~(creds[c].mode = "platform" \/ creds[c].tag # Bare)
        <3>1. creds[c].key \in UserKeys \/ (creds[c].mode = "k8s" /\ creds[c].key = NoKey)
            BY <2>1, <2>4 DEF RowOK
        <3>2. ~Decrypts(r, creds[c])
            BY <2>2, <3>1, CredentialsAssumption DEF Decrypts
        <3>3. creds[c].mode = "byok" \/ creds[c].mode = "k8s"
            BY <2>1, <2>4 DEF IInv, TypeOK, Row, Slots
        <3>4. Readable(c) <=> creds[c].mode = "byok" /\ ByokKey # NoKey /\ creds[c].key = ByokKey
            BY <2>4, <3>1, <3>3, CredentialsAssumption DEF Readable
        <3> QED BY <1>1, <1>3, <2>1, <3>2, <3>4
    <2> QED BY <2>3, <2>4
<1> QED BY <1>2, <1>3

\* Every variable keeps its type.
THEOREM TypeCorrect == Spec => []TypeOK
<1>1. IInv => TypeOK
    BY DEF IInv
<1> QED BY <1>1, InitIInv, NextIInv, PTL DEF Spec

\* A token resolves to what was stored last, throughout a rotation.
THEOREM RotationKeepsCredentials == Spec => []ResolvesLatest
<1> QED BY InitIInv, NextIInv, IInvResolves, PTL DEF Spec

(***************************************************************************)
(* The agent's turn.                                                        *)
(***************************************************************************)
\* What is heard and what is not accounts for every effect of a write, and two
\* failures of a call end the turn.
Accounted ==
    \A w \in Writes :
        /\ lost[w] <= failures[w]
        /\ applied[w] <= lost[w] + (IF w \in written THEN 1 ELSE 0)
        /\ w \in written => failures[w] <= 1

\* While the turn goes on no call has failed twice, and there is one to be made
\* whenever the turn is at its calls.
GoesOn ==
    /\ doing # "done" => \A c \in G!Calls : failures[c] <= 1
    /\ doing = "calling" => calls # <<>>
    /\ doing # "done" => answer = G!NoAnswer

TurnInv == G!TypeOK /\ Accounted /\ GoesOn /\ G!ClaimsAreEarned

\* The effects of a write fit the account once they are at most one more than
\* those that were lost.
LEMMA AccountedSuffices ==
    ASSUME G!TypeOK, Accounted
    PROVE  G!WritesOnce
  <1> SUFFICES ASSUME NEW w \in Writes
               PROVE  applied[w] <= 1 + lost[w] /\ applied[w] <= 2
      BY DEF G!WritesOnce
  <1>1. applied[w] \in Nat /\ lost[w] \in Nat /\ failures[w] \in 0 .. 2
      BY DEF G!TypeOK, G!Calls
  <1>2. CASE w \in written
    <2>1. lost[w] <= failures[w] /\ applied[w] <= lost[w] + 1 /\ failures[w] <= 1
        BY <1>2 DEF Accounted
    <2> QED  BY <1>1, <2>1
  <1>3. CASE w \notin written
    <2>1. lost[w] <= failures[w] /\ applied[w] <= lost[w] + 0
        BY <1>3 DEF Accounted
    <2> QED  BY <1>1, <2>1
  <1> QED  BY <1>2, <1>3

LEMMA TurnBegins ==
    ASSUME G!Init
    PROVE  TurnInv
  <1>1. G!TypeOK
    <2>1. calls \in Seq(G!Calls) /\ Len(calls) <= MaxCalls
        BY PlatformAssumption DEF G!Init, G!AgentAssumption
    <2>2. round \in 0 .. MaxSteps
        BY PlatformAssumption DEF G!Init, G!AgentAssumption
    <2>3. failures \in [G!Calls -> 0 .. 2]
        BY DEF G!Init
    <2>4. applied \in [Writes -> Nat] /\ lost \in [Writes -> Nat]
        BY DEF G!Init
    <2>5. doing = "choosing" /\ written \in SUBSET Writes /\ corrected \in BOOLEAN
        BY DEF G!Init
    <2>6. answer = G!NoAnswer
        BY DEF G!Init
    <2> QED  BY <2>1, <2>2, <2>3, <2>4, <2>5, <2>6 DEF G!TypeOK
  <1>2. Accounted
      BY DEF G!Init, Accounted, G!Calls
  <1>3. GoesOn /\ G!ClaimsAreEarned
      BY DEF G!Init, GoesOn, G!ClaimsAreEarned
  <1> QED  BY <1>1, <1>2, <1>3 DEF TurnInv

\* What a turn may end with.
LEMMA AnswerIsTyped ==
    ASSUME NEW kind \in G!Kinds, NEW claims \in BOOLEAN
    PROVE  G!Answer(kind, claims) \in {G!NoAnswer} \cup [kind : G!Kinds, claims : BOOLEAN]
  BY DEF G!Answer

\* A step that leaves the account alone, ends the turn or moves on.
LEMMA TurnQuiet ==
    ASSUME TurnInv, doing # "done",
           UNCHANGED <<round, calls, failures, written, corrected, applied, lost>>,
           \/ /\ doing' \in {"looping", "authoring", "repairing", "deploying", "first run", "running"}
              /\ answer' = answer
           \/ \E kind \in G!Kinds, claims \in BOOLEAN :
                 G!Ends(kind, claims) /\ (kind = "text" => ~claims)
    PROVE  TurnInv'
  <1>1. Accounted'
      BY DEF TurnInv, Accounted
  <1>2. CASE doing' \in {"looping", "authoring", "repairing", "deploying", "first run", "running"}
             /\ answer' = answer
    <2>1. G!TypeOK'
        BY <1>2 DEF TurnInv, G!TypeOK
    <2>2. GoesOn'
        BY <1>2 DEF TurnInv, GoesOn
    <2>3. G!ClaimsAreEarned'
        BY <1>2 DEF TurnInv, G!ClaimsAreEarned
    <2> QED  BY <1>1, <2>1, <2>2, <2>3 DEF TurnInv
  <1>3. ASSUME NEW kind \in G!Kinds, NEW claims \in BOOLEAN,
               G!Ends(kind, claims), kind = "text" => ~claims
        PROVE  TurnInv'
    <2>1. doing' = "done" /\ answer' = G!Answer(kind, claims)
        BY <1>3 DEF G!Ends
    <2>2. G!TypeOK'
        BY <2>1, AnswerIsTyped DEF TurnInv, G!TypeOK
    <2>3. GoesOn'
        BY <2>1 DEF GoesOn
    <2>4. G!ClaimsAreEarned'
        BY <1>3, <2>1 DEF G!ClaimsAreEarned, G!Answer
    <2> QED  BY <1>1, <2>2, <2>3, <2>4 DEF TurnInv
  <1> QED  BY <1>2, <1>3

\* The next call of the message, if there is one.
LEMMA NextCallHolds ==
    ASSUME TurnInv, doing = "calling", G!NextCall
    PROVE  /\ doing' \in {"looping", "calling"}
           /\ calls' \in Seq(G!Calls) /\ Len(calls') <= MaxCalls
           /\ doing' = "calling" => calls' # <<>>
           /\ calls[1] \in G!Calls
  <1>1. calls \in Seq(G!Calls) /\ Len(calls) <= MaxCalls /\ calls # <<>> /\ MaxCalls \in Nat
      BY PlatformAssumption DEF TurnInv, G!TypeOK, GoesOn, G!AgentAssumption
  <1>2. calls[1] \in G!Calls
      BY <1>1
  <1>3. Tail(calls) \in Seq(G!Calls) /\ Len(Tail(calls)) = Len(calls) - 1
      BY <1>1, HeadTailProperties
  <1>4. Len(calls) \in Nat
      BY <1>1
  <1>5. Len(calls) # 1 => Tail(calls) # <<>>
    <2>1. Len(calls) # 1 => Len(Tail(calls)) # 0
        BY <1>3, <1>4
    <2>2. Len(<<>>) = 0
        OBVIOUS
    <2> QED  BY <2>1, <2>2
  <1>6. Len(Tail(calls)) <= MaxCalls
      BY <1>1, <1>3, <1>4
  <1> QED  BY <1>2, <1>3, <1>5, <1>6 DEF G!NextCall

LEMMA TurnStepHolds ==
    ASSUME TurnInv, G!Next
    PROVE  TurnInv'
  <1> USE DEF G!Kinds
  <1>1. CASE G!Chooses
      BY <1>1, TurnQuiet DEF G!Chooses
  <1>2. ASSUME NEW message \in G!Messages, G!ModelCalls(message)
        PROVE  TurnInv'
    <2>1. message \in Seq(G!Calls) /\ Len(message) <= MaxCalls /\ message # <<>>
      <3>1. PICK n \in 1 .. MaxCalls : message \in [1 .. n -> G!Calls]
          BY DEF G!Messages
      <3>2. n \in Nat /\ n >= 1 /\ n <= MaxCalls
          BY <3>1 DEF G!AgentAssumption
      <3>3. message \in Seq(G!Calls) /\ Len(message) = n
          BY <3>1, <3>2
      <3> QED  BY <3>2, <3>3
    <2>2. round' \in 0 .. MaxSteps
      <3>1. round \in 0 .. MaxSteps /\ round < MaxSteps /\ round' = round + 1
          BY <1>2 DEF G!ModelCalls, TurnInv, G!TypeOK
      <3>2. MaxSteps \in Nat
          BY PlatformAssumption DEF G!AgentAssumption
      <3> QED  BY <3>1, <3>2
    <2>3. G!TypeOK' /\ GoesOn'
      <3>1. G!TypeOK'
          BY <1>2, <2>1, <2>2 DEF G!ModelCalls, TurnInv, G!TypeOK
      <3>2. GoesOn'
          BY <1>2, <2>1 DEF G!ModelCalls, TurnInv, GoesOn
      <3> QED  BY <3>1, <3>2
    <2>4. Accounted' /\ G!ClaimsAreEarned'
        BY <1>2 DEF G!ModelCalls, TurnInv, Accounted, G!ClaimsAreEarned
    <2> QED  BY <2>3, <2>4 DEF TurnInv
  <1>3. ASSUME NEW usable \in BOOLEAN, NEW claims \in BOOLEAN, G!ModelAnswers(usable, claims)
        PROVE  TurnInv'
    <2>1. round' \in 0 .. MaxSteps
      <3>1. round \in 0 .. MaxSteps /\ round < MaxSteps /\ round' = round + 1
          BY <1>3 DEF G!ModelAnswers, TurnInv, G!TypeOK
      <3>2. MaxSteps \in Nat
          BY PlatformAssumption DEF G!AgentAssumption
      <3> QED  BY <3>1, <3>2
    <2>2. Accounted'
        BY <1>3 DEF G!ModelAnswers, TurnInv, Accounted
    <2>3. CASE G!Corrects(usable, claims)
      <3>1. corrected' /\ UNCHANGED <<doing, answer>>
          BY <1>3, <2>3 DEF G!ModelAnswers
      <3>2. G!TypeOK' /\ GoesOn'
          BY <1>3, <2>1, <3>1 DEF G!ModelAnswers, TurnInv, G!TypeOK, GoesOn
      <3>3. G!ClaimsAreEarned'
          BY <3>1 DEF G!ClaimsAreEarned
      <3> QED  BY <2>2, <3>2, <3>3 DEF TurnInv
    <2>4. CASE ~G!Corrects(usable, claims)
      <3>1. G!Ends("text", claims) /\ UNCHANGED corrected
          BY <1>3, <2>4 DEF G!ModelAnswers
      <3>2. G!TypeOK' /\ GoesOn'
        <4>1. G!TypeOK'
            BY <1>3, <2>1, <3>1, AnswerIsTyped DEF G!ModelAnswers, TurnInv, G!TypeOK, G!Ends
        <4>2. GoesOn'
            BY <3>1 DEF GoesOn, G!Ends
        <4> QED  BY <4>1, <4>2
      <3>3. claims => written # {} \/ corrected
          BY <2>4 DEF G!Corrects, G!NeedsCorrection
      <3>4. G!ClaimsAreEarned'
          BY <1>3, <3>1, <3>3 DEF G!ModelAnswers, G!ClaimsAreEarned, G!Ends, G!Answer
      <3> QED  BY <2>2, <3>2, <3>4 DEF TurnInv
    <2> QED  BY <2>3, <2>4
  <1>4. CASE G!StepLimit
      BY <1>4, TurnQuiet DEF G!StepLimit
  <1>5. CASE G!Repeat
    <2>1. G!TypeOK' /\ GoesOn'
      <3>1. G!TypeOK'
          BY <1>5, NextCallHolds DEF G!Repeat, TurnInv, G!TypeOK
      <3>2. GoesOn'
          BY <1>5, NextCallHolds DEF G!Repeat, TurnInv, GoesOn
      <3> QED  BY <3>1, <3>2
    <2>2. Accounted' /\ G!ClaimsAreEarned'
        BY <1>5 DEF G!Repeat, TurnInv, Accounted, G!ClaimsAreEarned
    <2> QED  BY <2>1, <2>2 DEF TurnInv
  <1>6. ASSUME NEW effect \in BOOLEAN, G!CallWorks(effect)
        PROVE  TurnInv'
    <2> DEFINE c == calls[1]
    <2>1. c \in G!Calls /\ c \notin written /\ doing = "calling"
        BY <1>6, NextCallHolds DEF G!CallWorks, G!Repeats
    <2>2. applied' \in [Writes -> Nat] /\ lost' = lost
      <3>1. applied \in [Writes -> Nat]
          BY DEF TurnInv, G!TypeOK
      <3>2. G!TakesEffect(c, effect, TRUE)
          BY <1>6 DEF G!CallWorks
      <3>3. lost' = lost
          BY <3>2 DEF G!TakesEffect
      <3>4. CASE c \in Writes /\ effect
        <4>1. applied' = [applied EXCEPT ![c] = @ + 1]
            BY <3>2, <3>4 DEF G!TakesEffect
        <4>2. applied[c] + 1 \in Nat
            BY <3>1, <3>4
        <4> QED  BY <3>1, <3>3, <4>1, <4>2
      <3>5. CASE ~(c \in Writes /\ effect)
        <4>1. applied' = applied
            BY <3>2, <3>5 DEF G!TakesEffect
        <4> QED  BY <3>1, <3>3, <4>1
      <3> QED  BY <3>4, <3>5
    <2>3. G!TypeOK' /\ GoesOn'
      <3>1. written' \in SUBSET Writes
          BY <1>6 DEF G!CallWorks, TurnInv, G!TypeOK
      <3>2. G!TypeOK'
          BY <1>6, <2>2, <3>1, NextCallHolds DEF G!CallWorks, TurnInv, G!TypeOK
      <3>3. GoesOn'
          BY <1>6, NextCallHolds DEF G!CallWorks, TurnInv, GoesOn
      <3> QED  BY <3>2, <3>3
    <2>4. Accounted'
      <3> SUFFICES ASSUME NEW w \in Writes
                   PROVE  /\ lost[w] <= failures[w]
                          /\ applied'[w] <= lost[w] + (IF w \in written' THEN 1 ELSE 0)
                          /\ w \in written' => failures[w] <= 1
          BY <1>6, <2>2 DEF G!CallWorks, Accounted
      <3>1. /\ lost[w] \in Nat /\ applied[w] \in Nat /\ failures[w] \in 0 .. 2
            /\ lost[w] <= failures[w]
            /\ applied[w] <= lost[w] + (IF w \in written THEN 1 ELSE 0)
            /\ failures[w] <= 1
          BY <2>1 DEF TurnInv, G!TypeOK, Accounted, GoesOn, G!Calls
      <3>2. CASE w = c
        <4>1. w \in written' /\ w \notin written
            BY <1>6, <2>1, <3>2 DEF G!CallWorks
        <4>2. applied'[w] = applied[w] \/ applied'[w] = applied[w] + 1
            BY <1>6, <3>2 DEF G!CallWorks, G!TakesEffect, TurnInv, G!TypeOK
        <4> QED  BY <3>1, <4>1, <4>2
      <3>3. CASE w # c
        <4>1. applied'[w] = applied[w] /\ (w \in written' <=> w \in written)
            BY <1>6, <3>3 DEF G!CallWorks, G!TakesEffect, TurnInv, G!TypeOK
        <4> QED  BY <3>1, <4>1
      <3> QED  BY <3>2, <3>3
    <2>5. G!ClaimsAreEarned'
        BY <1>6, <2>1 DEF G!CallWorks, TurnInv, GoesOn, G!ClaimsAreEarned
    <2> QED  BY <2>3, <2>4, <2>5 DEF TurnInv
  <1>7. ASSUME NEW effect \in BOOLEAN, G!CallFails(effect)
        PROVE  TurnInv'
    <2> DEFINE c == calls[1]
    <2>1. calls \in Seq(G!Calls) /\ calls # <<>> /\ doing = "calling" /\ answer = G!NoAnswer
        BY <1>7 DEF G!CallFails, TurnInv, G!TypeOK, GoesOn
    <2>2. c \in G!Calls /\ c \notin written
        BY <1>7, <2>1 DEF G!CallFails, G!Repeats
    <2>3. /\ failures \in [G!Calls -> 0 .. 2] /\ \A x \in G!Calls : failures[x] <= 1
          /\ applied \in [Writes -> Nat] /\ lost \in [Writes -> Nat]
        BY <2>1 DEF TurnInv, G!TypeOK, GoesOn
    <2>4. failures' = [failures EXCEPT ![c] = @ + 1] /\ failures' \in [G!Calls -> 0 .. 2]
        BY <1>7, <2>2, <2>3 DEF G!CallFails
    <2>5. applied' \in [Writes -> Nat] /\ lost' \in [Writes -> Nat]
        BY <1>7, <2>3 DEF G!CallFails, G!TakesEffect
    <2>6. G!TypeOK' /\ GoesOn'
      <3>1. CASE failures[c] = 1
        <4>1. doing' = "done" /\ answer' = G!Answer("stopped", FALSE) /\ calls' = <<>>
            BY <1>7, <3>1 DEF G!CallFails, G!Ends
        <4>2. calls' \in Seq(G!Calls) /\ Len(calls') <= MaxCalls
            BY PlatformAssumption, <4>1 DEF G!AgentAssumption
        <4> QED  BY <1>7, <2>4, <2>5, <4>1, <4>2 DEF G!CallFails, TurnInv, G!TypeOK, GoesOn, G!Answer
      <3>2. CASE failures[c] # 1
        <4>1. G!NextCall /\ UNCHANGED answer
            BY <1>7, <3>2 DEF G!CallFails
        <4>2. \A x \in G!Calls : failures'[x] <= 1
            BY <2>2, <2>3, <2>4, <3>2
        <4> QED  BY <1>7, <2>1, <2>4, <2>5, <4>1, <4>2, NextCallHolds
                 DEF G!CallFails, TurnInv, G!TypeOK, GoesOn
      <3> QED  BY <3>1, <3>2
    <2>7. Accounted'
      <3> SUFFICES ASSUME NEW w \in Writes
                   PROVE  /\ lost'[w] <= failures'[w]
                          /\ applied'[w] <= lost'[w] + (IF w \in written THEN 1 ELSE 0)
                          /\ w \in written => failures'[w] <= 1
          BY <1>7 DEF G!CallFails, Accounted
      <3>1. /\ lost[w] \in Nat /\ applied[w] \in Nat /\ failures[w] \in 0 .. 2
            /\ lost[w] <= failures[w] /\ failures[w] <= 1
            /\ applied[w] <= lost[w] + (IF w \in written THEN 1 ELSE 0)
          BY <2>3 DEF TurnInv, Accounted, G!Calls
      <3>2. CASE w = c
        <4>1. w \notin written /\ failures'[w] = failures[w] + 1
            BY <2>2, <2>3, <2>4, <3>2
        <4>2. \/ applied'[w] = applied[w] /\ lost'[w] = lost[w]
              \/ applied'[w] = applied[w] + 1 /\ lost'[w] = lost[w] + 1
            BY <1>7, <2>3, <3>2 DEF G!CallFails, G!TakesEffect
        <4> QED  BY <3>1, <4>1, <4>2
      <3>3. CASE w # c
        <4>1. failures'[w] = failures[w] /\ applied'[w] = applied[w] /\ lost'[w] = lost[w]
            BY <1>7, <2>2, <2>3, <2>4, <3>3 DEF G!CallFails, G!TakesEffect, G!Calls
        <4> QED  BY <3>1, <4>1
      <3> QED  BY <3>2, <3>3
    <2>8. G!ClaimsAreEarned'
        BY <1>7, <2>1 DEF G!CallFails, G!ClaimsAreEarned, G!Ends, G!Answer
    <2> QED  BY <2>6, <2>7, <2>8 DEF TurnInv
  <1>8. CASE G!Unreachable
      BY <1>8, TurnQuiet DEF G!Unreachable
  <1>9. CASE (\E next \in {"repairing", "deploying"} : G!Authored(next)) \/ G!Repaired \/ G!Deployed
      BY <1>9, TurnQuiet DEF G!Authored, G!Repaired, G!Deployed
  <1>10. CASE G!NotAuthored \/ G!NotDeployed
      BY <1>10, TurnQuiet DEF G!NotAuthored, G!NotDeployed
  <1>11. CASE \E cameBack \in BOOLEAN : G!FirstRun(cameBack)
      BY <1>11, TurnQuiet DEF G!FirstRun
  <1>12. CASE \E result \in {"ran", "ran, steps failed", "denied"} : G!Run(result)
      BY <1>12, TurnQuiet DEF G!Run
  <1> QED
      BY <1>1, <1>2, <1>3, <1>4, <1>5, <1>6, <1>7, <1>8, <1>9, <1>10, <1>11, <1>12 DEF G!Next

\* The invariant of a turn, with the strengthening that makes it inductive.
LEMMA TurnInvHolds == G!Spec => []TurnInv
  <1>1. G!Init => TurnInv
      BY TurnBegins
  <1>2. TurnInv /\ [G!Next]_G!vars => TurnInv'
    <2>1. CASE UNCHANGED G!vars /\ TurnInv
        BY <2>1 DEF G!vars, TurnInv, G!TypeOK, Accounted, GoesOn, G!ClaimsAreEarned
    <2> QED  BY <2>1, TurnStepHolds
  <1> QED  BY <1>1, <1>2, PTL DEF G!Spec

\* Every variable of a turn keeps its type (POST /ask).
THEOREM TurnTypes == PlatformSpec => []G!TypeOK
  <1>1. TurnInv => G!TypeOK
      BY DEF TurnInv
  <1> QED  BY <1>1, TurnInvHolds, PTL DEF PlatformSpec

\* A write takes effect again only when its answer was lost, and a claim of a
\* change is earned or was corrected once (run_platform_loop).
THEOREM WritesAreMadeOnce == PlatformSpec => []TurnsAreSound
  <1>1. TurnInv => TurnsAreSound
      BY AccountedSuffices DEF TurnInv, TurnsAreSound, G!TurnsAreSound
  <1> QED  BY <1>1, TurnInvHolds, PTL DEF PlatformSpec

(***************************************************************************)
(* Licensing.  Every answer that is kept anywhere was true at a time that is *)
(* known, and the sources are what was true last.                            *)
(***************************************************************************)
\* The sources said so less than TTL before the time `at`.
SaidBefore(features, at) ==
    lastTrue[features] # Nobody /\ at < lastTrue[features] + TTL

SourcesNoted ==
    /\ lastTrue[L!Sources] = now
    /\ \A f \in SUBSET Features : lastTrue[f] # Nobody => lastTrue[f] <= now

CacheTrue ==
    cache.at # Nobody =>
        /\ cache.at <= now
        /\ lastTrue[cache.features] # Nobody /\ cache.at <= lastTrue[cache.features]

HeardTrue ==
    heard.at # Nobody =>
        /\ heard.at <= now
        /\ heard.features # L!Free => SaidBefore(heard.features, heard.at)

AskedTrue ==
    \A q \in Requests :
        /\ asking[q].at = Nobody => asking[q] = L!Idle
        /\ asking[q].at # Nobody => asking[q].at <= now
        /\ asking[q].answered => asking[q].at # Nobody /\ SaidBefore(asking[q].answer, asking[q].at)

LicenseInv == L!TypeOK /\ SourcesNoted /\ CacheTrue /\ HeardTrue /\ AskedTrue

LEMMA LicenseFacts ==
    /\ TTL \in Nat \ {0} /\ PortalTTL \in Nat \ {0} /\ LicenseHorizon \in Nat
    /\ Nobody \notin Nat
    /\ Environments \subseteq L!Environment
  BY PlatformAssumption DEF L!LicensingAssumption

\* An environment that a router may have unlocks features of the product.
LEMMA LicensedTyped ==
    ASSUME NEW e \in Environments, e.license # NoLicense
    PROVE  e.license.features \in SUBSET Features
  <1>1. e.license \in L!License
      BY LicenseFacts DEF L!Environment
  <1> QED  BY <1>1 DEF L!License

LEMMA SourcesTyped ==
    ASSUME env \in Environments
    PROVE  L!Sources \in SUBSET Features
  <1>1. L!Valid(env.license) => env.license.features \in SUBSET Features
      BY LicensedTyped DEF L!Valid
  <1>2. L!Licensed \in SUBSET Features /\ L!FromMarketplace \in SUBSET Features
      BY <1>1 DEF L!Licensed, L!FromMarketplace, L!Free
  <1> QED  BY <1>2 DEF L!Sources

LEMMA SourcesTypedNext ==
    ASSUME env' \in Environments
    PROVE  L!Sources' \in SUBSET Features
  <1>1. L!Valid(env.license)' => env'.license.features \in SUBSET Features
      BY LicensedTyped DEF L!Valid
  <1>2. L!Licensed' \in SUBSET Features /\ L!FromMarketplace' \in SUBSET Features
      BY <1>1 DEF L!Licensed, L!FromMarketplace, L!Free
  <1> QED  BY <1>2 DEF L!Sources

\* What the router keeps after it was asked: it is young enough for an answer.
LEMMA KeptIsTrue ==
    ASSUME LicenseInv
    PROVE  /\ L!Kept \in [features : SUBSET Features, at : (0 .. LicenseHorizon) \cup {Nobody}]
           /\ L!Kept.at # Nobody /\ L!Kept.at <= now
           /\ L!Kept.features = L!Answer
           /\ lastTrue[L!Kept.features] # Nobody /\ L!Kept.at <= lastTrue[L!Kept.features]
           /\ SaidBefore(L!Kept.features, now)
  <1>1. /\ now \in 0 .. LicenseHorizon /\ env \in Environments
        /\ cache \in [features : SUBSET Features, at : (0 .. LicenseHorizon) \cup {Nobody}]
        /\ lastTrue \in [SUBSET Features -> (0 .. LicenseHorizon) \cup {Nobody}]
      BY DEF LicenseInv, L!TypeOK
  <1>2. L!Sources \in SUBSET Features
      BY <1>1, SourcesTyped
  <1>3. CASE L!Hit(cache, TTL)
    <2>1. L!Kept = cache /\ L!Answer = cache.features
        BY <1>3 DEF L!Kept, L!Answer
    <2>2. cache.at # Nobody /\ now - cache.at < TTL
        BY <1>3 DEF L!Hit
    <2>3. /\ cache.at <= now
          /\ lastTrue[cache.features] # Nobody /\ cache.at <= lastTrue[cache.features]
        BY <2>2 DEF LicenseInv, CacheTrue
    <2>4. cache.at \in Nat /\ lastTrue[cache.features] \in Nat /\ now \in Nat
        BY <1>1, <2>2, <2>3, LicenseFacts
    <2>5. now < lastTrue[cache.features] + TTL
        BY <2>2, <2>3, <2>4, LicenseFacts
    <2> QED  BY <1>1, <2>1, <2>2, <2>3, <2>5 DEF SaidBefore
  <1>4. CASE ~L!Hit(cache, TTL)
    <2>1. L!Kept = [features |-> L!Sources, at |-> now] /\ L!Answer = L!Sources
        BY <1>4 DEF L!Kept, L!Answer
    <2>2. lastTrue[L!Sources] = now /\ now \in Nat /\ now # Nobody
        BY <1>1, LicenseFacts DEF LicenseInv, SourcesNoted
    <2>3. L!Kept.features = L!Sources /\ L!Kept.at = now
        BY <2>1
    <2>4. L!Kept \in [features : SUBSET Features, at : (0 .. LicenseHorizon) \cup {Nobody}]
        BY <1>1, <1>2, <2>1
    <2>5. now < lastTrue[L!Sources] + TTL
        BY <2>2, LicenseFacts
    <2> QED  BY <2>1, <2>2, <2>3, <2>4, <2>5 DEF SaidBefore
  <1> QED  BY <1>3, <1>4

LEMMA LicenseBegins ==
    ASSUME L!Init
    PROVE  LicenseInv
  <1>1. /\ now = 0 /\ env \in Environments /\ cache = L!Empty /\ heard = L!Empty
        /\ asking = [q \in Requests |-> L!Idle] /\ file = {} /\ aws = {}
        /\ lastTrue = [f \in SUBSET Features |-> IF f = L!Sources THEN 0 ELSE Nobody]
      BY DEF L!Init
  <1>2. L!Sources \in SUBSET Features
      BY <1>1, SourcesTyped
  <1>3. 0 \in 0 .. LicenseHorizon
      BY LicenseFacts
  <1>4. L!TypeOK
      BY <1>1, <1>3 DEF L!TypeOK, L!Empty, L!Idle, L!Free
  <1>5. SourcesNoted
      BY <1>1, <1>2 DEF SourcesNoted
  <1>6. CacheTrue /\ HeardTrue
      BY <1>1 DEF CacheTrue, HeardTrue, L!Empty
  <1>7. AskedTrue
      BY <1>1 DEF AskedTrue, L!Idle
  <1> QED  BY <1>4, <1>5, <1>6, <1>7 DEF LicenseInv

\* A step of the router's or the portal's own.
LEMMA SourcesStand ==
    ASSUME LicenseInv, UNCHANGED <<now, env, file, aws, lastTrue>>
    PROVE  SourcesNoted'
  <1>1. L!Sources' = L!Sources
      BY DEF L!Sources, L!Licensed, L!FromMarketplace, L!Valid, L!Revoked, L!Free
  <1> QED  BY <1>1 DEF LicenseInv, SourcesNoted

\* A step of the sources, of the clock or of the router's process.
LEMMA NotedHolds ==
    ASSUME LicenseInv, L!Noted, now' \in {now, now + 1}, now' \in 0 .. LicenseHorizon,
           env' \in Environments, file' = Nobody \/ file' \in SUBSET LicenseIds,
           aws' = Nobody \/ aws' \in SUBSET Terms,
           cache' \in {cache, L!Empty}, UNCHANGED <<heard, asking>>
    PROVE  LicenseInv'
  <1>1. /\ now \in Nat /\ now' \in Nat /\ now <= now'
        /\ lastTrue \in [SUBSET Features -> (0 .. LicenseHorizon) \cup {Nobody}]
      BY LicenseFacts DEF LicenseInv, L!TypeOK
  <1>2. L!Sources' \in SUBSET Features
      BY SourcesTypedNext
  <1>3. lastTrue' = [lastTrue EXCEPT ![L!Sources'] = now']
      BY DEF L!Noted
  <1>4. lastTrue' \in [SUBSET Features -> (0 .. LicenseHorizon) \cup {Nobody}]
      BY <1>1, <1>3
  <1>5. ASSUME NEW f \in SUBSET Features, lastTrue[f] # Nobody
        PROVE  lastTrue'[f] # Nobody /\ lastTrue[f] <= lastTrue'[f] /\ lastTrue'[f] \in Nat
               /\ lastTrue[f] \in Nat
    <2>1. lastTrue[f] \in Nat /\ lastTrue[f] <= now
        BY <1>1, <1>5 DEF LicenseInv, SourcesNoted
    <2>2. lastTrue'[f] = now' \/ lastTrue'[f] = lastTrue[f]
        BY <1>1, <1>3
    <2> QED  BY <1>1, <1>5, <2>1, <2>2, LicenseFacts
  <1>6. L!TypeOK'
      BY <1>4 DEF LicenseInv, L!TypeOK, L!Empty
  <1>7. SourcesNoted'
    <2>1. lastTrue'[L!Sources'] = now'
        BY <1>1, <1>2, <1>3
    <2>2. ASSUME NEW f \in SUBSET Features, lastTrue'[f] # Nobody
          PROVE  lastTrue'[f] <= now'
      <3>1. CASE f = L!Sources'
          BY <1>1, <2>1, <3>1
      <3>2. CASE f # L!Sources'
        <4>1. lastTrue'[f] = lastTrue[f]
            BY <1>1, <1>3, <3>2
        <4>2. lastTrue[f] <= now /\ lastTrue[f] \in Nat
            BY <1>1, <2>2, <4>1 DEF LicenseInv, SourcesNoted
        <4> QED  BY <1>1, <4>1, <4>2
      <3> QED  BY <3>1, <3>2
    <2> QED  BY <2>1, <2>2 DEF SourcesNoted
  <1>8. CacheTrue'
    <2>1. CASE cache' = L!Empty
        BY <2>1 DEF CacheTrue, L!Empty
    <2>2. CASE cache' = cache /\ cache.at # Nobody
      <3>1. /\ cache.features \in SUBSET Features /\ cache.at \in Nat
            /\ cache.at <= now /\ lastTrue[cache.features] # Nobody
            /\ cache.at <= lastTrue[cache.features]
          BY <2>2 DEF LicenseInv, L!TypeOK, CacheTrue
      <3>2. /\ cache.at <= now' /\ lastTrue'[cache.features] # Nobody
            /\ cache.at <= lastTrue'[cache.features]
          BY <1>1, <1>5, <3>1
      <3> QED  BY <2>2, <3>2 DEF CacheTrue
    <2> QED  BY <2>1, <2>2 DEF CacheTrue
  <1>9. ASSUME NEW f \in SUBSET Features, NEW at \in Nat, SaidBefore(f, at)
        PROVE  SaidBefore(f, at)'
    <2>1. lastTrue[f] # Nobody /\ at < lastTrue[f] + TTL
        BY <1>9 DEF SaidBefore
    <2>2. at < lastTrue'[f] + TTL
        BY <1>5, <2>1, LicenseFacts
    <2> QED  BY <1>5, <2>1, <2>2 DEF SaidBefore
  <1>10. HeardTrue'
    <2> SUFFICES ASSUME heard.at # Nobody
                 PROVE  /\ heard.at <= now'
                        /\ heard.features # L!Free => SaidBefore(heard.features, heard.at)'
        BY DEF HeardTrue, SaidBefore, L!Free
    <2>1. /\ heard.at \in Nat /\ heard.features \in SUBSET Features /\ heard.at <= now
          /\ heard.features # L!Free => SaidBefore(heard.features, heard.at)
        BY DEF LicenseInv, L!TypeOK, HeardTrue
    <2>2. heard.features # L!Free => SaidBefore(heard.features, heard.at)'
        BY <1>9, <2>1
    <2> QED  BY <1>1, <2>1, <2>2
  <1>11. AskedTrue'
    <2> SUFFICES ASSUME NEW q \in Requests
                 PROVE  /\ asking[q].at = Nobody => asking[q] = L!Idle
                        /\ asking[q].at # Nobody => asking[q].at <= now'
                        /\ asking[q].answered =>
                             asking[q].at # Nobody /\ SaidBefore(asking[q].answer, asking[q].at)'
        BY DEF AskedTrue, SaidBefore, L!Idle, L!Free
    <2>1. /\ asking[q].at \in Nat \cup {Nobody} /\ asking[q].answer \in SUBSET Features
          /\ asking[q].at = Nobody => asking[q] = L!Idle
          /\ asking[q].at # Nobody => asking[q].at <= now
          /\ asking[q].answered =>
               asking[q].at # Nobody /\ SaidBefore(asking[q].answer, asking[q].at)
        BY DEF LicenseInv, L!TypeOK, AskedTrue
    <2>2. ASSUME asking[q].answered
          PROVE  asking[q].at # Nobody /\ SaidBefore(asking[q].answer, asking[q].at)'
      <3>1. asking[q].at \in Nat /\ SaidBefore(asking[q].answer, asking[q].at)
          BY <2>1, <2>2
      <3> QED  BY <1>9, <2>1, <2>2, <3>1
    <2>3. asking[q].at # Nobody => asking[q].at <= now'
        BY <1>1, <2>1
    <2> QED  BY <2>1, <2>2, <2>3
  <1> QED  BY <1>6, <1>7, <1>8, <1>10, <1>11 DEF LicenseInv

LEMMA LicenseStepHolds ==
    ASSUME LicenseInv, L!Next
    PROVE  LicenseInv'
  <1>1. /\ now \in Nat /\ now \in 0 .. LicenseHorizon /\ env \in Environments
        /\ file = Nobody \/ file \in SUBSET LicenseIds
        /\ aws = Nobody \/ aws \in SUBSET Terms
        /\ asking \in [Requests -> [at : (0 .. LicenseHorizon) \cup {Nobody}, answered : BOOLEAN,
                                    answer : SUBSET Features]]
        /\ lastTrue \in [SUBSET Features -> (0 .. LicenseHorizon) \cup {Nobody}]
        /\ L!TypeOK
      BY LicenseFacts DEF LicenseInv, L!TypeOK
  <1>2. now # Nobody
      BY <1>1, LicenseFacts
  <1>3. ASSUME UNCHANGED <<now, lastTrue, heard>>
        PROVE  HeardTrue'
      BY <1>3 DEF LicenseInv, HeardTrue, SaidBefore, L!Free
  <1>4. ASSUME UNCHANGED <<now, lastTrue, asking>>
        PROVE  AskedTrue'
      BY <1>4 DEF LicenseInv, AskedTrue, SaidBefore, L!Idle, L!Free
  <1>5. ASSUME UNCHANGED <<now, lastTrue, cache>>
        PROVE  CacheTrue'
      BY <1>5 DEF LicenseInv, CacheTrue
  <1>6. ASSUME UNCHANGED <<now, lastTrue>>, cache' = L!Kept
        PROVE  CacheTrue' /\ cache' \in [features : SUBSET Features,
                                         at : (0 .. LicenseHorizon) \cup {Nobody}]
    <2>1. /\ L!Kept.at <= now
          /\ lastTrue[L!Kept.features] # Nobody /\ L!Kept.at <= lastTrue[L!Kept.features]
          /\ L!Kept \in [features : SUBSET Features, at : (0 .. LicenseHorizon) \cup {Nobody}]
        BY KeptIsTrue
    <2> DEFINE k == L!Kept
    <2> HIDE DEF k
    <2>2. cache' = k /\ k.at <= now /\ lastTrue[k.features] # Nobody
          /\ k.at <= lastTrue[k.features]
        BY <1>6, <2>1 DEF k
    <2>3. CacheTrue'
        BY <1>6, <2>2 DEF CacheTrue
    <2> QED  BY <1>6, <2>1, <2>3
  <1>7. CASE L!Ask
    <2>1. UNCHANGED <<now, env, file, aws, heard, asking, lastTrue>> /\ cache' = L!Kept
        BY <1>7 DEF L!Ask
    <2>2. CacheTrue' /\ HeardTrue' /\ AskedTrue' /\ SourcesNoted'
        BY <1>3, <1>4, <1>6, <2>1, SourcesStand
    <2>3. L!TypeOK'
        BY <1>1, <1>6, <2>1 DEF L!TypeOK
    <2> QED  BY <2>2, <2>3 DEF LicenseInv
  <1>8. ASSUME NEW q \in Requests, L!PortalAsks(q)
        PROVE  LicenseInv'
    <2> DEFINE rec == [L!Idle EXCEPT !.at = now]
    <2>1. /\ UNCHANGED <<now, env, file, aws, cache, heard, lastTrue>>
          /\ asking' = [asking EXCEPT ![q] = rec]
        BY <1>8 DEF L!PortalAsks
    <2>2. rec \in [at : (0 .. LicenseHorizon) \cup {Nobody}, answered : BOOLEAN,
                   answer : SUBSET Features]
        BY <1>1 DEF L!Idle, L!Free
    <2>3. rec.at = now /\ ~rec.answered
        BY DEF L!Idle
    <2> HIDE DEF rec
    <2>4. L!TypeOK'
        BY <1>1, <2>1, <2>2 DEF L!TypeOK
    <2>5. ASSUME NEW p \in Requests
          PROVE  asking'[p] = asking[p] \/ (asking'[p].at = now /\ ~asking'[p].answered)
        BY <1>1, <2>1, <2>3
    <2>6. ASSUME NEW p \in Requests
          PROVE  /\ asking'[p].at = Nobody => asking'[p] = L!Idle
                 /\ asking'[p].at # Nobody => asking'[p].at <= now
                 /\ asking'[p].answered =>
                      asking'[p].at # Nobody /\ SaidBefore(asking'[p].answer, asking'[p].at)
      <3>1. CASE asking'[p] = asking[p]
          BY <3>1 DEF LicenseInv, AskedTrue
      <3>2. CASE asking'[p].at = now /\ ~asking'[p].answered
          BY <1>1, <1>2, <3>2
      <3> QED  BY <2>5, <3>1, <3>2
    <2>7. AskedTrue'
        BY <2>1, <2>6 DEF AskedTrue, SaidBefore, L!Idle, L!Free
    <2> QED  BY <1>3, <1>5, <2>1, <2>4, <2>7, SourcesStand DEF LicenseInv
  <1>9. ASSUME NEW q \in Requests, L!RouterAnswers(q)
        PROVE  LicenseInv'
    <2> DEFINE k == L!Kept
               rec == [asking[q] EXCEPT !.answered = TRUE, !.answer = k.features]
    <2>1. /\ UNCHANGED <<now, env, file, aws, heard, lastTrue>> /\ cache' = L!Kept
          /\ asking' = [asking EXCEPT ![q] = rec]
        BY <1>1, <1>9 DEF L!RouterAnswers
    <2>2. k.features \in SUBSET Features /\ SaidBefore(k.features, now)
        BY KeptIsTrue
    <2> HIDE DEF k
    <2>3. asking[q].at \in Nat /\ asking[q].at <= now
        BY <1>1, <1>9 DEF L!RouterAnswers, LicenseInv, AskedTrue
    <2>4. /\ rec.at = asking[q].at /\ rec.answer = k.features
          /\ rec \in [at : (0 .. LicenseHorizon) \cup {Nobody}, answered : BOOLEAN,
                      answer : SUBSET Features]
      <3>1. asking[q] \in [at : (0 .. LicenseHorizon) \cup {Nobody}, answered : BOOLEAN,
                           answer : SUBSET Features]
          BY <1>1
      <3>2. rec.at = asking[q].at /\ rec.answer = k.features
          BY <3>1
      <3>3. rec \in [at : (0 .. LicenseHorizon) \cup {Nobody}, answered : BOOLEAN,
                     answer : SUBSET Features]
          BY <2>2, <3>1
      <3> QED  BY <3>2, <3>3
    <2>5. SaidBefore(k.features, asking[q].at)
      <3>1. lastTrue[k.features] \in Nat /\ now < lastTrue[k.features] + TTL
          BY <1>1, <2>2 DEF SaidBefore
      <3> QED  BY <1>1, <2>2, <2>3, <3>1, LicenseFacts DEF SaidBefore
    <2> HIDE DEF rec
    <2>6. L!TypeOK'
        BY <1>1, <1>6, <2>1, <2>4 DEF L!TypeOK
    <2>7. ASSUME NEW p \in Requests
          PROVE  /\ asking'[p].at = Nobody => asking'[p] = L!Idle
                 /\ asking'[p].at # Nobody => asking'[p].at <= now
                 /\ asking'[p].answered =>
                      asking'[p].at # Nobody /\ SaidBefore(asking'[p].answer, asking'[p].at)
      <3>1. CASE p = q
        <4>1. asking'[p] = rec /\ rec.at # Nobody
            BY <1>1, <2>1, <2>3, <2>4, <3>1, LicenseFacts
        <4> QED  BY <2>3, <2>4, <2>5, <4>1
      <3>2. CASE p # q
        <4>1. asking'[p] = asking[p]
            BY <1>1, <2>1, <3>2
        <4> QED  BY <4>1 DEF LicenseInv, AskedTrue
      <3> QED  BY <3>1, <3>2
    <2>8. AskedTrue'
        BY <2>1, <2>7 DEF AskedTrue, SaidBefore, L!Idle, L!Free
    <2> QED  BY <1>3, <1>6, <2>1, <2>6, <2>8, SourcesStand DEF LicenseInv
  \* The portal's request is over, with an answer or without.
  <1>10. ASSUME NEW q \in Requests, NEW f \in SUBSET Features, asking[q].at # Nobody,
                f # L!Free => SaidBefore(f, asking[q].at),
                UNCHANGED <<now, env, file, aws, cache, lastTrue>>,
                heard' = [features |-> f, at |-> asking[q].at],
                asking' = [asking EXCEPT ![q] = L!Idle]
         PROVE  LicenseInv'
    <2>1. L!Idle \in [at : (0 .. LicenseHorizon) \cup {Nobody}, answered : BOOLEAN,
                      answer : SUBSET Features]
          /\ L!Idle.at = Nobody /\ ~L!Idle.answered
        BY DEF L!Idle, L!Free
    <2>2. asking[q].at \in (0 .. LicenseHorizon) \cup {Nobody} /\ asking[q].at <= now
        BY <1>1, <1>10 DEF LicenseInv, AskedTrue
    <2>3. heard'.features = f /\ heard'.at = asking[q].at
        BY <1>10
    <2>4. L!TypeOK'
        BY <1>1, <1>10, <2>1, <2>2 DEF L!TypeOK
    <2>5. HeardTrue'
        BY <1>10, <2>2, <2>3 DEF HeardTrue, SaidBefore, L!Free
    <2>6. ASSUME NEW p \in Requests
          PROVE  asking'[p] = asking[p] \/ asking'[p] = L!Idle
        BY <1>1, <1>10
    <2>7. L!Idle' = L!Idle
        BY DEF L!Idle, L!Free
    <2>8. AskedTrue'
        BY <1>10, <2>1, <2>6, <2>7 DEF LicenseInv, AskedTrue, SaidBefore
    <2> QED  BY <1>5, <1>10, <2>4, <2>5, <2>8, SourcesStand DEF LicenseInv
  <1>11. ASSUME NEW q \in Requests, L!PortalHears(q)
         PROVE  LicenseInv'
    <2>1. /\ asking[q].answered /\ asking[q].answer \in SUBSET Features
          /\ asking[q].at # Nobody /\ SaidBefore(asking[q].answer, asking[q].at)
        BY <1>1, <1>11 DEF L!PortalHears, LicenseInv, AskedTrue
    <2> QED  BY <1>10, <1>11, <2>1 DEF L!PortalHears
  <1>12. ASSUME NEW q \in Requests, L!PortalHearsNothing(q)
         PROVE  LicenseInv'
    <2>1. asking[q].at # Nobody
        BY <1>12 DEF L!PortalHearsNothing, LicenseInv, AskedTrue
    <2>2. /\ UNCHANGED <<now, env, file, aws, cache, lastTrue>>
          /\ heard' = [features |-> L!Free, at |-> asking[q].at]
          /\ asking' = [asking EXCEPT ![q] = L!Idle]
        BY <1>12 DEF L!PortalHearsNothing
    <2>3. L!Free \in SUBSET Features
        BY DEF L!Free
    <2> QED  BY <1>10, <2>1, <2>2, <2>3
  <1>13. CASE L!RestartPortal
    <2>1. /\ UNCHANGED <<now, env, file, aws, cache, lastTrue>>
          /\ heard' = L!Empty /\ asking' = [q \in Requests |-> L!Idle]
        BY <1>13 DEF L!RestartPortal
    <2>2. L!TypeOK'
        BY <1>1, <2>1 DEF L!TypeOK, L!Empty, L!Idle, L!Free
    <2>3. HeardTrue' /\ AskedTrue'
        BY <2>1 DEF HeardTrue, AskedTrue, L!Empty, L!Idle, L!Free
    <2> QED  BY <1>5, <2>1, <2>2, <2>3, SourcesStand DEF LicenseInv
  <1>14. ASSUME NEW e \in Environments, L!RestartRouter(e)
         PROVE  LicenseInv'
      BY <1>1, <1>14, NotedHolds DEF L!RestartRouter
  <1>15. ASSUME NEW ids \in {{}, Nobody} \cup {{i} : i \in LicenseIds}, L!FileChanges(ids)
         PROVE  LicenseInv'
      BY <1>1, <1>15, NotedHolds DEF L!FileChanges
  <1>16. ASSUME NEW s \in {{}, Nobody} \cup {{until} : until \in Terms}, L!MarketplaceChanges(s)
         PROVE  LicenseInv'
      BY <1>1, <1>16, NotedHolds DEF L!MarketplaceChanges
  <1>17. CASE L!Tick
    <2>1. now' \in 0 .. LicenseHorizon
        BY <1>1, <1>17, LicenseFacts DEF L!Tick
    <2> QED  BY <1>1, <1>17, <2>1, NotedHolds DEF L!Tick
  <1> QED
      BY <1>7, <1>8, <1>9, <1>11, <1>12, <1>13, <1>14, <1>15, <1>16, <1>17 DEF L!Next

LEMMA LicenseInvHolds == L!Spec => []LicenseInv
  <1>1. L!Init => LicenseInv
      BY LicenseBegins
  <1>2. LicenseInv /\ [L!Next]_L!vars => LicenseInv'
    <2>1. ASSUME UNCHANGED L!vars, LicenseInv
          PROVE  LicenseInv'
      <3>1. SourcesNoted'
          BY <2>1, SourcesStand DEF L!vars
      <3>2. L!TypeOK'
          BY <2>1 DEF L!vars, LicenseInv, L!TypeOK
      <3>3. CacheTrue' /\ HeardTrue'
          BY <2>1 DEF L!vars, LicenseInv, CacheTrue, HeardTrue, SaidBefore, L!Free
      <3>4. AskedTrue'
          BY <2>1 DEF L!vars, LicenseInv, AskedTrue, SaidBefore, L!Idle, L!Free
      <3> QED  BY <3>1, <3>2, <3>3, <3>4 DEF LicenseInv
    <2> QED  BY <2>1, LicenseStepHolds
  <1> QED  BY <1>1, <1>2, PTL DEF L!Spec

\* Every variable of the router's and the portal's caches keeps its type.
THEOREM LicenseTypes == PlatformSpec => []L!TypeOK
  <1>1. LicenseInv => L!TypeOK
      BY DEF LicenseInv
  <1> QED  BY <1>1, LicenseInvHolds, PTL DEF PlatformSpec

\* What the router answers was true less than TTL ago, and what the portal unlocks
\* less than TTL + PortalTTL ago, whatever the sources do and however answers overlap
\* (resolve_entitlement, getEntitlement).
THEOREM CachesKeepToTheirTime == PlatformSpec => []AnswersAreRecent
  <1>1. ASSUME LicenseInv
        PROVE  AnswersAreRecent
    <2>1. /\ now \in Nat
          /\ heard \in [features : SUBSET Features, at : (0 .. LicenseHorizon) \cup {Nobody}]
          /\ lastTrue \in [SUBSET Features -> (0 .. LicenseHorizon) \cup {Nobody}]
        BY <1>1, LicenseFacts DEF LicenseInv, L!TypeOK
    <2>2. L!TrueWithin(L!Answer, TTL)
      <3>1. L!Answer \in SUBSET Features /\ SaidBefore(L!Answer, now)
          BY <1>1, KeptIsTrue
      <3>2. lastTrue[L!Answer] \in Nat /\ now < lastTrue[L!Answer] + TTL
          BY <2>1, <3>1 DEF SaidBefore
      <3> QED  BY <2>1, <3>1, <3>2, LicenseFacts DEF L!TrueWithin, SaidBefore
    <2>3. ASSUME L!Hit(heard, PortalTTL), heard.features # L!Free
          PROVE  L!TrueWithin(heard.features, TTL + PortalTTL)
      <3>1. /\ heard.at # Nobody /\ now - heard.at < PortalTTL
            /\ lastTrue[heard.features] # Nobody /\ heard.at < lastTrue[heard.features] + TTL
          BY <1>1, <2>3 DEF L!Hit, LicenseInv, HeardTrue, SaidBefore
      <3>2. heard.at \in Nat /\ lastTrue[heard.features] \in Nat
          BY <2>1, <3>1
      <3> QED  BY <2>1, <3>1, <3>2, LicenseFacts DEF L!TrueWithin
    <2> QED  BY <2>2, <2>3 DEF AnswersAreRecent, L!AnswersAreRecent
  <1> QED  BY <1>1, LicenseInvHolds, PTL DEF PlatformSpec

(***************************************************************************)
(* The token exchange.  The list of attempts of a bucket covers the requests *)
(* that passed: of those in the window, the one that is nth from the end is   *)
(* no younger than the nth attempt from the end.                             *)
(***************************************************************************)
Times(times, t) ==
    /\ times \in Seq(0 .. TokenHorizon)
    /\ \A i \in 1 .. Len(times) : times[i] <= t
    /\ \A i, j \in 1 .. Len(times) : i <= j => times[i] <= times[j]

Covers(a, p, t) ==
    \A i \in 1 .. Len(p) :
        p[i] + Window >= t =>
            /\ Len(p) - i < Len(a)
            /\ p[i] <= a[Len(a) - (Len(p) - i)]

\* A bucket at the time t: its attempts and what passed.
Bucket(a, p, t) ==
    /\ Times(a, t) /\ Times(p, t)
    /\ Len(a) <= MaxAttempts
    /\ Covers(a, p, t)

LEMMA TokenFacts ==
    /\ Window \in Nat \ {0} /\ MaxAttempts \in Nat \ {0} /\ JwksTTL \in Nat \ {0}
    /\ TokenHorizon \in Nat
    /\ NoKey \notin SigningKeys /\ Secret \notin SigningKeys /\ Never \notin Nat
    /\ Pinned \in SigningKeys \cup {NoKey}
    /\ Signer \in [Tokens -> SigningKeys \cup {Secret, NoKey}]
  BY PlatformAssumption DEF X!TokenExchangeAssumption

\* What holds of zero and of the next number holds of all.
LEMMA Induction ==
    ASSUME NEW K, 0 \in K, \A n \in Nat : n \in K => n + 1 \in K
    PROVE  \A n \in Nat : n \in K
  <1> SUFFICES ASSUME NEW n \in Nat, n \notin K PROVE FALSE
      OBVIOUS
  <1> DEFINE T == {k \in 0 .. n : k \notin K}
             f == [k \in T |-> k - 1]
  <1>1. IsFiniteSet(T) /\ T \in SUBSET (0 .. n)
    <2>1. IsFiniteSet(0 .. n) /\ T \in SUBSET (0 .. n)
        BY FS_Interval
    <2> QED  BY <2>1, FS_Subset
  <1>2. \A k \in T : k # 0 /\ k - 1 \in T \ {n}
    <2> SUFFICES ASSUME NEW k \in T PROVE k # 0 /\ k - 1 \in T \ {n}
        OBVIOUS
    <2>1. k # 0 /\ k \in 0 .. n
        OBVIOUS
    <2>2. k - 1 \in 0 .. n /\ k - 1 \in Nat /\ k - 1 + 1 = k /\ k - 1 # n
        BY <2>1
    <2> QED  BY <2>2
  <1>3. n \in T
      OBVIOUS
  <1>4. \A k \in T : k \in Int
      OBVIOUS
  <1> HIDE DEF T
  <1>5. f \in Injection(T, T \ {n})
      BY <1>2, <1>4 DEF Injection, IsInjective
  <1>6. IsFiniteSet(T \ {n}) /\ Cardinality(T \ {n}) = Cardinality(T) - 1 /\ Cardinality(T) \in Nat
      BY <1>1, <1>3, FS_RemoveElement, FS_CardinalityType
  <1>7. Cardinality(T) <= Cardinality(T \ {n})
      BY <1>5, <1>6, FS_Injection
  <1> QED  BY <1>6, <1>7

\* The times that are out of the window come first.
LEMMA OldOnesFirst ==
    ASSUME NEW times, NEW t \in Nat, Times(times, t)
    PROVE  \E n \in 0 .. Len(times) :
              \A i \in 1 .. Len(times) : times[i] + Window >= t <=> i > n
  <1> DEFINE Q == {m \in Nat : m <= Len(times) =>
                     \E n \in 0 .. m : \A i \in 1 .. m : times[i] + Window >= t <=> i > n}
  <1>1. Len(times) \in Nat /\ \A i \in 1 .. Len(times) : times[i] \in Nat
      BY TokenFacts DEF Times
  <1>2. 0 \in Q
      OBVIOUS
  <1>3. ASSUME NEW m \in Nat, m \in Q
        PROVE  m + 1 \in Q
    <2> SUFFICES ASSUME m + 1 <= Len(times)
                 PROVE  \E n \in 0 .. m + 1 : \A i \in 1 .. m + 1 :
                            times[i] + Window >= t <=> i > n
        BY <1>3
    <2>1. PICK n \in 0 .. m : \A i \in 1 .. m : times[i] + Window >= t <=> i > n
        BY <1>1, <1>3
    <2>2. m + 1 \in 1 .. Len(times)
        BY <1>1
    <2>3. CASE times[m + 1] + Window >= t
      <3>1. n \in 0 .. m + 1 /\ m + 1 > n
          BY <2>1
      <3>2. \A i \in 1 .. m + 1 : i \in 1 .. m \/ i = m + 1
          OBVIOUS
      <3>3. \A i \in 1 .. m + 1 : times[i] + Window >= t <=> i > n
          BY <2>1, <2>3, <3>1, <3>2
      <3> QED  BY <3>1, <3>3
    <2>4. CASE ~(times[m + 1] + Window >= t)
      <3>1. \A i \in 1 .. m + 1 : times[i] <= times[m + 1] /\ times[i] \in Nat
          BY <1>1, <2>2 DEF Times
      <3>2. \A i \in 1 .. m + 1 : ~(times[i] + Window >= t)
          BY <2>2, <2>4, <3>1, <1>1, TokenFacts
      <3> QED  BY <3>2
    <2> QED  BY <2>3, <2>4
  <1> HIDE DEF Q
  <1>4. Len(times) \in Q
    <2>1. \A m \in Nat : m \in Q => m + 1 \in Q
        BY <1>3
    <2>2. \A m \in Nat : m \in Q
        BY <1>2, <2>1, Induction
    <2> QED  BY <1>1, <2>2
  <1> QED  BY <1>1, <1>4 DEF Q

\* What a list is pruned to.
LEMMA RecentTimes ==
    ASSUME NEW times, clock \in Nat, Times(times, clock)
    PROVE  /\ Times(X!Recent(times), clock)
           /\ \E n \in 0 .. Len(times) :
                 /\ \A i \in 1 .. Len(times) : times[i] + Window >= clock <=> i > n
                 /\ Len(X!Recent(times)) = Len(times) - n
                 /\ \A i \in 1 .. Len(times) - n : X!Recent(times)[i] = times[i + n]
  <1> DEFINE n == X!TooOld(times)
             r == X!Recent(times)
  <1>1. times \in Seq(0 .. TokenHorizon) /\ Len(times) \in Nat /\ DOMAIN times = 1 .. Len(times)
      BY DEF Times
  <1>2. n \in 0 .. Len(times) /\ \A i \in DOMAIN times : times[i] + Window >= clock <=> i > n
    <2>1. \E k \in 0 .. Len(times) : \A i \in DOMAIN times : times[i] + Window >= clock <=> i > k
        BY <1>1, OldOnesFirst
    <2> QED  BY <2>1 DEF X!TooOld, X!InWindow
  <1>3. r = SubSeq(times, n + 1, Len(times))
      BY DEF X!Recent
  <1> HIDE DEF n, r
  <1>4. r \in Seq(0 .. TokenHorizon) /\ Len(r) = Len(times) - n
        /\ \A i \in 1 .. Len(times) - n : r[i] = times[i + n]
    <2>1. n + 1 \in Int /\ Len(times) \in Int
        BY <1>1, <1>2
    <2>2. \A i \in n + 1 .. Len(times) : times[i] \in 0 .. TokenHorizon
      <3>1. \A i \in n + 1 .. Len(times) : i \in 1 .. Len(times)
          BY <1>1, <1>2
      <3>2. \A i \in 1 .. Len(times) : times[i] \in 0 .. TokenHorizon
          BY <1>1, ElementOfSeq
      <3> QED  BY <3>1, <3>2
    <2>4. /\ r \in Seq(0 .. TokenHorizon)
          /\ Len(r) = IF n + 1 <= Len(times) THEN Len(times) - (n + 1) + 1 ELSE 0
        BY <1>3, <2>1, <2>2, SubSeqProperties
    <2>5. Len(r) = Len(times) - n
      <3>1. n \in Nat /\ n <= Len(times) /\ Len(times) \in Nat
          BY <1>1, <1>2
      <3>2. Len(r) = IF n + 1 <= Len(times) THEN Len(times) - (n + 1) + 1 ELSE 0
          BY <2>4
      <3> QED  BY <3>1, <3>2
    <2>3. ASSUME NEW i \in 1 .. Len(times) - n
          PROVE  r[i] = times[i + n]
      <3>1. r[i] = times[n + 1 + i - 1] /\ n + 1 + i - 1 = i + n
          BY <1>1, <1>2, <1>3
      <3> QED  BY <3>1
    <2> QED  BY <2>3, <2>4, <2>5
  <1>5. Times(r, clock)
    <2>1. \A i \in 1 .. Len(r) : i + n \in 1 .. Len(times) /\ r[i] = times[i + n]
        BY <1>1, <1>2, <1>4
    <2>2. \A i \in 1 .. Len(r) : r[i] <= clock
        BY <2>1 DEF Times
    <2>3. \A i, j \in 1 .. Len(r) : i <= j => i + n <= j + n
        BY <1>1, <1>2, <1>4
    <2>4. \A i, j \in 1 .. Len(r) : i <= j => r[i] <= r[j]
        BY <2>1, <2>3 DEF Times
    <2> QED  BY <1>4, <2>2, <2>4 DEF Times
  <1> QED  BY <1>1, <1>2, <1>4, <1>5 DEF r

\* Pruning keeps a bucket in order, whether or not what passed is pruned.
LEMMA BucketPruned ==
    ASSUME clock \in Nat, NEW a, NEW p, Bucket(a, p, clock)
    PROVE  Bucket(X!Recent(a), X!Recent(p), clock) /\ Bucket(X!Recent(a), p, clock)
  <1> DEFINE ra == X!Recent(a)
             rp == X!Recent(p)
  <1>1. Times(a, clock) /\ Times(p, clock) /\ Len(a) <= MaxAttempts /\ Covers(a, p, clock)
      BY DEF Bucket
  <1>2. PICK n \in 0 .. Len(a) :
              /\ \A i \in 1 .. Len(a) : a[i] + Window >= clock <=> i > n
              /\ Len(ra) = Len(a) - n
              /\ \A i \in 1 .. Len(a) - n : ra[i] = a[i + n]
      BY <1>1, RecentTimes
  <1>3. PICK m \in 0 .. Len(p) :
              /\ \A i \in 1 .. Len(p) : p[i] + Window >= clock <=> i > m
              /\ Len(rp) = Len(p) - m
              /\ \A i \in 1 .. Len(p) - m : rp[i] = p[i + m]
      BY <1>1, RecentTimes
  <1>4. Times(ra, clock) /\ Times(rp, clock)
      BY <1>1, RecentTimes
  <1>5. /\ Len(a) \in Nat /\ Len(p) \in Nat
        /\ \A i \in 1 .. Len(a) : a[i] \in Nat
        /\ \A i \in 1 .. Len(p) : p[i] \in Nat
      BY <1>1, TokenFacts DEF Times
  <1> HIDE DEF ra, rp
  <1>6. Len(ra) <= MaxAttempts
      BY <1>1, <1>2, <1>5, TokenFacts
  <1>7. ASSUME NEW i \in 1 .. Len(p), p[i] + Window >= clock
        PROVE  /\ Len(p) - i < Len(ra)
               /\ p[i] <= ra[Len(ra) - (Len(p) - i)]
    <2> DEFINE k == Len(a) - (Len(p) - i)
    <2>1. Len(p) - i < Len(a) /\ p[i] <= a[k]
        BY <1>1, <1>7 DEF Covers
    <2>2. k \in 1 .. Len(a)
        BY <1>5, <2>1
    <2>3. a[k] + Window >= clock
      <3>1. a[k] \in Nat /\ p[i] \in Nat
          BY <1>5, <2>2
      <3> HIDE DEF k
      <3> QED  BY <1>7, <2>1, <3>1, TokenFacts
    <2>4. k > n
        BY <1>2, <2>2, <2>3
    <2>5. k - n \in 1 .. Len(a) - n /\ k - n = Len(ra) - (Len(p) - i) /\ k - n + n = k
        BY <1>2, <1>5, <2>2, <2>4
    <2>6. ra[k - n] = a[k]
        BY <1>2, <2>5
    <2> QED  BY <2>1, <2>5, <2>6, <1>2, <1>5
  <1>8. Covers(ra, p, clock)
      BY <1>7 DEF Covers
  <1>9. Covers(ra, rp, clock)
    <2> SUFFICES ASSUME NEW i \in 1 .. Len(rp)
                 PROVE  /\ Len(rp) - i < Len(ra)
                        /\ rp[i] <= ra[Len(ra) - (Len(rp) - i)]
        BY DEF Covers
    <2>1. i + m \in 1 .. Len(p) /\ i + m > m /\ Len(p) - (i + m) = Len(rp) - i
        BY <1>3, <1>5
    <2>2. rp[i] = p[i + m] /\ p[i + m] + Window >= clock
        BY <1>3, <1>5, <2>1
    <2> QED  BY <1>7, <2>1, <2>2
  <1> QED  BY <1>1, <1>4, <1>6, <1>8, <1>9 DEF Bucket, ra, rp

\* The address or the token is charged, and perhaps the request passes.
LEMMA BucketCharged ==
    ASSUME NEW t \in 0 .. TokenHorizon, NEW a, NEW p, Bucket(a, p, t), Len(a) < MaxAttempts
    PROVE  Bucket(Append(a, t), p \o <<t>>, t) /\ Bucket(Append(a, t), p, t)
  <1> DEFINE na == Append(a, t)
             np == p \o <<t>>
  <1>1. Times(a, t) /\ Times(p, t) /\ Covers(a, p, t)
      BY DEF Bucket
  <1>2. /\ Len(a) \in Nat /\ Len(p) \in Nat /\ t \in Nat
        /\ \A i \in 1 .. Len(a) : a[i] \in Nat
        /\ \A i \in 1 .. Len(p) : p[i] \in Nat
        /\ a \in Seq(0 .. TokenHorizon) /\ p \in Seq(0 .. TokenHorizon)
      BY <1>1, TokenFacts DEF Times
  <1>3. /\ na \in Seq(0 .. TokenHorizon) /\ Len(na) = Len(a) + 1 /\ na[Len(a) + 1] = t
        /\ \A i \in 1 .. Len(a) : na[i] = a[i]
      BY <1>2
  <1>4. /\ np \in Seq(0 .. TokenHorizon) /\ Len(np) = Len(p) + 1 /\ np[Len(p) + 1] = t
        /\ \A i \in 1 .. Len(p) : np[i] = p[i]
      BY <1>2
  <1> HIDE DEF na, np
  <1>5. ASSUME NEW s, NEW x, Times(s, t), x \in Seq(0 .. TokenHorizon), Len(x) = Len(s) + 1,
               x[Len(s) + 1] = t, \A i \in 1 .. Len(s) : x[i] = s[i]
        PROVE  Times(x, t)
    <2>1. Len(s) \in Nat
        BY <1>5 DEF Times
    <2>2. \A i \in 1 .. Len(x) : i \in 1 .. Len(s) \/ i = Len(s) + 1
        BY <1>5, <2>1
    <2>3. \A i \in 1 .. Len(x) : x[i] <= t
        BY <1>2, <1>5, <2>2 DEF Times
    <2>4. ASSUME NEW i \in 1 .. Len(x), NEW j \in 1 .. Len(x), i <= j
          PROVE  x[i] <= x[j]
      <3>1. CASE j = Len(s) + 1
          BY <1>5, <2>3, <3>1
      <3>2. CASE j # Len(s) + 1
        <4>1. i \in 1 .. Len(s) /\ j \in 1 .. Len(s)
            BY <2>1, <2>2, <2>4, <3>2
        <4> QED  BY <1>5, <2>4, <4>1 DEF Times
      <3> QED  BY <3>1, <3>2
    <2> QED  BY <1>5, <2>3, <2>4 DEF Times
  <1>6. Times(na, t) /\ Times(np, t)
      BY <1>1, <1>3, <1>4, <1>5
  <1>7. Len(na) <= MaxAttempts
      BY <1>2, <1>3, TokenFacts
  <1>8. Covers(na, np, t)
    <2> SUFFICES ASSUME NEW i \in 1 .. Len(np), np[i] + Window >= t
                 PROVE  /\ Len(np) - i < Len(na)
                        /\ np[i] <= na[Len(na) - (Len(np) - i)]
        BY DEF Covers
    <2>1. CASE i = Len(p) + 1
      <3>1. Len(np) - i = 0 /\ Len(na) - 0 = Len(a) + 1
          BY <1>2, <1>3, <1>4, <2>1
      <3> QED  BY <1>2, <1>3, <1>4, <2>1, <3>1
    <2>2. CASE i # Len(p) + 1
      <3>1. i \in 1 .. Len(p) /\ np[i] = p[i]
          BY <1>2, <1>4, <2>2
      <3>2. Len(p) - i < Len(a) /\ p[i] <= a[Len(a) - (Len(p) - i)]
          BY <1>1, <3>1 DEF Covers
      <3>3. /\ Len(a) - (Len(p) - i) \in 1 .. Len(a)
            /\ Len(na) - (Len(np) - i) = Len(a) - (Len(p) - i)
            /\ Len(np) - i < Len(na)
          BY <1>2, <1>3, <1>4, <3>1, <3>2
      <3>4. na[Len(a) - (Len(p) - i)] = a[Len(a) - (Len(p) - i)]
          BY <1>3, <3>3
      <3> QED  BY <3>1, <3>2, <3>3, <3>4
    <2> QED  BY <2>1, <2>2
  <1>9. Covers(na, p, t)
    <2> SUFFICES ASSUME NEW i \in 1 .. Len(p), p[i] + Window >= t
                 PROVE  /\ Len(p) - i < Len(na)
                        /\ p[i] <= na[Len(na) - (Len(p) - i)]
        BY DEF Covers
    <2> DEFINE k == Len(a) - (Len(p) - i)
    <2>1. Len(p) - i < Len(a) /\ p[i] <= a[k] /\ p[i] <= t
        BY <1>1 DEF Covers, Times
    <2>2. k \in 1 .. Len(a) /\ k + 1 \in 1 .. Len(a) + 1 /\ k + 1 = Len(na) - (Len(p) - i)
          /\ Len(p) - i < Len(na)
        BY <1>2, <1>3, <2>1
    <2>3. p[i] <= na[k + 1]
      <3>1. CASE k = Len(a)
          BY <1>3, <2>1, <3>1
      <3>2. CASE k # Len(a)
        <4>1. k + 1 \in 1 .. Len(a) /\ k <= k + 1
          <5>1. k \in Nat /\ k >= 1 /\ k <= Len(a)
              BY <1>2, <2>2
          <5> HIDE DEF k
          <5> QED  BY <1>2, <3>2, <5>1
        <4>2. a[k] <= a[k + 1] /\ na[k + 1] = a[k + 1]
            BY <1>1, <1>3, <2>2, <4>1 DEF Times
        <4>3. a[k] \in Nat /\ a[k + 1] \in Nat /\ p[i] \in Nat
            BY <1>2, <2>2, <4>1
        <4> HIDE DEF k
        <4> QED  BY <2>1, <4>2, <4>3
      <3> QED  BY <3>1, <3>2
    <2> QED  BY <2>2, <2>3
  <1> QED  BY <1>1, <1>6, <1>7, <1>8, <1>9 DEF Bucket, na, np

LEMMA BucketEmpty ==
    ASSUME NEW t \in Nat
    PROVE  Bucket(<<>>, <<>>, t)
  BY TokenFacts DEF Bucket, Times, Covers

\* Time goes by: there is less to cover.
LEMMA BucketLater ==
    ASSUME NEW t \in Nat, NEW a, NEW p, Bucket(a, p, t)
    PROVE  Bucket(a, p, t + 1)
  <1>1. /\ \A i \in 1 .. Len(a) : a[i] \in Nat
        /\ \A i \in 1 .. Len(p) : p[i] \in Nat
      BY TokenFacts DEF Bucket, Times
  <1>2. Times(a, t + 1) /\ Times(p, t + 1)
      BY <1>1 DEF Bucket, Times
  <1>3. Covers(a, p, t + 1)
    <2>1. \A i \in 1 .. Len(p) : p[i] + Window >= t + 1 => p[i] + Window >= t
        BY <1>1, TokenFacts
    <2> QED  BY <2>1 DEF Bucket, Covers
  <1> QED  BY <1>2, <1>3 DEF Bucket

KeysNoted ==
    /\ lastPublished[published] = clock
    /\ \A k \in SigningKeys : lastPublished[k] # Never => lastPublished[k] <= clock
    /\ jwks.key # NoKey =>
          /\ jwks.at # Never /\ lastPublished[jwks.key] # Never
          /\ jwks.at <= lastPublished[jwks.key]

BucketsHold == \A b \in X!Buckets : Bucket(X!Of(attempts, b), passed[b], clock)

TokenInv == X!TypeOK /\ BucketsHold /\ KeysNoted /\ X!KeysAreRecent

\* What the operators on tables leave under a bucket.
LEMMA TableFacts ==
    ASSUME NEW table, NEW b, NEW c
    PROVE  /\ X!Of(X!Charged(table, b), c) =
                  IF c = b /\ ~X!Full(table, b) THEN Append(X!Of(table, b), clock)
                  ELSE X!Of(table, c)
           /\ DOMAIN X!Charged(table, b) = DOMAIN table \cup {b}
           /\ \A out : X!Of(X!Without(table, out), c) = IF c \in out THEN <<>> ELSE X!Of(table, c)
           /\ \A out : DOMAIN X!Without(table, out) = DOMAIN table \ out
  <1>1. /\ \A times : X!Of(X!With(table, b, times), c) = IF c = b THEN times ELSE X!Of(table, c)
        /\ \A times : DOMAIN X!With(table, b, times) = DOMAIN table \cup {b}
      BY DEF X!Of, X!With
  <1>2. X!Of(X!Charged(table, b), c) =
            IF c = b THEN IF X!Full(table, b) THEN X!Of(table, b) ELSE Append(X!Of(table, b), clock)
            ELSE X!Of(table, c)
      BY <1>1 DEF X!Charged
  <1>3. DOMAIN X!Charged(table, b) = DOMAIN table \cup {b}
      BY <1>1 DEF X!Charged
  <1>4. \A out : X!Of(X!Without(table, out), c) = IF c \in out THEN <<>> ELSE X!Of(table, c)
      BY DEF X!Of, X!Without
  <1>5. \A out : DOMAIN X!Without(table, out) = DOMAIN table \ out
      BY DEF X!Without
  <1> QED  BY <1>2, <1>3, <1>4, <1>5

LEMMA ChargedDomain ==
    ASSUME NEW table, NEW b PROVE DOMAIN X!Charged(table, b) = DOMAIN table \cup {b}
    BY TableFacts

LEMMA RecentOfNone ==
    ASSUME clock \in Nat
    PROVE  X!Recent(<<>>) = <<>>
  <1>1. Times(<<>>, clock)
      BY DEF Times
  <1>2. X!Recent(<<>>) \in Seq(0 .. TokenHorizon) /\ Len(X!Recent(<<>>)) = 0
    <2>1. \E n \in 0 .. Len(<<>>) : Len(X!Recent(<<>>)) = Len(<<>>) - n
        BY <1>1, RecentTimes
    <2>2. Len(<<>>) = 0
        OBVIOUS
    <2>3. Len(X!Recent(<<>>)) = 0
        BY <2>1, <2>2
    <2> QED  BY <1>1, <2>3, RecentTimes DEF Times
  <1> QED  BY <1>2, EmptySeq

LEMMA PrunedTable ==
    ASSUME clock \in Nat
    PROVE  /\ DOMAIN X!Pruned \subseteq DOMAIN attempts
           /\ \A b : X!Of(X!Pruned, b) = X!Recent(X!Of(attempts, b))
  BY RecentOfNone DEF X!Pruned, X!Of

\* A charge keeps every bucket in order; one that is not full may pass.
LEMMA ChargedHolds ==
    ASSUME clock \in 0 .. TokenHorizon, NEW table, NEW b \in X!Buckets, NEW p,
           \A c \in X!Buckets : Bucket(X!Of(table, c), p[c], clock)
    PROVE  /\ \A c \in X!Buckets : Bucket(X!Of(X!Charged(table, b), c), p[c], clock)
           /\ ~X!Full(table, b) =>
                 Bucket(X!Of(X!Charged(table, b), b), p[b] \o <<clock>>, clock)
  <1>1. ~X!Full(table, b) => Len(X!Of(table, b)) < MaxAttempts
    <2>1. Len(X!Of(table, b)) \in Nat
        BY DEF Bucket, Times
    <2> QED  BY <2>1, TokenFacts DEF X!Full
  <1>2. ~X!Full(table, b) => /\ Bucket(Append(X!Of(table, b), clock), p[b], clock)
                             /\ Bucket(Append(X!Of(table, b), clock), p[b] \o <<clock>>, clock)
      BY <1>1, BucketCharged
  <1> QED  BY <1>2, TableFacts

\* What every step that counts does to the buckets.
LEMMA CheckedHolds ==
    ASSUME TokenInv, NEW a \in Addresses, NEW t \in Tokens
    PROVE  /\ \A b \in X!Buckets : Bucket(X!Of(X!AfterCheck(a, t), b), passed[b], clock)
           /\ DOMAIN X!AfterCheck(a, t) \subseteq X!Buckets
           /\ X!Passes(a, t) =>
                \A b \in X!Buckets :
                   Bucket(X!Of(X!AfterCheck(a, t), b),
                          IF b \in {<<"ip", a>>, <<"subject", t>>}
                          THEN X!Recent(passed[b]) \o <<clock>> ELSE X!Recent(passed[b]),
                          clock)
  <1> DEFINE ip == <<"ip", a>>
             subject == <<"subject", t>>
             recent == [b \in X!Buckets |-> X!Recent(passed[b])]
             more == [b \in X!Buckets |-> IF b = ip THEN recent[b] \o <<clock>> ELSE recent[b]]
  <1>1. clock \in 0 .. TokenHorizon /\ clock \in Nat /\ DOMAIN attempts \subseteq X!Buckets
      BY TokenFacts DEF TokenInv, X!TypeOK
  <1>2. ip \in X!Buckets /\ subject \in X!Buckets /\ ip # subject
      BY DEF X!Buckets
  <1>3. \A b \in X!Buckets : /\ Bucket(X!Of(X!Pruned, b), passed[b], clock)
                             /\ Bucket(X!Of(X!Pruned, b), recent[b], clock)
    <2> SUFFICES ASSUME NEW b \in X!Buckets
                 PROVE  /\ Bucket(X!Of(X!Pruned, b), passed[b], clock)
                        /\ Bucket(X!Of(X!Pruned, b), X!Recent(passed[b]), clock)
        OBVIOUS
    <2>1. Bucket(X!Of(attempts, b), passed[b], clock)
        BY DEF TokenInv, BucketsHold
    <2>2. X!Of(X!Pruned, b) = X!Recent(X!Of(attempts, b))
        BY <1>1, PrunedTable
    <2> QED  BY <1>1, <2>1, <2>2, BucketPruned
  <1>4. \A b \in X!Buckets : recent[b] = X!Recent(passed[b])
      OBVIOUS
  <1>5. /\ more[ip] = recent[ip] \o <<clock>>
        /\ \A b \in X!Buckets : b # ip => more[b] = recent[b]
      BY <1>2
  <1> HIDE DEF ip, subject, recent, more
  <1>6. DOMAIN X!Pruned \subseteq X!Buckets
      BY <1>1, PrunedTable
  <1>7. X!AfterAddress(a) = X!Charged(X!Pruned, ip)
      BY DEF X!AfterAddress, ip
  <1>8. X!AfterCheck(a, t) = IF X!Full(X!Pruned, ip) THEN X!AfterAddress(a)
                             ELSE X!Charged(X!AfterAddress(a), subject)
      BY DEF X!AfterCheck, ip, subject
  <1>9. /\ \A b \in X!Buckets : Bucket(X!Of(X!AfterAddress(a), b), passed[b], clock)
        /\ \A b \in X!Buckets : Bucket(X!Of(X!AfterAddress(a), b), recent[b], clock)
        /\ ~X!Full(X!Pruned, ip) =>
              Bucket(X!Of(X!AfterAddress(a), ip), recent[ip] \o <<clock>>, clock)
        /\ DOMAIN X!AfterAddress(a) \subseteq X!Buckets
    <2> DEFINE after == X!Charged(X!Pruned, ip)
    <2>1. \A b \in X!Buckets : Bucket(X!Of(after, b), passed[b], clock)
        BY <1>1, <1>2, <1>3, ChargedHolds
    <2>2. /\ \A b \in X!Buckets : Bucket(X!Of(after, b), recent[b], clock)
          /\ ~X!Full(X!Pruned, ip) =>
                Bucket(X!Of(after, ip), recent[ip] \o <<clock>>, clock)
      <3>1. \A b \in X!Buckets : Bucket(X!Of(X!Pruned, b), recent[b], clock)
          BY <1>3
      <3> QED  BY <1>1, <1>2, <3>1, ChargedHolds
    <2>3. DOMAIN after \subseteq X!Buckets
      <3>1. DOMAIN after = DOMAIN X!Pruned \cup {ip}
          BY ChargedDomain
      <3> QED  BY <1>2, <1>6, <3>1
    <2> HIDE DEF after
    <2>4. X!AfterAddress(a) = after
        BY <1>7 DEF after
    <2> QED  BY <2>1, <2>2, <2>3, <2>4
  <1>10. \A b \in X!Buckets : Bucket(X!Of(X!AfterCheck(a, t), b), passed[b], clock)
      BY <1>1, <1>2, <1>8, <1>9, ChargedHolds
  <1>11. DOMAIN X!AfterCheck(a, t) \subseteq X!Buckets
    <2>1. DOMAIN X!Charged(X!AfterAddress(a), subject) = DOMAIN X!AfterAddress(a) \cup {subject}
        BY ChargedDomain
    <2>2. CASE X!Full(X!Pruned, ip)
        BY <1>8, <1>9, <2>2
    <2>3. CASE ~X!Full(X!Pruned, ip)
        BY <1>2, <1>8, <1>9, <2>1, <2>3
    <2> QED  BY <2>2, <2>3
  <1>12. ASSUME X!Passes(a, t), NEW b \in X!Buckets
         PROVE  Bucket(X!Of(X!AfterCheck(a, t), b),
                       IF b \in {ip, subject} THEN X!Recent(passed[b]) \o <<clock>>
                       ELSE X!Recent(passed[b]), clock)
    <2>1. ~X!Full(X!Pruned, ip) /\ ~X!Full(X!AfterAddress(a), subject)
        BY <1>12 DEF X!Passes, ip, subject
    <2>2. X!AfterCheck(a, t) = X!Charged(X!AfterAddress(a), subject)
        BY <1>8, <2>1
    <2>3. \A c \in X!Buckets : Bucket(X!Of(X!AfterAddress(a), c), more[c], clock)
        BY <1>5, <1>9, <2>1
    <2>4. /\ \A c \in X!Buckets : Bucket(X!Of(X!AfterCheck(a, t), c), more[c], clock)
          /\ Bucket(X!Of(X!AfterCheck(a, t), subject), more[subject] \o <<clock>>, clock)
        BY <1>1, <1>2, <2>1, <2>2, <2>3, ChargedHolds
    <2>5. CASE b = subject
        BY <1>2, <1>4, <1>5, <2>4, <2>5
    <2>6. CASE b = ip
        BY <1>2, <1>4, <1>5, <2>4, <2>6
    <2>7. CASE b # ip /\ b # subject
        BY <1>4, <1>5, <2>4, <2>7
    <2> QED  BY <2>5, <2>6, <2>7
  <1> QED  BY <1>10, <1>11, <1>12 DEF ip, subject

\* The part of the invariant that types the tables follows from the buckets.
LEMMA TablesTyped ==
    ASSUME BucketsHold', DOMAIN attempts' \subseteq X!Buckets,
           passed' = [b \in X!Buckets |-> passed'[b]]
    PROVE  /\ \A b \in DOMAIN attempts' : attempts'[b] \in Seq(0 .. TokenHorizon)
           /\ passed' \in [X!Buckets -> Seq(0 .. TokenHorizon)]
  <1>1. \A b \in X!Buckets : /\ X!Of(attempts', b) \in Seq(0 .. TokenHorizon)
                             /\ passed'[b] \in Seq(0 .. TokenHorizon)
      BY DEF BucketsHold, Bucket, Times, X!Of, X!Buckets
  <1>2. \A b \in DOMAIN attempts' : X!Of(attempts', b) = attempts'[b]
      BY DEF X!Of
  <1> QED  BY <1>1, <1>2

\* A step after which nothing is known of a key that was not known before.
LEMMA KeysStand ==
    ASSUME TokenInv, UNCHANGED <<clock, published, lastPublished>>,
           jwks' = jwks \/ jwks' = [key |-> NoKey, at |-> Never]
    PROVE  KeysNoted'
  BY DEF TokenInv, KeysNoted

LEMMA NothingIssued ==
    ASSUME issued' = X!NoneIssued
    PROVE  X!KeysAreRecent'
  BY DEF X!KeysAreRecent, X!NoneIssued

\* The key that a token is validated with, and the word it gives.
LEMMA DecidedHolds ==
    ASSUME TokenInv, NEW t \in Tokens, NEW outcome \in X!Outcomes(t),
           jwks' = outcome.jwks, issued' = outcome.issued,
           UNCHANGED <<clock, published, lastPublished>>
    PROVE  /\ jwks' \in [key : SigningKeys \cup {NoKey}, at : (0 .. TokenHorizon) \cup {Never}]
           /\ issued' \in {X!NoneIssued} \cup
                  [signer : SigningKeys \cup {Secret}, at : 0 .. TokenHorizon,
                   keyLast : (0 .. TokenHorizon) \cup {Never}]
           /\ KeysNoted' /\ X!KeysAreRecent'
  <1>1. PICK grant \in BOOLEAN, fetched \in BOOLEAN, resource \in Resources, scope \in X!Scopes :
            outcome = X!Decided(t, grant, fetched, resource, scope)
      BY DEF X!Outcomes
  <1>2. /\ clock \in 0 .. TokenHorizon /\ clock \in Nat /\ published \in SigningKeys
        /\ jwks \in [key : SigningKeys \cup {NoKey}, at : (0 .. TokenHorizon) \cup {Never}]
        /\ lastPublished \in [SigningKeys -> (0 .. TokenHorizon) \cup {Never}]
      BY TokenFacts DEF TokenInv, X!TypeOK
  <1>3. \/ jwks' = jwks
        \/ jwks' = [key |-> published, at |-> clock]
      BY <1>1 DEF X!Decided
  <1>4. jwks' \in [key : SigningKeys \cup {NoKey}, at : (0 .. TokenHorizon) \cup {Never}]
      BY <1>2, <1>3
  <1>5. KeysNoted'
    <2>1. CASE jwks' = jwks
        BY <2>1, KeysStand
    <2>2. CASE jwks' = [key |-> published, at |-> clock]
      <3>1. jwks'.key = published /\ jwks'.at = clock /\ clock # Never
          BY <1>2, <2>2, TokenFacts
      <3>2. lastPublished[published] = clock
          BY DEF TokenInv, KeysNoted
      <3> QED  BY <1>2, <3>1, <3>2 DEF TokenInv, KeysNoted
    <2> QED  BY <1>3, <2>1, <2>2
  <1>6. CASE issued' = X!NoneIssued
      BY <1>4, <1>5, <1>6, NothingIssued
  <1>7. CASE issued' # X!NoneIssued
    <2> DEFINE word == [signer |-> Signer[t], at |-> clock, keyLast |-> X!LastPublished(Signer[t])]
    <2>1. issued' = word /\ X!Granted(t, fetched, resource, scope)
        BY <1>1, <1>7 DEF X!Decided
    <2>2. \/ Signer[t] = Secret
          \/ Signer[t] = X!KeyUsed(fetched) /\ Signer[t] \in SigningKeys
        BY <2>1 DEF X!Granted, X!ValidSubject
    <2>3. X!LastPublished(Signer[t]) \in (0 .. TokenHorizon) \cup {Never}
        BY <1>2 DEF X!LastPublished
    <2>4. word \in [signer : SigningKeys \cup {Secret}, at : 0 .. TokenHorizon,
                    keyLast : (0 .. TokenHorizon) \cup {Never}]
        BY <1>2, <2>2, <2>3
    <2>5. ASSUME Pinned = NoKey, Signer[t] # Secret
          PROVE  /\ X!LastPublished(Signer[t]) # Never
                 /\ clock - X!LastPublished(Signer[t]) < JwksTTL
      <3>1. Signer[t] \in SigningKeys /\ X!LastPublished(Signer[t]) = lastPublished[Signer[t]]
          BY <2>2, <2>5 DEF X!LastPublished
      <3>2. CASE X!HasKey
        <4>1. Signer[t] = jwks.key /\ jwks.key # NoKey /\ clock - jwks.at < JwksTTL
            BY <2>2, <2>5, <3>2 DEF X!KeyUsed, X!HasKey
        <4>2. /\ jwks.at # Never /\ lastPublished[jwks.key] # Never
              /\ jwks.at <= lastPublished[jwks.key]
            BY <4>1 DEF TokenInv, KeysNoted
        <4>3. jwks.at \in Nat /\ lastPublished[jwks.key] \in Nat
            BY <1>2, <2>2, <4>1, <4>2
        <4> QED  BY <1>2, <3>1, <4>1, <4>2, <4>3, TokenFacts
      <3>3. CASE ~X!HasKey
        <4>1. Signer[t] = published
            BY <2>2, <2>5, <3>3, TokenFacts DEF X!KeyUsed
        <4>2. lastPublished[published] = clock
            BY DEF TokenInv, KeysNoted
        <4> QED  BY <1>2, <3>1, <4>1, <4>2, TokenFacts
      <3> QED  BY <3>2, <3>3
    <2>6. /\ word.signer = Signer[t] /\ word.at = clock
          /\ word.keyLast = X!LastPublished(Signer[t])
        OBVIOUS
    <2> HIDE DEF word
    <2>7. X!KeysAreRecent'
        BY <2>1, <2>5, <2>6 DEF X!KeysAreRecent
    <2> QED  BY <1>4, <1>5, <2>1, <2>4, <2>7
  <1> QED  BY <1>6, <1>7

LEMMA TokensBegin ==
    ASSUME X!Init
    PROVE  TokenInv
  <1>1. /\ clock = 0 /\ attempts = <<>> /\ jwks = [key |-> NoKey, at |-> Never]
        /\ published \in SigningKeys
        /\ lastPublished = [k \in SigningKeys |-> IF k = published THEN 0 ELSE Never]
        /\ passed = [b \in X!Buckets |-> <<>>] /\ issued = X!NoneIssued
      BY DEF X!Init
  <1>2. 0 \in 0 .. TokenHorizon /\ 0 # Never
      BY TokenFacts
  <1>3. \A b \in X!Buckets : X!Of(attempts, b) = <<>>
      BY <1>1 DEF X!Of
  <1>4. BucketsHold
      BY <1>1, <1>3, BucketEmpty DEF BucketsHold
  <1>5. X!TypeOK
      BY <1>1, <1>2 DEF X!TypeOK
  <1>6. KeysNoted
      BY <1>1, <1>2 DEF KeysNoted
  <1>7. X!KeysAreRecent
      BY <1>1 DEF X!KeysAreRecent
  <1> QED  BY <1>4, <1>5, <1>6, <1>7 DEF TokenInv

LEMMA TokenStepHolds ==
    ASSUME TokenInv, X!Next
    PROVE  TokenInv'
  <1>1. /\ clock \in 0 .. TokenHorizon /\ clock \in Nat /\ published \in SigningKeys
        /\ jwks \in [key : SigningKeys \cup {NoKey}, at : (0 .. TokenHorizon) \cup {Never}]
        /\ lastPublished \in [SigningKeys -> (0 .. TokenHorizon) \cup {Never}]
        /\ passed \in [X!Buckets -> Seq(0 .. TokenHorizon)]
        /\ DOMAIN attempts \subseteq X!Buckets
        /\ BucketsHold /\ KeysNoted
      BY TokenFacts DEF TokenInv, X!TypeOK
  <1>2. ASSUME BucketsHold', KeysNoted', X!KeysAreRecent', DOMAIN attempts' \subseteq X!Buckets,
               clock' \in 0 .. TokenHorizon, published' \in SigningKeys,
               jwks' \in [key : SigningKeys \cup {NoKey}, at : (0 .. TokenHorizon) \cup {Never}],
               lastPublished' \in [SigningKeys -> (0 .. TokenHorizon) \cup {Never}],
               passed' = [b \in X!Buckets |-> passed'[b]],
               issued' \in {X!NoneIssued} \cup
                    [signer : SigningKeys \cup {Secret}, at : 0 .. TokenHorizon,
                     keyLast : (0 .. TokenHorizon) \cup {Never}]
        PROVE  TokenInv'
    <2>1. /\ \A b \in DOMAIN attempts' : attempts'[b] \in Seq(0 .. TokenHorizon)
          /\ passed' \in [X!Buckets -> Seq(0 .. TokenHorizon)]
        BY <1>2, TablesTyped
    <2>2. X!Buckets' = X!Buckets /\ X!NoneIssued' = X!NoneIssued
        BY DEF X!Buckets, X!NoneIssued
    <2>3. X!TypeOK'
        BY <1>2, <2>1, <2>2 DEF X!TypeOK
    <2> QED  BY <1>2, <2>3 DEF TokenInv
  <1>3. \A b : X!Of(attempts, b)' = X!Of(attempts', b)
      BY DEF X!Of
  <1>4. X!Buckets' = X!Buckets
      BY DEF X!Buckets
  <1>5. ASSUME NEW a \in Addresses, NEW t \in Tokens, X!RateLimited(a, t)
        PROVE  TokenInv'
    <2>1. /\ attempts' = X!AfterCheck(a, t) /\ issued' = X!NoneIssued
          /\ UNCHANGED <<clock, jwks, published, lastPublished, passed>>
        BY <1>5 DEF X!RateLimited
    <2>2. BucketsHold' /\ DOMAIN attempts' \subseteq X!Buckets
        BY <1>3, <1>4, <2>1, CheckedHolds DEF BucketsHold
    <2>3. passed' = [b \in X!Buckets |-> passed'[b]]
        BY <1>1, <2>1
    <2> QED  BY <1>1, <1>2, <2>1, <2>2, <2>3, KeysStand, NothingIssued
  <1>6. ASSUME NEW a \in Addresses, NEW t \in Tokens, X!Exchange(a, t)
        PROVE  TokenInv'
    <2> DEFINE own == {<<"ip", a>>, <<"subject", t>>}
               table == X!AfterCheck(a, t)
               new(out, b) == IF b \in out THEN <<>>
                              ELSE X!Recent(passed[b]) \o (IF b \in own THEN <<clock>> ELSE <<>>)
    <2>1. PICK out \in X!Evictions(table, own) :
              /\ attempts' = X!Without(table, out)
              /\ passed' = [b \in X!Buckets |-> new(out, b)]
        BY <1>6 DEF X!Exchange
    <2>2. X!Passes(a, t) /\ UNCHANGED <<clock, published, lastPublished>>
        BY <1>6 DEF X!Exchange
    <2>3. PICK outcome \in X!Outcomes(t) : jwks' = outcome.jwks /\ issued' = outcome.issued
        BY <1>6 DEF X!Exchange
    <2>4. \A b \in X!Buckets :
             Bucket(X!Of(table, b), IF b \in own THEN X!Recent(passed[b]) \o <<clock>>
                                    ELSE X!Recent(passed[b]), clock)
          /\ DOMAIN table \subseteq X!Buckets
        BY <2>2, CheckedHolds
    <2> HIDE DEF own, table
    <2>5. /\ \A b : X!Of(attempts', b) = IF b \in out THEN <<>> ELSE X!Of(table, b)
          /\ DOMAIN attempts' \subseteq DOMAIN table
      <3> DEFINE left == X!Without(table, out)
      <3>1. /\ \A b : X!Of(left, b) = IF b \in out THEN <<>> ELSE X!Of(table, b)
            /\ DOMAIN left = DOMAIN table \ out
          BY TableFacts
      <3>2. attempts' = left
          BY <2>1
      <3> HIDE DEF left
      <3> QED  BY <3>1, <3>2
    <2>6. ASSUME NEW b \in X!Buckets
          PROVE  Bucket(X!Of(attempts', b), passed'[b], clock)
      <3>1. CASE b \in out
          BY <1>1, <2>1, <2>5, <3>1, BucketEmpty
      <3>2. CASE b \notin out /\ b \in own
        <4>1. passed'[b] = X!Recent(passed[b]) \o <<clock>>
            BY <2>1, <3>2
        <4> QED  BY <2>4, <2>5, <3>2, <4>1
      <3>3. CASE b \notin out /\ b \notin own
        <4>1. passed'[b] = X!Recent(passed[b]) \o <<>>
            BY <2>1, <3>3
        <4>2. Bucket(X!Of(table, b), X!Recent(passed[b]), clock)
            BY <2>4, <3>3
        <4>3. X!Recent(passed[b]) \o <<>> = X!Recent(passed[b])
            BY <4>2, ConcatEmptySeq DEF Bucket, Times
        <4> QED  BY <2>5, <3>3, <4>1, <4>2, <4>3
      <3> QED  BY <3>1, <3>2, <3>3
    <2>7. BucketsHold'
        BY <1>3, <1>4, <2>2, <2>6 DEF BucketsHold
    <2>8. DOMAIN attempts' \subseteq X!Buckets
      <3>1. DOMAIN table \subseteq X!Buckets
          BY <2>2, CheckedHolds DEF table
      <3> QED  BY <2>5, <3>1
    <2>9. passed' = [b \in X!Buckets |-> passed'[b]]
        BY <2>1
    <2>10. /\ jwks' \in [key : SigningKeys \cup {NoKey}, at : (0 .. TokenHorizon) \cup {Never}]
           /\ issued' \in {X!NoneIssued} \cup
                  [signer : SigningKeys \cup {Secret}, at : 0 .. TokenHorizon,
                   keyLast : (0 .. TokenHorizon) \cup {Never}]
           /\ KeysNoted' /\ X!KeysAreRecent'
        BY <2>2, <2>3, DecidedHolds
    <2> QED  BY <1>1, <1>2, <2>2, <2>7, <2>8, <2>9, <2>10
  <1>7. ASSUME NEW k \in SigningKeys, X!PortalRotates(k)
        PROVE  TokenInv'
    <2>1. /\ published' = k /\ lastPublished' = [lastPublished EXCEPT ![k] = clock]
          /\ issued' = X!NoneIssued /\ UNCHANGED <<clock, attempts, jwks, passed>>
        BY <1>7 DEF X!PortalRotates
    <2>2. BucketsHold'
        BY <1>1, <1>3, <1>4, <2>1 DEF BucketsHold
    <2>3. lastPublished' \in [SigningKeys -> (0 .. TokenHorizon) \cup {Never}]
        BY <1>1, <2>1
    <2>4. \A key \in SigningKeys : lastPublished'[key] = IF key = k THEN clock
                                                        ELSE lastPublished[key]
        BY <1>1, <2>1
    <2>5. clock # Never
        BY <1>1, TokenFacts
    <2>6. KeysNoted'
      <3>1. lastPublished'[published'] = clock'
          BY <2>1, <2>4
      <3>2. \A key \in SigningKeys : lastPublished'[key] # Never => lastPublished'[key] <= clock'
          BY <1>1, <2>1, <2>4 DEF KeysNoted
      <3>3. jwks'.key # NoKey => /\ jwks'.at # Never /\ lastPublished'[jwks'.key] # Never
                                 /\ jwks'.at <= lastPublished'[jwks'.key]
        <4> SUFFICES ASSUME jwks.key # NoKey
                     PROVE  /\ jwks.at # Never /\ lastPublished'[jwks.key] # Never
                            /\ jwks.at <= lastPublished'[jwks.key]
            BY <2>1
        <4>1. /\ jwks.at # Never /\ lastPublished[jwks.key] # Never
              /\ jwks.at <= lastPublished[jwks.key] /\ jwks.key \in SigningKeys
            BY <1>1 DEF KeysNoted
        <4>2. lastPublished[jwks.key] <= clock
            BY <1>1, <4>1 DEF KeysNoted
        <4>3. jwks.at \in Nat /\ lastPublished[jwks.key] \in Nat
            BY <1>1, <4>1
        <4> QED  BY <1>1, <2>4, <2>5, <4>1, <4>2, <4>3
      <3> QED  BY <3>1, <3>2, <3>3 DEF KeysNoted
    <2>7. passed' = [b \in X!Buckets |-> passed'[b]]
        BY <1>1, <2>1
    <2> QED  BY <1>1, <1>2, <2>1, <2>2, <2>3, <2>6, <2>7, NothingIssued
  <1>8. CASE X!Restart
    <2>1. /\ attempts' = <<>> /\ jwks' = [key |-> NoKey, at |-> Never]
          /\ passed' = [b \in X!Buckets |-> <<>>] /\ issued' = X!NoneIssued
          /\ UNCHANGED <<clock, published, lastPublished>>
        BY <1>8 DEF X!Restart
    <2>2. \A b : X!Of(attempts', b) = <<>>
        BY <2>1 DEF X!Of
    <2>3. BucketsHold'
        BY <1>1, <1>3, <1>4, <2>1, <2>2, BucketEmpty DEF BucketsHold
    <2>4. DOMAIN attempts' \subseteq X!Buckets
        BY <2>1
    <2>5. passed' = [b \in X!Buckets |-> passed'[b]]
        BY <2>1
    <2>6. jwks' \in [key : SigningKeys \cup {NoKey}, at : (0 .. TokenHorizon) \cup {Never}]
        BY <2>1
    <2> QED  BY <1>1, <1>2, <2>1, <2>3, <2>4, <2>5, <2>6, KeysStand, NothingIssued
  <1>9. CASE X!Tick
    <2>1. /\ clock < TokenHorizon /\ clock' = clock + 1 /\ issued' = X!NoneIssued
          /\ lastPublished' = [lastPublished EXCEPT ![published] = clock + 1]
          /\ UNCHANGED <<attempts, jwks, published, passed>>
        BY <1>9 DEF X!Tick
    <2>2. clock' \in 0 .. TokenHorizon /\ clock + 1 \in 0 .. TokenHorizon
          /\ clock + 1 # Never /\ clock + 1 \in Nat
        BY <1>1, <2>1, TokenFacts
    <2>3. \A b \in X!Buckets : Bucket(X!Of(attempts, b), passed[b], clock + 1)
        BY <1>1, BucketLater DEF BucketsHold
    <2>4. BucketsHold'
        BY <1>3, <1>4, <2>1, <2>3 DEF BucketsHold
    <2>5. /\ lastPublished' \in [SigningKeys -> (0 .. TokenHorizon) \cup {Never}]
          /\ \A key \in SigningKeys : lastPublished'[key] = IF key = published THEN clock + 1
                                                           ELSE lastPublished[key]
        BY <1>1, <2>1, <2>2
    <2>6. KeysNoted'
      <3>1. lastPublished'[published'] = clock'
          BY <1>1, <2>1, <2>5
      <3>2. ASSUME NEW key \in SigningKeys, lastPublished'[key] # Never
            PROVE  lastPublished'[key] <= clock + 1
        <4>1. CASE key = published
            BY <2>2, <2>5, <4>1
        <4>2. CASE key # published
          <5>1. lastPublished[key] <= clock /\ lastPublished[key] \in Nat
              BY <1>1, <2>5, <3>2, <4>2 DEF KeysNoted
          <5> QED  BY <1>1, <2>5, <4>2, <5>1
        <4> QED  BY <4>1, <4>2
      <3>3. jwks'.key # NoKey => /\ jwks'.at # Never /\ lastPublished'[jwks'.key] # Never
                                 /\ jwks'.at <= lastPublished'[jwks'.key]
        <4> SUFFICES ASSUME jwks.key # NoKey
                     PROVE  /\ jwks.at # Never /\ lastPublished'[jwks.key] # Never
                            /\ jwks.at <= lastPublished'[jwks.key]
            BY <2>1
        <4>1. /\ jwks.at # Never /\ lastPublished[jwks.key] # Never
              /\ jwks.at <= lastPublished[jwks.key] /\ jwks.key \in SigningKeys
            BY <1>1 DEF KeysNoted
        <4>2. lastPublished[jwks.key] <= clock
            BY <1>1, <4>1 DEF KeysNoted
        <4>3. jwks.at \in Nat /\ lastPublished[jwks.key] \in Nat
            BY <1>1, <4>1
        <4> QED  BY <1>1, <2>2, <2>5, <4>1, <4>2, <4>3
      <3> QED  BY <2>1, <3>1, <3>2, <3>3 DEF KeysNoted
    <2>7. passed' = [b \in X!Buckets |-> passed'[b]]
        BY <1>1, <2>1
    <2> QED  BY <1>1, <1>2, <2>1, <2>2, <2>4, <2>5, <2>6, <2>7, NothingIssued
  <1> QED  BY <1>5, <1>6, <1>7, <1>8, <1>9 DEF X!Next

LEMMA TokenInvHolds == X!Spec => []TokenInv
  <1>1. X!Init => TokenInv
      BY TokensBegin
  <1>2. TokenInv /\ [X!Next]_X!vars => TokenInv'
    <2>1. ASSUME UNCHANGED X!vars, TokenInv
          PROVE  TokenInv'
      <3>1. UNCHANGED <<clock, attempts, jwks, published, lastPublished, passed, issued>>
          BY <2>1 DEF X!vars
      <3>2. X!TypeOK'
          BY <2>1, <3>1 DEF TokenInv, X!TypeOK, X!Buckets, X!NoneIssued
      <3>3. BucketsHold'
          BY <2>1, <3>1 DEF TokenInv, BucketsHold, X!Buckets, X!Of
      <3>4. KeysNoted' /\ X!KeysAreRecent'
          BY <2>1, <3>1 DEF TokenInv, KeysNoted, X!KeysAreRecent, X!NoneIssued
      <3> QED  BY <3>2, <3>3, <3>4 DEF TokenInv
    <2> QED  BY <2>1, TokenStepHolds
  <1> QED  BY <1>1, <1>2, PTL DEF X!Spec

\* Every variable of the exchange keeps its type (POST /token).
THEOREM ExchangeTypes == PlatformSpec => []X!TypeOK
  <1>1. TokenInv => X!TypeOK
      BY DEF TokenInv
  <1> QED  BY <1>1, TokenInvHolds, PTL DEF PlatformSpec

\* The instance counts as this module does.
LEMMA SameCount == \A K : X!Cardinality(K) = Cardinality(K)
  BY DEF X!Cardinality, Cardinality

\* No address and no session token gets more than its share past the limit, and a
\* token rests on a key that was published lately, through restarts, evictions and
\* rotations of the portal's key (_check_token_exchange_rate_limit, token_exchange).
THEOREM ExchangeKeepsToItsLimits == PlatformSpec => []IssuedInOrder
  <1>1. ASSUME TokenInv
        PROVE  IssuedInOrder
    <2>1. clock \in Nat
        BY <1>1, TokenFacts DEF TokenInv, X!TypeOK
    <2>2. ASSUME NEW b \in X!Buckets
          PROVE  Cardinality({i \in DOMAIN passed[b] : X!InWindow(passed[b][i])}) <= MaxAttempts
      <3> DEFINE a == X!Of(attempts, b)
                 p == passed[b]
      <3>1. Bucket(a, p, clock)
          BY <1>1 DEF TokenInv, BucketsHold
      <3> HIDE DEF a, p
      <3>2. PICK n \in 0 .. Len(p) : \A i \in 1 .. Len(p) : p[i] + Window >= clock <=> i > n
          BY <2>1, <3>1, OldOnesFirst DEF Bucket
      <3>3. Len(p) \in Nat /\ Len(a) \in Nat /\ Len(a) <= MaxAttempts /\ DOMAIN p = 1 .. Len(p)
          BY <3>1 DEF Bucket, Times
      <3>4. {i \in DOMAIN p : X!InWindow(p[i])} = n + 1 .. Len(p)
          BY <3>2, <3>3 DEF X!InWindow
      <3>5. n \in Nat /\ n <= Len(p) /\ n + 1 \in Int /\ Len(p) \in Int
          BY <3>2, <3>3
      <3>6. Cardinality(n + 1 .. Len(p)) = IF n + 1 > Len(p) THEN 0 ELSE Len(p) - (n + 1) + 1
          BY <3>5, FS_Interval
      <3>7. n + 1 <= Len(p) => Len(p) - (n + 1) < Len(a)
        <4>1. n + 1 <= Len(p) => n + 1 \in 1 .. Len(p) /\ n + 1 > n
            BY <3>3, <3>5
        <4> QED  BY <3>1, <3>2, <4>1 DEF Bucket, Covers
      <3>8. Cardinality(n + 1 .. Len(p)) <= MaxAttempts
        <4> DEFINE count == Cardinality(n + 1 .. Len(p))
        <4>1. count = IF n + 1 > Len(p) THEN 0 ELSE Len(p) - (n + 1) + 1
            BY <3>6
        <4> HIDE DEF count
        <4>2. count <= MaxAttempts
          <5>1. MaxAttempts \in Nat /\ Len(a) \in Nat /\ Len(a) <= MaxAttempts
              BY <3>3, TokenFacts
          <5>2. n \in Nat /\ Len(p) \in Nat
              BY <3>3, <3>5
          <5> QED  BY <3>7, <4>1, <5>1, <5>2
        <4> QED  BY <4>2 DEF count
      <3> QED  BY <3>4, <3>8 DEF p
    <2>3. X!WindowHolds
        BY <2>2, SameCount DEF X!WindowHolds
    <2> QED  BY <1>1, <2>3 DEF IssuedInOrder, X!IssuedInOrder, TokenInv
  <1> QED  BY <1>1, TokenInvHolds, PTL DEF PlatformSpec

(***************************************************************************)
(* The registry.  What stands under a name of the YAML files that no import  *)
(* has brought is the entry of the files, or an offer with the guards of the  *)
(* files merged into it.                                                     *)
(***************************************************************************)

\* What a registration of an offer leaves under a name.
Merged(m, man) == R!MergeGuards(m, R!WithEndpoint(m, man))

Guarded(m) == manifests[m] = Seed[m] \/ \E man \in Offers : manifests[m] = Merged(m, man)

RegistryInv ==
    /\ manifests = [m \in Mcps |-> manifests[m]]
    /\ imported \subseteq Mcps
    /\ \A m \in R!Seeded \ imported : Guarded(m)

LEMMA SeedFacts ==
    /\ Offers \subseteq R!Manifest
    /\ \A m \in R!Seeded : m \in Mcps /\ Seed[m] \in R!Manifest
  BY PlatformAssumption DEF R!RegistryAssumption, R!Seeded

\* A list that is narrowed never grows, and is empty only if it was.
LEMMA NarrowKeeps ==
    ASSUME NEW seeded, NEW given
    PROVE  /\ R!Narrow(seeded, given) \subseteq seeded
           /\ R!Narrow(seeded, given) = {} => seeded = {}
  BY DEF R!Narrow

\* Whatever policy a registration brings, it admits nobody more.
LEMMA MergeAdmitsNoMore ==
    ASSUME NEW seeded, NEW given, NEW held, NEW shown,
           R!Allows(R!MergeAccess(seeded, given), held, shown)
    PROVE  R!Allows(seeded, held, shown)
  <1>1. CASE ~R!Restricted(seeded)
      BY <1>1 DEF R!Allows
  <1>2. CASE R!Restricted(seeded)
    <2> DEFINE roles == R!Narrow(seeded.roles, given.roles)
               groups == R!Narrow(seeded.groups, given.groups)
    <2>1. /\ R!MergeAccess(seeded, given).roles = roles
          /\ R!MergeAccess(seeded, given).groups = groups
        BY <1>2 DEF R!MergeAccess
    <2>2. /\ roles \subseteq seeded.roles /\ (roles = {} => seeded.roles = {})
          /\ groups \subseteq seeded.groups /\ (groups = {} => seeded.groups = {})
        BY NarrowKeeps
    <2> HIDE DEF roles, groups
    <2>3. roles # {} \/ groups # {}
        BY <1>2, <2>2 DEF R!Restricted
    <2>4. shown \cap groups # {} \/ held \cap roles # {}
        BY <2>1, <2>3 DEF R!Allows, R!Restricted
    <2> QED  BY <2>2, <2>4 DEF R!Allows
  <1> QED  BY <1>1, <1>2

\* The fields of a manifest with the guards of the files.
LEMMA MergedFields ==
    ASSUME NEW m \in R!Seeded, NEW man \in R!Manifest
    PROVE  /\ DOMAIN Merged(m, man) = DOMAIN man
           /\ R!EndpointSeeded(m) => Merged(m, man).endpoint = Seed[m].endpoint
           /\ Merged(m, man).pii = Seed[m].pii \cup man.pii
           /\ Merged(m, man).access = R!MergeAccess(Seed[m].access, man.access)
  <1> DEFINE there == R!WithEndpoint(m, man)
             merged == [there EXCEPT !.access = R!MergeAccess(Seed[m].access, @),
                                     !.pii = Seed[m].pii \cup @]
  <1>1. /\ DOMAIN there = DOMAIN man
        /\ R!EndpointSeeded(m) => there.endpoint = Seed[m].endpoint
        /\ there.pii = man.pii
        /\ there.access = man.access
        /\ DOMAIN man = {"endpoint", "access", "pii", "tool", "stdio"}
      BY DEF R!WithEndpoint, R!Manifest
  <1>2. Merged(m, man) = merged
      BY DEF Merged, R!MergeGuards
  <1> HIDE DEF there
  <1>3. /\ DOMAIN merged = DOMAIN there
        /\ merged.endpoint = there.endpoint
        /\ merged.pii = Seed[m].pii \cup there.pii
        /\ merged.access = R!MergeAccess(Seed[m].access, there.access)
      BY <1>1
  <1> QED  BY <1>1, <1>2, <1>3

\* A manifest is never the absent one.
LEMMA ManifestsArePresent ==
    ASSUME NEW man, "pii" \in DOMAIN man PROVE man # R!Absent
  <1>1. DOMAIN R!Absent = {"absent"}
      BY DEF R!Absent
  <1> QED  BY <1>1

LEMMA InitRegistry == R!Init => RegistryInv
  <1> SUFFICES ASSUME R!Init PROVE RegistryInv
      OBVIOUS
  <1>1. Seed = [m \in Mcps |-> Seed[m]]
      BY PlatformAssumption DEF R!RegistryAssumption
  <1> QED  BY <1>1 DEF R!Init, RegistryInv, Guarded

\* A registration, typed or not, puts an offer with the guards in place.
LEMMA RegistersMerged ==
    ASSUME RegistryInv, NEW m \in Mcps, NEW man \in Offers,
           manifests' = [manifests EXCEPT ![m] = Merged(m, man)],
           imported' = imported \ {m}
    PROVE  RegistryInv'
  <1>1. \A o \in Mcps : manifests'[o] = IF o = m THEN Merged(m, man) ELSE manifests[o]
      BY DEF RegistryInv
  <1>2. ASSUME NEW o \in R!Seeded \ imported'
        PROVE  Guarded(o)'
    <2>1. o \in Mcps
        BY SeedFacts
    <2>2. CASE o = m
      <3>1. manifests'[o] = Merged(o, man)
          BY <1>1, <2>1, <2>2
      <3> QED  BY <3>1 DEF Guarded
    <2>3. CASE o # m
      <3>1. o \in R!Seeded \ imported
          BY <2>3
      <3> QED  BY <1>1, <2>1, <2>3, <3>1 DEF RegistryInv, Guarded
    <2> QED  BY <2>2, <2>3
  <1>3. manifests' = [o \in Mcps |-> manifests'[o]] /\ imported' \subseteq Mcps
      BY DEF RegistryInv
  <1> QED  BY <1>2, <1>3 DEF RegistryInv

LEMMA NextRegistry == RegistryInv /\ [R!Next]_R!vars => RegistryInv'
  <1> SUFFICES ASSUME RegistryInv, [R!Next]_R!vars
               PROVE  RegistryInv'
      OBVIOUS
  <1>1. ASSUME NEW t \in Registrants, NEW m \in Mcps, NEW man \in Offers,
               R!Register(t, m, man) \/ R!RegisterTyped(t, m, man)
        PROVE  RegistryInv'
      BY <1>1, RegistersMerged DEF R!Register, R!RegisterTyped, Merged
  <1>2. ASSUME NEW t \in Registrants, NEW m \in Mcps, R!RegisterAgent(t, m)
        PROVE  RegistryInv'
    <2>1. m \notin R!Seeded /\ imported' = imported \ {m}
        BY <1>2 DEF R!RegisterAgent
    <2>2. /\ manifests' = [o \in Mcps |-> manifests'[o]]
          /\ \A o \in Mcps : o # m => manifests'[o] = manifests[o]
        BY <1>2 DEF R!RegisterAgent, RegistryInv
    <2>3. ASSUME NEW o \in R!Seeded \ imported'
          PROVE  Guarded(o)'
      <3>1. o \in Mcps /\ o # m /\ o \in R!Seeded \ imported
          BY <2>1, SeedFacts
      <3> QED  BY <2>2, <3>1 DEF RegistryInv, Guarded
    <2> QED  BY <2>1, <2>2, <2>3 DEF RegistryInv
  <1>3. ASSUME R!Import PROVE RegistryInv'
    <2> DEFINE brought == {o \in Mcps : exported.typed[o] # R!Absent}
                             \cup {o \in Mcps : exported.manifests[o] # R!Absent}
    <2>1. /\ manifests' = [o \in Mcps |-> R!ImportedManifest(o)]
          /\ imported' = imported \cup brought
        BY <1>3 DEF R!Import
    <2>2. ASSUME NEW o \in R!Seeded \ imported'
          PROVE  Guarded(o)'
      <3>1. o \in Mcps /\ o \in R!Seeded \ imported
          BY <2>1, SeedFacts
      <3>2. exported.typed[o] = R!Absent /\ exported.manifests[o] = R!Absent
          BY <2>1, <3>1
      <3>3. manifests'[o] = manifests[o]
          BY <2>1, <3>1, <3>2 DEF R!ImportedManifest
      <3> QED  BY <3>1, <3>3 DEF RegistryInv, Guarded
    <2>3. imported' \subseteq Mcps
        BY <2>1 DEF RegistryInv
    <2> HIDE DEF brought
    <2>4. manifests' = [o \in Mcps |-> manifests'[o]]
        BY <2>1
    <2> QED  BY <2>2, <2>3, <2>4 DEF RegistryInv
  <1>4. ASSUME R!Restart PROVE RegistryInv'
    <2>1. Seed = [o \in Mcps |-> Seed[o]]
        BY PlatformAssumption DEF R!RegistryAssumption
    <2> QED  BY <1>4, <2>1 DEF R!Restart, RegistryInv, Guarded
  <1>5. ASSUME UNCHANGED <<manifests, imported>> PROVE RegistryInv'
      BY <1>5 DEF RegistryInv, Guarded
  <1>6. CASE UNCHANGED R!vars
      BY <1>5, <1>6 DEF R!vars
  <1>7. CASE \E t \in Registrants : R!Export(t)
      BY <1>5, <1>7 DEF R!Export
  <1> QED  BY <1>1, <1>2, <1>3, <1>4, <1>6, <1>7 DEF R!Next

LEMMA DeclaredStands == RegistryInv => GuardsStand
  <1> SUFFICES ASSUME RegistryInv, NEW m \in R!Seeded \ imported
               PROVE  /\ manifests[m] # R!Absent
                      /\ R!EndpointSeeded(m) => manifests[m].endpoint = Seed[m].endpoint
                      /\ Seed[m].pii \subseteq manifests[m].pii
                      /\ \A held \in SUBSET Roles, shown \in SUBSET Groups :
                            R!Allows(manifests[m].access, held, shown)
                               => R!Allows(Seed[m].access, held, shown)
      BY DEF GuardsStand, R!GuardsStand
  <1>1. Seed[m] \in R!Manifest /\ Guarded(m)
      BY SeedFacts DEF RegistryInv
  <1>2. CASE manifests[m] = Seed[m]
    <2>1. "pii" \in DOMAIN Seed[m]
        BY <1>1 DEF R!Manifest
    <2> QED  BY <1>2, <2>1, ManifestsArePresent
  <1>3. CASE \E man \in Offers : manifests[m] = Merged(m, man)
    <2> PICK man \in Offers : manifests[m] = Merged(m, man)
        BY <1>3
    <2>1. man \in R!Manifest /\ "pii" \in DOMAIN man
        BY SeedFacts DEF R!Manifest
    <2>2. /\ DOMAIN manifests[m] = DOMAIN man
          /\ R!EndpointSeeded(m) => manifests[m].endpoint = Seed[m].endpoint
          /\ manifests[m].pii = Seed[m].pii \cup man.pii
          /\ manifests[m].access = R!MergeAccess(Seed[m].access, man.access)
        BY <2>1, MergedFields
    <2>3. manifests[m] # R!Absent
        BY <2>1, <2>2, ManifestsArePresent
    <2> QED  BY <2>2, <2>3, MergeAdmitsNoMore
  <1> QED  BY <1>1, <1>2, <1>3 DEF Guarded

\* For every set of YAML files and every sequence of registrations, agents, exports,
\* imports and restarts: what a registration leaves under a name of the files keeps
\* the address, the policy and the fields that the files declare.
THEOREM RegistrationsKeepTheGuards == PlatformSpec => []GuardsStand
  <1> QED  BY InitRegistry, NextRegistry, DeclaredStands, PTL DEF PlatformSpec, R!Spec

(***************************************************************************)
(* The chains of /capabilities.  A search that resolves a type goes through  *)
(* pairs of the set V of types on the way and the type t to resolve, and V    *)
(* only grows: what is shown of the search is shown by induction over the     *)
(* types that are not on the way yet.                                        *)
(***************************************************************************)
LEMMA TypesAreFinite ==
    /\ IsFiniteSet(Types) /\ Prims \subseteq Types
    /\ \A d \in ToolDefs : /\ d.typed /\ d.malformed \in BOOLEAN
                           /\ d.ins \in Seq(R!Input) /\ d.outs \in Seq(Types)
  BY PlatformAssumption DEF R!RegistryAssumption, R!TypeGraphAssumption, R!IsFiniteSet, IsFiniteSet

Tool == ToolDefs \cup {R!NoTool}

Graph == [producers : [Types -> Seq(Mcps)], inputs : [Mcps -> Seq(R!Input)]]

ChainStep == [tool : Mcps, type : Types]

\* The tool that a chain takes for t.
FirstMaker(gr, t) == Head(gr.producers[t])

\* What the inputs of the first producer of t contribute, with t on the way.
Subs(c, gr, V, t) ==
    LET ins == gr.inputs[FirstMaker(gr, t)]
    IN  [i \in DOMAIN ins |-> IF i \in R!Upstream(gr.inputs[FirstMaker(gr, t)])
                              THEN c[<<V \cup {t}, ins[i].type>>] ELSE R!Given]

\* One step of the search: what the function c says of <<V, t>>, given what it
\* says of larger sets V.
Link(c, gr, given, strict, V, t) ==
    IF t \in Prims THEN R!Given
    ELSE IF \/ t \in V \/ gr.producers[t] = <<>>
            \/ strict /\ R!MissesInput(gr.inputs[FirstMaker(gr, t)], given)
            \/ \E i \in DOMAIN Subs(c, gr, V, t) : ~Subs(c, gr, V, t)[i].ok
    THEN R!Broken
    ELSE [ok |-> TRUE,
          steps |-> Append(R!FlattenSeq([i \in DOMAIN Subs(c, gr, V, t) |-> Subs(c, gr, V, t)[i].steps]),
                           [tool |-> FirstMaker(gr, t), type |-> t])]

\* The pairs of a search, and what a function on them has to be.
Nodes == (SUBSET Types) \X Types

Searches(c, gr, given, strict) ==
    c = [p \in Nodes |-> Link(c, gr, given, strict, p[1], p[2])]

\* What the code resolves is what such a function says of the goal.
LEMMA ResolveIs ==
    ASSUME NEW gr, NEW t, NEW given, NEW strict
    PROVE  R!Resolve(gr, t, given, strict) = (CHOOSE c : Searches(c, gr, given, strict))[<<{}, t>>]
  BY DEF R!Resolve, Searches, Nodes, Link, Subs, FirstMaker

LEMMA FirstTool ==
    ASSUME NEW gr \in Graph, NEW t \in Types, gr.producers[t] # <<>>
    PROVE  LET ins == gr.inputs[FirstMaker(gr, t)]
           IN  /\ FirstMaker(gr, t) \in Mcps
               /\ ins \in Seq(R!Input)
               /\ \A i \in DOMAIN ins : ins[i] \in R!Input /\ ins[i].type \in Types
  <1> DEFINE m == FirstMaker(gr, t)
             ins == gr.inputs[m]
  <1>1. m \in Mcps
      BY DEF FirstMaker, Graph
  <1>2. ins \in Seq(R!Input)
      BY <1>1 DEF Graph
  <1>3. \A i \in DOMAIN ins : ins[i] \in R!Input
      BY <1>2
  <1>4. \A x \in R!Input : x.type \in Types
      BY DEF R!Input
  <1> QED  BY <1>1, <1>2, <1>3, <1>4

\* What is said of <<V, t>> rests on what is said of V with t added, and on no more.
LEMMA LinkLocal ==
    ASSUME NEW gr \in Graph, NEW given, NEW strict, NEW V, NEW t \in Types, NEW c, NEW d,
           t \notin V => \A x \in Types : c[<<V \cup {t}, x>>] = d[<<V \cup {t}, x>>]
    PROVE  Link(c, gr, given, strict, V, t) = Link(d, gr, given, strict, V, t)
  <1>1. CASE t \in V \/ gr.producers[t] = <<>>
      BY <1>1 DEF Link
  <1>2. CASE t \notin V /\ gr.producers[t] # <<>>
    <2>1. Subs(c, gr, V, t) = Subs(d, gr, V, t)
        BY <1>2, FirstTool DEF Subs
    <2> QED  BY <2>1 DEF Link
  <1> QED  BY <1>1, <1>2

\* Such a function exists, for it can be built up from the largest V.
LEMMA SearchExists ==
    ASSUME NEW gr \in Graph, NEW given, NEW strict
    PROVE  \E c : Searches(c, gr, given, strict)
  <1> DEFINE Up(n) == {p \in Nodes : Cardinality(Types \ p[1]) <= n}
             N(c, p) == Link(c, gr, given, strict, p[1], p[2])
             Q == {n \in Nat : \E c : c = [p \in Up(n) |-> c[p]] /\ \A p \in Up(n) : c[p] = N(c, p)}
  <1>1. \A p \in Nodes : p[1] \in SUBSET Types /\ p[2] \in Types /\ p = <<p[1], p[2]>>
      BY DEF Nodes
  <1>2. ASSUME NEW p \in Nodes, p[2] \notin p[1], NEW n \in Nat, p \in Up(n + 1), NEW x \in Types
        PROVE  <<p[1] \cup {p[2]}, x>> \in Up(n)
    <2>1. IsFiniteSet(Types) /\ IsFiniteSet(Types \ p[1])
        BY TypesAreFinite, FS_Difference
    <2>2. p[2] \in Types \ p[1] /\ Types \ (p[1] \cup {p[2]}) = (Types \ p[1]) \ {p[2]}
        BY <1>1, <1>2
    <2>3. Cardinality(Types \ (p[1] \cup {p[2]})) = Cardinality(Types \ p[1]) - 1
      <3> DEFINE E == Types \ p[1]
      <3>1. Cardinality(E \ {p[2]}) = Cardinality(E) - 1
        <4>1. IsFiniteSet(E) /\ p[2] \in E
            BY <2>1, <2>2
        <4> HIDE DEF E
        <4> QED  BY <4>1, FS_RemoveElement
      <3> QED  BY <2>2, <3>1
    <2>4. Cardinality(Types \ p[1]) \in Nat /\ Cardinality(Types \ p[1]) <= n + 1
        BY <1>2, <2>1, FS_CardinalityType
    <2>5. Cardinality(Types \ (p[1] \cup {p[2]})) <= n
        BY <2>3, <2>4
    <2>6. <<p[1] \cup {p[2]}, x>> \in Nodes
        BY <1>1 DEF Nodes
    <2> QED  BY <2>5, <2>6
  <1>3. 0 \in Q
    <2>1. ASSUME NEW p \in Up(0) PROVE p[2] \in p[1]
      <3>1. IsFiniteSet(Types) /\ IsFiniteSet(Types \ p[1])
          BY TypesAreFinite, FS_Difference
      <3>2. Cardinality(Types \ p[1]) \in Nat /\ Cardinality(Types \ p[1]) <= 0
          BY <3>1, FS_CardinalityType
      <3>3. Types \ p[1] = {}
          BY <3>1, <3>2, FS_EmptySet
      <3> QED  BY <1>1, <3>3
    <2> DEFINE c == [p \in Up(0) |-> N(<<>>, p)]
    <2>2. ASSUME NEW p \in Up(0) PROVE c[p] = N(c, p)
      <3>1. p[2] \in p[1] /\ p[2] \in Types
          BY <1>1, <2>1
      <3> HIDE DEF c
      <3>2. N(<<>>, p) = N(c, p)
          BY <3>1, LinkLocal
      <3> QED  BY <3>2 DEF c
    <2> HIDE DEF Up, N
    <2>3. c = [p \in Up(0) |-> c[p]]
        OBVIOUS
    <2> HIDE DEF c
    <2> QED  BY <2>2, <2>3
  <1>4. ASSUME NEW n \in Nat, n \in Q PROVE n + 1 \in Q
    <2>1. PICK c : c = [p \in Up(n) |-> c[p]] /\ \A p \in Up(n) : c[p] = N(c, p)
        BY <1>4
    <2> DEFINE d == [p \in Up(n + 1) |-> N(c, p)]
    <2>2. \A p \in Up(n) : p \in Up(n + 1)
      <3> SUFFICES ASSUME NEW p \in Up(n) PROVE Cardinality(Types \ p[1]) <= n + 1
          OBVIOUS
      <3>1. IsFiniteSet(Types) /\ IsFiniteSet(Types \ p[1])
          BY TypesAreFinite, FS_Difference
      <3> QED  BY <3>1, FS_CardinalityType
    <2>3. \A p \in Up(n) : d[p] = c[p]
      <3> HIDE DEF Up, N
      <3> QED  BY <2>1, <2>2
    <2>4. ASSUME NEW p \in Up(n + 1) PROVE d[p] = N(d, p)
      <3>1. p \in Nodes /\ p[2] \in Types
          BY <1>1
      <3>2. p[2] \notin p[1] => \A x \in Types : c[<<p[1] \cup {p[2]}, x>>] = d[<<p[1] \cup {p[2]}, x>>]
          BY <1>2, <2>3, <3>1
      <3> HIDE DEF d
      <3>3. N(c, p) = N(d, p)
          BY <3>1, <3>2, LinkLocal
      <3> QED  BY <3>3 DEF d
    <2>5. d = [p \in Up(n + 1) |-> d[p]]
      <3> HIDE DEF Up, N
      <3> QED  OBVIOUS
    <2>6. n + 1 \in Nat
        OBVIOUS
    <2> HIDE DEF Up, N, d
    <2> QED  BY <2>4, <2>5, <2>6
  <1>5. IsFiniteSet(Types) /\ Cardinality(Types) \in Nat
      BY TypesAreFinite, FS_CardinalityType
  <1>6. Cardinality(Types) \in Q
    <2> HIDE DEF Q
    <2> QED  BY <1>3, <1>4, <1>5, Induction
  <1>7. Up(Cardinality(Types)) = Nodes
    <2> SUFFICES ASSUME NEW p \in Nodes PROVE Cardinality(Types \ p[1]) <= Cardinality(Types)
        OBVIOUS
    <2> QED  BY <1>5, FS_Subset
  <1>8. PICK c : c = [p \in Up(Cardinality(Types)) |-> c[p]]
                 /\ \A p \in Up(Cardinality(Types)) : c[p] = N(c, p)
      BY <1>6
  <1>9. c = [p \in Nodes |-> N(c, p)]
    <2> HIDE DEF N, Up
    <2> QED  BY <1>7, <1>8
  <1> QED  BY <1>9 DEF Searches

\* What the search c says of every node follows from what it says further on.
Searching(c, gr, given, strict) ==
    \A V \in SUBSET Types, t \in Types : c[<<V, t>>] = Link(c, gr, given, strict, V, t)

\* The code resolves by a function that says everywhere what one step says.
LEMMA ResolveSteps ==
    ASSUME NEW gr \in Graph, NEW given, NEW strict
    PROVE  \E c : /\ \A t \in Types : R!Resolve(gr, t, given, strict) = c[<<{}, t>>]
                  /\ Searching(c, gr, given, strict)
  <1> DEFINE c == CHOOSE c : Searches(c, gr, given, strict)
  <1>1. Searches(c, gr, given, strict)
      BY SearchExists
  <1>2. \A t \in Types : R!Resolve(gr, t, given, strict) = c[<<{}, t>>]
      BY ResolveIs
  <1> HIDE DEF c
  <1>3. ASSUME NEW V \in SUBSET Types, NEW t \in Types
        PROVE  c[<<V, t>>] = Link(c, gr, given, strict, V, t)
    <2>1. <<V, t>> \in Nodes
        BY DEF Nodes
    <2>2. c[<<V, t>>] = [p \in Nodes |-> Link(c, gr, given, strict, p[1], p[2])][<<V, t>>]
        BY <1>1 DEF Searches
    <2> QED  BY <2>1, <2>2
  <1>4. Searching(c, gr, given, strict)
      BY <1>3 DEF Searching
  <1> QED  BY <1>2, <1>4

\* Induction over the types that are not on the way yet.
LEMMA SearchInduction ==
    ASSUME NEW N,
           \A V \in SUBSET Types, t \in Types :
               (t \notin V => \A x \in Types : <<V \cup {t}, x>> \in N) => <<V, t>> \in N
    PROVE  \A V \in SUBSET Types, t \in Types : <<V, t>> \in N
  <1> DEFINE Q == {n \in Nat : \A V \in SUBSET Types :
                      Cardinality(Types \ V) <= n => \A t \in Types : <<V, t>> \in N}
  <1>1. \A V \in SUBSET Types : IsFiniteSet(Types \ V) /\ Cardinality(Types \ V) \in Nat
      BY TypesAreFinite, FS_Difference, FS_CardinalityType
  <1>2. 0 \in Q
    <2> SUFFICES ASSUME NEW V \in SUBSET Types, Cardinality(Types \ V) <= 0, NEW t \in Types
                 PROVE  <<V, t>> \in N
        OBVIOUS
    <2>1. Cardinality(Types \ V) = 0
        BY <1>1
    <2>2. Types \ V = {}
        BY <1>1, <2>1, FS_EmptySet
    <2> QED  BY <2>2
  <1>3. ASSUME NEW n \in Nat, n \in Q PROVE n + 1 \in Q
    <2> SUFFICES ASSUME NEW V \in SUBSET Types, Cardinality(Types \ V) <= n + 1, NEW t \in Types,
                        t \notin V, NEW x \in Types
                 PROVE  <<V \cup {t}, x>> \in N
        OBVIOUS
    <2> DEFINE E == Types \ V
    <2>1. Cardinality(E \ {t}) = Cardinality(E) - 1
      <3>1. IsFiniteSet(E) /\ t \in E
          BY <1>1
      <3> HIDE DEF E
      <3> QED  BY <3>1, FS_RemoveElement
    <2>2. Types \ (V \cup {t}) = E \ {t} /\ V \cup {t} \in SUBSET Types
        OBVIOUS
    <2>3. Cardinality(E) \in Nat /\ Cardinality(E) <= n + 1
        BY <1>1
    <2>4. Cardinality(E \ {t}) <= n
      <3> HIDE DEF E
      <3> QED  BY <2>1, <2>3
    <2>5. Cardinality(Types \ (V \cup {t})) <= n
      <3> HIDE DEF E
      <3> QED  BY <2>2, <2>4
    <2> QED  BY <1>3, <2>2, <2>5
  <1>4. \A n \in Nat : n \in Q
    <2> HIDE DEF Q
    <2> QED  BY <1>2, <1>3, Induction
  <1> SUFFICES ASSUME NEW V \in SUBSET Types, NEW t \in Types PROVE <<V, t>> \in N
      OBVIOUS
  <1>5. Cardinality(Types \ V) \in Q
    <2> HIDE DEF Q
    <2> QED  BY <1>1, <1>4
  <1>6. Cardinality(Types \ V) <= Cardinality(Types \ V)
      BY <1>1
  <1> QED  BY <1>5, <1>6

(***************************************************************************)
(* The steps of the inputs, one after the other.                            *)
(***************************************************************************)
\* f[k] is what the first k of the len sequences ss make, one behind the other.
Joins(f, ss, len, E) ==
    /\ f \in [0 .. len -> Seq(E)]
    /\ f[0] = <<>>
    /\ \A k \in 1 .. len : f[k] = f[k - 1] \o ss[k]

\* A function on 0 .. n goes on with one more value.
LEMMA JoinMore ==
    ASSUME NEW T, NEW n \in Nat, NEW f \in [0 .. n -> T], NEW v \in T
    PROVE  LET g == [k \in 0 .. n + 1 |-> IF k = n + 1 THEN v ELSE f[k]]
           IN  /\ g \in [0 .. n + 1 -> T]
               /\ g[n + 1] = v
               /\ \A k \in 0 .. n : g[k] = f[k]
  OBVIOUS

\* There is such a function, whatever the sequences.
LEMMA JoinsExist ==
    ASSUME NEW E, NEW len \in Nat, NEW ss, \A k \in 1 .. len : ss[k] \in Seq(E)
    PROVE  \E f : Joins(f, ss, len, E)
  <1> DEFINE Q == {n \in Nat : n <= len => \E f : Joins(f, ss, n, E)}
  <1>1. 0 \in Q
    <2>1. <<>> \in Seq(E)
        OBVIOUS
    <2> DEFINE f == [k \in 0 .. 0 |-> <<>>]
    <2>2. f \in [0 .. 0 -> Seq(E)] /\ f[0] = <<>>
        BY <2>1
    <2> HIDE DEF f
    <2>3. Joins(f, ss, 0, E)
        BY <2>2 DEF Joins
    <2> QED  BY <2>3
  <1>2. ASSUME NEW n \in Nat, n \in Q PROVE n + 1 \in Q
    <2>1. CASE n + 1 <= len
      <3>1. n <= len /\ n + 1 \in 1 .. len /\ 1 .. n \subseteq 1 .. len
          BY <2>1
      <3>2. PICK f : Joins(f, ss, n, E)
          BY <1>2, <3>1
      <3> DEFINE v == f[n] \o ss[n + 1]
                 g == [k \in 0 .. n + 1 |-> IF k = n + 1 THEN v ELSE f[k]]
      <3>3. f \in [0 .. n -> Seq(E)] /\ f[0] = <<>> /\ \A k \in 1 .. n : f[k] = f[k - 1] \o ss[k]
          BY <3>2 DEF Joins
      <3>4. f[n] \in Seq(E) /\ ss[n + 1] \in Seq(E)
          BY <3>1, <3>3
      <3>5. v \in Seq(E)
          BY <3>4, ConcatProperties
      <3> DEFINE Rs == Seq(E)
      <3>6. f \in [0 .. n -> Rs] /\ v \in Rs
          BY <3>3, <3>5
      <3>7. g \in [0 .. n + 1 -> Rs] /\ g[n + 1] = v /\ \A k \in 0 .. n : g[k] = f[k]
        <4> HIDE DEF v, Rs
        <4> QED  BY <3>6, JoinMore
      <3>8. ASSUME NEW k \in 1 .. n + 1 PROVE g[k] = g[k - 1] \o ss[k]
        <4>1. CASE k = n + 1
          <5>1. k - 1 = n /\ n \in 0 .. n
              BY <4>1
          <5> HIDE DEF g
          <5> QED  BY <3>7, <4>1, <5>1
        <4>2. CASE k # n + 1
          <5>1. k \in 1 .. n /\ k \in 0 .. n /\ k - 1 \in 0 .. n
              BY <4>2
          <5> HIDE DEF g
          <5> QED  BY <3>3, <3>7, <5>1
        <4> QED  BY <4>1, <4>2
      <3>9. g[0] = <<>>
        <4> HIDE DEF g
        <4> QED  BY <3>3, <3>7
      <3>10. Joins(g, ss, n + 1, E)
        <4> HIDE DEF g
        <4> QED  BY <3>7, <3>8, <3>9 DEF Joins
      <3> HIDE DEF g
      <3> QED  BY <3>10
    <2>2. CASE ~(n + 1 <= len)
        BY <2>2
    <2> QED  BY <2>1, <2>2
  <1>3. len \in Q
    <2> HIDE DEF Q
    <2> QED  BY <1>1, <1>2, Induction
  <1> QED  BY <1>3

\* What is flattened is the last of its values.
LEMMA FlattenIs ==
    ASSUME NEW E, NEW ss \in Seq(Seq(E))
    PROVE  \E f : Joins(f, ss, Len(ss), E) /\ R!FlattenSeq(ss) = f[Len(ss)]
  <1> DEFINE len == Len(ss)
             Body(g) == [i \in 1 .. len |-> IF i = 1 THEN ss[i] ELSE g[i - 1] \o ss[i]]
             fl == CHOOSE g : g = Body(g)
  <1>1. len \in Nat /\ \A k \in 1 .. len : ss[k] \in Seq(E)
      OBVIOUS
  <1>2. PICK f : Joins(f, ss, len, E)
    <2> HIDE DEF len
    <2> QED  BY <1>1, JoinsExist
  <1>3. CASE len = 0
    <2>1. R!FlattenSeq(ss) = ss /\ ss = <<>>
        BY <1>3 DEF R!FlattenSeq
    <2> QED  BY <1>2, <1>3, <2>1 DEF Joins
  <1>4. CASE len # 0
    <2>1. R!FlattenSeq(ss) = fl[len]
        BY <1>4 DEF R!FlattenSeq
    <2> HIDE DEF len
    <2>2. \A k \in 1 .. len : f[k] = f[k - 1] \o ss[k]
        BY <1>2 DEF Joins
    <2>3. f[1] = ss[1]
      <3>1. 1 \in 1 .. len /\ 1 - 1 = 0
          BY <1>1, <1>4
      <3>2. f[1] = f[0] \o ss[1] /\ f[0] = <<>>
          BY <1>2, <2>2, <3>1 DEF Joins
      <3> QED  BY <1>1, <3>1, <3>2, ConcatEmptySeq
    <2> DEFINE g == [i \in 1 .. len |-> f[i]]
    <2>4. g = Body(g)
      <3> SUFFICES ASSUME NEW i \in 1 .. len
                   PROVE  f[i] = IF i = 1 THEN ss[i] ELSE g[i - 1] \o ss[i]
          OBVIOUS
      <3>1. CASE i = 1
          BY <2>3, <3>1
      <3>2. CASE i # 1
        <4>1. i - 1 \in 1 .. len
            BY <1>1, <3>2
        <4>2. g[i - 1] = f[i - 1]
            BY <4>1
        <4> HIDE DEF g
        <4> QED  BY <2>2, <3>2, <4>2
      <3> QED  BY <3>1, <3>2
    <2> HIDE DEF g
    <2>5. fl = Body(fl)
      <3> HIDE DEF Body
      <3> QED  BY <2>4
    <2> HIDE DEF fl
    <2> DEFINE Q == {n \in Nat : n + 1 <= len => fl[n + 1] = f[n + 1]}
    <2>6. 0 \in Q
      <3>1. 1 \in 1 .. len
          BY <1>1, <1>4
      <3>2. fl[1] = ss[1]
          BY <2>5, <3>1
      <3> QED  BY <2>3, <3>2
    <2>7. ASSUME NEW n \in Nat, n \in Q PROVE n + 1 \in Q
      <3>1. CASE n + 1 + 1 <= len
        <4> DEFINE i == n + 1 + 1
        <4>1. i \in 1 .. len /\ i # 1 /\ i - 1 = n + 1 /\ n + 1 <= len
            BY <1>1, <3>1
        <4> HIDE DEF i
        <4>2. fl[i] = fl[i - 1] \o ss[i]
            BY <2>5, <4>1
        <4>3. f[i] = f[i - 1] \o ss[i]
            BY <2>2, <4>1
        <4>4. fl[n + 1] = f[n + 1]
            BY <2>7, <4>1
        <4>5. fl[i] = f[i]
            BY <4>1, <4>2, <4>3, <4>4
        <4> QED  BY <4>5 DEF i
      <3>2. CASE ~(n + 1 + 1 <= len)
          BY <3>2
      <3> QED  BY <3>1, <3>2
    <2>8. len - 1 \in Nat /\ len - 1 + 1 = len
        BY <1>1, <1>4
    <2>9. len - 1 \in Q
      <3> HIDE DEF Q
      <3> QED  BY <2>6, <2>7, <2>8, Induction
    <2>10. fl[len] = f[len]
        BY <2>8, <2>9
    <2> QED  BY <1>2, <2>1, <2>10 DEF len
  <1> QED  BY <1>3, <1>4

\* What is closed under joining holds what its sequences make together, and
\* every element of each of them is in it.
LEMMA FlattenClosed ==
    ASSUME NEW E, NEW N \in SUBSET Seq(E), <<>> \in N, \A a, b \in N : a \o b \in N,
           NEW ss \in Seq(N)
    PROVE  /\ R!FlattenSeq(ss) \in N
           /\ \A k \in DOMAIN ss : \A j \in DOMAIN ss[k] :
                 \E h \in DOMAIN R!FlattenSeq(ss) : R!FlattenSeq(ss)[h] = ss[k][j]
  <1> DEFINE len == Len(ss)
  <1>1. ss \in Seq(Seq(E)) /\ len \in Nat /\ DOMAIN ss = 1 .. len /\ \A k \in 1 .. len : ss[k] \in N
      OBVIOUS
  <1>2. PICK f : Joins(f, ss, len, E) /\ R!FlattenSeq(ss) = f[len]
      BY <1>1, FlattenIs
  <1> HIDE DEF len
  <1>3. f[0] = <<>> /\ \A k \in 1 .. len : f[k] = f[k - 1] \o ss[k]
      BY <1>2 DEF Joins
  <1> DEFINE Has(n) == \A k \in 1 .. n : \A j \in DOMAIN ss[k] :
                          \E h \in DOMAIN f[n] : f[n][h] = ss[k][j]
             Q == {n \in Nat : n <= len => f[n] \in N /\ Has(n)}
  <1>4. 0 \in Q
    <2>1. Has(0)
        OBVIOUS
    <2> QED  BY <1>3, <2>1
  <1>5. ASSUME NEW n \in Nat, n \in Q PROVE n + 1 \in Q
    <2> SUFFICES ASSUME n + 1 <= len PROVE f[n + 1] \in N /\ Has(n + 1)
      <3> HIDE DEF Has
      <3> QED  OBVIOUS
    <2>1. n <= len /\ n + 1 \in 1 .. len /\ n + 1 - 1 = n
        BY <1>1
    <2>2. f[n] \in N /\ Has(n)
      <3> HIDE DEF Has
      <3> QED  BY <1>5, <2>1
    <2> DEFINE a == f[n]
               b == ss[n + 1]
    <2>3. f[n + 1] = a \o b
      <3> DEFINE i == n + 1
      <3>1. i \in 1 .. len /\ i - 1 = n
          BY <2>1
      <3> HIDE DEF i
      <3>2. f[i] = f[i - 1] \o ss[i]
          BY <1>3, <3>1
      <3>3. f[i] = f[n] \o ss[i]
          BY <3>1, <3>2
      <3> QED  BY <3>3 DEF i
    <2>4. a \in N /\ b \in N /\ a \in Seq(E) /\ b \in Seq(E)
      <3> HIDE DEF Has
      <3> QED  BY <1>1, <2>1, <2>2
    <2>5. /\ \A i \in DOMAIN a : i \in DOMAIN (a \o b) /\ (a \o b)[i] = a[i]
          /\ \A i \in DOMAIN b : Len(a) + i \in DOMAIN (a \o b) /\ (a \o b)[Len(a) + i] = b[i]
      <3> HIDE DEF a, b
      <3> QED  BY <2>4
    <2>6. ASSUME NEW k \in 1 .. n + 1, NEW j \in DOMAIN ss[k]
          PROVE  \E h \in DOMAIN (a \o b) : (a \o b)[h] = ss[k][j]
      <3>1. CASE k = n + 1
        <4>1. j \in DOMAIN b /\ b[j] = ss[k][j]
            BY <3>1
        <4> HIDE DEF a, b
        <4> QED  BY <2>5, <4>1
      <3>2. CASE k # n + 1
        <4>1. k \in 1 .. n
            BY <3>2
        <4>2. PICK h \in DOMAIN a : a[h] = ss[k][j]
            BY <2>2, <4>1
        <4> HIDE DEF a, b
        <4> QED  BY <2>5, <4>2
      <3> QED  BY <3>1, <3>2
    <2>7. a \o b \in N
      <3> HIDE DEF a, b
      <3> QED  BY <2>4
    <2> HIDE DEF a, b
    <2>8. Has(n + 1)
      <3> SUFFICES ASSUME NEW k \in 1 .. n + 1, NEW j \in DOMAIN ss[k]
                   PROVE  \E h \in DOMAIN f[n + 1] : f[n + 1][h] = ss[k][j]
          OBVIOUS
      <3>1. PICK h \in DOMAIN (a \o b) : (a \o b)[h] = ss[k][j]
          BY <2>6
      <3> QED  BY <2>3, <3>1, Zenon
    <2>9. f[n + 1] \in N
        BY <2>3, <2>7
    <2> QED  BY <2>8, <2>9
  <1>6. len \in Q
    <2> HIDE DEF Q
    <2> QED  BY <1>1, <1>4, <1>5, Induction
  <1>7. f[len] \in N /\ Has(len)
    <2> HIDE DEF Has
    <2> QED  BY <1>6, <1>1
  <1> QED  BY <1>1, <1>2, <1>7

(***************************************************************************)
(* One step of the search, case by case.                                    *)
(***************************************************************************)

\* The inputs of t's first producer.
Ins(gr, t) == gr.inputs[FirstMaker(gr, t)]

\* The steps that the inputs of t's first producer contribute, input by input.
Parts(c, gr, V, t) ==
    [i \in DOMAIN Ins(gr, t) |-> IF Ins(gr, t)[i].type \in Prims THEN <<>>
                                 ELSE c[<<V \cup {t}, Ins(gr, t)[i].type>>].steps]

\* An input that another tool has to make is not found.
Failing(c, gr, V, t) ==
    \E i \in DOMAIN Ins(gr, t) : /\ Ins(gr, t)[i].type \notin Prims
                                 /\ ~c[<<V \cup {t}, Ins(gr, t)[i].type>>].ok

\* What breaks the chain at t, and what is found when nothing does.
Blocked(c, gr, given, strict, V, t) ==
    \/ t \in V \/ gr.producers[t] = <<>>
    \/ strict /\ R!MissesInput(gr.inputs[FirstMaker(gr, t)], given)
    \/ Failing(c, gr, V, t)

Complete(c, gr, V, t) ==
    [ok |-> TRUE,
     steps |-> Append(R!FlattenSeq(Parts(c, gr, V, t)), [tool |-> FirstMaker(gr, t), type |-> t])]

\* One step, by cases: a primitive type, a broken chain, a chain.
LEMMA LinkCases ==
    ASSUME NEW gr, NEW given, NEW strict, NEW V, NEW t, NEW c
    PROVE  /\ t \in Prims => Link(c, gr, given, strict, V, t) = R!Given
           /\ t \notin Prims /\ Blocked(c, gr, given, strict, V, t)
              => Link(c, gr, given, strict, V, t) = R!Broken
           /\ t \notin Prims /\ ~Blocked(c, gr, given, strict, V, t)
              => Link(c, gr, given, strict, V, t) = Complete(c, gr, V, t)
  <1> DEFINE subs == Subs(c, gr, V, t)
             misses == strict /\ R!MissesInput(gr.inputs[FirstMaker(gr, t)], given)
             l == Link(c, gr, given, strict, V, t)
  <1>1. /\ DOMAIN subs = DOMAIN Ins(gr, t)
        /\ \A i \in DOMAIN Ins(gr, t) :
              subs[i] = IF Ins(gr, t)[i].type \in Prims THEN R!Given
                        ELSE c[<<V \cup {t}, Ins(gr, t)[i].type>>]
      BY DEF Subs, Ins, R!Upstream
  <1>2. R!Given.ok = TRUE /\ R!Given.steps = <<>>
      BY DEF R!Given
  <1>3. (\E i \in DOMAIN subs : ~subs[i].ok) <=> Failing(c, gr, V, t)
    <2> HIDE DEF subs
    <2> QED  BY <1>1, <1>2 DEF Failing
  <1>4. [i \in DOMAIN subs |-> subs[i].steps] = Parts(c, gr, V, t)
    <2> HIDE DEF subs
    <2> QED  BY <1>1, <1>2 DEF Parts
  <1>5. l = IF t \in Prims THEN R!Given
            ELSE IF t \in V \/ gr.producers[t] = <<>> \/ misses \/ \E i \in DOMAIN subs : ~subs[i].ok
            THEN R!Broken
            ELSE [ok |-> TRUE,
                  steps |-> Append(R!FlattenSeq([i \in DOMAIN subs |-> subs[i].steps]),
                                   [tool |-> FirstMaker(gr, t), type |-> t])]
      BY DEF Link
  <1> HIDE DEF subs, l
  <1>6. Blocked(c, gr, given, strict, V, t)
          <=> t \in V \/ gr.producers[t] = <<>> \/ misses \/ \E i \in DOMAIN subs : ~subs[i].ok
      BY <1>3 DEF Blocked
  <1>7. [ok |-> TRUE,
         steps |-> Append(R!FlattenSeq([i \in DOMAIN subs |-> subs[i].steps]),
                          [tool |-> FirstMaker(gr, t), type |-> t])] = Complete(c, gr, V, t)
      BY <1>4 DEF Complete
  <1> HIDE DEF misses
  <1>8. l = IF t \in Prims THEN R!Given
            ELSE IF Blocked(c, gr, given, strict, V, t) THEN R!Broken ELSE Complete(c, gr, V, t)
      BY <1>5, <1>6, <1>7, Zenon
  <1> QED  BY <1>8 DEF l

\* What the search says of every node, in the terms of the lemma before.
SearchSays(c, gr, given, strict) ==
    \A V \in SUBSET Types, t \in Types :
       /\ t \in Prims => c[<<V, t>>] = R!Given
       /\ t \notin Prims /\ Blocked(c, gr, given, strict, V, t) => c[<<V, t>>] = R!Broken
       /\ t \notin Prims /\ ~Blocked(c, gr, given, strict, V, t) => c[<<V, t>>] = Complete(c, gr, V, t)

LEMMA SearchCases ==
    ASSUME NEW gr \in Graph, NEW given, NEW strict
    PROVE  \E c : /\ \A t \in Types : R!Resolve(gr, t, given, strict) = c[<<{}, t>>]
                  /\ SearchSays(c, gr, given, strict)
  <1>1. PICK c : /\ \A t \in Types : R!Resolve(gr, t, given, strict) = c[<<{}, t>>]
                 /\ Searching(c, gr, given, strict)
      BY ResolveSteps
  <1>2. ASSUME NEW V \in SUBSET Types, NEW t \in Types
        PROVE  /\ t \in Prims => c[<<V, t>>] = R!Given
               /\ t \notin Prims /\ Blocked(c, gr, given, strict, V, t) => c[<<V, t>>] = R!Broken
               /\ t \notin Prims /\ ~Blocked(c, gr, given, strict, V, t)
                  => c[<<V, t>>] = Complete(c, gr, V, t)
    <2>1. c[<<V, t>>] = Link(c, gr, given, strict, V, t)
        BY <1>1 DEF Searching
    <2> QED  BY <2>1, LinkCases
  <1>3. SearchSays(c, gr, given, strict)
      BY <1>2, Zenon DEF SearchSays
  <1> QED  BY <1>1, <1>3

(***************************************************************************)
(* What a chain that was found says.                                        *)
(***************************************************************************)
\* A step makes a type by its first producer, and each chain makes every input
\* before its use.
StepOf(gr) == {s \in ChainStep : /\ s.type \notin Prims /\ gr.producers[s.type] # <<>>
                                 /\ s.tool = FirstMaker(gr, s.type)}

\* Every input is made before its use.
Ordered(gr, q) ==
    \A i \in DOMAIN q : \A x \in R!ToSet(gr.inputs[q[i].tool]) :
       x.type \in Prims \/ \E h \in 1 .. i - 1 : q[h].type = x.type

Sound(gr) == {q \in Seq(StepOf(gr)) : Ordered(gr, q)}

Makes(q, t) == q # <<>> /\ R!Last(q).type = t

SoundFor(gr, t) == {ch \in [ok : BOOLEAN, steps : Sound(gr)] :
                       ch.ok /\ t \notin Prims => Makes(ch.steps, t)}

\* Sound sequences: none, two behind each other, one more step whose inputs are made.
LEMMA EmptySound ==
    ASSUME NEW gr
    PROVE  <<>> \in Sound(gr) /\ Sound(gr) \in SUBSET Seq(StepOf(gr))
  BY DEF Sound, Ordered

LEMMA SoundJoins ==
    ASSUME NEW gr, NEW a \in Sound(gr), NEW b \in Sound(gr)
    PROVE  a \o b \in Sound(gr)
  <1>1. a \in Seq(StepOf(gr)) /\ b \in Seq(StepOf(gr)) /\ Ordered(gr, a) /\ Ordered(gr, b)
      BY DEF Sound
  <1> DEFINE s == a \o b
  <1>2. /\ s \in Seq(StepOf(gr)) /\ Len(s) = Len(a) + Len(b) /\ DOMAIN s = 1 .. Len(s)
        /\ Len(a) \in Nat /\ Len(b) \in Nat /\ DOMAIN a = 1 .. Len(a) /\ DOMAIN b = 1 .. Len(b)
        /\ \A i \in 1 .. Len(s) : s[i] = IF i <= Len(a) THEN a[i] ELSE b[i - Len(a)]
      BY <1>1, ConcatProperties
  <1> HIDE DEF s
  <1>3. ASSUME NEW i \in DOMAIN s, NEW x \in R!ToSet(gr.inputs[s[i].tool]), x.type \notin Prims
        PROVE  \E h \in 1 .. i - 1 : s[h].type = x.type
    <2>1. CASE i <= Len(a)
      <3>1. i \in DOMAIN a /\ s[i] = a[i] /\ \A h \in 1 .. i - 1 : s[h] = a[h]
          BY <1>2, <2>1
      <3> QED  BY <1>1, <1>3, <3>1 DEF Ordered
    <2>2. CASE ~(i <= Len(a))
      <3> DEFINE j == i - Len(a)
      <3>1. j \in DOMAIN b /\ s[i] = b[j]
          BY <1>2, <2>2
      <3>2. PICK h \in 1 .. j - 1 : b[h].type = x.type
          BY <1>1, <1>3, <3>1 DEF Ordered
      <3>3. Len(a) + h \in 1 .. i - 1 /\ Len(a) + h \in 1 .. Len(s) /\ ~(Len(a) + h <= Len(a))
            /\ Len(a) + h - Len(a) = h
          BY <1>2, <3>1
      <3>4. s[Len(a) + h] = b[h]
          BY <1>2, <3>3
      <3> QED  BY <3>2, <3>3, <3>4
    <2> QED  BY <2>1, <2>2
  <1>4. s \in Sound(gr)
      BY <1>2, <1>3 DEF Sound, Ordered
  <1> QED  BY <1>4 DEF s

LEMMA SoundExtends ==
    ASSUME NEW gr, NEW a \in Sound(gr), NEW st \in StepOf(gr),
           \A x \in R!ToSet(gr.inputs[st.tool]) :
              x.type \in Prims \/ \E h \in DOMAIN a : a[h].type = x.type
    PROVE  Append(a, st) \in Sound(gr)
  <1>1. a \in Seq(StepOf(gr)) /\ Ordered(gr, a)
      BY DEF Sound
  <1> DEFINE s == Append(a, st)
  <1>2. /\ s \in Seq(StepOf(gr)) /\ Len(a) \in Nat /\ DOMAIN s = 1 .. Len(a) + 1
        /\ DOMAIN a = 1 .. Len(a)
        /\ s[Len(a) + 1] = st /\ \A i \in 1 .. Len(a) : s[i] = a[i]
      BY <1>1, AppendProperties
  <1> HIDE DEF s
  <1>3. ASSUME NEW i \in DOMAIN s, NEW x \in R!ToSet(gr.inputs[s[i].tool]), x.type \notin Prims
        PROVE  \E h \in 1 .. i - 1 : s[h].type = x.type
    <2>1. CASE i <= Len(a)
      <3>1. i \in DOMAIN a /\ s[i] = a[i] /\ \A h \in 1 .. i - 1 : s[h] = a[h]
          BY <1>2, <2>1
      <3> QED  BY <1>1, <1>3, <3>1 DEF Ordered
    <2>2. CASE ~(i <= Len(a))
      <3>1. i = Len(a) + 1 /\ i - 1 = Len(a) /\ s[i] = st
          BY <1>2, <2>2
      <3>2. PICK h \in DOMAIN a : a[h].type = x.type
          BY <1>3, <3>1
      <3> QED  BY <1>2, <3>1, <3>2
    <2> QED  BY <2>1, <2>2
  <1>4. s \in Sound(gr)
      BY <1>2, <1>3 DEF Sound, Ordered
  <1> QED  BY <1>4 DEF s

\* The inputs of a type's first producer.
LEMMA InsTyped ==
    ASSUME NEW gr \in Graph, NEW t \in Types, gr.producers[t] # <<>>
    PROVE  /\ FirstMaker(gr, t) \in Mcps
           /\ Ins(gr, t) \in Seq(R!Input)
           /\ \A i \in DOMAIN Ins(gr, t) : Ins(gr, t)[i].type \in Types
           /\ R!ToSet(gr.inputs[FirstMaker(gr, t)]) = {Ins(gr, t)[i] : i \in DOMAIN Ins(gr, t)}
  <1>1. FirstMaker(gr, t) \in Mcps /\ Ins(gr, t) \in Seq(R!Input)
        /\ \A i \in DOMAIN Ins(gr, t) : Ins(gr, t)[i].type \in Types
      BY FirstTool DEF Ins
  <1>2. R!ToSet(gr.inputs[FirstMaker(gr, t)]) = {Ins(gr, t)[i] : i \in DOMAIN Ins(gr, t)}
      BY DEF R!ToSet, Ins
  <1> QED  BY <1>1, <1>2

AllParts(c, gr, V, t) == R!FlattenSeq(Parts(c, gr, V, t))

\* Every input that a tool has to produce is made by the steps of the inputs.
InputsMade(c, gr, V, t) ==
    \A i \in DOMAIN Ins(gr, t) : Ins(gr, t)[i].type \notin Prims =>
       \E h \in DOMAIN AllParts(c, gr, V, t) : AllParts(c, gr, V, t)[h].type = Ins(gr, t)[i].type

\* They hold every step of each input's chain.
StepsKept(c, gr, V, t) ==
    \A i \in DOMAIN Ins(gr, t) : Ins(gr, t)[i].type \notin Prims =>
       \A j \in DOMAIN c[<<V \cup {t}, Ins(gr, t)[i].type>>].steps :
          \E h \in DOMAIN AllParts(c, gr, V, t) :
             AllParts(c, gr, V, t)[h] = c[<<V \cup {t}, Ins(gr, t)[i].type>>].steps[j]

LEMMA PartsSound ==
    ASSUME NEW gr \in Graph, NEW V \in SUBSET Types, NEW t \in Types, NEW c,
           gr.producers[t] # <<>>, ~Failing(c, gr, V, t),
           \A x \in Types : c[<<V \cup {t}, x>>] \in SoundFor(gr, x)
    PROVE  /\ AllParts(c, gr, V, t) \in Sound(gr)
           /\ InputsMade(c, gr, V, t) /\ StepsKept(c, gr, V, t)
  <1> DEFINE ins == Ins(gr, t)
             parts == Parts(c, gr, V, t)
             all == R!FlattenSeq(parts)
  <1>1. ins \in Seq(R!Input) /\ \A i \in DOMAIN ins : ins[i].type \in Types
      BY InsTyped
  <1>2. /\ DOMAIN parts = DOMAIN ins
        /\ \A i \in DOMAIN ins :
              parts[i] = IF ins[i].type \in Prims THEN <<>> ELSE c[<<V \cup {t}, ins[i].type>>].steps
      BY DEF Parts
  <1>3. \A i \in DOMAIN ins : ins[i].type \notin Prims => c[<<V \cup {t}, ins[i].type>>].ok
      BY DEF Failing
  <1>4. parts = [i \in 1 .. Len(ins) |-> parts[i]] /\ Len(ins) \in Nat /\ DOMAIN ins = 1 .. Len(ins)
      BY <1>1 DEF Parts
  <1> HIDE DEF ins, parts
  <1>5. \A x \in Types : /\ c[<<V \cup {t}, x>>].steps \in Sound(gr)
                         /\ c[<<V \cup {t}, x>>].ok /\ x \notin Prims => Makes(c[<<V \cup {t}, x>>].steps, x)
      BY DEF SoundFor
  <1>6. \A i \in DOMAIN ins : parts[i] \in Sound(gr)
      BY <1>1, <1>2, <1>5, EmptySound
  <1>7. parts \in Seq(Sound(gr))
    <2> DEFINE N == Sound(gr)
    <2>1. \A i \in 1 .. Len(ins) : parts[i] \in N
        BY <1>4, <1>6
    <2> HIDE DEF N
    <2>2. parts \in Seq(N)
        BY <1>4, <2>1
    <2> QED  BY <2>2 DEF N
  <1>8. /\ all \in Sound(gr)
        /\ \A k \in DOMAIN parts : \A j \in DOMAIN parts[k] : \E h \in DOMAIN all : all[h] = parts[k][j]
    <2>1. \A a, b \in Sound(gr) : a \o b \in Sound(gr)
        BY SoundJoins
    <2>2. <<>> \in Sound(gr) /\ Sound(gr) \in SUBSET Seq(StepOf(gr))
        BY EmptySound
    <2> QED  BY <1>7, <2>1, <2>2, FlattenClosed
  <1> HIDE DEF all
  <1>9. ASSUME NEW i \in DOMAIN ins, ins[i].type \notin Prims
        PROVE  LET sub == c[<<V \cup {t}, ins[i].type>>].steps
               IN  /\ \E h \in DOMAIN all : all[h].type = ins[i].type
                   /\ \A j \in DOMAIN sub : \E h \in DOMAIN all : all[h] = sub[j]
    <2> DEFINE sub == c[<<V \cup {t}, ins[i].type>>].steps
    <2>1. parts[i] = sub /\ i \in DOMAIN parts
        BY <1>2, <1>9
    <2>2. \A j \in DOMAIN sub : \E h \in DOMAIN all : all[h] = sub[j]
        BY <1>8, <2>1
    <2>3. sub \in Sound(gr) /\ Makes(sub, ins[i].type)
        BY <1>1, <1>3, <1>5, <1>9
    <2>4. Len(sub) \in DOMAIN sub /\ sub[Len(sub)].type = ins[i].type
      <3>1. sub \in Seq(StepOf(gr)) /\ sub # <<>> /\ R!Last(sub).type = ins[i].type
          BY <2>3 DEF Sound, Makes
      <3> HIDE DEF sub
      <3> QED  BY <3>1 DEF R!Last
    <2>5. \E h \in DOMAIN all : all[h].type = ins[i].type
        BY <2>2, <2>4
    <2> QED  BY <2>2, <2>5
  <1>10. /\ \A i \in DOMAIN ins : ins[i].type \notin Prims =>
               \E h \in DOMAIN all : all[h].type = ins[i].type
         /\ \A i \in DOMAIN ins : ins[i].type \notin Prims =>
               \A j \in DOMAIN c[<<V \cup {t}, ins[i].type>>].steps :
                  \E h \in DOMAIN all : all[h] = c[<<V \cup {t}, ins[i].type>>].steps[j]
      BY <1>9
  <1>11. all = AllParts(c, gr, V, t)
      BY DEF all, parts, AllParts
  <1> QED  BY <1>8, <1>10, <1>11 DEF InputsMade, StepsKept, ins

\* Every chain that the search finds is sound and ends with the type asked for.
LEMMA SearchIsSound ==
    ASSUME NEW gr \in Graph, NEW given, NEW strict, NEW c, SearchSays(c, gr, given, strict)
    PROVE  \A V \in SUBSET Types, t \in Types : c[<<V, t>>] \in SoundFor(gr, t)
  <1> DEFINE N == {p \in Nodes : c[p] \in SoundFor(gr, p[2])}
  <1>1. <<>> \in Sound(gr)
      BY EmptySound
  <1>2. ASSUME NEW V \in SUBSET Types, NEW t \in Types,
               t \notin V => \A x \in Types : <<V \cup {t}, x>> \in N
        PROVE  <<V, t>> \in N
    <2>1. <<V, t>> \in Nodes
        BY DEF Nodes
    <2> SUFFICES c[<<V, t>>] \in SoundFor(gr, t)
        BY <2>1
    <2>2. CASE t \in Prims
      <3>1. c[<<V, t>>] = R!Given
          BY <2>2 DEF SearchSays
      <3> QED  BY <1>1, <2>2, <3>1 DEF R!Given, SoundFor
    <2>3. CASE t \notin Prims /\ Blocked(c, gr, given, strict, V, t)
      <3>1. c[<<V, t>>] = R!Broken
          BY <2>3 DEF SearchSays
      <3> QED  BY <1>1, <3>1 DEF R!Broken, SoundFor
    <2>4. CASE t \notin Prims /\ ~Blocked(c, gr, given, strict, V, t)
      <3>1. c[<<V, t>>] = Complete(c, gr, V, t)
          BY <2>4 DEF SearchSays
      <3>2. t \notin V /\ gr.producers[t] # <<>> /\ ~Failing(c, gr, V, t)
          BY <2>4 DEF Blocked
      <3>3. \A x \in Types : c[<<V \cup {t}, x>>] \in SoundFor(gr, x)
          BY <1>2, <3>2
      <3> DEFINE all == AllParts(c, gr, V, t)
                 st == [tool |-> FirstMaker(gr, t), type |-> t]
      <3>4. /\ all \in Sound(gr)
            /\ \A i \in DOMAIN Ins(gr, t) : Ins(gr, t)[i].type \notin Prims =>
                  \E h \in DOMAIN all : all[h].type = Ins(gr, t)[i].type
        <4>1. AllParts(c, gr, V, t) \in Sound(gr) /\ InputsMade(c, gr, V, t)
            BY <3>2, <3>3, PartsSound, Zenon
        <4> QED  BY <4>1 DEF InputsMade
      <3>5. st \in StepOf(gr)
          BY <2>4, <3>2, InsTyped DEF StepOf, ChainStep
      <3>6. \A x \in R!ToSet(gr.inputs[st.tool]) :
               x.type \in Prims \/ \E h \in DOMAIN all : all[h].type = x.type
        <4>1. st.tool = FirstMaker(gr, t)
            OBVIOUS
        <4> HIDE DEF all, st
        <4> QED  BY <3>2, <3>4, <4>1, InsTyped
      <3>7. Append(all, st) \in Sound(gr)
        <4> HIDE DEF all, st
        <4> QED  BY <3>4, <3>5, <3>6, SoundExtends
      <3>8. Makes(Append(all, st), t)
        <4>1. all \in Seq(StepOf(gr)) /\ st.type = t
            BY <3>4 DEF Sound
        <4> HIDE DEF all, st
        <4>2. Append(all, st) # <<>> /\ R!Last(Append(all, st)) = st
            BY <4>1, <3>5, AppendProperties DEF R!Last
        <4> QED  BY <4>1, <4>2 DEF Makes
      <3>9. c[<<V, t>>] = [ok |-> TRUE, steps |-> Append(all, st)]
          BY <3>1 DEF Complete, AllParts
      <3> DEFINE q == Append(all, st)
      <3>10. q \in Sound(gr) /\ Makes(q, t) /\ c[<<V, t>>] = [ok |-> TRUE, steps |-> q]
          BY <3>7, <3>8, <3>9
      <3> HIDE DEF q
      <3> QED  BY <3>10 DEF SoundFor
    <2> QED  BY <2>2, <2>3, <2>4
  <1>3. \A V \in SUBSET Types, t \in Types : <<V, t>> \in N
    <2> HIDE DEF N
    <2> QED  BY <1>2, SearchInduction
  <1> QED  BY <1>3

\* A set of types of which each has no producer, or a first one that takes one of
\* the set.
Hopeless(gr, ts) ==
    \A t \in ts : \/ gr.producers[t] = <<>>
                  \/ \E x \in R!ToSet(gr.inputs[Head(gr.producers[t])]) : x.type \in ts

\* A set of types that cannot be had by a search that has come over V.
HopelessFrom(gr, V, ts) ==
    \A s \in ts : \/ s \in V \/ gr.producers[s] = <<>>
                  \/ \E x \in R!ToSet(gr.inputs[Head(gr.producers[s])]) : x.type \in ts

\* A type that is not found is in such a set.
LEMMA NotFoundHopeless ==
    ASSUME NEW gr \in Graph, NEW given, NEW c, SearchSays(c, gr, given, FALSE)
    PROVE  \A V \in SUBSET Types, t \in Types :
              ~c[<<V, t>>].ok => \E ts \in SUBSET (Types \ Prims) : t \in ts /\ HopelessFrom(gr, V, ts)
  <1> DEFINE Lost(p) == \E ts \in SUBSET (Types \ Prims) : p[2] \in ts /\ HopelessFrom(gr, p[1], ts)
             N == {p \in Nodes : ~c[p].ok => Lost(p)}
  <1>1. ASSUME NEW V \in SUBSET Types, NEW t \in Types,
               t \notin V => \A x \in Types : <<V \cup {t}, x>> \in N
        PROVE  <<V, t>> \in N
    <2>1. <<V, t>> \in Nodes
        BY DEF Nodes
    <2> SUFFICES ASSUME ~c[<<V, t>>].ok
                 PROVE  \E ts \in SUBSET (Types \ Prims) : t \in ts /\ HopelessFrom(gr, V, ts)
        BY <2>1
    <2>2. t \notin Prims /\ Blocked(c, gr, given, FALSE, V, t)
      <3>1. R!Given.ok /\ Complete(c, gr, V, t).ok
          BY DEF R!Given, Complete
      <3> QED  BY <3>1 DEF SearchSays
    <2>3. CASE t \in V \/ gr.producers[t] = <<>>
      <3>1. {t} \in SUBSET (Types \ Prims) /\ HopelessFrom(gr, V, {t})
          BY <2>2, <2>3 DEF HopelessFrom
      <3> QED  BY <3>1
    <2>4. CASE t \notin V /\ gr.producers[t] # <<>> /\ Failing(c, gr, V, t)
      <3>1. PICK i \in DOMAIN Ins(gr, t) : /\ Ins(gr, t)[i].type \notin Prims
                                           /\ ~c[<<V \cup {t}, Ins(gr, t)[i].type>>].ok
          BY <2>4 DEF Failing
      <3> DEFINE x == Ins(gr, t)[i]
      <3>2. x.type \in Types /\ x \in R!ToSet(gr.inputs[Head(gr.producers[t])])
          BY <2>4, InsTyped DEF FirstMaker
      <3> HIDE DEF x
      <3>3. PICK ts \in SUBSET (Types \ Prims) : x.type \in ts /\ HopelessFrom(gr, V \cup {t}, ts)
        <4>1. <<V \cup {t}, x.type>> \in N
            BY <1>1, <2>4, <3>2
        <4>2. ~c[<<V \cup {t}, x.type>>].ok
            BY <3>1 DEF x
        <4> QED  BY <4>1, <4>2
      <3> DEFINE us == ts \cup {t}
      <3>4. us \in SUBSET (Types \ Prims) /\ t \in us
          BY <2>2
      <3>5. ASSUME NEW s \in us
            PROVE  \/ s \in V \/ gr.producers[s] = <<>>
                   \/ \E y \in R!ToSet(gr.inputs[Head(gr.producers[s])]) : y.type \in us
        <4>1. CASE s = t
            BY <3>2, <3>3, <4>1
        <4>2. CASE s # t
            BY <3>3, <4>2 DEF HopelessFrom
        <4> QED  BY <4>1, <4>2
      <3>6. HopelessFrom(gr, V, us)
        <4> HIDE DEF us
        <4> QED  BY <3>5 DEF HopelessFrom
      <3> HIDE DEF us
      <3> QED  BY <3>4, <3>6
    <2> QED  BY <2>2, <2>3, <2>4 DEF Blocked
  <1>2. \A V \in SUBSET Types, t \in Types : <<V, t>> \in N
    <2> HIDE DEF N
    <2> QED  BY <1>1, SearchInduction
  <1> QED  BY <1>2

\* Of every graph the chains that are shown are sound, and a type that is not shown
\* is in a hopeless set.
LEMMA ChainsFollow ==
    ASSUME NEW gr \in Graph
    PROVE  /\ \A t \in R!Capabilities(gr) : LET steps == R!Resolve(gr, t, {}, FALSE).steps
                                          IN  steps \in Sound(gr) /\ Makes(steps, t)
           /\ \A t \in (Types \ Prims) \ R!Capabilities(gr) :
                 \E ts \in SUBSET (Types \ Prims) : t \in ts /\ Hopeless(gr, ts)
  <1>1. PICK c : /\ \A t \in Types : R!Resolve(gr, t, {}, FALSE) = c[<<{}, t>>]
                 /\ SearchSays(c, gr, {}, FALSE)
      BY SearchCases
  <1> DEFINE found(t) == c[<<{}, t>>]
  <1>2. \A t \in Types : found(t) \in SoundFor(gr, t)
      BY <1>1, SearchIsSound
  <1>3. ASSUME NEW t \in Types \ Prims
        PROVE  found(t).ok => gr.producers[t] # <<>>
    <2>1. gr.producers[t] = <<>> => Blocked(c, gr, {}, FALSE, {}, t)
        BY DEF Blocked
    <2>2. gr.producers[t] = <<>> => c[<<{}, t>>] = R!Broken
        BY <1>1, <2>1 DEF SearchSays
    <2> QED  BY <2>2 DEF R!Broken
  <1>4. \A t \in Types \ Prims : t \in R!Capabilities(gr) <=> found(t).ok
      BY <1>1, <1>3 DEF R!Capabilities
  <1>5. ASSUME NEW t \in R!Capabilities(gr)
        PROVE  LET steps == R!Resolve(gr, t, {}, FALSE).steps
               IN  steps \in Sound(gr) /\ Makes(steps, t)
    <2>1. t \in Types \ Prims
        BY DEF R!Capabilities
    <2> QED  BY <1>1, <1>2, <1>4, <2>1 DEF SoundFor
  <1>6. ASSUME NEW t \in (Types \ Prims) \ R!Capabilities(gr)
        PROVE  \E ts \in SUBSET (Types \ Prims) : t \in ts /\ Hopeless(gr, ts)
    <2>1. ~c[<<{}, t>>].ok
        BY <1>4
    <2>2. PICK ts \in SUBSET (Types \ Prims) : t \in ts /\ HopelessFrom(gr, {}, ts)
        BY <1>1, <2>1, NotFoundHopeless
    <2>3. Hopeless(gr, ts)
        BY <2>2 DEF Hopeless, HopelessFrom
    <2> QED  BY <2>2, <2>3
  <1> QED  BY <1>5, <1>6

\* What the search found at p, and all that its tools must be given is given.
Satisfied(c, gr, given, p) ==
    /\ c[p].ok
    /\ \A i \in DOMAIN c[p].steps : ~R!MissesInput(gr.inputs[c[p].steps[i].tool], given)

\* c is a search that asks for no input, d one that may insist on them.
BothSay(c, d, gr, given) ==
    SearchSays(c, gr, {}, FALSE) /\ SearchSays(d, gr, given, TRUE)

\* A search that insists on the inputs finds then what the other one found.
LEMMA InsistingFindsTheSame ==
    ASSUME NEW gr \in Graph, NEW given, NEW c, NEW d,
           BothSay(c, d, gr, given)
    PROVE  \A V \in SUBSET Types, t \in Types :
              Satisfied(c, gr, given, <<V, t>>) => d[<<V, t>>] = c[<<V, t>>]
  <1> DEFINE Enough(p) == \A i \in DOMAIN c[p].steps : ~R!MissesInput(gr.inputs[c[p].steps[i].tool], given)
             N == {p \in Nodes : c[p].ok /\ Enough(p) => d[p] = c[p]}
  <1>0. SearchSays(c, gr, {}, FALSE) /\ SearchSays(d, gr, given, TRUE)
      BY DEF BothSay
  <1>1. \A V \in SUBSET Types, t \in Types : c[<<V, t>>] \in SoundFor(gr, t)
      BY <1>0, SearchIsSound
  <1>2. ASSUME NEW V \in SUBSET Types, NEW t \in Types,
               t \notin V => \A x \in Types : <<V \cup {t}, x>> \in N
        PROVE  <<V, t>> \in N
    <2>1. <<V, t>> \in Nodes
        BY DEF Nodes
    <2> SUFFICES ASSUME c[<<V, t>>].ok, Enough(<<V, t>>) PROVE d[<<V, t>>] = c[<<V, t>>]
        BY <2>1
    <2>2. CASE t \in Prims
        BY <1>0, <2>2 DEF SearchSays
    <2>3. CASE t \notin Prims
      <3>1. ~Blocked(c, gr, {}, FALSE, V, t)
        <4>1. ~R!Broken.ok
            BY DEF R!Broken
        <4> QED  BY <1>0, <2>3, <4>1 DEF SearchSays
      <3>2. t \notin V /\ gr.producers[t] # <<>> /\ ~Failing(c, gr, V, t)
          BY <3>1 DEF Blocked
      <3>3. c[<<V, t>>] = Complete(c, gr, V, t)
          BY <1>0, <2>3, <3>1 DEF SearchSays
      <3> DEFINE all == AllParts(c, gr, V, t)
                 st == [tool |-> FirstMaker(gr, t), type |-> t]
                 steps == Append(all, st)
      <3>4. c[<<V, t>>].steps = steps
          BY <3>3 DEF Complete, AllParts
      <3>5. \A x \in Types : c[<<V \cup {t}, x>>] \in SoundFor(gr, x)
          BY <1>1
      <3>6. all \in Sound(gr) /\ StepsKept(c, gr, V, t)
          BY <3>2, <3>5, PartsSound, Zenon
      <3>7. /\ DOMAIN steps = 1 .. Len(all) + 1 /\ Len(all) \in Nat /\ DOMAIN all = 1 .. Len(all)
            /\ steps[Len(all) + 1] = st /\ \A h \in DOMAIN all : steps[h] = all[h]
        <4>1. all \in Seq(StepOf(gr)) /\ st \in StepOf(gr)
            BY <2>3, <3>2, <3>6, InsTyped DEF Sound, StepOf, ChainStep
        <4> HIDE DEF all, st
        <4> QED  BY <4>1, AppendProperties
      <3> HIDE DEF steps
      <3>8. ~R!MissesInput(gr.inputs[FirstMaker(gr, t)], given)
        <4>1. Len(all) + 1 \in DOMAIN steps
            BY <3>7
        <4>2. ~R!MissesInput(gr.inputs[steps[Len(all) + 1].tool], given)
            BY <3>4, <4>1
        <4> QED  BY <3>7, <4>2
      <3>9. \A h \in DOMAIN all : ~R!MissesInput(gr.inputs[all[h].tool], given)
        <4> SUFFICES ASSUME NEW h \in DOMAIN all PROVE ~R!MissesInput(gr.inputs[all[h].tool], given)
            OBVIOUS
        <4>1. h \in DOMAIN steps /\ steps[h] = all[h]
            BY <3>7
        <4>2. ~R!MissesInput(gr.inputs[steps[h].tool], given)
            BY <3>4, <4>1
        <4> QED  BY <4>1, <4>2
      <3>10. ASSUME NEW i \in DOMAIN Ins(gr, t), Ins(gr, t)[i].type \notin Prims
             PROVE  d[<<V \cup {t}, Ins(gr, t)[i].type>>] = c[<<V \cup {t}, Ins(gr, t)[i].type>>]
        <4> DEFINE p == <<V \cup {t}, Ins(gr, t)[i].type>>
        <4>1. c[p].ok
            BY <3>2, <3>10 DEF Failing
        <4>2. \A j \in DOMAIN c[p].steps : \E h \in DOMAIN all : all[h] = c[p].steps[j]
            BY <3>6, <3>10 DEF StepsKept
        <4>3. Enough(p)
          <5> HIDE DEF p, all
          <5> QED  BY <3>9, <4>2
        <4>4. p \in N
            BY <1>2, <3>2, InsTyped
        <4> QED  BY <4>1, <4>3, <4>4
      <3>11. Parts(d, gr, V, t) = Parts(c, gr, V, t)
          BY <3>10 DEF Parts
      <3>12. ~Failing(d, gr, V, t)
          BY <3>2, <3>10 DEF Failing
      <3>13. ~Blocked(d, gr, given, TRUE, V, t)
          BY <3>2, <3>8, <3>12 DEF Blocked
      <3>14. d[<<V, t>>] = Complete(d, gr, V, t)
          BY <1>0, <2>3, <3>13 DEF SearchSays
      <3>15. Complete(d, gr, V, t) = Complete(c, gr, V, t)
          BY <3>11 DEF Complete
      <3> QED  BY <3>3, <3>14, <3>15
    <2> QED  BY <2>2, <2>3
  <1>3. \A V \in SUBSET Types, t \in Types : <<V, t>> \in N
    <2> HIDE DEF N
    <2> QED  BY <1>2, SearchInduction
  <1> QED  BY <1>3 DEF Satisfied

\* The inputs that are shown as required are enough, in every graph.
LEMMA RequiredSufficeAlways ==
    ASSUME NEW gr \in Graph
    PROVE  R!RequiredSuffice(gr)
  <1> SUFFICES ASSUME NEW t \in R!Capabilities(gr)
               PROVE  LET steps == R!Resolve(gr, t, {}, FALSE).steps
                      IN  R!Resolve(gr, t, R!RequiredInputs(gr, steps), TRUE) = [ok |-> TRUE, steps |-> steps]
      BY DEF R!RequiredSuffice
  <1>1. t \in Types /\ R!Resolve(gr, t, {}, FALSE).ok
      BY DEF R!Capabilities
  <1> DEFINE steps == R!Resolve(gr, t, {}, FALSE).steps
             given == R!RequiredInputs(gr, steps)
  <1>2. PICK c : /\ \A x \in Types : R!Resolve(gr, x, {}, FALSE) = c[<<{}, x>>]
                 /\ SearchSays(c, gr, {}, FALSE)
      BY SearchCases
  <1> HIDE DEF steps
  <1>3. PICK d : /\ \A x \in Types : R!Resolve(gr, x, given, TRUE) = d[<<{}, x>>]
                 /\ SearchSays(d, gr, given, TRUE)
      BY SearchCases
  <1>4. c[<<{}, t>>].steps = steps /\ c[<<{}, t>>].ok /\ c[<<{}, t>>] \in SoundFor(gr, t)
      BY <1>1, <1>2, SearchIsSound DEF steps
  <1>5. ASSUME NEW i \in DOMAIN steps PROVE ~R!MissesInput(gr.inputs[steps[i].tool], given)
    <2> SUFFICES ASSUME NEW j \in DOMAIN gr.inputs[steps[i].tool],
                        gr.inputs[steps[i].tool][j].type \in Prims,
                        gr.inputs[steps[i].tool][j].required
                 PROVE  gr.inputs[steps[i].tool][j].param \in given
        BY DEF R!MissesInput
    <2> DEFINE x == gr.inputs[steps[i].tool][j]
    <2>1. x \in R!ToSet(gr.inputs[steps[i].tool])
        BY DEF R!ToSet
    <2> HIDE DEF x
    <2>2. x \in UNION {R!ToSet(gr.inputs[steps[k].tool]) : k \in DOMAIN steps}
        BY <2>1
    <2>3. x.type \in Prims /\ x.required
        BY DEF x
    <2>4. x.param \in given
        BY <2>2, <2>3 DEF R!RequiredInputs
    <2> QED  BY <2>4 DEF x
  <1> HIDE DEF given
  <1>6. d[<<{}, t>>] = c[<<{}, t>>]
    <2>1. Satisfied(c, gr, given, <<{}, t>>)
        BY <1>4, <1>5 DEF Satisfied
    <2>2. {} \in SUBSET Types
        OBVIOUS
    <2>3. BothSay(c, d, gr, given)
        BY <1>2, <1>3 DEF BothSay
    <2>4. \A V \in SUBSET Types, x \in Types :
             Satisfied(c, gr, given, <<V, x>>) => d[<<V, x>>] = c[<<V, x>>]
        BY <2>3, InsistingFindsTheSame
    <2> QED  BY <1>1, <2>1, <2>2, <2>4
  <1>7. c[<<{}, t>>] = [ok |-> TRUE, steps |-> steps]
      BY <1>4 DEF SoundFor
  <1>8. R!Resolve(gr, t, given, TRUE) = [ok |-> TRUE, steps |-> steps]
      BY <1>1, <1>3, <1>6, <1>7
  <1> QED  BY <1>8 DEF given, steps

(***************************************************************************)
(* What enters the graph.                                                   *)
(***************************************************************************)
\* The instance counts as this module does.
LEMMA SameSize == \A K : R!Cardinality(K) = Cardinality(K)
  BY DEF R!Cardinality, Cardinality

\* So often is a type among outputs.
LEMMA TimesFacts ==
    ASSUME NEW outs \in Seq(Types), NEW t
    PROVE  LET n == R!Cardinality({i \in DOMAIN outs : outs[i] = t})
           IN  n \in Nat /\ (n > 0 <=> t \in R!ToSet(outs))
  <1> DEFINE I == {i \in DOMAIN outs : outs[i] = t}
             n == R!Cardinality(I)
  <1>1. IsFiniteSet(1 .. Len(outs)) /\ I \in SUBSET (1 .. Len(outs))
      BY FS_Interval
  <1>2. I # {} <=> t \in R!ToSet(outs)
      BY DEF R!ToSet
  <1> HIDE DEF I
  <1>3. IsFiniteSet(I)
      BY <1>1, FS_Subset
  <1>4. n = Cardinality(I) /\ n \in Nat
      BY <1>3, SameSize, FS_CardinalityType
  <1>5. n = 0 <=> I = {}
      BY <1>3, <1>4, FS_EmptySet
  <1> HIDE DEF n
  <1>6. n \in Nat /\ (n > 0 <=> t \in R!ToSet(outs))
      BY <1>2, <1>4, <1>5
  <1> QED  BY <1>6 DEF n, I

\* A sequence with more of m behind it.
LEMMA WithMore ==
    ASSUME NEW q \in Seq(Mcps), NEW m \in Mcps, NEW n \in Nat
    PROVE  LET more == q \o [i \in 1 .. n |-> m]
           IN  /\ more \in Seq(Mcps)
               /\ \A x : x \in R!ToSet(more) <=> x \in R!ToSet(q) \/ (n > 0 /\ x = m)
  <1> DEFINE b == [i \in 1 .. n |-> m]
             more == q \o b
  <1>1. b \in Seq(Mcps) /\ Len(b) = n /\ \A i \in 1 .. n : b[i] = m
      BY Zenon, SMT
  <1> HIDE DEF b
  <1>2. /\ more \in Seq(Mcps) /\ Len(more) = Len(q) + n
        /\ \A i \in 1 .. Len(more) : more[i] = IF i <= Len(q) THEN q[i] ELSE b[i - Len(q)]
      BY <1>1, ConcatProperties
  <1>3. Len(q) \in Nat /\ DOMAIN q = 1 .. Len(q) /\ DOMAIN more = 1 .. Len(q) + n
      BY <1>2
  <1> HIDE DEF more
  <1>4. ASSUME NEW x, x \in R!ToSet(more) PROVE x \in R!ToSet(q) \/ (n > 0 /\ x = m)
    <2>1. PICK i \in 1 .. Len(q) + n : more[i] = x
        BY <1>3, <1>4 DEF R!ToSet
    <2>2. CASE i <= Len(q)
        BY <1>2, <1>3, <2>1, <2>2 DEF R!ToSet
    <2>3. CASE ~(i <= Len(q))
      <3>1. i - Len(q) \in 1 .. n /\ n > 0
          BY <1>3, <2>1, <2>3
      <3> QED  BY <1>1, <1>2, <1>3, <2>1, <2>3, <3>1
    <2> QED  BY <2>2, <2>3
  <1>5. ASSUME NEW x, x \in R!ToSet(q) PROVE x \in R!ToSet(more)
    <2>1. PICK i \in 1 .. Len(q) : q[i] = x
        BY <1>3, <1>5 DEF R!ToSet
    <2>2. i \in DOMAIN more /\ more[i] = x
        BY <1>2, <1>3, <2>1
    <2> QED  BY <2>2 DEF R!ToSet
  <1>6. ASSUME n > 0 PROVE m \in R!ToSet(more)
    <2>1. Len(q) + 1 \in DOMAIN more /\ more[Len(q) + 1] = b[1]
        BY <1>2, <1>3, <1>6
    <2>2. b[1] = m
        BY <1>1, <1>6
    <2> QED  BY <2>1, <2>2 DEF R!ToSet
  <1>7. more \in Seq(Mcps) /\ \A x : x \in R!ToSet(more) <=> x \in R!ToSet(q) \/ (n > 0 /\ x = m)
      BY <1>2, <1>4, <1>5, <1>6
  <1> QED  BY <1>7 DEF more, b

LEMMA ToolFacts ==
    ASSUME NEW d \in Tool
    PROVE  /\ d.outs \in Seq(Types) /\ d.ins \in Seq(R!Input)
           /\ d.typed \in BOOLEAN /\ d.malformed \in BOOLEAN
           /\ ~d.typed => R!ToSet(d.outs) = {} /\ R!ToSet(d.ins) = {}
           /\ R!ToSet(d.outs) \in SUBSET Types
  <1>1. CASE d \in ToolDefs
    <2>1. d.outs \in Seq(Types)
        BY <1>1, TypesAreFinite
    <2>2. R!ToSet(d.outs) \in SUBSET Types
        BY <2>1 DEF R!ToSet
    <2> QED  BY <1>1, <2>2, TypesAreFinite
  <1>2. CASE d = R!NoTool
      BY <1>2 DEF R!NoTool, R!ToSet
  <1> QED  BY <1>1, <1>2 DEF Tool

\* What a tool brings into a graph: itself as a maker of its outputs, and its inputs
\* unless it is malformed.
LEMMA EntersTells ==
    ASSUME NEW gr \in Graph, NEW m \in Mcps, NEW d \in Tool
    PROVE  LET g == R!WithManifest(gr, m, d)
           IN  /\ g \in Graph
               /\ \A n \in Mcps, t \in Types :
                     n \in R!ToSet(g.producers[t])
                        <=> n \in R!ToSet(gr.producers[t]) \/ (n = m /\ t \in R!ToSet(d.outs))
               /\ \A n \in Mcps : g.inputs[n] = IF n = m /\ d.typed /\ ~d.malformed
                                                THEN d.ins ELSE gr.inputs[n]
  <1> DEFINE g == R!WithManifest(gr, m, d)
  <1>1. CASE ~d.typed
      BY <1>1, ToolFacts DEF R!WithManifest
  <1>2. CASE d.typed
    <2> DEFINE prods == R!WithProducer(gr.producers, m, d.outs)
               inputs == IF d.malformed THEN gr.inputs ELSE [gr.inputs EXCEPT ![m] = d.ins]
    <2>1. g = [producers |-> prods, inputs |-> inputs]
        BY <1>2 DEF R!WithManifest
    <2>2. ASSUME NEW t \in Types
          PROVE  /\ prods[t] \in Seq(Mcps)
                 /\ \A x : x \in R!ToSet(prods[t])
                             <=> x \in R!ToSet(gr.producers[t]) \/ (t \in R!ToSet(d.outs) /\ x = m)
      <3> DEFINE n == R!Cardinality({i \in DOMAIN d.outs : d.outs[i] = t})
      <3>1. n \in Nat /\ (n > 0 <=> t \in R!ToSet(d.outs))
          BY ToolFacts, TimesFacts
      <3>2. gr.producers[t] \in Seq(Mcps)
          BY DEF Graph
      <3>3. prods[t] = gr.producers[t] \o [i \in 1 .. n |-> m]
          BY DEF R!WithProducer
      <3> HIDE DEF n, prods
      <3> QED  BY <3>1, <3>2, <3>3, WithMore
    <2>3. prods \in [Types -> Seq(Mcps)]
      <3>1. prods = [t \in Types |-> prods[t]]
          BY DEF R!WithProducer
      <3> HIDE DEF prods
      <3> QED  BY <2>2, <3>1
    <2>4. /\ inputs \in [Mcps -> Seq(R!Input)]
          /\ \A n \in Mcps : inputs[n] = IF n = m /\ ~d.malformed THEN d.ins ELSE gr.inputs[n]
        BY ToolFacts DEF Graph
    <2> HIDE DEF prods, inputs, g
    <2>5. g \in Graph
        BY <2>1, <2>3, <2>4 DEF Graph
    <2>6. g.producers = prods /\ g.inputs = inputs
        BY <2>1
    <2>7. \A n \in Mcps, t \in Types :
             n \in R!ToSet(g.producers[t])
                <=> n \in R!ToSet(gr.producers[t]) \/ (n = m /\ t \in R!ToSet(d.outs))
        BY <2>2, <2>6
    <2>8. \A n \in Mcps : g.inputs[n] = IF n = m /\ d.typed /\ ~d.malformed
                                        THEN d.ins ELSE gr.inputs[n]
        BY <1>2, <2>4, <2>6
    <2> QED  BY <2>5, <2>7, <2>8 DEF g
  <1> QED  BY <1>1, <1>2, ToolFacts

\* A set of numbers that is not empty has a largest one, which Max chooses.
LEMMA HasLargest ==
    ASSUME NEW n \in Nat
    PROVE  \A s \in SUBSET (1 .. n) : s # {} => \E m \in s : \A x \in s : m >= x
  <1> DEFINE Has(s) == \E m \in s : \A x \in s : m >= x
             Q == {k \in Nat : \A s \in SUBSET (1 .. k) : s # {} => Has(s)}
  <1>1. 0 \in Q
    <2>1. 1 .. 0 = {}
        OBVIOUS
    <2> QED  BY <2>1
  <1>2. ASSUME NEW k \in Nat, k \in Q PROVE k + 1 \in Q
    <2> SUFFICES ASSUME NEW s \in SUBSET (1 .. k + 1), s # {} PROVE Has(s)
        OBVIOUS
    <2>1. CASE k + 1 \in s
      <3>1. \A x \in s : k + 1 >= x
          OBVIOUS
      <3> QED  BY <2>1, <3>1
    <2>2. CASE k + 1 \notin s
      <3>1. s \in SUBSET (1 .. k)
          BY <2>2
      <3> QED  BY <1>2, <3>1
    <2> QED  BY <2>1, <2>2
  <1>3. n \in Q
    <2> HIDE DEF Q
    <2> QED  BY <1>1, <1>2, Induction
  <1> QED  BY <1>3

LEMMA MaxChosen ==
    ASSUME NEW n \in Nat, NEW s \in SUBSET (1 .. n), s # {}
    PROVE  R!Max(s) \in s
  <1>1. \E m \in s : \A x \in s : m >= x
      BY HasLargest
  <1> QED  BY <1>1 DEF R!Max

\* One step of the fold over a sequence of manifests.
Enter(mans, order, g, k) == R!WithManifest(g, order[k], mans[order[k]].tool)

\* What the fold says of the places s of the sequence.
FoldBody(f, gr, mans, order) ==
    [s \in SUBSET (DOMAIN order) |->
        IF s = {} THEN gr ELSE Enter(mans, order, f[s \ {R!Max(s)}], R!Max(s))]

LEMMA FoldsIs ==
    ASSUME NEW gr, NEW mans, NEW order
    PROVE  R!WithManifests(gr, mans, order)
              = (CHOOSE f : f = FoldBody(f, gr, mans, order))[DOMAIN order]
  BY DEF R!WithManifests, R!FoldLeft, R!MapThenFoldSet, FoldBody, Enter

\* What holds of no manifest, and stays when one more enters, holds of the sequence.
LEMMA FoldInduction ==
    ASSUME NEW gr \in Graph, NEW mans, NEW order, NEW n \in Nat, DOMAIN order = 1 .. n,
           \A k \in 1 .. n : order[k] \in Mcps /\ mans[order[k]].tool \in Tool,
           NEW N, <<{}, gr>> \in N,
           \A g \in Graph, s \in SUBSET (1 .. n), k \in 1 .. n :
              k \in s /\ <<s \ {k}, g>> \in N => <<s, Enter(mans, order, g, k)>> \in N
    PROVE  /\ R!WithManifests(gr, mans, order) \in Graph
           /\ <<1 .. n, R!WithManifests(gr, mans, order)>> \in N
  <1> DEFINE D == 1 .. n
             Up(k) == {s \in SUBSET D : Cardinality(s) <= k}
             Holds(f, s) == f[s] = IF s = {} THEN gr
                                   ELSE Enter(mans, order, f[s \ {R!Max(s)}], R!Max(s))
             Q == {k \in Nat : \E f \in [Up(k) -> Graph] : \A s \in Up(k) : Holds(f, s)}
  <1>1. ASSUME NEW g \in Graph, NEW k \in D PROVE Enter(mans, order, g, k) \in Graph
      BY EntersTells DEF Enter
  <1>2. ASSUME NEW s \in SUBSET D PROVE IsFiniteSet(s) /\ Cardinality(s) \in Nat
    <2>1. IsFiniteSet(1 .. n)
        BY FS_Interval
    <2> QED  BY <2>1, FS_Subset, FS_CardinalityType
  <1>3. ASSUME NEW k \in Nat, NEW s \in Up(k + 1), s # {}
        PROVE  R!Max(s) \in D /\ R!Max(s) \in s /\ s \ {R!Max(s)} \in Up(k)
    <2>1. R!Max(s) \in s
        BY <1>3, MaxChosen
    <2>2. Cardinality(s \ {R!Max(s)}) = Cardinality(s) - 1
        BY <1>2, <2>1, FS_RemoveElement
    <2>3. Cardinality(s) <= k + 1 /\ Cardinality(s) \in Nat
        BY <1>2
    <2>4. Cardinality(s \ {R!Max(s)}) <= k
        BY <2>2, <2>3
    <2> QED  BY <2>1, <2>4
  <1>none. ASSUME NEW s \in Up(0) PROVE s = {}
    <2>1. IsFiniteSet(s) /\ Cardinality(s) \in Nat /\ Cardinality(s) <= 0
        BY <1>2
    <2>2. Cardinality(s) = 0
        BY <2>1
    <2> QED  BY <2>1, <2>2, FS_EmptySet
  <1>4. 0 \in Q
    <2> DEFINE f == [s \in Up(0) |-> gr]
    <2>2. f \in [Up(0) -> Graph] /\ \A s \in Up(0) : Holds(f, s)
        BY <1>none
    <2> QED  BY <2>2
  <1>5. ASSUME NEW k \in Nat, k \in Q PROVE k + 1 \in Q
    <2>1. PICK f \in [Up(k) -> Graph] : \A s \in Up(k) : Holds(f, s)
        BY <1>5
    <2> DEFINE g == [s \in Up(k + 1) |->
                       IF s = {} THEN gr ELSE Enter(mans, order, f[s \ {R!Max(s)}], R!Max(s))]
    <2>2. g \in [Up(k + 1) -> Graph]
      <3> SUFFICES ASSUME NEW s \in Up(k + 1), s # {}
                   PROVE  Enter(mans, order, f[s \ {R!Max(s)}], R!Max(s)) \in Graph
          OBVIOUS
      <3>1. R!Max(s) \in D /\ s \ {R!Max(s)} \in Up(k)
          BY <1>3
      <3> HIDE DEF Up, D
      <3>2. f[s \ {R!Max(s)}] \in Graph
          BY <3>1
      <3> QED  BY <1>1, <3>1, <3>2
    <2>3. \A s \in Up(k) : s \in Up(k + 1)
      <3> SUFFICES ASSUME NEW s \in Up(k) PROVE Cardinality(s) <= k + 1
          OBVIOUS
      <3>1. Cardinality(s) \in Nat /\ Cardinality(s) <= k
          BY <1>2
      <3> QED  BY <3>1
    <2>4. \A s \in Up(k) : g[s] = f[s]
        BY <2>1, <2>3
    <2>5. ASSUME NEW s \in Up(k + 1) PROVE Holds(g, s)
      <3>1. CASE s = {}
          BY <3>1
      <3>2. CASE s # {}
        <4>1. g[s \ {R!Max(s)}] = f[s \ {R!Max(s)}]
            BY <1>3, <2>4, <3>2
        <4> QED  BY <3>2, <4>1
      <3> QED  BY <3>1, <3>2
    <2>6. k + 1 \in Nat
        OBVIOUS
    <2> HIDE DEF g, Up, Holds
    <2>7. \E h \in [Up(k + 1) -> Graph] : \A s \in Up(k + 1) : Holds(h, s)
        BY <2>2, <2>5
    <2> QED  BY <2>6, <2>7
  <1>6. n \in Q
    <2> HIDE DEF Q
    <2> QED  BY <1>4, <1>5, Induction
  <1>7. Up(n) = SUBSET D
    <2> SUFFICES ASSUME NEW s \in SUBSET D PROVE Cardinality(s) <= n
        OBVIOUS
    <2>1. IsFiniteSet(1 .. n) /\ Cardinality(1 .. n) = n
        BY FS_Interval
    <2>2. Cardinality(s) <= Cardinality(1 .. n)
        BY <2>1, FS_Subset
    <2> QED  BY <2>1, <2>2
  <1>8. PICK f \in [Up(n) -> Graph] : \A s \in Up(n) : Holds(f, s)
      BY <1>6
  <1>9. f = FoldBody(f, gr, mans, order)
      BY <1>7, <1>8 DEF FoldBody
  <1> DEFINE fold == CHOOSE h : h = FoldBody(h, gr, mans, order)
  <1>10. fold = FoldBody(fold, gr, mans, order)
      BY <1>9
  <1> HIDE DEF fold
  <1>11. \A s \in SUBSET D : Holds(fold, s)
      BY <1>10 DEF FoldBody
  <1> DEFINE Good(s) == fold[s] \in Graph /\ <<s, fold[s]>> \in N
             W == {k \in Nat : \A s \in Up(k) : Good(s)}
  <1>12. 0 \in W
    <2> SUFFICES ASSUME NEW s \in Up(0) PROVE Good(s)
        OBVIOUS
    <2> QED  BY <1>11, <1>none
  <1>13. ASSUME NEW k \in Nat, k \in W PROVE k + 1 \in W
    <2> SUFFICES ASSUME NEW s \in Up(k + 1) PROVE Good(s)
        OBVIOUS
    <2>1. CASE s = {}
        BY <1>11, <2>1
    <2>2. CASE s # {}
      <3>1. R!Max(s) \in D /\ R!Max(s) \in s /\ s \ {R!Max(s)} \in Up(k)
          BY <1>3, <2>2
      <3>2. Good(s \ {R!Max(s)})
          BY <1>13, <3>1
      <3>3. Enter(mans, order, fold[s \ {R!Max(s)}], R!Max(s)) \in Graph
          BY <1>1, <3>1, <3>2
      <3>4. <<s, Enter(mans, order, fold[s \ {R!Max(s)}], R!Max(s))>> \in N
          BY <3>1, <3>2
      <3> QED  BY <1>11, <2>2, <3>3, <3>4
    <2> QED  BY <2>1, <2>2
  <1>14. n \in W
    <2> HIDE DEF W
    <2> QED  BY <1>12, <1>13, Induction
  <1>15. Good(1 .. n)
      BY <1>7, <1>14
  <1> QED  BY <1>15, FoldsIs DEF fold

\* The names at the places s of a sequence.
NamesAt(order, s) == {order[k] : k \in s}

\* What g has more than gr: the tools of the manifests of names.
Brought(gr, mans, names, g) ==
    /\ \A m \in Mcps, t \in Types :
          m \in R!ToSet(g.producers[t])
             <=> m \in R!ToSet(gr.producers[t]) \/ (m \in names /\ t \in R!ToSet(mans[m].tool.outs))
    /\ \A m \in Mcps :
          g.inputs[m] = IF m \in names /\ mans[m].tool.typed /\ ~mans[m].tool.malformed
                        THEN mans[m].tool.ins ELSE gr.inputs[m]

\* The manifests of a sequence, entered one after the other.
LEMMA FoldsTell ==
    ASSUME NEW gr \in Graph, NEW mans, NEW order, NEW n \in Nat, DOMAIN order = 1 .. n,
           \A k \in 1 .. n : order[k] \in Mcps /\ mans[order[k]].tool \in Tool
    PROVE  /\ R!WithManifests(gr, mans, order) \in Graph
           /\ Brought(gr, mans, NamesAt(order, 1 .. n), R!WithManifests(gr, mans, order))
  <1> DEFINE N == {p \in (SUBSET (1 .. n)) \X Graph : Brought(gr, mans, NamesAt(order, p[1]), p[2])}
  <1>1. <<{}, gr>> \in N
      BY DEF Brought, NamesAt
  <1>2. ASSUME NEW g \in Graph, NEW s \in SUBSET (1 .. n), NEW k \in 1 .. n,
               k \in s, <<s \ {k}, g>> \in N
        PROVE  <<s, Enter(mans, order, g, k)>> \in N
    <2> DEFINE h == Enter(mans, order, g, k)
               x == order[k]
               d == mans[x].tool
               old == NamesAt(order, s \ {k})
    <2>1. /\ h \in Graph
          /\ \A m \in Mcps, t \in Types :
                m \in R!ToSet(h.producers[t])
                   <=> m \in R!ToSet(g.producers[t]) \/ (m = x /\ t \in R!ToSet(d.outs))
          /\ \A m \in Mcps : h.inputs[m] = IF m = x /\ d.typed /\ ~d.malformed
                                           THEN d.ins ELSE g.inputs[m]
        BY EntersTells DEF Enter
    <2>2. NamesAt(order, s) = old \cup {x}
        BY <1>2 DEF NamesAt
    <2>3. Brought(gr, mans, old, g)
        BY <1>2
    <2> HIDE DEF h, old
    <2>4. \A m \in Mcps, t \in Types :
             m \in R!ToSet(g.producers[t])
                <=> m \in R!ToSet(gr.producers[t]) \/ (m \in old /\ t \in R!ToSet(mans[m].tool.outs))
        BY <2>3 DEF Brought
    <2>5. \A m \in Mcps :
             g.inputs[m] = IF m \in old /\ mans[m].tool.typed /\ ~mans[m].tool.malformed
                           THEN mans[m].tool.ins ELSE gr.inputs[m]
        BY <2>3 DEF Brought
    <2> HIDE DEF x
    <2>6. \A m \in Mcps, t \in Types :
             m \in R!ToSet(h.producers[t])
                <=> \/ m \in R!ToSet(gr.producers[t])
                    \/ m \in old \cup {x} /\ t \in R!ToSet(mans[m].tool.outs)
        BY <2>1, <2>4
    <2>7. \A m \in Mcps :
             h.inputs[m] = IF m \in old \cup {x} /\ mans[m].tool.typed /\ ~mans[m].tool.malformed
                           THEN mans[m].tool.ins ELSE gr.inputs[m]
        BY <2>1, <2>5
    <2>8. Brought(gr, mans, NamesAt(order, s), h)
        BY <2>2, <2>6, <2>7 DEF Brought
    <2> QED  BY <2>1, <2>8 DEF h
  <1> HIDE DEF N
  <1>3. /\ R!WithManifests(gr, mans, order) \in Graph
        /\ <<1 .. n, R!WithManifests(gr, mans, order)>> \in N
      BY <1>1, <1>2, FoldInduction
  <1> QED  BY <1>3 DEF N

(***************************************************************************)
(* The types of the registry, and the capabilities it shows.                *)
(***************************************************************************)
Holding == R!Manifest \cup {R!Absent}

LEMMA RegistryFacts ==
    /\ Seed \in [Mcps -> Holding]
    /\ FileOrder \in Seq(Mcps) /\ R!ToSet(FileOrder) = R!Seeded
    /\ \A m \in R!Seeded : ~Seed[m].tool.malformed
    /\ R!Seeded \subseteq Mcps
    /\ MaxRegistrations \in Nat
    /\ R!System \in Registrants \cup {R!System}
  BY PlatformAssumption DEF R!RegistryAssumption, R!Seeded, Holding

LEMMA McpsAreFinite == IsFiniteSet(Mcps)
  BY PlatformAssumption DEF R!RegistryAssumption, R!IsFiniteSet, IsFiniteSet

LEMMA HoldingFacts ==
    ASSUME NEW man \in Holding
    PROVE  /\ man # R!Absent <=> man \in R!Manifest
           /\ man # R!Absent => /\ man.tool \in Tool
                                /\ man.endpoint \in R!Endpoints
                                /\ man.access \in R!Policy /\ man.pii \in SUBSET Fields
  <1>1. man \in R!Manifest => "pii" \in DOMAIN man
      BY DEF R!Manifest
  <1>2. man \in R!Manifest => man # R!Absent
      BY <1>1, ManifestsArePresent
  <1> QED  BY <1>2 DEF Holding, R!Manifest, Tool

LEMMA ManifestWith ==
    ASSUME NEW man \in R!Manifest
    PROVE  /\ \A e \in R!Endpoints : [man EXCEPT !.endpoint = e] \in R!Manifest
           /\ \A a \in R!Policy, p \in SUBSET Fields : [man EXCEPT !.access = a, !.pii = p] \in R!Manifest
  BY DEF R!Manifest

LEMMA MergeIsPolicy ==
    ASSUME NEW seeded \in R!Policy, NEW given \in R!Policy
    PROVE  R!MergeAccess(seeded, given) \in R!Policy
  <1>1. \A a, b : R!Narrow(a, b) \subseteq a
      BY DEF R!Narrow
  <1> QED  BY <1>1 DEF R!MergeAccess, R!Policy

LEMMA WithEndpointTyped ==
    ASSUME NEW m \in Mcps, NEW man \in R!Manifest
    PROVE  R!WithEndpoint(m, man) \in R!Manifest
  <1>1. CASE R!EndpointSeeded(m)
    <2>1. Seed[m].endpoint \in R!Endpoints
        BY <1>1, SeedFacts DEF R!EndpointSeeded, R!Manifest
    <2>2. [man EXCEPT !.endpoint = Seed[m].endpoint] \in R!Manifest
        BY <2>1, ManifestWith
    <2> QED  BY <1>1, <2>2 DEF R!WithEndpoint
  <1>2. CASE ~R!EndpointSeeded(m)
      BY <1>2 DEF R!WithEndpoint
  <1> QED  BY <1>1, <1>2

LEMMA MergedTyped ==
    ASSUME NEW m \in Mcps, NEW man \in R!Manifest
    PROVE  Merged(m, man) \in R!Manifest
  <1> DEFINE there == R!WithEndpoint(m, man)
  <1>1. there \in R!Manifest
      BY WithEndpointTyped
  <1> HIDE DEF there
  <1>2. CASE m \in R!Seeded
    <2> DEFINE a == R!MergeAccess(Seed[m].access, there.access)
               p == Seed[m].pii \cup there.pii
    <2>1. /\ Seed[m].access \in R!Policy /\ there.access \in R!Policy
          /\ Seed[m].pii \in SUBSET Fields /\ there.pii \in SUBSET Fields
        BY <1>1, <1>2, SeedFacts DEF R!Manifest
    <2>2. a \in R!Policy /\ p \in SUBSET Fields
        BY <2>1, MergeIsPolicy
    <2>3. Merged(m, man) = [there EXCEPT !.access = a, !.pii = p]
        BY <1>2 DEF Merged, R!MergeGuards, there
    <2> HIDE DEF a, p
    <2>4. \A b \in R!Policy, q \in SUBSET Fields : [there EXCEPT !.access = b, !.pii = q] \in R!Manifest
        BY <1>1, ManifestWith
    <2> QED  BY <2>2, <2>3, <2>4
  <1>3. CASE m \notin R!Seeded
      BY <1>1, <1>3 DEF Merged, R!MergeGuards, there
  <1> QED  BY <1>2, <1>3

LEMMA SeedTypedIs == R!SeedTyped \in [Mcps -> Holding]
  BY RegistryFacts DEF R!SeedTyped, Holding

LEMMA SeedGraphIs ==
    /\ R!SeedGraph \in Graph
    /\ Brought(R!EmptyGraph, Seed, R!Seeded, R!SeedGraph)
  <1>1. R!EmptyGraph \in Graph
    <2>1. <<>> \in Seq(Mcps) /\ <<>> \in Seq(R!Input)
        OBVIOUS
    <2> QED  BY <2>1 DEF R!EmptyGraph, Graph
  <1>2. Len(FileOrder) \in Nat /\ DOMAIN FileOrder = 1 .. Len(FileOrder)
      BY RegistryFacts
  <1>3. ASSUME NEW k \in 1 .. Len(FileOrder)
        PROVE  FileOrder[k] \in Mcps /\ Seed[FileOrder[k]].tool \in Tool
    <2>1. FileOrder[k] \in R!Seeded
        BY <1>2, RegistryFacts DEF R!ToSet
    <2> QED  BY <2>1, SeedFacts DEF R!Manifest, Tool
  <1>4. NamesAt(FileOrder, 1 .. Len(FileOrder)) = R!Seeded
      BY <1>2, RegistryFacts DEF NamesAt, R!ToSet
  <1>5. /\ R!WithManifests(R!EmptyGraph, Seed, FileOrder) \in Graph
        /\ Brought(R!EmptyGraph, Seed, R!Seeded, R!WithManifests(R!EmptyGraph, Seed, FileOrder))
      BY <1>1, <1>2, <1>3, <1>4, FoldsTell
  <1> QED  BY <1>5 DEF R!SeedGraph

LEMMA SeedDeclaredIs == R!SeedDeclared \in [Mcps -> SUBSET Types]
  <1>1. \A m \in R!Seeded : R!ToSet(Seed[m].tool.outs) \in SUBSET Types
    <2>1. \A m \in R!Seeded : Seed[m].tool \in Tool
        BY SeedFacts DEF R!Manifest, Tool
    <2> QED  BY <2>1, ToolFacts
  <1> QED  BY <1>1 DEF R!SeedDeclared

LEMMA RegistryIsTyped ==
    R!TypeOK <=>
        /\ manifests \in [Mcps -> Holding] /\ typed \in [Mcps -> Holding]
        /\ owner \in [Mcps -> Registrants \cup {R!System}]
        /\ typedOwner \in [Mcps -> Registrants \cup {R!System}]
        /\ graph \in Graph /\ declared \in [Mcps -> SUBSET Types]
        /\ agents \in [Mcps -> Registrants \cup {R!System}]
        /\ exported \in [tenant : Registrants \cup {R!System},
                         manifests : [Mcps -> Holding], typed : [Mcps -> Holding]]
        /\ imported \in SUBSET Mcps
        /\ registrations \in 0 .. MaxRegistrations
  BY DEF R!TypeOK, Holding, Graph

LEMMA InitTyped == R!Init => R!TypeOK
  <1> SUFFICES ASSUME R!Init PROVE R!TypeOK
      OBVIOUS
  <1>1. R!Absent \in Holding
      BY DEF Holding
  <1>2. R!NoFile \in [tenant : Registrants \cup {R!System},
                      manifests : [Mcps -> Holding], typed : [Mcps -> Holding]]
      BY <1>1 DEF R!NoFile
  <1>3. [m \in Mcps |-> R!System] \in [Mcps -> Registrants \cup {R!System}]
      OBVIOUS
  <1>4. 0 \in 0 .. MaxRegistrations
      BY RegistryFacts
  <1> QED  BY <1>2, <1>3, <1>4, RegistryFacts, SeedTypedIs, SeedGraphIs, SeedDeclaredIs,
            RegistryIsTyped DEF R!Init

LEMMA CountedTyped ==
    ASSUME R!TypeOK, R!Counted
    PROVE  registrations' \in 0 .. MaxRegistrations
  BY RegistryFacts DEF R!TypeOK, R!Counted

\* An import brings the tools of the typed manifests of the file.
LEMMA ImportBrings ==
    ASSUME R!TypeOK, R!Import
    PROVE  LET ofTyped == {m \in Mcps : exported.typed[m] # R!Absent}
           IN  graph' \in Graph /\ Brought(graph, exported.typed, ofTyped, graph')
  <1> DEFINE ofTyped == {m \in Mcps : exported.typed[m] # R!Absent}
             n == R!Cardinality(ofTyped)
  <1>1. graph \in Graph /\ exported.typed \in [Mcps -> Holding]
      BY RegistryIsTyped
  <1>2. PICK order \in R!SetToSeqs(ofTyped) : graph' = R!WithManifests(graph, exported.typed, order)
      BY DEF R!Import
  <1>3. ofTyped \in SUBSET Mcps /\ \A m \in ofTyped : exported.typed[m] \in R!Manifest
      BY <1>1, HoldingFacts
  <1>4. n \in Nat /\ n = Cardinality(ofTyped) /\ IsFiniteSet(ofTyped)
    <2>1. IsFiniteSet(ofTyped)
        BY <1>3, McpsAreFinite, FS_Subset
    <2> QED  BY <2>1, SameSize, FS_CardinalityType
  <1>5. /\ order \in [1 .. n -> ofTyped]
        /\ \A i, j \in 1 .. n : order[i] = order[j] => i = j
      BY <1>2 DEF R!SetToSeqs
  <1> HIDE DEF n, ofTyped
  <1>6. ASSUME NEW k \in 1 .. n PROVE order[k] \in Mcps /\ exported.typed[order[k]].tool \in Tool
    <2>1. order[k] \in ofTyped
        BY <1>5
    <2>2. exported.typed[order[k]] \in R!Manifest
        BY <1>3, <2>1
    <2> QED  BY <1>3, <2>1, <2>2 DEF R!Manifest, Tool
  <1>7. NamesAt(order, 1 .. n) = ofTyped
    <2>1. order \in Injection(1 .. n, ofTyped)
        BY <1>5 DEF Injection, IsInjective
    <2>2. IsFiniteSet(1 .. n) /\ Cardinality(1 .. n) = n
        BY <1>4, FS_Interval
    <2>3. order \in Surjection(1 .. n, ofTyped)
        BY <1>4, <2>1, <2>2, FS_Injection
    <2> QED  BY <2>3 DEF Surjection, NamesAt
  <1>8. /\ R!WithManifests(graph, exported.typed, order) \in Graph
        /\ Brought(graph, exported.typed, NamesAt(order, 1 .. n),
                   R!WithManifests(graph, exported.typed, order))
    <2>1. DOMAIN order = 1 .. n
        BY <1>5
    <2> QED  BY <1>1, <1>4, <1>6, <2>1, FoldsTell
  <1>9. graph' \in Graph /\ Brought(graph, exported.typed, ofTyped, graph')
      BY <1>2, <1>7, <1>8
  <1> QED  BY <1>9 DEF ofTyped

LEMMA ImportTyped ==
    ASSUME R!TypeOK, R!Import
    PROVE  R!TypeOK'
  <1> DEFINE ofTyped == {m \in Mcps : exported.typed[m] # R!Absent}
             ofPlain == {m \in Mcps : exported.manifests[m] # R!Absent}
             whole == {m \in ofTyped : ~exported.typed[m].tool.malformed}
             Owners == Registrants \cup {R!System}
  <1>1. /\ manifests \in [Mcps -> Holding] /\ typed \in [Mcps -> Holding]
        /\ owner \in [Mcps -> Owners] /\ typedOwner \in [Mcps -> Owners]
        /\ graph \in Graph /\ declared \in [Mcps -> SUBSET Types] /\ imported \in SUBSET Mcps
        /\ exported.tenant \in Owners
        /\ exported.manifests \in [Mcps -> Holding] /\ exported.typed \in [Mcps -> Holding]
      BY RegistryIsTyped
  <1>2. /\ manifests' = [m \in Mcps |-> R!ImportedManifest(m)]
        /\ typed' = [m \in Mcps |-> IF m \in ofTyped THEN exported.typed[m] ELSE typed[m]]
        /\ declared' = [m \in Mcps |-> IF m \in ofTyped
                                      THEN declared[m] \cup R!ToSet(exported.typed[m].tool.outs)
                                      ELSE declared[m]]
        /\ owner' = [m \in Mcps |-> IF m \in ofPlain \cup whole THEN exported.tenant ELSE owner[m]]
        /\ typedOwner' = [m \in Mcps |-> IF m \in whole THEN exported.tenant ELSE typedOwner[m]]
        /\ imported' = imported \cup ofPlain \cup ofTyped
        /\ UNCHANGED <<agents, exported>>
        /\ R!Counted
      BY DEF R!Import
  <1>4. ofTyped \in SUBSET Mcps /\ \A m \in ofTyped : exported.typed[m] \in R!Manifest
      BY <1>1, HoldingFacts
  <1>5. ASSUME NEW m \in Mcps PROVE R!ImportedManifest(m) \in Holding
    <2>1. exported.typed[m] \in Holding /\ exported.manifests[m] \in Holding /\ manifests[m] \in Holding
        BY <1>1
    <2>2. CASE exported.typed[m] # R!Absent
      <3>1. R!Open \in R!Policy /\ {} \in SUBSET Fields
          BY DEF R!Open, R!Policy
      <3>2. [exported.typed[m] EXCEPT !.access = R!Open, !.pii = {}] \in R!Manifest
          BY <1>4, <2>2, <3>1, ManifestWith
      <3> QED  BY <2>2, <3>2 DEF R!ImportedManifest, Holding
    <2>3. CASE exported.typed[m] = R!Absent
        BY <2>1, <2>3 DEF R!ImportedManifest
    <2> QED  BY <2>2, <2>3
  <1>6. graph' \in Graph
      BY <1>1, ImportBrings
  <1>10. declared' \in [Mcps -> SUBSET Types]
    <2>1. \A m \in ofTyped : R!ToSet(exported.typed[m].tool.outs) \in SUBSET Types
      <3>1. \A m \in ofTyped : exported.typed[m].tool \in Tool
          BY <1>4 DEF R!Manifest, Tool
      <3> QED  BY <3>1, ToolFacts
    <2> HIDE DEF ofTyped
    <2> QED  BY <1>1, <1>2, <2>1
  <1>7. /\ manifests' \in [Mcps -> Holding] /\ typed' \in [Mcps -> Holding]
        /\ owner' \in [Mcps -> Owners] /\ typedOwner' \in [Mcps -> Owners]
        /\ imported' \in SUBSET Mcps
    <2> HIDE DEF Owners
    <2>1. manifests' \in [Mcps -> Holding]
        BY <1>2, <1>5
    <2>2. typed' \in [Mcps -> Holding]
        BY <1>1, <1>2
    <2>3. owner' \in [Mcps -> Owners] /\ typedOwner' \in [Mcps -> Owners]
        BY <1>1, <1>2
    <2>4. imported' \in SUBSET Mcps
        BY <1>1, <1>2
    <2> QED  BY <2>1, <2>2, <2>3, <2>4
  <1>8. /\ agents' \in [Mcps -> Owners]
        /\ exported' \in [tenant : Owners, manifests : [Mcps -> Holding], typed : [Mcps -> Holding]]
      BY <1>2, RegistryIsTyped
  <1>9. registrations' \in 0 .. MaxRegistrations
      BY <1>2, CountedTyped
  <1> HIDE DEF ofTyped, ofPlain, whole
  <1> QED  BY <1>6, <1>7, <1>8, <1>9, <1>10 DEF R!TypeOK, Holding, Graph

LEMMA RegisterTypes ==
    ASSUME R!TypeOK, NEW t \in Registrants, NEW m \in Mcps, NEW man \in Offers,
           R!Register(t, m, man) \/ R!RegisterTyped(t, m, man)
    PROVE  R!TypeOK'
  <1> DEFINE Owners == Registrants \cup {R!System}
  <1>1. man \in R!Manifest /\ man.tool \in Tool
      BY SeedFacts DEF R!Manifest, Tool
  <1>2. Merged(m, man) \in Holding /\ R!WithEndpoint(m, man) \in Holding
      BY <1>1, MergedTyped, WithEndpointTyped DEF Holding
  <1>3. /\ manifests \in [Mcps -> Holding] /\ typed \in [Mcps -> Holding]
        /\ owner \in [Mcps -> Owners] /\ typedOwner \in [Mcps -> Owners]
        /\ graph \in Graph /\ declared \in [Mcps -> SUBSET Types] /\ imported \in SUBSET Mcps
      BY RegistryIsTyped
  <1>4. /\ manifests' = [manifests EXCEPT ![m] = Merged(m, man)]
        /\ owner' = [owner EXCEPT ![m] = t]
        /\ imported' = imported \ {m}
        /\ UNCHANGED <<agents, exported>>
        /\ R!Counted
        /\ \/ UNCHANGED <<typed, typedOwner, graph, declared>>
           \/ /\ typed' = [typed EXCEPT ![m] = R!WithEndpoint(m, man)]
              /\ typedOwner' = [typedOwner EXCEPT ![m] = t]
              /\ graph' = R!WithManifest(graph, m, man.tool)
              /\ declared' = [declared EXCEPT ![m] = @ \cup R!ToSet(man.tool.outs)]
      BY DEF R!Register, R!RegisterTyped, Merged
  <1>5. graph' \in Graph /\ declared' \in [Mcps -> SUBSET Types]
    <2>1. R!WithManifest(graph, m, man.tool) \in Graph /\ R!ToSet(man.tool.outs) \in SUBSET Types
        BY <1>1, <1>3, EntersTells, ToolFacts
    <2> QED  BY <1>3, <1>4, <2>1
  <1>6. manifests' \in [Mcps -> Holding] /\ typed' \in [Mcps -> Holding]
      BY <1>2, <1>3, <1>4
  <1>7. owner' \in [Mcps -> Owners] /\ typedOwner' \in [Mcps -> Owners] /\ imported' \in SUBSET Mcps
      BY <1>3, <1>4
  <1>8. registrations' \in 0 .. MaxRegistrations
      BY <1>4, CountedTyped
  <1>9. /\ agents' \in [Mcps -> Owners]
        /\ exported' \in [tenant : Owners, manifests : [Mcps -> Holding], typed : [Mcps -> Holding]]
      BY <1>4, RegistryIsTyped
  <1> QED  BY <1>5, <1>6, <1>7, <1>8, <1>9 DEF R!TypeOK, Holding, Graph

LEMMA NextTyped == R!TypeOK /\ [R!Next]_R!vars => R!TypeOK'
  <1> SUFFICES ASSUME R!TypeOK, [R!Next]_R!vars PROVE R!TypeOK'
      OBVIOUS
  <1> DEFINE Owners == Registrants \cup {R!System}
             Files == [tenant : Owners, manifests : [Mcps -> Holding], typed : [Mcps -> Holding]]
  <1>0. /\ manifests \in [Mcps -> Holding] /\ typed \in [Mcps -> Holding]
        /\ owner \in [Mcps -> Owners] /\ typedOwner \in [Mcps -> Owners]
        /\ graph \in Graph /\ declared \in [Mcps -> SUBSET Types] /\ imported \in SUBSET Mcps
        /\ agents \in [Mcps -> Owners] /\ exported \in Files
        /\ registrations \in 0 .. MaxRegistrations
      BY RegistryIsTyped
  <1>1. CASE \E t \in Registrants, m \in Mcps, man \in Offers :
                R!Register(t, m, man) \/ R!RegisterTyped(t, m, man)
      BY <1>1, RegisterTypes
  <1>2. ASSUME NEW t \in Registrants, NEW m \in Mcps, R!RegisterAgent(t, m)
        PROVE  R!TypeOK'
    <2> DEFINE man == [endpoint |-> "safe", access |-> R!Open, pii |-> {}, tool |-> R!NoTool,
                     stdio |-> FALSE]
    <2>1. man \in Holding
        BY DEF Holding, R!Manifest, R!Endpoints, R!Open, R!Policy
    <2>2. /\ agents' = [agents EXCEPT ![m] = t]
          /\ manifests' = [manifests EXCEPT ![m] = man]
          /\ owner' = [owner EXCEPT ![m] = t]
          /\ imported' = imported \ {m}
          /\ UNCHANGED <<typed, typedOwner, graph, declared, exported>>
          /\ R!Counted
        BY <1>2 DEF R!RegisterAgent
    <2> HIDE DEF man
    <2>3. /\ manifests' \in [Mcps -> Holding] /\ owner' \in [Mcps -> Owners]
          /\ agents' \in [Mcps -> Owners] /\ imported' \in SUBSET Mcps
        BY <1>0, <2>1, <2>2
    <2>4. registrations' \in 0 .. MaxRegistrations
        BY <2>2, CountedTyped
    <2> QED  BY <1>0, <2>2, <2>3, <2>4 DEF R!TypeOK, Holding, Graph
  <1>3. ASSUME NEW t \in Registrants, R!Export(t) PROVE R!TypeOK'
    <2>1. exported' = R!Exported(t)
          /\ UNCHANGED <<manifests, typed, owner, typedOwner, graph, declared, agents, imported,
                        registrations>>
        BY <1>3 DEF R!Export
    <2>2. R!Exported(t) \in Files
      <3>1. R!Absent \in Holding
          BY DEF Holding
      <3>2. [m \in Mcps |-> IF owner[m] = t THEN manifests[m] ELSE R!Absent] \in [Mcps -> Holding]
          BY <1>0, <3>1
      <3>3. [m \in Mcps |-> IF t \in {owner[m], typedOwner[m]} THEN typed[m] ELSE R!Absent]
               \in [Mcps -> Holding]
          BY <1>0, <3>1
      <3> QED  BY <3>2, <3>3 DEF R!Exported
    <2> QED  BY <1>0, <2>1, <2>2 DEF R!TypeOK, Holding, Graph
  <1>4. CASE R!Import
      BY <1>4, ImportTyped
  <1>5. CASE R!Restart
    <2>1. [m \in Mcps |-> R!System] \in [Mcps -> Owners] /\ {} \in SUBSET Mcps
        OBVIOUS
    <2>2. /\ manifests' = Seed /\ typed' = R!SeedTyped /\ graph' = R!SeedGraph
          /\ declared' = R!SeedDeclared
          /\ owner' = [m \in Mcps |-> R!System] /\ typedOwner' = [m \in Mcps |-> R!System]
          /\ agents' = [m \in Mcps |-> R!System] /\ imported' = {} /\ exported' = exported
          /\ R!Counted
        BY <1>5 DEF R!Restart
    <2>3. /\ manifests' \in [Mcps -> Holding] /\ typed' \in [Mcps -> Holding] /\ graph' \in Graph
          /\ owner' \in [Mcps -> Owners] /\ typedOwner' \in [Mcps -> Owners]
          /\ agents' \in [Mcps -> Owners] /\ imported' \in SUBSET Mcps /\ exported' \in Files
          /\ declared' \in [Mcps -> SUBSET Types]
        BY <1>0, <2>1, <2>2, RegistryFacts, SeedTypedIs, SeedGraphIs, SeedDeclaredIs
    <2>4. registrations' \in 0 .. MaxRegistrations
        BY <2>2, CountedTyped
    <2> QED  BY <2>3, <2>4 DEF R!TypeOK, Holding, Graph
  <1>6. CASE UNCHANGED R!vars
      BY <1>6 DEF R!vars, R!TypeOK
  <1> QED  BY <1>1, <1>2, <1>3, <1>4, <1>5, <1>6 DEF R!Next

\* For any number of names, types, manifests and imports, every variable of the
\* registry keeps its type.
THEOREM RegistryTypes == PlatformSpec => []R!TypeOK
  <1> QED  BY InitTyped, NextTyped, PTL DEF PlatformSpec, R!Spec

\* What the graph tells of the manifests that stand: who made a type since the start,
\* and, unless malformed, the inputs of the tool that stands.
Tells(ty, de, gr) ==
    \A m \in Mcps :
       LET d == IF ty[m] = R!Absent THEN R!NoTool ELSE ty[m].tool
       IN  /\ \A t \in Types : t \in de[m] <=> m \in R!ToSet(gr.producers[t])
           /\ R!ToSet(d.outs) \subseteq de[m]
           /\ d.typed /\ ~d.malformed => gr.inputs[m] = d.ins

LEMMA SeedTells == Tells(R!SeedTyped, R!SeedDeclared, R!SeedGraph)
  <1> SUFFICES ASSUME NEW m \in Mcps
               PROVE  LET ty == R!SeedTyped[m]
                          d == IF ty = R!Absent THEN R!NoTool ELSE ty.tool
                      IN  /\ \A t \in Types : t \in R!SeedDeclared[m]
                                              <=> m \in R!ToSet(R!SeedGraph.producers[t])
                          /\ R!ToSet(d.outs) \subseteq R!SeedDeclared[m]
                          /\ d.typed /\ ~d.malformed => R!SeedGraph.inputs[m] = d.ins
      BY DEF Tells
  <1> DEFINE ty == R!SeedTyped[m]
             d == IF ty = R!Absent THEN R!NoTool ELSE ty.tool
  <1>1. \A t \in Types : R!EmptyGraph.producers[t] = <<>> /\ R!ToSet(<<>>) = {}
      BY DEF R!EmptyGraph, R!ToSet
  <1>2. \A t \in Types : m \in R!ToSet(R!SeedGraph.producers[t])
                           <=> m \in R!Seeded /\ t \in R!ToSet(Seed[m].tool.outs)
      BY <1>1, SeedGraphIs DEF Brought
  <1>3. R!SeedGraph.inputs[m] = IF m \in R!Seeded /\ Seed[m].tool.typed /\ ~Seed[m].tool.malformed
                                THEN Seed[m].tool.ins ELSE R!EmptyGraph.inputs[m]
      BY SeedGraphIs DEF Brought
  <1>4. ~R!NoTool.typed /\ R!ToSet(R!NoTool.outs) = {}
      BY DEF R!NoTool, R!ToSet
  <1>5. R!SeedDeclared[m] = IF m \in R!Seeded THEN R!ToSet(Seed[m].tool.outs) ELSE {}
      BY DEF R!SeedDeclared
  <1>6. ty = IF m \in R!Seeded /\ Seed[m].tool.typed THEN Seed[m] ELSE R!Absent
      BY DEF R!SeedTyped
  <1>7. m \in R!Seeded => R!ToSet(Seed[m].tool.outs) \in SUBSET Types
    <2>1. m \in R!Seeded => Seed[m].tool \in Tool
        BY SeedFacts DEF R!Manifest, Tool
    <2> QED  BY <2>1, ToolFacts
  <1>8. m \in R!Seeded => Seed[m] # R!Absent
      BY DEF R!Seeded
  <1> HIDE DEF ty
  <1> HIDE DEF d
  <1>9. \A t \in Types : t \in R!SeedDeclared[m] <=> m \in R!ToSet(R!SeedGraph.producers[t])
      BY <1>2, <1>5
  <1>10. R!ToSet(d.outs) \subseteq R!SeedDeclared[m]
         /\ (d.typed /\ ~d.malformed => R!SeedGraph.inputs[m] = d.ins)
    <2>1. CASE ty = R!Absent
      <3>1. d = R!NoTool
          BY <2>1 DEF d
      <3> QED  BY <1>4, <3>1
    <2>2. CASE ty # R!Absent
      <3>1. m \in R!Seeded /\ d = Seed[m].tool
          BY <1>6, <2>2 DEF d
      <3> QED  BY <1>3, <1>5, <3>1
    <2> QED  BY <2>1, <2>2
  <1> QED  BY <1>9, <1>10 DEF d, ty

\* The manifests of names stand where others stood.
Replaced(ty, de, mans, names, ty2, de2) ==
    /\ \A m \in names : mans[m] \in R!Manifest
    /\ \A m \in Mcps : ty2[m] = IF m \in names THEN mans[m] ELSE ty[m]
    /\ \A m \in Mcps : de2[m] = IF m \in names THEN de[m] \cup R!ToSet(mans[m].tool.outs) ELSE de[m]

\* More manifests stand and enter the graph.
LEMMA TellsMore ==
    ASSUME NEW ty \in [Mcps -> Holding], NEW de \in [Mcps -> SUBSET Types], NEW gr \in Graph,
           NEW ty2, NEW de2, NEW g2, Tells(ty, de, gr),
           NEW names \in SUBSET Mcps, NEW mans,
           Replaced(ty, de, mans, names, ty2, de2), Brought(gr, mans, names, g2)
    PROVE  Tells(ty2, de2, g2)
  <1> SUFFICES ASSUME NEW m \in Mcps
               PROVE  LET d == IF ty2[m] = R!Absent THEN R!NoTool ELSE ty2[m].tool
                      IN  /\ \A t \in Types : t \in de2[m] <=> m \in R!ToSet(g2.producers[t])
                          /\ R!ToSet(d.outs) \subseteq de2[m]
                          /\ d.typed /\ ~d.malformed => g2.inputs[m] = d.ins
      BY DEF Tells
  <1>1. LET d == IF ty[m] = R!Absent THEN R!NoTool ELSE ty[m].tool
        IN  /\ \A t \in Types : t \in de[m] <=> m \in R!ToSet(gr.producers[t])
            /\ R!ToSet(d.outs) \subseteq de[m]
            /\ d.typed /\ ~d.malformed => gr.inputs[m] = d.ins
      BY DEF Tells
  <1>2. /\ \A t \in Types : m \in R!ToSet(g2.producers[t])
              <=> m \in R!ToSet(gr.producers[t]) \/ (m \in names /\ t \in R!ToSet(mans[m].tool.outs))
        /\ g2.inputs[m] = IF m \in names /\ mans[m].tool.typed /\ ~mans[m].tool.malformed
                          THEN mans[m].tool.ins ELSE gr.inputs[m]
      BY DEF Brought
  <1>0. /\ m \in names => mans[m] \in R!Manifest
        /\ ty2[m] = IF m \in names THEN mans[m] ELSE ty[m]
        /\ de2[m] = IF m \in names THEN de[m] \cup R!ToSet(mans[m].tool.outs) ELSE de[m]
      BY DEF Replaced
  <1>3. CASE m \in names
    <2>1. mans[m] # R!Absent
        BY <1>0, <1>3, HoldingFacts DEF Holding
    <2> QED  BY <1>0, <1>1, <1>2, <1>3, <2>1
  <1>4. CASE m \notin names
      BY <1>0, <1>1, <1>2, <1>4
  <1> QED  BY <1>3, <1>4

GraphTells == Tells(typed, declared, graph)

LEMMA RegisterTells ==
    ASSUME R!TypeOK, GraphTells, NEW t \in Registrants, NEW m \in Mcps, NEW man \in Offers,
           R!RegisterTyped(t, m, man)
    PROVE  GraphTells'
  <1> DEFINE there == R!WithEndpoint(m, man)
             mans == [x \in {m} |-> there]
  <1>1. /\ typed \in [Mcps -> Holding] /\ graph \in Graph /\ declared \in [Mcps -> SUBSET Types]
      BY RegistryIsTyped
  <1>2. man \in R!Manifest /\ man.tool \in Tool
      BY SeedFacts DEF R!Manifest, Tool
  <1>3. there \in R!Manifest /\ there.tool = man.tool
    <2>1. there.tool = man.tool
        BY <1>2 DEF R!WithEndpoint, R!Manifest
    <2> QED  BY <1>2, <2>1, WithEndpointTyped
  <1>4. /\ typed' = [typed EXCEPT ![m] = there]
        /\ graph' = R!WithManifest(graph, m, man.tool)
        /\ declared' = [declared EXCEPT ![m] = @ \cup R!ToSet(man.tool.outs)]
      BY DEF R!RegisterTyped
  <1> HIDE DEF there
  <1>5. \A x \in {m} : mans[x] = there
      OBVIOUS
  <1> HIDE DEF mans
  <1>6. Brought(graph, mans, {m}, graph')
    <2>1. /\ \A n \in Mcps, s \in Types :
                n \in R!ToSet(graph'.producers[s])
                   <=> n \in R!ToSet(graph.producers[s]) \/ (n = m /\ s \in R!ToSet(man.tool.outs))
          /\ \A n \in Mcps : graph'.inputs[n] = IF n = m /\ man.tool.typed /\ ~man.tool.malformed
                                                THEN man.tool.ins ELSE graph.inputs[n]
        BY <1>1, <1>2, <1>4, EntersTells
    <2> QED  BY <1>3, <1>5, <2>1 DEF Brought
  <1>7. /\ \A n \in Mcps : typed'[n] = IF n \in {m} THEN mans[n] ELSE typed[n]
        /\ \A n \in Mcps : declared'[n] = IF n \in {m} THEN declared[n] \cup R!ToSet(mans[n].tool.outs)
                                           ELSE declared[n]
        /\ {m} \in SUBSET Mcps /\ Tells(typed, declared, graph)
      BY <1>1, <1>3, <1>4, <1>5 DEF GraphTells
  <1>8. \A x \in {m} : mans[x] \in R!Manifest
      BY <1>3, <1>5
  <1>9. Tells(typed', declared', graph')
    <2> DEFINE names == {m}
    <2>1. Replaced(typed, declared, mans, names, typed', declared')
        BY <1>7, <1>8 DEF Replaced
    <2>2. names \in SUBSET Mcps /\ Tells(typed, declared, graph) /\ Brought(graph, mans, names, graph')
        BY <1>6, <1>7
    <2> HIDE DEF names
    <2> QED  BY <1>1, <2>1, <2>2, TellsMore
  <1> QED  BY <1>9 DEF GraphTells

LEMMA NextTells == R!TypeOK /\ GraphTells /\ [R!Next]_R!vars => GraphTells'
  <1> SUFFICES ASSUME R!TypeOK, GraphTells, [R!Next]_R!vars PROVE GraphTells'
      OBVIOUS
  <1>0. ASSUME UNCHANGED <<typed, declared, graph>> PROVE GraphTells'
      BY <1>0 DEF GraphTells
  <1>1. ASSUME NEW t \in Registrants, NEW m \in Mcps, NEW man \in Offers,
               R!Register(t, m, man) \/ R!RegisterTyped(t, m, man)
        PROVE  GraphTells'
      BY <1>0, <1>1, RegisterTells DEF R!Register
  <1>2. ASSUME NEW t \in Registrants, NEW m \in Mcps, R!RegisterAgent(t, m)
        PROVE  GraphTells'
      BY <1>0, <1>2 DEF R!RegisterAgent
  <1>3. CASE \E t \in Registrants : R!Export(t)
      BY <1>0, <1>3 DEF R!Export
  <1>4. CASE R!Import
    <2> DEFINE ofTyped == {m \in Mcps : exported.typed[m] # R!Absent}
    <2>1. /\ typed \in [Mcps -> Holding] /\ graph \in Graph /\ declared \in [Mcps -> SUBSET Types]
          /\ exported.typed \in [Mcps -> Holding]
        BY RegistryIsTyped
    <2>2. /\ typed' = [m \in Mcps |-> IF m \in ofTyped THEN exported.typed[m] ELSE typed[m]]
          /\ declared' = [m \in Mcps |-> IF m \in ofTyped
                                        THEN declared[m] \cup R!ToSet(exported.typed[m].tool.outs)
                                        ELSE declared[m]]
        BY <1>4 DEF R!Import
    <2>3. Brought(graph, exported.typed, ofTyped, graph')
        BY <1>4, ImportBrings
    <2>4. \A m \in ofTyped : exported.typed[m] \in R!Manifest
        BY <2>1, HoldingFacts
    <2>5. ofTyped \in SUBSET Mcps
        OBVIOUS
    <2> HIDE DEF ofTyped
    <2>6. Replaced(typed, declared, exported.typed, ofTyped, typed', declared')
        BY <2>1, <2>2, <2>4 DEF Replaced
    <2>7. Tells(typed, declared, graph)
        BY DEF GraphTells
    <2>8. Tells(typed', declared', graph')
        BY <2>1, <2>3, <2>5, <2>6, <2>7, TellsMore
    <2> QED  BY <2>8 DEF GraphTells
  <1>5. CASE R!Restart
      BY <1>5, SeedTells DEF R!Restart, GraphTells
  <1>6. CASE UNCHANGED R!vars
      BY <1>0, <1>6 DEF R!vars
  <1> QED  BY <1>1, <1>2, <1>3, <1>4, <1>5, <1>6 DEF R!Next

\* The tool that stands, and what the graph tells of it.
LEMMA StandingFacts ==
    ASSUME R!TypeOK, GraphTells, NEW m \in Mcps
    PROVE  /\ R!Standing(m) \in Tool
           /\ \A t \in Types : t \in declared[m] <=> m \in R!ToSet(graph.producers[t])
           /\ R!Outs(m) \subseteq declared[m]
           /\ R!Malformed(m) \/ (R!Ins(m) = {} /\ R!Outs(m) = {})
                \/ R!Ins(m) = R!ToSet(graph.inputs[m])
  <1> DEFINE d == R!Standing(m)
  <1>1. d = IF typed[m] = R!Absent THEN R!NoTool ELSE typed[m].tool
      BY DEF R!Standing
  <1>2. d \in Tool
    <2>1. typed[m] \in Holding
        BY RegistryIsTyped
    <2> QED  BY <1>1, <2>1, HoldingFacts DEF Tool
  <1>3. /\ \A t \in Types : t \in declared[m] <=> m \in R!ToSet(graph.producers[t])
        /\ R!ToSet(d.outs) \subseteq declared[m]
        /\ d.typed /\ ~d.malformed => graph.inputs[m] = d.ins
      BY <1>1 DEF GraphTells, Tells
  <1>4. ~d.typed => R!ToSet(d.outs) = {} /\ R!ToSet(d.ins) = {}
      BY <1>2, ToolFacts
  <1> HIDE DEF d
  <1>5. R!Outs(m) = R!ToSet(d.outs) /\ R!Ins(m) = R!ToSet(d.ins) /\ R!Malformed(m) = d.malformed
      BY DEF R!Outs, R!Ins, R!Malformed, d
  <1>6. d.malformed \/ (R!ToSet(d.ins) = {} /\ R!ToSet(d.outs) = {})
          \/ R!ToSet(d.ins) = R!ToSet(graph.inputs[m])
    <2>1. d.typed \in BOOLEAN /\ d.malformed \in BOOLEAN
        BY <1>2, ToolFacts
    <2> QED  BY <1>3, <1>4, <2>1
  <1> QED  BY <1>2, <1>3, <1>5, <1>6 DEF d

\* A chain of the graph fits the manifests that stand.
LEMMA SoundFits ==
    ASSUME R!TypeOK, GraphTells, NEW steps \in Sound(graph), NEW t, Makes(steps, t)
    PROVE  R!ChainFits(steps, t)
  <1>1. graph \in Graph /\ steps \in Seq(StepOf(graph)) /\ Ordered(graph, steps)
      BY RegistryIsTyped DEF Sound
  <1>2. R!Last(steps).type = t
      BY DEF Makes
  <1>3. ASSUME NEW i \in DOMAIN steps
        PROVE  LET m == steps[i].tool
               IN  /\ steps[i].type \in R!Outs(m) \cup R!Withdrawn(m)
                   /\ \A x \in R!Ins(m) : \/ R!Malformed(m) \/ x.type \in Prims
                                           \/ \E h \in 1 .. i - 1 : steps[h].type = x.type
    <2> DEFINE m == steps[i].tool
               s == steps[i].type
    <2>1. steps[i] \in StepOf(graph)
        BY <1>1
    <2>2. m \in Mcps /\ s \in Types /\ graph.producers[s] # <<>> /\ m = Head(graph.producers[s])
        BY <2>1 DEF StepOf, ChainStep, FirstMaker
    <2> HIDE DEF s
    <2>3. m \in R!ToSet(graph.producers[s])
      <3>1. graph.producers[s] \in Seq(Mcps)
          BY <1>1, <2>2 DEF Graph
      <3> QED  BY <2>2, <3>1 DEF R!ToSet
    <2>4. \A x \in R!ToSet(graph.inputs[m]) :
             x.type \in Prims \/ \E h \in 1 .. i - 1 : steps[h].type = x.type
        BY <1>1 DEF Ordered
    <2> HIDE DEF m
    <2>5. s \in declared[m]
        BY <2>2, <2>3, StandingFacts
    <2>6. s \in R!Outs(m) \cup R!Withdrawn(m)
        BY <2>5 DEF R!Withdrawn
    <2>7. \A x \in R!Ins(m) : \/ R!Malformed(m) \/ x.type \in Prims
                              \/ \E h \in 1 .. i - 1 : steps[h].type = x.type
        BY <2>2, <2>4, StandingFacts
    <2> QED  BY <2>6, <2>7 DEF m, s
  <1> QED  BY <1>2, <1>3 DEF R!ChainFits

\* A hopeless set of types cannot be made by the manifests that stand.
LEMMA HopelessFits ==
    ASSUME R!TypeOK, GraphTells, NEW ts \in SUBSET (Types \ Prims), Hopeless(graph, ts)
    PROVE  R!NotToBeMade(ts)
  <1>1. graph \in Graph
      BY RegistryIsTyped
  <1> SUFFICES ASSUME NEW s \in ts, ~R!Contested(s), NEW m \in Mcps, s \in R!Outs(m)
               PROVE  \E x \in R!Ins(m) : x.type \in ts
      BY DEF R!NotToBeMade
  <1>2. s \in Types
      OBVIOUS
  <1>3. s \in declared[m]
      BY StandingFacts
  <1>4. ~R!Malformed(m) /\ \A n \in Mcps : s \in declared[n] => n = m
      BY <1>3 DEF R!Contested
  <1>5. m \in R!ToSet(graph.producers[s])
      BY <1>2, <1>3, StandingFacts
  <1>6. graph.producers[s] \in Seq(Mcps) /\ graph.producers[s] # <<>>
      BY <1>1, <1>2, <1>5 DEF Graph, R!ToSet
  <1> DEFINE first == Head(graph.producers[s])
  <1>7. first \in Mcps /\ first \in R!ToSet(graph.producers[s])
      BY <1>6 DEF R!ToSet
  <1>8. first = m
    <2> HIDE DEF first
    <2>1. s \in declared[first]
        BY <1>2, <1>7, StandingFacts
    <2> QED  BY <1>4, <1>7, <2>1
  <1>9. \E x \in R!ToSet(graph.inputs[m]) : x.type \in ts
      BY <1>6, <1>8 DEF Hopeless
  <1>10. R!Ins(m) = R!ToSet(graph.inputs[m])
      BY <1>4, StandingFacts
  <1> QED  BY <1>9, <1>10

LEMMA CapabilitiesFit == R!TypeOK /\ GraphTells => CapabilitiesStand
  <1> SUFFICES ASSUME R!TypeOK, GraphTells PROVE R!CapabilitiesStand
      BY DEF CapabilitiesStand
  <1>1. graph \in Graph
      BY RegistryIsTyped
  <1>2. \A t \in R!Capabilities(graph) : R!ChainFits(R!Resolve(graph, t, {}, FALSE).steps, t)
      BY <1>1, ChainsFollow, SoundFits
  <1>3. \A t \in (Types \ Prims) \ R!Capabilities(graph) :
           \E ts \in SUBSET (Types \ Prims) : t \in ts /\ R!NotToBeMade(ts)
      BY <1>1, ChainsFollow, HopelessFits
  <1>4. R!RequiredSuffice(graph)
      BY <1>1, RequiredSufficeAlways
  <1> QED  BY <1>2, <1>3, <1>4 DEF R!CapabilitiesStand

\* For any number of MCPs, types and tools, after any registrations, imports and
\* restarts: a chain that is shown fits the manifests that stand, with every input of a
\* well-formed tool made before its use, and a step only makes what its MCP declares or
\* has withdrawn; a type that is not shown, and that no withdrawal, malformed tool or
\* second MCP touches, cannot be made from what the standing tools take; and the inputs
\* that are shown as required make the strict search find the chain that is shown
\* (register_manifest, _resolve_type, _get_required_inputs, list_capabilities).
THEOREM ShownChainsStand == PlatformSpec => []CapabilitiesStand
  <1>1. R!Init => GraphTells
      BY SeedTells DEF R!Init, GraphTells
  <1> QED  BY <1>1, InitTyped, NextTyped, NextTells, CapabilitiesFit, PTL DEF PlatformSpec, R!Spec

(***************************************************************************)
(* The pipeline store.  Types first; then whose the definitions are, what a  *)
(* replica holds of the stores, and what the job that waits will look up.     *)
(***************************************************************************)

LEMMA StoreFacts ==
    /\ Shipped \subseteq Pipes
    /\ S!Global \notin Customers
    /\ S!Owners = Customers \cup {S!Global}
    /\ MaxVersions \in Nat /\ MaxMishaps \in Nat
    /\ {0, 1, 2} \subseteq S!Defs /\ S!Defs \subseteq Nat
    /\ S!NoDef = 0 /\ S!Seed = 1 /\ S!Legacy = 2
  BY PipelinesAssumption DEF S!PipelineStoreAssumption, S!Defs, S!NoDef, S!Seed, S!Legacy, S!Owners

LEMMA FirstOfThree ==
    ASSUME NEW a, NEW b, NEW c
    PROVE  S!FirstOf(<<a, b, c>>) = IF a # 0 THEN a ELSE IF b # 0 THEN b ELSE c
  <1> DEFINE s == <<a, b, c>>
             First(i) == s[i] # 0 /\ \A j \in 1..(i - 1) : s[j] = 0
  <1>1. DOMAIN s = {1, 2, 3} /\ s[1] = a /\ s[2] = b /\ s[3] = c
      OBVIOUS
  <1> HIDE DEF s
  <1>2. S!FirstOf(s) = IF \A i \in DOMAIN s : s[i] = 0 THEN 0
                       ELSE s[CHOOSE i \in DOMAIN s : First(i)]
      BY DEF S!FirstOf, S!NoDef
  <1>3. ASSUME a = 0, b = 0, c = 0 PROVE S!FirstOf(s) = 0
      BY <1>1, <1>2, <1>3
  <1>4. ASSUME NEW k \in DOMAIN s, First(k) PROVE S!FirstOf(s) = s[k]
    <2>1. \A i \in DOMAIN s : First(i) => i = k
        BY <1>1, <1>4
    <2> HIDE DEF First
    <2>2. (CHOOSE i \in DOMAIN s : First(i)) = k
        BY <1>4, <2>1
    <2>3. s[k] # 0
        BY <1>4 DEF First
    <2> QED  BY <1>2, <2>2, <2>3
  <1>5. /\ a # 0 => First(1)
        /\ a = 0 /\ b # 0 => First(2)
        /\ a = 0 /\ b = 0 /\ c # 0 => First(3)
      BY <1>1
  <1> HIDE DEF First
  <1>6. S!FirstOf(s) = IF a # 0 THEN a ELSE IF b # 0 THEN b ELSE c
      BY <1>1, <1>3, <1>4, <1>5
  <1> QED  BY <1>6 DEF s

LEMMA FirstOfTwo ==
    ASSUME NEW a, NEW b
    PROVE  S!FirstOf(<<a, b>>) = IF a # 0 THEN a ELSE b
  <1> DEFINE s == <<a, b>>
             First(i) == s[i] # 0 /\ \A j \in 1..(i - 1) : s[j] = 0
  <1>1. DOMAIN s = {1, 2} /\ s[1] = a /\ s[2] = b
      OBVIOUS
  <1> HIDE DEF s
  <1>2. S!FirstOf(s) = IF \A i \in DOMAIN s : s[i] = 0 THEN 0
                       ELSE s[CHOOSE i \in DOMAIN s : First(i)]
      BY DEF S!FirstOf, S!NoDef
  <1>3. ASSUME a = 0, b = 0 PROVE S!FirstOf(s) = 0
      BY <1>1, <1>2, <1>3
  <1>4. ASSUME NEW k \in DOMAIN s, First(k) PROVE S!FirstOf(s) = s[k]
    <2>1. \A i \in DOMAIN s : First(i) => i = k
        BY <1>1, <1>4
    <2> HIDE DEF First
    <2>2. (CHOOSE i \in DOMAIN s : First(i)) = k
        BY <1>4, <2>1
    <2>3. s[k] # 0
        BY <1>4 DEF First
    <2> QED  BY <1>2, <2>2, <2>3
  <1>5. (a # 0 => First(1)) /\ (a = 0 /\ b # 0 => First(2))
      BY <1>1
  <1> HIDE DEF First
  <1>6. S!FirstOf(s) = IF a # 0 THEN a ELSE b
      BY <1>1, <1>3, <1>4, <1>5
  <1> QED  BY <1>6 DEF s

LEMMA LookUps ==
    ASSUME NEW n
    PROVE  /\ S!Files(n) = IF data[n] # 0 THEN data[n] ELSE S!Image(n)
           /\ S!Image(n) \in {0, 1}
           /\ \A r, t : S!Resolve(r, t, n) =
                 IF dbMem[r][t][n] # 0 THEN dbMem[r][t][n]
                 ELSE IF dbMem[r][S!Global][n] # 0 THEN dbMem[r][S!Global][n]
                 ELSE mem[r][n]
           /\ \A t : S!Stored(t, n) =
                 IF rows[t][n] # 0 THEN rows[t][n]
                 ELSE IF rows[S!Global][n] # 0 THEN rows[S!Global][n]
                 ELSE S!Files(n)
  BY FirstOfTwo, FirstOfThree, StoreFacts DEF S!Files, S!Image, S!Resolve, S!Stored

(* Types. *)

StoresTyped ==
    /\ rows \in [S!Owners -> [Pipes -> S!Defs]] /\ data \in [Pipes -> S!Defs]
    /\ mem \in [Routers -> [Pipes -> S!Defs]]
    /\ dbMem \in [Routers -> [S!Owners -> [Pipes -> S!Defs]]]
    /\ named \in [Routers -> [Pipes -> S!Defs]]
    /\ author \in Seq(Customers) /\ filed \subseteq S!Defs

LEMMA FilesTyped ==
    ASSUME StoresTyped, NEW n \in Pipes PROVE S!Files(n) \in S!Defs
  <1>1. S!Files(n) = data[n] \/ S!Files(n) = S!Image(n)
      BY LookUps
  <1>2. S!Image(n) \in S!Defs
      BY LookUps, StoreFacts
  <1>3. data[n] \in S!Defs
      BY DEF StoresTyped
  <1> QED  BY <1>1, <1>2, <1>3

LEMMA NewDefTyped ==
    ASSUME StoresTyped, Len(author) < MaxVersions, NEW t \in Customers, author' = Append(author, t)
    PROVE  /\ S!NewDef \in S!Defs /\ S!NewDef > 2 /\ S!NewDef = 3 + Len(author)
           /\ author' \in Seq(Customers) /\ Len(author') = Len(author) + 1
           /\ author'[Len(author) + 1] = t
           /\ \A i \in 1..Len(author) : author'[i] = author[i]
  <1>1. author \in Seq(Customers) /\ Len(author) \in Nat
      BY LenProperties DEF StoresTyped
  <1>2. /\ author' \in Seq(Customers) /\ Len(author') = Len(author) + 1
        /\ author'[Len(author) + 1] = t
        /\ \A i \in 1..Len(author) : author'[i] = author[i]
      BY <1>1, AppendProperties
  <1> QED  BY <1>1, <1>2, StoreFacts DEF S!NewDef, S!Defs

\* What the steps do to the stores and to what replicas hold, one formula each.
Deploys ==
    \E r \in Routers, t \in Customers, n \in Pipes : S!DeployRow(r, t, n) \/ S!DeployFile(r, t, n)

Deletes == \E r \in Routers, t \in Customers, n \in Pipes : S!Delete(r, t, n)

Registers == \E r \in Routers, t \in Customers, n \in Pipes : S!RegisterNamed(r, t, n)

Loads == \E r \in Routers : S!Reload(r) \/ S!Restart(r)

\* Nothing of the stores, of what replicas hold, or of who wrote it.
Keeps == UNCHANGED <<rows, data, mem, dbMem, named, author, filed, off>>

LEMMA StoreSteps ==
    ASSUME [S!Next]_S!vars
    PROVE  Deploys \/ Deletes \/ Registers \/ Loads \/ Keeps
  <1>1. ASSUME NEW r \in Routers, NEW t \in Customers, NEW n \in Pipes, NEW batch \in BOOLEAN,
               S!AcceptJob(r, t, n, batch)
        PROVE  Keeps
      BY <1>1 DEF S!AcceptJob, S!stores, S!memory, S!history, Keeps
  <1>2. ASSUME NEW r \in Routers, S!ConnectionLost(r) PROVE Keeps
      BY <1>2 DEF S!ConnectionLost, S!stores, S!memory, S!history, Keeps
  <1>3. S!StartJob => Keeps
      BY DEF S!StartJob, S!stores, S!memory, S!history, Keeps
  <1>4. S!OutageBegins => Keeps
      BY DEF S!OutageBegins, S!stores, S!memory, S!history, Keeps
  <1>5. S!OutageEnds => Keeps
      BY DEF S!OutageEnds, S!stores, S!memory, S!history, Keeps
  <1>6. UNCHANGED S!vars => Keeps
      BY DEF S!vars, S!stores, S!memory, S!history, Keeps
  <1> QED
      BY <1>1, <1>2, <1>3, <1>4, <1>5, <1>6 DEF S!Next, Deploys, Deletes, Registers, Loads

LEMMA InitStores == S!Init => StoresTyped
  <1> SUFFICES ASSUME S!Init PROVE StoresTyped
      OBVIOUS
  <1>1. PICK legacy \in SUBSET Pipes :
           rows = [o \in S!Owners |-> [n \in Pipes |->
                      IF o = S!Global /\ n \in legacy THEN S!Legacy ELSE S!NoDef]]
      BY DEF S!Init
  <1>2. rows \in [S!Owners -> [Pipes -> S!Defs]]
      BY <1>1, StoreFacts
  <1>3. \A n \in Pipes : S!Image(n) \in S!Defs
      BY LookUps, StoreFacts
  <1>4. /\ data \in [Pipes -> S!Defs] /\ mem \in [Routers -> [Pipes -> S!Defs]]
        /\ named \in [Routers -> [Pipes -> S!Defs]]
      BY <1>3, StoreFacts DEF S!Init
  <1>5. dbMem \in [Routers -> [S!Owners -> [Pipes -> S!Defs]]]
      BY <1>2 DEF S!Init
  <1>6. author \in Seq(Customers) /\ filed \subseteq S!Defs
      BY DEF S!Init
  <1> QED  BY <1>2, <1>4, <1>5, <1>6 DEF StoresTyped

\* The value of a step on a deploy, a delete and a load.
LEMMA DeployedTyped ==
    ASSUME StoresTyped, NEW r \in Routers, NEW t \in Customers, NEW n \in Pipes,
           S!DeployRow(r, t, n) \/ S!DeployFile(r, t, n)
    PROVE  StoresTyped'
  <1>1. S!NewDef \in S!Defs /\ author' \in Seq(Customers)
      BY NewDefTyped DEF S!DeployRow, S!DeployFile
  <1>2. t \in S!Owners
      BY StoreFacts
  <1> DEFINE new == S!NewDef
  <1>3. /\ [rows EXCEPT ![t][n] = new] \in [S!Owners -> [Pipes -> S!Defs]]
        /\ [dbMem EXCEPT ![r][t][n] = new] \in [Routers -> [S!Owners -> [Pipes -> S!Defs]]]
        /\ [data EXCEPT ![n] = new] \in [Pipes -> S!Defs]
        /\ [mem EXCEPT ![r][n] = new] \in [Routers -> [Pipes -> S!Defs]]
        /\ filed \cup {new} \subseteq S!Defs
    <2>1. new \in S!Defs
        BY <1>1
    <2> HIDE DEF new
    <2> QED  BY <1>2, <2>1 DEF StoresTyped
  <1>4. CASE S!DeployRow(r, t, n)
      BY <1>1, <1>3, <1>4 DEF S!DeployRow, StoresTyped
  <1>5. CASE S!DeployFile(r, t, n)
    <2>1. rows' = rows \/ rows' = [rows EXCEPT ![t][n] = new]
        BY <1>5 DEF S!DeployFile
    <2>2. /\ data' = [data EXCEPT ![n] = new] /\ mem' = [mem EXCEPT ![r][n] = new]
          /\ filed' = filed \cup {new} /\ UNCHANGED <<dbMem, named>>
        BY <1>5 DEF S!DeployFile
    <2> HIDE DEF new
    <2> QED  BY <1>1, <1>3, <2>1, <2>2 DEF StoresTyped
  <1> QED  BY <1>4, <1>5

LEMMA DeletedTyped ==
    ASSUME StoresTyped, NEW r \in Routers, NEW t \in Customers, NEW n \in Pipes, S!Delete(r, t, n)
    PROVE  StoresTyped'
  <1>1. t \in S!Owners /\ S!Global \in S!Owners
      BY StoreFacts
  <1>2. PICK gone : rows' = [o \in S!Owners |-> IF o \in gone THEN [rows[o] EXCEPT ![n] = S!NoDef]
                                                ELSE rows[o]]
      BY DEF S!Delete
  <1>3. rows' \in [S!Owners -> [Pipes -> S!Defs]]
      BY <1>2, StoreFacts DEF StoresTyped
  <1>4. data' \in [Pipes -> S!Defs]
      BY StoreFacts DEF S!Delete, StoresTyped
  <1>5. /\ mem' = mem \/ mem' = [mem EXCEPT ![r][n] = S!NoDef]
        /\ \/ dbMem' = dbMem
           \/ dbMem' = [dbMem EXCEPT ![r][t][n] = S!NoDef, ![r][S!Global][n] = S!NoDef]
      BY DEF S!Delete
  <1>6. mem' \in [Routers -> [Pipes -> S!Defs]]
    <2>1. [mem EXCEPT ![r][n] = S!NoDef] \in [Routers -> [Pipes -> S!Defs]]
        BY StoreFacts DEF StoresTyped
    <2> QED  BY <1>5, <2>1 DEF StoresTyped
  <1>7. dbMem' \in [Routers -> [S!Owners -> [Pipes -> S!Defs]]]
    <2> DEFINE once == [dbMem EXCEPT ![r][t][n] = S!NoDef]
    <2>1. once \in [Routers -> [S!Owners -> [Pipes -> S!Defs]]]
        BY <1>1, StoreFacts, ZenonT(60) DEF StoresTyped
    <2>2. [dbMem EXCEPT ![r][t][n] = S!NoDef, ![r][S!Global][n] = S!NoDef]
             = [once EXCEPT ![r][S!Global][n] = S!NoDef]
        OBVIOUS
    <2> HIDE DEF once
    <2>3. [once EXCEPT ![r][S!Global][n] = S!NoDef] \in [Routers -> [S!Owners -> [Pipes -> S!Defs]]]
        BY <1>1, <2>1, StoreFacts
    <2> QED  BY <1>5, <2>2, <2>3 DEF StoresTyped
  <1>8. UNCHANGED <<named, author, filed>>
      BY DEF S!Delete
  <1> QED  BY <1>3, <1>4, <1>6, <1>7, <1>8 DEF StoresTyped

\* A load: what the files say, and the rows or none of them.
LEMMA Loaded ==
    ASSUME NEW r \in Routers, S!Reload(r) \/ S!Restart(r)
    PROVE  /\ named' = [named EXCEPT ![r] = [n \in Pipes |-> S!NoDef]]
           /\ mem' = [mem EXCEPT ![r] = [n \in Pipes |-> S!Files(n)]]
           /\ UNCHANGED <<rows, data, author, filed>>
           /\ \/ /\ dbMem' = [dbMem EXCEPT ![r] = rows]
                 /\ off' = [off EXCEPT ![r] = {}]
              \/ /\ dbMem' = [dbMem EXCEPT ![r] = [o \in S!Owners |-> [n \in Pipes |-> S!NoDef]]]
                 /\ off' = [off EXCEPT ![r] = Pipes]
  BY DEF S!Reload, S!Restart, S!Load, S!LoadRows, S!stores

LEMMA LoadedTyped ==
    ASSUME StoresTyped, NEW r \in Routers, S!Reload(r) \/ S!Restart(r)
    PROVE  StoresTyped'
  <1>1. [n \in Pipes |-> S!Files(n)] \in [Pipes -> S!Defs]
      BY FilesTyped
  <1>2. /\ [n \in Pipes |-> S!NoDef] \in [Pipes -> S!Defs]
        /\ [o \in S!Owners |-> [n \in Pipes |-> S!NoDef]] \in [S!Owners -> [Pipes -> S!Defs]]
      BY StoreFacts
  <1>3. mem' \in [Routers -> [Pipes -> S!Defs]] /\ named' \in [Routers -> [Pipes -> S!Defs]]
      BY <1>1, <1>2, Loaded, ZenonT(60) DEF StoresTyped
  <1>4. dbMem' \in [Routers -> [S!Owners -> [Pipes -> S!Defs]]]
      BY <1>2, Loaded DEF StoresTyped
  <1>5. UNCHANGED <<rows, data, author, filed>>
      BY Loaded
  <1> QED  BY <1>3, <1>4, <1>5 DEF StoresTyped

LEMMA NextStores == StoresTyped /\ [S!Next]_S!vars => StoresTyped'
  <1> SUFFICES ASSUME StoresTyped, [S!Next]_S!vars PROVE StoresTyped'
      OBVIOUS
  <1>1. CASE Registers
    <2>1. PICK r \in Routers, t \in Customers, n \in Pipes : S!RegisterNamed(r, t, n)
        BY <1>1 DEF Registers
    <2>2. S!NewDef \in S!Defs /\ author' \in Seq(Customers)
        BY <2>1, NewDefTyped DEF S!RegisterNamed
    <2>3. named' \in [Routers -> [Pipes -> S!Defs]]
        BY <2>1, <2>2 DEF S!RegisterNamed, StoresTyped
    <2> QED  BY <2>1, <2>2, <2>3 DEF S!RegisterNamed, StoresTyped, S!stores, S!memory
  <1>2. CASE Keeps
      BY <1>2 DEF Keeps, StoresTyped
  <1> QED  BY <1>1, <1>2, StoreSteps, DeployedTyped, DeletedTyped, LoadedTyped
             DEF Deploys, Deletes, Loads

(* Tables and what a change of one place leaves in them. *)

LEMMA PlaceOfTwo ==
    ASSUME NEW A, NEW B, NEW C, NEW f \in [A -> [B -> C]], NEW a \in A, NEW b \in B, NEW v
    PROVE  \A x \in A : \A y \in B :
              [f EXCEPT ![a][b] = v][x][y] = IF x = a /\ y = b THEN v ELSE f[x][y]
  OBVIOUS

LEMMA PlaceOfThree ==
    ASSUME NEW A, NEW B, NEW C, NEW D, NEW f \in [A -> [B -> [C -> D]]],
           NEW a \in A, NEW b \in B, NEW c \in C, NEW v
    PROVE  \A x \in A : \A y \in B : \A z \in C :
              [f EXCEPT ![a][b][c] = v][x][y][z] =
                 IF x = a /\ y = b /\ z = c THEN v ELSE f[x][y][z]
  OBVIOUS

\* The places of a tenant and of all, emptied.
LEMMA TwoPlacesEmptied ==
    ASSUME StoresTyped, NEW r \in Routers, NEW t \in Customers, NEW n \in Pipes,
           dbMem' = [dbMem EXCEPT ![r][t][n] = S!NoDef, ![r][S!Global][n] = S!NoDef]
    PROVE  \A q \in Routers : \A o \in S!Owners : \A x \in Pipes :
              dbMem'[q][o][x] = IF q = r /\ o \in {t, S!Global} /\ x = n THEN 0
                                ELSE dbMem[q][o][x]
  <1> DEFINE once == [dbMem EXCEPT ![r][t][n] = 0]
             twice == [once EXCEPT ![r][S!Global][n] = 0]
  <1>1. t \in S!Owners /\ S!Global \in S!Owners /\ S!NoDef = 0
      BY StoreFacts
  <1>2. /\ dbMem \in [Routers -> [S!Owners -> [Pipes -> S!Defs]]]
        /\ once \in [Routers -> [S!Owners -> [Pipes -> S!Defs]]]
      BY <1>1, StoreFacts DEF StoresTyped
  <1>3. \A q \in Routers : \A o \in S!Owners : \A x \in Pipes :
           once[q][o][x] = IF q = r /\ o = t /\ x = n THEN 0 ELSE dbMem[q][o][x]
      BY <1>1, <1>2, PlaceOfThree
  <1>4. dbMem' = twice
      BY <1>1
  <1> HIDE DEF once
  <1>5. \A q \in Routers : \A o \in S!Owners : \A x \in Pipes :
           twice[q][o][x] = IF q = r /\ o = S!Global /\ x = n THEN 0 ELSE once[q][o][x]
      BY <1>1, <1>2, PlaceOfThree
  <1> HIDE DEF twice
  <1>6. ASSUME NEW q \in Routers, NEW o \in S!Owners, NEW x \in Pipes
        PROVE  dbMem'[q][o][x] = IF q = r /\ o \in {t, S!Global} /\ x = n THEN 0
                                 ELSE dbMem[q][o][x]
    <2>1. /\ twice[q][o][x] = IF q = r /\ o = S!Global /\ x = n THEN 0 ELSE once[q][o][x]
          /\ once[q][o][x] = IF q = r /\ o = t /\ x = n THEN 0 ELSE dbMem[q][o][x]
        BY <1>3, <1>5
    <2> QED  BY <1>4, <2>1
  <1> QED  BY <1>6

(* Whose the definitions are. *)

\* Of the definitions that were written here, under the tenant o only its own.
Own(d, o, writers) ==
    d > 2 => o # S!Global /\ d - 2 \in 1..Len(writers) /\ writers[d - 2] = o

Filed(d, files) == d > 2 => d \in files

StoresOwn ==
    /\ \A o \in S!Owners, n \in Pipes : Own(rows[o][n], o, author)
    /\ \A r \in Routers : \A o \in S!Owners, n \in Pipes : Own(dbMem[r][o][n], o, author)
    /\ \A n \in Pipes : Filed(data[n], filed)
    /\ \A r \in Routers, n \in Pipes : Filed(mem[r][n], filed)

LEMMA InitOwn == S!Init => StoresOwn
  <1> SUFFICES ASSUME S!Init PROVE StoresOwn
      OBVIOUS
  <1>1. \A o \in S!Owners, n \in Pipes : rows[o][n] \in {0, 2}
    <2>1. PICK legacy \in SUBSET Pipes :
             rows = [o \in S!Owners |-> [n \in Pipes |->
                        IF o = S!Global /\ n \in legacy THEN S!Legacy ELSE S!NoDef]]
        BY DEF S!Init
    <2> QED  BY <2>1, StoreFacts
  <1>2. \A r \in Routers : \A o \in S!Owners, n \in Pipes : dbMem[r][o][n] \in {0, 2}
      BY <1>1 DEF S!Init
  <1>3. \A r \in Routers, n \in Pipes : data[n] = 0 /\ mem[r][n] \in {0, 1}
      BY LookUps, StoreFacts DEF S!Init
  <1>4. \A n \in Pipes : data[n] = 0
      BY StoreFacts DEF S!Init
  <1>5. \A d \in {0, 1, 2} : \A x, y : Own(d, x, y) /\ Filed(d, y)
      BY DEF Own, Filed
  <1> QED  BY <1>1, <1>2, <1>3, <1>4, <1>5 DEF StoresOwn

LEMMA OwnStays ==
    ASSUME StoresTyped, NEW t \in Customers, Len(author) < MaxVersions,
           author' = Append(author, t)
    PROVE  /\ \A d \in S!Defs : \A o : Own(d, o, author) => Own(d, o, author')
           /\ Own(S!NewDef, t, author')
  <1>1. Len(author) \in Nat
      BY LenProperties DEF StoresTyped
  <1>2. t # S!Global
      BY StoreFacts
  <1>3. Own(S!NewDef, t, author')
      BY <1>1, <1>2, NewDefTyped DEF Own
  <1>4. ASSUME NEW d \in S!Defs, NEW o, Own(d, o, author) PROVE Own(d, o, author')
    <2>1. d \in Nat
        BY StoreFacts
    <2> QED  BY <1>1, <1>4, <2>1, NewDefTyped DEF Own
  <1> QED  BY <1>3, <1>4

LEMMA NothingIsOwn == \A x, y : Own(0, x, y) /\ Filed(0, y)
  BY DEF Own, Filed

LEMMA DeployedOwn ==
    ASSUME StoresTyped, StoresOwn, NEW r \in Routers, NEW t \in Customers, NEW n \in Pipes,
           S!DeployRow(r, t, n) \/ S!DeployFile(r, t, n)
    PROVE  StoresOwn'
  <1>1. /\ Len(author) < MaxVersions
        /\ author' = Append(author, t)
      BY DEF S!DeployRow, S!DeployFile
  <1> DEFINE new == S!NewDef
  <1>2. /\ \A o \in S!Owners, x \in Pipes : Own(rows[o][x], o, author')
        /\ \A q \in Routers : \A o \in S!Owners, x \in Pipes : Own(dbMem[q][o][x], o, author')
        /\ Own(new, t, author')
      BY <1>1, OwnStays DEF StoresOwn, StoresTyped
  <1>3. t \in S!Owners
      BY StoreFacts
  <1>4. \/ rows' = rows
        \/ rows' = [rows EXCEPT ![t][n] = new]
      BY DEF S!DeployRow, S!DeployFile
  <1>5. \/ dbMem' = dbMem
        \/ dbMem' = [dbMem EXCEPT ![r][t][n] = new]
      BY DEF S!DeployRow, S!DeployFile
  <1>6. \/ UNCHANGED <<data, mem, filed>>
        \/ /\ data' = [data EXCEPT ![n] = new]
           /\ mem' = [mem EXCEPT ![r][n] = new]
           /\ filed' = filed \cup {new}
      BY DEF S!DeployRow, S!DeployFile
  <1> HIDE DEF new
  <1>7. \A o \in S!Owners, x \in Pipes : rows'[o][x] = rows[o][x] \/ (o = t /\ rows'[o][x] = new)
      BY <1>3, <1>4 DEF StoresTyped
  <1>8. \A q \in Routers : \A o \in S!Owners, x \in Pipes :
           dbMem'[q][o][x] = dbMem[q][o][x] \/ (o = t /\ dbMem'[q][o][x] = new)
    <2>1. dbMem \in [Routers -> [S!Owners -> [Pipes -> S!Defs]]]
        BY DEF StoresTyped
    <2>2. \A q \in Routers : \A o \in S!Owners : \A x \in Pipes :
             [dbMem EXCEPT ![r][t][n] = new][q][o][x] =
                IF q = r /\ o = t /\ x = n THEN new ELSE dbMem[q][o][x]
        BY <1>3, <2>1, PlaceOfThree
    <2>3. CASE dbMem' = dbMem
        BY <2>3
    <2> DEFINE changed == [dbMem EXCEPT ![r][t][n] = new]
    <2>4. CASE dbMem' = changed
      <3>1. \A q \in Routers : \A o \in S!Owners : \A x \in Pipes :
               changed[q][o][x] = dbMem[q][o][x] \/ (o = t /\ changed[q][o][x] = new)
          BY <2>2
      <3> HIDE DEF changed
      <3> QED  BY <2>4, <3>1
    <2> QED  BY <1>5, <2>3, <2>4
  <1>9. /\ \A x \in Pipes : data'[x] = data[x] \/ (data'[x] = new /\ new \in filed')
        /\ \A q \in Routers, x \in Pipes : mem'[q][x] = mem[q][x] \/ (mem'[q][x] = new /\ new \in filed')
        /\ filed \subseteq filed'
    <2>1. mem \in [Routers -> [Pipes -> S!Defs]] /\ data \in [Pipes -> S!Defs]
        BY DEF StoresTyped
    <2>2. \A q \in Routers : \A x \in Pipes :
             [mem EXCEPT ![r][n] = new][q][x] = IF q = r /\ x = n THEN new ELSE mem[q][x]
        BY <2>1, PlaceOfTwo
    <2>3. \A x \in Pipes : [data EXCEPT ![n] = new][x] = IF x = n THEN new ELSE data[x]
        BY <2>1
    <2>4. CASE UNCHANGED <<data, mem, filed>>
        BY <2>4
    <2>5. CASE /\ data' = [data EXCEPT ![n] = new]
               /\ mem' = [mem EXCEPT ![r][n] = new]
               /\ filed' = filed \cup {new}
        BY <2>2, <2>3, <2>5
    <2> QED  BY <1>6, <2>4, <2>5
  <1>10. \A o \in S!Owners, x \in Pipes : Own(rows'[o][x], o, author')
      BY <1>2, <1>7
  <1>11. \A q \in Routers : \A o \in S!Owners, x \in Pipes : Own(dbMem'[q][o][x], o, author')
      BY <1>2, <1>8
  <1>12. \A x \in Pipes : Filed(data'[x], filed')
      BY <1>9 DEF StoresOwn, Filed
  <1>13. \A q \in Routers, x \in Pipes : Filed(mem'[q][x], filed')
      BY <1>9 DEF StoresOwn, Filed
  <1> QED  BY <1>10, <1>11, <1>12, <1>13 DEF StoresOwn

\* What is left is what was there or nothing.
LEMMA LeftOwn ==
    ASSUME StoresOwn, UNCHANGED <<author, filed>>,
           \A o \in S!Owners, x \in Pipes : rows'[o][x] \in {rows[o][x], 0},
           \A q \in Routers : \A o \in S!Owners, x \in Pipes :
              dbMem'[q][o][x] \in {dbMem[q][o][x], rows[o][x], 0},
           \A x \in Pipes : data'[x] \in {data[x], 0},
           \A q \in Routers, x \in Pipes : mem'[q][x] \in {mem[q][x], data[x], 0, 1}
    PROVE  StoresOwn'
  <1>1. \A o \in S!Owners, x \in Pipes : Own(rows'[o][x], o, author')
      BY NothingIsOwn DEF StoresOwn
  <1>2. \A q \in Routers : \A o \in S!Owners, x \in Pipes : Own(dbMem'[q][o][x], o, author')
      BY NothingIsOwn DEF StoresOwn
  <1>3. \A x \in Pipes : Filed(data'[x], filed')
      BY NothingIsOwn DEF StoresOwn
  <1>4. \A y : Filed(1, y)
      BY DEF Filed
  <1>5. \A q \in Routers, x \in Pipes : Filed(mem'[q][x], filed')
      BY <1>4, NothingIsOwn DEF StoresOwn
  <1> QED  BY <1>1, <1>2, <1>3, <1>5 DEF StoresOwn

LEMMA DeletedOwn ==
    ASSUME StoresTyped, StoresOwn, NEW r \in Routers, NEW t \in Customers, NEW n \in Pipes,
           S!Delete(r, t, n)
    PROVE  StoresOwn'
  <1>1. t \in S!Owners /\ S!Global \in S!Owners /\ S!NoDef = 0
      BY StoreFacts
  <1>2. PICK gone : rows' = [o \in S!Owners |-> IF o \in gone THEN [rows[o] EXCEPT ![n] = S!NoDef]
                                                ELSE rows[o]]
      BY DEF S!Delete
  <1>3. \A o \in S!Owners, x \in Pipes : rows'[o][x] \in {rows[o][x], 0}
      BY <1>1, <1>2 DEF StoresTyped
  <1>4. \A x \in Pipes : data'[x] \in {data[x], 0}
      BY <1>1 DEF S!Delete, StoresTyped
  <1>5. mem' = mem \/ mem' = [mem EXCEPT ![r][n] = S!NoDef]
      BY DEF S!Delete
  <1>6. \A q \in Routers, x \in Pipes : mem'[q][x] \in {mem[q][x], data[x], 0, 1}
    <2>1. mem \in [Routers -> [Pipes -> S!Defs]]
        BY DEF StoresTyped
    <2>2. \A q \in Routers : \A x \in Pipes :
             [mem EXCEPT ![r][n] = S!NoDef][q][x] = IF q = r /\ x = n THEN S!NoDef ELSE mem[q][x]
        BY <2>1, PlaceOfTwo
    <2> DEFINE changed == [mem EXCEPT ![r][n] = S!NoDef]
    <2>3. \A q \in Routers : \A x \in Pipes : changed[q][x] \in {mem[q][x], 0}
        BY <1>1, <2>2
    <2>4. mem' = mem \/ mem' = changed
        BY <1>5
    <2> HIDE DEF changed
    <2> QED  BY <2>3, <2>4
  <1>7. \/ dbMem' = dbMem
        \/ dbMem' = [dbMem EXCEPT ![r][t][n] = S!NoDef, ![r][S!Global][n] = S!NoDef]
      BY DEF S!Delete
  <1>8. \A q \in Routers : \A o \in S!Owners, x \in Pipes :
           dbMem'[q][o][x] \in {dbMem[q][o][x], rows[o][x], 0}
    <2>1. CASE dbMem' = dbMem
        BY <2>1
    <2>2. CASE dbMem' = [dbMem EXCEPT ![r][t][n] = S!NoDef, ![r][S!Global][n] = S!NoDef]
      <3>1. \A q \in Routers : \A o \in S!Owners : \A x \in Pipes :
               dbMem'[q][o][x] = IF q = r /\ o \in {t, S!Global} /\ x = n THEN 0
                                 ELSE dbMem[q][o][x]
          BY <2>2, TwoPlacesEmptied, ZenonT(60)
      <3> QED  BY <3>1
    <2> QED  BY <1>7, <2>1, <2>2
  <1>9. UNCHANGED <<author, filed>>
      BY DEF S!Delete
  <1> QED  BY <1>3, <1>4, <1>6, <1>8, <1>9, LeftOwn

LEMMA LoadedOwn ==
    ASSUME StoresTyped, StoresOwn, NEW r \in Routers, S!Reload(r) \/ S!Restart(r)
    PROVE  StoresOwn'
  <1>1. \A x \in Pipes : S!Files(x) \in {data[x], 0, 1}
      BY LookUps
  <1>2. \A q \in Routers, x \in Pipes : mem'[q][x] \in {mem[q][x], data[x], 0, 1}
    <2>1. mem' = [mem EXCEPT ![r] = [x \in Pipes |-> S!Files(x)]]
        BY Loaded
    <2> QED  BY <1>1, <2>1 DEF StoresTyped
  <1>3. \A q \in Routers : \A o \in S!Owners, x \in Pipes :
           dbMem'[q][o][x] \in {dbMem[q][o][x], rows[o][x], 0}
    <2>1. \/ dbMem' = [dbMem EXCEPT ![r] = rows]
          \/ dbMem' = [dbMem EXCEPT ![r] = [o \in S!Owners |-> [x \in Pipes |-> 0]]]
        BY Loaded, StoreFacts, SMTT(30)
    <2> DEFINE none == [o \in S!Owners |-> [x \in Pipes |-> 0]]
    <2>2. \A o \in S!Owners, x \in Pipes : none[o][x] = 0
        OBVIOUS
    <2>3. dbMem' = [dbMem EXCEPT ![r] = rows] \/ dbMem' = [dbMem EXCEPT ![r] = none]
        BY <2>1
    <2> HIDE DEF none
    <2>4. \A q \in Routers : dbMem'[q] = dbMem[q] \/ dbMem'[q] = rows \/ dbMem'[q] = none
        BY <2>3 DEF StoresTyped
    <2> QED  BY <2>2, <2>4
  <1>4. UNCHANGED <<rows, data, author, filed>>
      BY Loaded
  <1> QED  BY <1>2, <1>3, <1>4, LeftOwn

LEMMA NextOwn == StoresTyped /\ StoresOwn /\ [S!Next]_S!vars => StoresOwn'
  <1> SUFFICES ASSUME StoresTyped, StoresOwn, [S!Next]_S!vars PROVE StoresOwn'
      OBVIOUS
  <1>1. CASE Registers
    <2>1. PICK r \in Routers, t \in Customers, n \in Pipes : S!RegisterNamed(r, t, n)
        BY <1>1 DEF Registers
    <2>2. /\ Len(author) < MaxVersions /\ author' = Append(author, t)
          /\ UNCHANGED <<rows, data, mem, dbMem, filed>>
        BY <2>1 DEF S!RegisterNamed, S!stores, S!memory
    <2>3. /\ \A o \in S!Owners, x \in Pipes : Own(rows[o][x], o, author')
          /\ \A q \in Routers : \A o \in S!Owners, x \in Pipes : Own(dbMem[q][o][x], o, author')
        BY <2>2, OwnStays DEF StoresOwn, StoresTyped
    <2> QED  BY <2>2, <2>3 DEF StoresOwn
  <1>2. CASE Keeps
      BY <1>2 DEF Keeps, StoresOwn
  <1> QED  BY <1>1, <1>2, StoreSteps, DeployedOwn, DeletedOwn, LoadedOwn
             DEF Deploys, Deletes, Loads

LEMMA OwnSuffices == StoresTyped /\ StoresOwn => OwnOrShared
  <1> SUFFICES ASSUME StoresTyped, StoresOwn,
                      NEW r \in Routers, NEW t \in Customers, NEW n \in Pipes,
                      NEW d \in S!Listed(r, t, n) \cup {S!Resolve(r, t, n)}, d > 2
               PROVE  author[d - 2] = t \/ d \in filed
      BY StoreFacts DEF OwnOrShared, S!OwnOrShared
  <1>1. t \in S!Owners /\ S!Global \in S!Owners
      BY StoreFacts
  <1>2. d \in {dbMem[r][t][n], dbMem[r][S!Global][n], mem[r][n]}
    <2>1. S!Resolve(r, t, n) \in {dbMem[r][t][n], dbMem[r][S!Global][n], mem[r][n]}
      <3>1. S!Resolve(r, t, n) = IF dbMem[r][t][n] # 0 THEN dbMem[r][t][n]
                                 ELSE IF dbMem[r][S!Global][n] # 0 THEN dbMem[r][S!Global][n]
                                 ELSE mem[r][n]
          BY LookUps
      <3> QED  BY <3>1
    <2>2. S!Listed(r, t, n) \subseteq {dbMem[r][t][n], dbMem[r][S!Global][n], mem[r][n]}
        BY DEF S!Listed
    <2> QED  BY <2>1, <2>2
  <1>3. CASE d = dbMem[r][t][n]
    <2>1. Own(d, t, author)
        BY <1>1, <1>3 DEF StoresOwn
    <2> QED  BY <2>1 DEF Own
  <1>4. d # dbMem[r][S!Global][n]
    <2>1. Own(dbMem[r][S!Global][n], S!Global, author)
        BY <1>1 DEF StoresOwn
    <2> QED  BY <2>1 DEF Own
  <1>5. CASE d = mem[r][n]
    <2>1. Filed(d, filed)
        BY <1>5 DEF StoresOwn
    <2> QED  BY <2>1 DEF Filed
  <1> QED  BY <1>2, <1>3, <1>4, <1>5

\* For any number of replicas, tenants, names, definitions and outages: what a tenant is
\* served or shown is its own, or was stored as a file for all.
THEOREM TenantsSeeTheirOwn == PipelinesSpec => []OwnOrShared
  <1> QED  BY InitStores, NextStores, InitOwn, NextOwn, OwnSuffices, PTL
             DEF PipelinesSpec, S!Spec

(* What a replica holds of the stores. *)

\* The replica answers the name as the stores do.
Holds(q, x) ==
    /\ mem[q][x] = S!Files(x)
    /\ \A o \in S!Owners : dbMem[q][o][x] = rows[o][x]

OffTyped == off \in [Routers -> SUBSET Pipes]

StoresAgree == OffTyped /\ \A q \in Routers : \A x \in Pipes \ off[q] : Holds(q, x)

LEMMA FilesNext ==
    ASSUME NEW x PROVE S!Files(x)' = IF data'[x] # 0 THEN data'[x] ELSE S!Image(x)
  BY FirstOfTwo DEF S!Files, S!Image

LEMMA InitAgree == S!Init => StoresAgree
  <1> SUFFICES ASSUME S!Init PROVE StoresAgree
      OBVIOUS
  <1>1. OffTyped
      BY DEF S!Init, OffTyped
  <1>2. ASSUME NEW q \in Routers, NEW x \in Pipes PROVE Holds(q, x)
    <2>1. S!Files(x) = IF data[x] # 0 THEN data[x] ELSE S!Image(x)
        BY LookUps
    <2> QED  BY <2>1, StoreFacts DEF S!Init, Holds
  <1> QED  BY <1>1, <1>2 DEF StoresAgree

\* A step on one name: the others stay as they are, and the replica that makes it
\* answers the name as the stores do from then on, or is known not to.
LEMMA AgreeAfter ==
    ASSUME StoresAgree, NEW r \in Routers, NEW n \in Pipes, OffTyped',
           \A q \in Routers : off'[q] = off[q] \cup {n} \/ (q = r /\ off'[q] = off[q]),
           \A x \in Pipes : x # n =>
              /\ data'[x] = data[x]
              /\ \A q \in Routers : mem'[q][x] = mem[q][x]
              /\ \A o \in S!Owners : rows'[o][x] = rows[o][x]
              /\ \A q \in Routers : \A o \in S!Owners : dbMem'[q][o][x] = dbMem[q][o][x],
           n \notin off'[r] => Holds(r, n)'
    PROVE  StoresAgree'
  <1> SUFFICES ASSUME NEW q \in Routers, NEW x \in Pipes \ off'[q] PROVE Holds(q, x)'
      BY DEF StoresAgree
  <1>1. CASE x = n
      BY <1>1
  <1>2. CASE x # n
    <2>1. x \notin off[q]
        OBVIOUS
    <2>2. Holds(q, x)
        BY <2>1 DEF StoresAgree
    <2>3. S!Files(x)' = S!Files(x)
        BY <1>2, FilesNext, LookUps
    <2> QED  BY <1>2, <2>2, <2>3 DEF Holds
  <1> QED  BY <1>1, <1>2

LEMMA BehindTyped ==
    ASSUME OffTyped, NEW r \in Routers, NEW n \in Pipes, NEW wrong, S!OthersBehind(r, n, wrong)
    PROVE  /\ OffTyped'
           /\ \A q \in Routers : off'[q] = off[q] \cup {n} \/ (q = r /\ off'[q] = off[q])
           /\ wrong => n \in off'[r]
  BY DEF OffTyped, S!OthersBehind

LEMMA DeployedAgree ==
    ASSUME StoresTyped, StoresAgree, NEW r \in Routers, NEW t \in Customers, NEW n \in Pipes,
           S!DeployRow(r, t, n) \/ S!DeployFile(r, t, n)
    PROVE  StoresAgree'
  <1> DEFINE new == S!NewDef
             newRows == [rows EXCEPT ![t][n] = new]
             newTable == [dbMem EXCEPT ![r][t][n] = new]
             newMem == [mem EXCEPT ![r][n] = new]
  <1>1. new # 0
    <2>1. new \in S!Defs /\ new > 2
        BY NewDefTyped DEF S!DeployRow, S!DeployFile
    <2> HIDE DEF new
    <2> QED  BY <2>1, StoreFacts
  <1>2. PICK wrong : S!OthersBehind(r, n, wrong)
      BY DEF S!DeployRow, S!DeployFile
  <1>3. /\ OffTyped'
        /\ \A q \in Routers : off'[q] = off[q] \cup {n} \/ (q = r /\ off'[q] = off[q])
      BY <1>2, BehindTyped DEF StoresAgree
  <1>4. /\ \A o \in S!Owners : \A x \in Pipes :
              newRows[o][x] = IF o = t /\ x = n THEN new ELSE rows[o][x]
        /\ \A q \in Routers : \A o \in S!Owners : \A x \in Pipes :
              newTable[q][o][x] = IF q = r /\ o = t /\ x = n THEN new ELSE dbMem[q][o][x]
        /\ \A q \in Routers : \A x \in Pipes :
              newMem[q][x] = IF q = r /\ x = n THEN new ELSE mem[q][x]
    <2>1. /\ rows \in [S!Owners -> [Pipes -> S!Defs]]
          /\ dbMem \in [Routers -> [S!Owners -> [Pipes -> S!Defs]]]
          /\ mem \in [Routers -> [Pipes -> S!Defs]]
          /\ t \in S!Owners
        BY StoreFacts DEF StoresTyped
    <2> QED  BY <2>1, PlaceOfTwo, PlaceOfThree
  <1>5. CASE S!DeployRow(r, t, n)
    <2>1. rows' = newRows /\ dbMem' = newTable /\ data' = data /\ mem' = mem
        BY <1>5 DEF S!DeployRow
    <2> HIDE DEF new, newRows, newTable, newMem
    <2>2. ASSUME n \notin off'[r] PROVE Holds(r, n)'
      <3>1. n \notin off[r]
          BY <1>3, <2>2
      <3>2. Holds(r, n)
          BY <3>1 DEF StoresAgree
      <3>3. S!Files(n)' = S!Files(n)
          BY <2>1, FilesNext, LookUps
      <3> QED  BY <1>4, <2>1, <3>2, <3>3 DEF Holds
    <2>3. ASSUME NEW x \in Pipes, x # n
          PROVE  /\ data'[x] = data[x]
                 /\ \A q \in Routers : mem'[q][x] = mem[q][x]
                 /\ \A o \in S!Owners : rows'[o][x] = rows[o][x]
                 /\ \A q \in Routers : \A o \in S!Owners : dbMem'[q][o][x] = dbMem[q][o][x]
        BY <1>4, <2>1, <2>3
    <2> QED  BY <1>3, <2>2, <2>3, AgreeAfter
  <1>6. CASE S!DeployFile(r, t, n)
    <2>1. /\ mem' = newMem /\ dbMem' = dbMem
          /\ rows' = rows \/ rows' = newRows
        BY <1>6 DEF S!DeployFile
    <2>2. data' = [data EXCEPT ![n] = new]
        BY <1>6 DEF S!DeployFile
    <2>3. rows' = rows \/ n \in off'[r]
      <3>1. CASE rows' = rows
          BY <3>1
      <3>2. CASE S!OthersBehind(r, n, TRUE)
          BY <3>2, BehindTyped DEF StoresAgree
      <3> QED  BY <1>6, <3>1, <3>2 DEF S!DeployFile
    <2> HIDE DEF new, newRows, newTable, newMem
    <2>4. \A x \in Pipes : data'[x] = IF x = n THEN new ELSE data[x]
        BY <2>2 DEF StoresTyped
    <2>5. ASSUME n \notin off'[r] PROVE Holds(r, n)'
      <3>1. n \notin off[r]
          BY <1>3, <2>5
      <3>2. Holds(r, n)
          BY <3>1 DEF StoresAgree
      <3>3. S!Files(n)' = new
          BY <1>1, <2>4, FilesNext
      <3> QED  BY <1>4, <2>1, <2>3, <2>5, <3>2, <3>3 DEF Holds
    <2>6. ASSUME NEW x \in Pipes, x # n
          PROVE  /\ data'[x] = data[x]
                 /\ \A q \in Routers : mem'[q][x] = mem[q][x]
                 /\ \A o \in S!Owners : rows'[o][x] = rows[o][x]
                 /\ \A q \in Routers : \A o \in S!Owners : dbMem'[q][o][x] = dbMem[q][o][x]
        BY <1>4, <2>1, <2>4, <2>6
    <2> QED  BY <1>3, <2>5, <2>6, AgreeAfter
  <1> QED  BY <1>5, <1>6

LEMMA DeletedAgree ==
    ASSUME StoresTyped, StoresAgree, NEW r \in Routers, NEW t \in Customers, NEW n \in Pipes,
           S!Delete(r, t, n)
    PROVE  StoresAgree'
  <1> DEFINE removedFile == data[n] # S!NoDef
             gone == IF S!Usable(r) THEN S!RowToDelete(t, n) ELSE {}
             left == [o \in S!Owners |-> IF o \in gone THEN [rows[o] EXCEPT ![n] = S!NoDef]
                                         ELSE rows[o]]
             newMem == [mem EXCEPT ![r][n] = S!NoDef]
  <1>0. t \in S!Owners /\ S!Global \in S!Owners /\ S!NoDef = 0 /\ t # S!Global
      BY StoreFacts
  <1>1. /\ removedFile \/ gone # {}
        /\ data' = [data EXCEPT ![n] = 0]
        /\ rows' = left
      BY <1>0 DEF S!Delete
  <1>2. \/ /\ gone # {}
           /\ dbMem' = [dbMem EXCEPT ![r][t][n] = S!NoDef, ![r][S!Global][n] = S!NoDef]
           /\ S!OthersBehind(r, n, removedFile \/ left[S!Global][n] # S!NoDef)
           /\ mem' = mem
        \/ /\ gone = {}
           /\ S!OthersBehind(r, n, n \in Shipped)
           /\ dbMem' = dbMem
           /\ mem' = IF removedFile THEN newMem ELSE mem
        \/ /\ S!OthersBehind(r, n, TRUE)
           /\ dbMem' = dbMem
           /\ mem' = IF removedFile THEN newMem ELSE mem
      BY DEF S!Delete
  <1>3. /\ \A x \in Pipes : data'[x] = IF x = n THEN 0 ELSE data[x]
        /\ \A o \in S!Owners : \A x \in Pipes :
              rows'[o][x] = IF o \in gone /\ x = n THEN 0 ELSE rows[o][x]
        /\ \A q \in Routers : \A x \in Pipes :
              newMem[q][x] = IF q = r /\ x = n THEN 0 ELSE mem[q][x]
    <2>1. \A x \in Pipes : data'[x] = IF x = n THEN 0 ELSE data[x]
        BY <1>1 DEF StoresTyped
    <2>2. \A o \in S!Owners : \A x \in Pipes :
             rows'[o][x] = IF o \in gone /\ x = n THEN 0 ELSE rows[o][x]
      <3> HIDE DEF gone
      <3> QED  BY <1>0, <1>1 DEF StoresTyped
    <2>3. mem \in [Routers -> [Pipes -> S!Defs]]
        BY DEF StoresTyped
    <2>4. \A q \in Routers : \A x \in Pipes :
             newMem[q][x] = IF q = r /\ x = n THEN 0 ELSE mem[q][x]
        BY <1>0, <2>3, PlaceOfTwo
    <2> QED  BY <2>1, <2>2, <2>4
  <1>4. /\ t \in gone \/ rows[t][n] = 0 \/ gone = {}
        /\ gone \subseteq {t, S!Global}
      BY <1>0 DEF S!RowToDelete
  <1>5. /\ OffTyped'
        /\ \A q \in Routers : off'[q] = off[q] \cup {n} \/ (q = r /\ off'[q] = off[q])
        /\ n \notin off'[r] => n \notin off[r]
    <2>1. PICK wrong : S!OthersBehind(r, n, wrong)
        BY <1>2
    <2> QED  BY <2>1, BehindTyped DEF StoresAgree
  <1>6. \A q \in Routers : \A o \in S!Owners : \A x \in Pipes :
           dbMem'[q][o][x] = dbMem[q][o][x]
             \/ (q = r /\ o \in {t, S!Global} /\ x = n /\ dbMem'[q][o][x] = 0)
    <2>1. CASE dbMem' = dbMem
        BY <2>1
    <2>2. CASE dbMem' = [dbMem EXCEPT ![r][t][n] = S!NoDef, ![r][S!Global][n] = S!NoDef]
      <3>1. \A q \in Routers : \A o \in S!Owners : \A x \in Pipes :
               dbMem'[q][o][x] = IF q = r /\ o \in {t, S!Global} /\ x = n THEN 0
                                 ELSE dbMem[q][o][x]
          BY <2>2, TwoPlacesEmptied, ZenonT(60)
      <3> QED  BY <3>1
    <2> QED  BY <1>2, <2>1, <2>2
  <1>7. \A q \in Routers : \A x \in Pipes : x # n => mem'[q][x] = mem[q][x]
    <2>1. mem' = mem \/ mem' = newMem
        BY <1>2
    <2> HIDE DEF newMem
    <2> QED  BY <1>3, <2>1
  <1>8. S!Files(n)' = S!Image(n)
      BY <1>3, FilesNext
  <1>9. ASSUME n \notin off'[r] PROVE Holds(r, n)'
    <2>1. Holds(r, n)
        BY <1>5, <1>9 DEF StoresAgree
    <2>2. ~S!OthersBehind(r, n, TRUE)
        BY <1>9, BehindTyped DEF StoresAgree
    <2>3. CASE /\ gone # {}
               /\ dbMem' = [dbMem EXCEPT ![r][t][n] = S!NoDef, ![r][S!Global][n] = S!NoDef]
               /\ S!OthersBehind(r, n, removedFile \/ left[S!Global][n] # S!NoDef)
               /\ mem' = mem
      <3>1. ~(removedFile \/ left[S!Global][n] # S!NoDef)
          BY <1>9, <2>3, BehindTyped DEF StoresAgree
      <3>2. data[n] = 0 /\ rows'[S!Global][n] = 0
          BY <1>0, <1>1, <3>1
      <3>3. mem'[r][n] = S!Files(n)'
        <4>1. S!Files(n) = IF data[n] # 0 THEN data[n] ELSE S!Image(n)
            BY LookUps
        <4>2. mem[r][n] = S!Image(n)
            BY <2>1, <3>2, <4>1 DEF Holds
        <4> QED  BY <1>8, <2>3, <4>2
      <3>4. \A o \in S!Owners :
               dbMem'[r][o][n] = IF o \in {t, S!Global} THEN 0 ELSE dbMem[r][o][n]
        <4>1. \A q \in Routers : \A o \in S!Owners : \A x \in Pipes :
                 dbMem'[q][o][x] = IF q = r /\ o \in {t, S!Global} /\ x = n THEN 0
                                   ELSE dbMem[q][o][x]
            BY <2>3, TwoPlacesEmptied, ZenonT(60)
        <4> QED  BY <4>1
      <3>5. rows'[t][n] = 0
          BY <1>0, <1>3, <1>4, <2>3
      <3>6. ASSUME NEW o \in S!Owners PROVE dbMem'[r][o][n] = rows'[o][n]
        <4>1. CASE o \in {t, S!Global}
            BY <3>2, <3>4, <3>5, <4>1
        <4>2. CASE o \notin {t, S!Global}
          <5>1. rows'[o][n] = rows[o][n]
              BY <1>3, <1>4, <4>2
          <5> QED  BY <2>1, <3>4, <4>2, <5>1 DEF Holds
        <4> QED  BY <4>1, <4>2
      <3> QED  BY <3>3, <3>6 DEF Holds
    <2>4. CASE /\ gone = {}
               /\ S!OthersBehind(r, n, n \in Shipped)
               /\ dbMem' = dbMem
               /\ mem' = IF removedFile THEN newMem ELSE mem
      <3>1. removedFile
          BY <1>1, <2>4
      <3>2. n \notin Shipped
          BY <1>9, <2>4, BehindTyped DEF StoresAgree
      <3>3. S!Image(n) = 0
          BY <3>2, <1>0 DEF S!Image
      <3>4. mem'[r][n] = 0
          BY <1>3, <2>4, <3>1
      <3>5. \A o \in S!Owners : rows'[o][n] = rows[o][n]
          BY <1>3, <2>4
      <3> QED  BY <1>8, <2>1, <2>4, <3>3, <3>4, <3>5 DEF Holds
    <2> QED  BY <1>2, <2>2, <2>3, <2>4
  <1>10. ASSUME NEW x \in Pipes, x # n
         PROVE  /\ data'[x] = data[x]
                /\ \A q \in Routers : mem'[q][x] = mem[q][x]
                /\ \A o \in S!Owners : rows'[o][x] = rows[o][x]
                /\ \A q \in Routers : \A o \in S!Owners : dbMem'[q][o][x] = dbMem[q][o][x]
      BY <1>3, <1>6, <1>7, <1>10
  <1> HIDE DEF removedFile, gone, left, newMem
  <1> QED  BY <1>5, <1>9, <1>10, AgreeAfter

LEMMA LoadedAgree ==
    ASSUME StoresTyped, StoresAgree, NEW r \in Routers, S!Reload(r) \/ S!Restart(r)
    PROVE  StoresAgree'
  <1>1. /\ mem' = [mem EXCEPT ![r] = [n \in Pipes |-> S!Files(n)]]
        /\ UNCHANGED <<rows, data>>
      BY Loaded
  <1>2. \/ /\ dbMem' = [dbMem EXCEPT ![r] = rows]
           /\ off' = [off EXCEPT ![r] = {}]
        \/ /\ dbMem' = [dbMem EXCEPT ![r] = [o \in S!Owners |-> [n \in Pipes |-> S!NoDef]]]
           /\ off' = [off EXCEPT ![r] = Pipes]
      BY Loaded
  <1>3. OffTyped'
      BY <1>2 DEF StoresAgree, OffTyped
  <1>4. ASSUME NEW q \in Routers, NEW x \in Pipes \ off'[q]
        PROVE  Holds(q, x)'
    <2>1. S!Files(x)' = S!Files(x)
        BY <1>1, FilesNext, LookUps
    <2>2. CASE q = r
      <3>1. dbMem' = [dbMem EXCEPT ![r] = rows]
          BY <1>2, <2>2 DEF StoresAgree, OffTyped
      <3>2. dbMem'[r] = rows /\ mem'[r][x] = S!Files(x)
          BY <1>1, <3>1 DEF StoresTyped
      <3> QED  BY <1>1, <2>1, <2>2, <3>2 DEF Holds
    <2>3. CASE q # r
      <3>1. dbMem'[q] = dbMem[q] /\ mem'[q] = mem[q] /\ off'[q] = off[q]
          BY <1>1, <1>2, <2>3 DEF StoresTyped, StoresAgree, OffTyped
      <3>2. Holds(q, x)
          BY <3>1 DEF StoresAgree
      <3> QED  BY <1>1, <2>1, <3>1, <3>2 DEF Holds
    <2> QED  BY <2>2, <2>3
  <1> QED  BY <1>3, <1>4 DEF StoresAgree

LEMMA NextAgree == StoresTyped /\ StoresAgree /\ [S!Next]_S!vars => StoresAgree'
  <1> SUFFICES ASSUME StoresTyped, StoresAgree, [S!Next]_S!vars PROVE StoresAgree'
      OBVIOUS
  <1>1. ASSUME UNCHANGED <<rows, data, mem, dbMem, off>> PROVE StoresAgree'
    <2>1. \A x : S!Files(x)' = S!Files(x)
        BY <1>1, FilesNext, LookUps
    <2> QED  BY <1>1, <2>1 DEF StoresAgree, OffTyped, Holds
  <1>2. CASE Registers
      BY <1>1, <1>2 DEF Registers, S!RegisterNamed, S!stores, S!memory
  <1>3. CASE Keeps
      BY <1>1, <1>3 DEF Keeps
  <1> QED  BY <1>2, <1>3, StoreSteps, DeployedAgree, DeletedAgree, LoadedAgree
             DEF Deploys, Deletes, Loads

LEMMA AgreeSuffices == StoresAgree => LoadedAgrees
  <1> SUFFICES ASSUME StoresAgree, NEW r \in Routers, NEW t \in Customers,
                      NEW n \in Pipes \ off[r]
               PROVE  S!Resolve(r, t, n) = S!Stored(t, n)
      BY DEF LoadedAgrees, S!LoadedAgrees
  <1>1. Holds(r, n) /\ t \in S!Owners /\ S!Global \in S!Owners
      BY StoreFacts DEF StoresAgree
  <1> QED  BY <1>1, LookUps DEF Holds

\* For any number of replicas, tenants, names, definitions and outages: a replica answers
\* what the stores say, except for the names that it is known to answer wrongly.
THEOREM ReplicasAgree == PipelinesSpec => []LoadedAgrees
  <1> QED  BY InitStores, NextStores, InitAgree, NextAgree, AgreeSuffices, PTL
             DEF PipelinesSpec, S!Spec

(* What the job that waits will look up. *)

JobShape == job # S!NoJob => job \in S!JobType

\* As long as nothing has moved under it, the job finds what it was accepted for:
\* the named pipeline, what it took along, or, as a batch, the files.
Follows ==
    job # S!NoJob /\ job.state = "queued" /\ ~job.moved =>
       IF named[job.at][job.name] # 0 THEN job.seen = named[job.at][job.name]
       ELSE IF ~job.batch THEN job.seen = job.handed /\ job.handed # 0
       ELSE job.handed = 0 /\ (~job.stored => job.seen = mem[job.at][job.name])

JobInv == JobShape /\ Follows /\ JobRunsWhatWasAccepted

\* A step that neither accepts nor starts the job: it may lose it, or tell it that what
\* it goes by has moved, and does tell it.
Carries ==
    /\ \/ job' = job
       \/ job.state = "queued" /\ job' = [job EXCEPT !.state = "lost"]
       \/ job.state = "queued" /\ job' = [job EXCEPT !.moved = TRUE]
    /\ job' = job /\ job.state = "queued" /\ ~job.moved =>
          /\ named'[job.at][job.name] = named[job.at][job.name]
          /\ job.batch => mem'[job.at][job.name] = mem[job.at][job.name]

LEMMA JobFields ==
    ASSUME NEW j \in S!JobType
    PROVE  /\ j.state \in {"queued", "started", "lost"} /\ j.at \in Routers /\ j.name \in Pipes
           /\ j.tenant \in Customers /\ j.batch \in BOOLEAN /\ j.stored \in BOOLEAN
           /\ j.moved \in BOOLEAN
           /\ j.seen \in S!Defs /\ j.handed \in S!Defs /\ j.ran \in S!Defs
  BY DEF S!JobType

LEMMA JobTold ==
    ASSUME NEW j \in S!JobType
    PROVE  /\ [j EXCEPT !.moved = TRUE] \in S!JobType
           /\ [j EXCEPT !.moved = TRUE].moved = TRUE
           /\ [j EXCEPT !.state = "lost"] \in S!JobType
           /\ [j EXCEPT !.state = "lost"].state = "lost"
  BY DEF S!JobType

LEMMA CarriedOn ==
    ASSUME JobInv, job # S!NoJob, Carries PROVE JobInv'
  <1>1. job \in S!JobType
      BY DEF JobInv, JobShape
  <1>2. CASE job' = job
    <2>1. JobShape'
        BY <1>2 DEF JobInv, JobShape
    <2>2. JobRunsWhatWasAccepted'
        BY <1>2 DEF JobInv, JobRunsWhatWasAccepted, S!JobRunsWhatWasAccepted
    <2>3. Follows'
        BY <1>1, <1>2, JobFields DEF JobInv, Follows, Carries
    <2> QED  BY <2>1, <2>2, <2>3 DEF JobInv
  <1>3. CASE job' = [job EXCEPT !.state = "lost"]
    <2>1. job' \in S!JobType /\ job'.state = "lost"
        BY <1>1, <1>3, JobTold
    <2> QED  BY <2>1 DEF JobInv, JobShape, Follows, JobRunsWhatWasAccepted, S!JobRunsWhatWasAccepted
  <1>4. CASE job' = [job EXCEPT !.moved = TRUE]
    <2>1. job' \in S!JobType /\ job'.moved = TRUE
        BY <1>1, <1>4, JobTold
    <2> QED  BY <2>1 DEF JobInv, JobShape, Follows, JobRunsWhatWasAccepted, S!JobRunsWhatWasAccepted
  <1> QED  BY <1>2, <1>3, <1>4 DEF Carries

LEMMA ResolvesOneOf ==
    ASSUME NEW r, NEW t, NEW n
    PROVE  S!Resolve(r, t, n) \in {dbMem[r][t][n], dbMem[r][S!Global][n], mem[r][n]}
  <1>1. S!Resolve(r, t, n) = IF dbMem[r][t][n] # 0 THEN dbMem[r][t][n]
                             ELSE IF dbMem[r][S!Global][n] # 0 THEN dbMem[r][S!Global][n]
                             ELSE mem[r][n]
      BY LookUps
  <1> QED  BY <1>1

LEMMA JobAccepted ==
    ASSUME StoresTyped, job = S!NoJob,
           NEW r \in Routers, NEW t \in Customers, NEW n \in Pipes, NEW batch \in BOOLEAN,
           S!AcceptJob(r, t, n, batch)
    PROVE  JobInv'
  <1> DEFINE v1 == named[r][n]
             v2 == S!Resolve(r, t, n)
             stored == v1 = S!NoDef /\ v2 \in {dbMem[r][o][n] : o \in {t, S!Global}}
             seen == S!FirstOf(<<v1, v2>>)
             handed == IF v1 = S!NoDef /\ ~batch THEN v2 ELSE S!NoDef
  <1>0. S!NoDef = 0 /\ t \in S!Owners /\ S!Global \in S!Owners /\ 0 \in S!Defs
      BY StoreFacts
  <1>1. /\ job' = [state |-> "queued", at |-> r, tenant |-> t, name |-> n, batch |-> batch,
                   seen |-> seen, handed |-> handed, ran |-> S!NoDef, stored |-> stored,
                   moved |-> FALSE]
        /\ seen # 0
        /\ UNCHANGED <<named, mem>>
      BY <1>0 DEF S!AcceptJob, S!memory
  <1>2. v1 \in S!Defs /\ v2 \in S!Defs /\ stored \in BOOLEAN
    <2>1. {dbMem[r][t][n], dbMem[r][S!Global][n], mem[r][n], named[r][n]} \subseteq S!Defs
        BY <1>0 DEF StoresTyped
    <2>2. v2 \in {dbMem[r][t][n], dbMem[r][S!Global][n], mem[r][n]}
        BY ResolvesOneOf
    <2>3. stored \in BOOLEAN
        OBVIOUS
    <2> QED  BY <2>1, <2>2, <2>3
  <1>3. seen = IF v1 # 0 THEN v1 ELSE v2
      BY FirstOfTwo
  <1>4. ~stored /\ v1 = 0 /\ v2 # 0 => v2 = mem[r][n]
      BY <1>0, LookUps, ZenonT(60)
  <1>5. handed = IF v1 = 0 /\ ~batch THEN v2 ELSE 0
      BY <1>0
  <1>6. v1 = named[r][n]
      OBVIOUS
  <1> HIDE DEF v1, v2, stored, seen, handed
  <1>7. /\ job' \in S!JobType
        /\ job'.state = "queued" /\ job'.at = r /\ job'.name = n /\ job'.batch = batch
        /\ job'.seen = seen /\ job'.handed = handed /\ job'.stored = stored
    <2>1. seen \in S!Defs /\ handed \in S!Defs
        BY <1>0, <1>2, <1>3, <1>5
    <2> QED  BY <1>0, <1>1, <1>2, <2>1 DEF S!JobType
  <1>8. named' = named /\ mem' = mem
      BY <1>1
  <1>9. Follows'
      BY <1>1, <1>3, <1>4, <1>5, <1>6, <1>7, <1>8 DEF Follows
  <1> QED  BY <1>7, <1>9 DEF JobInv, JobShape, JobRunsWhatWasAccepted, S!JobRunsWhatWasAccepted

LEMMA JobStarted == StoresTyped /\ JobInv /\ S!StartJob => JobInv'
  <1> SUFFICES ASSUME StoresTyped, JobInv, S!StartJob PROVE JobInv'
      OBVIOUS
  <1> DEFINE found == S!LooksUp
  <1>1. /\ job # S!NoJob /\ job.state = "queued" /\ job \in S!JobType
        /\ job' = [job EXCEPT !.state = "started", !.ran = found]
      BY DEF S!StartJob, JobInv, JobShape
  <1>2. found = IF named[job.at][job.name] # 0 THEN named[job.at][job.name]
                ELSE IF job.handed # 0 THEN job.handed ELSE mem[job.at][job.name]
      BY FirstOfThree DEF S!LooksUp
  <1>3. ~job.moved /\ ~(job.batch /\ job.stored) => found = job.seen
      BY <1>1, <1>2, JobFields DEF JobInv, Follows
  <1>4. found \in S!Defs
      BY <1>1, <1>2, JobFields DEF StoresTyped
  <1> HIDE DEF found
  <1>5. job' \in S!JobType
      BY <1>1, <1>4 DEF S!JobType
  <1>6. /\ job'.state = "started" /\ job'.ran = found /\ job'.moved = job.moved
        /\ job'.batch = job.batch /\ job'.stored = job.stored /\ job'.seen = job.seen
      BY <1>1 DEF S!JobType
  <1> QED  BY <1>3, <1>5, <1>6 DEF JobInv, JobShape, Follows, JobRunsWhatWasAccepted, S!JobRunsWhatWasAccepted

LEMMA WaitsFacts ==
    ASSUME JobInv, NEW r, NEW n
    PROVE  /\ S!Waits(r, n) <=> job # S!NoJob /\ job.at = r /\ job.name = n /\ job.state = "queued"
           /\ S!Waits(r, n) => job \in S!JobType
  BY DEF S!Waits, JobInv, JobShape

\* v2_pipelines of a replica changes under one name.
LEMMA FilesMoved ==
    ASSUME StoresTyped, JobInv, job # S!NoJob, NEW r \in Routers, NEW n \in Pipes, NEW d,
           mem' = [mem EXCEPT ![r][n] = d], S!FilesMove(r, n), named' = named
    PROVE  Carries
  <1>1. job \in S!JobType
      BY DEF JobInv, JobShape
  <1>2. \A q \in Routers : \A x \in Pipes :
           [mem EXCEPT ![r][n] = d][q][x] = IF q = r /\ x = n THEN d ELSE mem[q][x]
    <2>1. mem \in [Routers -> [Pipes -> S!Defs]]
        BY DEF StoresTyped
    <2> QED  BY <2>1, PlaceOfTwo
  <1>3. CASE ~S!Waits(r, n)
    <2>1. job' = job
        BY <1>3 DEF S!FilesMove
    <2>2. job.state = "queued" => mem'[job.at][job.name] = mem[job.at][job.name]
        BY <1>1, <1>2, <1>3, JobFields, WaitsFacts
    <2> QED  BY <2>1, <2>2 DEF Carries
  <1>4. CASE S!Waits(r, n)
    <2>1. job.state = "queued" /\ job' = [job EXCEPT !.moved = job.moved \/ job.batch]
        BY <1>4, WaitsFacts DEF S!FilesMove
    <2>2. CASE job.moved \/ job.batch
      <3>1. (job.moved \/ job.batch) = TRUE
          BY <2>2
      <3>2. job' = [job EXCEPT !.moved = TRUE]
          BY <2>1, <3>1
      <3>3. job' = job => job.moved
        <4>1. job'.moved = TRUE
            BY <1>1, <3>2, JobTold
        <4> QED  BY <4>1
      <3> QED  BY <2>1, <3>2, <3>3 DEF Carries
    <2>3. CASE ~(job.moved \/ job.batch)
      <3>1. job.moved = FALSE /\ (job.moved \/ job.batch) = FALSE
          BY <1>1, <2>3, JobFields
      <3>2. job' = job
          BY <1>1, <2>1, <3>1 DEF S!JobType
      <3> QED  BY <2>3, <3>2 DEF Carries
    <2> QED  BY <2>2, <2>3
  <1> QED  BY <1>3, <1>4
LEMMA RegistrationTells ==
    ASSUME StoresTyped, JobInv, job # S!NoJob,
           NEW r \in Routers, NEW t \in Customers, NEW n \in Pipes, S!RegisterNamed(r, t, n)
    PROVE  Carries
  <1> DEFINE new == S!NewDef
  <1>1. job \in S!JobType
      BY DEF JobInv, JobShape
  <1>2. named' = [named EXCEPT ![r][n] = new] /\ mem' = mem
      BY DEF S!RegisterNamed, S!memory
  <1> HIDE DEF new
  <1>3. \A q \in Routers : \A x \in Pipes : ~(q = r /\ x = n) => named'[q][x] = named[q][x]
    <2>1. named \in [Routers -> [Pipes -> S!Defs]]
        BY DEF StoresTyped
    <2>2. \A q \in Routers : \A x \in Pipes :
             [named EXCEPT ![r][n] = new][q][x] = IF q = r /\ x = n THEN new ELSE named[q][x]
        BY <2>1, PlaceOfTwo
    <2> QED  BY <1>2, <2>2
  <1>4. CASE S!Waits(r, n)
    <2>1. job.state = "queued" /\ job' = [job EXCEPT !.moved = TRUE]
        BY <1>4, WaitsFacts DEF S!RegisterNamed
    <2>2. job'.moved = TRUE
        BY <1>1, <2>1, JobTold
    <2> QED  BY <2>1, <2>2 DEF Carries
  <1>5. CASE ~S!Waits(r, n)
    <2>1. job' = job
        BY <1>5 DEF S!RegisterNamed
    <2>2. job.state = "queued" => named'[job.at][job.name] = named[job.at][job.name]
        BY <1>1, <1>3, <1>5, JobFields, WaitsFacts
    <2> QED  BY <1>2, <2>1, <2>2 DEF Carries
  <1> QED  BY <1>4, <1>5

\* A load on the replica of the job tells it if what it goes by is not what is loaded.
LEMMA LoadTells ==
    ASSUME StoresTyped, JobInv, job # S!NoJob, NEW r \in Routers, S!Reload(r) \/ S!Restart(r)
    PROVE  Carries
  <1>1. job \in S!JobType
      BY DEF JobInv, JobShape
  <1>2. /\ named' = [named EXCEPT ![r] = [n \in Pipes |-> 0]]
        /\ mem' = [mem EXCEPT ![r] = [n \in Pipes |-> S!Files(n)]]
      BY Loaded, StoreFacts
  <1>3. /\ \A q \in Routers : q # r => named'[q] = named[q] /\ mem'[q] = mem[q]
        /\ \A n \in Pipes : named'[r][n] = 0 /\ mem'[r][n] = S!Files(n)
      BY <1>2 DEF StoresTyped
  <1>4. (\E n \in Pipes : S!Waits(r, n)) <=> job.at = r /\ job.state = "queued"
      BY <1>1, JobFields, WaitsFacts
  <1> DEFINE waits == \E n \in Pipes : S!Waits(r, n)
             changed == \/ named[r][job.name] # S!NoDef
                        \/ job.batch /\ mem[r][job.name] # S!Files(job.name)
  <1>5. CASE ~waits
    <2>1. job' = job
        BY <1>5 DEF S!Reload, S!Restart, S!Moves
    <2>2. job.state = "queued" => job.at # r
        BY <1>4, <1>5
    <2> QED  BY <1>1, <1>3, <2>1, <2>2, JobFields DEF Carries
  <1>6. CASE waits /\ S!Restart(r)
    <2>1. job' = [job EXCEPT !.state = "lost"] /\ job.state = "queued"
        BY <1>4, <1>6 DEF S!Restart
    <2>2. job'.state = "lost"
        BY <1>1, <2>1, JobTold
    <2> QED  BY <2>1, <2>2 DEF Carries
  <1>7. CASE waits /\ S!Reload(r)
    <2>1. job' = [job EXCEPT !.moved = @ \/ changed] /\ job.state = "queued" /\ job.at = r
        BY <1>4, <1>7 DEF S!Reload, S!Moves
    <2>2. CASE job.moved \/ changed
      <3>1. (job.moved \/ changed) = TRUE
          BY <2>2
      <3>2. job' = [job EXCEPT !.moved = TRUE]
        <4> HIDE DEF changed
        <4> QED  BY <2>1, <3>1
      <3>3. job' = job => job.moved
        <4>1. job'.moved = TRUE
            BY <1>1, <3>2, JobTold
        <4> QED  BY <4>1
      <3> QED  BY <2>1, <3>2, <3>3 DEF Carries
    <2>3. CASE ~(job.moved \/ changed)
      <3>1. job.moved = FALSE /\ (job.moved \/ changed) = FALSE
          BY <1>1, <2>3, JobFields
      <3>2. job' = job
        <4> HIDE DEF changed
        <4> QED  BY <1>1, <2>1, <3>1 DEF S!JobType
      <3>3. /\ named[r][job.name] = 0
            /\ job.batch => mem[r][job.name] = S!Files(job.name)
          BY <2>3, StoreFacts
      <3> QED  BY <1>1, <1>3, <2>1, <3>2, <3>3, JobFields DEF Carries
    <2> QED  BY <2>2, <2>3
  <1> QED  BY <1>5, <1>6, <1>7

LEMMA JobStep ==
    ASSUME StoresTyped, JobInv, job # S!NoJob, [S!Next]_S!vars
    PROVE  Carries \/ S!StartJob
  <1>1. ASSUME UNCHANGED <<job, named, mem>> PROVE Carries
      BY <1>1 DEF Carries
  <1>2. ASSUME NEW r \in Routers, NEW t \in Customers, NEW n \in Pipes, S!DeployRow(r, t, n)
        PROVE  Carries
      BY <1>1, <1>2 DEF S!DeployRow
  <1>3. ASSUME NEW r \in Routers, NEW t \in Customers, NEW n \in Pipes, S!DeployFile(r, t, n)
        PROVE  Carries
      BY <1>3, FilesMoved DEF S!DeployFile
  <1>4. ASSUME NEW r \in Routers, NEW t \in Customers, NEW n \in Pipes, S!Delete(r, t, n)
        PROVE  Carries
    <2>1. /\ named' = named
          /\ \/ mem' = mem /\ job' = job
             \/ mem' = [mem EXCEPT ![r][n] = S!NoDef] /\ S!FilesMove(r, n)
        BY <1>4 DEF S!Delete
    <2> QED  BY <1>1, <2>1, FilesMoved
  <1>5. ASSUME NEW r \in Routers, NEW t \in Customers, NEW n \in Pipes, NEW batch \in BOOLEAN,
               S!AcceptJob(r, t, n, batch)
        PROVE  FALSE
      BY <1>5 DEF S!AcceptJob
  <1>6. ASSUME NEW r \in Routers, S!ConnectionLost(r) PROVE Carries
      BY <1>1, <1>6 DEF S!ConnectionLost, S!memory
  <1>7. CASE S!OutageBegins
      BY <1>1, <1>7 DEF S!OutageBegins, S!memory
  <1>8. CASE S!OutageEnds
      BY <1>1, <1>8 DEF S!OutageEnds, S!memory
  <1>9. CASE UNCHANGED S!vars
      BY <1>1, <1>9 DEF S!vars, S!memory
  <1> QED  BY <1>2, <1>3, <1>4, <1>5, <1>6, <1>7, <1>8, <1>9, RegistrationTells, LoadTells DEF S!Next

LEMMA InitJob == S!Init => JobInv
  BY DEF S!Init, JobInv, JobShape, Follows, JobRunsWhatWasAccepted, S!JobRunsWhatWasAccepted

LEMMA NextJob == StoresTyped /\ JobInv /\ [S!Next]_S!vars => JobInv'
  <1> SUFFICES ASSUME StoresTyped, JobInv, [S!Next]_S!vars PROVE JobInv'
      OBVIOUS
  <1>1. CASE job # S!NoJob
      BY <1>1, JobStep, CarriedOn, JobStarted
  <1>2. CASE job = S!NoJob
    <2>1. ASSUME NEW r \in Routers, NEW t \in Customers, NEW n \in Pipes, NEW batch \in BOOLEAN,
                 S!AcceptJob(r, t, n, batch)
          PROVE  JobInv'
        BY <1>2, <2>1, JobAccepted
    <2>2. CASE job' = job
        BY <1>2, <2>2 DEF JobInv, JobShape, Follows, JobRunsWhatWasAccepted,
             S!JobRunsWhatWasAccepted
    <2>3. \A r, n : ~S!Waits(r, n)
        BY <1>2 DEF S!Waits
    <2>4. ASSUME NEW r \in Routers, S!Reload(r) \/ S!Restart(r) PROVE job' = job
        BY <2>3, <2>4 DEF S!Reload, S!Restart, S!Moves
    <2>5. ASSUME NEW r \in Routers, NEW t \in Customers, NEW n \in Pipes,
                 \/ S!DeployRow(r, t, n) \/ S!DeployFile(r, t, n)
                 \/ S!Delete(r, t, n) \/ S!RegisterNamed(r, t, n)
          PROVE  job' = job
        BY <2>3, <2>5 DEF S!DeployRow, S!DeployFile, S!Delete, S!RegisterNamed, S!FilesMove
    <2>6. S!StartJob \/ S!OutageBegins \/ S!OutageEnds \/ UNCHANGED S!vars => job' = job
        BY <1>2 DEF S!StartJob, S!OutageBegins, S!OutageEnds, S!vars
    <2>7. ASSUME NEW r \in Routers, S!ConnectionLost(r) PROVE job' = job
        BY <2>7 DEF S!ConnectionLost
    <2> QED  BY <2>1, <2>2, <2>4, <2>5, <2>6, <2>7 DEF S!Next
  <1> QED  BY <1>1, <1>2

\* For any number of replicas, tenants, names, definitions and outages: a job runs what its
\* creator was authorised for, unless what it goes by moved under it, or it is a batch of a
\* pipeline that lives in the database.
THEOREM JobsRunWhatWasAccepted == PipelinesSpec => []JobRunsWhatWasAccepted
  <1>1. JobInv => JobRunsWhatWasAccepted
      BY DEF JobInv
  <1> QED  BY <1>1, InitStores, NextStores, InitJob, NextJob, PTL DEF PipelinesSpec, S!Spec

DatabaseTyped ==
    /\ dbUp \in BOOLEAN /\ conn \in [Routers -> {"none", "open", "broken"}]
    /\ mishaps \in 0..MaxMishaps

LEMMA InitDatabase == S!Init => DatabaseTyped
  BY StoreFacts DEF S!Init, DatabaseTyped

LEMMA NextDatabase == DatabaseTyped /\ [S!Next]_S!vars => DatabaseTyped'
  <1> SUFFICES ASSUME DatabaseTyped, [S!Next]_S!vars PROVE DatabaseTyped'
      OBVIOUS
  <1> USE StoreFacts DEF DatabaseTyped
  <1>1. ASSUME UNCHANGED S!database PROVE DatabaseTyped'
      BY <1>1 DEF S!database
  <1>2. ASSUME NEW r \in Routers, S!AnswerLost(r), dbUp' = dbUp PROVE DatabaseTyped'
      BY <1>2 DEF S!AnswerLost, S!Breaks
  <1>3. ASSUME NEW r \in Routers, S!Opens(r), UNCHANGED <<dbUp, mishaps>> PROVE DatabaseTyped'
      BY <1>3 DEF S!Opens
  <1>4. ASSUME NEW r \in Routers, NEW t \in Customers, NEW n \in Pipes,
               \/ S!DeployRow(r, t, n) \/ S!DeployFile(r, t, n)
               \/ S!Delete(r, t, n) \/ S!RegisterNamed(r, t, n)
        PROVE  DatabaseTyped'
    <2>1. CASE S!DeployRow(r, t, n)
        BY <1>3, <2>1 DEF S!DeployRow
    <2>2. CASE S!DeployFile(r, t, n)
        BY <1>1, <1>2, <2>2 DEF S!DeployFile, S!database
    <2>3. CASE S!Delete(r, t, n)
      <3>1. dbUp' = dbUp /\ ((S!Opens(r) /\ mishaps' = mishaps) \/ S!AnswerLost(r))
          BY <2>3 DEF S!Delete
      <3> QED  BY <1>2, <1>3, <3>1
    <2>4. CASE S!RegisterNamed(r, t, n)
        BY <1>1, <2>4 DEF S!RegisterNamed
    <2> QED  BY <1>4, <2>1, <2>2, <2>3, <2>4
  <1>5. ASSUME NEW r \in Routers, S!Reload(r) PROVE DatabaseTyped'
      BY <1>3, <1>5 DEF S!Reload
  <1>6. ASSUME NEW r \in Routers, S!Restart(r) PROVE DatabaseTyped'
      BY <1>6 DEF S!Restart
  <1>7. ASSUME NEW r \in Routers, S!ConnectionLost(r) PROVE DatabaseTyped'
      BY <1>7 DEF S!ConnectionLost, S!Breaks
  <1>8. CASE S!OutageBegins
    <2>1. conn' \in [Routers -> {"none", "open", "broken"}]
        BY <1>8 DEF S!OutageBegins
    <2>2. mishaps \in 0..MaxMishaps /\ mishaps < MaxMishaps /\ mishaps' = mishaps + 1
        BY <1>8 DEF S!OutageBegins
    <2>3. dbUp' = FALSE
        BY <1>8 DEF S!OutageBegins
    <2>4. mishaps' \in 0..MaxMishaps
        BY <2>2
    <2> QED  BY <2>1, <2>3, <2>4
  <1>9. CASE S!OutageEnds
      BY <1>9 DEF S!OutageEnds
  <1>10. CASE S!StartJob \/ UNCHANGED S!vars
      BY <1>1, <1>10 DEF S!StartJob, S!vars
  <1>11. ASSUME NEW r \in Routers, NEW t \in Customers, NEW n \in Pipes, NEW batch \in BOOLEAN,
                S!AcceptJob(r, t, n, batch)
         PROVE  DatabaseTyped'
      BY <1>1, <1>11 DEF S!AcceptJob
  <1> QED  BY <1>4, <1>5, <1>6, <1>7, <1>8, <1>9, <1>10, <1>11 DEF S!Next

\* For any number of replicas, tenants, names, definitions and outages, every variable of
\* the store keeps its type.
THEOREM StoreTypes == PipelinesSpec => []S!TypeOK
  <1>1. StoresTyped /\ StoresAgree /\ JobInv /\ DatabaseTyped => S!TypeOK
      BY DEF S!TypeOK, StoresTyped, StoresAgree, OffTyped, JobInv, JobShape, DatabaseTyped
  <1> QED  BY <1>1, InitStores, NextStores, InitAgree, NextAgree, InitJob, NextJob,
              InitDatabase, NextDatabase, PTL DEF PipelinesSpec, S!Spec

=============================================================================
