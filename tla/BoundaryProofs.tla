--------------------------- MODULE BoundaryProofs ---------------------------
(* Proofs about Boundary, whichever programs are asked for, by however many   *)
(* requests: what a handle seals leaves with one call of its owner at most,   *)
(* every call leaves its events, and no declared field leaves a call open.    *)
EXTENDS Boundary, TLAPS, FiniteSetTheorems

\* An idle request has nobody's name yet.
Whos == Subjects \cup {CHOOSE s \in Subjects : TRUE}

Request == [pc : {"idle", "running", "done", "failed"}, prog : Programs \cup {NoProgram},
            who : Whos, allowed : BOOLEAN, step : Nat]

Typed ==
    /\ req \in [Requests -> Request]
    /\ sealed \in [Handles -> {"none", "fresh", "used", "gone"}]
    /\ delivered \in [Handles -> SUBSET (Requests \X Nat)]

\* The calls that carried a handle are one, of its owner, and the row is used.
Once ==
    \A h \in Handles :
        /\ delivered[h] # {} => sealed[h] = "used"
        /\ \A c, d \in delivered[h] : c = d
        /\ \A c \in delivered[h] : req[c[1]].pc # "idle" /\ req[c[1]].who = Owner[h]

IInv == Typed /\ Once

\* A request that has begun does not begin again, and stays its caller's.
Kept ==
    /\ req' \in [Requests -> Request]
    /\ \A r \in Requests :
          req[r].pc # "idle" => req'[r].pc # "idle" /\ req'[r].who = req[r].who

LEMMA SameKept ==
    ASSUME Typed, UNCHANGED req PROVE Kept
  BY DEF Typed, Kept

LEMMA EndsKept ==
    ASSUME Typed, NEW q \in Requests, NEW pc \in {"done", "failed"}, EndsAs(q, pc)
    PROVE  Kept
  <1>1. req' = [req EXCEPT ![q] = [req[q] EXCEPT !.pc = pc, !.prog = NoProgram, !.step = 0]]
      BY DEF EndsAs
  <1>2. req[q] \in Request
      BY DEF Typed
  <1>3. [req[q] EXCEPT !.pc = pc, !.prog = NoProgram, !.step = 0] \in Request
      BY <1>2 DEF Request
  <1>4. req' \in [Requests -> Request]
      BY <1>1, <1>3 DEF Typed
  <1>5. req'[q].pc # "idle" /\ req'[q].who = req[q].who
      BY <1>1, <1>2 DEF Typed, Request
  <1>6. \A r \in Requests : r # q => req'[r] = req[r]
      BY <1>1 DEF Typed
  <1> QED  BY <1>4, <1>5, <1>6 DEF Kept

\* Nothing is sent out with a handle, and no used row is used anew.
LEMMA Quiet ==
    ASSUME IInv, Kept, UNCHANGED delivered,
           sealed' \in [Handles -> {"none", "fresh", "used", "gone"}],
           \A h \in Handles : sealed[h] = "used" => sealed'[h] = "used"
    PROVE  IInv'
  <1>1. Typed'
      BY DEF IInv, Typed, Kept
  <1>2. \A h \in Handles : \A c \in delivered[h] : c[1] \in Requests
      BY DEF IInv, Typed
  <1>3. Once'
      BY <1>2 DEF IInv, Once, Kept
  <1> QED  BY <1>1, <1>3 DEF IInv

\* _resolve_handle_from_db: rows become used, and none is taken back.
LEMMA SealedKept ==
    ASSUME Typed, NEW hs, NEW who, sealed' = SealedAfter(hs, who)
    PROVE  /\ sealed' \in [Handles -> {"none", "fresh", "used", "gone"}]
           /\ \A h \in Handles : sealed[h] = "used" => sealed'[h] = "used"
  BY DEF Typed, SealedAfter

\* What a call carries was resolvable for its caller, and is not any more.
LEMMA SendsOnce ==
    ASSUME IInv, UNCHANGED req, NEW q \in Requests, req[q].pc = "running",
           NEW hs, NEW out, out \subseteq {h \in hs : Resolvable(h, req[q].who)},
           sealed' = SealedAfter(hs, req[q].who),
           delivered' = Delivers(out, <<q, req[q].step>>)
    PROVE  IInv'
  <1>1. req[q].step \in Nat
      BY DEF IInv, Typed, Request
  <1>2. <<q, req[q].step>> \in Requests \X Nat
      BY <1>1
  <1>3. delivered' \in [Handles -> SUBSET (Requests \X Nat)]
      BY <1>2 DEF IInv, Typed, Delivers
  <1>4. Typed'
      BY <1>3, SealedKept DEF IInv, Typed
  <1>5. ASSUME NEW h \in Handles, h \in out
        PROVE  /\ delivered'[h] = {<<q, req[q].step>>} /\ sealed'[h] = "used"
               /\ Owner[h] = req[q].who
    <2>1. h \in hs /\ Resolvable(h, req[q].who)
        BY <1>5
    <2>2. delivered[h] = {}
        BY <2>1 DEF IInv, Once, Resolvable
    <2> QED  BY <1>5, <2>1, <2>2 DEF Delivers, SealedAfter, Resolvable
  <1>6. ASSUME NEW h \in Handles, h \notin out
        PROVE  /\ delivered'[h] = delivered[h]
               /\ sealed[h] = "used" => sealed'[h] = "used"
      BY <1>6, SealedKept DEF Delivers, IInv
  <1>7. ASSUME NEW h \in Handles
        PROVE  /\ delivered'[h] # {} => sealed'[h] = "used"
               /\ \A c, d \in delivered'[h] : c = d
               /\ \A c \in delivered'[h] : req'[c[1]].pc # "idle" /\ req'[c[1]].who = Owner[h]
    <2>1. CASE h \in out
        BY <2>1, <1>5
    <2>2. CASE h \notin out
        BY <2>2, <1>6 DEF IInv, Once
    <2> QED  BY <2>1, <2>2
  <1>8. Once'
      BY <1>7 DEF Once
  <1> QED  BY <1>4, <1>8 DEF IInv

LEMMA BeginHolds ==
    ASSUME IInv, NEW q \in Requests, NEW p \in Programs, NEW caller \in Callers,
           Begin(q, p, caller)
    PROVE  IInv'
  <1>1. caller.who \in Whos /\ caller.allowed \in BOOLEAN
      BY BoundaryAssumption DEF Whos
  <1>2. CASE Checked(p) /\ ~caller.allowed
    <2>1. EndsAs(q, "failed") /\ UNCHANGED <<sealed, delivered>>
        BY <1>2 DEF Begin
    <2>2. Kept
        BY <2>1, EndsKept DEF IInv
    <2> QED  BY <2>1, <2>2, Quiet DEF IInv, Typed
  <1>3. CASE ~(Checked(p) /\ ~caller.allowed)
    <2> DEFINE new == [pc |-> "running", prog |-> p, step |-> 1,
                       who |-> caller.who, allowed |-> caller.allowed]
    <2>1. /\ req' = [req EXCEPT ![q] = new] /\ UNCHANGED <<sealed, delivered>>
          /\ req[q].pc = "idle"
        BY <1>3 DEF Begin
    <2>2. new \in Request
        BY <1>1 DEF Request
    <2>3. req' \in [Requests -> Request]
        BY <2>1, <2>2 DEF IInv, Typed
    <2>4. \A r \in Requests : r # q => req'[r] = req[r]
        BY <2>1 DEF IInv, Typed
    <2>5. Kept
        BY <2>1, <2>3, <2>4 DEF Kept
    <2> QED  BY <2>1, <2>5, Quiet DEF IInv, Typed
  <1> QED  BY <1>2, <1>3

LEMMA StartToolHolds ==
    ASSUME IInv, NEW q \in Requests, NEW broken \in SUBSET Handles, StartTool(q, broken)
    PROVE  IInv'
  <1> DEFINE v2 == req[q].prog.kind = "v2"
             hs == IF v2 THEN {} ELSE StepOf(q).sealed
             open == Opened(hs, req[q].who, broken)
             pre == PreHooks[open \cap Telling # {}]
             refused == pre.denied \/ Manifest[StepOf(q).mcp].transport = "unsafe"
             out == IF "secret" \in pre.value.has THEN open ELSE open \ Telling
  <1>1. req[q].pc = "running"
      BY DEF StartTool, MayStart
  <1>2. sealed' = SealedAfter(hs, req[q].who)
      BY DEF StartTool
  <1>3. CASE refused
    <2>1. UNCHANGED delivered
        BY <1>3 DEF StartTool
    <2>2. UNCHANGED req \/ EndsAs(q, "failed")
        BY <1>3 DEF StartTool, Becomes, Fails
    <2>3. Kept
        BY <2>2, SameKept, EndsKept DEF IInv
    <2> HIDE DEF hs
    <2> QED  BY <1>2, <2>1, <2>3, Quiet, SealedKept DEF IInv
  <1>4. CASE ~refused
    <2>1. delivered' = Delivers(out, <<q, req[q].step>>) /\ UNCHANGED req
        BY <1>4 DEF StartTool, Becomes
    <2> HIDE DEF hs, pre
    <2>2. out \subseteq {h \in hs : Resolvable(h, req[q].who)}
        BY DEF Opened
    <2> HIDE DEF out
    <2> QED  BY <1>1, <1>2, <2>1, <2>2, SendsOnce
  <1> QED  BY <1>3, <1>4

LEMMA StartAgentHolds ==
    ASSUME IInv, NEW q \in Requests, NEW broken \in SUBSET Handles, NEW limited \in BOOLEAN,
           StartAgent(q, broken, limited)
    PROVE  IInv'
  <1> DEFINE m == Manifest[StepOf(q).mcp]
             who == req[q].who
             inputs == IF req[q].prog.kind = "call" THEN {} ELSE StepOf(q).sealed
             mine == req[q].allowed /\ m.tenant = who
             may == mine /\ Rule[StepOf(q).mcp] = "allow" /\ ~limited
             asked == IF may THEN m.auth ELSE {}
             hs == inputs \cup asked
             open == Opened(hs, who, broken)
             goes == may /\ asked \subseteq open
  <1>1. req[q].pc = "running"
      BY DEF StartAgent, MayStart
  <1>2. sealed' = SealedAfter(hs, who)
      BY DEF StartAgent
  <1>3. CASE ~goes
    <2>1. UNCHANGED delivered
        BY <1>3 DEF StartAgent
    <2>2. UNCHANGED req \/ EndsAs(q, "failed")
        BY <1>3 DEF StartAgent, Becomes, Fails
    <2>3. Kept
        BY <2>2, SameKept, EndsKept DEF IInv
    <2> HIDE DEF hs
    <2> QED  BY <1>2, <2>1, <2>3, Quiet, SealedKept DEF IInv
  <1>4. CASE goes
    <2>1. delivered' = Delivers(open, <<q, req[q].step>>) /\ UNCHANGED req
        BY <1>4 DEF StartAgent, Becomes
    <2> HIDE DEF hs
    <2>2. open \subseteq {h \in hs : Resolvable(h, who)}
        BY DEF Opened
    <2> HIDE DEF open
    <2> QED  BY <1>1, <1>2, <2>1, <2>2, SendsOnce
  <1> QED  BY <1>3, <1>4

\* A call that comes back, and the end of a step, send nothing.
LEMMA OthersHold ==
    ASSUME IInv, NEW q \in Requests,
           \/ StartUnknown(q) \/ StartDenied(q) \/ EndStep(q)
           \/ \E i \in DOMAIN outs[q] : Comes(q, i)
    PROVE  IInv'
  <1>1. UNCHANGED <<sealed, delivered>>
      BY DEF StartUnknown, StartDenied, EndStep, Comes, Return, ReturnAgent, ReturnError
  <1>2. CASE EndStep(q) /\ ~\E pc \in {"done", "failed"} : EndsAs(q, pc)
    <2>1. req' = [req EXCEPT ![q].step = @ + 1] /\ req[q].pc = "running"
        BY <1>2 DEF EndStep
    <2>2. req[q] \in Request
        BY DEF IInv, Typed
    <2>3. [req[q] EXCEPT !.step = @ + 1] \in Request
        BY <2>2 DEF Request
    <2>4. req' \in [Requests -> Request]
        BY <2>1, <2>3 DEF IInv, Typed
    <2>5. \A r \in Requests : req'[r].pc = req[r].pc /\ req'[r].who = req[r].who
        BY <2>1, <2>2 DEF IInv, Typed, Request
    <2>6. Kept
        BY <2>4, <2>5 DEF Kept
    <2> QED  BY <1>1, <2>6, Quiet DEF IInv, Typed
  <1>3. CASE ~(EndStep(q) /\ ~\E pc \in {"done", "failed"} : EndsAs(q, pc))
    <2>1. UNCHANGED req \/ \E pc \in {"done", "failed"} : EndsAs(q, pc)
        BY <1>3 DEF StartUnknown, StartDenied, EndStep, Comes, Return, ReturnAgent, ReturnError,
                    Becomes, Fails
    <2>2. Kept
        BY <2>1, SameKept, EndsKept DEF IInv
    <2> QED  BY <1>1, <2>2, Quiet DEF IInv, Typed
  <1> QED  BY <1>2, <1>3

LEMMA SealHolds ==
    ASSUME IInv, NEW h \in Handles, Seal(h) \/ Invalidate(h)
    PROVE  IInv'
  <1>1. Kept
      BY SameKept DEF Seal, Invalidate, IInv
  <1>2. /\ UNCHANGED delivered
        /\ sealed' \in [Handles -> {"none", "fresh", "used", "gone"}]
        /\ \A x \in Handles : sealed[x] = "used" => sealed'[x] = "used"
      BY DEF Seal, Invalidate, IInv, Typed
  <1> QED  BY <1>1, <1>2, Quiet

LEMMA InitHolds == Init => IInv
  <1> SUFFICES ASSUME Init PROVE IInv
      OBVIOUS
  <1>1. \A q \in Requests : req[q] \in Request
      BY DEF Init, Request, Whos
  <1>2. req \in [Requests -> Request]
      BY <1>1 DEF Init
  <1>3. /\ sealed \in [Handles -> {"none", "fresh", "used", "gone"}]
        /\ delivered \in [Handles -> SUBSET (Requests \X Nat)]
        /\ \A h \in Handles : delivered[h] = {}
      BY DEF Init
  <1> QED  BY <1>2, <1>3 DEF IInv, Typed, Once

LEMMA NextHolds == IInv /\ [Next]_vars => IInv'
  <1> SUFFICES ASSUME IInv, [Next]_vars PROVE IInv'
      OBVIOUS
  <1>1. CASE \E h \in Handles : Seal(h) \/ Invalidate(h)
      BY <1>1, SealHolds
  <1>2. ASSUME NEW q \in Requests, NEW p \in Programs, NEW caller \in Callers,
               Begin(q, p, caller)
        PROVE  IInv'
      BY <1>2, BeginHolds
  <1>3. ASSUME NEW q \in Requests, Progress(q) \/ \E i \in DOMAIN outs[q] : Comes(q, i)
        PROVE  IInv'
      BY <1>3, StartToolHolds, StartAgentHolds, OthersHold DEF Progress
  <1>4. CASE UNCHANGED vars
      BY <1>4, SameKept, Quiet DEF vars, IInv, Typed
  <1> QED  BY <1>1, <1>2, <1>3, <1>4 DEF Next

\* Whatever fails and however many requests name it, what a handle seals is
\* sent out with one call of its owner at most (_resolve_handle_from_db).
THEOREM OneCallForAHandle == Spec => []HandleReachesOneCall
  <1>1. IInv => HandleReachesOneCall
    <2> SUFFICES ASSUME IInv, NEW h \in Handles
                 PROVE  /\ Cardinality(delivered[h]) <= 1
                        /\ delivered[h] # {} => sealed[h] = "used"
                        /\ \A call \in delivered[h] : req[call[1]].who = Owner[h]
        BY DEF HandleReachesOneCall
    <2>1. CASE delivered[h] = {}
        BY <2>1, FS_EmptySet
    <2>2. CASE delivered[h] # {}
      <3>1. PICK c \in delivered[h] : TRUE
          BY <2>2
      <3>2. delivered[h] = {c}
          BY <3>1 DEF IInv, Once
      <3>3. Cardinality(delivered[h]) = 1
          BY <3>2, FS_Singleton
      <3> QED  BY <3>3 DEF IInv, Once
    <2> QED  BY <2>1, <2>2
  <1> QED  BY <1>1, InitHolds, NextHolds, PTL DEF Spec

LEMMA Induction ==
    ASSUME NEW S, 0 \in S, \A n \in Nat : n \in S => n + 1 \in S
    PROVE  \A n \in Nat : n \in S
  <1> SUFFICES ASSUME NEW n \in Nat, n \notin S PROVE FALSE
      OBVIOUS
  <1> DEFINE T == {k \in 0 .. n : k \notin S}
             f == [k \in T |-> k - 1]
  <1>1. IsFiniteSet(T) /\ T \in SUBSET (0 .. n)
    <2>1. IsFiniteSet(0 .. n) /\ T \in SUBSET (0 .. n)
        BY FS_Interval
    <2> QED  BY <2>1, FS_Subset
  <1>2. \A k \in T : k # 0 /\ k - 1 \in T \ {n}
    <2> SUFFICES ASSUME NEW k \in T PROVE k # 0 /\ k - 1 \in T \ {n}
        OBVIOUS
    <2>1. k # 0 /\ k \in 0 .. n
        OBVIOUS
    <2>2. k - 1 \in 0 .. n /\ k - 1 \in Nat /\ k - 1 + 1 = k /\ k - 1 # n
        BY <2>1
    <2> QED  BY <2>2
  <1>3. n \in T
      OBVIOUS
  <1>4. \A k \in T : k \in Int
      OBVIOUS
  <1> HIDE DEF T
  <1>5. f \in Injection(T, T \ {n})
      BY <1>2, <1>4 DEF Injection, IsInjective
  <1>6. IsFiniteSet(T \ {n}) /\ Cardinality(T \ {n}) = Cardinality(T) - 1 /\ Cardinality(T) \in Nat
      BY <1>1, <1>3, FS_RemoveElement, FS_CardinalityType
  <1>7. Cardinality(T) <= Cardinality(T \ {n})
      BY <1>5, <1>6, FS_Injection
  <1> QED  BY <1>6, <1>7


LEMMA LargestKey ==
    ASSUME NEW S, IsFiniteSet(S), S # {}, NEW key, \A x \in S : key[x] \in Nat
    PROVE  \E m \in S : \A x \in S : key[x] <= key[m]
  <1> DEFINE Has(T) == \E m \in T : \A x \in T : key[x] <= key[m]
             Q == {n \in Nat : \A T \in SUBSET S : Cardinality(T) = n + 1 => Has(T)}
  <1>1. \A T \in SUBSET S : IsFiniteSet(T) /\ Cardinality(T) \in Nat
      BY FS_Subset, FS_CardinalityType
  <1>2. 0 \in Q
    <2> SUFFICES ASSUME NEW T \in SUBSET S, Cardinality(T) = 1 PROVE Has(T)
        OBVIOUS
    <2>1. PICK x : T = {x}
        BY <1>1, FS_Singleton
    <2> QED  BY <2>1
  <1>3. ASSUME NEW n \in Nat, n \in Q PROVE n + 1 \in Q
    <2> SUFFICES ASSUME NEW T \in SUBSET S, Cardinality(T) = n + 1 + 1 PROVE Has(T)
        OBVIOUS
    <2>1. PICK x \in T : TRUE
      <3>1. T # {}
          BY <1>1, FS_EmptySet
      <3> QED  BY <3>1
    <2>2. Cardinality(T \ {x}) = n + 1
        BY <1>1, FS_RemoveElement
    <2>3. PICK m \in T \ {x} : \A y \in T \ {x} : key[y] <= key[m]
        BY <1>3, <2>2
    <2>4. key[x] \in Nat /\ key[m] \in Nat /\ \A y \in T : key[y] \in Nat
        OBVIOUS
    <2>5. CASE key[x] <= key[m]
        BY <2>3, <2>5
    <2>6. CASE key[m] <= key[x]
        BY <2>1, <2>3, <2>4, <2>6
    <2> QED  BY <2>4, <2>5, <2>6
  <1>4. Cardinality(S) \in Nat \ {0}
      BY <1>1, FS_EmptySet
  <1>5. Cardinality(S) - 1 \in Nat /\ Cardinality(S) - 1 + 1 = Cardinality(S)
      BY <1>4
  <1> HIDE DEF Q
  <1>6. Cardinality(S) - 1 \in Q
      BY <1>2, <1>3, <1>5, Induction
  <1> QED  BY <1>5, <1>6 DEF Q

\* The order of the fold.
LEMMA MaxIsLargest ==
    ASSUME NEW S \in SUBSET Nat, IsFiniteSet(S), S # {}
    PROVE  Max(S) \in S /\ \A x \in S : x <= Max(S)
  <1> DEFINE key == [x \in S |-> x]
  <1>1. \E m \in S : \A x \in S : key[x] <= key[m]
    <2>1. \A x \in S : key[x] \in Nat
        OBVIOUS
    <2> HIDE DEF key
    <2> QED  BY <2>1, LargestKey
  <1>2. \E m \in S : \A x \in S : m >= x
      BY <1>1
  <1> QED  BY <1>2 DEF Max

\* f is the function by which a fold of step over D is defined.
IsFold(f, D, R, base, step) ==
    /\ f \in [SUBSET D -> R]
    /\ \A s \in SUBSET D : f[s] = IF s = {} THEN base ELSE step[Max(s)][f[s \ {Max(s)}]]

LEMMA FoldExists ==
    ASSUME NEW D \in SUBSET Nat, IsFiniteSet(D), NEW R, NEW base \in R,
           NEW step, \A x \in D, r \in R : step[x][r] \in R
    PROVE  \E f : IsFold(f, D, R, base, step)
  <1> DEFINE Up(n) == {s \in SUBSET D : Cardinality(s) <= n}
             Folds(f, n) == \A s \in Up(n) :
                 f[s] = IF s = {} THEN base ELSE step[Max(s)][f[s \ {Max(s)}]]
             Q == {n \in Nat : \E f \in [Up(n) -> R] : Folds(f, n)}
  <1>1. \A s \in SUBSET D : IsFiniteSet(s) /\ Cardinality(s) \in Nat
      BY FS_Subset, FS_CardinalityType
  <1>2. ASSUME NEW n \in Nat, NEW s \in Up(n + 1), s # {}
        PROVE  Max(s) \in D /\ s \ {Max(s)} \in Up(n)
    <2>1. Max(s) \in s
        BY <1>1, <1>2, MaxIsLargest
    <2>2. Cardinality(s \ {Max(s)}) = Cardinality(s) - 1
        BY <1>1, <2>1, FS_RemoveElement
    <2>3. Cardinality(s) <= n + 1 /\ Cardinality(s) \in Nat
        BY <1>1
    <2>4. Cardinality(s \ {Max(s)}) <= n
        BY <2>2, <2>3
    <2>5. s \ {Max(s)} \in SUBSET D
        OBVIOUS
    <2> QED  BY <2>1, <2>4, <2>5
  <1>3. 0 \in Q
    <2>1. \A s \in Up(0) : s = {}
        BY <1>1, FS_EmptySet
    <2> DEFINE f == [s \in Up(0) |-> base]
    <2>2. f \in [Up(0) -> R] /\ Folds(f, 0)
        BY <2>1
    <2> QED  BY <2>2
  <1>4. ASSUME NEW n \in Nat, n \in Q PROVE n + 1 \in Q
    <2>1. PICK f \in [Up(n) -> R] : Folds(f, n)
        BY <1>4
    <2> DEFINE g == [s \in Up(n + 1) |->
                       IF s = {} THEN base ELSE step[Max(s)][f[s \ {Max(s)}]]]
    <2>2. g \in [Up(n + 1) -> R]
      <3> SUFFICES ASSUME NEW s \in Up(n + 1), s # {}
                   PROVE  step[Max(s)][f[s \ {Max(s)}]] \in R
          OBVIOUS
      <3>1. Max(s) \in D /\ s \ {Max(s)} \in Up(n)
          BY <1>2
      <3> HIDE DEF Up
      <3>2. f[s \ {Max(s)}] \in R
          BY <3>1
      <3> QED  BY <3>1, <3>2
    <2>3. \A s \in Up(n) : s \in Up(n + 1)
        BY <1>1
    <2>4. \A s \in Up(n) : g[s] = f[s]
        BY <2>1, <2>3
    <2>5. Folds(g, n + 1)
      <3> SUFFICES ASSUME NEW s \in Up(n + 1)
                   PROVE  g[s] = IF s = {} THEN base ELSE step[Max(s)][g[s \ {Max(s)}]]
          OBVIOUS
      <3>1. CASE s = {}
          BY <3>1
      <3>2. CASE s # {}
        <4>1. g[s \ {Max(s)}] = f[s \ {Max(s)}]
            BY <1>2, <2>4, <3>2
        <4> QED  BY <3>2, <4>1
      <3> QED  BY <3>1, <3>2
    <2>6. n + 1 \in Nat
        OBVIOUS
    <2> HIDE DEF g, Up, Folds
    <2>7. \E h \in [Up(n + 1) -> R] : Folds(h, n + 1)
        BY <2>2, <2>5
    <2> QED  BY <2>6, <2>7
  <1>5. Cardinality(D) \in Nat
      BY <1>1
  <1>6. Cardinality(D) \in Q
    <2> HIDE DEF Q
    <2> QED  BY <1>3, <1>4, <1>5, Induction
  <1>7. Up(Cardinality(D)) = SUBSET D
      BY FS_Subset
  <1>8. PICK f \in [Up(Cardinality(D)) -> R] : Folds(f, Cardinality(D))
      BY <1>6
  <1> QED  BY <1>7, <1>8 DEF IsFold

Sorted(T, s) ==
    /\ s \in [1 .. Cardinality(T) -> T]
    /\ \A i, j \in 1 .. Cardinality(T) : i < j => s[i].order < s[j].order

LEMMA SortedExists == \A T \in SUBSET HookConfig : \E s : Sorted(T, s)
  <1> DEFINE Q == {n \in Nat : \A T \in SUBSET HookConfig : Cardinality(T) = n => \E s : Sorted(T, s)}
  <1>1. \A T \in SUBSET HookConfig : IsFiniteSet(T) /\ Cardinality(T) \in Nat
      BY HooksAssumption, FS_Subset, FS_CardinalityType
  <1>2. 0 \in Q
    <2> SUFFICES ASSUME NEW T \in SUBSET HookConfig, Cardinality(T) = 0
                 PROVE  Sorted(T, <<>>)
        OBVIOUS
    <2> QED  BY DEF Sorted
  <1>3. ASSUME NEW n \in Nat, n \in Q PROVE n + 1 \in Q
    <2> SUFFICES ASSUME NEW T \in SUBSET HookConfig, Cardinality(T) = n + 1
                 PROVE  \E s : Sorted(T, s)
        OBVIOUS
    <2> DEFINE key == [h \in T |-> h.order]
    <2>1. T # {} /\ \A h \in T : h.order \in Nat
        BY <1>1, FS_EmptySet, HooksAssumption DEF Hook
    <2>2. \A h \in T : key[h] \in Nat /\ key[h] = h.order
        BY <2>1
    <2>3. PICK m \in T : \A h \in T : key[h] <= key[m]
      <3> HIDE DEF key
      <3> QED  BY <1>1, <2>1, <2>2, LargestKey
    <2>4. \A h \in T \ {m} : h.order < m.order
      <3> SUFFICES ASSUME NEW h \in T \ {m} PROVE h.order < m.order
          OBVIOUS
      <3>1. h.order <= m.order /\ h.order \in Nat /\ m.order \in Nat
          BY <2>1, <2>2, <2>3
      <3>2. h.order # m.order
          BY HooksAssumption
      <3> QED  BY <3>1, <3>2
    <2>5. Cardinality(T \ {m}) = n
        BY <1>1, FS_RemoveElement
    <2>6. PICK s : Sorted(T \ {m}, s)
        BY <1>3, <2>5
    <2> DEFINE t == [i \in 1 .. n + 1 |-> IF i = n + 1 THEN m ELSE s[i]]
    <2>7. \A i \in 1 .. n : s[i] \in T \ {m}
        BY <2>5, <2>6 DEF Sorted
    <2>8. t \in [1 .. n + 1 -> T]
        BY <2>7
    <2>9. ASSUME NEW i \in 1 .. n + 1, NEW j \in 1 .. n + 1, i < j
          PROVE  t[i].order < t[j].order
      <3>1. i \in 1 .. n /\ t[i] = s[i]
          BY <2>9
      <3>2. CASE j = n + 1
          BY <2>4, <2>7, <3>1, <3>2
      <3>3. CASE j # n + 1
        <4>1. j \in 1 .. n /\ t[j] = s[j]
            BY <3>3
        <4> QED  BY <2>5, <2>6, <2>9, <3>1, <4>1 DEF Sorted
      <3> QED  BY <3>2, <3>3
    <2> HIDE DEF t
    <2> QED  BY <2>8, <2>9 DEF Sorted
  <1> SUFFICES ASSUME NEW T \in SUBSET HookConfig PROVE \E s : Sorted(T, s)
      OBVIOUS
  <1>4. Cardinality(T) \in Q
    <2> HIDE DEF Q
    <2> QED  BY <1>1, <1>2, <1>3, Induction
  <1> QED  BY <1>4

\* The hooks of a phase run by their order, and each of them once.
LEMMA InOrderIs ==
    ASSUME NEW phase
    PROVE  LET n == Cardinality(HooksOf(phase))
           IN  /\ n \in Nat
               /\ InOrder(phase) \in [1 .. n -> HooksOf(phase)]
               /\ \A i, j \in 1 .. n : i < j => InOrder(phase)[i].order < InOrder(phase)[j].order
               /\ \A h \in HooksOf(phase) : \E i \in 1 .. n : InOrder(phase)[i] = h
  <1> DEFINE T == HooksOf(phase)
             n == Cardinality(T)
             s == InOrder(phase)
  <1>1. T \in SUBSET HookConfig
      BY DEF HooksOf
  <1>2. IsFiniteSet(T) /\ n \in Nat
      BY <1>1, HooksAssumption, FS_Subset, FS_CardinalityType
  <1>3. PICK t : Sorted(T, t)
      BY <1>1, SortedExists
  <1>4. s \in [1 .. n -> T] /\ \A i, j \in DOMAIN s : i < j => s[i].order < s[j].order
      BY <1>3 DEF InOrder, Sorted
  <1>5. \A i, j \in 1 .. n : i < j => s[i].order < s[j].order
      BY <1>4
  <1>6. \A h \in T : h.order \in Nat
      BY <1>1, HooksAssumption DEF Hook
  <1> HIDE DEF T, s, n
  <1>7. IsInjective(s)
    <2> SUFFICES ASSUME NEW i \in 1 .. n, NEW j \in 1 .. n, s[i] = s[j]
                 PROVE  i = j
        BY <1>4 DEF IsInjective
    <2>1. s[i].order \in Nat /\ s[j].order \in Nat
        BY <1>4, <1>6
    <2>2. ~(i < j) /\ ~(j < i)
        BY <1>5, <2>1
    <2> QED  BY <1>2, <2>2
  <1>8. s \in Injection(1 .. n, T)
      BY <1>4, <1>7 DEF Injection
  <1>9. Cardinality(1 .. n) = Cardinality(T)
    <2>1. Cardinality(1 .. n) = IF 1 > n THEN 0 ELSE n - 1 + 1
        BY <1>2, FS_Interval
    <2> QED  BY <1>2, <2>1 DEF n
  <1>10. s \in Surjection(1 .. n, T)
      BY <1>2, <1>8, <1>9, FS_Injection
  <1>11. \A h \in T : \E i \in 1 .. n : s[i] = h
      BY <1>10 DEF Surjection
  <1> QED  BY <1>2, <1>4, <1>5, <1>11 DEF T, s, n

Result == [value : Value, events : Nat, denied : BOOLEAN]

\* What one hook makes of what the hooks before it have left.
HookStep(h, phase, declares, r) ==
    LET d == Decide(h, phase, declares, r.value)
    IN  IF r.denied THEN r
        ELSE [value  |-> IF d.act = "block" THEN r.value ELSE d.value,
              events |-> r.events + 1,
              denied |-> d.act = "block" /\ h.blocks]

LEMMA DecideType ==
    ASSUME NEW h \in Hook, NEW phase, NEW declares, NEW v \in Value
    PROVE  Decide(h, phase, declares, v).value \in Value
  <1>1. \A x \in {"declared", "secret", "long"} : [v EXCEPT !.has = @ \ {x}] \in Value
      BY DEF Value, Contents
  <1>2. Truncated(v) \in Value
      BY DEF Truncated, Value, Contents
  <1> QED  BY <1>1, <1>2 DEF Decide

LEMMA HookStepType ==
    ASSUME NEW h \in Hook, NEW phase, NEW declares, NEW r \in Result
    PROVE  HookStep(h, phase, declares, r) \in Result
  <1>1. r.value \in Value /\ r.events \in Nat /\ r.denied \in BOOLEAN
      BY DEF Result
  <1>2. Decide(h, phase, declares, r.value).value \in Value
      BY <1>1, DecideType
  <1>3. h.blocks \in BOOLEAN
      BY DEF Hook
  <1> QED  BY <1>1, <1>2, <1>3 DEF HookStep, Result

\* What the hooks leave is what one after the other leaves.
LEMMA RunHooksSteps ==
    ASSUME NEW phase, NEW declares, NEW v \in Value
    PROVE  LET n == Cardinality(HooksOf(phase))
           IN  \E r \in [0 .. n -> Result] :
                 /\ r[0] = [value |-> v, events |-> 0, denied |-> FALSE]
                 /\ \A k \in 1 .. n :
                      r[k] = HookStep(InOrder(phase)[k], phase, declares, r[k - 1])
                 /\ RunHooks(phase, declares, v) = r[n]
  <1> DEFINE n == Cardinality(HooksOf(phase))
             seq == InOrder(phase)
             base == [value |-> v, events |-> 0, denied |-> FALSE]
             After(k, r) == HookStep(seq[k], phase, declares, r)
             Body(f) == [s \in SUBSET (DOMAIN seq) |->
                           IF s = {} THEN base ELSE After(Max(s), f[s \ {Max(s)}])]
             iter == CHOOSE f : f = Body(f)
  <1>1. RunHooks(phase, declares, v) = iter[DOMAIN seq]
      BY DEF RunHooks, FoldLeft, MapThenFoldSet, HookStep
  <1>2. n \in Nat /\ seq \in [1 .. n -> HooksOf(phase)]
      BY InOrderIs
  <1>3. \A k \in 1 .. n : seq[k] \in Hook
      BY <1>2, HooksAssumption DEF HooksOf
  <1>4. base \in Result
      BY DEF Result
  <1>5. DOMAIN seq = 1 .. n
      BY <1>2
  <1>6. \A k \in 1 .. n, r \in Result : After(k, r) \in Result
      BY <1>3, HookStepType
  <1> HIDE DEF n, seq, base, After
  <1>7. \E f : f = Body(f)
    <2> DEFINE step == [k \in 1 .. n |-> [r \in Result |-> After(k, r)]]
    <2>1. \A k \in 1 .. n, r \in Result : step[k][r] = After(k, r) /\ step[k][r] \in Result
        BY <1>6
    <2>2. 1 .. n \in SUBSET Nat /\ IsFiniteSet(1 .. n)
        BY <1>2, FS_Interval
    <2> HIDE DEF step, Body, iter
    <2>3. \A x \in 1 .. n, r \in Result : step[x][r] \in Result
        BY <2>1
    <2>4. PICK f : IsFold(f, 1 .. n, Result, base, step)
        BY <1>4, <2>2, <2>3, FoldExists
    <2>5. ASSUME NEW s \in SUBSET (1 .. n), s # {}
          PROVE  step[Max(s)][f[s \ {Max(s)}]] = After(Max(s), f[s \ {Max(s)}])
      <3>1. IsFiniteSet(s)
          BY <2>2, FS_Subset
      <3>2. Max(s) \in 1 .. n
          BY <2>2, <2>5, <3>1, MaxIsLargest
      <3>3. f[s \ {Max(s)}] \in Result
          BY <2>4 DEF IsFold
      <3> QED  BY <2>1, <3>2, <3>3
    <2>6. f = Body(f)
        BY <1>5, <2>4, <2>5 DEF Body, IsFold
    <2> QED  BY <2>6
  <1>8. iter = Body(iter)
    <2> HIDE DEF Body
    <2> QED  BY <1>7
  <1> HIDE DEF iter
  <1>9. iter[{}] = base
      BY <1>8
  <1>10. ASSUME NEW k \in 1 .. n
         PROVE  iter[1 .. k] = After(k, iter[1 .. k - 1])
    <2>1. Max(1 .. k) = k
      <3>1. 1 .. k \in SUBSET Nat /\ IsFiniteSet(1 .. k) /\ k \in 1 .. k
          BY FS_Interval
      <3>2. Max(1 .. k) \in 1 .. k /\ k <= Max(1 .. k)
          BY <3>1, MaxIsLargest
      <3> QED  BY <3>2
    <2>2. (1 .. k) \ {k} = 1 .. k - 1
        OBVIOUS
    <2>3. 1 .. k \in SUBSET (DOMAIN seq) /\ 1 .. k # {}
        BY <1>2, <1>5
    <2> QED  BY <1>8, <2>1, <2>2, <2>3
  <1> DEFINE r == [k \in 0 .. n |-> iter[1 .. k]]
             Q == {k \in Nat : k <= n => iter[1 .. k] \in Result}
  <1>11. iter[1 .. 0] = base
    <2>1. 1 .. 0 = {}
        OBVIOUS
    <2> QED  BY <1>9, <2>1
  <1>12. \A k \in Nat : k \in Q
    <2>1. 0 \in Q
        BY <1>4, <1>11
    <2>2. ASSUME NEW k \in Nat, k \in Q PROVE k + 1 \in Q
      <3> SUFFICES ASSUME k + 1 <= n PROVE iter[1 .. k + 1] \in Result
          OBVIOUS
      <3>1. k + 1 \in 1 .. n /\ k <= n /\ k + 1 - 1 = k
          BY <1>2
      <3>2. iter[1 .. k + 1] = After(k + 1, iter[1 .. k])
          BY <1>10, <3>1
      <3> QED  BY <1>6, <2>2, <3>1, <3>2
    <2> HIDE DEF Q
    <2> QED  BY <2>1, <2>2, Induction
  <1>13. r \in [0 .. n -> Result]
      BY <1>2, <1>12
  <1>14. r[0] = base /\ r[n] = iter[DOMAIN seq]
      BY <1>2, <1>5, <1>11
  <1>15. \A k \in 1 .. n : r[k] = After(k, r[k - 1])
    <2> SUFFICES ASSUME NEW k \in 1 .. n PROVE r[k] = After(k, r[k - 1])
        OBVIOUS
    <2>1. k \in 0 .. n /\ k - 1 \in 0 .. n
        BY <1>2
    <2>2. r[k] = iter[1 .. k] /\ r[k - 1] = iter[1 .. k - 1]
        BY <2>1
    <2> QED  BY <1>10, <2>2
  <1> HIDE DEF r
  <1> QED  BY <1>1, <1>13, <1>14, <1>15 DEF n, base, seq, After

\* What the hooks leave: a value, and a number of events.
LEMMA RunHooksType ==
    ASSUME NEW phase, NEW declares, NEW v \in Value
    PROVE  RunHooks(phase, declares, v) \in Result
  <1>1. Cardinality(HooksOf(phase)) \in Nat
      BY InOrderIs
  <1>2. PICK r \in [0 .. Cardinality(HooksOf(phase)) -> Result] :
          RunHooks(phase, declares, v) = r[Cardinality(HooksOf(phase))]
      BY RunHooksSteps
  <1> QED  BY <1>1, <1>2

\* A guard for the declared fields runs after calls, before any hook that cuts
\* an answer to a text.
GuardFirst ==
    \E g \in HooksOf("post") :
        /\ g.type = "manifest_pii_guard"
        /\ \A h \in HooksOf("post") : h.type = "output_length_guard" => g.order < h.order

\* No declared field comes out.
Clean(r) == r.denied \/ "declared" \notin r.value.has

LEMMA StepsOfHooks ==
    ASSUME NEW h \in Hook, NEW r \in Result
    PROVE  LET s == HookStep(h, "post", TRUE, r)
           IN  /\ h.type # "output_length_guard" /\ r.value.shape # "text"
                     => s.value.shape # "text"
               /\ h.type = "manifest_pii_guard" /\ r.value.shape # "text" => Clean(r) \/ Clean(s)
               /\ Clean(r) => Clean(s)
  <1> DEFINE d == Decide(h, "post", TRUE, r.value)
  <1>1. r.value \in Value /\ h.type \in Types
      BY DEF Result, Hook
  <1>2. /\ d.value.has \subseteq r.value.has
        /\ h.type # "output_length_guard" => d.value.shape = r.value.shape
        /\ h.type = "manifest_pii_guard" /\ r.value.shape # "text" =>
              d.act = "redact" /\ "declared" \notin d.value.has
      BY <1>1 DEF Decide, Truncated, Value, Types
  <1> HIDE DEF d
  <1> QED  BY <1>2 DEF HookStep, Clean, d

LEMMA HooksRedact ==
    ASSUME GuardFirst, NEW v \in Value, v.shape # "text"
    PROVE  Clean(RunHooks("post", TRUE, v))
  <1> DEFINE n == Cardinality(HooksOf("post"))
             seq == InOrder("post")
             After(k, s) == HookStep(seq[k], "post", TRUE, s)
  <1>1. PICK g \in HooksOf("post") :
          /\ g.type = "manifest_pii_guard"
          /\ \A h \in HooksOf("post") : h.type = "output_length_guard" => g.order < h.order
      BY DEF GuardFirst
  <1>2. /\ n \in Nat /\ seq \in [1 .. n -> HooksOf("post")]
        /\ \A i, j \in 1 .. n : i < j => seq[i].order < seq[j].order
        /\ \A h \in HooksOf("post") : \E i \in 1 .. n : seq[i] = h
      BY InOrderIs
  <1>3. PICK j \in 1 .. n : seq[j] = g
      BY <1>2
  <1>4. PICK r \in [0 .. n -> Result] :
          /\ r[0] = [value |-> v, events |-> 0, denied |-> FALSE]
          /\ \A k \in 1 .. n : r[k] = After(k, r[k - 1])
          /\ RunHooks("post", TRUE, v) = r[n]
      BY RunHooksSteps
  <1>5. \A h \in HooksOf("post") : h \in Hook /\ h.order \in Nat
      BY HooksAssumption DEF HooksOf, Hook
  <1>6. \A k \in 1 .. n : k < j => seq[k].type # "output_length_guard"
    <2> SUFFICES ASSUME NEW k \in 1 .. n, k < j PROVE seq[k].type # "output_length_guard"
        OBVIOUS
    <2>1. seq[k] \in HooksOf("post") /\ seq[k].order < g.order
        BY <1>2, <1>3
    <2> QED  BY <1>1, <1>5, <2>1
  <1> HIDE DEF n, seq, After
  <1> DEFINE Q == {k \in Nat : k <= n => /\ k < j => r[k].value.shape # "text"
                                         /\ k >= j => Clean(r[k])}
  <1>7. 0 \in Q
      BY <1>4
  <1>8. ASSUME NEW k \in Nat, k \in Q PROVE k + 1 \in Q
    <2> SUFFICES ASSUME k + 1 <= n
                 PROVE  /\ k + 1 < j => r[k + 1].value.shape # "text"
                        /\ k + 1 >= j => Clean(r[k + 1])
        OBVIOUS
    <2>1. k + 1 \in 1 .. n /\ k + 1 - 1 = k /\ k <= n /\ k \in 0 .. n
        BY <1>2
    <2>2. r[k + 1] = After(k + 1, r[k]) /\ r[k] \in Result
        BY <1>4, <2>1
    <2>3. seq[k + 1] \in Hook
        BY <1>2, <1>5, <2>1
    <2>4. /\ k < j => r[k].value.shape # "text"
          /\ k >= j => Clean(r[k])
        BY <1>8, <2>1
    <2>5. /\ seq[k + 1].type # "output_length_guard" /\ r[k].value.shape # "text"
                => r[k + 1].value.shape # "text"
          /\ seq[k + 1].type = "manifest_pii_guard" /\ r[k].value.shape # "text"
                => Clean(r[k]) \/ Clean(r[k + 1])
          /\ Clean(r[k]) => Clean(r[k + 1])
        BY <2>2, <2>3, StepsOfHooks DEF After
    <2>6. CASE k + 1 < j
      <3>1. r[k].value.shape # "text" /\ seq[k + 1].type # "output_length_guard"
          BY <1>6, <2>1, <2>4, <2>6
      <3> QED  BY <2>5, <2>6, <3>1
    <2>7. CASE k + 1 = j
      <3>1. r[k].value.shape # "text" /\ seq[k + 1].type = "manifest_pii_guard"
          BY <1>1, <1>3, <2>4, <2>7
      <3> QED  BY <2>5, <2>7, <3>1
    <2>8. CASE k >= j
        BY <2>4, <2>5, <2>8
    <2> QED  BY <2>6, <2>7, <2>8
  <1>9. n \in Q
    <2> HIDE DEF Q
    <2> QED  BY <1>2, <1>7, <1>8, Induction
  <1>10. Clean(r[n])
      BY <1>2, <1>3, <1>9
  <1> QED  BY <1>4, <1>10 DEF n

(***************************************************************************)
(* The items of the steps.                                                  *)
(***************************************************************************)
Outcome(o) ==
    \/ o \in {Waiting, Failed}
    \/ o.state = "sent" /\ o.since \in Nat /\ o.agent \in BOOLEAN
    \/ o.state = "ok"

\* A request that runs is at a step of its program, whose items it counts.
Shaped(q) ==
    /\ req[q].pc = "running" =>
          /\ req[q].prog \in Programs /\ req[q].step \in DOMAIN req[q].prog.steps
          /\ DOMAIN outs[q] = 1 .. StepOf(q).items
          /\ \A i \in DOMAIN outs[q] : Outcome(outs[q][i])
    /\ req[q].pc # "running" => outs[q] = <<>>

Shape ==
    /\ outs = [q \in Requests |-> outs[q]]
    /\ \A q \in Requests : outs[q] = [i \in DOMAIN outs[q] |-> outs[q][i]] /\ Shaped(q)

\* What a step does to the items: the request q ends, or its item i becomes out.
Ends(q) == \E pc \in {"done", "failed"} : EndsAs(q, pc)

Turns(q, i, out) ==
    /\ req[q].pc = "running" /\ i \in DOMAIN outs[q] /\ Outcome(out)
    /\ Becomes(q, i, out)

\* A request begins or goes on to its next step.
Enters(q) ==
    /\ req' \in [Requests -> Request]
    /\ req'[q].pc = "running" /\ req'[q].prog \in Programs
    /\ req'[q].step \in DOMAIN req'[q].prog.steps
    /\ \A r \in Requests : r # q => req'[r] = req[r]
    /\ outs' = [outs EXCEPT ![q] = Enter(req'[q].prog, req'[q].step)]

LEMMA ProgramSteps ==
    ASSUME NEW p \in Programs, NEW s \in DOMAIN p.steps
    PROVE  /\ p.steps \in Seq(Step) /\ p.steps[s] \in Step /\ p.steps[s].items \in Nat
           /\ s \in 1 .. Len(p.steps) /\ Len(p.steps) \in Nat
           /\ p.kind # "v2" => p.steps[s].items = 1
  <1>1. p \in Program /\ (p.kind # "v2" => p.steps[s].items = 1)
      BY BoundaryAssumption
  <1>2. p.steps \in Seq(Step)
      BY <1>1 DEF Program
  <1>3. p.steps[s] \in Step
      BY <1>2
  <1> QED  BY <1>1, <1>2, <1>3 DEF Step

LEMMA EndsShape ==
    ASSUME Typed, Shape, NEW q \in Requests, Ends(q)
    PROVE  /\ Shape'
           /\ req'[q].pc # "running"
           /\ \A r \in Requests : r # q => req'[r] = req[r] /\ outs'[r] = outs[r]
  <1>1. PICK pc \in {"done", "failed"} : EndsAs(q, pc)
      BY DEF Ends
  <1>2. req[q] \in Request
      BY DEF Typed
  <1>3. req'[q].pc = pc /\ \A r \in Requests : r # q => req'[r] = req[r]
      BY <1>1, <1>2 DEF EndsAs, Typed, Request
  <1>4. /\ outs' = [r \in Requests |-> IF r = q THEN <<>> ELSE outs[r]]
        /\ outs'[q] = <<>> /\ \A r \in Requests : r # q => outs'[r] = outs[r]
      BY <1>1 DEF EndsAs, Shape
  <1>5. \A r \in Requests : r # q => Shaped(r)'
      BY <1>3, <1>4 DEF Shape, Shaped, StepOf
  <1>6. Shaped(q)'
      BY <1>3, <1>4 DEF Shaped
  <1>7. \A r \in Requests : outs'[r] = [i \in DOMAIN outs'[r] |-> outs'[r][i]]
      BY <1>4 DEF Shape
  <1>8. outs' = [r \in Requests |-> outs'[r]]
      BY <1>4
  <1> QED  BY <1>3, <1>4, <1>5, <1>6, <1>7, <1>8 DEF Shape

LEMMA TurnsShape ==
    ASSUME Typed, Shape, NEW q \in Requests, NEW i, NEW out, Turns(q, i, out)
    PROVE  /\ Shape' /\ UNCHANGED req
           /\ DOMAIN outs'[q] = DOMAIN outs[q] /\ outs'[q][i] = out
           /\ \A j \in DOMAIN outs[q] : j # i => outs'[q][j] = outs[q][j]
           /\ \A r \in Requests : r # q => outs'[r] = outs[r]
  <1>1. /\ UNCHANGED req /\ outs' = [outs EXCEPT ![q][i] = out]
        /\ i \in DOMAIN outs[q] /\ Outcome(out)
      BY DEF Turns, Becomes
  <1>2. outs[q] = [j \in DOMAIN outs[q] |-> outs[q][j]] /\ outs = [r \in Requests |-> outs[r]]
      BY DEF Shape
  <1>3. /\ outs'[q] = [j \in DOMAIN outs[q] |-> IF j = i THEN out ELSE outs[q][j]]
        /\ outs' = [r \in Requests |-> outs'[r]]
        /\ \A r \in Requests : r # q => outs'[r] = outs[r]
      BY <1>1, <1>2
  <1>4. /\ DOMAIN outs'[q] = DOMAIN outs[q] /\ outs'[q][i] = out
        /\ \A j \in DOMAIN outs[q] : j # i => outs'[q][j] = outs[q][j]
        /\ outs'[q] = [j \in DOMAIN outs'[q] |-> outs'[q][j]]
      BY <1>1, <1>3
  <1>5. Shaped(q)'
    <2>1. Shaped(q) /\ req[q].pc = "running"
        BY DEF Shape, Turns
    <2>2. \A j \in DOMAIN outs'[q] : Outcome(outs'[q][j])
        BY <1>1, <1>4, <2>1 DEF Shaped
    <2>3. StepOf(q)' = StepOf(q)
        BY <1>1 DEF StepOf
    <2> QED  BY <1>1, <1>4, <2>1, <2>2, <2>3 DEF Shaped
  <1>6. \A r \in Requests : r # q => Shaped(r)'
      BY <1>1, <1>3 DEF Shape, Shaped, StepOf
  <1>7. \A r \in Requests : outs'[r] = [j \in DOMAIN outs'[r] |-> outs'[r][j]]
      BY <1>3, <1>4 DEF Shape
  <1> QED  BY <1>1, <1>3, <1>4, <1>5, <1>6, <1>7 DEF Shape

LEMMA EntersShape ==
    ASSUME Typed, Shape, NEW q \in Requests, Enters(q)
    PROVE  /\ Shape'
           /\ \A i \in DOMAIN outs'[q] : outs'[q][i] = Waiting
           /\ \A r \in Requests : r # q => req'[r] = req[r] /\ outs'[r] = outs[r]
  <1> DEFINE p == req'[q].prog
             s == req'[q].step
  <1>1. /\ outs' = [r \in Requests |-> IF r = q THEN Enter(p, s) ELSE outs[r]]
        /\ outs'[q] = Enter(p, s)
        /\ \A r \in Requests : r # q => req'[r] = req[r] /\ outs'[r] = outs[r]
      BY DEF Enters, Shape
  <1>2. /\ DOMAIN outs'[q] = 1 .. p.steps[s].items
        /\ \A i \in DOMAIN outs'[q] : outs'[q][i] = Waiting
        /\ outs'[q] = [i \in DOMAIN outs'[q] |-> outs'[q][i]]
      BY <1>1 DEF Enter
  <1>3. Shaped(q)'
      BY <1>2 DEF Enters, Shaped, StepOf, Outcome
  <1>4. \A r \in Requests : r # q => Shaped(r)'
      BY <1>1 DEF Shape, Shaped, StepOf
  <1>5. \A r \in Requests : outs'[r] = [i \in DOMAIN outs'[r] |-> outs'[r][i]]
      BY <1>1, <1>2 DEF Shape
  <1>6. outs' = [r \in Requests |-> outs'[r]]
      BY <1>1
  <1> QED  BY <1>1, <1>2, <1>3, <1>4, <1>5, <1>6 DEF Shape

(***************************************************************************)
(* The events of the hooks.                                                 *)
(***************************************************************************)
Calls == Requests \X Nat \X Nat

\* The call of item i of step s of q is under way, and began before event e.
Held(q, s, i, e) ==
    /\ req[q].pc = "running" /\ req[q].step = s /\ i \in DOMAIN outs[q]
    /\ outs[q][i].state = "sent" /\ ~outs[q][i].agent /\ outs[q][i].since < e

HeldCall(c, e) ==
    \E q \in Requests, s \in Nat, i \in Nat : c = <<q, s, i>> /\ Held(q, s, i, e)

Audit ==
    /\ events \in Seq(Calls \cup {Handed})
    /\ \A e \in DOMAIN events : events[e] = Handed \/ HeldCall(events[e], e)

LEMMA AuditEnds ==
    ASSUME Typed, Shape, Audit, NEW q \in Requests, Ends(q),
           events' \in Seq(Calls \cup {Handed}),
           \A e \in DOMAIN events' : events'[e] # Handed =>
             /\ e \in DOMAIN events /\ events'[e] = events[e]
             /\ \A s \in Nat, i \in Nat : events[e] # <<q, s, i>>
    PROVE  Audit'
  <1> SUFFICES ASSUME NEW e \in DOMAIN events', events'[e] # Handed
               PROVE  HeldCall(events[e], e)'
      BY DEF Audit
  <1>1. PICK r \in Requests, s \in Nat, i \in Nat :
          events'[e] = <<r, s, i>> /\ Held(r, s, i, e) /\ r # q
      BY DEF Audit, HeldCall
  <1>2. req'[r] = req[r] /\ outs'[r] = outs[r]
      BY <1>1, EndsShape
  <1>3. Held(r, s, i, e)'
      BY <1>1, <1>2 DEF Held
  <1> QED  BY <1>1, <1>3 DEF HeldCall

LEMMA AuditEnters ==
    ASSUME Typed, Shape, Audit, NEW q \in Requests, Enters(q), UNCHANGED events,
           req[q].pc # "running" \/ \A i \in DOMAIN outs[q] : outs[q][i].state # "sent"
    PROVE  Audit'
  <1> SUFFICES ASSUME NEW e \in DOMAIN events, events[e] # Handed
               PROVE  HeldCall(events[e], e)'
      BY DEF Audit
  <1>1. PICK r \in Requests, s \in Nat, i \in Nat :
          events[e] = <<r, s, i>> /\ Held(r, s, i, e)
      BY DEF Audit, HeldCall
  <1>2. r # q
      BY <1>1 DEF Held
  <1>3. req'[r] = req[r] /\ outs'[r] = outs[r]
      BY <1>2, EntersShape
  <1>4. Held(r, s, i, e)'
      BY <1>1, <1>3 DEF Held
  <1> QED  BY <1>1, <1>4 DEF HeldCall

LEMMA AuditTurns ==
    ASSUME Typed, Shape, Audit, NEW q \in Requests, NEW i \in Nat, NEW out, Turns(q, i, out),
           req[q].step \in Nat, events' \in Seq(Calls \cup {Handed}),
           \A e \in DOMAIN events' : events'[e] # Handed =>
             \/ /\ e \in DOMAIN events /\ events'[e] = events[e]
                /\ \A s \in Nat : ~(events[e] = <<q, s, i>> /\ Held(q, s, i, e))
             \/ /\ events'[e] = <<q, req[q].step, i>>
                /\ out.state = "sent" /\ ~out.agent /\ out.since < e
    PROVE  Audit'
  <1> SUFFICES ASSUME NEW e \in DOMAIN events', events'[e] # Handed
               PROVE  HeldCall(events[e], e)'
      BY DEF Audit
  <1>1. /\ UNCHANGED req /\ DOMAIN outs'[q] = DOMAIN outs[q] /\ outs'[q][i] = out
        /\ \A j \in DOMAIN outs[q] : j # i => outs'[q][j] = outs[q][j]
        /\ \A r \in Requests : r # q => outs'[r] = outs[r]
        /\ i \in DOMAIN outs[q] /\ req[q].pc = "running"
      BY TurnsShape DEF Turns
  <1>2. CASE /\ e \in DOMAIN events /\ events'[e] = events[e]
             /\ \A s \in Nat : ~(events[e] = <<q, s, i>> /\ Held(q, s, i, e))
    <2>1. PICK r \in Requests, s \in Nat, j \in Nat :
            events[e] = <<r, s, j>> /\ Held(r, s, j, e)
        BY <1>2 DEF Audit, HeldCall
    <2>2. r # q \/ j # i
        BY <1>2, <2>1
    <2>3. Held(r, s, j, e)'
        BY <1>1, <2>1, <2>2 DEF Held
    <2> QED  BY <1>2, <2>1, <2>3 DEF HeldCall
  <1>3. CASE /\ events'[e] = <<q, req[q].step, i>>
             /\ out.state = "sent" /\ ~out.agent /\ out.since < e
    <2>1. Held(q, req[q].step, i, e)'
        BY <1>1, <1>3 DEF Held
    <2> QED  BY <1>1, <1>3, <2>1 DEF HeldCall
  <1> QED  BY <1>2, <1>3

(***************************************************************************)
(* The steps of a request.                                                  *)
(***************************************************************************)
\* The first item that waits.
LEMMA NextWaits ==
    ASSUME Shape, NEW q \in Requests, MayStart(q)
    PROVE  /\ Next1(q) \in Of(q, "waiting") /\ Next1(q) \in DOMAIN outs[q]
           /\ Next1(q) \in Nat /\ outs[q][Next1(q)].state = "waiting"
  <1> DEFINE S == Of(q, "waiting")
             n == StepOf(q).items
             key == [i \in S |-> n - i]
  <1>1. req[q].pc = "running" /\ S # {}
      BY DEF MayStart
  <1>2. DOMAIN outs[q] = 1 .. n /\ n \in Nat
      BY <1>1, ProgramSteps DEF Shape, Shaped, StepOf
  <1>3. S \subseteq 1 .. n
      BY <1>2 DEF Of
  <1>4. IsFiniteSet(S)
    <2>1. IsFiniteSet(1 .. n)
        BY <1>2, FS_Interval
    <2> QED  BY <1>3, <2>1, FS_Subset
  <1>5. \A i \in S : key[i] \in Nat /\ key[i] = n - i
      BY <1>2, <1>3
  <1>6. PICK m \in S : \A i \in S : key[i] <= key[m]
    <2> HIDE DEF key, S
    <2> QED  BY <1>1, <1>4, <1>5, LargestKey
  <1>7. \A i \in S : m <= i
      BY <1>2, <1>3, <1>5, <1>6
  <1>8. Next1(q) \in S
      BY <1>7 DEF Next1
  <1> QED  BY <1>2, <1>3, <1>8 DEF Of

\* Without foreach there is one item.
LEMMA OneItem ==
    ASSUME Shape, NEW q \in Requests, req[q].pc = "running", req[q].prog.kind # "v2"
    PROVE  DOMAIN outs[q] = {1}
  <1>1. DOMAIN outs[q] = 1 .. 1
      BY ProgramSteps DEF Shape, Shaped, StepOf
  <1> QED  BY <1>1

LEMMA Running ==
    ASSUME Typed, Shape, NEW q \in Requests, req[q].pc = "running"
    PROVE  /\ req[q] \in Request /\ req[q].prog \in Programs /\ req[q].step \in Nat
           /\ StepOf(q).mcp \in Mcps /\ Manifest[StepOf(q).mcp] \in Registered
           /\ \A i \in DOMAIN outs[q] : i \in Nat /\ Outcome(outs[q][i])
  <1>1. req[q] \in Request /\ req[q].prog \in Programs /\ req[q].step \in DOMAIN req[q].prog.steps
      BY DEF Typed, Shape, Shaped
  <1>2. StepOf(q) \in Step
      BY <1>1, ProgramSteps DEF StepOf
  <1>3. StepOf(q).mcp \in Mcps
      BY <1>2 DEF Step
  <1>4. Manifest[StepOf(q).mcp] \in Registered
      BY <1>3, BoundaryAssumption
  <1>5. \A i \in DOMAIN outs[q] : i \in Nat /\ Outcome(outs[q][i])
    <2>1. DOMAIN outs[q] = 1 .. StepOf(q).items /\ \A i \in DOMAIN outs[q] : Outcome(outs[q][i])
        BY DEF Shape, Shaped
    <2> QED  BY <2>1
  <1> QED  BY <1>1, <1>3, <1>4, <1>5 DEF Request

\* What a call has appended, and what is left of it when it is written.
Logged(q, i, since, a, w) ==
    /\ a \in Seq(Calls \cup {Handed}) /\ w \in Seq(Calls \cup {Handed})
    /\ DOMAIN w = DOMAIN a /\ Len(events) <= Len(a) /\ Len(a) = Len(w)
    /\ \A e \in DOMAIN a :
          /\ e \in Nat
          /\ w[e] = IF e > since THEN Handed ELSE a[e]
          /\ \/ e \in DOMAIN events /\ a[e] = events[e]
             \/ a[e] = <<q, req[q].step, i>> /\ Len(events) < e

LEMMA Numbers ==
    ASSUME Audit, NEW q \in Requests, req[q].step \in Nat, NEW i \in Nat, NEW n \in Nat,
           NEW since \in Nat
    PROVE  Logged(q, i, since, Appended(q, i, n), Written(since, Appended(q, i, n)))
  <1> DEFINE c == <<q, req[q].step, i>>
             more == [j \in 1 .. n |-> c]
             a == Appended(q, i, n)
             w == Written(since, a)
  <1>1. events \in Seq(Calls \cup {Handed}) /\ c \in Calls \cup {Handed}
      BY DEF Audit, Calls
  <1> HIDE DEF c
  <1>2. more \in Seq(Calls \cup {Handed}) /\ Len(more) = n
      BY <1>1
  <1>3. a = events \o more
      BY DEF Appended, c
  <1> HIDE DEF more, a
  <1>4. a \in Seq(Calls \cup {Handed}) /\ Len(a) = Len(events) + n /\ Len(events) \in Nat
      BY <1>1, <1>2, <1>3
  <1>5. ASSUME NEW e \in DOMAIN a
        PROVE  /\ e \in Nat
               /\ \/ e \in DOMAIN events /\ a[e] = events[e]
                  \/ a[e] = c /\ Len(events) < e
    <2>1. e \in 1 .. Len(events) + n
        BY <1>4
    <2>2. CASE e <= Len(events)
        BY <1>1, <1>2, <1>3, <1>4, <2>1, <2>2
    <2>3. CASE e > Len(events)
      <3>1. e - Len(events) \in 1 .. n
          BY <1>4, <2>1, <2>3
      <3>2. a[e] = more[e - Len(events)]
          BY <1>1, <1>2, <1>3, <1>4, <2>1, <2>3
      <3>3. more[e - Len(events)] = c
          BY <3>1 DEF more
      <3> QED  BY <2>1, <2>3, <3>2, <3>3
    <2> QED  BY <1>4, <2>1, <2>2, <2>3
  <1>6. w = [e \in DOMAIN a |-> IF e > since THEN Handed ELSE a[e]]
    <2> QED  BY DEF Written
  <1>7. w \in Seq(Calls \cup {Handed}) /\ Len(w) = Len(a)
    <2>1. \A e \in 1 .. Len(a) : (IF e > since THEN Handed ELSE a[e]) \in Calls \cup {Handed}
        BY <1>4
    <2>2. w = [e \in 1 .. Len(a) |-> IF e > since THEN Handed ELSE a[e]]
        BY <1>4, <1>6
    <2> HIDE DEF w
    <2> QED  BY <1>4, <2>1, <2>2
  <1> HIDE DEF w
  <1> QED  BY <1>4, <1>5, <1>6, <1>7 DEF w, a, c, Logged

(***************************************************************************)
(* What the steps do to items and events together.                          *)
(***************************************************************************)
\* The events stay as they are, or some of them go to the table.
EventsKept ==
    /\ events' \in Seq(Calls \cup {Handed})
    /\ \A e \in DOMAIN events' : events'[e] # Handed =>
          e \in DOMAIN events /\ events'[e] = events[e]

\* Without foreach an item is all that its request has under way.
LEMMA NoneOthers ==
    ASSUME Typed, Shape, Audit, NEW q \in Requests, NEW i \in DOMAIN outs[q],
           req[q].pc = "running", req[q].prog.kind # "v2",
           NEW e \in DOMAIN events, NEW s \in Nat, NEW j \in Nat,
           events[e] = <<q, s, j>>
    PROVE  j = i /\ Held(q, s, i, e)
  <1>1. events[e] # Handed
      BY DEF Handed
  <1>2. Held(q, s, j, e)
      BY <1>1 DEF Audit, HeldCall
  <1>3. j \in {1} /\ i \in {1}
      BY <1>2, OneItem DEF Held
  <1> QED  BY <1>2, <1>3

\* None of the events that are not in the table belongs to item i of q.
NotHeld(q, i) ==
    \A e \in DOMAIN events' : events'[e] # Handed => \A s \in Nat : ~Held(q, s, i, e)

LEMMA UnsentNotHeld ==
    ASSUME NEW q \in Requests, NEW i \in DOMAIN outs[q],
           outs[q][i].state # "sent" \/ outs[q][i].agent
    PROVE  NotHeld(q, i)
  BY DEF NotHeld, Held

\* The request ends with its item.
LEMMA EndsUnheld ==
    ASSUME Typed, Shape, Audit, NEW q \in Requests, NEW i \in DOMAIN outs[q],
           req[q].pc = "running", req[q].prog.kind # "v2", Ends(q), EventsKept,
           NotHeld(q, i)
    PROVE  Audit'
  <1>1. ASSUME NEW e \in DOMAIN events', events'[e] # Handed
        PROVE  /\ e \in DOMAIN events /\ events'[e] = events[e]
               /\ \A s \in Nat, j \in Nat : events[e] # <<q, s, j>>
    <2>1. e \in DOMAIN events /\ events'[e] = events[e]
        BY <1>1 DEF EventsKept
    <2>2. ASSUME NEW s \in Nat, NEW j \in Nat, events[e] = <<q, s, j>> PROVE FALSE
      <3>1. Held(q, s, i, e)
          BY <2>1, <2>2, NoneOthers
      <3> QED  BY <1>1, <2>2, <3>1 DEF NotHeld
    <2> QED  BY <2>1, <2>2
  <1> QED  BY <1>1, AuditEnds DEF EventsKept

\* The item becomes something else.
LEMMA TurnsUnheld ==
    ASSUME Typed, Shape, Audit, NEW q \in Requests, NEW i \in Nat, NEW out, Turns(q, i, out),
           EventsKept, NotHeld(q, i)
    PROVE  Audit'
  <1>1. req[q].step \in Nat
      BY Running DEF Turns
  <1>2. ASSUME NEW e \in DOMAIN events', events'[e] # Handed
        PROVE  /\ e \in DOMAIN events /\ events'[e] = events[e]
               /\ \A s \in Nat : ~(events[e] = <<q, s, i>> /\ Held(q, s, i, e))
      BY <1>2 DEF EventsKept, NotHeld
  <1> QED  BY <1>1, <1>2, AuditTurns DEF EventsKept

LEMMA SameKeeps == Audit /\ UNCHANGED events => EventsKept
  BY DEF Audit, EventsKept

(***************************************************************************)
(* The results.                                                             *)
(***************************************************************************)
\* An item under way began when there were no more events than now, and one
\* that is done gives no declared field away, if a guard is there for that.
Keeps(m, o) ==
    /\ o.state = "sent" => o.since <= Len(events)
    /\ o.state = "sent" /\ o.agent => m.transport = "agent"
    /\ GuardFirst /\ o.state = "ok" /\ m.transport = "http" /\ m.declares /\ o.came # "text" =>
          "declared" \notin o.value.has

Tool(q) == Manifest[StepOf(q).mcp]

Sound ==
    \A q \in Requests : req[q].pc = "running" =>
        \A i \in DOMAIN outs[q] : Keeps(Tool(q), outs[q][i])

\* A request ends or goes on, and what its items become is sound.
Moves(q) ==
    /\ Len(events) \in Nat /\ Len(events') \in Nat /\ Len(events) <= Len(events')
    /\ \/ Ends(q)
       \/ Enters(q)
       \/ \E i \in Nat : \E out : Turns(q, i, out) /\ Keeps(Tool(q), out)

\* More events do no harm to the items under way.
LEMMA KeepsOn ==
    ASSUME Len(events) \in Nat, Len(events') \in Nat, Len(events) <= Len(events'),
           NEW m, NEW o, Outcome(o), Keeps(m, o)
    PROVE  /\ o.state = "sent" => o.since <= Len(events')
           /\ o.state = "sent" /\ o.agent => m.transport = "agent"
           /\ GuardFirst /\ o.state = "ok" /\ m.transport = "http" /\ m.declares
                 /\ o.came # "text" => "declared" \notin o.value.has
  <1>1. o.state = "sent" => o.since \in Nat
      BY DEF Outcome, Waiting, Failed
  <1> QED  BY <1>1 DEF Keeps

LEMMA MovesSound ==
    ASSUME Typed, Shape, Sound, NEW q \in Requests, Moves(q)
    PROVE  Shape' /\ Sound'
  <1>1. /\ Len(events) \in Nat /\ Len(events') \in Nat /\ Len(events) <= Len(events')
        /\ \/ Ends(q) \/ Enters(q)
           \/ \E i \in Nat : \E out : Turns(q, i, out) /\ Keeps(Tool(q), out)
      BY DEF Moves
  <1>2. ASSUME NEW r \in Requests, req[r].pc = "running", NEW j \in DOMAIN outs[r],
               req'[r] = req[r], outs'[r][j] = outs[r][j]
        PROVE  Keeps(Tool(r), outs[r][j])'
    <2>1. Keeps(Tool(r), outs[r][j]) /\ Outcome(outs[r][j])
        BY <1>2 DEF Sound, Shape, Shaped
    <2>2. Tool(r)' = Tool(r)
        BY <1>2 DEF Tool, StepOf
    <2> QED  BY <1>1, <1>2, <2>1, <2>2, KeepsOn DEF Keeps
  <1>3. CASE Ends(q)
      BY <1>2, <1>3, EndsShape DEF Sound
  <1>4. CASE Enters(q)
    <2>1. \A m : Keeps(m, Waiting)'
        BY DEF Keeps, Waiting
    <2>2. /\ Shape' /\ \A i \in DOMAIN outs'[q] : outs'[q][i] = Waiting
          /\ \A r \in Requests : r # q => req'[r] = req[r] /\ outs'[r] = outs[r]
        BY <1>4, EntersShape
    <2> QED  BY <1>2, <2>1, <2>2 DEF Sound
  <1>5. ASSUME NEW i \in Nat, NEW out, Turns(q, i, out), Keeps(Tool(q), out)
        PROVE  Shape' /\ Sound'
    <2>1. /\ Shape' /\ UNCHANGED req /\ Outcome(out)
          /\ DOMAIN outs'[q] = DOMAIN outs[q] /\ outs'[q][i] = out
          /\ \A j \in DOMAIN outs[q] : j # i => outs'[q][j] = outs[q][j]
          /\ \A r \in Requests : r # q => outs'[r] = outs[r]
        BY <1>5, TurnsShape DEF Turns
    <2>2. Keeps(Tool(q), outs[q][i])'
      <3>1. Tool(q)' = Tool(q)
          BY <2>1 DEF Tool, StepOf
      <3> QED  BY <1>1, <1>5, <2>1, <3>1, KeepsOn DEF Keeps
    <2>3. ASSUME NEW r \in Requests, req[r].pc = "running", NEW j \in DOMAIN outs[r]
          PROVE  Keeps(Tool(r), outs[r][j])'
      <3>1. CASE r = q /\ j = i
          BY <2>2, <3>1
      <3>2. CASE ~(r = q /\ j = i)
          BY <1>2, <2>1, <2>3, <3>2
      <3> QED  BY <3>1, <3>2
    <2>4. \A r \in Requests : req'[r] = req[r] /\ DOMAIN outs'[r] = DOMAIN outs[r]
        BY <2>1
    <2> QED  BY <2>1, <2>3, <2>4 DEF Sound
  <1> QED  BY <1>1, <1>3, <1>4, <1>5

Sound3 == Typed /\ Shape /\ Audit /\ Sound

LEMMA HooksNumbers ==
    /\ \A t \in BOOLEAN : PreHooks[t] \in Result
    /\ \A d \in BOOLEAN, a \in Answers : PostHooks[d][a] \in Result
    /\ GuardFirst => \A a \in Answers : a.shape # "text" => Clean(PostHooks[TRUE][a])
  <1>1. ASSUME NEW t \in BOOLEAN PROVE PreHooks[t] \in Result
    <2> DEFINE v == [shape |-> "dict", has |-> IF t THEN {"secret"} ELSE {}]
    <2>1. v \in Value
        BY DEF Value, Contents
    <2>2. PreHooks[t] = RunHooks("pre", FALSE, v)
        BY DEF PreHooks
    <2> HIDE DEF v
    <2> QED  BY <2>1, <2>2, RunHooksType
  <1>2. ASSUME NEW d \in BOOLEAN, NEW a \in Answers
        PROVE  a \in Value /\ PostHooks[d][a] = RunHooks("post", d, a)
      BY BoundaryAssumption DEF PostHooks
  <1>3. ASSUME NEW d \in BOOLEAN, NEW a \in Answers PROVE PostHooks[d][a] \in Result
      BY <1>2, RunHooksType
  <1>4. ASSUME GuardFirst, NEW a \in Answers, a.shape # "text" PROVE Clean(PostHooks[TRUE][a])
      BY <1>2, <1>4, HooksRedact
  <1> QED  BY <1>1, <1>3, <1>4

LEMMA StartUnknownMoves ==
    ASSUME Sound3, NEW q \in Requests, StartUnknown(q) \/ StartDenied(q)
    PROVE  Moves(q) /\ Audit'
  <1> USE DEF Sound3
  <1> DEFINE i == Next1(q)
  <1>1. /\ MayStart(q) /\ req[q].pc = "running" /\ UNCHANGED events
        /\ Len(events) \in Nat
      BY DEF StartUnknown, StartDenied, MayStart, Audit
  <1>2. i \in Nat /\ i \in DOMAIN outs[q] /\ outs[q][i].state # "sent"
        /\ NotHeld(q, i)
      BY <1>1, NextWaits, UnsentNotHeld
  <1> HIDE DEF i
  <1>3. EventsKept
      BY <1>1, SameKeeps
  <1>4. Outcome(Failed) /\ Keeps(Tool(q), Failed)
      BY DEF Outcome, Failed, Keeps
  <1>5. CASE Fails(q) /\ req[q].prog.kind # "v2"
    <2>1. Ends(q)
        BY <1>5 DEF Fails, Ends
    <2> QED  BY <1>1, <1>2, <1>3, <1>5, <2>1, EndsUnheld DEF Moves
  <1>6. CASE Becomes(q, i, Failed)
    <2>1. Turns(q, i, Failed)
        BY <1>1, <1>2, <1>4, <1>6 DEF Turns
    <2> QED  BY <1>1, <1>2, <1>3, <1>4, <2>1, TurnsUnheld DEF Moves
  <1> QED  BY <1>5, <1>6 DEF StartUnknown, StartDenied, Permitted, i

LEMMA StartToolMoves ==
    ASSUME Sound3, NEW q \in Requests, NEW broken \in SUBSET Handles, StartTool(q, broken)
    PROVE  Moves(q) /\ Audit'
  <1> USE DEF Sound3
  <1> DEFINE i == Next1(q)
             v2 == req[q].prog.kind = "v2"
             hs == IF v2 THEN {} ELSE StepOf(q).sealed
             open == Opened(hs, req[q].who, broken)
             pre == PreHooks[open \cap Telling # {}]
             evs == Appended(q, i, pre.events)
             out == Sent(Len(events), FALSE)
  <1>1. /\ MayStart(q) /\ req[q].pc = "running"
        /\ \/ /\ events' = Written(Len(events), evs)
              /\ IF v2 THEN Becomes(q, i, Failed) ELSE Fails(q)
           \/ events' = evs /\ Becomes(q, i, out)
      BY DEF StartTool, MayStart
  <1>2. i \in Nat /\ i \in DOMAIN outs[q] /\ outs[q][i].state # "sent"
        /\ NotHeld(q, i)
      BY <1>1, NextWaits, UnsentNotHeld
  <1>3. pre.events \in Nat
      BY HooksNumbers DEF Result
  <1> HIDE DEF i, pre
  <1>4. req[q].step \in Nat
      BY <1>1, Running
  <1>5. Len(events) \in Nat /\ Logged(q, i, Len(events), evs, Written(Len(events), evs))
    <2>1. Len(events) \in Nat
        BY DEF Audit
    <2> QED  BY <1>2, <1>3, <1>4, <2>1, Numbers
  <1> HIDE DEF evs
  <1>6. Outcome(Failed) /\ Keeps(Tool(q), Failed)
      BY DEF Outcome, Failed, Keeps
  <1>7. Outcome(out) /\ Keeps(Tool(q), out) /\ out.state = "sent" /\ ~out.agent
        /\ out.since = Len(events)
      BY <1>5 DEF Outcome, Sent, Keeps
  <1> HIDE DEF out
  <1>8. Len(events') \in Nat /\ Len(events) <= Len(events')
      BY <1>1, <1>5 DEF Logged
  <1>9. CASE events' = Written(Len(events), evs)
    <2>1. EventsKept
        BY <1>5, <1>9 DEF EventsKept, Logged
    <2>2. CASE v2 /\ Becomes(q, i, Failed)
      <3>1. Turns(q, i, Failed)
          BY <1>1, <1>2, <1>6, <2>2 DEF Turns
      <3> QED  BY <1>2, <1>5, <1>6, <1>8, <2>1, <3>1, TurnsUnheld DEF Moves
    <2>3. CASE ~v2 /\ Fails(q)
      <3>1. Ends(q)
          BY <2>3 DEF Fails, Ends
      <3> QED  BY <1>1, <1>2, <1>5, <1>8, <2>1, <2>3, <3>1, EndsUnheld DEF Moves
    <2>4. CASE Becomes(q, i, out) /\ events' = evs
      <3>1. Turns(q, i, out)
          BY <1>1, <1>2, <1>7, <2>4 DEF Turns
      <3>2. Audit'
          BY <1>2, <2>1, <3>1, TurnsUnheld
      <3> QED  BY <1>2, <1>5, <1>7, <1>8, <3>1, <3>2 DEF Moves
    <2> QED  BY <1>1, <2>2, <2>3, <2>4
  <1>10. CASE events' = evs /\ Becomes(q, i, out)
    <2>1. Turns(q, i, out)
        BY <1>1, <1>2, <1>7, <1>10 DEF Turns
    <2>2. \A e \in DOMAIN events' : events'[e] # Handed =>
             \/ /\ e \in DOMAIN events /\ events'[e] = events[e]
                /\ \A s \in Nat : ~(events[e] = <<q, s, i>> /\ Held(q, s, i, e))
             \/ /\ events'[e] = <<q, req[q].step, i>>
                /\ out.state = "sent" /\ ~out.agent /\ out.since < e
        BY <1>2, <1>5, <1>7, <1>10 DEF Held, Logged
    <2>3. Audit'
        BY <1>2, <1>4, <1>5, <1>10, <2>1, <2>2, AuditTurns DEF Logged
    <2> QED  BY <1>2, <1>5, <1>7, <1>8, <2>1, <2>3 DEF Moves
  <1> QED  BY <1>1, <1>9, <1>10

LEMMA StartAgentMoves ==
    ASSUME Sound3, NEW q \in Requests, NEW broken \in SUBSET Handles, NEW limited \in BOOLEAN,
           StartAgent(q, broken, limited)
    PROVE  Moves(q) /\ Audit'
  <1> USE DEF Sound3
  <1> DEFINE out == Sent(Len(events), TRUE)
  <1>1. /\ MayStart(q) /\ req[q].pc = "running" /\ UNCHANGED events
        /\ req[q].prog.kind # "v2" /\ Tool(q).transport = "agent"
        /\ Becomes(q, 1, out) \/ Becomes(q, 1, Failed) \/ Fails(q)
      BY DEF StartAgent, MayStart, Tool
  <1>2. 1 \in DOMAIN outs[q] /\ NotHeld(q, 1)
    <2>1. Next1(q) \in DOMAIN outs[q] /\ outs[q][Next1(q)].state # "sent"
        BY <1>1, NextWaits
    <2>2. Next1(q) = 1
        BY <1>1, <2>1, OneItem
    <2> QED  BY <2>1, <2>2, UnsentNotHeld
  <1>3. Len(events) \in Nat
      BY DEF Audit
  <1>4. EventsKept
      BY <1>1, SameKeeps
  <1>5. /\ Outcome(Failed) /\ Keeps(Tool(q), Failed)
        /\ Outcome(out) /\ Keeps(Tool(q), out)
    <2>1. Len(events) \in Nat
        BY DEF Audit
    <2> QED  BY <1>1, <2>1 DEF Outcome, Failed, Keeps, Sent
  <1> HIDE DEF out
  <1>6. ASSUME NEW o, Outcome(o), Keeps(Tool(q), o), Becomes(q, 1, o)
        PROVE  Moves(q) /\ Audit'
    <2>1. Turns(q, 1, o)
        BY <1>1, <1>2, <1>6 DEF Turns
    <2> QED  BY <1>1, <1>2, <1>4, <1>6, <1>3, <2>1, TurnsUnheld DEF Moves
  <1>7. CASE Fails(q)
    <2>1. Ends(q)
        BY <1>7 DEF Fails, Ends
    <2> QED  BY <1>1, <1>2, <1>4, <1>3, <2>1, EndsUnheld DEF Moves
  <1> QED  BY <1>1, <1>5, <1>6, <1>7

\* When a call ends with an error, the events since its beginning are written.
LEMMA WrittenKept ==
    ASSUME Audit, NEW since \in Nat, events' = Written(since, events)
    PROVE  /\ EventsKept /\ Len(events) \in Nat /\ Len(events') = Len(events)
           /\ \A e \in DOMAIN events' : events'[e] # Handed => ~(e > since)
  <1>1. events \in Seq(Calls \cup {Handed}) /\ Len(events) \in Nat
        /\ DOMAIN events = 1 .. Len(events)
      BY DEF Audit
  <1>2. events' = [e \in 1 .. Len(events) |-> IF e > since THEN Handed ELSE events[e]]
      BY <1>1 DEF Written
  <1>3. \A e \in 1 .. Len(events) : (IF e > since THEN Handed ELSE events[e]) \in Calls \cup {Handed}
      BY <1>1
  <1>4. events' \in Seq(Calls \cup {Handed}) /\ Len(events') = Len(events)
      BY <1>1, <1>2, <1>3
  <1>5. \A e \in DOMAIN events' : events'[e] # Handed =>
           e \in DOMAIN events /\ events'[e] = events[e] /\ ~(e > since)
      BY <1>1, <1>2
  <1> QED  BY <1>1, <1>4, <1>5 DEF EventsKept

\* A call that is under way, and what Sound says of it.
LEMMA UnderWay ==
    ASSUME Sound3, NEW q \in Requests, NEW i \in DOMAIN outs[q], req[q].pc = "running",
           i \in Of(q, "sent")
    PROVE  /\ i \in Nat /\ outs[q][i].state = "sent"
           /\ outs[q][i].since \in Nat /\ outs[q][i].since <= Len(events)
           /\ outs[q][i].agent => Tool(q).transport = "agent"
           /\ Len(events) \in Nat
  <1>1. outs[q][i].state = "sent"
      BY DEF Of
  <1>2. i \in Nat /\ Outcome(outs[q][i])
      BY Running DEF Sound3
  <1>3. Keeps(Tool(q), outs[q][i]) /\ Len(events) \in Nat
      BY DEF Sound3, Sound, Audit
  <1> QED  BY <1>1, <1>2, <1>3 DEF Outcome, Keeps, Waiting, Failed

LEMMA ReturnMoves ==
    ASSUME Sound3, NEW q \in Requests, NEW i \in DOMAIN outs[q], NEW answer \in Answers,
           Return(q, i, answer)
    PROVE  Moves(q) /\ Audit'
  <1> DEFINE c == outs[q][i]
             post == PostHooks[Manifest[StepOf(q).mcp].declares][answer]
             evs == Appended(q, i, post.events)
             out == Ok(post.value, answer.shape)
  <1>1. /\ req[q].pc = "running" /\ i \in Of(q, "sent") /\ ~c.agent
        /\ events' = Written(c.since, evs)
        /\ \/ post.denied /\ req[q].prog.kind # "v2" /\ Fails(q)
           \/ post.denied /\ Becomes(q, i, Failed)
           \/ ~post.denied /\ Becomes(q, i, out)
      BY DEF Return
  <1>2. /\ i \in Nat /\ c.state = "sent" /\ c.since \in Nat /\ c.since <= Len(events)
        /\ Len(events) \in Nat
      BY <1>1, UnderWay
  <1>3. Tool(q).declares \in BOOLEAN /\ req[q].step \in Nat
      BY <1>1, Running DEF Sound3, Tool, Registered
  <1>4. post \in Result
      BY <1>3, HooksNumbers DEF Tool
  <1>5. Keeps(Tool(q), Failed) /\ Outcome(Failed) /\ Outcome(out)
      BY DEF Keeps, Failed, Outcome, Ok
  <1>6. ASSUME ~post.denied PROVE Keeps(Tool(q), out)
    <2>1. ASSUME GuardFirst, Tool(q).declares, answer.shape # "text"
          PROVE  "declared" \notin post.value.has
      <3>1. Clean(PostHooks[TRUE][answer])
          BY <2>1, HooksNumbers
      <3>2. Tool(q).declares = TRUE
          BY <1>3, <2>1
      <3> QED  BY <1>6, <3>1, <3>2 DEF Clean, Tool
    <2> QED  BY <2>1 DEF Keeps, Ok
  <1>7. Logged(q, i, c.since, evs, events')
    <2>1. post.events \in Nat
        BY <1>4 DEF Result
    <2> HIDE DEF post
    <2> QED  BY <1>1, <1>2, <1>3, <2>1, Numbers DEF Sound3
  <1>8. ~post.denied => Keeps(Tool(q), out)
      BY <1>6
  <1> HIDE DEF post, evs, out
  <1>9. Len(events') \in Nat /\ Len(events) <= Len(events')
      BY <1>7 DEF Logged
  <1>10. EventsKept /\ NotHeld(q, i)
    <2>1. ASSUME NEW e \in DOMAIN events', events'[e] # Handed
          PROVE  /\ e \in DOMAIN events /\ events'[e] = events[e]
                 /\ \A s \in Nat : ~Held(q, s, i, e)
      <3>1. /\ e \in Nat /\ ~(e > c.since) /\ events'[e] = evs[e]
            /\ \/ e \in DOMAIN events /\ evs[e] = events[e]
               \/ Len(events) < e
          BY <2>1, <1>7 DEF Logged
      <3>2. ~(Len(events) < e)
          BY <1>2, <3>1
      <3> QED  BY <1>2, <3>1, <3>2 DEF Held
    <2> QED  BY <2>1, <1>7 DEF EventsKept, NotHeld, Logged
  <1>11. CASE post.denied /\ req[q].prog.kind # "v2" /\ Fails(q)
    <2>1. Ends(q)
        BY <1>11 DEF Fails, Ends
    <2> QED  BY <1>1, <1>2, <1>9, <1>10, <1>11, <2>1, EndsUnheld DEF Moves, Sound3
  <1>12. ASSUME NEW o, Outcome(o), Keeps(Tool(q), o), Becomes(q, i, o)
         PROVE  Moves(q) /\ Audit'
    <2>1. Turns(q, i, o)
        BY <1>1, <1>12 DEF Turns
    <2>2. Audit'
        BY <1>2, <1>10, <2>1, TurnsUnheld DEF Sound3
    <2> QED  BY <1>2, <1>9, <1>12, <2>1, <2>2 DEF Moves
  <1> QED  BY <1>1, <1>5, <1>8, <1>11, <1>12

LEMMA ReturnErrorMoves ==
    ASSUME Sound3, NEW q \in Requests, NEW i \in DOMAIN outs[q], ReturnError(q, i)
    PROVE  Moves(q) /\ Audit'
  <1> DEFINE c == outs[q][i]
  <1>1. /\ req[q].pc = "running" /\ i \in Of(q, "sent")
        /\ events' = IF c.agent THEN events ELSE Written(c.since, events)
        /\ \/ req[q].prog.kind # "v2" /\ Fails(q)
           \/ Becomes(q, i, Failed)
      BY DEF ReturnError
  <1>2. i \in Nat /\ c.state = "sent" /\ c.since \in Nat /\ Len(events) \in Nat
      BY <1>1, UnderWay
  <1>3. EventsKept /\ NotHeld(q, i) /\ Len(events') = Len(events)
    <2>1. CASE c.agent
        BY <1>1, <2>1, SameKeeps, UnsentNotHeld DEF Sound3
    <2>2. CASE ~c.agent
      <3>1. events' = Written(c.since, events)
          BY <1>1, <2>2
      <3>2. EventsKept /\ Len(events') = Len(events)
            /\ \A e \in DOMAIN events' : events'[e] # Handed => ~(e > c.since)
          BY <1>2, <3>1, WrittenKept DEF Sound3
      <3>3. \A e \in DOMAIN events' : events'[e] # Handed => e \in Nat
          BY <3>2 DEF EventsKept, Sound3, Audit
      <3> QED  BY <1>2, <3>2, <3>3 DEF NotHeld, Held
    <2> QED  BY <2>1, <2>2
  <1>4. CASE req[q].prog.kind # "v2" /\ Fails(q)
    <2>1. Ends(q)
        BY <1>4 DEF Fails, Ends
    <2> QED  BY <1>1, <1>2, <1>3, <1>4, <2>1, EndsUnheld DEF Moves, Sound3
  <1>5. CASE Becomes(q, i, Failed)
    <2>1. Turns(q, i, Failed) /\ Keeps(Tool(q), Failed)
        BY <1>1, <1>5 DEF Turns, Keeps, Failed, Outcome
    <2>2. Audit'
        BY <1>2, <1>3, <2>1, TurnsUnheld DEF Sound3
    <2> QED  BY <1>2, <1>3, <2>1, <2>2 DEF Moves
  <1> QED  BY <1>1, <1>4, <1>5

LEMMA ReturnAgentMoves ==
    ASSUME Sound3, NEW q \in Requests, NEW i \in DOMAIN outs[q], NEW answer \in Answers,
           ReturnAgent(q, i, answer)
    PROVE  Moves(q) /\ Audit'
  <1> DEFINE out == Ok(answer, answer.shape)
  <1>1. /\ req[q].pc = "running" /\ i \in Of(q, "sent") /\ outs[q][i].agent
        /\ UNCHANGED events /\ Becomes(q, i, out)
      BY DEF ReturnAgent
  <1>2. i \in Nat /\ Tool(q).transport = "agent" /\ Len(events) \in Nat
      BY <1>1, UnderWay
  <1>3. Outcome(out) /\ Keeps(Tool(q), out)
      BY <1>2 DEF Outcome, Keeps, Ok
  <1> HIDE DEF out
  <1>4. Turns(q, i, out)
      BY <1>1, <1>3 DEF Turns
  <1>5. Audit'
      BY <1>1, <1>2, <1>4, SameKeeps, UnsentNotHeld, TurnsUnheld DEF Sound3
  <1> QED  BY <1>1, <1>2, <1>3, <1>4, <1>5 DEF Moves

\* A request of which no call is under way ends, or goes on.
LEMMA IdleMoves ==
    ASSUME Sound3, NEW q \in Requests, Ends(q) \/ Enters(q), UNCHANGED events,
           req[q].pc # "running" \/ \A i \in DOMAIN outs[q] : outs[q][i].state # "sent"
    PROVE  Moves(q) /\ Audit'
  <1> USE DEF Sound3
  <1>1. Len(events) \in Nat /\ events' \in Seq(Calls \cup {Handed})
      BY DEF Audit
  <1>2. ASSUME NEW e \in DOMAIN events, events[e] # Handed, NEW s \in Nat, NEW i \in Nat
        PROVE  events[e] # <<q, s, i>>
    <2> SUFFICES ASSUME events[e] = <<q, s, i>> PROVE FALSE
        OBVIOUS
    <2>1. Held(q, s, i, e)
        BY <1>2 DEF Audit, HeldCall
    <2> QED  BY <2>1 DEF Held
  <1>3. CASE Ends(q)
    <2>1. Audit'
        BY <1>1, <1>2, <1>3, AuditEnds
    <2> QED  BY <1>1, <1>3, <2>1 DEF Moves
  <1>4. CASE Enters(q)
    <2>1. Audit'
        BY <1>4, AuditEnters
    <2> QED  BY <1>1, <1>4, <2>1 DEF Moves
  <1> QED  BY <1>3, <1>4

LEMMA EndStepMoves ==
    ASSUME Sound3, Typed', NEW q \in Requests, EndStep(q)
    PROVE  Moves(q) /\ Audit'
  <1> DEFINE last == req[q].step = Len(req[q].prog.steps)
             s == req[q].step + 1
  <1>1. /\ req[q].pc = "running" /\ UNCHANGED events
        /\ \A i \in DOMAIN outs[q] : outs[q][i].state # "sent"
      BY DEF EndStep, Of
  <1>2. CASE last
    <2>1. Ends(q)
        BY <1>2 DEF EndStep, Ends
    <2> QED  BY <1>1, <2>1, IdleMoves
  <1>3. CASE ~last
    <2>1. /\ req' = [req EXCEPT ![q].step = @ + 1]
          /\ outs' = [outs EXCEPT ![q] = Enter(req[q].prog, s)]
        BY <1>3 DEF EndStep
    <2>2. /\ req[q].prog \in Programs /\ req[q].step \in DOMAIN req[q].prog.steps
          /\ req[q] \in Request /\ req \in [Requests -> Request]
        BY <1>1 DEF Sound3, Typed, Shape, Shaped
    <2>3. /\ req'[q].pc = "running" /\ req'[q].prog = req[q].prog /\ req'[q].step = s
          /\ \A r \in Requests : r # q => req'[r] = req[r]
        BY <1>1, <2>1, <2>2 DEF Request
    <2>4. s \in DOMAIN req[q].prog.steps
      <3>1. /\ req[q].step \in 1 .. Len(req[q].prog.steps) /\ Len(req[q].prog.steps) \in Nat
            /\ req[q].prog.steps \in Seq(Step)
          BY <2>2, ProgramSteps
      <3>2. s \in 1 .. Len(req[q].prog.steps)
          BY <1>3, <3>1
      <3> QED  BY <3>1, <3>2
    <2>5. req' \in [Requests -> Request]
        BY DEF Typed
    <2>6. Enters(q)
        BY <2>1, <2>2, <2>3, <2>4, <2>5 DEF Enters
    <2> QED  BY <1>1, <2>6, IdleMoves
  <1> QED  BY <1>2, <1>3

LEMMA BeginMoves ==
    ASSUME Sound3, Typed', NEW q \in Requests, NEW p \in Programs, NEW caller \in Callers,
           Begin(q, p, caller)
    PROVE  Moves(q) /\ Audit'
  <1> DEFINE new == [pc |-> "running", prog |-> p, step |-> 1,
                     who |-> caller.who, allowed |-> caller.allowed]
  <1>1. req[q].pc # "running" /\ UNCHANGED events
      BY DEF Begin
  <1>2. CASE EndsAs(q, "failed")
    <2>1. Ends(q)
        BY <1>2 DEF Ends
    <2> QED  BY <1>1, <2>1, IdleMoves
  <1>3. CASE ~EndsAs(q, "failed")
    <2>1. req' = [req EXCEPT ![q] = new] /\ outs' = [outs EXCEPT ![q] = Enter(p, 1)]
        BY <1>3 DEF Begin
    <2>2. req'[q] = new /\ \A r \in Requests : r # q => req'[r] = req[r]
        BY <2>1 DEF Sound3, Typed
    <2>3. 1 \in DOMAIN p.steps
      <3>1. p.steps \in Seq(Step) /\ p.steps # <<>>
          BY BoundaryAssumption DEF Program
      <3> QED  BY <3>1
    <2>4. req' \in [Requests -> Request]
        BY DEF Typed
    <2>5. Enters(q)
        BY <2>1, <2>2, <2>3, <2>4 DEF Enters
    <2> QED  BY <1>1, <2>5, IdleMoves
  <1> QED  BY <1>2, <1>3

\* Whatever a request does, it moves in one of these ways.
LEMMA NextMoves ==
    ASSUME Sound3, Typed', NEW q \in Requests,
           \/ \E p \in Programs, caller \in Callers : Begin(q, p, caller)
           \/ Progress(q)
           \/ \E i \in DOMAIN outs[q] : Comes(q, i)
    PROVE  Moves(q) /\ Audit'
  <1>1. CASE \E p \in Programs, caller \in Callers : Begin(q, p, caller)
      BY <1>1, BeginMoves
  <1>2. CASE Progress(q)
      BY <1>2, StartUnknownMoves, StartToolMoves, StartAgentMoves, EndStepMoves DEF Progress
  <1>3. CASE \E i \in DOMAIN outs[q] : Comes(q, i)
      BY <1>3, ReturnMoves, ReturnErrorMoves, ReturnAgentMoves DEF Comes
  <1> QED  BY <1>1, <1>2, <1>3

JInv == IInv /\ Shape /\ Audit /\ Sound

LEMMA InitSound == Init => JInv
  <1> SUFFICES ASSUME Init PROVE JInv
      OBVIOUS
  <1>1. outs = [q \in Requests |-> <<>>] /\ events = <<>>
        /\ \A q \in Requests : req[q].pc = "idle" /\ outs[q] = <<>>
      BY DEF Init
  <1>2. <<>> = [i \in DOMAIN <<>> |-> <<>>[i]]
      OBVIOUS
  <1>3. Shape
      BY <1>1, <1>2 DEF Shape, Shaped
  <1>4. Audit
      BY <1>1 DEF Audit
  <1>5. Sound
      BY <1>1 DEF Sound
  <1> QED  BY <1>3, <1>4, <1>5, InitHolds DEF JInv

LEMMA StaysSound ==
    ASSUME JInv, UNCHANGED <<req, outs, events>>
    PROVE  Shape' /\ Audit' /\ Sound'
  <1>1. Shape'
    <2>1. \A q \in Requests : Shaped(q)'
        BY DEF JInv, Shape, Shaped, StepOf
    <2> QED  BY <2>1 DEF JInv, Shape
  <1>2. Audit'
    <2>1. \A q \in Requests, s \in Nat, i \in Nat, e \in DOMAIN events :
            Held(q, s, i, e) => Held(q, s, i, e)'
        BY DEF Held
    <2>2. \A e \in DOMAIN events : HeldCall(events[e], e) => HeldCall(events[e], e)'
        BY <2>1 DEF HeldCall
    <2> QED  BY <2>2 DEF JInv, Audit
  <1>3. Sound'
      BY DEF JInv, Sound, Keeps, Tool, StepOf
  <1> QED  BY <1>1, <1>2, <1>3

LEMMA NextSound == JInv /\ [Next]_vars => JInv'
  <1> SUFFICES ASSUME JInv, [Next]_vars PROVE JInv'
      OBVIOUS
  <1>1. IInv' /\ Typed' /\ Sound3
      BY NextHolds DEF JInv, IInv, Sound3
  <1>2. CASE UNCHANGED <<req, outs, events>>
      BY <1>1, <1>2, StaysSound DEF JInv
  <1>3. ASSUME NEW q \in Requests,
               \/ \E p \in Programs, caller \in Callers : Begin(q, p, caller)
               \/ Progress(q)
               \/ \E i \in DOMAIN outs[q] : Comes(q, i)
        PROVE  JInv'
    <2>1. Moves(q) /\ Audit'
        BY <1>1, <1>3, NextMoves
    <2>2. Shape' /\ Sound'
        BY <1>1, <2>1, MovesSound DEF Sound3
    <2> QED  BY <1>1, <2>1, <2>2 DEF JInv
  <1>4. CASE \E h \in Handles : Seal(h) \/ Invalidate(h)
    <2>1. UNCHANGED <<req, outs, events>>
        BY <1>4 DEF Seal, Invalidate
    <2> QED  BY <1>2, <2>1
  <1>5. CASE UNCHANGED vars
      BY <1>2, <1>5 DEF vars
  <1> QED  BY <1>3, <1>4, <1>5 DEF Next

\* However calls overlap and however they end, an event of the hooks that is
\* not in the audit table belongs to a call that is under way: no call leaves
\* events behind (_execute_mcp_tool, finally).
THEOREM CallsLeaveNoEvents == Spec => []HookEventsAudited
  <1>1. JInv => HookEventsAudited
    <2> SUFFICES ASSUME JInv, NEW e \in DOMAIN events, events[e] # Handed
                 PROVE  LET q == events[e][1]
                            i == events[e][3]
                        IN  /\ req[q].pc = "running" /\ req[q].step = events[e][2]
                            /\ i \in Of(q, "sent")
        BY DEF HookEventsAudited
    <2>1. PICK q \in Requests, s \in Nat, i \in Nat :
            events[e] = <<q, s, i>> /\ Held(q, s, i, e)
        BY DEF JInv, Audit, HeldCall
    <2>2. i \in Of(q, "sent") /\ req[q].pc = "running" /\ req[q].step = s
        BY <2>1 DEF Held, Of
    <2> QED  BY <2>1, <2>2
  <1> QED  BY <1>1, InitSound, NextSound, PTL DEF Spec

\* With a guard for declared fields that runs before every hook that cuts an
\* answer to a text, no engine lets such a field out of a call, whatever other
\* hooks there are (HookManager, ManifestPiiGuard).
THEOREM NoDeclaredFieldOut == ASSUME GuardFirst PROVE Spec => []FieldsRedacted
  <1>1. JInv => FieldsRedacted
    <2> SUFFICES ASSUME JInv, NEW q \in Requests, req[q].pc = "running",
                        NEW i \in Of(q, "ok"), Tool(q).transport = "http",
                        Tool(q).declares, outs[q][i].came # "text"
                 PROVE  "declared" \notin outs[q][i].value.has
        BY DEF FieldsRedacted, Tool
    <2>1. i \in DOMAIN outs[q] /\ outs[q][i].state = "ok"
        BY DEF Of
    <2>2. Keeps(Tool(q), outs[q][i])
        BY <2>1 DEF JInv, Sound
    <2> QED  BY <2>1, <2>2 DEF Keeps
  <1> QED  BY <1>1, InitSound, NextSound, PTL DEF Spec

=============================================================================
