--------------------------- MODULE MeteringProofs ---------------------------
(***************************************************************************)
(* Theorems of Metering, for any number of runs and calls and any clock.   *)
(***************************************************************************)
EXTENDS Metering, TLAPS

(***************************************************************************)
(* Types.                                                                  *)
(***************************************************************************)
LEMMA TypeInit == Init => TypeOK
<1> SUFFICES ASSUME Init PROVE TypeOK
  OBVIOUS
<1>1. 0 \in 0 .. MaxTime /\ 1 \in 1 .. MaxTime
  BY MeteringConstants
<1>2. pc \in [Runs -> PCs] /\ to \in [Runs -> 0 .. MaxTime] /\ from \in [Runs -> 0 .. MaxTime]
  BY <1>1 DEF Init, PCs
<1>3. counted \in [Runs -> SUBSET Calls]
  BY DEF Init
<1>4. stamp \in [Calls -> 0 .. MaxTime] /\ billed \in [Calls -> 0 .. 2]
  BY <1>1 DEF Init
<1>5. /\ clock \in Times /\ metered \in BOOLEAN /\ watermark \in 0 .. MaxTime
      /\ lastTo \in 0 .. MaxTime /\ planted \in 0 .. MaxTime /\ mishap \in BOOLEAN
  BY <1>1 DEF Init, Times
<1>6. sent \subseteq 0 .. MaxTime /\ late \subseteq Calls
  BY DEF Init
<1>7. QED
  BY <1>2, <1>3, <1>4, <1>5, <1>6 DEF TypeOK

LEMMA EndsType ==
  ASSUME TypeOK, NEW r \in Runs, Ends(r)
  PROVE  /\ pc' \in [Runs -> PCs]
         /\ to' \in [Runs -> 0 .. MaxTime]
         /\ from' \in [Runs -> 0 .. MaxTime]
         /\ counted' \in [Runs -> SUBSET Calls]
  BY MeteringConstants DEF TypeOK, Ends, PCs

LEMMA AcceptsType ==
  ASSUME TypeOK, NEW r \in Runs, Accepts(r)
  PROVE  sent' \subseteq 0 .. MaxTime /\ billed' \in [Calls -> 0 .. 2]
<1>1. sent' \subseteq 0 .. MaxTime
  BY DEF TypeOK, Accepts
<1>2. billed' \in [Calls -> 0 .. 2]
  BY DEF TypeOK, Accepts
<1>3. QED
  BY <1>1, <1>2

LEMMA TypeNext == TypeOK /\ [Next]_vars => TypeOK'
<1> SUFFICES ASSUME TypeOK, [Next]_vars PROVE TypeOK'
  OBVIOUS
<1> USE MeteringConstants DEF TypeOK, Times, PCs
<1>1. ASSUME NEW c \in Calls, NEW t \in Times, LogCall(c, t) PROVE TypeOK'
  BY <1>1 DEF LogCall
<1>2. CASE SubscriptionChanges
  BY <1>2 DEF SubscriptionChanges
<1>3. CASE Tick
  BY <1>3 DEF Tick
<1>4. ASSUME NEW r \in Runs, RunStep(r) PROVE TypeOK'
  <2>1. CASE Begin(r)
    BY <2>1 DEF Begin
  <2>2. CASE List(r)
    BY <2>2, EndsType DEF List
  <2>3. CASE Plant(r)
    BY <2>3, EndsType DEF Plant, SetWatermark
  <2>4. CASE Count(r)
    BY <2>4 DEF Count, Window
  <2>5. CASE Report(r)
    BY <2>5, AcceptsType DEF Report
  <2>6. CASE Advance(r)
    BY <2>6, EndsType DEF Advance, SetWatermark
  <2>7. CASE AnswerLost(r)
    BY <2>7, EndsType, AcceptsType DEF AnswerLost
  <2>8. CASE BreaksOff(r)
    BY <2>8, EndsType DEF BreaksOff
  <2>9. QED
    BY <1>4, <2>1, <2>2, <2>3, <2>4, <2>5, <2>6, <2>7, <2>8 DEF RunStep
<1>5. CASE UNCHANGED vars
  BY <1>5 DEF vars
<1>6. QED
  BY <1>1, <1>2, <1>3, <1>4, <1>5 DEF Next

(* Every variable keeps its type, through any failures and overlaps. *)
THEOREM MeteringTypes == Spec => []TypeOK
  BY TypeInit, TypeNext, PTL DEF Spec

(***************************************************************************)
(* No call is skipped.  What makes the invariant inductive is that every   *)
(* time the system holds on to, the watermark, the start of a window, the  *)
(* end of one that was accepted, an identifier, is settled; and that none  *)
(* is later than the last time a run has taken, so that a row that comes   *)
(* after is either beyond it or late.                                      *)
(***************************************************************************)
Known ==
  /\ lastTo <= clock
  /\ watermark <= lastTo
  /\ \A e \in sent : e <= lastTo
  /\ \A r \in Runs : from[r] <= lastTo /\ to[r] <= lastTo

SettledTimes == {t \in 0 .. MaxTime : Settled(t)}

(* The runs that have counted everything logged in their window. *)
HoldWindow ==
  {r \in Runs : \A c \in Calls :
     Logged(c) /\ from[r] < stamp[c] /\ stamp[c] <= to[r] => c \in counted[r]}

SkipInv ==
  /\ Known
  /\ watermark \in SettledTimes
  /\ sent \subseteq SettledTimes
  /\ \A r \in Runs : pc[r] \in {"count", "report", "advance"} => from[r] \in SettledTimes
  /\ \A r \in Runs : pc[r] = "report" => r \in HoldWindow
  /\ \A r \in Runs : pc[r] = "advance" => to[r] \in SettledTimes

LEMMA KnownInit == Init => Known
  BY DEF Init, Known

LEMMA KnownNext == TypeOK /\ Known /\ [Next]_vars => Known'
<1> SUFFICES ASSUME TypeOK, Known, [Next]_vars PROVE Known'
  OBVIOUS
<1> USE MeteringConstants DEF TypeOK, Times, Known
<1>1. ASSUME NEW c \in Calls, NEW t \in Times, LogCall(c, t) PROVE Known'
  BY <1>1 DEF LogCall
<1>2. CASE SubscriptionChanges
  BY <1>2 DEF SubscriptionChanges
<1>3. CASE Tick
  BY <1>3 DEF Tick
<1>4. ASSUME NEW r \in Runs, RunStep(r) PROVE Known'
  <2>1. CASE Begin(r)
    BY <2>1 DEF Begin
  <2>2. CASE List(r)
    BY <2>2 DEF List, Ends
  <2>3. CASE Plant(r)
    BY <2>3 DEF Plant, SetWatermark, Ends
  <2>4. CASE Count(r)
    BY <2>4 DEF Count
  <2>5. CASE Report(r)
    BY <2>5 DEF Report, Accepts
  <2>6. CASE Advance(r)
    BY <2>6 DEF Advance, SetWatermark, Ends
  <2>7. CASE AnswerLost(r)
    BY <2>7 DEF AnswerLost, Accepts, Ends
  <2>8. CASE BreaksOff(r)
    BY <2>8 DEF BreaksOff, Ends
  <2>9. QED
    BY <1>4, <2>1, <2>2, <2>3, <2>4, <2>5, <2>6, <2>7, <2>8 DEF RunStep
<1>5. CASE UNCHANGED vars
  BY <1>5 DEF vars
<1>6. QED
  BY <1>1, <1>2, <1>3, <1>4, <1>5 DEF Next

(* What was settled stays settled: nothing unbills a call. *)
LEMMA SettledStays ==
  ASSUME TypeOK, TypeOK', UNCHANGED <<stamp, late>>, planted <= planted',
         \A c \in Calls : billed[c] > 0 => billed'[c] > 0
  PROVE  SettledTimes \subseteq SettledTimes'
<1> SUFFICES ASSUME NEW t \in 0 .. MaxTime, Settled(t) PROVE t \in SettledTimes'
  BY DEF SettledTimes
<1>1. ASSUME NEW c \in Calls, Logged(c)', planted' < stamp'[c], stamp'[c] <= t
      PROVE  billed'[c] > 0
  <2>1. stamp[c] \in Nat /\ planted \in Nat /\ planted' \in Nat /\ stamp'[c] = stamp[c]
    BY MeteringConstants DEF TypeOK
  <2>2. Logged(c) /\ planted < stamp[c] /\ stamp[c] <= t
    BY <1>1, <2>1 DEF Logged
  <2>3. QED
    BY <2>2 DEF Settled
<1>2. QED
  BY <1>1 DEF SettledTimes, Settled

(* A row that comes late unsettles nothing up to the last time taken. *)
LEMMA LogSettles ==
  ASSUME TypeOK, TypeOK', NEW c \in Calls, NEW n \in Times, LogCall(c, n),
         NEW t \in SettledTimes, t <= lastTo
  PROVE  t \in SettledTimes'
<1>1. ASSUME NEW d \in Calls, Logged(d)', planted' < stamp'[d], stamp'[d] <= t
      PROVE  billed'[d] > 0
  <2>1. CASE d = c
    <3>1. stamp'[c] = n
      BY DEF LogCall, TypeOK
    <3>2. n <= lastTo
      BY <1>1, <2>1, <3>1, MeteringConstants DEF TypeOK, Times, SettledTimes
    <3>3. QED
      BY <1>1, <2>1, <3>2 DEF Logged, LogCall
  <2>2. CASE d # c
    <3>1. stamp'[d] = stamp[d] /\ (d \in late' <=> d \in late) /\ planted' = planted /\ billed' = billed
      BY <2>2 DEF LogCall, TypeOK
    <3>2. QED
      BY <1>1, <3>1 DEF Logged, Settled, SettledTimes
  <2>3. QED
    BY <2>1, <2>2
<1>2. QED
  BY <1>1 DEF SettledTimes, Settled

LEMMA LogHolds ==
  ASSUME TypeOK, TypeOK', Known, NEW c \in Calls, NEW n \in Times, LogCall(c, n),
         NEW r \in HoldWindow
  PROVE  r \in HoldWindow'
<1>0. r \in Runs
  BY DEF HoldWindow
<1>1. ASSUME NEW d \in Calls, Logged(d)', from'[r] < stamp'[d], stamp'[d] <= to'[r]
      PROVE  d \in counted'[r]
  <2>1. CASE d = c
    <3>1. stamp'[c] = n /\ to'[r] = to[r]
      BY DEF LogCall, TypeOK
    <3>2. n <= lastTo
      BY <1>0, <1>1, <2>1, <3>1, MeteringConstants DEF TypeOK, Times, Known
    <3>3. QED
      BY <1>1, <2>1, <3>2 DEF Logged, LogCall
  <2>2. CASE d # c
    <3>1. /\ stamp'[d] = stamp[d] /\ (d \in late' <=> d \in late)
          /\ from' = from /\ to' = to /\ counted' = counted
      BY <2>2 DEF LogCall, TypeOK
    <3>2. QED
      BY <1>1, <3>1 DEF Logged, HoldWindow
  <2>3. QED
    BY <2>1, <2>2
<1>2. QED
  BY <1>0, <1>1 DEF HoldWindow

(* Stripe's acceptance unbills nothing, and settles the window. *)
LEMMA AcceptsKeeps ==
  ASSUME TypeOK, NEW r \in Runs, Accepts(r)
  PROVE  \A c \in Calls : billed[c] > 0 => billed'[c] > 0
  BY DEF Accepts, TypeOK

LEMMA AcceptsSettles ==
  ASSUME TypeOK, TypeOK', SkipInv, NEW r \in Runs, pc[r] = "report", Accepts(r),
         UNCHANGED <<stamp, late, planted>>
  PROVE  SettledTimes \subseteq SettledTimes' /\ to[r] \in SettledTimes'
<1>1. SettledTimes \subseteq SettledTimes'
  <2>1. planted <= planted'
    BY MeteringConstants DEF TypeOK
  <2>2. QED
    BY <2>1, AcceptsKeeps, SettledStays
<1>2. CASE to[r] \in sent
  BY <1>1, <1>2 DEF SkipInv
<1>3. CASE to[r] \notin sent
  <2>1. ASSUME NEW c \in Calls, Logged(c), planted < stamp[c], stamp[c] <= to[r]
        PROVE  billed'[c] > 0
    <3>1. CASE stamp[c] <= from[r]
      <4>1. Settled(from[r])
        BY DEF SkipInv, SettledTimes
      <4>2. billed[c] > 0
        BY <2>1, <3>1, <4>1 DEF Settled
      <4>3. QED
        BY <4>2, AcceptsKeeps
    <3>2. CASE ~(stamp[c] <= from[r])
      <4>1. from[r] < stamp[c]
        BY <3>2, MeteringConstants DEF TypeOK
      <4>2. c \in counted[r]
        BY <2>1, <4>1 DEF SkipInv, HoldWindow
      <4>3. QED
        BY <1>3, <4>2 DEF Accepts
    <3>3. QED
      BY <3>1, <3>2
  <2>2. to[r] \in 0 .. MaxTime
    BY DEF TypeOK
  <2>3. QED
    BY <1>1, <2>1, <2>2 DEF SettledTimes, Settled, Logged
<1>4. QED
  BY <1>1, <1>2, <1>3

(* An empty window is settled, and a window that was counted is held. *)
LEMMA CountSettles ==
  ASSUME TypeOK, TypeOK', SkipInv, NEW r \in Runs, Count(r)
  PROVE  /\ pc'[r] = "report" => r \in HoldWindow'
         /\ pc'[r] = "advance" => to[r] \in SettledTimes'
<1>1. SettledTimes \subseteq SettledTimes'
  <2>1. planted <= planted'
    BY MeteringConstants DEF TypeOK, Count
  <2>2. QED
    BY <2>1, SettledStays DEF Count
<1>2. ASSUME NEW c \in Calls, stamp[c] # 0, from[r] < stamp[c], stamp[c] <= to[r]
      PROVE  c \in Window(r)
  BY <1>2 DEF Window
<1>3. pc'[r] = "report" => r \in HoldWindow'
  <2>1. counted'[r] = Window(r)
    BY DEF Count, TypeOK
  <2>2. QED
    BY <1>2, <2>1 DEF HoldWindow, Logged, Count
<1>4. ASSUME pc'[r] = "advance" PROVE to[r] \in SettledTimes'
  <2>1. Window(r) = {}
    BY <1>4 DEF Count, TypeOK
  <2>2. Settled(from[r])
    BY DEF Count, SkipInv, SettledTimes
  <2>3. ASSUME NEW c \in Calls, Logged(c), planted < stamp[c], stamp[c] <= to[r]
        PROVE  billed[c] > 0
    <3>1. stamp[c] <= from[r]
      BY <1>2, <2>1, <2>3, MeteringConstants DEF Logged, TypeOK
    <3>2. QED
      BY <2>2, <2>3, <3>1 DEF Settled
  <2>4. to[r] \in SettledTimes
    BY <2>3 DEF Settled, SettledTimes, TypeOK
  <2>5. QED
    BY <1>1, <2>4
<1>5. QED
  BY <1>3, <1>4

LEMMA SkipInit == Init => SkipInv
<1> SUFFICES ASSUME Init PROVE SkipInv
  OBVIOUS
<1>1. Settled(0)
  BY DEF Settled, Logged, Init
<1>2. 0 \in SettledTimes
  BY <1>1, MeteringConstants DEF SettledTimes
<1>3. QED
  BY <1>2, KnownInit DEF Init, SkipInv

LEMMA SkipNext == TypeOK /\ SkipInv /\ [Next]_vars => SkipInv'
<1> SUFFICES ASSUME TypeOK, SkipInv, [Next]_vars PROVE SkipInv'
  OBVIOUS
<1>0. TypeOK' /\ Known' /\ Known
  BY KnownNext, TypeNext DEF SkipInv
<1>1. ASSUME NEW c \in Calls, NEW t \in Times, LogCall(c, t) PROVE SkipInv'
  <2>1. \A x \in SettledTimes : x <= lastTo => x \in SettledTimes'
    BY <1>0, <1>1, LogSettles
  <2>2. \A r \in HoldWindow : r \in HoldWindow'
    BY <1>0, <1>1, LogHolds
  <2>3. QED
    BY <1>0, <1>1, <2>1, <2>2 DEF SkipInv, LogCall, Known
<1> DEFINE Keeps == UNCHANGED <<stamp, late>> /\ planted <= planted'
                    /\ \A c \in Calls : billed[c] > 0 => billed'[c] > 0
<1>2. ASSUME Keeps PROVE SettledTimes \subseteq SettledTimes'
  BY <1>0, <1>2, SettledStays
<1>3. planted <= planted /\ (\A c \in Calls : billed[c] > 0 => billed[c] > 0)
  BY MeteringConstants DEF TypeOK
<1>4. CASE SubscriptionChanges
  BY <1>0, <1>4, <1>2, <1>3 DEF SubscriptionChanges, SkipInv, HoldWindow, Logged
<1>5. CASE Tick
  BY <1>0, <1>5, <1>2, <1>3 DEF Tick, SkipInv, HoldWindow, Logged
<1>6. CASE UNCHANGED vars
  BY <1>0, <1>6, <1>2, <1>3 DEF vars, SkipInv, HoldWindow, Logged
<1>7. ASSUME NEW r \in Runs, RunStep(r) PROVE SkipInv'
  (* The runs that do not move keep their windows. *)
  <2>1. ASSUME UNCHANGED <<stamp, late>>, NEW s \in Runs, s \in HoldWindow,
               from'[s] = from[s], to'[s] = to[s], counted'[s] = counted[s]
        PROVE  s \in HoldWindow'
    BY <2>1 DEF HoldWindow, Logged
  <2>2. CASE Begin(r)
    <3>1. SettledTimes \subseteq SettledTimes'
      BY <2>2, <1>2, <1>3 DEF Begin
    <3>2. \A s \in Runs : pc'[s] = IF s = r THEN "list" ELSE pc[s]
      BY <2>2 DEF Begin, TypeOK
    <3>3. \A s \in Runs : s # r => to'[s] = to[s]
      BY <2>2 DEF Begin, TypeOK
    <3>4. from' = from /\ counted' = counted /\ UNCHANGED <<stamp, late, watermark, sent>>
      BY <2>2 DEF Begin
    <3>5. QED
      BY <1>0, <2>1, <3>1, <3>2, <3>3, <3>4 DEF SkipInv
  <2> DEFINE Idles == /\ \A s \in Runs : pc'[s] = IF s = r THEN "idle" ELSE pc[s]
                      /\ \A s \in Runs : s # r => from'[s] = from[s] /\ to'[s] = to[s] /\ counted'[s] = counted[s]
  <2>3. Ends(r) => Idles
    BY DEF Ends, TypeOK
  (* A run that ends: the rest keep what they have. *)
  <2>4. ASSUME Idles, Keeps, watermark' \in SettledTimes', sent' \subseteq SettledTimes'
        PROVE  SkipInv'
    BY <1>0, <1>2, <2>1, <2>4 DEF SkipInv
  <2>5. CASE List(r)
    <3>1. SettledTimes \subseteq SettledTimes' /\ Keeps
      BY <2>5, <1>2, <1>3 DEF List
    <3>2. CASE metered
      <4>1. /\ \A s \in Runs : s # r => pc'[s] = pc[s] /\ from'[s] = from[s]
            /\ pc'[r] \in {"plant", "count"} /\ from'[r] = watermark
            /\ to' = to /\ counted' = counted /\ UNCHANGED <<stamp, late, watermark, sent>>
        BY <2>5, <3>2 DEF List, TypeOK
      <4>2. QED
        BY <1>0, <2>1, <3>1, <4>1 DEF SkipInv
    <3>3. CASE ~metered
      <4>1. Ends(r) /\ watermark' = watermark /\ sent' = sent
        BY <2>5, <3>3 DEF List
      <4>2. QED
        BY <2>3, <2>4, <3>1, <4>1 DEF SkipInv
    <3>4. QED
      BY <3>2, <3>3
  <2>6. CASE Plant(r)
    <3>1. Keeps /\ to[r] <= planted' /\ to[r] \in 0 .. MaxTime /\ Ends(r) /\ sent' = sent /\ watermark' = to[r]
      BY <2>6, MeteringConstants, <1>3 DEF Plant, TypeOK, SetWatermark
    <3>2. \A c \in Calls : stamp'[c] \in Nat /\ planted' \in Nat /\ to[r] \in Nat
      BY <1>0, <3>1, MeteringConstants DEF TypeOK
    <3>3. \A c \in Calls : ~(planted' < stamp'[c] /\ stamp'[c] <= to[r])
      BY <3>1, <3>2
    <3>4. to[r] \in SettledTimes'
      BY <3>1, <3>3 DEF SettledTimes, Settled
    <3>5. QED
      BY <1>2, <2>3, <2>4, <3>1, <3>4 DEF SkipInv
  <2>7. CASE Count(r)
    <3>1. SettledTimes \subseteq SettledTimes'
      BY <2>7, <1>2, <1>3 DEF Count
    <3>2. /\ \A s \in Runs : s # r => pc'[s] = pc[s] /\ counted'[s] = counted[s]
          /\ pc[r] = "count" /\ to' = to /\ from' = from /\ UNCHANGED <<stamp, late, watermark, sent>>
      BY <2>7 DEF Count, TypeOK
    <3>3. /\ pc'[r] = "report" => r \in HoldWindow'
          /\ pc'[r] = "advance" => to[r] \in SettledTimes'
      BY <1>0, <2>7, CountSettles
    <3>4. QED
      BY <1>0, <2>1, <3>1, <3>2, <3>3 DEF SkipInv
  <2>8. CASE Report(r)
    <3>1. SettledTimes \subseteq SettledTimes' /\ to[r] \in SettledTimes'
      BY <1>0, <2>8, AcceptsSettles DEF Report
    <3>2. /\ \A s \in Runs : s # r => pc'[s] = pc[s]
          /\ pc[r] = "report" /\ pc'[r] = "advance" /\ sent' = sent \cup {to[r]}
          /\ to' = to /\ from' = from /\ counted' = counted /\ UNCHANGED <<stamp, late, watermark>>
      BY <2>8 DEF Report, TypeOK, Accepts
    <3>3. QED
      BY <1>0, <2>1, <3>1, <3>2 DEF SkipInv
  <2>9. CASE Advance(r)
    <3>1. Keeps /\ Ends(r) /\ sent' = sent /\ watermark' = to[r] /\ to[r] \in SettledTimes
      BY <2>9, <1>3 DEF Advance, SetWatermark, SkipInv
    <3>2. QED
      BY <1>2, <2>3, <2>4, <3>1 DEF SkipInv
  <2>10. CASE AnswerLost(r)
    <3>1. SettledTimes \subseteq SettledTimes' /\ to[r] \in SettledTimes'
      BY <1>0, <2>10, AcceptsSettles DEF AnswerLost
    <3>2. Keeps
      BY <2>10, <1>3, AcceptsKeeps DEF AnswerLost
    <3>3. Ends(r) /\ sent' = sent \cup {to[r]} /\ watermark' = watermark
      BY <2>10 DEF AnswerLost, Accepts
    <3>4. QED
      BY <2>3, <2>4, <3>1, <3>2, <3>3 DEF SkipInv
  <2>11. CASE BreaksOff(r)
    <3>1. Keeps /\ Ends(r) /\ sent' = sent /\ watermark' = watermark
      BY <2>11, <1>3 DEF BreaksOff
    <3>2. QED
      BY <1>2, <2>3, <2>4, <3>1 DEF SkipInv
  <2>12. QED
    BY <1>7, <2>2, <2>5, <2>6, <2>7, <2>8, <2>9, <2>10, <2>11 DEF RunStep
<1>8. QED
  BY <1>1, <1>4, <1>5, <1>6, <1>7 DEF Next

(* The watermark never passes a call that was not billed, for any number   *)
(* of runs that overlap and fail in any way.                               *)
THEOREM NeverSkipped == Spec => []NothingSkipped
<1>1. SkipInv => NothingSkipped
  BY DEF SkipInv, SettledTimes, NothingSkipped
<1>2. QED
  BY <1>1, TypeInit, TypeNext, SkipInit, SkipNext, PTL DEF Spec

(***************************************************************************)
(* No call is billed twice without a mishap.  One run at a time works on a *)
(* window that starts at the watermark; what is billed lies at or before   *)
(* the watermark, or in the window that is about to move it.               *)
(***************************************************************************)
Alone == \A r, s \in Runs : pc[r] # "idle" /\ pc[s] # "idle" => r = s

BilledBehind ==
  \A c \in Calls : billed[c] > 0 =>
    /\ stamp[c] # 0
    /\ stamp[c] <= watermark \/ \E r \in Runs : pc[r] = "advance" /\ c \in counted[r]

WindowAhead ==
  \A r \in Runs :
    /\ pc[r] \in {"count", "report", "advance"} => from[r] = watermark
    /\ pc[r] # "idle" => watermark <= to[r]
    /\ \A c \in counted[r] :
         pc[r] \in {"report", "advance"} /\ from[r] < stamp[c] /\ stamp[c] <= to[r]

OnceInv == ~mishap => Alone /\ BilledBehind /\ WindowAhead /\ \A c \in Calls : billed[c] <= 1

LEMMA OnceInit == Init => OnceInv
  BY DEF Init, OnceInv, Alone, BilledBehind, WindowAhead

LEMMA OnceNext == TypeOK /\ Known /\ OnceInv /\ [Next]_vars => OnceInv'
<1> SUFFICES ASSUME TypeOK, Known, OnceInv, [Next]_vars, ~mishap' PROVE OnceInv'
  BY DEF OnceInv
<1>0. TypeOK'
  BY TypeNext
<1>1. ~mishap
  <2>1. ASSUME NEW r \in Runs, RunStep(r) PROVE ~mishap
    BY <2>1 DEF RunStep, Begin, List, Plant, Count, Report, Advance, AnswerLost, BreaksOff
  <2>2. QED
    BY <2>1 DEF Next, LogCall, SubscriptionChanges, Tick, vars
<1>2. Alone /\ BilledBehind /\ WindowAhead /\ \A c \in Calls : billed[c] <= 1
  BY <1>1 DEF OnceInv
<1>3. ASSUME NEW c \in Calls, NEW t \in Times, LogCall(c, t) PROVE OnceInv'
  <2>1. /\ \A d \in Calls : d # c => stamp'[d] = stamp[d]
        /\ stamp[c] = 0 /\ stamp'[c] = t /\ t # 0
        /\ UNCHANGED <<watermark, pc, to, from, counted, billed>>
    BY <1>3 DEF LogCall, TypeOK, Times
  <2>2. ~(billed[c] > 0)
    BY <1>2, <2>1 DEF BilledBehind
  <2>3. \A r \in Runs : c \notin counted[r]
    BY <1>2, <2>1, MeteringConstants DEF WindowAhead, TypeOK
  <2>4. Alone'
    BY <1>2, <2>1 DEF Alone
  <2>5. BilledBehind'
    BY <1>2, <2>1, <2>2 DEF BilledBehind
  <2>6. WindowAhead'
    BY <1>2, <2>1, <2>3 DEF WindowAhead, TypeOK
  <2>7. QED
    BY <1>2, <2>1, <2>4, <2>5, <2>6 DEF OnceInv
<1>4. CASE SubscriptionChanges
  BY <1>2, <1>4 DEF SubscriptionChanges, OnceInv, Alone, BilledBehind, WindowAhead
<1>5. CASE Tick
  BY <1>2, <1>5 DEF Tick, OnceInv, Alone, BilledBehind, WindowAhead
<1>6. CASE UNCHANGED vars
  BY <1>2, <1>6 DEF vars, OnceInv, Alone, BilledBehind, WindowAhead
<1>7. ASSUME NEW r \in Runs, RunStep(r) PROVE OnceInv'
  <2>1. CASE Begin(r)
    <3>1. /\ \A s \in Runs : pc[s] = "idle"
          /\ pc' = [pc EXCEPT ![r] = "list"] /\ to' = [to EXCEPT ![r] = clock]
          /\ UNCHANGED <<watermark, stamp, from, counted, billed>>
      BY <2>1 DEF Begin
    <3>2. watermark <= clock
      BY MeteringConstants DEF Known, TypeOK, Times
    <3>3. Alone'
      BY <3>1 DEF Alone, TypeOK
    <3>4. BilledBehind'
      BY <1>2, <3>1 DEF BilledBehind, TypeOK
    <3>5. WindowAhead'
      BY <1>2, <3>1, <3>2 DEF WindowAhead, TypeOK
    <3>6. QED
      BY <1>2, <3>1, <3>3, <3>4, <3>5 DEF OnceInv
  (* From here on r is the only run that is not idle. *)
  <2>2. ASSUME pc[r] # "idle", NEW s \in Runs, s # r PROVE pc[s] = "idle" /\ counted[s] = {}
    BY <1>2, <2>2 DEF Alone, WindowAhead, TypeOK
  (* When r ends, what is billed has to lie behind the watermark. *)
  <2>3. ASSUME pc[r] # "idle", Ends(r), UNCHANGED stamp,
               \A c \in Calls : billed'[c] > 0 => stamp[c] # 0 /\ stamp[c] <= watermark',
               \A c \in Calls : billed'[c] <= 1
        PROVE  OnceInv'
    <3>1. /\ \A s \in Runs : pc'[s] = "idle" /\ counted'[s] = {}
      BY <2>2, <2>3 DEF Ends, TypeOK
    <3>2. QED
      BY <2>3, <3>1 DEF OnceInv, Alone, BilledBehind, WindowAhead
  (* Before "advance" it lies there already. *)
  <2>4. ASSUME pc[r] # "idle", pc[r] # "advance", NEW c \in Calls, billed[c] > 0
        PROVE  stamp[c] # 0 /\ stamp[c] <= watermark
    BY <1>2, <2>2, <2>4 DEF BilledBehind
  <2>5. CASE List(r)
    <3>1. CASE metered
      <4>1. /\ pc[r] = "list" /\ counted[r] = {} /\ watermark <= to[r]
        BY <1>2, <2>5 DEF List, WindowAhead, TypeOK
      <4>2. /\ \A s \in Runs : s # r => pc'[s] = pc[s] /\ from'[s] = from[s]
            /\ pc'[r] \in {"plant", "count"} /\ from'[r] = watermark
            /\ UNCHANGED <<to, counted, watermark, stamp, billed>>
        BY <2>5, <3>1 DEF List, TypeOK
      <4>3. Alone'
        BY <2>2, <4>1, <4>2 DEF Alone
      <4>4. BilledBehind'
        BY <2>4, <4>1, <4>2 DEF BilledBehind
      <4>5. WindowAhead'
        BY <1>2, <4>1, <4>2 DEF WindowAhead
      <4>6. QED
        BY <1>2, <4>2, <4>3, <4>4, <4>5 DEF OnceInv
    <3>2. CASE ~metered
      BY <1>2, <2>3, <2>4, <2>5, <3>2 DEF List
    <3>3. QED
      BY <3>1, <3>2
  (* The watermark only moves forward. *)
  <2>6. ASSUME pc[r] # "idle", NEW c \in Calls, stamp[c] <= watermark PROVE stamp[c] <= to[r]
    <3>1. watermark <= to[r]
      BY <1>2, <2>6 DEF WindowAhead
    <3>2. QED
      BY <2>6, <3>1, MeteringConstants DEF TypeOK
  <2>7. CASE Plant(r)
    <3>1. pc[r] = "plant" /\ Ends(r) /\ watermark' = to[r] /\ UNCHANGED <<stamp, billed>>
      BY <2>7 DEF Plant, SetWatermark
    <3>2. QED
      BY <1>2, <2>3, <2>4, <2>6, <3>1
  <2>8. CASE Count(r)
    <3>1. /\ pc[r] = "count" /\ from[r] = watermark
      BY <1>2, <2>8 DEF Count, WindowAhead
    <3>2. /\ pc' = [pc EXCEPT ![r] = IF Window(r) = {} THEN "advance" ELSE "report"]
          /\ counted' = [counted EXCEPT ![r] = Window(r)]
          /\ UNCHANGED <<watermark, stamp, to, from, billed>>
      BY <2>8 DEF Count
    <3>3. Alone'
      BY <2>2, <3>1, <3>2 DEF Alone, TypeOK
    <3>4. BilledBehind'
      BY <2>4, <3>1, <3>2 DEF BilledBehind
    <3>5. \A c \in Window(r) : from[r] < stamp[c] /\ stamp[c] <= to[r]
      BY DEF Window
    <3>6. \A s \in Runs : s # r => pc'[s] = pc[s] /\ counted'[s] = counted[s]
      BY <3>2 DEF TypeOK
    <3>7. pc'[r] \in {"report", "advance"} /\ counted'[r] = Window(r)
      BY <3>2 DEF TypeOK
    <3>8. WindowAhead'
      BY <1>2, <3>1, <3>2, <3>5, <3>6, <3>7 DEF WindowAhead
    <3>9. QED
      BY <1>2, <3>2, <3>3, <3>4, <3>8 DEF OnceInv
  <2>9. CASE Report(r)
    <3>1. pc[r] = "report" /\ from[r] = watermark /\ Accepts(r)
      BY <1>2, <2>9 DEF Report, WindowAhead
    <3>2. \A c \in counted[r] : watermark < stamp[c]
      BY <1>2, <3>1 DEF WindowAhead
    <3>3. ASSUME NEW c \in counted[r] PROVE c \in Calls /\ stamp[c] # 0 /\ billed[c] = 0
      <4>1. c \in Calls
        BY DEF TypeOK
      <4>2. watermark \in Nat /\ stamp[c] \in Nat /\ billed[c] \in Nat
        BY <4>1, MeteringConstants DEF TypeOK
      <4>3. ~(billed[c] > 0)
        BY <2>4, <3>1, <3>2, <4>1, <4>2
      <4>4. QED
        BY <3>2, <4>1, <4>2, <4>3
    <3>4. /\ \A s \in Runs : pc'[s] = IF s = r THEN "advance" ELSE pc[s]
          /\ UNCHANGED <<watermark, stamp, to, from, counted>>
      BY <2>9 DEF Report, TypeOK
    <3>5. \A c \in Calls : billed'[c] = billed[c] \/ (c \in counted[r] /\ billed'[c] = 1)
      BY <3>1, <3>3 DEF Accepts
    <3>6. Alone'
      BY <2>2, <3>1, <3>4 DEF Alone
    <3>7. BilledBehind'
      <4>1. ASSUME NEW c \in Calls, billed'[c] > 0, c \notin counted[r]
            PROVE  stamp[c] # 0 /\ stamp[c] <= watermark
        BY <2>4, <3>1, <3>5, <4>1
      <4>2. QED
        BY <3>3, <3>4, <4>1 DEF BilledBehind
    <3>8. WindowAhead'
      BY <1>2, <3>1, <3>4 DEF WindowAhead
    <3>9. \A c \in Calls : billed'[c] <= 1
      BY <1>2, <3>5
    <3>10. QED
      BY <3>6, <3>7, <3>8, <3>9 DEF OnceInv
  <2>10. CASE Advance(r)
    <3>1. pc[r] = "advance" /\ Ends(r) /\ watermark' = to[r] /\ UNCHANGED <<stamp, billed>>
      BY <2>10 DEF Advance, SetWatermark
    <3>2. ASSUME NEW c \in Calls, billed[c] > 0 PROVE stamp[c] # 0 /\ stamp[c] <= to[r]
      <4>1. stamp[c] # 0 /\ (stamp[c] <= watermark \/ c \in counted[r])
        BY <1>2, <2>2, <3>1, <3>2 DEF BilledBehind
      <4>2. c \in counted[r] => stamp[c] <= to[r]
        BY <1>2 DEF WindowAhead
      <4>3. QED
        BY <2>6, <3>1, <4>1, <4>2
    <3>3. QED
      BY <1>2, <2>3, <3>1, <3>2
  <2>11. CASE AnswerLost(r)
    BY <2>11 DEF AnswerLost
  <2>12. CASE BreaksOff(r)
    <3>1. pc[r] # "idle" /\ Ends(r) /\ UNCHANGED <<watermark, stamp, billed>>
      BY <2>12 DEF BreaksOff
    <3>2. pc[r] = "advance" => counted[r] = {}
      BY <2>12 DEF BreaksOff
    <3>3. ASSUME NEW c \in Calls, billed[c] > 0 PROVE stamp[c] # 0 /\ stamp[c] <= watermark
      BY <1>2, <2>2, <3>1, <3>2, <3>3 DEF BilledBehind
    <3>4. QED
      BY <1>2, <2>3, <3>1, <3>3
  <2>13. QED
    BY <1>7, <2>1, <2>5, <2>7, <2>8, <2>9, <2>10, <2>11, <2>12 DEF RunStep
<1>8. QED
  BY <1>3, <1>4, <1>5, <1>6, <1>7 DEF Next

(* As long as no two runs overlap and none breaks off between Stripe's     *)
(* acceptance and the UPDATE of the watermark, no call is billed twice.    *)
THEOREM BilledOnceUnlessMishap == Spec => []OnceUnlessMishap
<1>1. OnceInv => OnceUnlessMishap
  BY DEF OnceInv, OnceUnlessMishap
<1>2. QED
  BY <1>1, TypeInit, TypeNext, KnownInit, KnownNext, OnceInit, OnceNext, PTL DEF Spec

=============================================================================
