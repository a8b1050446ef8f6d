---------------------------- MODULE ScaleToZero -----------------------------
(***************************************************************************)
(* Scale-to-zero of runtime/router.py: the ScaleManager of every router    *)
(* process and the k8s deployment of one MCP that they share.              *)
(*                                                                         *)
(* Every k8s request runs in a worker thread and is awaited, so between    *)
(* two requests of a coroutine the other coroutines of the event loop run; *)
(* what lies between two awaits is one step, at the moment the k8s API     *)
(* serves the request.  The k8s client is taken to be initialised and the  *)
(* MCP to be in MCP_DEPLOYMENT_MAP: a router without either leaves         *)
(* deployments alone.                                                      *)
(***************************************************************************)
EXTENDS Naturals

CONSTANTS
  Routers,    \* router processes
  Calls,      \* coroutines that call the MCP, or scale it up by hand
  HomeOf,     \* Calls -> Routers
  ScaleUps,   \* those of Calls that are POST /scale/{mcp}/up
  ManualDown, \* whether POST /scale/{mcp}/down is used
  SlowCalls,  \* whether a call may last longer than MCP_IDLE_TIMEOUT
  Faults      \* whether k8s requests fail, calls are cancelled, routers restart

ASSUME ScaleConstants ==
  /\ HomeOf \in [Calls -> Routers]
  /\ ScaleUps \subseteq Calls
  /\ {ManualDown, SlowCalls, Faults} \subseteq BOOLEAN

VARIABLES
  spec,      \* spec.replicas of the deployment, 0 or 1
  pod,       \* whether a ready pod serves it
  lastCall,  \* last_call entry of each router: absent, within the timeout, older
  scan,      \* scale_down_idle of each router
  down,      \* scale_down_manual of each router
  pc         \* _execute_mcp_tool of each call

vars == <<spec, pod, lastCall, scan, down, pc>>

TypeOK ==
  /\ spec \in {0, 1}
  /\ pod \in BOOLEAN
  /\ lastCall \in [Routers -> {"none", "recent", "old"}]
  /\ scan \in [Routers -> {"sleep", "read", "patch"}]
  /\ down \in [Routers -> {"idle", "patch", "forget"}]
  /\ pc \in [Calls -> {"idle", "read", "patch", "wait", "post"}]

Active(c) == pc[c] # "idle"

-----------------------------------------------------------------------------
(* A call: ensure_running, the POST to the MCP, record_call.               *)

BeginCall(c) ==
  /\ pc[c] = "idle"
  /\ pc' = [pc EXCEPT ![c] = "read"]
  /\ UNCHANGED <<spec, pod, lastCall, scan, down>>

(* ensure_running returns; POST /scale/{mcp}/up has nothing more to do. *)
Ensured(c) ==
  /\ pc' = [pc EXCEPT ![c] = IF c \in ScaleUps THEN "idle" ELSE "post"]
  /\ lastCall' = [lastCall EXCEPT ![HomeOf[c]] = "recent"]

ReadReplicas(c) ==
  /\ pc[c] = "read"
  /\ IF spec = 0
     THEN pc' = [pc EXCEPT ![c] = "patch"] /\ UNCHANGED lastCall
     ELSE Ensured(c)
  /\ UNCHANGED <<spec, pod, scan, down>>

PatchUp(c) ==
  /\ pc[c] = "patch"
  /\ spec' = 1
  /\ pc' = [pc EXCEPT ![c] = "wait"]
  /\ UNCHANGED <<pod, lastCall, scan, down>>

(* Mutant: the poll has no deadline. *)
WaitEndsWithPod(c) ==
  /\ pc[c] = "wait"
  /\ pod
  /\ Ensured(c)
  /\ UNCHANGED <<spec, pod, scan, down>>

(* _wait_for_ready: a poll sees a ready pod, or the 30 seconds are over.   *)
(* Its caller cannot tell.                                                 *)
WaitEnds(c) ==
  /\ pc[c] = "wait"
  /\ Ensured(c)
  /\ UNCHANGED <<spec, pod, scan, down>>

(* The POST returns or raises, whatever became of the pod. *)
CallReturns(c) ==
  /\ pc[c] = "post"
  /\ pc' = [pc EXCEPT ![c] = "idle"]
  /\ lastCall' = [lastCall EXCEPT ![HomeOf[c]] = "recent"]
  /\ UNCHANGED <<spec, pod, scan, down>>

(* A k8s request of ensure_running raises, after or before it took effect: *)
(* the call goes on.                                                       *)
EnsureFails(c) ==
  /\ Faults
  /\ pc[c] \in {"read", "patch"}
  /\ spec' \in IF pc[c] = "patch" THEN {spec, 1} ELSE {spec}
  /\ pc' = [pc EXCEPT ![c] = IF c \in ScaleUps THEN "idle" ELSE "post"]
  /\ UNCHANGED <<pod, lastCall, scan, down>>

(* The job a call belongs to is cancelled; a request already given to a    *)
(* worker thread may still be served.                                      *)
CallCancelled(c) ==
  /\ Faults
  /\ Active(c)
  /\ spec' \in IF pc[c] = "patch" THEN {spec, 1} ELSE {spec}
  /\ pc' = [pc EXCEPT ![c] = "idle"]
  /\ UNCHANGED <<pod, lastCall, scan, down>>

-----------------------------------------------------------------------------
(* The idle loop of a router: scale_down_idle, every 60 seconds.           *)

(* now is taken, and the entries are copied, once for a pass. *)
ScanStarts(r) ==
  /\ scan[r] = "sleep"
  /\ lastCall[r] = "old"
  /\ scan' = [scan EXCEPT ![r] = "read"]
  /\ UNCHANGED <<spec, pod, lastCall, down, pc>>

(* Mutant: off by one. *)
ScanReadsOverOne(r) ==
  /\ scan[r] = "read"
  /\ scan' = [scan EXCEPT ![r] = IF spec > 1 THEN "patch" ELSE "sleep"]
  /\ UNCHANGED <<spec, pod, lastCall, down, pc>>

ScanReads(r) ==
  /\ scan[r] = "read"
  /\ scan' = [scan EXCEPT ![r] = IF spec > 0 THEN "patch" ELSE "sleep"]
  /\ UNCHANGED <<spec, pod, lastCall, down, pc>>

(* Mutant: every idle pass counts the replicas one down. *)
ScanPatchesByOne(r) ==
  /\ scan[r] = "patch"
  /\ spec' = spec - 1
  /\ scan' = [scan EXCEPT ![r] = "sleep"]
  /\ UNCHANGED <<pod, lastCall, down, pc>>

ScanPatches(r) ==
  /\ scan[r] = "patch"
  /\ spec' = 0
  /\ scan' = [scan EXCEPT ![r] = "sleep"]
  /\ UNCHANGED <<pod, lastCall, down, pc>>

ScanFails(r) ==
  /\ Faults
  /\ scan[r] # "sleep"
  /\ spec' \in IF scan[r] = "patch" THEN {spec, 0} ELSE {spec}
  /\ scan' = [scan EXCEPT ![r] = "sleep"]
  /\ UNCHANGED <<pod, lastCall, down, pc>>

-----------------------------------------------------------------------------
(* POST /scale/{mcp}/down.                                                 *)

DownBegins(r) ==
  /\ ManualDown
  /\ down[r] = "idle"
  /\ down' = [down EXCEPT ![r] = "patch"]
  /\ UNCHANGED <<spec, pod, lastCall, scan, pc>>

DownPatches(r) ==
  /\ down[r] = "patch"
  /\ spec' = 0
  /\ down' = [down EXCEPT ![r] = "forget"]
  /\ UNCHANGED <<pod, lastCall, scan, pc>>

DownForgets(r) ==
  /\ down[r] = "forget"
  /\ lastCall' = [lastCall EXCEPT ![r] = "none"]
  /\ down' = [down EXCEPT ![r] = "idle"]
  /\ UNCHANGED <<spec, pod, scan, pc>>

(* The request raises: 500, and the entry stays. *)
DownFails(r) ==
  /\ Faults
  /\ down[r] = "patch"
  /\ spec' \in {spec, 0}
  /\ down' = [down EXCEPT ![r] = "idle"]
  /\ UNCHANGED <<pod, lastCall, scan, pc>>

-----------------------------------------------------------------------------
(* The cluster, the clock, and routers that restart.                       *)

PodFollows ==
  /\ pod # (spec = 1)
  /\ pod' = (spec = 1)
  /\ UNCHANGED <<spec, lastCall, scan, down, pc>>

(* More than MCP_IDLE_TIMEOUT has passed since the entry was written. *)
Ages(r) ==
  /\ lastCall[r] = "recent"
  /\ SlowCalls \/ \A c \in Calls : HomeOf[c] = r => pc[c] # "post"
  /\ lastCall' = [lastCall EXCEPT ![r] = "old"]
  /\ UNCHANGED <<spec, pod, scan, down, pc>>

(* last_call is in memory only. *)
Restart(r) ==
  /\ Faults
  /\ lastCall' = [lastCall EXCEPT ![r] = "none"]
  /\ scan' = [scan EXCEPT ![r] = "sleep"]
  /\ down' = [down EXCEPT ![r] = "idle"]
  /\ pc' = [c \in Calls |-> IF HomeOf[c] = r THEN "idle" ELSE pc[c]]
  /\ UNCHANGED <<spec, pod>>

-----------------------------------------------------------------------------

Init ==
  /\ spec \in {0, 1}
  /\ pod = (spec = 1)
  /\ lastCall = [r \in Routers |-> "none"]
  /\ scan = [r \in Routers |-> "sleep"]
  /\ down = [r \in Routers |-> "idle"]
  /\ pc = [c \in Calls |-> "idle"]

CallStep(c) == ReadReplicas(c) \/ PatchUp(c) \/ WaitEnds(c) \/ CallReturns(c)
DownStep(r) == DownPatches(r) \/ DownForgets(r)

Next ==
  \/ \E c \in Calls : BeginCall(c) \/ CallStep(c) \/ EnsureFails(c) \/ CallCancelled(c)
  \/ \E r \in Routers :
       \/ ScanStarts(r) \/ ScanReads(r) \/ ScanPatches(r) \/ ScanFails(r)
       \/ DownBegins(r) \/ DownStep(r) \/ DownFails(r)
       \/ Ages(r) \/ Restart(r)
  \/ PodFollows

Spec == Init /\ [][Next]_vars

(* Coroutines go on, time passes, and the k8s API does not fail the idle   *)
(* loop every time it asks.  Nobody has to call anything.                  *)
Fairness ==
  /\ \A c \in Calls : WF_vars(CallStep(c))
  /\ \A r \in Routers :
       /\ WF_vars(ScanStarts(r)) /\ SF_vars(ScanReads(r)) /\ SF_vars(ScanPatches(r))
       /\ WF_vars(DownStep(r)) /\ WF_vars(Ages(r))

FairSpec == Spec /\ Fairness

-----------------------------------------------------------------------------
(* Properties.                                                             *)

(* A call gets past ensure_running and ends, though the idle loop, another *)
(* router or an operator scales the deployment down while it waits.        *)
CallsEnd == \A c \in Calls : Active(c) ~> ~Active(c)

(* A running deployment that a router has an entry for is scaled down in   *)
(* the end, through failing k8s requests and the other routers' scans,     *)
(* unless it is called again or the entry is lost.                         *)
IdleScalesDown ==
  \A r \in Routers :
    spec = 1 /\ lastCall[r] # "none"
      ~> spec = 0 \/ lastCall[r] = "none" \/ \E c \in Calls : Active(c)

(* A deployment that a call of this router has scaled up from zero, and is *)
(* waiting for, is not idle: the idle loop leaves it up.                   *)
ColdStartSurvives ==
  [][\A r \in Routers : ScanPatches(r) =>
       \A c \in Calls : HomeOf[c] = r => pc[c] # "wait"]_vars

=============================================================================
