----------------------------- MODULE HttpSurface -----------------------------
(***************************************************************************)
(* The refresh trigger of http/api.py (RefreshCoordinator and the POST     *)
(* /refresh endpoint with its optional hook) and the listener's lifecycle  *)
(* of http/server.py (HttpServer), on the one event loop.                  *)
(***************************************************************************)
EXTENDS Integers, FiniteSets

CONSTANTS Callers,     \* HTTP clients that POST /api/v1/refresh
          MaxRequests, \* bound: requests made
          Wired        \* what the surface is built with, of {"coordinator", "hook"}

ASSUME SurfaceAssumption ==
    IsFiniteSet(Callers) /\ MaxRequests \in Nat /\ Wired \subseteq {"coordinator", "hook"}

VARIABLES pending,  \* _pending
          event,    \* the asyncio.Event is set
          waiter,   \* the orchestrator side in wait(): "busy", "asleep", "woken", "refreshing"
          unserved, \* requests made and not yet taken by a consume
          requests, \* _requests
          caller,   \* per client: "idle", "hooked" (in the hook), or the reply's status
          listener, \* HttpServer._socket: "none", "open"
          serving,  \* its task: "none", "starting", "up", "failed", "leaving", "over"
          calling   \* the call in progress: "none", "start", "stop"

httpVars == <<pending, event, waiter, unserved, requests, caller, listener, serving, calling>>
triggerVars == <<pending, event, waiter, unserved, requests, caller>>
serverVars == <<listener, serving, calling>>

Statuses == {"202 queued", "202 coalesced", "503 refresh_unavailable"}

HttpTypes ==
    /\ pending \in BOOLEAN /\ event \in BOOLEAN
    /\ waiter \in {"busy", "asleep", "woken", "refreshing"}
    /\ unserved \in 0..MaxRequests /\ requests \in 0..MaxRequests
    /\ caller \in [Callers -> {"idle", "hooked"} \cup Statuses]
    /\ listener \in {"none", "open"} /\ calling \in {"none", "start", "stop"}
    /\ serving \in {"none", "starting", "up", "failed", "leaving", "over"}

HttpInit ==
    /\ pending = FALSE /\ event = FALSE /\ waiter = "busy" /\ unserved = 0 /\ requests = 0
    /\ caller = [c \in Callers |-> "idle"]
    /\ listener = "none" /\ serving = "none" /\ calling = "none"

-----------------------------------------------------------------------------

(* RefreshCoordinator.request: the event wakes whoever sleeps on it.       *)
Request ==
    IF "coordinator" \in Wired
    THEN /\ requests < MaxRequests
         /\ requests' = requests + 1 /\ unserved' = unserved + 1
         /\ pending' = TRUE /\ event' = TRUE
         /\ waiter' = IF waiter = "asleep" THEN "woken" ELSE waiter
    ELSE UNCHANGED <<pending, event, waiter, unserved, requests>>

Reply == IF "coordinator" \in Wired /\ pending THEN "202 coalesced" ELSE "202 queued"

(* JsonApi.refresh: the request is recorded before the hook is called, and *)
(* the hook may be awaited; with neither there is nothing to queue in.     *)
Refresh(c) ==
    /\ caller[c] # "hooked"
    /\ IF Wired = {}
       THEN /\ caller' = [caller EXCEPT ![c] = "503 refresh_unavailable"]
            /\ UNCHANGED <<pending, event, waiter, unserved, requests>>
       ELSE /\ Request
            /\ caller' = [caller EXCEPT ![c] = IF "hook" \in Wired THEN "hooked" ELSE Reply]
    /\ UNCHANGED serverVars

(* The hook returns, perhaps with a result of its own, or raises.          *)
HookDone(c) ==
    /\ caller[c] = "hooked"
    /\ \E status \in Statuses : caller' = [caller EXCEPT ![c] = status]
    /\ UNCHANGED <<pending, event, waiter, unserved, requests, listener, serving, calling>>

\* Mutant: the event is cleared and slept on without a look at the flag.
WaitBlind ==
    /\ waiter \in {"busy", "woken"}
    /\ IF waiter = "woken" /\ pending THEN waiter' = "refreshing" /\ UNCHANGED event
       ELSE waiter' = "asleep" /\ event' = FALSE
    /\ UNCHANGED <<pending, unserved, requests, caller, listener, serving, calling>>

(* wait(): return at once when a refresh is pending, else clear the event  *)
(* and sleep; a wake-up looks again.                                       *)
Wait ==
    /\ waiter \in {"busy", "woken"}
    /\ IF pending THEN waiter' = "refreshing" /\ UNCHANGED event
       ELSE waiter' = "asleep" /\ event' = FALSE
    /\ UNCHANGED <<pending, unserved, requests, caller, listener, serving, calling>>

(* consume(): by the waiter, or by a tick that polls the flag.             *)
Consume(after) ==
    /\ pending' = FALSE /\ event' = FALSE
    /\ unserved' = IF pending THEN 0 ELSE unserved
    /\ waiter' = after
    /\ UNCHANGED <<requests, caller, listener, serving, calling>>

ConsumeWaited == waiter = "refreshing" /\ Consume("busy")
ConsumePolled == Consume(waiter)

-----------------------------------------------------------------------------

(* start(): bind before the server task exists.  A bind that fails closes  *)
(* its socket and leaves everything as it was.                             *)
StartServer ==
    /\ calling = "none" /\ serving = "none"
    /\ listener' = "open" /\ serving' = "starting" /\ calling' = "start"
    /\ UNCHANGED triggerVars

UvicornStarts ==
    /\ serving = "starting"
    /\ serving' \in {"up", "failed"}
    /\ UNCHANGED <<listener, calling>> /\ UNCHANGED triggerVars

(* start() returns once the server is up, raises when its task is over and *)
(* leaves the closing to stop(), and calls stop() itself on its deadline.  *)
StartReturns ==
    /\ calling = "start"
    /\ \/ serving \in {"up", "failed"} /\ calling' = "none"
       \/ serving = "starting" /\ calling' = "stop"
    /\ UNCHANGED <<listener, serving>> /\ UNCHANGED triggerVars

(* stop(): ask uvicorn to exit and await its task, cancelled on time out.  *)
StopServer ==
    /\ calling = "none"
    /\ IF serving = "none"
       THEN listener' = "none" /\ UNCHANGED <<serving, calling>>
       ELSE calling' = "stop" /\ UNCHANGED <<listener, serving>>
    /\ UNCHANGED triggerVars

TaskOver ==
    /\ calling = "stop" /\ serving \in {"starting", "up"}
    /\ serving' = "over"
    /\ UNCHANGED <<listener, calling>> /\ UNCHANGED triggerVars

(* The task raised nothing: close the listener.  A failed task re-raises   *)
(* out of stop() before it, and the next stop() closes.                    *)
StopReturns ==
    /\ calling = "stop" /\ serving \in {"over", "failed"}
    /\ calling' = "none" /\ serving' = "none"
    /\ listener' = IF serving = "failed" THEN listener ELSE "none"
    /\ UNCHANGED triggerVars

HttpNext ==
    \/ \E c \in Callers : Refresh(c) \/ HookDone(c)
    \/ Wait \/ ConsumeWaited \/ ConsumePolled
    \/ StartServer \/ UvicornStarts \/ StartReturns \/ StopServer \/ TaskOver \/ StopReturns

HttpSpec == HttpInit /\ [][HttpNext]_httpVars

(* RefreshCoordinator, "exact coalescing": with clients, a waiter and a    *)
(* polling tick in any order, requests stay pending until one consume      *)
(* takes them all, and a waiter never sleeps on a pending refresh.         *)
RefreshIsNeverLost ==
    /\ pending <=> unserved > 0
    /\ waiter = "asleep" => ~ pending

=============================================================================
