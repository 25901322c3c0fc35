------------------------------ MODULE HostPool ------------------------------
(***************************************************************************)
(* Remote workers: the pool of SSH hosts, the leases taken from it, the    *)
(* side-effect latch of each remote run and the failover decision.         *)
(*                                                                         *)
(* A ticket runs on one leased host at a time.  The caller is external: it *)
(* enters lease(), preflights, starts hooks and turns in the documented    *)
(* order, asks decide_failover about the exception it got, and takes a     *)
(* host out of rotation or back whenever it likes.  Every section of the   *)
(* pool between two awaits is one step; its lock is never held across an   *)
(* await other than the wait itself.                                       *)
(***************************************************************************)
EXTENDS Integers, FiniteSets, FiniteSetsExt

CONSTANTS
    NumHosts,      \* distinct ssh_hosts, numbered in config order
    PerHost,       \* max_concurrent_agents_per_host; 0 or less is no cap
    Tickets,
    MaxRuns        \* leases of one ticket (bound)

ASSUME PoolAssumption == NumHosts \in Nat /\ PerHost \in Int /\ MaxRuns \in Nat /\ IsFiniteSet(Tickets)

VARIABLES
    inUse,         \* _HostState.in_use
    reachable,     \* _HostState.reachable
    lease,         \* per ticket: where its worker lifetime is
    host,          \* of the HostAssignment, 0 without one
    prefer,        \* the host of the last lease, 0 if none is preferred
    latch,         \* RunProgress.side_effects_possible
    attempt,       \* visible attempts of the ticket
    runs,          \* leases it has had
    effects        \* <<attempt, host>> where a hook or a turn really ran

poolVars == <<inUse, reachable, lease, host, prefer, latch, attempt, runs, effects>>

Hosts == 1..NumHosts

(* What decide_failover tells apart.                                       *)
HostIndependent == {"workspace_escapes_root", "quoting_error"}
AgentErrors == {"turn_failed", "turn_timeout", "turn_cancelled", "turn_input_required"}
StartupErrors == {"codex_not_found", "invalid_cwd", "port_exit", "response_error", "response_timeout"}
Errors == HostIndependent \cup AgentErrors \cup StartupErrors
          \cup {"host_unreachable", "preflight_failed", "os_error", "other"}

Leased == {"leased", "prepared", "hooked", "dispatched", "working"}
LeaseStates == Leased \cup {"idle", "waiting", "woken", "ended"}

PoolTypes ==
    /\ inUse \in [Hosts -> Nat]
    /\ reachable \in [Hosts -> BOOLEAN]
    /\ lease \in [Tickets -> LeaseStates]
    /\ host \in [Tickets -> Hosts \cup {0}]
    /\ prefer \in [Tickets -> Hosts \cup {0}]
    /\ latch \in [Tickets -> BOOLEAN]
    /\ attempt \in [Tickets -> Nat]
    /\ runs \in [Tickets -> Nat]
    /\ effects \in [Tickets -> SUBSET (Nat \X Hosts)]

PoolInit ==
    /\ inUse = [h \in Hosts |-> 0]
    /\ reachable = [h \in Hosts |-> TRUE]
    /\ lease = [t \in Tickets |-> "idle"]
    /\ host = [t \in Tickets |-> 0]
    /\ prefer = [t \in Tickets |-> 0]
    /\ latch = [t \in Tickets |-> FALSE]
    /\ attempt = [t \in Tickets |-> 1]
    /\ runs = [t \in Tickets |-> 0]
    /\ effects = [t \in Tickets |-> {}]

-----------------------------------------------------------------------------

HasCapacity(h) == reachable[h] /\ (PerHost <= 0 \/ inUse[h] < PerHost)

Available == {h \in Hosts : HasCapacity(h)}

Saturated == Hosts # {} /\ Available = {}

(* The preferred host while it has room, else the least loaded one, the   *)
(* first of those in config order.                                         *)
LeastLoaded(h) == \A g \in Available : inUse[h] < inUse[g] \/ (inUse[h] = inUse[g] /\ h <= g)

Select(p) ==
    IF p \in Available THEN p ELSE CHOOSE h \in Available : LeastLoaded(h)

(* notify_all: everyone waiting tries again.                               *)
Notified(states) == [t \in Tickets |-> IF states[t] = "waiting" THEN "woken" ELSE states[t]]

(* try_acquire: reserve a slot, or go to sleep on the condition.  A lease  *)
(* is a new worker lifetime and begins with a clear latch.                 *)
TryAcquire(t) ==
    IF Available = {}
    THEN /\ lease' = [lease EXCEPT ![t] = "waiting"]
         /\ UNCHANGED <<inUse, host, latch, runs>>
    ELSE LET h == Select(prefer[t]) IN
         /\ inUse' = [inUse EXCEPT ![h] = @ + 1]
         /\ host' = [host EXCEPT ![t] = h]
         /\ latch' = [latch EXCEPT ![t] = FALSE]
         /\ lease' = [lease EXCEPT ![t] = "leased"]
         /\ runs' = [runs EXCEPT ![t] = @ + 1]

Acquire(t) ==
    /\ lease[t] = "idle" /\ Hosts # {} /\ runs[t] < MaxRuns
    /\ TryAcquire(t)
    /\ UNCHANGED <<reachable, prefer, attempt, effects>>

TryAgain(t) ==
    /\ lease[t] = "woken"
    /\ TryAcquire(t)
    /\ UNCHANGED <<reachable, prefer, attempt, effects>>

(* timeout_ms, or the caller is cancelled: HostPoolSaturated, nothing held. *)
WaitTimesOut(t) ==
    /\ lease[t] \in {"waiting", "woken"}
    /\ lease' = [lease EXCEPT ![t] = "idle"]
    /\ UNCHANGED <<inUse, reachable, host, prefer, latch, attempt, runs, effects>>

\* Mutant: the slot goes back and nobody is woken.
ReleasedQuietly(t, next) ==
    /\ inUse' = [inUse EXCEPT ![host[t]] = IF @ > 0 THEN @ - 1 ELSE @]
    /\ lease' = [lease EXCEPT ![t] = next]
    /\ host' = [host EXCEPT ![t] = 0]
    /\ prefer' = [prefer EXCEPT ![t] = host[t]]

(* The slot goes back and every waiter is woken, in one section.           *)
Release(t, next) ==
    /\ inUse' = [inUse EXCEPT ![host[t]] = IF @ > 0 THEN @ - 1 ELSE @]
    /\ lease' = Notified([lease EXCEPT ![t] = next])
    /\ host' = [host EXCEPT ![t] = 0]
    /\ prefer' = [prefer EXCEPT ![t] = host[t]]

-----------------------------------------------------------------------------
(* The steps of a remote run and its latch.                                *)

Preflight(t) ==
    /\ lease[t] = "leased"
    /\ lease' = [lease EXCEPT ![t] = "prepared"]
    /\ UNCHANGED <<inUse, reachable, host, prefer, latch, attempt, runs, effects>>

MarkSideEffect(t) == latch' = [latch EXCEPT ![t] = TRUE]

(* The repo-owned hook may have run to any point before it failed.         *)
MarkHookStarted(t) ==
    /\ lease[t] = "prepared"
    /\ MarkSideEffect(t)
    /\ effects' = [effects EXCEPT ![t] = @ \cup {<<attempt[t], host[t]>>}]
    /\ lease' = [lease EXCEPT ![t] = "hooked"]
    /\ UNCHANGED <<inUse, reachable, host, prefer, attempt, runs>>

(* Called before the prompt is written, so the channel may drop between.   *)
MarkTurnDispatched(t) ==
    /\ lease[t] \in {"prepared", "hooked"}
    /\ MarkSideEffect(t)
    /\ lease' = [lease EXCEPT ![t] = "dispatched"]
    /\ UNCHANGED <<inUse, reachable, host, prefer, attempt, runs, effects>>

PromptArrives(t) ==
    /\ lease[t] = "dispatched"
    /\ effects' = [effects EXCEPT ![t] = @ \cup {<<attempt[t], host[t]>>}]
    /\ lease' = [lease EXCEPT ![t] = "working"]
    /\ UNCHANGED <<inUse, reachable, host, prefer, latch, attempt, runs>>

Completes(t) ==
    /\ lease[t] = "working"
    /\ Release(t, "ended")
    /\ UNCHANGED <<reachable, latch, attempt, runs, effects>>

-----------------------------------------------------------------------------
(* Failure.                                                                *)

(* In the order of the tests; a dropped channel looks the same whenever it *)
(* drops.                                                                  *)
ClassifyFailure(e) ==
    CASE e \in HostIndependent -> "preflight"
      [] e = "host_unreachable" -> "connect"
      [] e = "preflight_failed" -> "preflight"
      [] e \in AgentErrors -> "agent"
      [] e \in StartupErrors -> "startup"
      [] e = "os_error" -> "connect"
      [] OTHER -> "unknown"

\* Mutant: the stage of the failure alone decides.
DecidedByStage(latched, e, remaining) ==
    LET stage == ClassifyFailure(e) IN
    IF e \in HostIndependent THEN "fail"
    ELSE IF stage \in {"connect", "preflight", "startup"} /\ remaining > 0 THEN "retry_other_host"
    ELSE "new_attempt"

DecideFailover(latched, e, remaining) ==
    LET stage == ClassifyFailure(e) IN
    IF e \in HostIndependent THEN "fail"
    ELSE IF latched \/ stage = "agent" THEN "new_attempt"
    ELSE IF stage \in {"connect", "preflight", "startup"} /\ remaining > 0 THEN "retry_other_host"
    ELSE "new_attempt"

(* What can be raised while a run is at s: a turn's errors need a turn.    *)
Raisable(s) ==
    CASE s = "leased" -> HostIndependent \cup {"host_unreachable", "preflight_failed", "os_error"}
      [] s \in {"prepared", "hooked"} ->
            {"quoting_error", "host_unreachable", "os_error", "other"} \cup StartupErrors
      [] s \in {"dispatched", "working"} -> AgentErrors \cup
            {"host_unreachable", "port_exit", "response_timeout", "response_error", "os_error", "other"}

(* The lease ends with the exception; the decision says what the ticket   *)
(* becomes.  A transparent rerun keeps the attempt number.                 *)
RunFails(t) ==
    /\ lease[t] \in Leased
    /\ \E e \in Raisable(lease[t]) :
         LET remaining == Cardinality(Available \ {host[t]})
             action == DecideFailover(latch[t], e, remaining) IN
         /\ attempt' = [attempt EXCEPT ![t] = IF action = "new_attempt" THEN @ + 1 ELSE @]
         /\ Release(t, IF action = "fail" THEN "ended" ELSE "idle")
    /\ UNCHANGED <<reachable, latch, runs, effects>>

MarkUnreachable(h) ==
    /\ reachable[h]
    /\ reachable' = [reachable EXCEPT ![h] = FALSE]
    /\ lease' = Notified(lease)
    /\ UNCHANGED <<inUse, host, prefer, latch, attempt, runs, effects>>

MarkReachable(h) ==
    /\ ~reachable[h]
    /\ reachable' = [reachable EXCEPT ![h] = TRUE]
    /\ lease' = Notified(lease)
    /\ UNCHANGED <<inUse, host, prefer, latch, attempt, runs, effects>>

PoolNext ==
    \/ \E t \in Tickets :
         \/ Acquire(t) \/ TryAgain(t) \/ WaitTimesOut(t)
         \/ Preflight(t) \/ MarkHookStarted(t) \/ MarkTurnDispatched(t) \/ PromptArrives(t)
         \/ Completes(t) \/ RunFails(t)
    \/ \E h \in Hosts : MarkUnreachable(h) \/ MarkReachable(h)

PoolSpec == PoolInit /\ [][PoolNext]_poolVars

-----------------------------------------------------------------------------

Holders(h) == {t \in Tickets : lease[t] \in Leased /\ host[t] = h}

(* HostPool counts what it hands out: a host's in_use is the number of the *)
(* worker lifetimes on it, through every failure, and stays under the cap; *)
(* and nobody sleeps in acquire() while a host has room.                   *)
SlotsAreAccounted ==
    /\ \A h \in Hosts :
        /\ inUse[h] = Cardinality(Holders(h))
        /\ PerHost > 0 => inUse[h] <= PerHost
    /\ \A t \in Tickets : lease[t] = "waiting" => Available = {}

(* decide_failover: within one attempt number, side effects of a ticket   *)
(* happen on one host only, whatever error ended its leases.               *)
NoInvisibleRerun ==
    \A t \in Tickets : \A x, y \in effects[t] : x[1] = y[1] => x[2] = y[2]

=============================================================================
