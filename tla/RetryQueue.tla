----------------------------- MODULE RetryQueue -----------------------------
(***************************************************************************)
(* RetryQueue by itself: entries, the generation of each armed timer, and  *)
(* the timers, which an injected factory makes.  A timer that comes due is *)
(* queued on the event loop as a callback; cancelling it may come too late *)
(* to keep the callback from running, which is what generations are for.   *)
(* The orchestrator (Orchestrator.tla) schedules, pops and cancels.        *)
(***************************************************************************)
EXTENDS Integers

CONSTANTS
    Retried,       \* issue ids
    MaxSchedules   \* calls of schedule() (bound)

ASSUME RetryAssumption == MaxSchedules \in Nat /\ Retried # {}

VARIABLES
    sequence,    \* _sequence
    entry,       \* state.retry_attempts: the generation it was made with, 0 if absent
    generation,  \* _generations, 0 if absent
    timer,       \* per generation: the handle
    owner,       \* per generation: the issue of its callback
    notices,     \* on_due calls whose handler has not acted, as generations
    delivered,   \* generations on_due was called for (history)
    orphaned     \* entries whose handler raised: nobody wakes them (history)

retryVars == <<sequence, entry, generation, timer, owner, notices, delivered, orphaned>>

Generations == 1..MaxSchedules

RetryTypes ==
    /\ sequence \in 0..MaxSchedules
    /\ entry \in [Retried -> 0..MaxSchedules]
    /\ generation \in [Retried -> 0..MaxSchedules]
    /\ timer \in [Generations -> {"none", "armed", "queued", "cancelled", "late", "ran"}]
    /\ owner \in [Generations -> Retried]
    /\ notices \subseteq Generations
    /\ delivered \subseteq Generations
    /\ orphaned \subseteq Generations

RetryInit ==
    /\ sequence = 0
    /\ entry = [i \in Retried |-> 0]
    /\ generation = [i \in Retried |-> 0]
    /\ timer = [g \in Generations |-> "none"]
    /\ owner = [g \in Generations |-> CHOOSE i \in Retried : TRUE]
    /\ notices = {} /\ delivered = {} /\ orphaned = {}

-----------------------------------------------------------------------------

(* handle.cancel(): in time, or after the callback was queued.             *)
CancelHandle(t, g) ==
    [t EXCEPT ![g] = IF @ = "armed" THEN "cancelled" ELSE IF @ = "queued" THEN "late" ELSE @]

CancelEntry(i) == IF entry[i] = 0 THEN timer ELSE CancelHandle(timer, entry[i])

Schedule(i) ==
    /\ sequence < MaxSchedules
    /\ sequence' = sequence + 1
    /\ entry' = [entry EXCEPT ![i] = sequence + 1]
    /\ generation' = [generation EXCEPT ![i] = sequence + 1]
    /\ timer' = [CancelEntry(i) EXCEPT ![sequence + 1] = "armed"]
    /\ owner' = [owner EXCEPT ![sequence + 1] = i]
    /\ UNCHANGED <<notices, delivered, orphaned>>

\* Mutant: the entry made before the timer stays.
FailureKeepsEntry(i) ==
    /\ sequence < MaxSchedules
    /\ sequence' = sequence + 1
    /\ entry' = [entry EXCEPT ![i] = sequence + 1]
    /\ generation' = [generation EXCEPT ![i] = sequence + 1]
    /\ timer' = CancelEntry(i)
    /\ UNCHANGED <<owner, notices, delivered, orphaned>>

(* The factory raises: the replaced entry is gone, the new one is undone.  *)
ScheduleFails(i) ==
    /\ sequence < MaxSchedules
    /\ sequence' = sequence + 1
    /\ entry' = [entry EXCEPT ![i] = 0]
    /\ generation' = [generation EXCEPT ![i] = 0]
    /\ timer' = CancelEntry(i)
    /\ UNCHANGED <<owner, notices, delivered, orphaned>>

(* cancel() and pop() take the entry out and cancel its handle.            *)
RemoveEntry(i) ==
    /\ entry' = [entry EXCEPT ![i] = 0]
    /\ generation' = [generation EXCEPT ![i] = 0]
    /\ timer' = CancelEntry(i)

Cancel(i) ==
    /\ entry[i] # 0
    /\ RemoveEntry(i)
    /\ UNCHANGED <<sequence, owner, notices, delivered, orphaned>>

CancelAll ==
    /\ \E i \in Retried : entry[i] # 0
    /\ entry' = [i \in Retried |-> 0]
    /\ generation' = [i \in Retried |-> 0]
    /\ timer' = [g \in Generations |->
                   IF \E i \in Retried : entry[i] = g THEN CancelHandle(timer, g)[g] ELSE timer[g]]
    /\ UNCHANGED <<sequence, owner, notices, delivered, orphaned>>

(* The handler of a notice pops the entry of the issue, whichever it is.   *)
Pop(g) ==
    /\ g \in notices
    /\ notices' = notices \ {g}
    /\ RemoveEntry(owner[g])
    /\ UNCHANGED <<sequence, owner, delivered, orphaned>>

ComesDue(g) ==
    /\ timer[g] = "armed"
    /\ timer' = [timer EXCEPT ![g] = "queued"]
    /\ UNCHANGED <<sequence, entry, generation, owner, notices, delivered, orphaned>>

\* Mutant: any entry of the issue will do.
AnyEntry(g) == entry[owner[g]] # 0

(* A callback that finds another generation, or none, is dropped.          *)
Current(g) == generation[owner[g]] = g /\ entry[owner[g]] # 0

Fire(g, raises) ==
    /\ timer[g] \in {"queued", "late"}
    /\ timer' = [timer EXCEPT ![g] = "ran"]
    /\ IF Current(g)
       THEN /\ delivered' = delivered \cup {g}
            /\ notices' = IF raises THEN notices ELSE notices \cup {g}
            /\ orphaned' = IF raises THEN orphaned \cup {g} ELSE orphaned
       ELSE UNCHANGED <<delivered, notices, orphaned>>
    /\ UNCHANGED <<sequence, entry, generation, owner>>

RetryNext ==
    \/ \E i \in Retried : Schedule(i) \/ ScheduleFails(i) \/ Cancel(i)
    \/ CancelAll
    \/ \E g \in Generations :
         \/ Pop(g) \/ ComesDue(g)
         \/ \E raises \in BOOLEAN : Fire(g, raises)

RetrySpec == RetryInit /\ [][RetryNext]_retryVars

-----------------------------------------------------------------------------

(* RetryQueue: an issue that reads as retry-queued has a timer that will   *)
(* fire or a handler that was told; only a handler that raised can leave   *)
(* one behind.                                                             *)
RetryHasWaker ==
    \A i \in Retried : entry[i] # 0 =>
        timer[entry[i]] \in {"armed", "queued"} \/ entry[i] \in notices \cup orphaned

(* _fire: a timer that was replaced or cancelled never delivers its edge,  *)
(* even when its callback was already queued; each delivery is for the     *)
(* entry that stands.                                                      *)
OnlyCurrentTimersFire ==
    [][\A g \in delivered' \ delivered : entry[owner[g]] = g /\ timer[g] # "late"]_retryVars

=============================================================================
