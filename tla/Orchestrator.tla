---------------------------- MODULE Orchestrator ----------------------------
(***************************************************************************)
(* The scheduling core: symphony.orchestrator.core with the branch table   *)
(* of symphony.orchestrator.reconcile and the slot rules of scheduling.    *)
(*                                                                         *)
(* One task drains one mailbox.  A handler runs without interruption       *)
(* between two awaits that really suspend, so one action is the stretch of *)
(* code from one suspension to the next; the variable `at' says where the  *)
(* loop task is suspended.  Timers, worker tasks, the tracker and callers  *)
(* of the public methods run in between.                                   *)
(*                                                                         *)
(* Data that no decision reads is left out: logs, observers, completed,    *)
(* runtime and token totals, and the length of a delay.  Time is abstract: *)
(* an armed timer may fire at any moment, any running entry may be stalled.*)
(***************************************************************************)
EXTENDS Naturals, Sequences, FiniteSets

CONSTANTS
    Issues,          \* issue ids
    Gens,            \* names for the worker tasks of one issue (bound TaskBound)
    ActiveStates,    \* config.active_states
    TerminalStates,  \* config.terminal_states
    OtherStates,     \* every other answer: inactive, unroutable, not returned
    StateOverride,   \* max_concurrent_agents_by_state, for some active states
    Limits,          \* values a config may give max_concurrent_agents
    MaxAttempt,      \* bound: attempt numbers saturate here
    MaxTicks,        \* bound: requested ticks waiting in the mailbox
    MaxConfigs,      \* bound: reloads waiting in the mailbox
    None,            \* Python's None
    Pending, Failed  \* no answer yet; the request raised

TrackerStates == ActiveStates \cup TerminalStates \cup OtherStates

ASSUME LimitsAssumption == Limits \subseteq Nat /\ Limits # {}
ASSUME AttemptAssumption == MaxAttempt \in Nat \ {0}
\* A board has finitely many issues; _by_state_limits keeps positive numbers.
ASSUME IssuesAssumption == IsFiniteSet(Issues)
ASSUME OverrideAssumption == \A s \in DOMAIN StateOverride : StateOverride[s] \in Nat

-----------------------------------------------------------------------------
(* Types *)

Task == Issues \X Gens
Attempts == 0..MaxAttempt            \* 0 is a first run, attempt = None
RunningEntry == [gen : Gens, attempt : Attempts, state : TrackerStates]
\* A retry or a continuation is never a first run.
RetryEntry == [attempt : Attempts \ {0}, timer : {"armed", "fired"}]

Tick(r) == [type |-> "tick", reschedule |-> r]
WorkerExit(w, ok) == [type |-> "exit", task |-> w, normal |-> ok]
RetryFired(i) == [type |-> "fired", issue |-> i]
ApplyConfig(n) == [type |-> "config", limit |-> n]
Stop == [type |-> "stop"]

Command ==
    {Tick(r) : r \in BOOLEAN}
      \cup {WorkerExit(w, ok) : w \in Task, ok \in BOOLEAN}
      \cup {RetryFired(i) : i \in Issues}
      \cup {ApplyConfig(n) : n \in Limits}
      \cup {Stop}

Snapshots == UNION {[S -> TrackerStates] : S \in SUBSET Issues}

ASSUME NoneAssumption == None \notin RunningEntry \cup RetryEntry \cup Issues
ASSUME ReplyAssumption ==
    /\ Pending # Failed
    /\ \A f \in Snapshots : f # Pending /\ f # Failed

-----------------------------------------------------------------------------
VARIABLES
    running,    \* state.running: issue -> RunningEntry, or None
    claimed,    \* state.claimed
    retry,      \* state.retry_attempts: issue -> RetryEntry, or None
    limit,      \* config.max_concurrent_agents
    task,       \* each worker task: free, live, unwinding (cancelled), exited
    mailbox,    \* the asyncio.Queue
    tickArmed,  \* _tick_handle is not None
    stop,       \* none, called (_closing, awaiting), returned
    awaited,    \* the worker tasks stop() cancelled and gathers
    at,         \* where the mailbox loop is suspended
    hand,       \* the issue a suspended handler has taken out of the maps
    handAttempt,\* entry.attempt of that issue in _handle_retry_timer
    todo,       \* running ids still to reconcile in this tick
    reply,      \* answer to the tracker request the loop awaits
    resched     \* command.reschedule of the tick in progress

stateVars == <<running, claimed, retry, limit>>
loopVars == <<at, hand, handAttempt, todo, reply, resched>>
vars == <<stateVars, task, mailbox, tickArmed, stop, awaited, loopVars>>

Points == {"get", "reconcile_fetch", "reconcile_clean", "candidate_fetch",
           "retry_fetch", "retry_clean", "halted"}

closing == stop # "none"
IsTerminal(s) == s \in TerminalStates
IsActive(s) == s \in ActiveStates
Eligible(s) == IsActive(s) /\ ~IsTerminal(s)
Running == {i \in Issues : running[i] # None}
RetryQueued == {i \in Issues : retry[i] # None}
\* Mutant: a retry that forgets to count.
SameAttempt(a) == a
NextAttempt(a) == IF a < MaxAttempt THEN a + 1 ELSE MaxAttempt
FreeGens(i) == {g \in Gens : task[<<i, g>>] = "free"}
TaskOf(i) == <<i, running[i].gen>>

\* The two checks _run_tick makes before should_dispatch repeats them.
RunningUnchecked(i) == i \notin Running
Free(i) == i \notin Running /\ i \notin claimed

\* An exit counts for the task the entry records, not for the issue.
AnyTaskIsCurrent(w) == running[w[1]] # None
IsCurrent(w) == running[w[1]] # None /\ TaskOf(w[1]) = w

-----------------------------------------------------------------------------
(* Slots (scheduling.available_slots, has_state_slot) *)

StateLimit(s) == IF s \in DOMAIN StateOverride THEN StateOverride[s] ELSE limit
CountIn(run, s) == Cardinality({i \in Issues : run[i] # None /\ run[i].state = s})
CountOf(S, snap, s) == Cardinality({i \in S : snap[i] = s})
\* Mutant: the slots as they were before the pass began.
SlotsBeforePass(s, S, snap) ==
    Cardinality(Running) < limit /\ CountIn(running, s) < StateLimit(s)
\* A slot for one more worker of state s after those of S were started, with
\* the states the answer snap gives them.
HasSlotFor(s, S, snap) ==
    /\ Cardinality(Running) + Cardinality(S) < limit
    /\ CountIn(running, s) + CountOf(S, snap, s) < StateLimit(s)

-----------------------------------------------------------------------------
(* The mutators handlers share *)

\* schedule_retry for the issues of S; att gives each its attempt.
ScheduleRetry(S, att, rest) ==
    [i \in Issues |->
        IF i \notin S THEN rest[i]
        ELSE IF closing THEN None
        ELSE [attempt |-> att[i], timer |-> "armed"]]

ClaimNotTaken(S, rest) == IF closing THEN rest \ S ELSE rest
\* A retry keeps or takes the claim, unless the service is closing.
ClaimForRetry(S, rest) == IF closing THEN rest \ S ELSE rest \cup S

\* terminate_running_issue: the entry goes now, the task is only cancelled.
Cancelled(S) ==
    [w \in Task |->
        IF /\ w[1] \in S
           /\ running[w[1]] # None
           /\ w = TaskOf(w[1])
           /\ task[w] = "live"
        THEN "unwinding" ELSE task[w]]
Without(S, f) == [i \in Issues |-> IF i \in S THEN None ELSE f[i]]

\* _dispatch_issue for D (spawn works, task name g[i]) and for F (it raises).
Dispatch(D, F, g, attempt, snap) ==
    /\ running' = [i \in Issues |->
          IF i \in D
          THEN [gen |-> g[i], attempt |-> attempt, state |-> snap[i]]
          ELSE running[i]]
    /\ task' = [w \in Task |->
          IF w[1] \in D /\ w[2] = g[w[1]] THEN "live" ELSE task[w]]
    /\ claimed' = ClaimForRetry(F, claimed \cup D)
    /\ retry' = ScheduleRetry(F, [i \in F |-> NextAttempt(attempt)],
                              Without(D, retry))

\* The loop goes back to mailbox.get().
Settle ==
    /\ at' = "get"
    /\ hand' = None
    /\ handAttempt' = 0
    /\ todo' = {}
    /\ reply' = Pending
    /\ resched' = FALSE

Suspend(point, issue, attempt, ids, answer, chain) ==
    /\ at' = point
    /\ hand' = issue
    /\ handAttempt' = attempt
    /\ todo' = ids
    /\ reply' = answer
    /\ resched' = chain

ManualTickDisarms(chain) ==
    Settle /\ tickArmed' = (chain /\ ~closing)
ChainForgotten(chain) ==
    Settle /\ UNCHANGED tickArmed
\* The finally of _handle_tick: the poll chain is re-armed however it ended.
EndTick(chain) ==
    /\ Settle
    /\ tickArmed' = (tickArmed \/ (chain /\ ~closing))

\* _run_tick after reconciliation: stop if closing or the config is invalid,
\* else ask for the candidates.
AfterReconcile(chain) ==
    \/ EndTick(chain)
    \/ /\ ~closing
       /\ Suspend("candidate_fetch", None, 0, {}, Pending, chain)
       /\ UNCHANGED tickArmed

-----------------------------------------------------------------------------
(* Environment: tracker, timers, worker tasks *)

\* Issues move in the tracker at will, so any answer is possible: by ids, a
\* state for each id asked for; by states, some active issues.  The loop reads
\* it later, when it may be stale.
Answer(answer) ==
    /\ reply = Pending
    /\ reply' = answer
    /\ UNCHANGED <<stateVars, task, mailbox, tickArmed, stop, awaited,
                   at, hand, handAttempt, todo, resched>>
TrackerAnswers ==
    \/ at = "reconcile_fetch" /\ \E f \in [todo -> TrackerStates] : Answer(f)
    \/ at = "retry_fetch" /\ \E f \in [{hand} -> TrackerStates] : Answer(f)
    \/ /\ at = "candidate_fetch"
       /\ \E S \in SUBSET Issues : \E f \in [S -> ActiveStates] : Answer(f)
TrackerFails ==
    at \in {"reconcile_fetch", "candidate_fetch", "retry_fetch"} /\ Answer(Failed)

TickTimerFires ==
    /\ tickArmed
    /\ tickArmed' = FALSE
    /\ mailbox' = IF closing THEN mailbox ELSE Append(mailbox, Tick(TRUE))
    /\ UNCHANGED <<stateVars, task, stop, awaited, loopVars>>

\* Bound TaskBound: it waits while every task name of the issue is in use.
RetryTimerFires(i) ==
    /\ FreeGens(i) # {}
    /\ retry[i] # None
    /\ retry[i].timer = "armed"
    /\ retry' = [retry EXCEPT ![i].timer = "fired"]
    /\ mailbox' = Append(mailbox, RetryFired(i))
    /\ UNCHANGED <<running, claimed, limit, task, tickArmed, stop,
                   awaited, loopVars>>

\* The done callback only enqueues.
TaskEnds(w, ok) ==
    /\ task' = [task EXCEPT ![w] = "exited"]
    /\ mailbox' = Append(mailbox, WorkerExit(w, ok))
    /\ UNCHANGED <<stateVars, tickArmed, stop, awaited, loopVars>>

WorkerFinishes(w) == task[w] = "live" /\ \E ok \in BOOLEAN : TaskEnds(w, ok)
WorkerUnwinds(w) == task[w] = "unwinding" /\ TaskEnds(w, FALSE)

-----------------------------------------------------------------------------
(* Callers of the public methods *)

Post(command) ==
    /\ mailbox' = Append(mailbox, command)
    /\ UNCHANGED <<stateVars, task, tickArmed, stop, awaited, loopVars>>

Queued(kind) == {k \in DOMAIN mailbox : mailbox[k].type = kind}

\* _arm_tick_timer, from outside the loop.
ArmTickTimer ==
    /\ tickArmed' = TRUE
    /\ UNCHANGED <<stateVars, task, mailbox, stop, awaited, loopVars>>

\* tick() and request_tick(), at once or after a delay: at most MaxTicks wait
\* in the mailbox at a time.
RequestTick ==
    /\ Cardinality(Queued("tick")) < MaxTicks
    /\ (\E chain \in BOOLEAN : Post(Tick(chain))) \/ ArmTickTimer

\* apply_config(): the host applies its reloads one at a time.
RequestConfig ==
    /\ Cardinality(Queued("config")) < MaxConfigs
    /\ \E n \in Limits : Post(ApplyConfig(n))

\* stop() up to its first await: it works outside the mailbox.
CallStop ==
    /\ stop = "none"
    /\ stop' = "called"
    /\ tickArmed' = FALSE
    /\ retry' = [i \in Issues |-> None]
    /\ awaited' = {TaskOf(i) : i \in Running}
    /\ task' = Cancelled(Running)
    /\ mailbox' = Append(mailbox, Stop)
    /\ UNCHANGED <<running, claimed, limit, loopVars>>

\* stop() resumes when the loop task ended and the cancelled workers settled.
StopReturns ==
    /\ stop = "called"
    /\ at = "halted"
    /\ \A w \in awaited : task[w] \in {"free", "exited"}
    /\ stop' = "returned"
    /\ UNCHANGED <<stateVars, task, mailbox, tickArmed, awaited, loopVars>>

-----------------------------------------------------------------------------
(* The mailbox loop *)

Receive(kind) ==
    /\ at = "get"
    /\ mailbox # <<>>
    /\ Head(mailbox).type = kind
    /\ mailbox' = Tail(mailbox)
    /\ UNCHANGED <<stop, awaited>>

\* _handle_tick up to the first fetch.  S is what plan_stall_terminations
\* lists: each is terminated (claim released) and then queued for a retry.
HandleTick ==
    /\ Receive("tick")
    /\ \E S \in SUBSET Running :
         /\ running' = Without(S, running)
         /\ task' = Cancelled(S)
         /\ retry' = ScheduleRetry(S, [i \in S |-> NextAttempt(running[i].attempt)],
                                   Without(S, retry))
         /\ claimed' = ClaimForRetry(S, claimed \ S)
         /\ IF Running \ S = {}
            THEN AfterReconcile(Head(mailbox).reschedule)
            ELSE /\ Suspend("reconcile_fetch", None, 0, Running \ S, Pending,
                            Head(mailbox).reschedule)
                 /\ UNCHANGED tickArmed
    /\ UNCHANGED limit

\* Decisions for the issues of P and, last, for those of ending, which stay
\* claimed while their workspace is cleaned; the cleaned ones are given up.
ApplyDecisions(P, ending, cleaned) ==
    LET drop == {i \in P : ~IsActive(reply[i])}
    IN  /\ running' = [i \in Issues |->
              IF i \in drop \cup ending THEN None
              ELSE IF i \in P THEN [running[i] EXCEPT !.state = reply[i]]
              ELSE running[i]]
        /\ task' = Cancelled(drop \cup ending)
        /\ claimed' = claimed \ (cleaned \cup drop)
        /\ retry' = Without(cleaned \cup drop, retry)

\* The plan of plan_reconciliation for ids up to the next suspension: to its
\* end, or to the cleanup for a terminal issue t after the issues of P.
ReconcileRun(ids, cleaned) ==
    LET known == ids \cap Running
        terminal == {i \in known : IsTerminal(reply[i])}
    IN  \/ /\ terminal = {}
           /\ ApplyDecisions(known, {}, cleaned)
           /\ AfterReconcile(resched)
        \/ \E t \in terminal, P \in SUBSET (known \ terminal) :
           /\ ApplyDecisions(P, {t}, cleaned)
           /\ Suspend("reconcile_clean", t, 0, ids \ (P \cup {t}), reply, resched)
           /\ UNCHANGED tickArmed

ReconcileFetched ==
    /\ at = "reconcile_fetch"
    /\ reply # Pending
    /\ IF reply = Failed
       THEN AfterReconcile(resched) /\ UNCHANGED <<running, task, claimed, retry>>
       ELSE ReconcileRun(todo, {})
    /\ UNCHANGED <<limit, mailbox, stop, awaited>>

\* cleanup() returned: the claim is released and the plan goes on.
ReconcileCleaned ==
    /\ at = "reconcile_clean"
    /\ ReconcileRun(todo, {hand})
    /\ UNCHANGED <<limit, mailbox, stop, awaited>>

\* should_dispatch for a candidate, after the pass has started those of S.
\* Bound TaskBound: a candidate with no free task name is passed over.
MayStart(i, S, snap) ==
    /\ Eligible(snap[i])
    /\ Free(i)
    /\ FreeGens(i) # {}
    /\ HasSlotFor(snap[i], S, snap)

\* The answer in any order: what sort_for_dispatch reads is data left out.
Orders(S) ==
    {order \in [1 .. Cardinality(S) -> Issues] : {order[k] : k \in DOMAIN order} = S}

\* The loop over the sorted candidates: D are spawned, the spawns of F raise.
\* Each candidate meets the slots that the earlier ones of D have left.  The
\* break at no global slot skips only what should_dispatch would refuse.
Pass(order, D, F, snap) ==
    /\ D \cap F = {} /\ D \cup F \subseteq DOMAIN snap
    /\ \A k \in DOMAIN order :
          LET earlier == {order[j] : j \in 1 .. k - 1}
          IN  order[k] \in D \cup F <=> MayStart(order[k], D \cap earlier, snap)

CandidatesFetched ==
    /\ at = "candidate_fetch"
    /\ reply # Pending
    /\ IF reply = Failed
       THEN UNCHANGED <<running, task, claimed, retry>>
       ELSE \E order \in Orders(DOMAIN reply), D, F \in SUBSET Issues :
              /\ Pass(order, D, F, reply)
              /\ \E g \in [D -> Gens] :
                   /\ \A i \in D : g[i] \in FreeGens(i)
                   /\ Dispatch(D, F, g, 0, reply)
    /\ EndTick(resched)
    /\ UNCHANGED <<limit, mailbox, stop, awaited>>

\* _handle_retry_timer up to the fetch.  The command names only the issue: it
\* pops whatever entry is there now.
HandleRetryFired ==
    /\ Receive("fired")
    /\ LET i == Head(mailbox).issue
       IN  /\ retry' = [retry EXCEPT ![i] = None]
           /\ claimed' = IF retry[i] # None /\ closing THEN claimed \ {i} ELSE claimed
           /\ IF retry[i] = None \/ closing
              THEN UNCHANGED loopVars
              ELSE Suspend("retry_fetch", i, retry[i].attempt, {}, Pending, FALSE)
    /\ UNCHANGED <<running, limit, task, tickArmed>>

ClaimKept(i) ==
    /\ retry' = [retry EXCEPT ![i] = None]
    /\ UNCHANGED <<running, task, claimed>>
\* _release_claim
Release(i) ==
    /\ claimed' = claimed \ {i}
    /\ retry' = [retry EXCEPT ![i] = None]
    /\ UNCHANGED <<running, task>>

Requeue(i) ==
    /\ retry' = ScheduleRetry({i}, [j \in {i} |-> NextAttempt(handAttempt)], retry)
    /\ claimed' = ClaimForRetry({i}, claimed)
    /\ UNCHANGED <<running, task>>

RedispatchAsFirst(i) ==
    \E g \in FreeGens(i) : Dispatch({i}, {}, [j \in {i} |-> g], 0, reply)
\* _dispatch_issue after a retry: the spawn works or raises.
Redispatch(i) ==
    \E g \in FreeGens(i) :
        \/ Dispatch({i}, {}, [j \in {i} |-> g], handAttempt, reply)
        \/ Dispatch({}, {i}, [j \in {i} |-> g], handAttempt, reply)

\* The rest of _handle_retry_timer; a terminal issue is cleaned up first.
RetryFetched ==
    /\ at = "retry_fetch"
    /\ reply # Pending
    /\ LET i == hand
       IN  \/ /\ reply = Failed
             /\ Requeue(i) /\ Settle
          \/ /\ reply # Failed /\ IsTerminal(reply[i])
             /\ Suspend("retry_clean", i, handAttempt, {}, reply, FALSE)
             /\ UNCHANGED <<running, claimed, retry, task>>
          \/ /\ reply # Failed /\ ~IsTerminal(reply[i])
             /\ ~(Eligible(reply[i]) /\ i \notin Running)
             /\ Release(i) /\ Settle
          \/ /\ reply # Failed /\ Eligible(reply[i]) /\ i \notin Running
             /\ IF HasSlotFor(reply[i], {}, reply) THEN Redispatch(i) ELSE Requeue(i)
             /\ Settle
    /\ UNCHANGED <<limit, mailbox, tickArmed, stop, awaited>>

RetryCleaned ==
    /\ at = "retry_clean"
    /\ Release(hand)
    /\ Settle
    /\ UNCHANGED <<limit, mailbox, tickArmed, stop, awaited>>

\* _handle_worker_exit: only the exit of the recorded task counts.
HandleWorkerExit ==
    /\ Receive("exit")
    /\ LET w == Head(mailbox).task
           i == w[1]
       IN  /\ task' = [task EXCEPT ![w] = "free"]
           /\ IF IsCurrent(w)
              THEN /\ running' = [running EXCEPT ![i] = None]
                   /\ retry' = ScheduleRetry({i}, [j \in {i} |->
                         IF Head(mailbox).normal THEN 1
                         ELSE NextAttempt(running[i].attempt)], retry)
                   /\ claimed' = ClaimForRetry({i}, claimed)
              ELSE UNCHANGED <<running, retry, claimed>>
    /\ UNCHANGED <<limit, tickArmed, loopVars>>

\* _handle_apply_config; an armed tick timer is re-armed and stays armed.
HandleApplyConfig ==
    /\ Receive("config")
    /\ limit' = Head(mailbox).limit
    /\ UNCHANGED <<running, claimed, retry, task, tickArmed, loopVars>>

StopSkipped ==
    Receive("stop") /\ UNCHANGED <<stateVars, task, tickArmed, loopVars>>

\* The loop ends at _Stop; what was queued behind it is never read.
HandleStop ==
    /\ Receive("stop")
    /\ at' = "halted"
    /\ UNCHANGED <<stateVars, task, tickArmed,
                   hand, handAttempt, todo, reply, resched>>

-----------------------------------------------------------------------------
(* start() has validated, cleaned terminal workspaces and queued one tick. *)
Init ==
    /\ running = [i \in Issues |-> None]
    /\ claimed = {}
    /\ retry = [i \in Issues |-> None]
    /\ limit \in Limits
    /\ task = [w \in Task |-> "free"]
    /\ mailbox = <<Tick(TRUE)>>
    /\ tickArmed = FALSE
    /\ stop = "none"
    /\ awaited = {}
    /\ at = "get"
    /\ hand = None
    /\ handAttempt = 0
    /\ todo = {}
    /\ reply = Pending
    /\ resched = FALSE

Loop ==
    \/ HandleTick \/ ReconcileFetched \/ ReconcileCleaned \/ CandidatesFetched
    \/ HandleRetryFired \/ RetryFetched \/ RetryCleaned
    \/ HandleWorkerExit \/ HandleApplyConfig \/ HandleStop

Environment ==
    \/ TrackerAnswers \/ TrackerFails
    \/ TickTimerFires
    \/ \E i \in Issues : RetryTimerFires(i)
    \/ \E w \in Task : WorkerFinishes(w) \/ WorkerUnwinds(w)

Callers == RequestTick \/ RequestConfig \/ CallStop \/ StopReturns

\* After stop() returned nothing has to happen any more.
Stopped == stop = "returned" /\ UNCHANGED vars

Next == Loop \/ Environment \/ Callers \/ Stopped

Spec == Init /\ [][Next]_vars

\* The event loop is fair to its tasks and timers; every await of the loop is
\* bounded by its own timeout, so requests and cleanups end, and a cancelled
\* worker unwinds.  A worker nobody cancels may run for ever: the turn timeout
\* bounds the silence between two messages of the agent, not the turn.
\* Only the last two conjuncts trust the tracker: a request repeated forever
\* is not refused forever.
Fairness ==
    /\ WF_vars(Loop)
    /\ WF_vars(TrackerAnswers \/ TrackerFails)
    /\ WF_vars(TickTimerFires)
    /\ \A i \in Issues : WF_vars(RetryTimerFires(i))
    /\ \A w \in Task : WF_vars(WorkerUnwinds(w))
    /\ WF_vars(StopReturns)
    /\ SF_vars(at = "reconcile_fetch" /\ TrackerAnswers)
    /\ \A i \in Issues : SF_vars(at = "retry_fetch" /\ hand = i /\ TrackerAnswers)

FairSpec == Spec /\ Fairness

-----------------------------------------------------------------------------
(* Properties *)

\* The shape of every variable.
TypeOK ==
    /\ running \in [Issues -> RunningEntry \cup {None}]
    /\ claimed \in SUBSET Issues
    /\ retry \in [Issues -> RetryEntry \cup {None}]
    /\ limit \in Limits
    /\ task \in [Task -> {"free", "live", "unwinding", "exited"}]
    /\ mailbox \in Seq(Command)
    /\ tickArmed \in BOOLEAN
    /\ stop \in {"none", "called", "returned"}
    /\ awaited \in SUBSET Task
    /\ at \in Points
    /\ hand \in Issues \cup {None}
    /\ handAttempt \in Attempts
    /\ todo \in SUBSET Issues
    /\ reply \in Snapshots \cup {Pending, Failed}
    /\ resched \in BOOLEAN

Held == {hand} \ {None}

\* While the service is open an issue is claimed exactly when it is running,
\* waits for a retry, or is in the hand of the suspended handler, and only one
\* of the three: no claim is leaked (an issue never worked again) and none is
\* missing (an issue dispatched twice).
ClaimsAccounted ==
    /\ Running \cap RetryQueued = {}
    /\ Held \cap (Running \cup RetryQueued) = {}
    /\ ~closing => claimed = Running \cup RetryQueued \cup Held

Fires(i) == {k \in DOMAIN mailbox : mailbox[k] = RetryFired(i)}
Exits(w) == {k \in DOMAIN mailbox :
                mailbox[k].type = "exit" /\ mailbox[k].task = w}

\* _RetryFired carries no generation.  It is safe because, while the service
\* is open, a queued firing always belongs to the entry now in
\* retry_attempts, and that entry's timer fired exactly once: a firing can
\* neither consume a younger entry nor get lost and strand the claim.
FiringsMatchEntries ==
    ~closing =>
        \A i \in Issues :
            /\ (retry[i] # None /\ retry[i].timer = "fired")
                  <=> \E k \in DOMAIN mailbox : mailbox[k] = RetryFired(i)
            /\ \A k, l \in DOMAIN mailbox :
                  mailbox[k] = RetryFired(i) /\ mailbox[l] = RetryFired(i) => k = l

ExitQueued(w) == \E k \in DOMAIN mailbox :
                    mailbox[k].type = "exit" /\ mailbox[k].task = w

\* Workers and entries stay together: a live task that nobody cancelled is the
\* one its issue's entry records, and, until the service closes, the task of an
\* entry is live or its exit waits in the mailbox.  So no worker runs
\* unwatched and no slot is held by a dead one.
RunningIsWatched ==
    /\ \A w \in Task : task[w] = "live" => IsCurrent(w)
    /\ ~closing =>
         \A i \in Running :
            task[TaskOf(i)] = "live" \/
            (task[TaskOf(i)] = "exited" /\ ExitQueued(TaskOf(i)))

\* The poll chain never breaks: while the service is open the tick timer is
\* armed, a rescheduling tick is queued, or one is being handled, whatever
\* fetch, validation, reload or manual tick came in between.
PollChainAlive ==
    ~closing =>
        \/ tickArmed
        \/ \E k \in DOMAIN mailbox : mailbox[k] = Tick(TRUE)
        \/ resched

StartsFit ==
    \A i \in Running' \ Running :
        /\ Cardinality(Running') <= limit
        /\ CountIn(running', running'[i].state) <= StateLimit(running'[i].state)
PassedOver(i) == i \notin Running' /\ retry'[i] = None
NoneLeftOut ==
    \A i \in DOMAIN reply :
        Eligible(reply[i]) /\ Free(i) /\ FreeGens(i) # {} /\ PassedOver(i) =>
            \/ Cardinality(Running') >= limit
            \/ CountIn(running', reply[i]) >= StateLimit(reply[i])

\* However many workers one pass or one retry starts, in whatever order and
\* with whichever spawns failing, all of them together fit the limits of that
\* moment, the global one and the one of each tracked state; and a pass leaves
\* a candidate out only when one of its two limits is used up: no candidate of
\* a full state keeps those behind it waiting.
StartsFillSlots ==
    [][/\ StartsFit
       /\ at = "candidate_fetch" /\ at' = "get" /\ reply # Failed /\ ~closing
             => NoneLeftOut]_vars

\* A tick or a retry never replaces the worker of a running issue, and takes a
\* claimed issue only when the handler itself holds that claim.
StartsTakeFreeIssues ==
    [][\A i \in Issues : running'[i] # None =>
          \/ running[i] # None /\ running'[i].gen = running[i].gen
          \/ running[i] = None /\ (i \notin claimed \/ hand = i)]_vars

AttemptOf(i) ==
    IF i \in Running THEN running[i].attempt
    ELSE IF i \in RetryQueued THEN retry[i].attempt
    ELSE IF hand = i THEN handAttempt ELSE 0
EndsNormally(i) ==
    /\ at = "get" /\ mailbox # <<>> /\ mailbox' = Tail(mailbox)
    /\ Head(mailbox).type = "exit" /\ Head(mailbox).normal
    /\ Head(mailbox).task[1] = i

\* As long as an issue stays claimed its attempt number, which sets the
\* backoff, never falls except through a normal worker exit: not by a stall, a
\* failed refresh, a missing slot, a failed spawn or a re-dispatch.
BackoffNeverResets ==
    [][\A i \in claimed \cap claimed' :
          \/ AttemptOf(i)' >= AttemptOf(i)
          \/ EndsNormally(i)
          \/ closing'
          \/ at' = "reconcile_clean" /\ hand' = i]_vars

(* Statements of the documentation that the code does not keep *)

\* stop() "stops accepting new dispatches": no worker starts once it was called.
\* A handler suspended in a fetch at that moment does not look at _closing again.
NoDispatchAfterStop == [][closing => Running' \subseteq Running]_vars

\* "Never two workers for one issue": terminate_running_issue gives the claim
\* back while the cancelled task still unwinds.
OneWorkerPerIssue ==
    \A i \in Issues :
        Cardinality({g \in Gens : task[<<i, g>>] \in {"live", "unwinding"}}) <= 1

\* stop() "drains the mailbox": no apply_config() is left behind _Stop, where
\* its caller would wait forever.
StopDrainsReloads == stop = "returned" => Queued("config") = {}

(* Liveness *)

\* stop() always returns, wherever the loop was suspended when it was called.
StopTerminates == stop = "called" ~> stop = "returned"

\* Until stop() the service keeps polling.
PollingGoesOn == []<>(closing \/ \E k \in DOMAIN mailbox : mailbox[k] = Tick(TRUE))

\* Every answer about i says it is finished.
SeenTerminal(i) == i \in DOMAIN reply => IsTerminal(reply[i])

\* An issue the tracker shows as terminal from some moment on is given up for
\* good, though it was running, queued for a retry, being fetched or stalled.
TerminalIsReleased ==
    \A i \in Issues :
        <>[](reply \notin {Pending, Failed} => SeenTerminal(i))
            => <>[](closing \/ i \notin claimed)

-----------------------------------------------------------------------------
(* Refinement *)

\* OrchestratorState.claim_state
ClaimOf(i) ==
    IF i \in Running THEN "Running"
    ELSE IF i \in RetryQueued THEN "RetryQueued"
    ELSE IF i \in claimed THEN "Claimed" ELSE "Unclaimed"

Lifecycle == INSTANCE ClaimLifecycle
                WITH claim <- [i \in Issues |-> ClaimOf(i)], open <- ~closing

\* Seen through claim_state, the mailbox, the timers and the interleavings of
\* workers and callers only ever produce the moves of ClaimLifecycle.
ImplementsLifecycle == Lifecycle!Spec

=============================================================================
