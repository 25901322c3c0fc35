-------------------------- MODULE LifecycleProofs ---------------------------
(***************************************************************************)
(* What a step of Orchestrator does to one issue, and the theorems that    *)
(* follow from it: the match of timers and entries, the watch on workers,  *)
(* the poll chain, the action properties and the refinement of             *)
(* ClaimLifecycle.                                                         *)
(***************************************************************************)
EXTENDS OrchestratorProofs, FiniteSetTheorems, WellFoundedInduction

-----------------------------------------------------------------------------
(* The effects a step can have on an issue                                 *)

Armed(a) == [attempt |-> a, timer |-> "armed"]
ClaimSame(i) == i \in claimed' <=> i \in claimed

\* Nothing happens to the issue; if it is in hand it stays there.
Kept(i) ==
    /\ running'[i] = running[i] /\ retry'[i] = retry[i] /\ ClaimSame(i)
    /\ hand = i => hand' = i /\ handAttempt' = handAttempt

\* Reconciliation takes over the state the tracker shows.
Refreshed(i) ==
    /\ i \in Running
    /\ \E s \in TrackerStates : running'[i] = [running[i] EXCEPT !.state = s]
    /\ retry'[i] = retry[i] /\ ClaimSame(i)

\* The timer of its entry is due.
TimerDue(i) ==
    /\ running'[i] = running[i] /\ ClaimSame(i)
    /\ hand = i => hand' = i /\ handAttempt' = handAttempt
    /\ retry[i] # None /\ retry[i].timer = "armed"
    /\ retry'[i] = [retry[i] EXCEPT !.timer = "fired"]
    /\ mailbox' = Append(mailbox, RetryFired(i))

\* schedule_retry: a new entry with its timer, unless the service is closing.
Scheduled(i, least) ==
    /\ running'[i] = None
    /\ IF closing
       THEN retry'[i] = None /\ i \notin claimed'
       ELSE /\ \E a \in Attempts \ {0} : a >= least /\ retry'[i] = Armed(a)
            /\ i \in claimed'

\* Its worker exited or stalled: it will be tried again.
Retried(i) ==
    /\ i \in Running
    /\ Scheduled(i, IF EndsNormally(i) THEN 0 ELSE running[i].attempt)

\* It runs no longer, and reconciliation gives up its claim.
Dropped(i) ==
    /\ i \in Running
    /\ running'[i] = None /\ retry'[i] = None /\ i \notin claimed'

\* It runs no longer, and its workspace is being cleaned up.
Cleaning(i) ==
    /\ i \in Running
    /\ running'[i] = None /\ retry'[i] = retry[i] /\ ClaimSame(i)
    /\ at' = "reconcile_clean" /\ hand' = i

\* The handler may work on the issue: it holds it, or nobody has claimed it.
Takes(i) == i \notin Running /\ (hand = i \/ i \notin claimed)

Started(i) ==
    /\ Takes(i)
    /\ running'[i] \in RunningEntry
    /\ hand = i => running'[i].attempt = handAttempt
    /\ retry'[i] = None /\ i \in claimed'

\* No slot, a failed refresh or a spawn that raised.
Requeued(i) == Takes(i) /\ Scheduled(i, IF hand = i THEN handAttempt ELSE 0)

\* The handler of its timer takes the entry out.
Popped(i) ==
    /\ retry[i] # None /\ running'[i] = running[i] /\ retry'[i] = None
    /\ mailbox # <<>> /\ Head(mailbox) = RetryFired(i) /\ mailbox' = Tail(mailbox)
    /\ IF closing THEN i \notin claimed'
       ELSE ClaimSame(i) /\ hand' = i /\ handAttempt' = retry[i].attempt

Released(i) ==
    /\ hand = i
    /\ running'[i] = running[i] /\ retry'[i] = None /\ i \notin claimed'

Effect(i) ==
    \/ Kept(i) \/ Refreshed(i) \/ TimerDue(i) \/ Retried(i) \/ Dropped(i)
    \/ Cleaning(i) \/ Started(i) \/ Requeued(i) \/ Popped(i) \/ Released(i)

-----------------------------------------------------------------------------
(* One lemma per action                                                    *)

\* schedule_retry seen from one issue.
LEMMA ScheduledByRetry ==
    ASSUME NEW S \in SUBSET Issues, NEW att, NEW rest, NEW i \in S, NEW least,
           att[i] \in Attempts \ {0}, att[i] >= least,
           running'[i] = None,
           retry' = ScheduleRetry(S, att, rest),
           IF closing THEN i \notin claimed' ELSE i \in claimed'
    PROVE  Scheduled(i, least)
BY DEF ScheduleRetry, Scheduled, Armed

LEMMA NextAttemptGrows ==
    ASSUME NEW a \in Attempts
    PROVE  NextAttempt(a) \in Attempts \ {0} /\ NextAttempt(a) >= a
BY AttemptAssumption DEF NextAttempt, Attempts

LEMMA HandleTickEffect ==
    ASSUME TypeInv, HandleTick, NEW i \in Issues
    PROVE  Effect(i)
<1>1. PICK S \in SUBSET Running :
         /\ running' = Without(S, running)
         /\ task' = Cancelled(S)
         /\ retry' = ScheduleRetry(S, [j \in S |-> NextAttempt(running[j].attempt)],
                                   Without(S, retry))
         /\ claimed' = ClaimForRetry(S, claimed \ S)
         /\ IF Running \ S = {}
            THEN AfterReconcile(Head(mailbox).reschedule)
            ELSE /\ Suspend("reconcile_fetch", None, 0, Running \ S, Pending,
                            Head(mailbox).reschedule)
                 /\ UNCHANGED tickArmed
    BY DEF HandleTick
<1>2. hand # i
    BY NoneFacts DEF HandleTick, Receive, TypeInv, HandlerFits
<1>3. CASE i \in S
    <2> DEFINE att == [j \in S |-> NextAttempt(running[j].attempt)]
    <2>1. running[i].attempt \in Attempts
        BY <1>3 DEF Running, TypeInv, TypeOK, RunningEntry
    <2>2. att[i] \in Attempts \ {0} /\ att[i] >= running[i].attempt /\ att[i] >= 0
        BY <1>3, <2>1, NextAttemptGrows DEF Attempts
    <2>3. S \in SUBSET Issues /\ retry' = ScheduleRetry(S, att, Without(S, retry))
        BY <1>1 DEF Running
    <2>4. running'[i] = None /\ IF closing THEN i \notin claimed' ELSE i \in claimed'
        BY <1>1, <1>3 DEF Without, ClaimForRetry
    <2> HIDE DEF att
    <2>5. Scheduled(i, IF EndsNormally(i) THEN 0 ELSE running[i].attempt)
        BY <1>3, <2>2, <2>3, <2>4, ScheduledByRetry
    <2>. QED
        BY <1>3, <2>5 DEF Retried, Effect
<1>4. CASE i \notin S
    <2>1. running'[i] = running[i] /\ retry'[i] = retry[i] /\ ClaimSame(i)
        BY <1>1, <1>4 DEF Without, ScheduleRetry, ClaimForRetry, ClaimSame
    <2>. QED
        BY <1>2, <2>1 DEF Kept, Effect
<1>. QED
    BY <1>3, <1>4

\* One stretch of reconciliation, after which the issue of ending is in hand.
LEMMA ApplyDecisionsEffect ==
    ASSUME TypeInv, reply \in Snapshots, NEW P \in SUBSET Running, P \subseteq DOMAIN reply,
           NEW ending \in SUBSET Running, P \cap ending = {},
           ApplyDecisions(P, ending, Held), NEW i \in Issues,
           \A t \in ending : at' = "reconcile_clean" /\ hand' = t,
           ClaimsAccounted
    PROVE  Effect(i)
<1> DEFINE drop == {j \in P : ~IsActive(reply[j])}
<1>1. running'[i] = IF i \in drop \cup ending THEN None
                    ELSE IF i \in P THEN [running[i] EXCEPT !.state = reply[i]]
                    ELSE running[i]
    BY DEF ApplyDecisions
<1>2. claimed' = claimed \ (Held \cup drop) /\ retry' = Without(Held \cup drop, retry)
    BY DEF ApplyDecisions
<1>3. Held \cap Running = {}
    BY DEF ClaimsAccounted
<1>4. CASE i \in drop
    BY <1>1, <1>2, <1>4 DEF Without, Dropped, Effect
<1>5. CASE i \in ending
    <2>1. i \notin drop /\ i \notin Held /\ i \in Running
        BY <1>3, <1>5
    <2>. QED
        BY <1>1, <1>2, <1>5, <2>1 DEF Without, Cleaning, ClaimSame, Effect
<1>6. CASE i \in P /\ i \notin drop
    <2>1. i \notin ending /\ i \notin Held /\ i \in Running
        BY <1>3, <1>6
    <2>2. reply[i] \in TrackerStates
        BY <1>6, SnapshotType
    <2>. QED
        BY <1>1, <1>2, <1>6, <2>1, <2>2 DEF Without, Refreshed, ClaimSame, Effect
<1>7. CASE i \notin P /\ i \notin ending /\ i \in Held
    <2>1. hand = i
        BY <1>7 DEF Held
    <2>. QED
        BY <1>1, <1>2, <1>7, <2>1 DEF Without, Released, Effect
<1>8. CASE i \notin P /\ i \notin ending /\ i \notin Held
    <2>1. hand # i
        BY <1>8, NoneFacts DEF Held
    <2>. QED
        BY <1>1, <1>2, <1>8, <2>1 DEF Without, Kept, ClaimSame, Effect
<1>. QED
    BY <1>4, <1>5, <1>6, <1>7, <1>8

LEMMA ReconcileRunEffect ==
    ASSUME TypeInv, ClaimsAccounted, reply \in Snapshots, NEW ids \in SUBSET Issues,
           ids \subseteq DOMAIN reply, ReconcileRun(ids, Held), NEW i \in Issues
    PROVE  Effect(i)
<1> DEFINE known == ids \cap Running
           terminal == {j \in known : IsTerminal(reply[j])}
<1>1. CASE ApplyDecisions(known, {}, Held)
    BY <1>1, ApplyDecisionsEffect
<1>2. ASSUME NEW t \in terminal, NEW P \in SUBSET (known \ terminal),
             ApplyDecisions(P, {t}, Held),
             Suspend("reconcile_clean", t, 0, ids \ (P \cup {t}), reply, resched)
      PROVE  Effect(i)
    <2>1. \A u \in {t} : at' = "reconcile_clean" /\ hand' = u
        BY <1>2 DEF Suspend
    <2>2. /\ P \in SUBSET Running /\ P \subseteq DOMAIN reply
          /\ {t} \in SUBSET Running /\ P \cap {t} = {}
        BY <1>2
    <2>. QED
        BY <1>2, <2>1, <2>2, ApplyDecisionsEffect
<1>. QED
    BY <1>1, <1>2 DEF ReconcileRun

LEMMA ReconcileEffect ==
    ASSUME TypeInv, ClaimsAccounted, ReconcileFetched \/ ReconcileCleaned, NEW i \in Issues
    PROVE  Effect(i)
<1>1. CASE ReconcileFetched /\ reply = Failed
    <2>1. hand # i /\ UNCHANGED <<running, retry, claimed>>
        BY <1>1, NoneFacts DEF ReconcileFetched, TypeInv, HandlerFits
    <2>. QED
        BY <2>1 DEF Kept, ClaimSame, Effect
<1>2. CASE ReconcileFetched /\ reply # Failed
    <2>1. reply \in Snapshots /\ todo \subseteq DOMAIN reply /\ todo \in SUBSET Issues
        BY <1>2 DEF ReconcileFetched, TypeInv, TypeOK, HandlerFits
    <2>2. Held = {}
        BY <1>2 DEF ReconcileFetched, TypeInv, HandlerFits, Held
    <2>3. ReconcileRun(todo, Held)
        BY <1>2, <2>2 DEF ReconcileFetched
    <2>. QED
        BY <2>1, <2>3, ReconcileRunEffect
<1>3. CASE ReconcileCleaned
    <2>1. reply \in Snapshots /\ todo \subseteq DOMAIN reply /\ todo \in SUBSET Issues
        BY <1>3 DEF ReconcileCleaned, TypeInv, TypeOK, HandlerFits
    <2>2. Held = {hand}
        BY <1>3 DEF ReconcileCleaned, TypeInv, HandlerFits, Held
    <2>3. ReconcileRun(todo, Held)
        BY <1>3, <2>2 DEF ReconcileCleaned
    <2>. QED
        BY <2>1, <2>3, ReconcileRunEffect
<1>. QED
    BY <1>1, <1>2, <1>3

\* One round of dispatches: D is started, F goes to the retry queue.
LEMMA DispatchEffect ==
    ASSUME TypeInv, NEW D \in SUBSET Issues, NEW F \in SUBSET Issues, D \cap F = {},
           NEW g, \A j \in D : g[j] \in Gens,
           NEW attempt \in Attempts, NEW snap, \A j \in D : snap[j] \in TrackerStates,
           Dispatch(D, F, g, attempt, snap),
           NEW i \in Issues,
           hand = i => attempt = handAttempt,
           i \in D \cup F => Takes(i),
           i \notin D \cup F => hand # i
    PROVE  Effect(i)
<1>1. CASE i \in D
    <2>1. running'[i] = [gen |-> g[i], attempt |-> attempt, state |-> snap[i]]
        BY <1>1 DEF Dispatch
    <2>2. running'[i] \in RunningEntry /\ running'[i].attempt = attempt
        BY <1>1, <2>1 DEF RunningEntry
    <2>3. retry'[i] = None /\ i \in claimed'
        BY <1>1 DEF Dispatch, ScheduleRetry, Without, ClaimForRetry
    <2>. QED
        BY <1>1, <2>2, <2>3 DEF Started, Effect
<1>2. CASE i \in F
    <2> DEFINE att == [j \in F |-> NextAttempt(attempt)]
    <2>1. att[i] \in Attempts \ {0} /\ att[i] >= attempt /\ att[i] >= 0
        BY <1>2, NextAttemptGrows DEF Attempts
    <2>2. retry' = ScheduleRetry(F, att, Without(D, retry))
        BY DEF Dispatch
    <2>3. running'[i] = None
        BY <1>2 DEF Dispatch, Takes, Running
    <2>4. IF closing THEN i \notin claimed' ELSE i \in claimed'
        BY <1>2 DEF Dispatch, ClaimForRetry
    <2> HIDE DEF att
    <2>5. Scheduled(i, IF hand = i THEN handAttempt ELSE 0)
        BY <1>2, <2>1, <2>2, <2>3, <2>4, ScheduledByRetry
    <2>. QED
        BY <1>2, <2>5 DEF Requeued, Effect
<1>3. CASE i \notin D \cup F
    <2>1. running'[i] = running[i] /\ retry'[i] = retry[i] /\ ClaimSame(i)
        BY <1>3 DEF Dispatch, ScheduleRetry, Without, ClaimForRetry, ClaimSame
    <2>. QED
        BY <1>3, <2>1 DEF Kept, Effect
<1>. QED
    BY <1>1, <1>2, <1>3

LEMMA CandidatesFetchedEffect ==
    ASSUME TypeInv, CandidatesFetched, NEW i \in Issues
    PROVE  Effect(i)
<1>1. hand # i
    BY NoneFacts DEF CandidatesFetched, TypeInv, HandlerFits
<1>2. CASE reply = Failed
    BY <1>1, <1>2 DEF CandidatesFetched, Kept, ClaimSame, Effect
<1>3. CASE reply # Failed
    <2>1. PICK order \in Orders(DOMAIN reply), D \in SUBSET Issues, F \in SUBSET Issues :
             /\ Pass(order, D, F, reply)
             /\ \E g \in [D -> Gens] :
                   /\ \A j \in D : g[j] \in FreeGens(j)
                   /\ Dispatch(D, F, g, 0, reply)
        BY <1>3 DEF CandidatesFetched
    <2>2. PICK g \in [D -> Gens] : Dispatch(D, F, g, 0, reply)
        BY <2>1
    <2>3. reply \in Snapshots
        BY <1>3 DEF CandidatesFetched, TypeInv, TypeOK
    <2>4. \A j \in D : reply[j] \in TrackerStates /\ g[j] \in Gens
        BY <2>1, <2>3, SnapshotType DEF Pass
    <2>5. D \cap F = {} /\ (i \in D \cup F => Takes(i))
        BY <2>1, PassTakesFree DEF Free, Takes
    <2>. QED
        BY <1>1, <2>2, <2>4, <2>5, NextAttemptType, DispatchEffect
<1>. QED
    BY <1>2, <1>3

\* A firing names nothing but its issue.
LEMMA FiringIs ==
    ASSUME NEW c \in Command, c.type = "fired"
    PROVE  c.issue \in Issues /\ c = RetryFired(c.issue)
BY DEF Command, Tick, WorkerExit, RetryFired, ApplyConfig, Stop

LEMMA HandleRetryFiredEffect ==
    ASSUME TypeInv, HandleRetryFired, NEW i \in Issues
    PROVE  Effect(i)
<1> DEFINE j == Head(mailbox).issue
<1>1. j \in Issues /\ hand # i /\ Head(mailbox) = RetryFired(j)
    BY HeadType, FiringIs, NoneFacts
       DEF HandleRetryFired, Receive, TypeInv, TypeOK, HandlerFits
<1>2. /\ retry' = [retry EXCEPT ![j] = None] /\ running' = running
      /\ claimed' = IF retry[j] # None /\ closing THEN claimed \ {j} ELSE claimed
      /\ ~(retry[j] = None \/ closing) =>
            Suspend("retry_fetch", j, retry[j].attempt, {}, Pending, FALSE)
      /\ mailbox # <<>> /\ mailbox' = Tail(mailbox)
    BY DEF HandleRetryFired, Receive
<1> HIDE DEF j
<1>3. CASE i = j /\ retry[i] # None
    BY <1>1, <1>2, <1>3 DEF Suspend, Popped, ClaimSame, Effect, TypeInv, TypeOK
<1>4. CASE i # j \/ retry[i] = None
    <2>1. retry'[i] = retry[i] /\ ClaimSame(i)
        BY <1>1, <1>2, <1>4 DEF ClaimSame, TypeInv, TypeOK
    <2>. QED
        BY <1>1, <1>2, <2>1 DEF Kept, Effect
<1>. QED
    BY <1>3, <1>4

\* What the rest of the retry handler does to the issue in its hand.
LEMMA RequeueEffect ==
    ASSUME TypeInv, Requeue(hand), hand \in Issues, hand \notin Running, NEW i \in Issues
    PROVE  Effect(i)
<1>1. CASE i = hand
    <2> DEFINE att == [j \in {hand} |-> NextAttempt(handAttempt)]
    <2>1. att[i] \in Attempts \ {0} /\ att[i] >= handAttempt
        BY <1>1, NextAttemptGrows DEF TypeInv, TypeOK
    <2>2. {hand} \in SUBSET Issues /\ retry' = ScheduleRetry({hand}, att, retry)
        BY DEF Requeue
    <2>3. running'[i] = None /\ IF closing THEN i \notin claimed' ELSE i \in claimed'
        BY <1>1 DEF Requeue, ClaimForRetry, Running
    <2> HIDE DEF att
    <2>4. Scheduled(i, IF hand = i THEN handAttempt ELSE 0)
        BY <1>1, <2>1, <2>2, <2>3, ScheduledByRetry
    <2>. QED
        BY <1>1, <2>4 DEF Requeued, Takes, Effect
<1>2. CASE i # hand
    BY <1>2 DEF Requeue, ScheduleRetry, ClaimForRetry, Kept, ClaimSame, Effect
<1>. QED
    BY <1>1, <1>2

LEMMA ReleaseEffect ==
    ASSUME TypeInv, Release(hand), hand \in Issues, NEW i \in Issues
    PROVE  Effect(i)
BY DEF Release, Released, Kept, ClaimSame, Effect, TypeInv, TypeOK

LEMMA RedispatchEffect ==
    ASSUME TypeInv, Redispatch(hand), hand \in Issues, hand \notin Running,
           reply[hand] \in TrackerStates, NEW i \in Issues
    PROVE  Effect(i)
<1>1. PICK gn \in FreeGens(hand) :
        \/ Dispatch({hand}, {}, [j \in {hand} |-> gn], handAttempt, reply)
        \/ Dispatch({}, {hand}, [j \in {hand} |-> gn], handAttempt, reply)
    BY DEF Redispatch
<1> DEFINE g == [j \in {hand} |-> gn]
<1>2. /\ {hand} \in SUBSET Issues /\ {} \in SUBSET Issues
      /\ \A j \in {hand} : g[j] \in Gens /\ reply[j] \in TrackerStates
      /\ handAttempt \in Attempts
    BY DEF FreeGens, TypeInv, TypeOK
<1>3. (i \in {hand} => Takes(i)) /\ (i \notin {hand} => hand # i)
    BY DEF Takes
<1>4. Dispatch({hand}, {}, g, handAttempt, reply) \/ Dispatch({}, {hand}, g, handAttempt, reply)
    BY <1>1
<1> HIDE DEF g
<1>5. CASE Dispatch({hand}, {}, g, handAttempt, reply)
    BY <1>2, <1>3, <1>5, DispatchEffect
<1>6. CASE Dispatch({}, {hand}, g, handAttempt, reply)
    BY <1>2, <1>3, <1>6, DispatchEffect
<1>. QED
    BY <1>4, <1>5, <1>6

LEMMA RetryHandlerEffect ==
    ASSUME TypeInv, ClaimsAccounted, RetryFetched \/ RetryCleaned, NEW i \in Issues
    PROVE  Effect(i)
<1>1. hand \in Issues /\ hand \notin Running
    BY NoneFacts
       DEF RetryFetched, RetryCleaned, TypeInv, TypeOK, HandlerFits, ClaimsAccounted, Held
<1>2. CASE Release(hand)
    BY <1>1, <1>2, ReleaseEffect
<1>3. CASE Requeue(hand)
    BY <1>1, <1>3, RequeueEffect
<1>4. CASE RetryFetched /\ reply # Failed /\ Redispatch(hand)
    <2>1. reply[hand] \in TrackerStates
        BY <1>4, SnapshotType DEF RetryFetched, TypeInv, TypeOK, HandlerFits
    <2>. QED
        BY <1>1, <1>4, <2>1, RedispatchEffect
<1>5. CASE /\ Suspend("retry_clean", hand, handAttempt, {}, reply, FALSE)
           /\ UNCHANGED <<running, claimed, retry, task>>
    BY <1>5 DEF Suspend, Kept, ClaimSame, Effect
<1>. QED
    BY <1>2, <1>3, <1>4, <1>5 DEF RetryFetched, RetryCleaned

LEMMA HandleWorkerExitEffect ==
    ASSUME TypeInv, HandleWorkerExit, NEW i \in Issues
    PROVE  Effect(i)
<1> DEFINE w == Head(mailbox).task
           j == w[1]
           next == IF Head(mailbox).normal THEN 1 ELSE NextAttempt(running[j].attempt)
<1>1. w \in Task /\ j \in Issues /\ hand # i
    BY HeadType, CommandCases, NoneFacts
       DEF HandleWorkerExit, Receive, TypeInv, TypeOK, HandlerFits, Task
<1>2. CASE i = j /\ IsCurrent(w)
    <2>1. running[i].attempt \in Attempts /\ i \in Running
        BY <1>1, <1>2 DEF IsCurrent, Running, TypeInv, TypeOK, RunningEntry
    <2>2. Head(mailbox).normal => EndsNormally(i)
        BY <1>2 DEF HandleWorkerExit, Receive, EndsNormally
    <2> DEFINE att == [k \in {i} |-> next]
    <2>3. /\ att[i] \in Attempts \ {0}
          /\ att[i] >= IF EndsNormally(i) THEN 0 ELSE running[i].attempt
        BY <1>2, <2>1, <2>2, NextAttemptGrows, NextAttemptType DEF Attempts
    <2>4. /\ {i} \in SUBSET Issues /\ retry' = ScheduleRetry({i}, att, retry)
          /\ running'[i] = None
          /\ IF closing THEN i \notin claimed' ELSE i \in claimed'
        BY <1>1, <1>2 DEF HandleWorkerExit, ClaimForRetry, TypeInv, TypeOK
    <2> HIDE DEF att
    <2>5. Scheduled(i, IF EndsNormally(i) THEN 0 ELSE running[i].attempt)
        BY <2>3, <2>4, ScheduledByRetry
    <2>. QED
        BY <2>1, <2>5 DEF Retried, Effect
<1>3. CASE i # j /\ IsCurrent(w)
    <2>1. /\ running' = [running EXCEPT ![j] = None]
          /\ retry' = ScheduleRetry({j}, [k \in {j} |-> next], retry)
          /\ claimed' = ClaimForRetry({j}, claimed)
        BY <1>3 DEF HandleWorkerExit
    <2>2. running'[i] = running[i] /\ retry'[i] = retry[i] /\ ClaimSame(i)
        BY <1>3, <2>1 DEF ScheduleRetry, ClaimForRetry, ClaimSame, TypeInv, TypeOK
    <2>. QED
        BY <1>1, <2>2 DEF Kept, Effect
<1>4. CASE ~IsCurrent(w)
    BY <1>1, <1>4 DEF HandleWorkerExit, Kept, ClaimSame, Effect
<1>. QED
    BY <1>2, <1>3, <1>4

\* Outside the loop only a timer touches an issue; stop() is apart.
LEMMA OutsideEffect ==
    ASSUME TypeInv, Environment \/ Callers, ~CallStop, NEW i \in Issues
    PROVE  Effect(i)
<1>1. ASSUME UNCHANGED <<running, retry, claimed, hand, handAttempt>> PROVE Effect(i)
    BY <1>1 DEF Kept, ClaimSame, Effect
<1>2. CASE TrackerAnswers \/ TrackerFails
    BY <1>1, <1>2 DEF TrackerAnswers, TrackerFails, Answer, stateVars
<1>3. CASE TickTimerFires \/ RequestTick \/ RequestConfig \/ StopReturns
    BY <1>1, <1>3 DEF TickTimerFires, RequestTick, ArmTickTimer, RequestConfig, Post,
                      StopReturns, stateVars, loopVars
<1>4. ASSUME NEW j \in Issues, RetryTimerFires(j) PROVE Effect(i)
    <2>1. CASE i = j
        BY <1>4, <2>1 DEF RetryTimerFires, loopVars, TimerDue, ClaimSame, Effect,
                          TypeInv, TypeOK, RetryEntry
    <2>2. CASE i # j
        BY <1>4, <2>2 DEF RetryTimerFires, loopVars, Kept, ClaimSame, Effect,
                          TypeInv, TypeOK
    <2>. QED
        BY <2>1, <2>2
<1>5. ASSUME NEW w \in Task, NEW ok \in BOOLEAN, TaskEnds(w, ok) PROVE Effect(i)
    BY <1>1, <1>5 DEF TaskEnds, stateVars, loopVars
<1>. QED
    BY <1>2, <1>3, <1>4, <1>5 DEF Environment, Callers, WorkerFinishes, WorkerUnwinds

\* Every step but the call of stop() has one of the effects on each issue.
LEMMA StepEffect ==
    ASSUME TypeInv, ClaimsAccounted, [Next]_vars, ~CallStop, NEW i \in Issues
    PROVE  Effect(i)
<1>1. ASSUME UNCHANGED <<running, retry, claimed, hand, handAttempt>> PROVE Effect(i)
    BY <1>1 DEF Kept, ClaimSame, Effect
<1>2. CASE HandleApplyConfig \/ HandleStop \/ UNCHANGED vars
    BY <1>1, <1>2 DEF HandleApplyConfig, HandleStop, vars, stateVars, loopVars
<1>3. CASE Loop
    BY <1>2, <1>3, HandleTickEffect, ReconcileEffect, CandidatesFetchedEffect,
       HandleRetryFiredEffect, RetryHandlerEffect, HandleWorkerExitEffect DEF Loop
<1>4. CASE Environment \/ Callers
    BY <1>4, OutsideEffect
<1>. QED
    BY <1>2, <1>3, <1>4 DEF Next, Stopped

-----------------------------------------------------------------------------
(* Action properties                                                       *)

\* Once called, stop() is not taken back.
LEMMA ClosingStays ==
    ASSUME TypeInv, [Next]_vars, closing
    PROVE  closing'
<1>1. stop' = stop \/ stop' \in {"called", "returned"}
    BY DEF Next, Loop, Environment, Callers, Stopped, HandleTick, ReconcileFetched,
           ReconcileCleaned, CandidatesFetched, HandleRetryFired, RetryFetched, RetryCleaned,
           HandleWorkerExit, HandleApplyConfig, HandleStop, Receive, TrackerAnswers,
           TrackerFails, Answer, TickTimerFires, RetryTimerFires, WorkerFinishes,
           WorkerUnwinds, TaskEnds, RequestTick, ArmTickTimer, RequestConfig, Post, CallStop,
           StopReturns, vars
<1>. QED
    BY <1>1 DEF closing

\* A tick or a retry never replaces the worker of a running issue, and takes a
\* claimed issue only when the handler itself holds that claim.
LEMMA StartsTakeFreeIssuesStep ==
    ASSUME TypeInv, ClaimsAccounted, [Next]_vars, NEW i \in Issues, running'[i] # None
    PROVE  \/ running[i] # None /\ running'[i].gen = running[i].gen
           \/ running[i] = None /\ (i \notin claimed \/ hand = i)
<1>1. CASE CallStop
    BY <1>1 DEF CallStop
<1>2. CASE ~CallStop
    <2>1. Effect(i)
        BY <1>2, StepEffect
    <2>2. CASE Refreshed(i)
        <3>1. running[i] \in RunningEntry
            BY <2>2 DEF Refreshed, Running, TypeInv, TypeOK
        <3>. QED
            BY <2>2, <3>1 DEF Refreshed, Running, RunningEntry
    <2>3. CASE Started(i)
        BY <2>3 DEF Started, Takes, Running
    <2>4. CASE running'[i] = running[i]
        BY <2>4
    <2>. QED
        BY <2>1, <2>2, <2>3, <2>4
           DEF Effect, Kept, TimerDue, Retried, Scheduled, Dropped, Cleaning, Requeued,
               Popped, Released
<1>. QED
    BY <1>1, <1>2

\* No step of the loop replaces a worker that is still recorded, and none takes
\* an issue whose claim is not its own: for every number of issues.
THEOREM StartsAreOfFreeIssues == Spec => StartsTakeFreeIssues
<1>1. TypeInv /\ ClaimsAccounted /\ [Next]_vars =>
        [\A i \in Issues : running'[i] # None =>
            \/ running[i] # None /\ running'[i].gen = running[i].gen
            \/ running[i] = None /\ (i \notin claimed \/ hand = i)]_vars
    BY StartsTakeFreeIssuesStep
<1>. QED
    BY <1>1, TypeInvariant, ClaimsAreAccounted, PTL DEF Spec, StartsTakeFreeIssues

\* Attempt numbers are numbers, before and after a step.
LEMMA AttemptOfType ==
    ASSUME TypeInv, TypeInv', NEW i \in Issues
    PROVE  AttemptOf(i) \in Nat /\ AttemptOf(i)' \in Nat
<1>1. AttemptOf(i) \in Nat
    BY DEF AttemptOf, Running, RetryQueued, Attempts, RunningEntry, RetryEntry, TypeInv, TypeOK
<1>2. AttemptOf(i)' \in Nat
    BY DEF AttemptOf, Running, RetryQueued, Attempts, RunningEntry, RetryEntry, TypeInv, TypeOK
<1>. QED
    BY <1>1, <1>2

\* The attempt number of a claimed issue over one step.
LEMMA BackoffStep ==
    ASSUME TypeInv, ClaimsAccounted, [Next]_vars, TypeInv', ClaimsAccounted',
           NEW i \in claimed, i \in claimed', ~closing'
    PROVE  \/ AttemptOf(i)' >= AttemptOf(i)
           \/ EndsNormally(i)
           \/ at' = "reconcile_clean" /\ hand' = i
<1>1. i \in Issues /\ ~closing /\ ~CallStop
    BY ClosingStays DEF CallStop, closing, TypeInv, TypeOK
<1>2. Effect(i)
    BY <1>1, StepEffect
<1>3. AttemptOf(i) \in Nat /\ AttemptOf(i)' \in Nat
    BY <1>1, AttemptOfType
<1>4. /\ ~(i \in Running /\ i \in RetryQueued)
      /\ hand = i => i \notin Running /\ i \notin RetryQueued
      /\ hand' = i => i \notin Running' /\ i \notin RetryQueued'
    BY <1>1, NoneFacts DEF ClaimsAccounted, Held
<1>5. CASE Kept(i)
    <2>1. (i \in Running' <=> i \in Running) /\ (i \in RetryQueued' <=> i \in RetryQueued)
        BY <1>1, <1>5 DEF Kept, Running, RetryQueued
    <2>2. CASE i \in Running \/ i \in RetryQueued
        BY <1>3, <1>5, <2>1, <2>2 DEF Kept, AttemptOf
    <2>3. CASE i \notin Running /\ i \notin RetryQueued /\ hand = i
        BY <1>3, <1>5, <2>1, <2>3 DEF Kept, AttemptOf
    <2>4. CASE i \notin Running /\ i \notin RetryQueued /\ hand # i
        BY <1>3, <2>4 DEF AttemptOf
    <2>. QED
        BY <2>2, <2>3, <2>4
<1>6. CASE Refreshed(i)
    <2>1. running[i] \in RunningEntry
        BY <1>6 DEF Refreshed, Running, TypeInv, TypeOK
    <2>2. running'[i] # None /\ running'[i].attempt = running[i].attempt
        BY <1>6, <2>1, NoneFacts DEF Refreshed, RunningEntry
    <2>3. AttemptOf(i)' = AttemptOf(i)
        BY <1>1, <1>6, <2>2 DEF Refreshed, AttemptOf, Running
    <2>. QED
        BY <1>3, <2>3
<1>7. CASE TimerDue(i)
    <2>1. retry[i] \in RetryEntry
        BY <1>1, <1>7 DEF TimerDue, TypeInv, TypeOK
    <2>2. retry'[i] # None /\ retry'[i].attempt = retry[i].attempt
        BY <1>7, <2>1, NoneFacts DEF TimerDue, RetryEntry
    <2>3. AttemptOf(i)' = AttemptOf(i)
        BY <1>1, <1>4, <1>7, <2>2 DEF TimerDue, AttemptOf, Running, RetryQueued
    <2>. QED
        BY <1>3, <2>3
<1>8. ASSUME NEW least \in Nat, Scheduled(i, least)
      PROVE  AttemptOf(i)' >= least
    <2>1. PICK a \in Attempts \ {0} : a >= least /\ retry'[i] = Armed(a)
        BY <1>1, <1>8 DEF Scheduled
    <2>2. retry'[i] \in RetryEntry /\ retry'[i].attempt = a
        BY <2>1 DEF Armed, RetryEntry
    <2>3. i \notin Running' /\ i \in RetryQueued'
        BY <1>1, <1>8, <2>2, NoneFacts DEF Scheduled, Running, RetryQueued
    <2>. QED
        BY <2>1, <2>2, <2>3 DEF AttemptOf
<1>9. CASE Retried(i)
    <2>1. CASE EndsNormally(i)
        BY <2>1
    <2>2. CASE ~EndsNormally(i)
        <3>1. running[i].attempt \in Nat /\ AttemptOf(i) = running[i].attempt
            BY <1>1, <1>9 DEF Retried, AttemptOf, Running, Attempts, RunningEntry, TypeInv, TypeOK
        <3>. QED
            BY <1>8, <1>9, <2>2, <3>1 DEF Retried
    <2>. QED
        BY <2>1, <2>2
<1>10. CASE Cleaning(i)
    BY <1>10 DEF Cleaning
<1>11. CASE Started(i)
    <2>1. i \in Running' /\ AttemptOf(i)' = running'[i].attempt
        BY <1>1, <1>11, NoneFacts DEF Started, Running, AttemptOf
    <2>2. hand = i /\ AttemptOf(i) = handAttempt
        BY <1>1, <1>4, <1>11 DEF Started, Takes, AttemptOf
    <2>. QED
        BY <1>3, <1>11, <2>1, <2>2 DEF Started
<1>12. CASE Requeued(i)
    <2>1. hand = i /\ AttemptOf(i) = handAttempt /\ handAttempt \in Nat
        BY <1>1, <1>4, <1>12 DEF Requeued, Takes, AttemptOf, TypeInv, TypeOK, Attempts
    <2>. QED
        BY <1>8, <1>12, <2>1 DEF Requeued
<1>13. CASE Popped(i)
    <2>1. i \in RetryQueued /\ i \notin Running /\ hand' = i
        BY <1>1, <1>4, <1>13 DEF Popped, RetryQueued
    <2>2. AttemptOf(i) = retry[i].attempt /\ AttemptOf(i)' = handAttempt'
        BY <1>4, <2>1 DEF AttemptOf
    <2>. QED
        BY <1>1, <1>3, <1>13, <2>2 DEF Popped
<1>. QED
    BY <1>2, <1>5, <1>6, <1>7, <1>9, <1>10, <1>11, <1>12, <1>13 DEF Effect, Dropped, Released

\* The attempt number of an issue, and with it the backoff, never falls while
\* the claim is kept, except through a normal worker exit.
THEOREM BackoffIsKept == Spec => BackoffNeverResets
<1>1. TypeInv /\ ClaimsAccounted /\ [Next]_vars /\ TypeInv' /\ ClaimsAccounted' =>
        [\A i \in claimed \cap claimed' :
            \/ AttemptOf(i)' >= AttemptOf(i)
            \/ EndsNormally(i)
            \/ closing'
            \/ at' = "reconcile_clean" /\ hand' = i]_vars
    BY BackoffStep
<1>. QED
    BY <1>1, TypeInvariant, ClaimsAreAccounted, PTL DEF Spec, BackoffNeverResets

-----------------------------------------------------------------------------
(* The mailbox: which commands wait in it                                  *)

\* A queue after a command was put at its end.
LEMMA AppendAt ==
    ASSUME mailbox \in Seq(Command), NEW c \in Command, mailbox' = Append(mailbox, c)
    PROVE  /\ Len(mailbox) \in Nat /\ DOMAIN mailbox = 1..Len(mailbox)
           /\ DOMAIN mailbox' = 1..(Len(mailbox) + 1)
           /\ \A k \in DOMAIN mailbox : mailbox'[k] = mailbox[k]
           /\ mailbox'[Len(mailbox) + 1] = c
OBVIOUS

\* A queue after its first command was taken.
LEMMA TailAt ==
    ASSUME mailbox \in Seq(Command), mailbox # <<>>, mailbox' = Tail(mailbox)
    PROVE  /\ Len(mailbox) \in Nat \ {0} /\ DOMAIN mailbox = 1..Len(mailbox)
           /\ DOMAIN mailbox' = 1..(Len(mailbox) - 1)
           /\ \A k \in DOMAIN mailbox' : mailbox'[k] = mailbox[k + 1]
           /\ Head(mailbox) = mailbox[1]
OBVIOUS

\* A step that neither posts nor takes a firing for i.
NoFiring(i) ==
    \/ mailbox' = mailbox
    \/ mailbox # <<>> /\ Head(mailbox) # RetryFired(i) /\ mailbox' = Tail(mailbox)
    \/ \E c \in Command : c # RetryFired(i) /\ mailbox' = Append(mailbox, c)

LEMMA FiringStep ==
    ASSUME TypeInv, [Next]_vars, NEW i \in Issues
    PROVE  \/ NoFiring(i)
           \/ RetryTimerFires(i)
           \/ HandleRetryFired /\ Head(mailbox) = RetryFired(i)
<1>1. CASE UNCHANGED mailbox
    BY <1>1 DEF NoFiring
<1>2. ASSUME NEW kind, Receive(kind), kind # "fired" PROVE NoFiring(i)
    BY <1>2 DEF Receive, NoFiring, RetryFired
<1>3. CASE HandleRetryFired
    BY <1>3 DEF HandleRetryFired, Receive, NoFiring
<1>4. CASE Loop
    <2>1. CASE HandleTick \/ HandleWorkerExit \/ HandleApplyConfig \/ HandleStop
        BY <1>2, <2>1 DEF HandleTick, HandleWorkerExit, HandleApplyConfig, HandleStop
    <2>2. CASE ReconcileFetched \/ ReconcileCleaned \/ CandidatesFetched \/ RetryFetched
                 \/ RetryCleaned
        BY <1>1, <2>2 DEF ReconcileFetched, ReconcileCleaned, CandidatesFetched,
                          RetryFetched, RetryCleaned
    <2>. QED
        BY <1>3, <1>4, <2>1, <2>2 DEF Loop
<1>5. ASSUME NEW c \in Command, c.type # "fired", mailbox' = Append(mailbox, c)
      PROVE  NoFiring(i)
    BY <1>5 DEF NoFiring, RetryFired
<1>6. CASE Environment
    <2>1. CASE TrackerAnswers \/ TrackerFails
        BY <1>1, <2>1 DEF TrackerAnswers, TrackerFails, Answer
    <2>2. CASE TickTimerFires
        <3>1. Tick(TRUE) \in Command /\ Tick(TRUE).type # "fired"
            BY CommandIntro DEF Tick
        <3>. QED
            BY <1>1, <1>5, <2>2, <3>1 DEF TickTimerFires
    <2>3. ASSUME NEW j \in Issues, RetryTimerFires(j)
          PROVE  NoFiring(i) \/ RetryTimerFires(i)
        <3>1. RetryFired(j) \in Command /\ (i # j => RetryFired(j) # RetryFired(i))
            BY CommandIntro DEF RetryFired
        <3>. QED
            BY <2>3, <3>1 DEF RetryTimerFires, NoFiring
    <2>4. ASSUME NEW w \in Task, NEW ok \in BOOLEAN, TaskEnds(w, ok) PROVE NoFiring(i)
        <3>1. WorkerExit(w, ok) \in Command /\ WorkerExit(w, ok).type # "fired"
            BY CommandIntro DEF WorkerExit
        <3>. QED
            BY <1>5, <2>4, <3>1 DEF TaskEnds
    <2>. QED
        BY <1>6, <2>1, <2>2, <2>3, <2>4 DEF Environment, WorkerFinishes, WorkerUnwinds
<1>7. CASE Callers
    <2>1. CASE RequestTick
        <3>1. ASSUME NEW r \in BOOLEAN PROVE Tick(r) \in Command /\ Tick(r).type # "fired"
            BY CommandIntro DEF Tick
        <3>. QED
            BY <1>1, <1>5, <2>1, <3>1 DEF RequestTick, ArmTickTimer, Post
    <2>2. CASE RequestConfig
        <3>1. ASSUME NEW n \in Limits PROVE ApplyConfig(n) \in Command /\ ApplyConfig(n).type # "fired"
            BY CommandIntro DEF ApplyConfig
        <3>. QED
            BY <1>5, <2>2, <3>1 DEF RequestConfig, Post
    <2>3. CASE CallStop
        <3>1. Stop \in Command /\ Stop.type # "fired"
            BY CommandIntro DEF Stop
        <3>. QED
            BY <1>5, <2>3, <3>1 DEF CallStop
    <2>4. CASE StopReturns
        BY <1>1, <2>4 DEF StopReturns
    <2>. QED
        BY <1>7, <2>1, <2>2, <2>3, <2>4 DEF Callers
<1>. QED
    BY <1>1, <1>4, <1>6, <1>7 DEF Next, Stopped, vars

-----------------------------------------------------------------------------
(* Timers and entries                                                      *)

FiredEntry(i) == retry[i] # None /\ retry[i].timer = "fired"
FiringQueued(i) == \E k \in DOMAIN mailbox : mailbox[k] = RetryFired(i)
FiringOnce(i) ==
    \A k, l \in DOMAIN mailbox : mailbox[k] = RetryFired(i) /\ mailbox[l] = RetryFired(i) => k = l

\* Other commands come and go without touching the firings for i.
LEMMA FiringsStand ==
    ASSUME TypeInv, NEW i \in Issues, NoFiring(i), FiringOnce(i)
    PROVE  (FiringQueued(i)' <=> FiringQueued(i)) /\ FiringOnce(i)'
<1>0. mailbox \in Seq(Command)
    BY DEF TypeInv, TypeOK
<1>1. CASE mailbox' = mailbox
    BY <1>1 DEF FiringQueued, FiringOnce
<1>2. CASE mailbox # <<>> /\ Head(mailbox) # RetryFired(i) /\ mailbox' = Tail(mailbox)
    <2>1. /\ Len(mailbox) \in Nat \ {0} /\ DOMAIN mailbox = 1..Len(mailbox)
          /\ DOMAIN mailbox' = 1..(Len(mailbox) - 1)
          /\ \A k \in DOMAIN mailbox' : mailbox'[k] = mailbox[k + 1]
          /\ mailbox[1] # RetryFired(i)
        BY <1>0, <1>2, TailAt
    <2>2. FiringQueued(i) => FiringQueued(i)'
        <3>1. ASSUME NEW k \in DOMAIN mailbox, mailbox[k] = RetryFired(i)
              PROVE  FiringQueued(i)'
            <4>1. k - 1 \in DOMAIN mailbox' /\ mailbox'[k - 1] = mailbox[k]
                BY <2>1, <3>1
            <4>. QED
                BY <3>1, <4>1 DEF FiringQueued
        <3>. QED
            BY <3>1 DEF FiringQueued
    <2>3. FiringQueued(i)' => FiringQueued(i)
        BY <2>1 DEF FiringQueued
    <2>4. FiringOnce(i)'
        BY <2>1 DEF FiringOnce
    <2>. QED
        BY <2>2, <2>3, <2>4
<1>3. ASSUME NEW c \in Command, c # RetryFired(i), mailbox' = Append(mailbox, c)
      PROVE  (FiringQueued(i)' <=> FiringQueued(i)) /\ FiringOnce(i)'
    <2>1. /\ Len(mailbox) \in Nat /\ DOMAIN mailbox = 1..Len(mailbox)
          /\ DOMAIN mailbox' = 1..(Len(mailbox) + 1)
          /\ \A k \in DOMAIN mailbox : mailbox'[k] = mailbox[k]
          /\ mailbox'[Len(mailbox) + 1] = c
        BY <1>0, <1>3, AppendAt
    <2>. QED
        BY <1>3, <2>1 DEF FiringQueued, FiringOnce
<1>. QED
    BY <1>1, <1>2, <1>3 DEF NoFiring

LEMMA FiringsMatchStep ==
    ASSUME TypeInv, ClaimsAccounted, FiringsMatchEntries, [Next]_vars
    PROVE  FiringsMatchEntries'
<1> SUFFICES ASSUME ~closing', NEW i \in Issues
             PROVE  (FiredEntry(i)' <=> FiringQueued(i)') /\ FiringOnce(i)'
    BY DEF FiringsMatchEntries, FiredEntry, FiringQueued, FiringOnce
<1>1. ~closing /\ ~CallStop /\ mailbox \in Seq(Command)
    BY ClosingStays DEF CallStop, closing, TypeInv, TypeOK
<1>2. (FiredEntry(i) <=> FiringQueued(i)) /\ FiringOnce(i)
    BY <1>1 DEF FiringsMatchEntries, FiredEntry, FiringQueued, FiringOnce
<1>3. CASE NoFiring(i)
    <2>1. Effect(i)
        BY <1>1, StepEffect
    <2>2. ~TimerDue(i)
        <3> SUFFICES ASSUME mailbox' = Append(mailbox, RetryFired(i)) PROVE FALSE
            BY DEF TimerDue
        <3>1. mailbox' # mailbox /\ (mailbox' # Tail(mailbox) \/ mailbox = <<>>)
            BY <1>1, CommandIntro
        <3>2. PICK c \in Command : c # RetryFired(i) /\ mailbox' = Append(mailbox, c)
            BY <1>1, <1>3, <3>1, CommandIntro DEF NoFiring
        <3>. QED
            BY <1>1, <3>2, AppendAt, CommandIntro
    <2>3. i \in Running => retry[i] = None
        BY DEF ClaimsAccounted, Running, RetryQueued
    <2>4. hand = i \/ i \notin claimed => retry[i] = None
        BY <1>1, NoneFacts DEF ClaimsAccounted, RetryQueued, Held
    <2>5. \A a : Armed(a) # None => Armed(a).timer # "fired"
        BY DEF Armed
    <2>6. retry[i] # None => retry[i] \in RetryEntry
        BY DEF TypeInv, TypeOK
    <2>7. ~Popped(i)
        <3> SUFFICES ASSUME Popped(i) PROVE FALSE
            OBVIOUS
        <3>1. mailbox # <<>> /\ Head(mailbox) = RetryFired(i) /\ mailbox' = Tail(mailbox)
            BY DEF Popped
        <3>2. Len(mailbox) \in DOMAIN mailbox /\ Len(mailbox) \notin DOMAIN mailbox'
            BY <1>1, <3>1, TailAt
        <3>3. mailbox' # mailbox
            BY <3>2
        <3>4. ASSUME NEW c \in Command, mailbox' = Append(mailbox, c) PROVE FALSE
            BY <1>1, <3>2, <3>4, AppendAt
        <3>. QED
            BY <1>3, <3>1, <3>3, <3>4 DEF NoFiring
    <2>8. ASSUME NEW least, Scheduled(i, least) PROVE ~FiredEntry(i)'
        <3>1. PICK a \in Attempts \ {0} : retry'[i] = Armed(a)
            BY <1>1, <2>8 DEF Scheduled
        <3>2. Armed(a).timer = "armed"
            BY DEF Armed
        <3>. QED
            BY <3>1, <3>2 DEF FiredEntry
    <2>9. FiredEntry(i)' <=> FiredEntry(i)
        <3>1. CASE Kept(i) \/ Refreshed(i) \/ Cleaning(i)
            BY <3>1 DEF Kept, Refreshed, Cleaning, FiredEntry
        <3>2. CASE Retried(i) \/ Requeued(i)
            BY <2>3, <2>4, <2>8, <3>2 DEF Retried, Requeued, Takes, FiredEntry
        <3>3. CASE Dropped(i) \/ Started(i) \/ Released(i)
            BY <2>3, <2>4, <3>3 DEF Dropped, Started, Takes, Released, FiredEntry
        <3>. QED
            BY <2>1, <2>2, <2>7, <3>1, <3>2, <3>3 DEF Effect
    <2>. QED
        BY <1>2, <1>3, <2>9, FiringsStand
<1>4. CASE RetryTimerFires(i)
    <2>1. ~FiringQueued(i) /\ FiredEntry(i)'
        BY <1>2, <1>4, NoneFacts DEF RetryTimerFires, FiredEntry, TypeInv, TypeOK, RetryEntry
    <2>2. /\ Len(mailbox) \in Nat /\ DOMAIN mailbox = 1..Len(mailbox)
          /\ DOMAIN mailbox' = 1..(Len(mailbox) + 1)
          /\ \A k \in DOMAIN mailbox : mailbox'[k] = mailbox[k]
          /\ mailbox'[Len(mailbox) + 1] = RetryFired(i)
        BY <1>1, <1>4, AppendAt, CommandIntro DEF RetryTimerFires
    <2>. QED
        BY <2>1, <2>2 DEF FiringQueued, FiringOnce
<1>5. CASE HandleRetryFired /\ Head(mailbox) = RetryFired(i)
    <2>1. mailbox # <<>> /\ mailbox' = Tail(mailbox) /\ ~FiredEntry(i)'
        BY <1>5 DEF HandleRetryFired, Receive, RetryFired, FiredEntry, TypeInv, TypeOK
    <2>2. /\ Len(mailbox) \in Nat \ {0} /\ DOMAIN mailbox = 1..Len(mailbox)
          /\ DOMAIN mailbox' = 1..(Len(mailbox) - 1)
          /\ \A k \in DOMAIN mailbox' : mailbox'[k] = mailbox[k + 1]
          /\ mailbox[1] = RetryFired(i)
        BY <1>1, <1>5, <2>1, TailAt
    <2>3. ~FiringQueued(i)'
        BY <1>2, <2>2 DEF FiringQueued, FiringOnce
    <2>. QED
        BY <2>1, <2>3 DEF FiringQueued, FiringOnce
<1>. QED
    BY <1>3, <1>4, <1>5, FiringStep

\* _RetryFired carries no generation; yet, while the service is open, a queued
\* firing is the only one of its issue and belongs to the entry that is there,
\* whatever was retried, stalled, dispatched or released in between.
THEOREM FiringsAreOfEntries == Spec => []FiringsMatchEntries
<1>1. Init => FiringsMatchEntries
    BY DEF Init, FiringsMatchEntries, Tick, RetryFired
<1>2. TypeInv /\ ClaimsAccounted /\ FiringsMatchEntries /\ [Next]_vars => FiringsMatchEntries'
    BY FiringsMatchStep
<1>. QED
    BY <1>1, <1>2, TypeInvariant, ClaimsAreAccounted, PTL DEF Spec

-----------------------------------------------------------------------------
(* What stays in the mailbox                                               *)

\* A command of X in the queue stays there until it is handled.
LEMMA QueuedOnTail ==
    ASSUME NEW X, mailbox \in Seq(Command), NEW k \in DOMAIN mailbox, mailbox[k] \in X,
           mailbox # <<>>, Head(mailbox) \notin X, mailbox' = Tail(mailbox)
    PROVE  \E l \in DOMAIN mailbox' : mailbox'[l] \in X
<1>1. /\ Len(mailbox) \in Nat \ {0} /\ DOMAIN mailbox = 1..Len(mailbox)
      /\ DOMAIN mailbox' = 1..(Len(mailbox) - 1)
      /\ \A l \in DOMAIN mailbox' : mailbox'[l] = mailbox[l + 1]
      /\ Head(mailbox) = mailbox[1]
    BY TailAt
<1>2. k \in 1..Len(mailbox) /\ k # 1
    BY <1>1
<1>3. k - 1 \in DOMAIN mailbox' /\ (k - 1) + 1 = k
    BY <1>1, <1>2
<1>4. mailbox'[k - 1] = mailbox[k]
    BY <1>1, <1>3
<1>. QED
    BY <1>3, <1>4

LEMMA QueuedOnAppend ==
    ASSUME NEW X, mailbox \in Seq(Command), NEW k \in DOMAIN mailbox, mailbox[k] \in X,
           NEW c \in Command, mailbox' = Append(mailbox, c)
    PROVE  \E l \in DOMAIN mailbox' : mailbox'[l] \in X
<1>1. /\ Len(mailbox) \in Nat /\ DOMAIN mailbox = 1..Len(mailbox)
      /\ DOMAIN mailbox' = 1..(Len(mailbox) + 1)
      /\ \A l \in DOMAIN mailbox : mailbox'[l] = mailbox[l]
    BY AppendAt
<1>2. k \in DOMAIN mailbox'
    BY <1>1
<1>. QED
    BY <1>1, <1>2

\* A step that takes no command of X.
TakesNone(X) ==
    \/ mailbox' = mailbox
    \/ mailbox # <<>> /\ Head(mailbox) \notin X /\ mailbox' = Tail(mailbox)
    \/ \E c \in Command : mailbox' = Append(mailbox, c)

LEMMA StaysQueued ==
    ASSUME NEW X, mailbox \in Seq(Command), TakesNone(X),
           NEW k \in DOMAIN mailbox, mailbox[k] \in X
    PROVE  \E l \in DOMAIN mailbox' : mailbox'[l] \in X
<1>1. CASE mailbox' = mailbox
    BY <1>1
<1>. QED
    BY <1>1, QueuedOnTail, QueuedOnAppend DEF TakesNone

-----------------------------------------------------------------------------
(* The poll chain                                                          *)

ChainQueued == \E k \in DOMAIN mailbox : mailbox[k] = Tick(TRUE)

\* The tick in progress carries the chain only between its suspensions: without
\* it a handler that goes back to the mailbox could drop the chain.
TickInProgress == resched => at \in {"reconcile_fetch", "reconcile_clean", "candidate_fetch"}

LEMMA ChainStays ==
    ASSUME mailbox \in Seq(Command), ChainQueued, TakesNone({Tick(TRUE)})
    PROVE  ChainQueued'
<1>1. PICK k \in DOMAIN mailbox : mailbox[k] \in {Tick(TRUE)}
    BY DEF ChainQueued
<1>2. \E l \in DOMAIN mailbox' : mailbox'[l] \in {Tick(TRUE)}
    BY <1>1, StaysQueued
<1>. QED
    BY <1>2 DEF ChainQueued

\* A tick command says nothing but whether the chain goes on.
LEMMA TickIs ==
    ASSUME NEW c \in Command, c.type = "tick"
    PROVE  c.reschedule \in BOOLEAN /\ c = Tick(c.reschedule)
<1>1. CASE c \in {Tick(r) : r \in BOOLEAN}
    <2>1. PICK r \in BOOLEAN : c = Tick(r)
        BY <1>1
    <2>2. c.reschedule = r
        BY <2>1 DEF Tick
    <2>. QED
        BY <2>1, <2>2
<1>2. CASE c \notin {Tick(r) : r \in BOOLEAN}
    BY <1>2 DEF Command, WorkerExit, RetryFired, ApplyConfig, Stop
<1>. QED
    BY <1>1, <1>2

\* After reconciliation the chain is on the timer or with the tick.
LEMMA AfterReconcileChain ==
    ASSUME TypeInv, NEW chain \in BOOLEAN, AfterReconcile(chain)
    PROVE  /\ TickInProgress'
           /\ tickArmed => tickArmed'
           /\ ~closing /\ chain => tickArmed' \/ resched'
<1>1. CASE EndTick(chain)
    <2>1. resched' = FALSE /\ tickArmed' = (tickArmed \/ (chain /\ ~closing))
        BY <1>1 DEF EndTick, Settle
    <2>. QED
        BY <2>1 DEF TickInProgress
<1>2. CASE Suspend("candidate_fetch", None, 0, {}, Pending, chain) /\ UNCHANGED tickArmed
    <2>1. at' = "candidate_fetch" /\ resched' = chain /\ tickArmed' = tickArmed
        BY <1>2 DEF Suspend
    <2>. QED
        BY <2>1 DEF TickInProgress
<1>. QED
    BY <1>1, <1>2 DEF AfterReconcile

LEMMA ReconcileRunChain ==
    ASSUME TypeInv, NEW ids, NEW cleaned, ReconcileRun(ids, cleaned)
    PROVE  /\ TickInProgress'
           /\ tickArmed => tickArmed'
           /\ ~closing /\ resched => tickArmed' \/ resched'
<1>1. resched \in BOOLEAN
    BY DEF TypeInv, TypeOK
<1>2. CASE AfterReconcile(resched)
    BY <1>1, <1>2, AfterReconcileChain
<1>3. ASSUME NEW t, NEW rest,
             Suspend("reconcile_clean", t, 0, rest, reply, resched), UNCHANGED tickArmed
      PROVE  TickInProgress' /\ tickArmed' = tickArmed /\ resched' = resched
    <2>1. at' = "reconcile_clean" /\ resched' = resched
        BY <1>3 DEF Suspend
    <2>. QED
        BY <1>3, <2>1 DEF TickInProgress
<1> DEFINE known == ids \cap Running
           terminal == {i \in known : IsTerminal(reply[i])}
<1>4. \/ AfterReconcile(resched)
      \/ \E t \in terminal, P \in SUBSET (known \ terminal) :
           /\ Suspend("reconcile_clean", t, 0, ids \ (P \cup {t}), reply, resched)
           /\ UNCHANGED tickArmed
    BY DEF ReconcileRun
<1> HIDE DEF known, terminal
<1>5. CASE ~AfterReconcile(resched)
    <2>1. PICK t \in terminal, P \in SUBSET (known \ terminal) :
           /\ Suspend("reconcile_clean", t, 0, ids \ (P \cup {t}), reply, resched)
           /\ UNCHANGED tickArmed
        BY <1>4, <1>5
    <2>2. TickInProgress' /\ tickArmed' = tickArmed /\ resched' = resched
        BY <1>3, <2>1
    <2>. QED
        BY <2>2
<1>. QED
    BY <1>2, <1>5

LEMMA PollChainStep ==
    ASSUME TypeInv, PollChainAlive, TickInProgress, [Next]_vars
    PROVE  PollChainAlive' /\ TickInProgress'
<1>1. mailbox \in Seq(Command) /\ resched \in BOOLEAN /\ tickArmed \in BOOLEAN
    BY DEF TypeInv, TypeOK
<1>2. closing => closing'
    BY ClosingStays
<1>3. PollChainAlive <=> (closing \/ tickArmed \/ ChainQueued \/ resched)
    BY DEF PollChainAlive, ChainQueued
<1>4. PollChainAlive' <=> (closing' \/ tickArmed' \/ ChainQueued' \/ resched')
    BY DEF PollChainAlive, ChainQueued
<1>5. ASSUME tickArmed => tickArmed', resched' = resched, at' = at \/ ~resched,
             TakesNone({Tick(TRUE)})
      PROVE  PollChainAlive' /\ TickInProgress'
    BY <1>1, <1>2, <1>3, <1>4, <1>5, ChainStays DEF TickInProgress
<1>6. CASE HandleTick
    <2> DEFINE chain == Head(mailbox).reschedule
    <2>1. chain \in BOOLEAN /\ Head(mailbox) = Tick(chain) /\ at = "get"
          /\ mailbox # <<>> /\ mailbox' = Tail(mailbox)
        BY <1>1, <1>6, HeadType, TickIs DEF HandleTick, Receive
    <2>2. /\ TickInProgress'
          /\ tickArmed => tickArmed'
          /\ ~closing /\ chain => tickArmed' \/ resched'
        <3>1. CASE AfterReconcile(chain)
            BY <2>1, <3>1, AfterReconcileChain
        <3>2. ASSUME NEW S, Suspend("reconcile_fetch", None, 0, S, Pending, chain),
                     UNCHANGED tickArmed
              PROVE  TickInProgress' /\ tickArmed' = tickArmed /\ resched' = chain
            BY <3>2 DEF Suspend, TickInProgress
        <3>. QED
            BY <1>6, <3>1, <3>2 DEF HandleTick
    <2>3. ~chain => Head(mailbox) # Tick(TRUE)
        BY <2>1 DEF Tick
    <2>4. ~resched
        BY <2>1 DEF TickInProgress
    <2> HIDE DEF chain
    <2>. QED
        BY <1>1, <1>2, <1>3, <1>4, <2>1, <2>2, <2>3, <2>4, ChainStays DEF TakesNone
<1>7. CASE ReconcileFetched \/ ReconcileCleaned
    <2>1. /\ TickInProgress' /\ mailbox' = mailbox
          /\ tickArmed => tickArmed'
          /\ ~closing /\ resched => tickArmed' \/ resched'
        BY <1>1, <1>7, AfterReconcileChain, ReconcileRunChain DEF ReconcileFetched, ReconcileCleaned
    <2>. QED
        BY <1>1, <1>2, <1>3, <1>4, <2>1, ChainStays DEF TakesNone
<1>8. CASE CandidatesFetched
    <2>1. mailbox' = mailbox /\ EndTick(resched)
        BY <1>8 DEF CandidatesFetched
    <2>2. tickArmed' = (tickArmed \/ (resched /\ ~closing)) /\ resched' = FALSE
        BY <2>1 DEF EndTick, Settle
    <2>. QED
        BY <1>1, <1>2, <1>3, <1>4, <2>1, <2>2, ChainStays DEF TakesNone, TickInProgress
<1>9. CASE HandleRetryFired \/ HandleWorkerExit \/ HandleApplyConfig \/ HandleStop
    <2>1. at = "get" /\ ~resched /\ tickArmed' = tickArmed
        BY <1>9 DEF HandleRetryFired, HandleWorkerExit, HandleApplyConfig, HandleStop, Receive,
                    TickInProgress
    <2>2. mailbox # <<>> /\ Head(mailbox) # Tick(TRUE) /\ mailbox' = Tail(mailbox)
        <3>1. PICK kind \in {"fired", "exit", "config", "stop"} : Receive(kind)
            BY <1>9 DEF HandleRetryFired, HandleWorkerExit, HandleApplyConfig, HandleStop
        <3>2. Tick(TRUE).type = "tick"
            BY DEF Tick
        <3>. QED
            BY <3>1, <3>2 DEF Receive
    <2>3. resched' = FALSE
        BY <1>1, <1>9, <2>1 DEF HandleRetryFired, HandleWorkerExit, HandleApplyConfig, HandleStop,
                                loopVars, Suspend
    <2>. QED
        BY <1>1, <1>5, <2>1, <2>2, <2>3 DEF TakesNone
<1>10. CASE RetryFetched \/ RetryCleaned
    <2>1. ~resched /\ mailbox' = mailbox /\ tickArmed' = tickArmed
        BY <1>10 DEF RetryFetched, RetryCleaned, TickInProgress
    <2>2. resched' = FALSE
        BY <1>10 DEF RetryFetched, RetryCleaned, Settle, Suspend
    <2>. QED
        BY <1>1, <1>5, <2>1, <2>2 DEF TakesNone
<1>11. CASE TickTimerFires
    <2>1. resched' = resched /\ at' = at
        BY <1>11 DEF TickTimerFires, loopVars
    <2>2. ~closing => ChainQueued'
        <3> SUFFICES ASSUME ~closing PROVE ChainQueued'
            OBVIOUS
        <3>1. Tick(TRUE) \in Command /\ mailbox' = Append(mailbox, Tick(TRUE))
            BY <1>11, CommandIntro DEF TickTimerFires
        <3>2. /\ Len(mailbox) \in Nat /\ DOMAIN mailbox' = 1..(Len(mailbox) + 1)
              /\ mailbox'[Len(mailbox) + 1] = Tick(TRUE)
            BY <1>1, <3>1, AppendAt
        <3>3. Len(mailbox) + 1 \in DOMAIN mailbox'
            BY <3>2
        <3>. QED
            BY <3>2, <3>3 DEF ChainQueued
    <2>. QED
        BY <1>2, <1>4, <2>1, <2>2 DEF TickInProgress
<1>12. CASE TrackerAnswers \/ TrackerFails
    BY <1>5, <1>12 DEF TakesNone, TrackerAnswers, TrackerFails, Answer
<1>13. ASSUME NEW i \in Issues, RetryTimerFires(i) PROVE PollChainAlive' /\ TickInProgress'
    BY <1>5, <1>13, CommandIntro DEF TakesNone, RetryTimerFires, loopVars
<1>14. ASSUME NEW w \in Task, NEW ok \in BOOLEAN, TaskEnds(w, ok)
       PROVE  PollChainAlive' /\ TickInProgress'
    BY <1>5, <1>14, CommandIntro DEF TakesNone, TaskEnds, loopVars
<1>15. CASE RequestTick \/ RequestConfig
    BY <1>5, <1>15, CommandIntro DEF TakesNone, RequestTick, RequestConfig, ArmTickTimer, Post, loopVars
<1>16. CASE CallStop
    BY <1>4, <1>16 DEF CallStop, closing, loopVars, TickInProgress
<1>17. CASE StopReturns \/ UNCHANGED vars
    <2>1. tickArmed' = tickArmed /\ mailbox' = mailbox /\ resched' = resched /\ at' = at
        BY <1>17 DEF StopReturns, vars, loopVars
    <2>. QED
        BY <1>5, <2>1 DEF TakesNone
<1>. QED
    BY <1>6, <1>7, <1>8, <1>9, <1>10, <1>11, <1>12, <1>13, <1>14, <1>15, <1>16, <1>17
       DEF Next, Loop, Environment, Callers, Stopped, WorkerFinishes, WorkerUnwinds

\* While the service is open the chain of ticks goes on: on the timer, in the
\* mailbox or with the tick in progress, whatever fails or is reloaded.
THEOREM PollChainStaysAlive == Spec => []PollChainAlive
<1>1. Init => PollChainAlive /\ TickInProgress
    <2> SUFFICES ASSUME Init PROVE PollChainAlive /\ TickInProgress
        OBVIOUS
    <2>1. mailbox = <<Tick(TRUE)>> /\ resched = FALSE
        BY DEF Init
    <2>2. 1 \in DOMAIN mailbox /\ mailbox[1] = Tick(TRUE)
        BY <2>1
    <2>. QED
        BY <2>1, <2>2 DEF PollChainAlive, TickInProgress
<1>2. TypeInv /\ PollChainAlive /\ TickInProgress /\ [Next]_vars => PollChainAlive' /\ TickInProgress'
    BY PollChainStep
<1>. QED
    BY <1>1, <1>2, TypeInvariant, PTL DEF Spec

-----------------------------------------------------------------------------
(* Workers and entries                                                     *)

ExitsOf(w) == {c \in Command : c.type = "exit" /\ c.task = w}
Watched(i) ==
    task[TaskOf(i)] = "live" \/ (task[TaskOf(i)] = "exited" /\ ExitQueued(TaskOf(i)))

LEMMA TaskOfType ==
    ASSUME TypeInv, NEW i \in Running
    PROVE  TaskOf(i) \in Task /\ running[i] \in RunningEntry
BY DEF Running, TypeInv, TypeOK, RunningEntry, TaskOf, Task

LEMMA ExitStays ==
    ASSUME mailbox \in Seq(Command), NEW w, ExitQueued(w), TakesNone(ExitsOf(w))
    PROVE  ExitQueued(w)'
<1>1. PICK k \in DOMAIN mailbox : mailbox[k].type = "exit" /\ mailbox[k].task = w
    BY DEF ExitQueued
<1>2. mailbox[k] \in ExitsOf(w)
    BY <1>1 DEF ExitsOf
<1>3. PICK l \in DOMAIN mailbox' : mailbox'[l] \in ExitsOf(w)
    BY <1>1, <1>2, StaysQueued
<1>. QED
    BY <1>3 DEF ExitQueued, ExitsOf

\* A step that takes no exit, keeps every task of an entry that stays, and
\* leaves no live task without its entry.
LEMMA WatchStays ==
    ASSUME TypeInv, RunningIsWatched, closing => closing',
           \A w \in Task : TakesNone(ExitsOf(w)),
           \A i \in Running' : /\ i \in Running /\ running'[i].gen = running[i].gen
                               /\ task'[TaskOf(i)] = task[TaskOf(i)],
           \A w \in Task : task'[w] = "live" =>
               task[w] = "live" /\ w[1] \in Running'
    PROVE  RunningIsWatched'
<1>1. ASSUME NEW w \in Task, task'[w] = "live" PROVE IsCurrent(w)'
    <2>1. IsCurrent(w) /\ w[1] \in Running'
        BY <1>1 DEF RunningIsWatched
    <2>2. running'[w[1]].gen = running[w[1]].gen /\ running'[w[1]] # None
        BY <2>1 DEF Running
    <2>. QED
        BY <2>1, <2>2 DEF IsCurrent, TaskOf
<1>2. ASSUME ~closing', NEW i \in Running' PROVE Watched(i)'
    <2>1. i \in Running /\ TaskOf(i) \in Task /\ TaskOf(i)' = TaskOf(i)
        BY <1>2, TaskOfType DEF TaskOf
    <2>2. Watched(i)
        BY <1>2, <2>1 DEF RunningIsWatched, Watched
    <2>3. task'[TaskOf(i)] = task[TaskOf(i)]
        BY <1>2
    <2>4. ExitQueued(TaskOf(i)) => ExitQueued(TaskOf(i))'
        BY <2>1, ExitStays DEF TypeInv, TypeOK
    <2>. QED
        BY <2>1, <2>2, <2>3, <2>4 DEF Watched, ExitQueued
<1>. QED
    BY <1>1, <1>2 DEF RunningIsWatched, Watched

\* The issues of X are terminated; the entries of the others stay.
LEMMA WatchOnCancel ==
    ASSUME TypeInv, RunningIsWatched, closing => closing',
           \A w \in Task : TakesNone(ExitsOf(w)),
           NEW X \in SUBSET Issues, task' = Cancelled(X),
           \A i \in X : running'[i] = None,
           \A i \in Issues \ X : \/ running'[i] = running[i]
                                 \/ /\ running[i] # None /\ running'[i] # None
                                    /\ running'[i].gen = running[i].gen
    PROVE  RunningIsWatched'
<1>1. ASSUME NEW i \in Running'
      PROVE  /\ i \in Running /\ running'[i].gen = running[i].gen /\ i \notin X
             /\ task'[TaskOf(i)] = task[TaskOf(i)]
    <2>1. i \in Running /\ running'[i].gen = running[i].gen /\ i \notin X
        BY <1>1 DEF Running
    <2>2. TaskOf(i) \in Task /\ TaskOf(i)[1] = i
        BY <2>1, TaskOfType DEF TaskOf
    <2>. QED
        BY <2>1, <2>2 DEF Cancelled
<1>2. ASSUME NEW w \in Task, task'[w] = "live"
      PROVE  task[w] = "live" /\ w[1] \in Running'
    <2>1. task[w] = "live" /\ ~(w[1] \in X /\ running[w[1]] # None /\ w = TaskOf(w[1]))
        BY <1>2 DEF Cancelled
    <2>2. IsCurrent(w) /\ w[1] \in Issues
        BY <2>1 DEF RunningIsWatched, Task
    <2>. QED
        BY <2>1, <2>2 DEF IsCurrent, Running
<1>. QED
    BY <1>1, <1>2, WatchStays

LEMMA WatchOnDispatch ==
    ASSUME TypeInv, RunningIsWatched, UNCHANGED <<stop, mailbox>>,
           NEW D \in SUBSET (Issues \ Running), NEW F, NEW g, \A i \in D : g[i] \in Gens,
           NEW attempt \in Attempts, NEW snap, \A i \in D : snap[i] \in TrackerStates,
           Dispatch(D, F, g, attempt, snap)
    PROVE  RunningIsWatched'
<1>1. \A i \in D : /\ running'[i] = [gen |-> g[i], attempt |-> attempt, state |-> snap[i]]
                   /\ running'[i].gen = g[i]
    BY DEF Dispatch
<1>2. \A i \in Issues \ D : running'[i] = running[i]
    BY DEF Dispatch
<1>3. \A w \in Task : task'[w] = IF w[1] \in D /\ w[2] = g[w[1]] THEN "live" ELSE task[w]
    BY DEF Dispatch
<1>4. ASSUME NEW w \in Task, task'[w] = "live" PROVE IsCurrent(w)'
    <2>1. w[1] \in Issues /\ w = <<w[1], w[2]>>
        BY DEF Task
    <2>2. CASE w[1] \in D /\ w[2] = g[w[1]]
        <3>1. running'[w[1]].gen = w[2] /\ g[w[1]] \in Gens
            BY <1>1, <2>2
        <3>2. running'[w[1]] # None
            <4>1. snap[w[1]] \in TrackerStates
                BY <2>2
            <4>2. running'[w[1]] = [gen |-> g[w[1]], attempt |-> attempt, state |-> snap[w[1]]]
                BY <1>1, <2>2
            <4>3. running'[w[1]] \in RunningEntry
                BY <3>1, <4>1, <4>2 DEF RunningEntry
            <4>. QED
                BY <4>3, NoneFacts
        <3>. QED
            BY <2>1, <3>1, <3>2 DEF IsCurrent, TaskOf
    <2>3. CASE ~(w[1] \in D /\ w[2] = g[w[1]])
        <3>1. IsCurrent(w)
            BY <1>3, <1>4, <2>3 DEF RunningIsWatched
        <3>2. running'[w[1]] = running[w[1]]
            BY <1>2, <2>1, <3>1 DEF IsCurrent, Running
        <3>. QED
            BY <3>1, <3>2 DEF IsCurrent, TaskOf
    <2>. QED
        BY <2>2, <2>3
<1>5. ASSUME ~closing', NEW i \in Running' PROVE Watched(i)'
    <2>1. CASE i \in D
        <3>1. TaskOf(i)' = <<i, g[i]>> /\ <<i, g[i]>> \in Task
            BY <1>1, <2>1 DEF TaskOf, Task
        <3>. QED
            BY <1>3, <2>1, <3>1 DEF Watched
    <2>2. CASE i \notin D
        <3>1. i \in Running /\ running'[i] = running[i]
            BY <1>2, <1>5, <2>2 DEF Running
        <3>2. TaskOf(i)' = TaskOf(i) /\ TaskOf(i) \in Task /\ TaskOf(i)[1] = i
            BY <3>1, TaskOfType DEF TaskOf
        <3>3. Watched(i)
            BY <1>5, <3>1 DEF RunningIsWatched, Watched, closing
        <3>. QED
            BY <1>3, <2>2, <3>2, <3>3 DEF Watched, ExitQueued
    <2>. QED
        BY <2>1, <2>2
<1>. QED
    BY <1>4, <1>5 DEF RunningIsWatched, Watched

LEMMA TakesNoneOf ==
    ASSUME NEW X,
           \/ UNCHANGED mailbox
           \/ \E kind : Receive(kind) /\ \A c \in X : c.type # kind
           \/ \E c \in Command : mailbox' = Append(mailbox, c)
    PROVE  TakesNone(X)
BY DEF Receive, TakesNone

LEMMA TakesNoExit ==
    ASSUME \/ UNCHANGED mailbox
           \/ \E kind \in {"tick", "fired", "config", "stop"} : Receive(kind)
           \/ \E c \in Command : mailbox' = Append(mailbox, c)
    PROVE  \A w \in Task : TakesNone(ExitsOf(w))
BY TakesNoneOf DEF ExitsOf

LEMMA HandleTickWatch ==
    TypeInv /\ RunningIsWatched /\ HandleTick => RunningIsWatched'
<1> SUFFICES ASSUME TypeInv, RunningIsWatched, HandleTick PROVE RunningIsWatched'
    OBVIOUS
<1>1. PICK S \in SUBSET Running : running' = Without(S, running) /\ task' = Cancelled(S)
    BY DEF HandleTick
<1>2. (\A w \in Task : TakesNone(ExitsOf(w))) /\ (closing => closing')
    BY TakesNoExit, ClosingStays DEF HandleTick, Receive, closing
<1>3. S \in SUBSET Issues
    BY DEF Running
<1>4. (\A i \in S : running'[i] = None) /\ (\A i \in Issues \ S : running'[i] = running[i])
    BY <1>1, <1>3 DEF Without
<1>. QED
    BY <1>1, <1>2, <1>3, <1>4, WatchOnCancel

LEMMA ApplyDecisionsWatch ==
    ASSUME TypeInv, RunningIsWatched, reply \in Snapshots, UNCHANGED <<mailbox, stop>>,
           NEW P \in SUBSET Running, P \subseteq DOMAIN reply,
           NEW ending \in SUBSET Running, P \cap ending = {},
           NEW cleaned, ApplyDecisions(P, ending, cleaned)
    PROVE  RunningIsWatched'
<1> DEFINE drop == {j \in P : ~IsActive(reply[j])}
           X == drop \cup ending
<1>1. /\ running' = [i \in Issues |->
            IF i \in X THEN None
            ELSE IF i \in P THEN [running[i] EXCEPT !.state = reply[i]]
            ELSE running[i]]
      /\ task' = Cancelled(X)
    BY DEF ApplyDecisions
<1>2. (\A w \in Task : TakesNone(ExitsOf(w))) /\ (closing => closing')
    BY TakesNoExit DEF closing
<1>3. X \in SUBSET Issues
    BY DEF Running
<1>4. ASSUME NEW i \in Issues \ X
      PROVE  \/ running'[i] = running[i]
             \/ /\ running[i] # None /\ running'[i] # None
                /\ running'[i].gen = running[i].gen
    <2>1. CASE i \in P
        <3>1. running[i] \in RunningEntry /\ reply[i] \in TrackerStates
            BY <2>1, TaskOfType, SnapshotType
        <3>2. running'[i] = [running[i] EXCEPT !.state = reply[i]]
            BY <1>1, <1>4, <2>1
        <3>3. running'[i] \in RunningEntry /\ running'[i].gen = running[i].gen
            BY <3>1, <3>2 DEF RunningEntry
        <3>. QED
            BY <3>1, <3>3, NoneFacts
    <2>2. CASE i \notin P
        BY <1>1, <1>4, <2>2
    <2>. QED
        BY <2>1, <2>2
<1>5. \A i \in X : running'[i] = None
    BY <1>1, <1>3
<1> HIDE DEF X
<1>. QED
    BY <1>1, <1>2, <1>3, <1>4, <1>5, WatchOnCancel

LEMMA ReconcileWatch ==
    ASSUME TypeInv, RunningIsWatched, ReconcileFetched \/ ReconcileCleaned
    PROVE  RunningIsWatched'
<1>1. UNCHANGED <<mailbox, stop>>
    BY DEF ReconcileFetched, ReconcileCleaned
<1>2. CASE ReconcileFetched /\ reply = Failed
    <2>1. UNCHANGED <<running, task, mailbox, stop>>
        BY <1>1, <1>2 DEF ReconcileFetched
    <2>. QED
        BY <2>1 DEF RunningIsWatched, IsCurrent, TaskOf, Running, ExitQueued, closing
<1>3. ASSUME reply \in Snapshots, todo \subseteq DOMAIN reply, NEW cleaned,
             ReconcileRun(todo, cleaned)
      PROVE  RunningIsWatched'
    <2> DEFINE known == todo \cap Running
               terminal == {j \in known : IsTerminal(reply[j])}
    <2>1. CASE ApplyDecisions(known, {}, cleaned)
        BY <1>1, <1>3, <2>1, ApplyDecisionsWatch
    <2>2. ASSUME NEW t \in terminal, NEW P \in SUBSET (known \ terminal),
                 ApplyDecisions(P, {t}, cleaned)
          PROVE  RunningIsWatched'
        <3>1. /\ P \in SUBSET Running /\ P \subseteq DOMAIN reply
              /\ {t} \in SUBSET Running /\ P \cap {t} = {}
            BY <1>3
        <3>. QED
            BY <1>1, <1>3, <2>2, <3>1, ApplyDecisionsWatch
    <2>. QED
        BY <1>3, <2>1, <2>2 DEF ReconcileRun
<1>4. CASE ReconcileFetched /\ reply # Failed
    <2>1. reply \in Snapshots /\ todo \subseteq DOMAIN reply /\ ReconcileRun(todo, {})
        BY <1>4 DEF ReconcileFetched, TypeInv, TypeOK, HandlerFits
    <2>. QED
        BY <1>3, <2>1
<1>5. CASE ReconcileCleaned
    <2>1. reply \in Snapshots /\ todo \subseteq DOMAIN reply /\ ReconcileRun(todo, {hand})
        BY <1>5 DEF ReconcileCleaned, TypeInv, TypeOK, HandlerFits
    <2>. QED
        BY <1>3, <2>1
<1>. QED
    BY <1>2, <1>4, <1>5

LEMMA StartsWatch ==
    ASSUME TypeInv, RunningIsWatched, ClaimsAccounted, CandidatesFetched \/ RetryFetched
    PROVE  RunningIsWatched'
<1>1. UNCHANGED <<mailbox, stop>>
    BY DEF CandidatesFetched, RetryFetched
<1>2. CASE UNCHANGED <<running, task>>
    BY <1>1, <1>2 DEF RunningIsWatched, IsCurrent, TaskOf, Running, ExitQueued, closing
<1>3. CASE CandidatesFetched /\ reply # Failed
    <2>1. PICK order \in Orders(DOMAIN reply), D \in SUBSET Issues, F \in SUBSET Issues :
             /\ Pass(order, D, F, reply)
             /\ \E g \in [D -> Gens] : Dispatch(D, F, g, 0, reply)
        BY <1>3 DEF CandidatesFetched
    <2>2. PICK g \in [D -> Gens] : Dispatch(D, F, g, 0, reply)
        BY <2>1
    <2>3. reply \in Snapshots
        BY <1>3 DEF CandidatesFetched, TypeInv, TypeOK
    <2>4. (\A j \in D : reply[j] \in TrackerStates /\ g[j] \in Gens) /\ D \cap Running = {}
        BY <2>1, <2>3, SnapshotType, PassTakesFree DEF Free
    <2>. QED
        BY <1>1, <2>2, <2>4, NextAttemptType, WatchOnDispatch
<1>4. CASE RetryFetched /\ reply # Failed /\ Redispatch(hand)
    <2>1. hand \in Issues /\ hand \notin Running /\ handAttempt \in Attempts
        BY <1>4, NoneFacts DEF RetryFetched, TypeInv, TypeOK, HandlerFits, ClaimsAccounted, Held
    <2>2. PICK gn \in FreeGens(hand) :
            \/ Dispatch({hand}, {}, [j \in {hand} |-> gn], handAttempt, reply)
            \/ Dispatch({}, {hand}, [j \in {hand} |-> gn], handAttempt, reply)
        BY <1>4 DEF Redispatch
    <2> DEFINE g == [j \in {hand} |-> gn]
    <2>3. \A j \in {hand} : g[j] \in Gens
        BY DEF FreeGens
    <2>4. Dispatch({hand}, {}, g, handAttempt, reply) \/ Dispatch({}, {hand}, g, handAttempt, reply)
        BY <2>2
    <2> HIDE DEF g
    <2>5. CASE Dispatch({hand}, {}, g, handAttempt, reply) /\ reply[hand] \in TrackerStates
        BY <1>1, <2>1, <2>3, <2>5, WatchOnDispatch
    <2>6. CASE Dispatch({}, {hand}, g, handAttempt, reply)
        BY <1>1, <2>1, <2>3, <2>6, WatchOnDispatch
    <2>7. reply[hand] \in TrackerStates
        BY <1>4, SnapshotType DEF RetryFetched, TypeInv, TypeOK, HandlerFits
    <2>. QED
        BY <2>4, <2>5, <2>6, <2>7
<1>. QED
    BY <1>2, <1>3, <1>4 DEF CandidatesFetched, RetryFetched, Requeue, Release

LEMMA HandleWorkerExitWatch ==
    TypeInv /\ RunningIsWatched /\ HandleWorkerExit => RunningIsWatched'
<1> SUFFICES ASSUME TypeInv, RunningIsWatched, HandleWorkerExit PROVE RunningIsWatched'
    OBVIOUS
<1> DEFINE w == Head(mailbox).task
<1>1. w \in Task /\ w[1] \in Issues /\ mailbox \in Seq(Command)
    BY HeadType, CommandCases DEF HandleWorkerExit, Receive, TypeInv, TypeOK, Task
<1>2. /\ task' = [task EXCEPT ![w] = "free"]
      /\ IF IsCurrent(w) THEN running' = [running EXCEPT ![w[1]] = None]
         ELSE UNCHANGED running
      /\ mailbox # <<>> /\ Head(mailbox).type = "exit" /\ mailbox' = Tail(mailbox)
      /\ UNCHANGED stop
    BY DEF HandleWorkerExit, Receive
<1>3. \A v \in Task \ {w} : task'[v] = task[v] /\ TakesNone(ExitsOf(v))
    BY <1>1, <1>2 DEF ExitsOf, TakesNone, TypeInv, TypeOK
<1>4. task'[w] = "free"
    BY <1>1, <1>2 DEF TypeInv, TypeOK
<1>5. \A i \in Issues : (i = w[1] /\ IsCurrent(w)) \/ running'[i] = running[i]
    BY <1>1, <1>2 DEF TypeInv, TypeOK
<1>6. IsCurrent(w) => running'[w[1]] = None
    BY <1>1, <1>2 DEF TypeInv, TypeOK
<1> HIDE DEF w
<1>7. ASSUME NEW v \in Task, task'[v] = "live" PROVE IsCurrent(v)'
    <2>1. v # w /\ task[v] = "live" /\ v[1] \in Issues
        BY <1>3, <1>4, <1>7 DEF Task
    <2>2. IsCurrent(v)
        BY <2>1 DEF RunningIsWatched
    <2>3. running'[v[1]] = running[v[1]]
        BY <1>5, <2>1, <2>2 DEF IsCurrent
    <2>. QED
        BY <2>2, <2>3 DEF IsCurrent, TaskOf
<1>8. ASSUME ~closing', NEW i \in Running' PROVE Watched(i)'
    <2>1. running'[i] = running[i] /\ i \in Running
        BY <1>5, <1>6, <1>8 DEF Running
    <2>2. TaskOf(i) \in Task /\ TaskOf(i)' = TaskOf(i) /\ Watched(i) /\ TaskOf(i)[1] = i
        BY <1>2, <1>8, <2>1, TaskOfType DEF TaskOf, RunningIsWatched, Watched, closing
    <2>3. TaskOf(i) # w
        <3> SUFFICES ASSUME TaskOf(i) = w PROVE FALSE
            OBVIOUS
        <3>1. w[1] = i /\ IsCurrent(w)
            BY <2>1, <2>2 DEF IsCurrent, Running
        <3>. QED
            BY <1>6, <1>8, <3>1 DEF Running
    <2>4. ExitQueued(TaskOf(i)) => ExitQueued(TaskOf(i))'
        BY <1>1, <1>3, <2>2, <2>3, ExitStays
    <2>. QED
        BY <1>3, <2>2, <2>3, <2>4 DEF Watched, ExitQueued
<1>. QED
    BY <1>7, <1>8 DEF RunningIsWatched, Watched

LEMMA TaskEndsWatch ==
    ASSUME TypeInv, RunningIsWatched, NEW v \in Task, NEW ok \in BOOLEAN, TaskEnds(v, ok)
    PROVE  RunningIsWatched'
<1>1. /\ task' = [task EXCEPT ![v] = "exited"] /\ mailbox' = Append(mailbox, WorkerExit(v, ok))
      /\ running' = running /\ stop' = stop /\ mailbox \in Seq(Command)
      /\ WorkerExit(v, ok) \in Command
    BY CommandIntro DEF TaskEnds, stateVars, TypeInv, TypeOK
<1>2. task'[v] = "exited" /\ \A w \in Task \ {v} : task'[w] = task[w]
    BY <1>1 DEF TypeInv, TypeOK
<1>3. ExitQueued(v)'
    <2>1. /\ Len(mailbox) \in Nat /\ DOMAIN mailbox' = 1..(Len(mailbox) + 1)
          /\ mailbox'[Len(mailbox) + 1] = WorkerExit(v, ok)
        BY <1>1, AppendAt
    <2>2. Len(mailbox) + 1 \in DOMAIN mailbox'
        BY <2>1
    <2>3. WorkerExit(v, ok).type = "exit" /\ WorkerExit(v, ok).task = v
        BY DEF WorkerExit
    <2>. QED
        BY <2>1, <2>2, <2>3 DEF ExitQueued
<1>4. \A w \in Task : ExitQueued(w) => ExitQueued(w)'
    BY <1>1, ExitStays, TakesNoExit
<1>5. ASSUME NEW w \in Task, task'[w] = "live" PROVE IsCurrent(w)'
    <2>1. task[w] = "live"
        BY <1>2, <1>5
    <2>2. IsCurrent(w)
        BY <2>1 DEF RunningIsWatched
    <2>. QED
        BY <1>1, <2>2 DEF IsCurrent, TaskOf
<1>6. ASSUME ~closing', NEW i \in Running' PROVE Watched(i)'
    <2>1. i \in Running /\ TaskOf(i)' = TaskOf(i) /\ Watched(i) /\ TaskOf(i) \in Task
        BY <1>1, <1>6, TaskOfType DEF Running, TaskOf, RunningIsWatched, Watched, closing
    <2>. QED
        BY <1>2, <1>3, <1>4, <2>1 DEF Watched, ExitQueued
<1>. QED
    BY <1>5, <1>6 DEF RunningIsWatched, Watched

LEMMA RunningIsWatchedStep ==
    ASSUME TypeInv, ClaimsAccounted, RunningIsWatched, [Next]_vars
    PROVE  RunningIsWatched'
<1>1. ASSUME UNCHANGED <<running, task>>, \A w \in Task : TakesNone(ExitsOf(w))
      PROVE  RunningIsWatched'
    <2>1. closing => closing'
        BY ClosingStays
    <2>2. \A i \in Running' : /\ i \in Running /\ running'[i].gen = running[i].gen
                              /\ task'[TaskOf(i)] = task[TaskOf(i)]
        BY <1>1 DEF Running
    <2>3. \A w \in Task : task'[w] = "live" => task[w] = "live" /\ w[1] \in Running'
        BY <1>1 DEF RunningIsWatched, IsCurrent, Running, Task
    <2>. QED
        BY <1>1, <2>1, <2>2, <2>3, WatchStays
<1>2. CASE HandleTick
    BY <1>2, HandleTickWatch
<1>3. CASE ReconcileFetched \/ ReconcileCleaned
    BY <1>3, ReconcileWatch
<1>4. CASE CandidatesFetched \/ RetryFetched
    BY <1>4, StartsWatch
<1>5. CASE HandleWorkerExit
    BY <1>5, HandleWorkerExitWatch
<1>6. CASE HandleRetryFired \/ HandleApplyConfig \/ HandleStop
    BY <1>1, <1>6, TakesNoExit
       DEF HandleRetryFired, HandleApplyConfig, HandleStop, Receive, stateVars
<1>7. CASE RetryCleaned
    BY <1>1, <1>7, TakesNoExit DEF RetryCleaned, Release
<1>8. CASE TrackerAnswers \/ TrackerFails
    BY <1>1, <1>8, TakesNoExit DEF TrackerAnswers, TrackerFails, Answer, stateVars
<1>9. CASE TickTimerFires
    BY <1>1, <1>9, TakesNoExit, CommandIntro DEF TickTimerFires, stateVars
<1>10. ASSUME NEW i \in Issues, RetryTimerFires(i) PROVE RunningIsWatched'
    BY <1>1, <1>10, TakesNoExit, CommandIntro DEF RetryTimerFires
<1>11. ASSUME NEW w \in Task, WorkerFinishes(w) \/ WorkerUnwinds(w) PROVE RunningIsWatched'
    BY <1>11, TaskEndsWatch DEF WorkerFinishes, WorkerUnwinds
<1>12. CASE RequestTick \/ RequestConfig
    BY <1>1, <1>12, TakesNoExit, CommandIntro
       DEF RequestTick, RequestConfig, ArmTickTimer, Post, stateVars
<1>13. CASE CallStop
    <2>1. \A w \in Task : task[w] = "live" => w[1] \in Running /\ w = TaskOf(w[1])
        BY DEF RunningIsWatched, IsCurrent, Running, Task
    <2>2. \A w \in Task : task'[w] # "live"
        BY <1>13, <2>1 DEF CallStop, Cancelled, Running
    <2>. QED
        BY <1>13, <2>2 DEF CallStop, RunningIsWatched, closing
<1>14. CASE StopReturns \/ UNCHANGED vars
    BY <1>1, <1>14, TakesNoExit DEF StopReturns, vars, stateVars
<1>. QED
    BY <1>2, <1>3, <1>4, <1>5, <1>6, <1>7, <1>8, <1>9, <1>10, <1>11, <1>12, <1>13, <1>14
       DEF Next, Loop, Environment, Callers, Stopped

\* No worker runs without its entry and, until the service closes, no entry
\* holds its slot without a worker or an exit on its way.
THEOREM WorkersAreWatched == Spec => []RunningIsWatched
<1>1. Init => RunningIsWatched
    BY DEF Init, RunningIsWatched, Running
<1>2. TypeInv /\ ClaimsAccounted /\ RunningIsWatched /\ [Next]_vars => RunningIsWatched'
    BY RunningIsWatchedStep
<1>. QED
    BY <1>1, <1>2, TypeInvariant, ClaimsAreAccounted, PTL DEF Spec

-----------------------------------------------------------------------------
(* Slots                                                                   *)

InState(run, s) == {i \in Issues : run[i] # None /\ run[i].state = s}

LEMMA CountsAreNat ==
    ASSUME TypeInv
    PROVE  /\ limit \in Nat /\ Cardinality(Running) \in Nat
           /\ \A s : CountIn(running, s) \in Nat
           /\ \A s : StateLimit(s) \in Nat
<1>1. limit \in Nat
    BY LimitsAssumption DEF TypeInv, TypeOK
<1>2. Cardinality(Running) \in Nat
    BY IssuesAssumption, FS_Subset, FS_CardinalityType DEF Running
<1>3. ASSUME NEW s PROVE CountIn(running, s) \in Nat
    <2>1. InState(running, s) \in SUBSET Issues
        BY DEF InState
    <2>2. Cardinality(InState(running, s)) \in Nat
        BY <2>1, IssuesAssumption, FS_Subset, FS_CardinalityType
    <2>. QED
        BY <2>2 DEF CountIn, InState
<1>4. \A s : StateLimit(s) \in Nat
    BY <1>1, OverrideAssumption DEF StateLimit
<1>. QED
    BY <1>1, <1>2, <1>3, <1>4

LEMMA DisjointUnionSize ==
    ASSUME NEW S \in SUBSET Issues, NEW T \in SUBSET Issues, S \cap T = {}
    PROVE  /\ Cardinality(S) \in Nat /\ Cardinality(T) \in Nat
           /\ Cardinality(S \cup T) = Cardinality(S) + Cardinality(T)
<1>1. IsFiniteSet(S) /\ IsFiniteSet(T)
    BY IssuesAssumption, FS_Subset
<1>2. Cardinality(S \cup T) = Cardinality(S) + Cardinality(T) - Cardinality(S \cap T)
    BY <1>1, FS_Union
<1>3. Cardinality(S \cap T) = 0
    BY FS_EmptySet
<1>4. Cardinality(S) \in Nat /\ Cardinality(T) \in Nat
    BY <1>1, FS_CardinalityType
<1>. QED
    BY <1>2, <1>3, <1>4

\* What a round of dispatches adds to the global count and to those by state.
LEMMA DispatchCounts ==
    ASSUME TypeInv, NEW D \in SUBSET (Issues \ Running), NEW F \in SUBSET Issues,
           NEW g, \A i \in D : g[i] \in Gens,
           NEW attempt \in Attempts, NEW snap, \A i \in D : snap[i] \in TrackerStates,
           Dispatch(D, F, g, attempt, snap)
    PROVE  /\ Running' = Running \cup D
           /\ Cardinality(Running') = Cardinality(Running) + Cardinality(D)
           /\ \A i \in D : running'[i].state = snap[i]
           /\ \A s : CountIn(running', s) =
                        CountIn(running, s) + Cardinality({i \in D : snap[i] = s})
<1>1. Running' = Running \cup D
    BY DispatchSets
<1>2. Cardinality(Running \cup D) = Cardinality(Running) + Cardinality(D)
    <2>1. Running \in SUBSET Issues /\ D \in SUBSET Issues /\ Running \cap D = {}
        BY DEF Running
    <2>. QED
        BY <2>1, DisjointUnionSize
<1>3. \A i \in D : running'[i].state = snap[i]
    BY DEF Dispatch
<1>4. ASSUME NEW s
      PROVE  CountIn(running', s) =
                CountIn(running, s) + Cardinality({i \in D : snap[i] = s})
    <2> DEFINE T == {i \in D : snap[i] = s}
    <2>1. \A i \in D : running'[i] # None
        BY <1>1 DEF Running
    <2>2. \A i \in Issues \ D : running'[i] = running[i]
        BY DEF Dispatch
    <2>3. InState(running', s) = InState(running, s) \cup T
        BY <1>3, <2>1, <2>2 DEF InState, Running
    <2>4. InState(running, s) \cap T = {}
        BY DEF InState, Running
    <2>5. InState(running, s) \in SUBSET Issues /\ T \in SUBSET Issues
        BY DEF InState
    <2> HIDE DEF T
    <2>6. Cardinality(InState(running', s)) = Cardinality(InState(running, s)) + Cardinality(T)
        BY <2>3, <2>4, <2>5, DisjointUnionSize
    <2>. QED
        BY <2>6 DEF CountIn, InState, T
<1>. QED
    BY <1>1, <1>2, <1>3, <1>4

\* Only the two handlers that dispatch add to the running issues.
LEMMA OnlyDispatchStarts ==
    ASSUME TypeInv, ClaimsAccounted, [Next]_vars, ~CandidatesFetched, ~RetryFetched
    PROVE  Running' \subseteq Running
<1>1. CASE HandleTick
    BY <1>1 DEF HandleTick, Without, Running
<1>2. CASE ReconcileFetched \/ ReconcileCleaned
    <2>1. ASSUME NEW P \in SUBSET Running, NEW ending, NEW cleaned,
                 ApplyDecisions(P, ending, cleaned)
          PROVE  Running' \subseteq Running
        BY <2>1 DEF ApplyDecisions, Running
    <2>2. ASSUME NEW ids, NEW cleaned, ReconcileRun(ids, cleaned)
          PROVE  Running' \subseteq Running
        <3> DEFINE known == ids \cap Running
                   terminal == {j \in known : IsTerminal(reply[j])}
        <3>1. \/ ApplyDecisions(known, {}, cleaned)
              \/ \E t \in terminal, P \in SUBSET (known \ terminal) :
                    ApplyDecisions(P, {t}, cleaned)
            BY <2>2 DEF ReconcileRun
        <3>. QED
            BY <2>1, <3>1
    <2>. QED
        BY <1>2, <2>2 DEF ReconcileFetched, ReconcileCleaned, Running
<1>3. CASE HandleWorkerExit
    BY <1>3 DEF HandleWorkerExit, Running, TypeInv, TypeOK
<1>4. CASE UNCHANGED running
    BY <1>4 DEF Running
<1>. QED
    BY <1>1, <1>2, <1>3, <1>4
       DEF Next, Loop, HandleRetryFired, RetryCleaned, HandleApplyConfig, HandleStop, Release,
           Environment, TrackerAnswers, TrackerFails, Answer, TickTimerFires, RetryTimerFires,
           WorkerFinishes, WorkerUnwinds, TaskEnds, Callers, RequestTick, RequestConfig, Post,
           ArmTickTimer, CallStop, StopReturns, Stopped, stateVars, vars

\* Every nonempty set of naturals has a least element.
LEMMA LeastNatural ==
    ASSUME NEW S \in SUBSET Nat, S # {}
    PROVE  \E m \in S : \A n \in S : m <= n
<1>1. PICK m \in S : \A n \in S : ~(<<n, m>> \in OpToRel(<, Nat))
    BY WFMin, NatLessThanWellFounded, Zenon
<1>2. \A n \in S : ~(n < m)
    BY <1>1 DEF OpToRel
<1>. QED
    BY <1>2

\* The pass comes to some member of T last.
LEMMA LastOfPass ==
    ASSUME NEW S \in SUBSET Issues, NEW order \in Orders(S), NEW T \in SUBSET S, T # {}
    PROVE  \E k \in DOMAIN order :
              order[k] \in T /\ T \ {order[k]} \subseteq {order[j] : j \in 1 .. k - 1}
<1> DEFINE n == Cardinality(S)
           K == {k \in 1 .. n : order[k] \in T}
           M == {n - k : k \in K}
<1>1. n \in Nat
    BY IssuesAssumption, FS_Subset, FS_CardinalityType
<1>2. DOMAIN order = 1 .. n /\ \A i \in T : \E k \in K : order[k] = i
    BY DEF Orders
<1> HIDE DEF n
<1>3. M \in SUBSET Nat /\ M # {}
    BY <1>1, <1>2
<1>4. PICK m \in M : \A l \in M : m <= l
    BY <1>3, LeastNatural
<1>5. PICK k \in K : m = n - k
    OBVIOUS
<1>6. ASSUME NEW j \in K PROVE j <= k
    <2>1. n - j \in M
        OBVIOUS
    <2>2. j \in 1 .. n /\ k \in 1 .. n
        OBVIOUS
    <2> HIDE DEF M, K
    <2>. QED
        BY <1>1, <1>4, <1>5, <2>1, <2>2
<1>7. ASSUME NEW i \in T \ {order[k]} PROVE i \in {order[j] : j \in 1 .. k - 1}
    <2>1. PICK j \in K : order[j] = i
        BY <1>2
    <2>2. j # k /\ j <= k
        BY <1>6, <2>1
    <2>3. j \in 1 .. k - 1
        BY <1>1, <2>2
    <2>. QED
        BY <2>1, <2>3
<1>. QED
    BY <1>2, <1>7

\* A set of issues, one of its members apart, against another set.
LEMMA AllButOne ==
    ASSUME NEW T \in SUBSET Issues, NEW U \in SUBSET Issues, NEW i \in T, T \ {i} \subseteq U
    PROVE  Cardinality(T) \in Nat /\ Cardinality(U) \in Nat /\ Cardinality(T) <= Cardinality(U) + 1
<1>1. IsFiniteSet(T) /\ IsFiniteSet(U)
    BY IssuesAssumption, FS_Subset
<1>2. IsFiniteSet(T \ {i}) /\ Cardinality(T \ {i}) = Cardinality(T) - 1
    BY <1>1, FS_RemoveElement
<1>3. Cardinality(T \ {i}) <= Cardinality(U)
    BY <1>1, FS_Subset
<1>. QED
    BY <1>1, <1>2, <1>3, FS_CardinalityType

LEMMA SmallerSize ==
    ASSUME NEW U \in SUBSET Issues, NEW T \in SUBSET U
    PROVE  Cardinality(T) \in Nat /\ Cardinality(U) \in Nat /\ Cardinality(T) <= Cardinality(U)
<1>1. IsFiniteSet(T) /\ IsFiniteSet(U)
    BY IssuesAssumption, FS_Subset
<1>. QED
    BY <1>1, FS_Subset, FS_CardinalityType

OfState(S, snap, s) == {i \in S : snap[i] = s}

\* The last one started saw a slot that all started before it had left: so all
\* of them together fit.  The same for those of one state.
LEMMA PassFits ==
    ASSUME TypeInv, NEW snap, DOMAIN snap \in SUBSET Issues, NEW order \in Orders(DOMAIN snap),
           NEW D, NEW F, Pass(order, D, F, snap)
    PROVE  /\ D # {} => Cardinality(Running) + Cardinality(D) <= limit
           /\ \A s : OfState(D, snap, s) # {} =>
                 CountIn(running, s) + CountOf(D, snap, s) <= StateLimit(s)
<1> DEFINE Earlier(k) == {order[j] : j \in 1 .. k - 1}
<1>1. D \in SUBSET DOMAIN snap /\ D \in SUBSET Issues
    BY DEF Pass
<1>2. \A k \in DOMAIN order : order[k] \in D => HasSlotFor(snap[order[k]], D \cap Earlier(k), snap)
    BY DEF Pass, MayStart
<1>3. \A k \in DOMAIN order : D \cap Earlier(k) \in SUBSET Issues
    BY <1>1
<1>4. ASSUME D # {} PROVE Cardinality(Running) + Cardinality(D) <= limit
    <2>1. PICK k \in DOMAIN order : order[k] \in D /\ D \ {order[k]} \subseteq Earlier(k)
        BY <1>1, <1>4, LastOfPass
    <2> DEFINE U == D \cap Earlier(k)
    <2>2. Cardinality(Running) + Cardinality(U) < limit
        BY <1>2, <2>1 DEF HasSlotFor
    <2>3. U \in SUBSET Issues /\ D \ {order[k]} \subseteq U
        BY <1>3, <2>1
    <2> HIDE DEF U
    <2>4. Cardinality(D) \in Nat /\ Cardinality(U) \in Nat /\ Cardinality(D) <= Cardinality(U) + 1
        BY <1>1, <2>1, <2>3, AllButOne
    <2>. QED
        BY <2>2, <2>4, CountsAreNat
<1>5. ASSUME NEW s, OfState(D, snap, s) # {}
      PROVE  CountIn(running, s) + CountOf(D, snap, s) <= StateLimit(s)
    <2> DEFINE T == OfState(D, snap, s)
    <2>1. T \in SUBSET DOMAIN snap /\ T \in SUBSET Issues
        BY <1>1 DEF OfState
    <2>2. PICK k \in DOMAIN order : order[k] \in T /\ T \ {order[k]} \subseteq Earlier(k)
        BY <1>5, <2>1, LastOfPass
    <2> DEFINE U == OfState(D \cap Earlier(k), snap, s)
    <2>3. order[k] \in D /\ snap[order[k]] = s
        BY <2>2 DEF OfState
    <2>4. CountIn(running, s) + Cardinality(U) < StateLimit(s)
        BY <1>2, <2>3 DEF HasSlotFor, CountOf, OfState
    <2>5. U \in SUBSET Issues /\ T \ {order[k]} \subseteq U
        BY <1>3, <2>2 DEF OfState
    <2>6. CountOf(D, snap, s) = Cardinality(T)
        BY DEF CountOf, OfState
    <2> HIDE DEF U, T
    <2>7. Cardinality(T) \in Nat /\ Cardinality(U) \in Nat /\ Cardinality(T) <= Cardinality(U) + 1
        BY <2>1, <2>2, <2>5, AllButOne
    <2>. QED
        BY <2>4, <2>6, <2>7, CountsAreNat
<1>. QED
    BY <1>4, <1>5

\* A free candidate that is left out met a limit, and what is started after it
\* gives nothing back.
LEMMA PassLeavesNoSlot ==
    ASSUME TypeInv, NEW snap, DOMAIN snap \in SUBSET Issues, NEW order \in Orders(DOMAIN snap),
           NEW D, NEW F, Pass(order, D, F, snap),
           NEW i \in DOMAIN snap, i \notin D \cup F,
           Eligible(snap[i]), Free(i), FreeGens(i) # {}
    PROVE  \/ Cardinality(Running) + Cardinality(D) >= limit
           \/ CountIn(running, snap[i]) + CountOf(D, snap, snap[i]) >= StateLimit(snap[i])
<1>1. PICK k \in DOMAIN order : order[k] = i
    BY DEF Orders
<1> DEFINE U == D \cap {order[j] : j \in 1 .. k - 1}
           s == snap[i]
<1>2. ~HasSlotFor(s, U, snap)
    BY <1>1 DEF Pass, MayStart
<1>3. D \in SUBSET Issues /\ U \in SUBSET D
    BY DEF Pass
<1>4. OfState(D, snap, s) \in SUBSET Issues /\ OfState(U, snap, s) \in SUBSET OfState(D, snap, s)
    BY <1>3 DEF OfState
<1> HIDE DEF U, s
<1>5. ~(Cardinality(Running) + Cardinality(U) < limit)
      \/ ~(CountIn(running, s) + Cardinality(OfState(U, snap, s)) < StateLimit(s))
    BY <1>2 DEF HasSlotFor, CountOf, OfState
<1>6. /\ Cardinality(U) \in Nat /\ Cardinality(D) \in Nat /\ Cardinality(U) <= Cardinality(D)
      /\ Cardinality(OfState(U, snap, s)) \in Nat /\ Cardinality(OfState(D, snap, s)) \in Nat
      /\ Cardinality(OfState(U, snap, s)) <= Cardinality(OfState(D, snap, s))
    BY <1>3, <1>4, SmallerSize
<1>7. CountOf(D, snap, s) = Cardinality(OfState(D, snap, s))
    BY DEF CountOf, OfState
<1>. QED
    BY <1>5, <1>6, <1>7, CountsAreNat DEF s

StartFits(i) ==
    /\ Cardinality(Running') <= limit
    /\ CountIn(running', running'[i].state) <= StateLimit(running'[i].state)

LEMMA CandidatesFit ==
    ASSUME TypeInv, CandidatesFetched, NEW i \in Running' \ Running
    PROVE  StartFits(i)
<1>1. reply # Failed
    BY DEF CandidatesFetched, Running
<1>2. PICK order \in Orders(DOMAIN reply), D \in SUBSET Issues, F \in SUBSET Issues :
         /\ Pass(order, D, F, reply)
         /\ \E g \in [D -> Gens] : Dispatch(D, F, g, 0, reply)
    BY <1>1 DEF CandidatesFetched
<1>3. PICK g \in [D -> Gens] : Dispatch(D, F, g, 0, reply)
    BY <1>2
<1>4. reply \in Snapshots
    BY <1>1 DEF CandidatesFetched, TypeInv, TypeOK
<1>5. /\ \A j \in D : reply[j] \in TrackerStates /\ g[j] \in Gens
      /\ D \in SUBSET (Issues \ Running)
    BY <1>2, <1>4, SnapshotType, PassTakesFree DEF Free
<1>6. /\ Running' = Running \cup D
      /\ Cardinality(Running') = Cardinality(Running) + Cardinality(D)
      /\ \A j \in D : running'[j].state = reply[j]
      /\ \A s : CountIn(running', s) =
                   CountIn(running, s) + Cardinality({j \in D : reply[j] = s})
    BY <1>3, <1>5, NextAttemptType, DispatchCounts
<1>7. i \in D /\ running'[i].state = reply[i] /\ OfState(D, reply, reply[i]) # {}
    BY <1>6 DEF OfState
<1>8. DOMAIN reply \in SUBSET Issues
    BY <1>4, SnapshotType
<1>9. /\ D # {} => Cardinality(Running) + Cardinality(D) <= limit
      /\ \A s : OfState(D, reply, s) # {} =>
            CountIn(running, s) + CountOf(D, reply, s) <= StateLimit(s)
    BY <1>2, <1>8, PassFits
<1>10. /\ Cardinality(Running) + Cardinality(D) <= limit
       /\ CountIn(running, reply[i]) + Cardinality({j \in D : reply[j] = reply[i]})
             <= StateLimit(reply[i])
    BY <1>7, <1>9 DEF CountOf
<1>. QED
    BY <1>6, <1>7, <1>10 DEF StartFits

\* A candidate that a pass neither starts nor queues found no slot.
LEMMA CandidatesAreServed ==
    ASSUME TypeInv, CandidatesFetched, reply # Failed, ~closing
    PROVE  NoneLeftOut
<1>2. PICK order \in Orders(DOMAIN reply), D \in SUBSET Issues, F \in SUBSET Issues :
         /\ Pass(order, D, F, reply)
         /\ \E g \in [D -> Gens] : Dispatch(D, F, g, 0, reply)
    BY DEF CandidatesFetched
<1>3. PICK g \in [D -> Gens] : Dispatch(D, F, g, 0, reply)
    BY <1>2
<1>4. reply \in Snapshots
    BY DEF CandidatesFetched, TypeInv, TypeOK
<1>5. /\ \A j \in D : reply[j] \in TrackerStates /\ g[j] \in Gens
      /\ D \in SUBSET (Issues \ Running)
    BY <1>2, <1>4, SnapshotType, PassTakesFree DEF Free
<1>6. /\ Running' = Running \cup D
      /\ Cardinality(Running') = Cardinality(Running) + Cardinality(D)
      /\ \A s : CountIn(running', s) =
                   CountIn(running, s) + Cardinality({j \in D : reply[j] = s})
    BY <1>3, <1>5, NextAttemptType, DispatchCounts
<1>7. DOMAIN reply \in SUBSET Issues
    BY <1>4, SnapshotType
<1>8. ASSUME NEW i \in DOMAIN reply, Eligible(reply[i]), Free(i), FreeGens(i) # {}, PassedOver(i)
      PROVE  \/ Cardinality(Running') >= limit
             \/ CountIn(running', reply[i]) >= StateLimit(reply[i])
    <2>1. i \notin D
        BY <1>6, <1>8 DEF PassedOver
    <2>2. i \notin F
        <3>1. SUFFICES ASSUME i \in F PROVE retry'[i] # None
            BY <1>8 DEF PassedOver
        <3>2. [j \in F |-> NextAttempt(0)][i] \in Attempts \ {0}
            BY <3>1, NextAttemptType
        <3>3. retry' = ScheduleRetry(F, [j \in F |-> NextAttempt(0)], Without(D, retry))
            BY <1>3 DEF Dispatch
        <3> DEFINE e == [attempt |-> [j \in F |-> NextAttempt(0)][i], timer |-> "armed"]
        <3>4. retry'[i] = e
            BY <3>1, <3>3 DEF ScheduleRetry
        <3>5. e \in RetryEntry
            BY <3>2 DEF RetryEntry
        <3>. QED
            BY <3>4, <3>5, NoneFacts
    <2>3. \/ Cardinality(Running) + Cardinality(D) >= limit
          \/ CountIn(running, reply[i]) + CountOf(D, reply, reply[i]) >= StateLimit(reply[i])
        BY <1>2, <1>7, <1>8, <2>1, <2>2, PassLeavesNoSlot
    <2>. QED
        BY <1>6, <2>3 DEF CountOf
<1>. QED
    BY <1>8 DEF NoneLeftOut

LEMMA RetryFits ==
    ASSUME TypeInv, ClaimsAccounted, RetryFetched, NEW i \in Running' \ Running
    PROVE  StartFits(i)
<1>1. hand \in Issues /\ hand \notin Running /\ handAttempt \in Attempts
    BY NoneFacts DEF RetryFetched, TypeInv, TypeOK, HandlerFits, ClaimsAccounted, Held
<1>2. reply # Failed /\ HasSlotFor(reply[hand], {}, reply) /\ Redispatch(hand)
    BY DEF RetryFetched, Requeue, Release, Running
<1>3. reply[hand] \in TrackerStates
    BY <1>2, SnapshotType DEF RetryFetched, TypeInv, TypeOK, HandlerFits
<1>4. PICK gn \in FreeGens(hand) :
         \/ Dispatch({hand}, {}, [j \in {hand} |-> gn], handAttempt, reply)
         \/ Dispatch({}, {hand}, [j \in {hand} |-> gn], handAttempt, reply)
    BY <1>2 DEF Redispatch
<1> DEFINE g == [j \in {hand} |-> gn]
<1>5. \A j \in {hand} : g[j] \in Gens
    BY DEF FreeGens
<1>6. Dispatch({hand}, {}, g, handAttempt, reply) \/ Dispatch({}, {hand}, g, handAttempt, reply)
    BY <1>4
<1> HIDE DEF g
<1>7. CASE Dispatch({}, {hand}, g, handAttempt, reply)
    BY <1>7 DEF Dispatch, Running
<1>8. CASE Dispatch({hand}, {}, g, handAttempt, reply)
    <2>1. {hand} \in SUBSET (Issues \ Running) /\ {} \in SUBSET Issues
        BY <1>1
    <2>2. /\ Running' = Running \cup {hand}
          /\ Cardinality(Running') = Cardinality(Running) + Cardinality({hand})
          /\ \A j \in {hand} : running'[j].state = reply[j]
          /\ \A s : CountIn(running', s) =
                       CountIn(running, s) + Cardinality({j \in {hand} : reply[j] = s})
        BY <1>1, <1>3, <1>5, <1>8, <2>1, DispatchCounts
    <2>3. i = hand /\ running'[i].state = reply[i]
        BY <2>2
    <2>4. {j \in {hand} : reply[j] = reply[i]} = {hand} /\ Cardinality({hand}) = 1
        BY <2>3, FS_Singleton
    <2>5. Cardinality(Running') = Cardinality(Running) + 1
          /\ CountIn(running', reply[i]) = CountIn(running, reply[i]) + 1
        BY <2>2, <2>4
    <2>6. /\ Cardinality(Running) < limit /\ CountIn(running, reply[i]) < StateLimit(reply[i])
          /\ limit \in Nat /\ Cardinality(Running) \in Nat
          /\ CountIn(running, reply[i]) \in Nat /\ StateLimit(reply[i]) \in Nat
        <3>1. {j \in {} : reply[j] = reply[i]} = {} /\ Cardinality({}) = 0
            BY FS_EmptySet
        <3>2. CountOf({}, reply, reply[i]) = 0
            BY <3>1 DEF CountOf
        <3>. QED
            BY <1>2, <2>3, <3>1, <3>2, CountsAreNat DEF HasSlotFor
    <2>. QED
        BY <2>3, <2>5, <2>6 DEF StartFits
<1>. QED
    BY <1>6, <1>7, <1>8

LEMMA StartsFitStep ==
    ASSUME TypeInv, ClaimsAccounted, [Next]_vars
    PROVE  StartsFit
BY CandidatesFit, RetryFits, OnlyDispatchStarts DEF StartsFit, StartFits

\* Only the pass itself leaves the fetch of the candidates.
LEMMA PassEndsFetch ==
    ASSUME TypeInv, [Next]_vars, at = "candidate_fetch", at' = "get"
    PROVE  CandidatesFetched
BY DEF Next, Loop, HandleTick, ReconcileFetched, ReconcileCleaned, HandleRetryFired, RetryFetched,
       RetryCleaned, HandleWorkerExit, HandleApplyConfig, HandleStop, Receive, Environment,
       TrackerAnswers, TrackerFails, Answer, TickTimerFires, RetryTimerFires, WorkerFinishes,
       WorkerUnwinds, TaskEnds, Callers, RequestTick, RequestConfig, Post, ArmTickTimer, CallStop,
       StopReturns, Stopped, stateVars, loopVars, vars

\* However many workers a pass over the candidates or a retry starts, all of
\* them together fit the global limit and those of their states; and a pass
\* leaves no candidate waiting whose slots are not used up.
THEOREM SlotsAreFilled == Spec => StartsFillSlots
<1>1. TypeInv /\ ClaimsAccounted /\ [Next]_vars =>
        [/\ StartsFit
         /\ at = "candidate_fetch" /\ at' = "get" /\ reply # Failed /\ ~closing
               => NoneLeftOut]_vars
    BY StartsFitStep, PassEndsFetch, CandidatesAreServed
<1>. QED
    BY <1>1, TypeInvariant, ClaimsAreAccounted, PTL DEF Spec, StartsFillSlots

-----------------------------------------------------------------------------
(* The refinement of ClaimLifecycle                                        *)

\* Once stop() was called no entry is left and none is made.
NoQueueWhenClosing == closing => RetryQueued = {}

LEMMA NoQueueStep ==
    ASSUME TypeInv, ClaimsAccounted, NoQueueWhenClosing, [Next]_vars
    PROVE  NoQueueWhenClosing'
<1>1. CASE CallStop
    BY <1>1 DEF CallStop, NoQueueWhenClosing, RetryQueued
<1>2. CASE ~CallStop
    <2>1. closing' => closing
        BY <1>2 DEF Next, Loop, Environment, Callers, Stopped, HandleTick, ReconcileFetched,
               ReconcileCleaned, CandidatesFetched, HandleRetryFired, RetryFetched, RetryCleaned,
               HandleWorkerExit, HandleApplyConfig, HandleStop, Receive, TrackerAnswers,
               TrackerFails, Answer, TickTimerFires, RetryTimerFires, WorkerFinishes,
               WorkerUnwinds, TaskEnds, RequestTick, ArmTickTimer, RequestConfig, Post,
               StopReturns, vars, closing
    <2>2. ASSUME closing, NEW i \in Issues PROVE retry'[i] = None
        <3>1. retry[i] = None
            BY <2>2 DEF NoQueueWhenClosing, RetryQueued
        <3>2. Effect(i)
            BY <1>2, StepEffect
        <3>. QED
            BY <2>2, <3>1, <3>2
               DEF Effect, Kept, Refreshed, TimerDue, Retried, Scheduled, Dropped, Cleaning,
                   Started, Requeued, Popped, Released
    <2>. QED
        BY <2>1, <2>2 DEF NoQueueWhenClosing, RetryQueued
<1>. QED
    BY <1>1, <1>2

\* An issue that is not running, not queued and given up is unclaimed; the
\* other claim states in terms of the three maps.
LEMMA ClaimIs ==
    ASSUME NEW i \in Issues
    PROVE  /\ ClaimOf(i) = IF running[i] # None THEN "Running"
                           ELSE IF retry[i] # None THEN "RetryQueued"
                           ELSE IF i \in claimed THEN "Claimed" ELSE "Unclaimed"
           /\ ClaimOf(i)' = IF running'[i] # None THEN "Running"
                            ELSE IF retry'[i] # None THEN "RetryQueued"
                            ELSE IF i \in claimed' THEN "Claimed" ELSE "Unclaimed"
BY DEF ClaimOf, Running, RetryQueued

\* The facts of an issue that the moves depend on.
LEMMA ClaimFacts ==
    ASSUME TypeInv, ClaimsAccounted, NoQueueWhenClosing, NEW i \in Issues
    PROVE  /\ running[i] # None => retry[i] = None
           /\ hand = i => running[i] = None /\ retry[i] = None
           /\ retry[i] # None => ~closing /\ i \in claimed
           /\ ~closing /\ running[i] # None => i \in claimed
BY NoneFacts DEF ClaimsAccounted, NoQueueWhenClosing, Running, RetryQueued, Held

LEMMA EffectMoves ==
    ASSUME TypeInv, ClaimsAccounted, NoQueueWhenClosing, NEW i \in Issues, Effect(i)
    PROVE  \/ ClaimOf(i)' = ClaimOf(i)
           \/ <<ClaimOf(i), ClaimOf(i)'>> \in Lifecycle!Moves
<1>1. CASE Kept(i)
    BY <1>1, ClaimIs DEF Kept, ClaimSame
<1>2. CASE Refreshed(i)
    <2>1. running[i] # None /\ running[i] \in RunningEntry
        BY <1>2 DEF Refreshed, Running, TypeInv, TypeOK
    <2>2. PICK s \in TrackerStates : running'[i] = [running[i] EXCEPT !.state = s]
        BY <1>2 DEF Refreshed
    <2>3. running'[i] \in RunningEntry
        BY <2>1, <2>2 DEF RunningEntry
    <2>. QED
        BY <2>1, <2>3, NoneFacts, ClaimIs
<1>3. CASE TimerDue(i)
    <2>1. retry[i] \in RetryEntry /\ running'[i] = running[i]
        BY <1>3 DEF TimerDue, TypeInv, TypeOK
    <2>2. retry'[i] \in RetryEntry
        BY <1>3, <2>1 DEF TimerDue, RetryEntry
    <2>. QED
        BY <1>3, <2>1, <2>2, NoneFacts, ClaimIs DEF TimerDue
<1>4. ASSUME NEW least, Scheduled(i, least)
      PROVE  ClaimOf(i)' = IF closing THEN "Unclaimed" ELSE "RetryQueued"
    <2>1. CASE closing
        BY <1>4, <2>1, ClaimIs DEF Scheduled
    <2>2. CASE ~closing
        <3>1. PICK a \in Attempts \ {0} : retry'[i] = Armed(a)
            BY <1>4, <2>2 DEF Scheduled
        <3>2. retry'[i] \in RetryEntry
            BY <3>1 DEF Armed, RetryEntry
        <3>. QED
            BY <1>4, <2>2, <3>2, NoneFacts, ClaimIs DEF Scheduled
    <2>. QED
        BY <2>1, <2>2
<1>5. CASE Retried(i)
    <2>1. ClaimOf(i) = "Running"
        BY <1>5 DEF Retried, ClaimOf
    <2>2. ClaimOf(i)' = "Unclaimed" \/ ClaimOf(i)' = "RetryQueued"
        BY <1>4, <1>5 DEF Retried
    <2>. QED
        BY <2>1, <2>2 DEF Lifecycle!Moves
<1>6. CASE Dropped(i)
    <2>1. ClaimOf(i) = "Running" /\ ClaimOf(i)' = "Unclaimed"
        BY <1>6, ClaimIs DEF Dropped, Running
    <2>. QED
        BY <2>1 DEF Lifecycle!Moves
<1>7. CASE Cleaning(i)
    <2>1. ClaimOf(i) = "Running" /\ retry'[i] = None /\ running'[i] = None
        BY <1>7, ClaimIs, ClaimFacts DEF Cleaning, Running
    <2>2. ClaimOf(i)' = "Claimed" \/ ClaimOf(i)' = "Unclaimed"
        BY <2>1, ClaimIs
    <2>. QED
        BY <2>1, <2>2 DEF Lifecycle!Moves
<1>8. ASSUME Takes(i) PROVE ClaimOf(i) = "Claimed" \/ ClaimOf(i) = "Unclaimed"
    BY <1>8, ClaimIs, ClaimFacts DEF Takes, Running
<1>9. CASE Started(i)
    <2>1. ClaimOf(i)' = "Running"
        BY <1>9, NoneFacts, ClaimIs DEF Started
    <2>. QED
        BY <1>8, <1>9, <2>1 DEF Started, Lifecycle!Moves
<1>10. CASE Requeued(i)
    <2>1. ClaimOf(i)' = "Unclaimed" \/ ClaimOf(i)' = "RetryQueued"
        BY <1>4, <1>10 DEF Requeued
    <2>. QED
        BY <1>8, <1>10, <2>1 DEF Requeued, Lifecycle!Moves
<1>11. CASE Popped(i)
    <2>1. /\ retry[i] # None /\ running[i] = None /\ i \in claimed /\ ~closing
          /\ running'[i] = None /\ retry'[i] = None /\ i \in claimed'
        BY <1>11, ClaimFacts DEF Popped, ClaimSame
    <2>2. ClaimOf(i) = "RetryQueued" /\ ClaimOf(i)' = "Claimed"
        BY <2>1, ClaimIs
    <2>. QED
        BY <2>2 DEF Lifecycle!Moves
<1>12. CASE Released(i)
    <2>1. ClaimOf(i)' = "Unclaimed" /\ (ClaimOf(i) = "Claimed" \/ ClaimOf(i) = "Unclaimed")
        BY <1>12, ClaimIs, ClaimFacts DEF Released
    <2>. QED
        BY <2>1 DEF Lifecycle!Moves
<1>. QED
    BY <1>1, <1>2, <1>3, <1>5, <1>6, <1>7, <1>9, <1>10, <1>11, <1>12 DEF Effect

LEMMA InitRefines == Init => Lifecycle!Init
BY ClaimIs DEF Init, Lifecycle!Init, closing

\* The limit and the closing of the service change in two actions only.
LEMMA LimitAndClosing ==
    ASSUME TypeInv, [Next]_vars, ~HandleApplyConfig, ~CallStop
    PROVE  limit' = limit /\ (closing' <=> closing)
BY DEF Next, Loop, Environment, Callers, Stopped, HandleTick, ReconcileFetched,
       ReconcileCleaned, CandidatesFetched, HandleRetryFired, RetryFetched, RetryCleaned,
       HandleWorkerExit, HandleStop, Receive, TrackerAnswers, TrackerFails, Answer,
       TickTimerFires, RetryTimerFires, WorkerFinishes, WorkerUnwinds, TaskEnds,
       RequestTick, ArmTickTimer, RequestConfig, Post, StopReturns, stateVars, vars, closing

\* While the service is open one issue at most is in hand after a step.
LEMMA OneInHandNext ==
    ASSUME TypeInv', ClaimsAccounted', ~closing'
    PROVE  Cardinality({i \in Issues : ClaimOf(i)' = "Claimed"}) <= 1
<1> DEFINE C == {i \in Issues : ClaimOf(i)' = "Claimed"}
<1>1. \A i \in C : i = hand'
    BY DEF ClaimOf, ClaimsAccounted, Held
<1>2. C = {} \/ C = {hand'}
    BY <1>1
<1>3. Cardinality({}) = 0 /\ Cardinality({hand'}) = 1
    BY FS_EmptySet, FS_Singleton
<1> HIDE DEF C
<1>4. Cardinality(C) <= 1
    BY <1>2, <1>3
<1>. QED
    BY <1>4 DEF C

\* The instance counts as this module does.
LEMMA SameCardinality ==
    ASSUME NEW S
    PROVE  Lifecycle!Cardinality(S) = Cardinality(S)
BY DEF Lifecycle!Cardinality, Cardinality, Lifecycle!IsFiniteSet, IsFiniteSet

\* Every step but a reload and stop() is one handler step of the lifecycle.
LEMMA HandleRefines ==
    ASSUME TypeInv, ClaimsAccounted, NoQueueWhenClosing, [Next]_vars,
           TypeInv', ClaimsAccounted', NoQueueWhenClosing',
           ~HandleApplyConfig, ~CallStop
    PROVE  Lifecycle!Handle
<1> DEFINE claim == [i \in Issues |-> ClaimOf(i)]
<1>1. \A i \in Issues : claim'[i] = ClaimOf(i)'
    OBVIOUS
<1>2. claim' \in [Issues -> Lifecycle!ClaimState]
    BY DEF ClaimOf, Lifecycle!ClaimState
<1>3. \A i \in Issues : claim'[i] = claim[i] \/ <<claim[i], claim'[i]>> \in Lifecycle!Moves
    BY StepEffect, EffectMoves
<1>4. {i \in Issues : claim'[i] = "Running"} = Running'
    BY DEF ClaimOf, Running
<1>5. {i \in Issues : claim'[i] = "Running" /\ claim[i] # "Running"} = Running' \ Running
    BY DEF ClaimOf, Running
<1>6. Running' \ Running # {} => Cardinality(Running') <= limit
    BY StartsFitStep DEF StartsFit
<1>7. limit' = limit /\ (closing' <=> closing)
    BY LimitAndClosing
<1>8. ~closing => Cardinality({i \in Issues : claim'[i] = "Claimed"}) <= 1
    <2>1. {i \in Issues : claim'[i] = "Claimed"} = {i \in Issues : ClaimOf(i)' = "Claimed"}
        BY <1>1
    <2>. QED
        BY <1>7, <2>1, OneInHandNext
<1>9. closing => \A i \in Issues : claim'[i] # "RetryQueued"
    BY <1>7 DEF NoQueueWhenClosing, ClaimOf, RetryQueued
<1>10. {i \in Issues : claim'[i] = "Running" /\ claim[i] # "Running"} # {}
          => Lifecycle!Cardinality({i \in Issues : claim'[i] = "Running"}) <= limit
    BY <1>4, <1>5, <1>6, SameCardinality
<1>11. ~closing => Lifecycle!Cardinality({i \in Issues : claim'[i] = "Claimed"}) <= 1
    BY <1>8, SameCardinality
<1> HIDE DEF claim
<1>. QED
    BY <1>2, <1>3, <1>7, <1>9, <1>10, <1>11 DEF Lifecycle!Handle, claim

LEMMA ReconfigureRefines ==
    ASSUME TypeInv, TypeInv', HandleApplyConfig
    PROVE  Lifecycle!Reconfigure
<1>1. limit' \in Limits
    BY DEF TypeInv, TypeOK
<1>2. UNCHANGED <<running, claimed, retry, stop>>
    BY DEF HandleApplyConfig, Receive
<1>3. \A i \in Issues : ClaimOf(i)' = ClaimOf(i)
    BY <1>2, ClaimIs
<1>4. closing' <=> closing
    BY <1>2 DEF closing
<1>. QED
    BY <1>1, <1>3, <1>4 DEF Lifecycle!Reconfigure

LEMMA CloseRefines ==
    ASSUME TypeInv, ClaimsAccounted, NoQueueWhenClosing, CallStop
    PROVE  Lifecycle!Close
<1>1. ~closing /\ closing' /\ limit' = limit
    BY DEF CallStop, closing
<1>2. ASSUME NEW i \in Issues
      PROVE  ClaimOf(i)' = IF ClaimOf(i) = "RetryQueued" THEN "Claimed" ELSE ClaimOf(i)
    <2>1. running'[i] = running[i] /\ claimed' = claimed /\ retry'[i] = None
        BY DEF CallStop
    <2>. QED
        BY <2>1, ClaimIs, ClaimFacts
<1>. QED
    BY <1>1, <1>2 DEF Lifecycle!Close

LEMMA StepRefines ==
    ASSUME TypeInv, ClaimsAccounted, NoQueueWhenClosing, [Next]_vars,
           TypeInv', ClaimsAccounted', NoQueueWhenClosing'
    PROVE  [Lifecycle!Next]_(Lifecycle!vars)
BY HandleRefines, ReconfigureRefines, CloseRefines DEF Lifecycle!Next

\* Seen through claim_state the orchestrator makes only the moves of
\* ClaimLifecycle: whatever timers, workers, callers and the tracker interleave,
\* an issue goes from one claim state to the next as promised, one issue is in
\* hand at a time, and the limit binds every start.
THEOREM RefinesClaimLifecycle == Spec => ImplementsLifecycle
<1>1. Init => Lifecycle!Init /\ NoQueueWhenClosing
    BY InitRefines DEF Init, NoQueueWhenClosing, closing
<1>2. TypeInv /\ ClaimsAccounted /\ NoQueueWhenClosing /\ [Next]_vars => NoQueueWhenClosing'
    BY NoQueueStep
<1>3. /\ TypeInv /\ ClaimsAccounted /\ NoQueueWhenClosing /\ [Next]_vars
      /\ TypeInv' /\ ClaimsAccounted' /\ NoQueueWhenClosing'
      => [Lifecycle!Next]_(Lifecycle!vars)
    BY StepRefines
<1>. QED
    BY <1>1, <1>2, <1>3, TypeInvariant, ClaimsAreAccounted, PTL
       DEF Spec, ImplementsLifecycle, Lifecycle!Spec

=============================================================================
