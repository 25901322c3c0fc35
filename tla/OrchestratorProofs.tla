------------------------- MODULE OrchestratorProofs -------------------------
(***************************************************************************)
(* Theorems about Orchestrator, for every value of its constants.          *)
(***************************************************************************)
EXTENDS Orchestrator, TLAPS

\* The local variables of a suspended handler: which issue it holds, and that
\* the answer it will read covers the ids it asked for.
HandlerFits ==
    /\ hand # None <=> at \in {"reconcile_clean", "retry_fetch", "retry_clean"}
    /\ at = "reconcile_fetch" /\ reply \notin {Pending, Failed} => todo \subseteq DOMAIN reply
    /\ at = "reconcile_clean" => reply \in Snapshots /\ todo \subseteq DOMAIN reply
    /\ at = "retry_fetch" /\ reply \notin {Pending, Failed} => hand \in DOMAIN reply

TypeInv == TypeOK /\ HandlerFits

-----------------------------------------------------------------------------
(* Helpers *)

\* What the prover needs of the constants, in one line each.
LEMMA NoneFacts ==
    /\ None \notin Issues
    /\ \A e \in RunningEntry : e # None
    /\ \A e \in RetryEntry : e # None
BY NoneAssumption

LEMMA NextAttemptType ==
    /\ 0 \in Attempts /\ 1 \in Attempts \ {0}
    /\ \A a \in Attempts : NextAttempt(a) \in Attempts \ {0}
BY AttemptAssumption DEF Attempts, NextAttempt

LEMMA SnapshotType ==
    ASSUME NEW f \in Snapshots
    PROVE  \A i \in DOMAIN f : i \in Issues /\ f[i] \in TrackerStates
BY DEF Snapshots

\* Mailbox: appending and taking the head keep the type.
LEMMA AppendType ==
    ASSUME mailbox \in Seq(Command), NEW c \in Command
    PROVE  Append(mailbox, c) \in Seq(Command)
OBVIOUS

LEMMA HeadType ==
    ASSUME mailbox \in Seq(Command), mailbox # <<>>
    PROVE  /\ Head(mailbox) \in Command
           /\ Tail(mailbox) \in Seq(Command)
OBVIOUS

\* A pass spawns, or fails to spawn, only candidates that were free.
LEMMA PassTakesFree ==
    ASSUME NEW snap, NEW order \in Orders(DOMAIN snap), NEW D, NEW F, Pass(order, D, F, snap)
    PROVE  /\ D \cap F = {}
           /\ \A i \in D \cup F :
                 i \in DOMAIN snap /\ Eligible(snap[i]) /\ Free(i) /\ FreeGens(i) # {}
<1>1. ASSUME NEW i \in D \cup F
      PROVE  Eligible(snap[i]) /\ Free(i) /\ FreeGens(i) # {}
  <2>1. PICK k \in DOMAIN order : order[k] = i
    BY DEF Orders, Pass
  <2> QED BY <2>1 DEF Pass, MayStart
<1> QED BY <1>1 DEF Pass

\* Every command a caller, timer or task can post.
LEMMA CommandIntro ==
    /\ \A r \in BOOLEAN : Tick(r) \in Command
    /\ \A w \in Task, ok \in BOOLEAN : WorkerExit(w, ok) \in Command
    /\ \A i \in Issues : RetryFired(i) \in Command
    /\ \A n \in Limits : ApplyConfig(n) \in Command
    /\ Stop \in Command
<1>1. \A r \in BOOLEAN : Tick(r) \in {Tick(q) : q \in BOOLEAN}
  OBVIOUS
<1>2. \A w \in Task, ok \in BOOLEAN :
         WorkerExit(w, ok) \in {WorkerExit(v, q) : v \in Task, q \in BOOLEAN}
  OBVIOUS
<1> QED BY <1>1, <1>2 DEF Command

\* The command a tag stands for.
LEMMA CommandCases ==
    ASSUME NEW c \in Command
    PROVE  /\ c.type = "tick" => c.reschedule \in BOOLEAN
           /\ c.type = "exit" => c.task \in Task /\ c.normal \in BOOLEAN
           /\ c.type = "fired" => c.issue \in Issues
           /\ c.type = "config" => c.limit \in Limits
BY DEF Command, Tick, WorkerExit, RetryFired, ApplyConfig, Stop

LEMMA ScheduleRetryType ==
    ASSUME NEW S \in SUBSET Issues, NEW att, \A i \in S : att[i] \in Attempts \ {0},
           NEW rest \in [Issues -> RetryEntry \cup {None}]
    PROVE  ScheduleRetry(S, att, rest) \in [Issues -> RetryEntry \cup {None}]
BY DEF ScheduleRetry, RetryEntry

LEMMA CancelledType ==
    ASSUME TypeOK, NEW S
    PROVE  Cancelled(S) \in [Task -> {"free", "live", "unwinding", "exited"}]
BY DEF TypeOK, Cancelled

LEMMA WithoutType ==
    ASSUME NEW S, NEW X, NEW f \in [Issues -> X \cup {None}]
    PROVE  Without(S, f) \in [Issues -> X \cup {None}]
BY DEF Without

-----------------------------------------------------------------------------
(* Type correctness *)

LEMMA InitTypeInv == Init => TypeInv
<1>1. \A c \in Command : <<c>> \in Seq(Command)
  OBVIOUS
<1>2. <<Tick(TRUE)>> \in Seq(Command)
  BY <1>1, CommandIntro
<1> QED BY <1>2, NextAttemptType DEF Init, TypeInv, TypeOK, HandlerFits, Points

\* AfterReconcile ends the tick or suspends it in the candidate fetch.
LEMMA AfterReconcileType ==
    ASSUME TypeInv, NEW chain \in BOOLEAN, AfterReconcile(chain)
    PROVE  /\ tickArmed' \in BOOLEAN
           /\ at' \in {"get", "candidate_fetch"} /\ hand' = None /\ handAttempt' = 0
           /\ todo' = {} /\ reply' = Pending /\ resched' \in BOOLEAN
BY DEF AfterReconcile, EndTick, Settle, Suspend, TypeInv, TypeOK

LEMMA HandleTickType == TypeInv /\ HandleTick => TypeInv'
<1> SUFFICES ASSUME TypeInv, HandleTick PROVE TypeInv'
  OBVIOUS
<1> USE DEF TypeInv
<1>1. /\ Head(mailbox) \in Command /\ Tail(mailbox) \in Seq(Command)
      /\ Head(mailbox).reschedule \in BOOLEAN
  BY HeadType, CommandCases DEF TypeOK, HandleTick, Receive
<1>2. PICK S \in SUBSET Running :
         /\ running' = Without(S, running)
         /\ task' = Cancelled(S)
         /\ retry' = ScheduleRetry(S, [i \in S |-> NextAttempt(running[i].attempt)],
                                   Without(S, retry))
         /\ claimed' = ClaimForRetry(S, claimed \ S)
         /\ IF Running \ S = {}
            THEN AfterReconcile(Head(mailbox).reschedule)
            ELSE /\ Suspend("reconcile_fetch", None, 0, Running \ S, Pending,
                            Head(mailbox).reschedule)
                 /\ UNCHANGED tickArmed
  BY DEF HandleTick
<1>3. running' \in [Issues -> RunningEntry \cup {None}]
  BY <1>2, WithoutType DEF TypeOK
<1>4. \A i \in S : i \in Issues /\ running[i].attempt \in Attempts
  BY DEF Running, TypeOK, RunningEntry
<1>5. retry' \in [Issues -> RetryEntry \cup {None}]
  <2>1. Without(S, retry) \in [Issues -> RetryEntry \cup {None}]
    BY WithoutType DEF TypeOK
  <2>2. \A i \in S : [j \in S |-> NextAttempt(running[j].attempt)][i] \in Attempts \ {0}
    BY <1>4, NextAttemptType
  <2>3. S \in SUBSET Issues
    BY <1>4
  <2> QED BY <1>2, <2>1, <2>2, <2>3, ScheduleRetryType
<1>6. task' \in [Task -> {"free", "live", "unwinding", "exited"}]
  BY <1>2, CancelledType
<1>7. claimed' \in SUBSET Issues
  BY <1>2, <1>4 DEF ClaimForRetry, TypeOK
<1>8. UNCHANGED <<limit, stop, awaited>> /\ mailbox' = Tail(mailbox)
  BY DEF HandleTick, Receive
<1>9. CASE Running \ S = {}
  <2>1. /\ tickArmed' \in BOOLEAN
        /\ at' \in {"get", "candidate_fetch"} /\ hand' = None /\ handAttempt' = 0
        /\ todo' = {} /\ reply' = Pending /\ resched' \in BOOLEAN
    BY <1>1, <1>2, <1>9, AfterReconcileType
  <2> QED BY <1>1, <1>3, <1>5, <1>6, <1>7, <1>8, <2>1, NextAttemptType
          DEF TypeOK, HandlerFits, Points
<1>10. CASE Running \ S # {}
  <2>1. /\ at' = "reconcile_fetch" /\ hand' = None /\ handAttempt' = 0
        /\ todo' \in SUBSET Issues /\ reply' = Pending /\ resched' \in BOOLEAN
        /\ tickArmed' = tickArmed
    BY <1>1, <1>2, <1>10 DEF Suspend, Running
  <2> QED BY <1>1, <1>3, <1>5, <1>6, <1>7, <1>8, <2>1, NextAttemptType
          DEF TypeOK, HandlerFits, Points
<1> QED BY <1>9, <1>10

\* One stretch of the reconciliation plan.
LEMMA ApplyDecisionsType ==
    ASSUME TypeInv, reply \in Snapshots, NEW P \in SUBSET Running, P \subseteq DOMAIN reply,
           NEW ending \in SUBSET Issues, NEW cleaned,
           ApplyDecisions(P, ending, cleaned)
    PROVE  /\ running' \in [Issues -> RunningEntry \cup {None}]
           /\ task' \in [Task -> {"free", "live", "unwinding", "exited"}]
           /\ claimed' \in SUBSET Issues
           /\ retry' \in [Issues -> RetryEntry \cup {None}]
<1> USE DEF TypeInv
<1>1. \A i \in P : [running[i] EXCEPT !.state = reply[i]] \in RunningEntry
  BY SnapshotType DEF Running, TypeOK, RunningEntry
<1>2. running' \in [Issues -> RunningEntry \cup {None}]
  BY <1>1 DEF ApplyDecisions, TypeOK
<1>3. retry' \in [Issues -> RetryEntry \cup {None}]
  BY WithoutType DEF ApplyDecisions, TypeOK
<1> QED BY <1>2, <1>3, CancelledType DEF ApplyDecisions, TypeOK

LEMMA ReconcileRunType ==
    ASSUME TypeInv, NEW ids \in SUBSET Issues, NEW cleaned,
           reply \in Snapshots, ids \subseteq DOMAIN reply,
           ReconcileRun(ids, cleaned), UNCHANGED <<limit, mailbox, stop, awaited>>
    PROVE  TypeInv'
<1> USE DEF TypeInv
<1> DEFINE known == ids \cap Running
           terminal == {i \in known : IsTerminal(reply[i])}
<1>1. CASE terminal = {} /\ ApplyDecisions(known, {}, cleaned) /\ AfterReconcile(resched)
  <2>1. /\ running' \in [Issues -> RunningEntry \cup {None}]
        /\ task' \in [Task -> {"free", "live", "unwinding", "exited"}]
        /\ claimed' \in SUBSET Issues
        /\ retry' \in [Issues -> RetryEntry \cup {None}]
    BY <1>1, ApplyDecisionsType
  <2>2. /\ tickArmed' \in BOOLEAN
        /\ at' \in {"get", "candidate_fetch"} /\ hand' = None /\ handAttempt' = 0
        /\ todo' = {} /\ reply' = Pending /\ resched' \in BOOLEAN
    BY <1>1, AfterReconcileType DEF TypeOK
  <2> QED BY <2>1, <2>2, NextAttemptType DEF TypeOK, HandlerFits, Points
<1>2. ASSUME NEW t \in terminal, NEW P \in SUBSET (known \ terminal),
             ApplyDecisions(P, {t}, cleaned),
             Suspend("reconcile_clean", t, 0, ids \ (P \cup {t}), reply, resched),
             UNCHANGED tickArmed
      PROVE  TypeInv'
  <2>1. t \in Issues /\ t # None
    BY NoneFacts
  <2>2. /\ running' \in [Issues -> RunningEntry \cup {None}]
        /\ task' \in [Task -> {"free", "live", "unwinding", "exited"}]
        /\ claimed' \in SUBSET Issues
        /\ retry' \in [Issues -> RetryEntry \cup {None}]
    BY <1>2, <2>1, ApplyDecisionsType
  <2>3. /\ at' = "reconcile_clean" /\ hand' = t /\ handAttempt' = 0
        /\ todo' = ids \ (P \cup {t}) /\ reply' = reply /\ resched' = resched
    BY <1>2 DEF Suspend
  <2> QED BY <1>2, <2>1, <2>2, <2>3, NextAttemptType DEF TypeOK, HandlerFits, Points
<1> QED BY <1>1, <1>2 DEF ReconcileRun

LEMMA ReconcileFetchedType == TypeInv /\ ReconcileFetched => TypeInv'
<1> SUFFICES ASSUME TypeInv, ReconcileFetched PROVE TypeInv'
  OBVIOUS
<1>1. CASE reply = Failed
  <2>1. AfterReconcile(resched) /\ UNCHANGED <<running, task, claimed, retry>>
    BY <1>1 DEF ReconcileFetched
  <2>2. /\ tickArmed' \in BOOLEAN
        /\ at' \in {"get", "candidate_fetch"} /\ hand' = None /\ handAttempt' = 0
        /\ todo' = {} /\ reply' = Pending /\ resched' \in BOOLEAN
    BY <2>1, AfterReconcileType DEF TypeInv, TypeOK
  <2> QED BY <2>1, <2>2, NextAttemptType
          DEF TypeInv, TypeOK, HandlerFits, Points, ReconcileFetched
<1>2. CASE reply # Failed
  <2>1. reply \in Snapshots /\ todo \subseteq DOMAIN reply /\ todo \in SUBSET Issues
    BY <1>2 DEF ReconcileFetched, TypeInv, TypeOK, HandlerFits
  <2> QED BY <1>2, <2>1, ReconcileRunType DEF ReconcileFetched
<1> QED BY <1>1, <1>2

LEMMA ReconcileCleanedType == TypeInv /\ ReconcileCleaned => TypeInv'
<1> SUFFICES ASSUME TypeInv, ReconcileCleaned PROVE TypeInv'
  OBVIOUS
<1>1. reply \in Snapshots /\ todo \subseteq DOMAIN reply /\ todo \in SUBSET Issues
  BY DEF ReconcileCleaned, TypeInv, TypeOK, HandlerFits
<1> QED BY <1>1, ReconcileRunType DEF ReconcileCleaned

LEMMA DispatchType ==
    ASSUME TypeInv, NEW D \in SUBSET Issues, NEW F \in SUBSET Issues,
           NEW g, \A i \in D : g[i] \in Gens,
           NEW attempt \in Attempts, NEW snap, \A i \in D : snap[i] \in TrackerStates,
           Dispatch(D, F, g, attempt, snap)
    PROVE  /\ running' \in [Issues -> RunningEntry \cup {None}]
           /\ task' \in [Task -> {"free", "live", "unwinding", "exited"}]
           /\ claimed' \in SUBSET Issues
           /\ retry' \in [Issues -> RetryEntry \cup {None}]
<1> USE DEF TypeInv, TypeOK
<1>1. \A i \in D : [gen |-> g[i], attempt |-> attempt, state |-> snap[i]] \in RunningEntry
  BY DEF RunningEntry
<1>2. running' \in [Issues -> RunningEntry \cup {None}]
  BY <1>1 DEF Dispatch
<1>3. retry' \in [Issues -> RetryEntry \cup {None}]
  <2>1. Without(D, retry) \in [Issues -> RetryEntry \cup {None}]
    BY WithoutType
  <2>2. \A i \in F : [j \in F |-> NextAttempt(attempt)][i] \in Attempts \ {0}
    BY NextAttemptType
  <2> QED BY <2>1, <2>2, ScheduleRetryType DEF Dispatch
<1> QED BY <1>2, <1>3 DEF Dispatch, ClaimForRetry

LEMMA CandidatesFetchedType == TypeInv /\ CandidatesFetched => TypeInv'
<1> SUFFICES ASSUME TypeInv, CandidatesFetched PROVE TypeInv'
  OBVIOUS
<1>1. /\ running' \in [Issues -> RunningEntry \cup {None}]
      /\ task' \in [Task -> {"free", "live", "unwinding", "exited"}]
      /\ claimed' \in SUBSET Issues
      /\ retry' \in [Issues -> RetryEntry \cup {None}]
  <2>1. CASE reply = Failed
    BY <2>1 DEF CandidatesFetched, TypeInv, TypeOK
  <2>2. CASE reply # Failed
    <3>1. PICK order \in Orders(DOMAIN reply), D \in SUBSET Issues, F \in SUBSET Issues :
             /\ Pass(order, D, F, reply)
             /\ \E g \in [D -> Gens] :
                   /\ \A i \in D : g[i] \in FreeGens(i)
                   /\ Dispatch(D, F, g, 0, reply)
      BY <2>2 DEF CandidatesFetched
    <3>2. PICK g \in [D -> Gens] : Dispatch(D, F, g, 0, reply)
      BY <3>1
    <3>3. reply \in Snapshots
      BY <2>2 DEF CandidatesFetched, TypeInv, TypeOK
    <3>4. \A i \in D : reply[i] \in TrackerStates
      BY <3>1, <3>3, SnapshotType DEF Pass
    <3>5. \A i \in D : g[i] \in Gens
      OBVIOUS
    <3> QED BY <3>2, <3>4, <3>5, NextAttemptType, DispatchType
  <2> QED BY <2>1, <2>2
<1>2. /\ at' = "get" /\ hand' = None /\ handAttempt' = 0 /\ todo' = {}
      /\ reply' = Pending /\ resched' = FALSE /\ tickArmed' \in BOOLEAN
  BY DEF CandidatesFetched, EndTick, Settle, TypeInv, TypeOK
<1> QED BY <1>1, <1>2, NextAttemptType
        DEF CandidatesFetched, TypeInv, TypeOK, HandlerFits, Points

LEMMA HandleRetryFiredType == TypeInv /\ HandleRetryFired => TypeInv'
<1> SUFFICES ASSUME TypeInv, HandleRetryFired PROVE TypeInv'
  OBVIOUS
<1> USE DEF TypeInv
<1> DEFINE i == Head(mailbox).issue
<1>1. Tail(mailbox) \in Seq(Command) /\ i \in Issues
  BY HeadType, CommandCases DEF HandleRetryFired, Receive, TypeOK
<1>2. /\ retry' = [retry EXCEPT ![i] = None]
      /\ claimed' \in SUBSET Issues
      /\ mailbox' = Tail(mailbox)
      /\ UNCHANGED <<running, limit, task, tickArmed, stop, awaited>>
      /\ at = "get"
  BY DEF HandleRetryFired, Receive, TypeOK
<1>3. retry' \in [Issues -> RetryEntry \cup {None}]
  BY <1>2 DEF TypeOK
<1>4. CASE retry[i] = None \/ closing
  <2>1. UNCHANGED loopVars
    BY <1>4 DEF HandleRetryFired
  <2> QED BY <1>1, <1>2, <1>3, <2>1 DEF TypeOK, HandlerFits, loopVars
<1>5. CASE ~(retry[i] = None \/ closing)
  <2>1. retry[i].attempt \in Attempts
    BY <1>1, <1>5 DEF TypeOK, RetryEntry
  <2>2. /\ at' = "retry_fetch" /\ hand' = i /\ handAttempt' = retry[i].attempt
        /\ todo' = {} /\ reply' = Pending /\ resched' = FALSE
    BY <1>5 DEF HandleRetryFired, Suspend
  <2>3. i # None
    BY <1>1, NoneFacts
  <2> QED BY <1>1, <1>2, <1>3, <2>1, <2>2, <2>3 DEF TypeOK, HandlerFits, Points
<1> QED BY <1>4, <1>5

LEMMA RetryFetchedType == TypeInv /\ RetryFetched => TypeInv'
<1> SUFFICES ASSUME TypeInv, RetryFetched PROVE TypeInv'
  OBVIOUS
<1> USE DEF TypeInv
<1>1. /\ hand \in Issues /\ hand # None /\ handAttempt \in Attempts
      /\ at = "retry_fetch"
      /\ UNCHANGED <<limit, mailbox, tickArmed, stop, awaited>>
  BY NoneFacts DEF RetryFetched, TypeOK, HandlerFits
<1>2. reply # Failed => reply \in Snapshots /\ reply[hand] \in TrackerStates
  BY SnapshotType DEF RetryFetched, TypeOK, HandlerFits
<1>3. ASSUME Settle,
             running' \in [Issues -> RunningEntry \cup {None}],
             task' \in [Task -> {"free", "live", "unwinding", "exited"}],
             claimed' \in SUBSET Issues,
             retry' \in [Issues -> RetryEntry \cup {None}]
      PROVE  TypeInv'
  BY <1>1, <1>3, NextAttemptType DEF Settle, TypeOK, HandlerFits, Points
<1>4. ASSUME Requeue(hand)
      PROVE  /\ running' \in [Issues -> RunningEntry \cup {None}]
             /\ task' \in [Task -> {"free", "live", "unwinding", "exited"}]
             /\ claimed' \in SUBSET Issues
             /\ retry' \in [Issues -> RetryEntry \cup {None}]
  <2>1. \A j \in {hand} : [k \in {hand} |-> NextAttempt(handAttempt)][j] \in Attempts \ {0}
    BY <1>1, NextAttemptType
  <2>2. retry' \in [Issues -> RetryEntry \cup {None}]
    BY <1>1, <1>4, <2>1, ScheduleRetryType DEF Requeue, TypeOK
  <2> QED BY <1>1, <1>4, <2>2 DEF Requeue, ClaimForRetry, TypeOK
<1>5. CASE reply = Failed
  BY <1>2, <1>3, <1>4, <1>5 DEF RetryFetched
<1>6. CASE reply # Failed /\ IsTerminal(reply[hand])
           /\ Suspend("retry_clean", hand, handAttempt, {}, reply, FALSE)
           /\ UNCHANGED <<running, claimed, retry, task>>
  BY <1>1, <1>2, <1>6 DEF Suspend, TypeOK, HandlerFits, Points
<1>7. CASE Release(hand) /\ Settle
  <2>1. /\ running' \in [Issues -> RunningEntry \cup {None}]
        /\ task' \in [Task -> {"free", "live", "unwinding", "exited"}]
        /\ claimed' \in SUBSET Issues
        /\ retry' \in [Issues -> RetryEntry \cup {None}]
    BY <1>1, <1>7 DEF Release, TypeOK
  <2> QED BY <1>3, <1>7, <2>1
<1>8. CASE reply # Failed /\ Redispatch(hand) /\ Settle
  <2>1. PICK gn \in FreeGens(hand) :
          \/ Dispatch({hand}, {}, [j \in {hand} |-> gn], handAttempt, reply)
          \/ Dispatch({}, {hand}, [j \in {hand} |-> gn], handAttempt, reply)
    BY <1>8 DEF Redispatch
  <2>2. /\ running' \in [Issues -> RunningEntry \cup {None}]
        /\ task' \in [Task -> {"free", "live", "unwinding", "exited"}]
        /\ claimed' \in SUBSET Issues
        /\ retry' \in [Issues -> RetryEntry \cup {None}]
    <3>1. \A j \in {hand} : [k \in {hand} |-> gn][j] \in Gens
      BY DEF FreeGens
    <3>2. \A j \in {hand} : reply[j] \in TrackerStates
      BY <1>2, <1>8
    <3>3. {hand} \in SUBSET Issues /\ {} \in SUBSET Issues
      BY <1>1
    <3> DEFINE g == [j \in {hand} |-> gn]
    <3>4. /\ \A j \in {hand} : g[j] \in Gens
          /\ \A j \in {} : g[j] \in Gens
          /\ \A j \in {} : reply[j] \in TrackerStates
      BY <3>1
    <3>5. Dispatch({hand}, {}, g, handAttempt, reply) \/ Dispatch({}, {hand}, g, handAttempt, reply)
      BY <2>1
    <3> HIDE DEF g
    <3>6. CASE Dispatch({hand}, {}, g, handAttempt, reply)
      BY <1>1, <3>2, <3>3, <3>4, <3>6, DispatchType
    <3>7. CASE Dispatch({}, {hand}, g, handAttempt, reply)
      BY <1>1, <3>3, <3>4, <3>7, DispatchType
    <3> QED BY <3>5, <3>6, <3>7
  <2> QED BY <1>3, <1>8, <2>2
<1>9. CASE Requeue(hand) /\ Settle
  BY <1>3, <1>4, <1>9
<1> QED BY <1>5, <1>6, <1>7, <1>8, <1>9 DEF RetryFetched

LEMMA RetryCleanedType == TypeInv /\ RetryCleaned => TypeInv'
BY NextAttemptType
   DEF RetryCleaned, Release, Settle, TypeInv, TypeOK, HandlerFits, Points

LEMMA HandleWorkerExitType == TypeInv /\ HandleWorkerExit => TypeInv'
<1> SUFFICES ASSUME TypeInv, HandleWorkerExit PROVE TypeInv'
  OBVIOUS
<1> USE DEF TypeInv
<1> DEFINE w == Head(mailbox).task
           i == w[1]
           next == IF Head(mailbox).normal THEN 1 ELSE NextAttempt(running[i].attempt)
<1>1. Tail(mailbox) \in Seq(Command) /\ w \in Task /\ i \in Issues
  BY HeadType, CommandCases DEF HandleWorkerExit, Receive, TypeOK, Task
<1>2. /\ mailbox' = Tail(mailbox) /\ task' = [task EXCEPT ![w] = "free"]
      /\ UNCHANGED <<limit, tickArmed, loopVars, stop, awaited>>
  BY DEF HandleWorkerExit, Receive
<1>3. CASE IsCurrent(w)
  <2>1. next \in Attempts \ {0}
    BY <1>1, <1>3, NextAttemptType DEF IsCurrent, TypeOK, RunningEntry
  <2>2. /\ running' = [running EXCEPT ![i] = None]
        /\ retry' = ScheduleRetry({i}, [j \in {i} |-> next], retry)
        /\ claimed' = ClaimForRetry({i}, claimed)
    BY <1>3 DEF HandleWorkerExit
  <2>3. retry' \in [Issues -> RetryEntry \cup {None}]
    <3>1. \A j \in {i} : [k \in {i} |-> next][j] \in Attempts \ {0}
      BY <2>1
    <3> HIDE DEF next
    <3> QED BY <1>1, <2>2, <3>1, ScheduleRetryType DEF TypeOK
  <2> HIDE DEF next
  <2> QED BY <1>1, <1>2, <2>2, <2>3 DEF TypeOK, HandlerFits, loopVars, ClaimForRetry
<1>4. CASE ~IsCurrent(w)
  <2>1. UNCHANGED <<running, retry, claimed>>
    BY <1>4 DEF HandleWorkerExit
  <2> QED BY <1>1, <1>2, <2>1 DEF TypeOK, HandlerFits, loopVars
<1> QED BY <1>3, <1>4

LEMMA HandleApplyConfigType == TypeInv /\ HandleApplyConfig => TypeInv'
<1> SUFFICES ASSUME TypeInv, HandleApplyConfig PROVE TypeInv'
  OBVIOUS
<1>1. Tail(mailbox) \in Seq(Command) /\ Head(mailbox).limit \in Limits
  BY HeadType, CommandCases DEF HandleApplyConfig, Receive, TypeInv, TypeOK
<1> QED BY <1>1 DEF HandleApplyConfig, Receive, TypeInv, TypeOK, HandlerFits, loopVars

LEMMA HandleStopType == TypeInv /\ HandleStop => TypeInv'
<1> SUFFICES ASSUME TypeInv, HandleStop PROVE TypeInv'
  OBVIOUS
<1>1. Tail(mailbox) \in Seq(Command)
  BY HeadType DEF HandleStop, Receive, TypeInv, TypeOK
<1> QED BY <1>1 DEF HandleStop, Receive, TypeInv, TypeOK, HandlerFits, stateVars, Points

\* Everything outside the loop only posts commands, cancels and ends tasks.
LEMMA PostType ==
    ASSUME TypeInv, NEW c \in Command, Post(c)
    PROVE  TypeInv'
<1>1. mailbox' \in Seq(Command)
  BY AppendType DEF Post, TypeInv, TypeOK
<1> QED BY <1>1 DEF Post, TypeInv, TypeOK, HandlerFits, stateVars, loopVars

LEMMA AnswerType ==
    ASSUME TypeInv, NEW answer, Answer(answer),
           answer \in Snapshots \cup {Failed},
           answer # Failed /\ at = "reconcile_fetch" => todo \subseteq DOMAIN answer,
           answer # Failed /\ at = "retry_fetch" => hand \in DOMAIN answer,
           at # "reconcile_clean"
    PROVE  TypeInv'
BY DEF Answer, TypeInv, TypeOK, HandlerFits, stateVars

LEMMA EnvironmentType == TypeInv /\ Environment => TypeInv'
<1> SUFFICES ASSUME TypeInv, Environment PROVE TypeInv'
  OBVIOUS
<1>1. CASE TrackerAnswers
  <2>1. CASE at = "reconcile_fetch" /\ \E f \in [todo -> TrackerStates] : Answer(f)
    <3>1. PICK f \in [todo -> TrackerStates] : Answer(f)
      BY <2>1
    <3>2. f \in Snapshots /\ DOMAIN f = todo
      BY DEF Snapshots, TypeInv, TypeOK
    <3> QED BY <2>1, <3>1, <3>2, AnswerType
  <2>2. CASE at = "retry_fetch" /\ \E f \in [{hand} -> TrackerStates] : Answer(f)
    <3>1. PICK f \in [{hand} -> TrackerStates] : Answer(f)
      BY <2>2
    <3>2. {hand} \in SUBSET Issues
      BY <2>2 DEF TypeInv, TypeOK, HandlerFits
    <3>3. f \in Snapshots /\ DOMAIN f = {hand}
      BY <3>2 DEF Snapshots
    <3> QED BY <2>2, <3>1, <3>3, AnswerType
  <2>3. CASE /\ at = "candidate_fetch"
             /\ \E S \in SUBSET Issues : \E f \in [S -> ActiveStates] : Answer(f)
    <3>0. PICK S \in SUBSET Issues : \E f \in [S -> ActiveStates] : Answer(f)
      BY <2>3
    <3>1. PICK f \in [S -> ActiveStates] : Answer(f)
      BY <3>0
    <3>2. f \in [S -> TrackerStates]
      BY DEF TrackerStates
    <3>3. f \in Snapshots
      BY <3>2 DEF Snapshots
    <3> QED BY <2>3, <3>1, <3>3, AnswerType
  <2> QED BY <1>1, <2>1, <2>2, <2>3 DEF TrackerAnswers
<1>2. CASE TrackerFails
  BY <1>2, AnswerType DEF TrackerFails
<1>3. CASE TickTimerFires
  <2>1. mailbox' \in Seq(Command)
    BY <1>3, AppendType, CommandIntro DEF TickTimerFires, TypeInv, TypeOK
  <2> QED BY <1>3, <2>1 DEF TickTimerFires, TypeInv, TypeOK, HandlerFits, stateVars, loopVars
<1>4. ASSUME NEW i \in Issues, RetryTimerFires(i) PROVE TypeInv'
  <2>1. mailbox' \in Seq(Command)
    BY <1>4, AppendType, CommandIntro DEF RetryTimerFires, TypeInv, TypeOK
  <2>2. [retry[i] EXCEPT !.timer = "fired"] \in RetryEntry
    BY <1>4 DEF RetryTimerFires, TypeInv, TypeOK, RetryEntry
  <2>3. retry' \in [Issues -> RetryEntry \cup {None}]
    BY <1>4, <2>2 DEF RetryTimerFires, TypeInv, TypeOK
  <2> QED BY <1>4, <2>1, <2>3 DEF RetryTimerFires, TypeInv, TypeOK, HandlerFits, loopVars
<1>5. ASSUME NEW w \in Task, NEW ok \in BOOLEAN, TaskEnds(w, ok) PROVE TypeInv'
  <2>1. mailbox' \in Seq(Command)
    BY <1>5, AppendType, CommandIntro DEF TaskEnds, TypeInv, TypeOK
  <2> QED BY <1>5, <2>1 DEF TaskEnds, TypeInv, TypeOK, HandlerFits, stateVars, loopVars
<1> QED BY <1>1, <1>2, <1>3, <1>4, <1>5 DEF Environment, WorkerFinishes, WorkerUnwinds

LEMMA CallersType == TypeInv /\ Callers => TypeInv'
<1> SUFFICES ASSUME TypeInv, Callers PROVE TypeInv'
  OBVIOUS
<1>1. CASE RequestTick
  <2>1. ASSUME ArmTickTimer PROVE TypeInv'
    BY <2>1 DEF ArmTickTimer, TypeInv, TypeOK, HandlerFits, stateVars, loopVars
  <2> QED BY <1>1, <2>1, PostType, CommandIntro DEF RequestTick
<1>2. CASE RequestConfig
  BY <1>2, PostType, CommandIntro DEF RequestConfig
<1>3. CASE CallStop
  <2>1. mailbox' \in Seq(Command)
    BY <1>3, AppendType, CommandIntro DEF CallStop, TypeInv, TypeOK
  <2>2. task' \in [Task -> {"free", "live", "unwinding", "exited"}]
    BY <1>3, CancelledType DEF CallStop, TypeInv
  <2>3. \A i \in Running : TaskOf(i) \in Task
    BY DEF Running, TaskOf, Task, TypeInv, TypeOK, RunningEntry
  <2>4. awaited' \in SUBSET Task
    BY <1>3, <2>3 DEF CallStop
  <2>5. retry' \in [Issues -> RetryEntry \cup {None}]
    BY <1>3 DEF CallStop
  <2> QED BY <1>3, <2>1, <2>2, <2>4, <2>5 DEF CallStop, TypeInv, TypeOK, HandlerFits, loopVars
<1>4. CASE StopReturns
  BY <1>4 DEF StopReturns, TypeInv, TypeOK, HandlerFits, stateVars, loopVars
<1> QED BY <1>1, <1>2, <1>3, <1>4 DEF Callers

\* Every step keeps the type and the fit of the handler's local variables.
LEMMA NextTypeInv == TypeInv /\ [Next]_vars => TypeInv'
<1> SUFFICES ASSUME TypeInv, [Next]_vars PROVE TypeInv'
  OBVIOUS
<1>1. CASE Loop
  BY <1>1, HandleTickType, ReconcileFetchedType, ReconcileCleanedType,
     CandidatesFetchedType, HandleRetryFiredType, RetryFetchedType,
     RetryCleanedType, HandleWorkerExitType, HandleApplyConfigType,
     HandleStopType DEF Loop
<1>2. CASE Environment
  BY <1>2, EnvironmentType
<1>3. CASE Callers
  BY <1>3, CallersType
<1>4. CASE UNCHANGED vars
  BY <1>4 DEF vars, stateVars, loopVars, TypeInv, TypeOK, HandlerFits
<1> QED BY <1>1, <1>2, <1>3, <1>4 DEF Next, Stopped

\* In every reachable state each variable has its type, and the answer a
\* suspended handler reads covers the issues it asked about.
THEOREM TypeInvariant == Spec => []TypeInv
<1>1. Init => TypeInv
  BY InitTypeInv
<1>2. TypeInv /\ [Next]_vars => TypeInv'
  BY NextTypeInv
<1> QED BY <1>1, <1>2, PTL DEF Spec

\* Every variable keeps its type whatever the handlers, timers, workers and
\* callers do.
THEOREM TypeCorrect == Spec => []TypeOK
<1>1. TypeInv => TypeOK
  BY DEF TypeInv
<1> QED BY <1>1, TypeInvariant, PTL

-----------------------------------------------------------------------------
(* Claims *)

\* Which issues wait for a retry after schedule_retry for those of S.
LEMMA RetryQueuedAfter ==
    ASSUME NEW S \in SUBSET Issues, NEW att, \A i \in S : att[i] \in Attempts \ {0},
           NEW rest, retry' = ScheduleRetry(S, att, rest)
    PROVE  RetryQueued' = IF closing THEN {i \in Issues : rest[i] # None} \ S
                          ELSE {i \in Issues : rest[i] # None} \cup S
<1>1. \A i \in S : [attempt |-> att[i], timer |-> "armed"] # None
  BY NoneFacts DEF RetryEntry
<1> QED BY <1>1 DEF ScheduleRetry, RetryQueued

LEMMA HandleTickClaims ==
    TypeInv /\ ClaimsAccounted /\ HandleTick => ClaimsAccounted'
<1> SUFFICES ASSUME TypeInv, ClaimsAccounted, HandleTick PROVE ClaimsAccounted'
  OBVIOUS
<1>1. PICK S \in SUBSET Running :
         /\ running' = Without(S, running)
         /\ task' = Cancelled(S)
         /\ retry' = ScheduleRetry(S, [i \in S |-> NextAttempt(running[i].attempt)],
                                   Without(S, retry))
         /\ claimed' = ClaimForRetry(S, claimed \ S)
         /\ IF Running \ S = {}
            THEN AfterReconcile(Head(mailbox).reschedule)
            ELSE /\ Suspend("reconcile_fetch", None, 0, Running \ S, Pending,
                            Head(mailbox).reschedule)
                 /\ UNCHANGED tickArmed
  BY DEF HandleTick
<1>2. S \in SUBSET Issues /\ \A i \in S : running[i].attempt \in Attempts
  BY DEF Running, TypeInv, TypeOK, RunningEntry
<1>3. Running' = Running \ S
  BY <1>1 DEF Running, Without
<1>4. RetryQueued' = IF closing THEN RetryQueued \ S ELSE RetryQueued \cup S
  <2>1. \A i \in S : [j \in S |-> NextAttempt(running[j].attempt)][i] \in Attempts \ {0}
    BY <1>2, NextAttemptType
  <2>2. {i \in Issues : Without(S, retry)[i] # None} = RetryQueued \ S
    BY DEF Without, RetryQueued
  <2> DEFINE att == [j \in S |-> NextAttempt(running[j].attempt)]
             rest == Without(S, retry)
  <2>3. retry' = ScheduleRetry(S, att, rest)
    BY <1>1
  <2> HIDE DEF att, rest
  <2>4. RetryQueued' = IF closing THEN {i \in Issues : rest[i] # None} \ S
                       ELSE {i \in Issues : rest[i] # None} \cup S
    BY <1>2, <2>1, <2>3, RetryQueuedAfter DEF att
  <2> QED BY <1>2, <2>2, <2>4 DEF rest
<1>5. hand' = None /\ stop' = stop /\ Held = {}
  BY <1>1 DEF AfterReconcile, EndTick, Settle, Suspend, HandleTick, Receive,
              TypeInv, HandlerFits, Held
<1> QED BY <1>1, <1>3, <1>4, <1>5 DEF ClaimsAccounted, ClaimForRetry, Held, closing

\* Reconciling moves the issue t that is being cleaned up into the hand and
\* lets go of the one that was there.
LEMMA ReconcileRunClaims ==
    ASSUME TypeInv, ClaimsAccounted, NEW ids \in SUBSET Issues,
           reply \in Snapshots, ids \subseteq DOMAIN reply,
           ReconcileRun(ids, Held), UNCHANGED stop
    PROVE  ClaimsAccounted'
<1> DEFINE known == ids \cap Running
           terminal == {i \in known : IsTerminal(reply[i])}
<1>1. ASSUME NEW P \in SUBSET known, NEW ending \in SUBSET Running, P \cap ending = {},
             ApplyDecisions(P, ending, Held), Held' = ending
      PROVE  ClaimsAccounted'
  <2> DEFINE drop == {i \in P : ~IsActive(reply[i])}
  <2>1. \A i \in P : [running[i] EXCEPT !.state = reply[i]] # None
    <3>1. \A i \in P : [running[i] EXCEPT !.state = reply[i]] \in RunningEntry
      BY SnapshotType DEF Running, TypeInv, TypeOK, RunningEntry
    <3> QED BY <3>1, NoneFacts
  <2>2. Running' = Running \ (drop \cup ending)
    BY <1>1, <2>1 DEF ApplyDecisions, Running
  <2>3. /\ RetryQueued' = RetryQueued \ (Held \cup drop)
        /\ claimed' = claimed \ (Held \cup drop)
    BY <1>1 DEF ApplyDecisions, RetryQueued, Without
  <2>4. drop \subseteq Running /\ drop \cap ending = {}
    BY <1>1
  <2> HIDE DEF drop
  <2> QED BY <2>4, <1>1, <2>2, <2>3 DEF ClaimsAccounted, closing
<1>2. CASE terminal = {} /\ ApplyDecisions(known, {}, Held) /\ AfterReconcile(resched)
  BY <1>1, <1>2 DEF AfterReconcile, EndTick, Settle, Suspend, Held
<1>3. ASSUME NEW t \in terminal, NEW P \in SUBSET (known \ terminal),
             ApplyDecisions(P, {t}, Held),
             Suspend("reconcile_clean", t, 0, ids \ (P \cup {t}), reply, resched)
      PROVE  ClaimsAccounted'
  <2>1. Held' = {t} /\ {t} \in SUBSET Running
    BY <1>3, NoneFacts DEF Suspend, Held, Running
  <2> QED BY <1>1, <1>3, <2>1
<1> QED BY <1>2, <1>3 DEF ReconcileRun

LEMMA ReconcileFetchedClaims ==
    TypeInv /\ ClaimsAccounted /\ ReconcileFetched => ClaimsAccounted'
<1> SUFFICES ASSUME TypeInv, ClaimsAccounted, ReconcileFetched PROVE ClaimsAccounted'
  OBVIOUS
<1>1. Held = {}
  BY DEF ReconcileFetched, TypeInv, HandlerFits, Held
<1>2. CASE reply = Failed
  <2>1. hand' = None /\ UNCHANGED <<running, claimed, retry, stop>>
    BY <1>2 DEF ReconcileFetched, AfterReconcile, EndTick, Settle, Suspend
  <2> QED BY <1>1, <2>1 DEF ClaimsAccounted, Running, RetryQueued, Held, closing
<1>3. CASE reply # Failed
  <2>1. reply \in Snapshots /\ todo \subseteq DOMAIN reply /\ todo \in SUBSET Issues
    BY <1>3 DEF ReconcileFetched, TypeInv, TypeOK, HandlerFits
  <2>2. ReconcileRun(todo, Held) /\ UNCHANGED stop
    BY <1>1, <1>3 DEF ReconcileFetched
  <2> QED BY <2>1, <2>2, ReconcileRunClaims
<1> QED BY <1>2, <1>3

LEMMA ReconcileCleanedClaims ==
    TypeInv /\ ClaimsAccounted /\ ReconcileCleaned => ClaimsAccounted'
<1> SUFFICES ASSUME TypeInv, ClaimsAccounted, ReconcileCleaned PROVE ClaimsAccounted'
  OBVIOUS
<1>1. Held = {hand}
  BY DEF ReconcileCleaned, TypeInv, HandlerFits, Held
<1>2. reply \in Snapshots /\ todo \subseteq DOMAIN reply /\ todo \in SUBSET Issues
  BY DEF ReconcileCleaned, TypeInv, TypeOK, HandlerFits
<1>3. ReconcileRun(todo, Held) /\ UNCHANGED stop
  BY <1>1 DEF ReconcileCleaned
<1> QED BY <1>2, <1>3, ReconcileRunClaims

\* What a round of dispatches does to the three sets: D started, F to retry.
LEMMA DispatchSets ==
    ASSUME TypeInv, NEW D \in SUBSET Issues, NEW F \in SUBSET Issues,
           NEW g, \A i \in D : g[i] \in Gens,
           NEW attempt \in Attempts, NEW snap, \A i \in D : snap[i] \in TrackerStates,
           Dispatch(D, F, g, attempt, snap)
    PROVE  /\ Running' = Running \cup D
           /\ RetryQueued' = IF closing THEN (RetryQueued \ D) \ F
                             ELSE (RetryQueued \ D) \cup F
           /\ claimed' = IF closing THEN (claimed \cup D) \ F
                         ELSE claimed \cup D \cup F
<1>1. \A i \in D : [gen |-> g[i], attempt |-> attempt, state |-> snap[i]] # None
  BY NoneFacts DEF RunningEntry
<1>2. Running' = Running \cup D
  BY <1>1 DEF Dispatch, Running
<1>3. RetryQueued' = IF closing THEN (RetryQueued \ D) \ F ELSE (RetryQueued \ D) \cup F
  <2> DEFINE att == [i \in F |-> NextAttempt(attempt)]
             rest == Without(D, retry)
  <2>1. \A i \in F : att[i] \in Attempts \ {0}
    BY NextAttemptType
  <2>2. {i \in Issues : rest[i] # None} = RetryQueued \ D
    BY DEF Without, RetryQueued
  <2>3. retry' = ScheduleRetry(F, att, rest)
    BY DEF Dispatch
  <2> HIDE DEF att, rest
  <2>4. RetryQueued' = IF closing THEN {i \in Issues : rest[i] # None} \ F
                       ELSE {i \in Issues : rest[i] # None} \cup F
    BY <2>1, <2>3, RetryQueuedAfter
  <2> QED BY <2>2, <2>4
<1> QED BY <1>2, <1>3 DEF Dispatch, ClaimForRetry

LEMMA CandidatesFetchedClaims ==
    TypeInv /\ ClaimsAccounted /\ CandidatesFetched => ClaimsAccounted'
<1> SUFFICES ASSUME TypeInv, ClaimsAccounted, CandidatesFetched PROVE ClaimsAccounted'
  OBVIOUS
<1>1. Held = {} /\ Held' = {} /\ closing' = closing
  BY DEF CandidatesFetched, EndTick, Settle, TypeInv, HandlerFits, Held, closing
<1>2. CASE reply = Failed
  BY <1>1, <1>2 DEF CandidatesFetched, ClaimsAccounted, Running, RetryQueued
<1>3. CASE reply # Failed
  <2>1. PICK order \in Orders(DOMAIN reply), D \in SUBSET Issues, F \in SUBSET Issues :
           /\ Pass(order, D, F, reply)
           /\ \E g \in [D -> Gens] :
                 /\ \A i \in D : g[i] \in FreeGens(i)
                 /\ Dispatch(D, F, g, 0, reply)
    BY <1>3 DEF CandidatesFetched
  <2>2. PICK g \in [D -> Gens] : Dispatch(D, F, g, 0, reply)
    BY <2>1
  <2>3. reply \in Snapshots
    BY <1>3 DEF CandidatesFetched, TypeInv, TypeOK
  <2>4. \A i \in D : reply[i] \in TrackerStates
    BY <2>1, <2>3, SnapshotType DEF Pass
  <2>5. /\ Running' = Running \cup D
        /\ RetryQueued' = IF closing THEN (RetryQueued \ D) \ F
                          ELSE (RetryQueued \ D) \cup F
        /\ claimed' = IF closing THEN (claimed \cup D) \ F
                      ELSE claimed \cup D \cup F
    <3>1. \A i \in D : g[i] \in Gens
      OBVIOUS
    <3> QED BY <2>2, <2>4, <3>1, NextAttemptType, DispatchSets
  <2>6. /\ (D \cup F) \cap Running = {}
        /\ (D \cup F) \cap claimed = {}
        /\ D \cap F = {}
    BY <2>1, PassTakesFree DEF Free
  <2> QED BY <1>1, <2>5, <2>6 DEF ClaimsAccounted
<1> QED BY <1>2, <1>3

LEMMA HandleRetryFiredClaims ==
    TypeInv /\ ClaimsAccounted /\ HandleRetryFired => ClaimsAccounted'
<1> SUFFICES ASSUME TypeInv, ClaimsAccounted, HandleRetryFired PROVE ClaimsAccounted'
  OBVIOUS
<1> DEFINE i == Head(mailbox).issue
<1>1. i \in Issues /\ i # None
  BY HeadType, CommandCases, NoneFacts DEF HandleRetryFired, Receive, TypeInv, TypeOK
<1>2. /\ Running' = Running
      /\ RetryQueued' = RetryQueued \ {i}
      /\ claimed' = IF retry[i] # None /\ closing THEN claimed \ {i} ELSE claimed
      /\ closing' = closing
      /\ Held = {}
  BY <1>1 DEF HandleRetryFired, Receive, Running, RetryQueued, TypeInv, TypeOK,
             HandlerFits, Held, closing
<1>3. IF retry[i] = None \/ closing THEN Held' = {} ELSE Held' = {i}
  BY <1>1, <1>2 DEF HandleRetryFired, loopVars, Suspend, Held
<1>4. retry[i] # None <=> i \in RetryQueued
  BY <1>1 DEF RetryQueued
<1> HIDE DEF i
<1> QED BY <1>2, <1>3, <1>4 DEF ClaimsAccounted

LEMMA RequeueSets ==
    ASSUME TypeInv, NEW i \in Issues, Requeue(i)
    PROVE  /\ Running' = Running
           /\ RetryQueued' = IF closing THEN RetryQueued \ {i} ELSE RetryQueued \cup {i}
           /\ claimed' = IF closing THEN claimed \ {i} ELSE claimed \cup {i}
<1> DEFINE att == [j \in {i} |-> NextAttempt(handAttempt)]
<1>1. \A j \in {i} : att[j] \in Attempts \ {0}
  BY NextAttemptType DEF TypeInv, TypeOK
<1>2. retry' = ScheduleRetry({i}, att, retry) /\ {i} \in SUBSET Issues
  BY DEF Requeue
<1> HIDE DEF att
<1>3. RetryQueued' = IF closing THEN {j \in Issues : retry[j] # None} \ {i}
                     ELSE {j \in Issues : retry[j] # None} \cup {i}
  BY <1>1, <1>2, RetryQueuedAfter
<1> QED BY <1>3 DEF Requeue, ClaimForRetry, Running, RetryQueued

LEMMA ReleaseSets ==
    ASSUME TypeInv, NEW i \in Issues, Release(i)
    PROVE  /\ Running' = Running
           /\ RetryQueued' = RetryQueued \ {i}
           /\ claimed' = claimed \ {i}
BY DEF Release, Running, RetryQueued, TypeInv, TypeOK

LEMMA RetryFetchedClaims ==
    TypeInv /\ ClaimsAccounted /\ RetryFetched => ClaimsAccounted'
<1> SUFFICES ASSUME TypeInv, ClaimsAccounted, RetryFetched PROVE ClaimsAccounted'
  OBVIOUS
<1>1. /\ hand \in Issues /\ handAttempt \in Attempts /\ Held = {hand}
      /\ at = "retry_fetch" /\ closing' = closing
  BY NoneFacts DEF RetryFetched, TypeInv, TypeOK, HandlerFits, Held, closing
<1>2. Settle => Held' = {}
  BY DEF Settle, Held
<1>3. CASE Requeue(hand) /\ Settle
  BY <1>1, <1>2, <1>3, RequeueSets DEF ClaimsAccounted
<1>4. CASE /\ Suspend("retry_clean", hand, handAttempt, {}, reply, FALSE)
           /\ UNCHANGED <<running, claimed, retry, task>>
  BY <1>1, <1>4 DEF Suspend, ClaimsAccounted, Running, RetryQueued, Held
<1>5. CASE Release(hand) /\ Settle
  BY <1>1, <1>2, <1>5, ReleaseSets DEF ClaimsAccounted
<1>6. CASE reply # Failed /\ Redispatch(hand) /\ Settle
  <2>1. PICK gn \in FreeGens(hand) :
          \/ Dispatch({hand}, {}, [j \in {hand} |-> gn], handAttempt, reply)
          \/ Dispatch({}, {hand}, [j \in {hand} |-> gn], handAttempt, reply)
    BY <1>6 DEF Redispatch
  <2> DEFINE g == [j \in {hand} |-> gn]
  <2>2. /\ {hand} \in SUBSET Issues /\ {} \in SUBSET Issues
        /\ \A j \in {hand} : g[j] \in Gens
        /\ \A j \in {hand} : reply[j] \in TrackerStates
        /\ \A j \in {} : g[j] \in Gens
        /\ \A j \in {} : reply[j] \in TrackerStates
    BY <1>1, <1>6, SnapshotType DEF FreeGens, RetryFetched, TypeInv, TypeOK, HandlerFits
  <2>3. Dispatch({hand}, {}, g, handAttempt, reply) \/ Dispatch({}, {hand}, g, handAttempt, reply)
    BY <2>1
  <2> HIDE DEF g
  <2>4. CASE Dispatch({hand}, {}, g, handAttempt, reply)
    <3>1. /\ Running' = Running \cup {hand}
          /\ RetryQueued' = IF closing THEN (RetryQueued \ {hand}) \ {}
                            ELSE (RetryQueued \ {hand}) \cup {}
          /\ claimed' = IF closing THEN (claimed \cup {hand}) \ {}
                        ELSE claimed \cup {hand} \cup {}
      BY <1>1, <2>2, <2>4, DispatchSets
    <3> QED BY <1>1, <1>2, <1>6, <3>1 DEF ClaimsAccounted
  <2>5. CASE Dispatch({}, {hand}, g, handAttempt, reply)
    <3>1. /\ Running' = Running \cup {}
          /\ RetryQueued' = IF closing THEN (RetryQueued \ {}) \ {hand}
                            ELSE (RetryQueued \ {}) \cup {hand}
          /\ claimed' = IF closing THEN (claimed \cup {}) \ {hand}
                        ELSE claimed \cup {} \cup {hand}
      BY <1>1, <2>2, <2>5, DispatchSets
    <3> QED BY <1>1, <1>2, <1>6, <3>1 DEF ClaimsAccounted
  <2> QED BY <2>3, <2>4, <2>5
<1> QED BY <1>3, <1>4, <1>5, <1>6 DEF RetryFetched

LEMMA RetryCleanedClaims ==
    TypeInv /\ ClaimsAccounted /\ RetryCleaned => ClaimsAccounted'
<1> SUFFICES ASSUME TypeInv, ClaimsAccounted, RetryCleaned PROVE ClaimsAccounted'
  OBVIOUS
<1>1. hand \in Issues /\ Held = {hand} /\ Held' = {} /\ closing' = closing
  BY DEF RetryCleaned, Settle, TypeInv, TypeOK, HandlerFits, Held, closing
<1> QED BY <1>1, ReleaseSets DEF RetryCleaned, ClaimsAccounted

LEMMA HandleWorkerExitClaims ==
    TypeInv /\ ClaimsAccounted /\ HandleWorkerExit => ClaimsAccounted'
<1> SUFFICES ASSUME TypeInv, ClaimsAccounted, HandleWorkerExit PROVE ClaimsAccounted'
  OBVIOUS
<1> DEFINE w == Head(mailbox).task
           i == w[1]
           next == IF Head(mailbox).normal THEN 1 ELSE NextAttempt(running[i].attempt)
<1>1. w \in Task /\ i \in Issues
  BY HeadType, CommandCases DEF HandleWorkerExit, Receive, TypeInv, TypeOK, Task
<1>2. Held' = Held /\ Held = {} /\ closing' = closing
  BY DEF HandleWorkerExit, Receive, loopVars, TypeInv, HandlerFits, Held, closing
<1>3. CASE IsCurrent(w)
  <2>1. next \in Attempts \ {0} /\ i \in Running
    BY <1>1, <1>3, NextAttemptType DEF IsCurrent, Running, TypeInv, TypeOK, RunningEntry
  <2>2. /\ running' = [running EXCEPT ![i] = None]
        /\ retry' = ScheduleRetry({i}, [j \in {i} |-> next], retry)
        /\ claimed' = ClaimForRetry({i}, claimed)
    BY <1>3 DEF HandleWorkerExit
  <2>3. Running' = Running \ {i}
    BY <2>2 DEF Running, TypeInv, TypeOK
  <2>4. RetryQueued' = IF closing THEN RetryQueued \ {i} ELSE RetryQueued \cup {i}
    <3> DEFINE att == [j \in {i} |-> next]
    <3>1. /\ \A j \in {i} : att[j] \in Attempts \ {0}
          /\ {i} \in SUBSET Issues /\ retry' = ScheduleRetry({i}, att, retry)
      BY <1>1, <2>1, <2>2
    <3> HIDE DEF att
    <3> QED BY <3>1, RetryQueuedAfter DEF RetryQueued
  <2> HIDE DEF i, next
  <2> QED BY <1>2, <2>1, <2>2, <2>3, <2>4 DEF ClaimsAccounted, ClaimForRetry
<1>4. CASE ~IsCurrent(w)
  <2>1. UNCHANGED <<running, retry, claimed>>
    BY <1>4 DEF HandleWorkerExit
  <2> QED BY <1>2, <2>1 DEF ClaimsAccounted, Running, RetryQueued
<1> QED BY <1>3, <1>4

\* Timers, workers, the tracker and callers leave the three sets alone; only
\* stop() empties retry_attempts, and it keeps the claims.
LEMMA OutsideClaims ==
    TypeInv /\ ClaimsAccounted /\ (Environment \/ Callers) => ClaimsAccounted'
<1> SUFFICES ASSUME TypeInv, ClaimsAccounted, Environment \/ Callers
             PROVE  ClaimsAccounted'
  OBVIOUS
<1>1. ASSUME NEW i \in Issues, RetryTimerFires(i) PROVE ClaimsAccounted'
  <2>1. [retry[i] EXCEPT !.timer = "fired"] # None
    BY <1>1, NoneFacts DEF RetryTimerFires, TypeInv, TypeOK, RetryEntry
  <2>2. RetryQueued' = RetryQueued
    BY <1>1, <2>1 DEF RetryTimerFires, RetryQueued, TypeInv, TypeOK
  <2> QED BY <1>1, <2>2
          DEF RetryTimerFires, ClaimsAccounted, Running, Held, closing, loopVars
<1>2. CASE CallStop
  BY <1>2 DEF CallStop, ClaimsAccounted, Running, RetryQueued, Held, closing, loopVars
<1>3. CASE StopReturns
  BY <1>3 DEF StopReturns, ClaimsAccounted, Running, RetryQueued, Held, closing,
              stateVars, loopVars
<1>4. ASSUME UNCHANGED <<running, claimed, retry, stop, hand>> PROVE ClaimsAccounted'
  BY <1>4 DEF ClaimsAccounted, Running, RetryQueued, Held, closing
<1>5. CASE TrackerAnswers \/ TrackerFails
  BY <1>4, <1>5 DEF TrackerAnswers, TrackerFails, Answer, stateVars
<1>6. CASE TickTimerFires \/ RequestTick \/ RequestConfig
  BY <1>4, <1>6 DEF TickTimerFires, RequestTick, ArmTickTimer, RequestConfig, Post,
                   stateVars, loopVars
<1>7. ASSUME NEW w \in Task, NEW ok \in BOOLEAN, TaskEnds(w, ok) PROVE ClaimsAccounted'
  BY <1>4, <1>7 DEF TaskEnds, stateVars, loopVars
<1> QED BY <1>1, <1>2, <1>3, <1>5, <1>6, <1>7
        DEF Environment, Callers, WorkerFinishes, WorkerUnwinds

\* While the service is open an issue is claimed exactly when it is running, in
\* retry_attempts, or in the hand of the suspended handler, and only one of the
\* three; whatever interleaving of workers, timers, reloads and stop().
THEOREM ClaimsAreAccounted == Spec => []ClaimsAccounted
<1>1. Init => ClaimsAccounted
  BY DEF Init, ClaimsAccounted, Running, RetryQueued, Held
<1>2. TypeInv /\ ClaimsAccounted /\ [Next]_vars => ClaimsAccounted'
  <2> SUFFICES ASSUME TypeInv, ClaimsAccounted, [Next]_vars PROVE ClaimsAccounted'
    OBVIOUS
  <2>1. CASE Loop
    <3>1. CASE HandleApplyConfig \/ HandleStop
      BY <3>1 DEF HandleApplyConfig, HandleStop, Receive, stateVars, loopVars,
                  ClaimsAccounted, Running, RetryQueued, Held, closing
    <3> QED BY <2>1, <3>1, HandleTickClaims, ReconcileFetchedClaims,
               ReconcileCleanedClaims, CandidatesFetchedClaims,
               HandleRetryFiredClaims, RetryFetchedClaims, RetryCleanedClaims,
               HandleWorkerExitClaims DEF Loop
  <2>2. CASE Environment \/ Callers
    BY <2>2, OutsideClaims
  <2>3. CASE UNCHANGED vars
    BY <2>3 DEF vars, stateVars, loopVars, ClaimsAccounted, Running, RetryQueued,
                Held, closing
  <2> QED BY <2>1, <2>2, <2>3 DEF Next, Stopped
<1> QED BY <1>1, <1>2, TypeInvariant, PTL DEF Spec

=============================================================================
