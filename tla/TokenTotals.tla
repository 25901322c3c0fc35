---------------------------- MODULE TokenTotals ----------------------------
(***************************************************************************)
(* Token accounting of one issue: its workers, one after another, the      *)
(* updates they post, the session of the running entry and the service's   *)
(* aggregate.  A worker reports the absolute total of its thread, which    *)
(* may restart from zero.  Updates reach the orchestrator in the order     *)
(* they were posted, a worker's exit after its updates, and are matched to *)
(* the running entry by issue id only, so those of a worker that was told  *)
(* to stop may meet its successor.                                         *)
(* One of the three counters is modelled; the other two follow the same    *)
(* lines.                                                                  *)
(***************************************************************************)
EXTENDS Integers, Sequences

CONSTANTS
    MaxWorkers,    \* workers of the issue (bound)
    MaxUsed,       \* tokens one worker spends (bound)
    MaxPosted      \* updates posted in all (bound)

ASSUME TotalsAssumption == MaxWorkers \in Nat \ {0} /\ MaxUsed \in Nat /\ MaxPosted \in Nat

VARIABLES
    alive,       \* workers whose task has not ended
    running,     \* the worker of the running entry, 0 without one
    updates,     \* _AgentUpdate commands in the mailbox
    credited,    \* session.codex_total_tokens, per worker: kept after its end
    lastSeen,    \* session.last_reported_total_tokens of the running entry
    aggregate,   \* state.codex_totals.total_tokens
    used,        \* tokens each worker spent
    base,        \* of which before its thread last restarted
    posted,      \* updates posted so far (history)
    inFront,     \* updates in front of the entry's _WorkerExit, NoExit without one
    told,        \* workers whose entry was terminated (history)
    strayed      \* sessions that were given another worker's update (history)

totalsVars == <<alive, running, updates, credited, lastSeen, aggregate, used, base, posted,
                inFront, told, strayed>>

NoExit == -1

UsageWorkers == 1..MaxWorkers
AgentUpdate(w) == [worker |-> w, total |-> used'[w] - base[w]]

TotalsTypes ==
    /\ alive \subseteq UsageWorkers
    /\ running \in UsageWorkers \cup {0}
    /\ updates \in Seq([worker : UsageWorkers, total : Nat])
    /\ credited \in [UsageWorkers -> Nat]
    /\ lastSeen \in Nat
    /\ aggregate \in Nat
    /\ used \in [UsageWorkers -> Nat]
    /\ base \in [UsageWorkers -> Nat]
    /\ posted \in Nat
    /\ inFront \in Nat \cup {NoExit}
    /\ told \subseteq UsageWorkers
    /\ strayed \subseteq UsageWorkers

TotalsInit ==
    /\ alive = {} /\ running = 0 /\ updates = <<>>
    /\ credited = [w \in UsageWorkers |-> 0]
    /\ lastSeen = 0 /\ aggregate = 0
    /\ used = [w \in UsageWorkers |-> 0]
    /\ base = [w \in UsageWorkers |-> 0]
    /\ posted = 0 /\ inFront = NoExit /\ told = {} /\ strayed = {}

Pending(w) == \E k \in DOMAIN updates : updates[k].worker = w

\* Workers are numbered in the order they start.
HasBegun(w) == w \in alive \cup told \/ used[w] > 0 \/ Pending(w)

(* A new running entry has a new LiveSession.                              *)
DispatchWorker(w) ==
    /\ running = 0
    /\ \A v \in UsageWorkers : HasBegun(v) => v < w
    /\ running' = w
    /\ alive' = alive \cup {w}
    /\ lastSeen' = 0
    /\ UNCHANGED <<updates, credited, aggregate, used, base, posted, inFront, told, strayed>>

(* The entry goes; the task unwinds later and may still report, and its    *)
(* exit is dropped.                                                        *)
TerminateWorker ==
    /\ running # 0
    /\ running' = 0 /\ told' = told \cup {running} /\ inFront' = NoExit
    /\ UNCHANGED <<alive, updates, credited, lastSeen, aggregate, used, base, posted, strayed>>

(* The task is done: its exit is posted behind what is in the mailbox.     *)
WorkerDone(w) ==
    /\ w \in alive
    /\ alive' = alive \ {w}
    /\ inFront' = IF running = w THEN Len(updates) ELSE inFront
    /\ UNCHANGED <<running, updates, credited, lastSeen, aggregate, used, base, posted, told,
                   strayed>>

HandleWorkerExit ==
    /\ inFront = 0
    /\ running' = 0 /\ inFront' = NoExit
    /\ UNCHANGED <<alive, updates, credited, lastSeen, aggregate, used, base, posted, told, strayed>>

(* A worker spends n tokens, or none, and posts its thread's total.        *)
Report(w, n) ==
    /\ w \in alive /\ used[w] + n <= MaxUsed /\ posted < MaxPosted
    /\ used' = [used EXCEPT ![w] = @ + n]
    /\ updates' = Append(updates, AgentUpdate(w))
    /\ posted' = posted + 1
    /\ UNCHANGED <<alive, running, credited, lastSeen, aggregate, base, inFront, told, strayed>>

ThreadRestarts(w) ==
    /\ w \in alive /\ base[w] < used[w]
    /\ base' = [base EXCEPT ![w] = used[w]]
    /\ UNCHANGED <<alive, running, updates, credited, lastSeen, aggregate, used, posted, inFront,
                   told, strayed>>

\* Mutant: a total is taken for a delta.
TotalAsDelta(total) == total

(* What an absolute total adds to what was reported before.                *)
TokenDelta(total) == IF total > lastSeen THEN total - lastSeen ELSE 0

(* The baseline follows the report even when it falls.                     *)
ApplyTokenTotals(u) ==
    /\ credited' = [credited EXCEPT ![running] = @ + TokenDelta(u.total)]
    /\ aggregate' = aggregate + TokenDelta(u.total)
    /\ lastSeen' = u.total

HandleAgentUpdate ==
    /\ updates # <<>> /\ inFront # 0
    /\ updates' = Tail(updates)
    /\ inFront' = IF inFront = NoExit THEN NoExit ELSE inFront - 1
    /\ LET u == Head(updates) IN
       IF running = 0
       THEN UNCHANGED <<credited, aggregate, lastSeen, strayed>>
       ELSE /\ ApplyTokenTotals(u)
            /\ strayed' = IF u.worker = running THEN strayed ELSE strayed \cup {running}
    /\ UNCHANGED <<alive, running, used, base, posted, told>>

TotalsNext ==
    \/ \E w \in UsageWorkers :
         \/ DispatchWorker(w) \/ WorkerDone(w) \/ ThreadRestarts(w)
         \/ \E n \in 0..1 : Report(w, n)
    \/ TerminateWorker \/ HandleWorkerExit
    \/ HandleAgentUpdate

TotalsSpec == TotalsInit /\ [][TotalsNext]_totalsVars

-----------------------------------------------------------------------------

Credits(given) ==
    LET sum[w \in 0..MaxWorkers] == IF w = 0 THEN 0 ELSE sum[w - 1] + given[w]
    IN sum[MaxWorkers]

(* codex_totals is the sum of what sessions, past and present, were        *)
(* credited.                                                               *)
SumOfSessions == aggregate = Credits(credited)

(* apply_token_totals: whatever is repeated, and wherever a thread         *)
(* restarts, a session never counts a token twice; if its thread did not   *)
(* restart, a session whose updates are all in, ended or not, has counted  *)
(* every one, unless it was terminated; and the service's total is that of *)
(* its sessions.  A session that was given another worker's update is      *)
(* excepted, and only one that comes after a terminated worker can be: see *)
(* README, "What the checks found".                                        *)
NothingCountedTwice ==
    /\ SumOfSessions
    /\ \A w \in UsageWorkers \ strayed :
        /\ credited[w] <= used[w]
        /\ w \notin told /\ ~Pending(w) /\ base[w] = 0 => credited[w] = used[w]
    /\ \A w \in strayed : \E v \in told : v < w

=============================================================================
