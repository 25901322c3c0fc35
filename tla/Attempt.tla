------------------------------ MODULE Attempt ------------------------------
(***************************************************************************)
(* The attempts on one issue and the workspace directory they share:       *)
(* AgentRunner.run_attempt with its turn loop, WorkspaceManager and the    *)
(* hooks they run.                                                         *)
(*                                                                         *)
(* pc[a] says at which await attempt a is suspended.  cancel() reaches it  *)
(* there, at most once, as the orchestrator does it; what the attempt does *)
(* then depends on which except clause catches a CancelledError.           *)
(* Directory work runs in threads that a cancellation does not stop.       *)
(*                                                                         *)
(* All four hooks are configured (one that is not ends at once), and each  *)
(* ends by itself or by its timeout.  What happens inside the agent client *)
(* and the tracker is only success or failure here.                        *)
(***************************************************************************)
EXTENDS Naturals, FiniteSets

CONSTANTS
    Attempts,     \* names of run_attempt tasks, reused once ended
    Versions,     \* configs a reload may put in force
    MaxTurns,     \* agent.max_turns of each of them
    None

ASSUME MaxTurnsAssumption == MaxTurns \in [Versions -> Nat]
ASSUME VersionsAssumption == Versions # {}

VARIABLES
    pc,       \* the await each attempt is suspended in
    exc,      \* the exception in flight: none, error, cancelled
    cut,      \* the await that cancel() interrupted, or "no"
    did,      \* steps of the attempt that took place
    turn,     \* ctx.turn_number
    bound,    \* max_turns as read when the turn loop began
    thread,   \* the directory job of an attempt, or its result
    dir,      \* the workspace directory
    removal,  \* WorkspaceManager.cleanup: none, before_remove, rmtree
    config,   \* the runner's config
    spoilt,   \* a creation was interrupted or a removal failed half way
    racing    \* attempts start at will, not one at a time as the orchestrator has it

attempt == <<pc, exc, cut, did, turn, bound>>
vars == <<attempt, thread, dir, removal, config, spoilt, racing>>

Awaits == {"scheduled", "mkdir", "after_create", "drain_create", "discard",
           "before_run", "start", "turn", "refresh", "stop", "after_run",
           "drain"}
Creating == {"mkdir", "after_create", "discard"}
Steps == {"before_run", "session", "stopped", "after_run"}
Jobs == {"mkdir", "rmtree"}
Results == {"created", "reused", "raised", "discarded"}

Directory == [present : BOOLEAN,
              ready   : BOOLEAN,                 \* after_create has finished in it
              maker   : Attempts \cup {None},    \* who made it
              inits   : SUBSET Attempts]         \* who ran after_create in it
NoDirectory == [present |-> FALSE, ready |-> FALSE, maker |-> None, inits |-> {}]
NewDirectory(a) == [present |-> TRUE, ready |-> FALSE, maker |-> a, inits |-> {}]

\* Somebody waits for the job of a thread, or it is what a cancelled attempt
\* has left running.
ThreadFits(a) ==
    thread[a] # "idle" => \/ pc[a] \in {"mkdir", "discard"}
                          \/ pc[a] = "done" /\ thread[a] \in Jobs

TypeOK ==
    /\ pc \in [Attempts -> Awaits \cup {"idle", "done"}]
    /\ exc \in [Attempts -> {"none", "error", "cancelled"}]
    /\ cut \in [Attempts -> Awaits \cup {"no"}]
    /\ did \in [Attempts -> SUBSET Steps]
    /\ turn \in [Attempts -> Nat]
    /\ bound \in [Attempts -> Nat]
    /\ thread \in [Attempts -> Jobs \cup Results \cup {"idle"}]
    /\ dir \in Directory
    /\ removal \in {"none", "before_remove", "rmtree"}
    /\ config \in Versions
    /\ spoilt \in BOOLEAN
    /\ racing \in BOOLEAN
    /\ \A a \in Attempts : ThreadFits(a)

Ended(a) == pc[a] \in {"idle", "done"}
Owner(a) == ~Ended(a) /\ cut[a] = "no"      \* the orchestrator's running task

Init ==
    /\ pc = [a \in Attempts |-> "idle"]
    /\ exc = [a \in Attempts |-> "none"]
    /\ cut = [a \in Attempts |-> "no"]
    /\ did = [a \in Attempts |-> {}]
    /\ turn = [a \in Attempts |-> 1]
    /\ bound = [a \in Attempts |-> 0]
    /\ thread = [a \in Attempts |-> "idle"]
    /\ dir = NoDirectory
    /\ removal = "none"
    /\ config \in Versions
    /\ spoilt = FALSE
    /\ racing \in BOOLEAN

-----------------------------------------------------------------------------
(* How an attempt moves.  Each step leaves one await and reaches another.  *)

Move(a, from, to) == pc[a] = from /\ pc' = [pc EXCEPT ![a] = to]
Raise(a, e) == exc' = [exc EXCEPT ![a] = e]
Note(a, step) == did' = [did EXCEPT ![a] = @ \cup {step}]

\* The orchestrator spawns an attempt only when it holds the issue: no other
\* attempt it has not cancelled, no cleanup it is waiting for.
Start(a) ==
    /\ Ended(a) /\ thread[a] = "idle"
    /\ ~racing => removal = "none" /\ \A b \in Attempts : ~Owner(b)
    /\ pc' = [pc EXCEPT ![a] = "scheduled"]
    /\ exc' = [exc EXCEPT ![a] = "none"]
    /\ cut' = [cut EXCEPT ![a] = "no"]
    /\ did' = [did EXCEPT ![a] = {}]
    /\ turn' = [turn EXCEPT ![a] = 1]
    /\ bound' = [bound EXCEPT ![a] = 0]
    /\ UNCHANGED <<thread, dir, removal, config, racing, spoilt>>

-----------------------------------------------------------------------------
(* WorkspaceManager.create_for_issue *)

CreateForIssue(a) ==
    /\ Move(a, "scheduled", "mkdir")
    /\ thread' = [thread EXCEPT ![a] = "mkdir"]
    /\ UNCHANGED <<exc, cut, did, turn, bound, dir, removal, config, racing, spoilt>>

\* Mutant: the result is kept for a task that is gone.
AnswersAnyone(a, result) == thread' = [thread EXCEPT ![a] = result]

\* A thread finished; nobody takes the result of a task that has ended.
Answers(a, result) ==
    thread' = [thread EXCEPT ![a] = IF Ended(a) THEN "idle" ELSE result]

\* Mutant: exist_ok, so that everybody thinks to have made the directory.
CreatedByAll(a) == TRUE

\* One mkdir both makes the directory and tells its maker.
CreatedNow(a) == ~dir.present

EnsureDirectory(a) ==
    /\ thread[a] = "mkdir"
    /\ \/ /\ Answers(a, IF CreatedNow(a) THEN "created" ELSE "reused")
          /\ dir' = IF dir.present THEN dir ELSE NewDirectory(a)
       \/ /\ Answers(a, "raised")
          /\ UNCHANGED dir
    /\ UNCHANGED <<attempt, removal, config, racing, spoilt>>

Created(a) ==
    /\ thread[a] = "created"
    /\ Move(a, "mkdir", "after_create")
    /\ thread' = [thread EXCEPT ![a] = "idle"]
    /\ dir' = IF dir.present THEN [dir EXCEPT !.inits = @ \cup {a}] ELSE dir
    /\ UNCHANGED <<exc, cut, did, turn, bound, removal, config, racing, spoilt>>

Reused(a) ==
    /\ thread[a] = "reused"
    /\ Move(a, "mkdir", "before_run")
    /\ thread' = [thread EXCEPT ![a] = "idle"]
    /\ UNCHANGED <<exc, cut, did, turn, bound, dir, removal, config, racing, spoilt>>

CreationFails(a) ==
    /\ thread[a] = "raised"
    /\ Move(a, "mkdir", "done")
    /\ Raise(a, "error")
    /\ thread' = [thread EXCEPT ![a] = "idle"]
    /\ UNCHANGED <<cut, did, turn, bound, dir, removal, config, racing, spoilt>>

AfterCreateSucceeds(a) ==
    /\ Move(a, "after_create", "before_run")
    /\ dir' = IF a \in dir.inits THEN [dir EXCEPT !.ready = TRUE] ELSE dir
    /\ UNCHANGED <<exc, cut, did, turn, bound, thread, removal, config, racing, spoilt>>

\* Mutant: the new directory is left behind.
NewDirectoryLeft(a) ==
    /\ Move(a, "after_create", "done")
    /\ Raise(a, "error")
    /\ UNCHANGED <<cut, did, turn, bound, thread, dir, removal, config, racing, spoilt>>

AfterCreateFails(a) ==
    /\ Move(a, "after_create", "discard")
    /\ Raise(a, "error")
    /\ thread' = [thread EXCEPT ![a] = "rmtree"]
    /\ UNCHANGED <<cut, did, turn, bound, dir, removal, config, racing, spoilt>>

\* The cancelled hook is dead and its output drained.
AfterCreateDrained(a) ==
    /\ Move(a, "drain_create", "discard")
    /\ thread' = [thread EXCEPT ![a] = "rmtree"]
    /\ UNCHANGED <<exc, cut, did, turn, bound, dir, removal, config, racing, spoilt>>

\* rmtree takes whatever is at the path, or gives up in the middle of it.
RemoveDirectory ==
    \/ dir' = NoDirectory /\ UNCHANGED spoilt
    \/ dir' = [dir EXCEPT !.ready = FALSE] /\ spoilt' = TRUE

DiscardNewDirectory(a) ==
    /\ thread[a] = "rmtree"
    /\ RemoveDirectory
    /\ Answers(a, "discarded")
    /\ UNCHANGED <<attempt, removal, config, racing>>

Discarded(a) ==
    /\ thread[a] = "discarded"
    /\ Move(a, "discard", "done")
    /\ thread' = [thread EXCEPT ![a] = "idle"]
    /\ UNCHANGED <<exc, cut, did, turn, bound, dir, removal, config, racing, spoilt>>

-----------------------------------------------------------------------------
(* AgentRunner.run_attempt *)

Runner(a) == UNCHANGED <<cut, thread, dir, removal, config, racing, spoilt>>

\* The session is started with the config of this moment.
BeforeRunSucceeds(a) ==
    /\ Move(a, "before_run", "start")
    /\ Note(a, "before_run")
    /\ UNCHANGED <<exc, turn, bound>> /\ Runner(a)

BeforeRunFails(a) ==
    /\ Move(a, "before_run", "done")
    /\ Raise(a, "error")
    /\ UNCHANGED <<did, turn, bound>> /\ Runner(a)

\* Mutant: no after_run when the session could not be started.
HookForgotten(a) ==
    /\ Move(a, "start", "done")
    /\ Raise(a, "error")
    /\ UNCHANGED <<did, turn, bound>> /\ Runner(a)

\* To after_run, which is owed once before_run has succeeded.
SessionFails(a) ==
    /\ Move(a, "start", "after_run")
    /\ Raise(a, "error")
    /\ Note(a, "after_run")
    /\ UNCHANGED <<turn, bound>> /\ Runner(a)

\* The turn loop begins: max_turns is read once, the first prompt is built.
SessionStarts(a) ==
    /\ \/ Move(a, "start", "turn") /\ UNCHANGED exc
       \/ Move(a, "start", "stop") /\ Raise(a, "error")    \* prompt error
    /\ Note(a, "session")
    /\ bound' = [bound EXCEPT ![a] = MaxTurns[config]]
    /\ UNCHANGED turn /\ Runner(a)

TurnCompletes(a) ==
    /\ Move(a, "turn", "refresh")
    /\ UNCHANGED <<exc, did, turn, bound>> /\ Runner(a)

TurnFails(a) ==
    /\ Move(a, "turn", "stop")
    /\ Raise(a, "error")
    /\ UNCHANGED <<did, turn, bound>> /\ Runner(a)

RefreshFails(a) ==
    /\ Move(a, "refresh", "stop")
    /\ Raise(a, "error")
    /\ UNCHANGED <<did, turn, bound>> /\ Runner(a)

\* The issue is not returned, or no longer active or routable.
BreakByRefresh(a) ==
    /\ Move(a, "refresh", "stop")
    /\ UNCHANGED <<exc, did, turn, bound>> /\ Runner(a)

\* Mutant: the live config instead of the value read at the start.
LastTurnByConfig(a) == turn[a] >= MaxTurns[config]

LastTurn(a) == turn[a] >= bound[a]

BreakMaxTurns(a) ==
    /\ LastTurn(a)
    /\ Move(a, "refresh", "stop")
    /\ UNCHANGED <<exc, did, turn, bound>> /\ Runner(a)

\* Mutant: the turn number is not advanced.
SameTurn(a) ==
    /\ ~LastTurn(a)
    /\ Move(a, "refresh", "turn")
    /\ UNCHANGED <<exc, did, turn, bound>> /\ Runner(a)

NextTurn(a) ==
    /\ ~LastTurn(a)
    /\ \/ Move(a, "refresh", "turn") /\ UNCHANGED exc
       \/ Move(a, "refresh", "stop") /\ Raise(a, "error")  \* prompt error
    /\ turn' = [turn EXCEPT ![a] = @ + 1]
    /\ UNCHANGED <<did, bound>> /\ Runner(a)

\* A failing stop is logged and ignored.
SessionStopped(a) ==
    /\ Move(a, "stop", "after_run")
    /\ did' = [did EXCEPT ![a] = @ \cup {"stopped", "after_run"}]
    /\ UNCHANGED <<exc, turn, bound>> /\ Runner(a)

AfterRunEnds(a) ==
    /\ Move(a, "after_run", "done")
    /\ UNCHANGED <<exc, did, turn, bound>> /\ Runner(a)

\* A cancelled before_run or after_run hook is dead and drained.
Drained(a) ==
    /\ Move(a, "drain", "done")
    /\ UNCHANGED <<exc, did, turn, bound>> /\ Runner(a)

\* The CancelledError rises at the await: past `except Exception', into
\* `except BaseException'.  A cancelled hook is killed at once, a thread job
\* that has not begun is dropped and one that has goes on.
Interrupted(a) ==
    CASE pc[a] \in {"scheduled", "mkdir", "discard", "stop"} -> "done"
      [] pc[a] = "after_create" -> "drain_create"
      [] pc[a] \in {"before_run", "after_run"} -> "drain"
      [] pc[a] = "start" -> "after_run"
      [] pc[a] \in {"turn", "refresh"} -> "stop"

Cancel(a) ==
    /\ Owner(a)
    /\ pc' = [pc EXCEPT ![a] = Interrupted(a)]
    /\ cut' = [cut EXCEPT ![a] = pc[a]]
    /\ Raise(a, "cancelled")
    /\ did' = [did EXCEPT ![a] = IF pc[a] = "start" THEN @ \cup {"after_run"} ELSE @]
    /\ \/ thread' = [thread EXCEPT ![a] = "idle"]
       \/ thread[a] \in Jobs /\ UNCHANGED thread
    /\ spoilt' = (spoilt \/ pc[a] \in Creating)
    /\ UNCHANGED <<turn, bound, dir, removal, config, racing>>

-----------------------------------------------------------------------------
(* WorkspaceManager.cleanup, by the orchestrator for an issue in a terminal *)
(* state: at startup, or once the worker it had has been cancelled.         *)

CleanupStarts ==
    /\ ~racing
    /\ removal = "none"
    /\ \A a \in Attempts : ~Owner(a)
    /\ dir.present
    /\ removal' = "before_remove"
    /\ UNCHANGED <<attempt, thread, dir, config, racing, spoilt>>

BeforeRemoveEnds ==
    /\ removal = "before_remove"
    /\ removal' = "rmtree"
    /\ UNCHANGED <<attempt, thread, dir, config, racing, spoilt>>

RemoveTree ==
    /\ removal = "rmtree"
    /\ removal' = "none"
    /\ RemoveDirectory
    /\ UNCHANGED <<attempt, thread, config, racing>>

\* AgentRunner.apply_config
Reload(v) ==
    /\ v # config
    /\ config' = v
    /\ UNCHANGED <<attempt, thread, dir, removal, spoilt, racing>>

-----------------------------------------------------------------------------
TurnEnds(a) == TurnCompletes(a) \/ TurnFails(a)

\* Every await but that of a turn.
Advance(a) ==
    \/ CreateForIssue(a) \/ EnsureDirectory(a)
    \/ Created(a) \/ Reused(a) \/ CreationFails(a)
    \/ AfterCreateSucceeds(a) \/ AfterCreateFails(a) \/ AfterCreateDrained(a)
    \/ DiscardNewDirectory(a) \/ Discarded(a)
    \/ BeforeRunSucceeds(a) \/ BeforeRunFails(a)
    \/ SessionStarts(a) \/ SessionFails(a)
    \/ RefreshFails(a) \/ BreakByRefresh(a)
    \/ BreakMaxTurns(a) \/ NextTurn(a)
    \/ SessionStopped(a) \/ AfterRunEnds(a) \/ Drained(a)

Next ==
    \/ \E a \in Attempts : Start(a) \/ Advance(a) \/ TurnEnds(a) \/ Cancel(a)
    \/ CleanupStarts \/ BeforeRemoveEnds \/ RemoveTree
    \/ \E v \in Versions : Reload(v)

Spec == Init /\ [][Next]_vars

\* Hooks, handshakes and tracker requests have timeouts, a stop kills what does
\* not end, threads end, and the event loop resumes a task whose await is over:
\* an attempt outside a turn goes on.  A turn need not end: turn_timeout bounds
\* the silence between two messages of the agent, not the turn.
FairSpec == Spec /\ \A a \in Attempts : WF_vars(Advance(a))

-----------------------------------------------------------------------------
(* Properties *)

\* The table EXIT_PATHS, for every way an attempt can end: after_run has run
\* exactly when before_run had succeeded, a session that was started has been
\* stopped, and no hook ran while it was alive.  The one way out of it is a
\* cancellation that lands in the stop itself.
ExitPathsHonoured ==
    \A a \in Attempts :
        /\ pc[a] = "done" /\ cut[a] # "stop" =>
              /\ "before_run" \in did[a] <=> "after_run" \in did[a]
              /\ "session" \in did[a] <=> "stopped" \in did[a]
        /\ "after_run" \in did[a] /\ "session" \in did[a] => "stopped" \in did[a]

\* As long as no creation was interrupted and no removal failed half way, an
\* attempt that is not cancelled works in a directory that is there and that
\* after_create has initialised, and one that discards a directory discards
\* the one it made; whatever earlier attempts failed, and whichever of them
\* are still unwinding.
Working == {"before_run", "start", "turn", "refresh", "stop", "after_run"}
WorkspaceIsSound ==
    ~spoilt /\ ~racing =>
        \A a \in Attempts :
            /\ Owner(a) /\ pc[a] \in Working => dir.present /\ dir.ready
            /\ thread[a] = "rmtree" => dir.maker = a

\* Two workers racing on one directory cannot both run after_create in it
\* (the docstring of create_for_issue): the mkdir alone keeps them apart, as
\* long as no creation was interrupted.
OneInitialiser == ~spoilt => Cardinality(dir.inits) <= 1

\* A reload during the turn loop neither shortens nor extends it: a turn only
\* runs within the max_turns read when the loop began (at least one runs).
TurnsStayBounded ==
    \A a \in Attempts : pc[a] = "turn" => turn[a] = 1 \/ turn[a] <= bound[a]

\* An attempt that is not inside one turn for ever ends: the turn loop, the
\* hooks and the clean-up behind it do not go on without end.  One that is
\* cancelled ends in any case, wherever the cancellation lands.
AttemptEnds ==
    \A a \in Attempts :
        /\ []<>(pc[a] # "turn") => (pc[a] = "scheduled" ~> pc[a] = "done")
        /\ cut[a] # "no" ~> pc[a] = "done"

-----------------------------------------------------------------------------
(* What documentation and comments say and the code does not always do.    *)

\* runner.py: once before_run has succeeded, every exit path runs after_run.
AfterRunOwed ==
    \A a \in Attempts :
        pc[a] = "done" /\ "before_run" \in did[a] => "after_run" \in did[a]

\* manager.py: the discarded workspace is one this call created.
DiscardsOnlyItsOwn ==
    \A a \in Attempts : thread[a] = "rmtree" /\ dir.present => dir.maker = a

=============================================================================
