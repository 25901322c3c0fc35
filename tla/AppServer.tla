------------------------------ MODULE AppServer ------------------------------
(***************************************************************************)
(* One worker run on the Codex app-server: AppServerClient with the tasks  *)
(* it spawns (stdout reader, exit watcher, one task per request of the     *)
(* server), the process it talks to, and the runner that calls it: start   *)
(* the session, turns one after another while they complete, stop.         *)
(*                                                                         *)
(* The process (external) answers a request at most once and ends a turn   *)
(* at most once; what it writes and when, and when it exits, is free.  A   *)
(* request is named by its id: 1 is initialize, 2 starts the thread, n + 2 *)
(* starts turn n.  stderr, event sinks and the text of messages are left   *)
(* out.                                                                    *)
(***************************************************************************)
EXTENDS Naturals, Sequences

CONSTANTS
    MaxTurns,    \* turns the runner asks for at most
    MaxLines,    \* lines the process writes in its life (bound)
    MaxPipe      \* of which unread (bound)

ASSUME BoundsAssumption == MaxTurns \in Nat /\ MaxLines \in Nat /\ MaxPipe \in Nat

VARIABLES
    phase,     \* the await the runner's task is suspended in
    pending,   \* id of the request it waits for, 0 if none
    answer,    \* what the future of that request holds
    turn,      \* number of the active turn, 0 if none
    count,     \* turn_count
    outcome,   \* of the active turn, first come
    overdue,   \* turn_timeout_ms have passed since the last output
    cut,       \* what cancel() interrupted: nothing, start-up, a turn, stop
    reader,    \* the task of _read_stdout
    watcher,   \* the task of _watch_exit
    helpers,   \* tasks of _handle_server_request
    proc,      \* the process
    pipe,      \* its output that has not been read
    owed,      \* the request it has not answered, 0 if none
    working,   \* the turn it has not ended, 0 if none
    written,   \* lines it has written
    told,      \* turns it has announced as completed
    returned   \* turns run_turn returned from without an exception

runner == <<phase, pending, turn, count, cut, returned>>
tasks == <<reader, watcher, helpers>>
server == <<pipe, owed, working, written, told>>
vars == <<runner, answer, outcome, overdue, tasks, proc, server>>

Ids == 0 .. MaxTurns + 2
Turns == 1 .. MaxTurns
Phases == {"idle", "spawn", "request", "ready", "stream", "grace", "drain", "ended"}
Outcomes == {"completed", "failed", "input", "exited"}
Answers == {"ok", "error"}
Lines == [kind : Answers \cup {"completed", "failed", "input", "ask", "tool", "noise"},
          id   : Ids]          \* of the request an answer is for, else 0

RunnerTypes ==
    /\ phase \in Phases
    /\ pending \in Ids
    /\ turn \in Turns \cup {0}
    /\ count \in Turns \cup {0}
    /\ cut \in {"no", "startup", "turn", "stop"}
    /\ returned \subseteq Turns

ClientTypes ==
    /\ answer \in Answers \cup {"none", "exit"}
    /\ outcome \in Outcomes \cup {"none"}
    /\ overdue \in BOOLEAN
    /\ reader \in {"none", "reading", "over"}
    /\ watcher \in {"none", "waiting", "ran", "over"}
    /\ helpers \subseteq {"ask", "tool"}

ServerTypes ==
    /\ proc \in {"none", "running", "terminated", "killed", "dead"}
    /\ pipe \in Seq(Lines)
    /\ owed \in Ids
    /\ working \in Turns \cup {0}
    /\ written \in 0 .. MaxLines
    /\ told \subseteq Turns

\* A request is pending while it is awaited, a turn is active from its request
\* to its end.
PhaseFits ==
    /\ pending # 0 <=> phase = "request"
    /\ turn # 0 <=> phase = "stream" \/ pending > 2
    /\ turn # 0 => turn = count
    /\ pending > 2 => pending = turn + 2

TypeOK == RunnerTypes /\ ClientTypes /\ ServerTypes /\ PhaseFits

Init ==
    /\ phase = "idle" /\ pending = 0 /\ answer = "none"
    /\ turn = 0 /\ count = 0 /\ outcome = "none" /\ overdue = FALSE
    /\ cut = "no"
    /\ reader = "none" /\ watcher = "none" /\ helpers = {}
    /\ proc = "none" /\ pipe = <<>> /\ owed = 0 /\ working = 0 /\ written = 0
    /\ told = {} /\ returned = {}

Alive == proc \in {"running", "terminated", "killed"}     \* returncode is None

-----------------------------------------------------------------------------
(* Parts of the client *)

\* _write goes through as long as the process has no returncode.
Writable == Alive

\* _request: the future is registered and the line is written.
Request(id) ==
    /\ Writable
    /\ phase' = "request" /\ pending' = id /\ answer' = "none"
    /\ owed' = id
    /\ working' = IF id > 2 THEN id - 2 ELSE working
    /\ UNCHANGED <<pipe, written, told>>

\* Mutant: the last outcome wins.
LastOutcome(o) == outcome' = IF turn # 0 THEN o ELSE outcome

\* _Turn.finish on the active turn, if there is one.
Finish(o) == outcome' = IF turn # 0 /\ outcome = "none" THEN o ELSE outcome

Cancelled(task) == IF task = "none" THEN task ELSE "over"
CancelTasks ==
    /\ reader' = Cancelled(reader)
    /\ watcher' = IF watcher = "ran" THEN watcher ELSE Cancelled(watcher)
    /\ helpers' = {}

\* What stop() does up to its first await.
Stop ==
    /\ pending' = 0 /\ turn' = 0
    /\ IF Alive
       THEN /\ proc' = "terminated" /\ phase' = "grace"
            /\ UNCHANGED tasks
       ELSE /\ phase' = "drain"
            /\ CancelTasks
            /\ UNCHANGED proc
    /\ UNCHANGED <<count, returned, answer, outcome, overdue, server>>

-----------------------------------------------------------------------------
(* The runner's task *)

StartSession ==
    /\ phase = "idle"
    /\ phase' = "spawn"
    /\ UNCHANGED <<pending, turn, count, cut, returned, answer, outcome, overdue,
                   tasks, proc, server>>

\* No process, nothing to stop.
SpawnFails ==
    /\ phase = "spawn"
    /\ phase' = "ended"
    /\ UNCHANGED <<pending, turn, count, cut, returned, answer, outcome, overdue,
                   tasks, proc, server>>

\* _launch and the first request.
Spawned ==
    /\ phase = "spawn"
    /\ proc' = "running"
    /\ reader' = "reading" /\ watcher' = "waiting"
    /\ phase' = "request" /\ pending' = 1 /\ answer' = "none" /\ owed' = 1
    /\ overdue' = FALSE
    /\ UNCHANGED <<turn, count, cut, returned, outcome, helpers, pipe, working,
                   written, told>>

\* initialize was answered: the notification and the second request are written.
Initialized ==
    /\ pending = 1 /\ answer = "ok"
    /\ Request(2)
    /\ UNCHANGED <<turn, count, cut, returned, outcome, overdue, tasks, proc>>

ThreadCreated ==
    /\ pending = 2 /\ answer = "ok"
    /\ phase' = "ready" /\ pending' = 0
    /\ UNCHANGED <<turn, count, cut, returned, answer, outcome, overdue, tasks, proc,
                   server>>

\* run_turn, from the runner's loop.
RunTurn ==
    /\ phase = "ready" /\ count < MaxTurns
    /\ count' = count + 1 /\ turn' = count + 1
    /\ outcome' = "none" /\ overdue' = FALSE
    /\ Request(count + 3)
    /\ UNCHANGED <<cut, returned, tasks, proc>>

\* The write of run_turn raises.  The turn it has counted is not read any more.
RunTurnFails ==
    /\ phase = "ready"
    /\ Stop
    /\ UNCHANGED cut

TurnStarted ==
    /\ pending > 2 /\ answer = "ok"
    /\ phase' = "stream" /\ pending' = 0
    /\ UNCHANGED <<turn, count, cut, returned, answer, outcome, overdue, tasks, proc,
                   server>>

\* Mutant: a failing start of the session leaves the process to the caller.
RaisedOnly ==
    /\ phase = "request"
    /\ IF pending > 2
       THEN Stop
       ELSE /\ phase' = "ended" /\ pending' = 0
            /\ UNCHANGED <<turn, count, returned, answer, outcome, overdue, tasks,
                           proc, server>>
    /\ UNCHANGED cut

\* An error, the exit of the process, a read timeout (whether or not an answer
\* has just arrived), a failing write, an answer without a thread id: the
\* client (start-up) or the runner (a turn) stops.
RequestFails ==
    /\ phase = "request"
    /\ Stop
    /\ UNCHANGED cut

\* Mutant: _turn is not reset.
TurnLeftActive ==
    /\ phase = "stream" /\ outcome = "completed"
    /\ phase' = "ready"
    /\ returned' = returned \cup {turn}
    /\ UNCHANGED <<pending, turn, count, cut, answer, outcome, overdue, tasks, proc,
                   server>>

TurnCompletes ==
    /\ phase = "stream" /\ outcome = "completed"
    /\ phase' = "ready" /\ turn' = 0
    /\ returned' = returned \cup {turn}
    /\ UNCHANGED <<pending, count, cut, answer, outcome, overdue, tasks, proc, server>>

TurnFails ==
    /\ phase = "stream" /\ outcome \notin {"none", "completed"}
    /\ Stop
    /\ UNCHANGED cut

\* Mutant: the runner goes on after the timeout of a turn.
TimeoutIgnored ==
    /\ phase = "stream" /\ overdue
    /\ phase' = "ready" /\ turn' = 0
    /\ UNCHANGED <<pending, count, cut, returned, answer, outcome, overdue, tasks,
                   proc, server>>

\* The deadline is seen to have passed, whatever the outcome is by then.
TurnTimesOut ==
    /\ phase = "stream" /\ overdue
    /\ Stop
    /\ UNCHANGED cut

\* The turn loop ends.
LoopEnds ==
    /\ phase = "ready"
    /\ Stop
    /\ UNCHANGED cut

GraceEnds ==
    /\ phase = "grace" /\ ~Alive
    /\ phase' = "drain"
    /\ CancelTasks
    /\ UNCHANGED <<pending, turn, count, cut, returned, answer, outcome, overdue, proc,
                   server>>

\* Mutant: a stubborn process is waited for.
StubbornAwaited ==
    /\ ~Alive
    /\ phase = "grace"
    /\ phase' = "drain"
    /\ CancelTasks
    /\ UNCHANGED <<pending, turn, count, cut, returned, answer, outcome, overdue, proc,
                   server>>

\* _STOP_GRACE_SECONDS are over: kill, without another wait.
GraceTimesOut ==
    /\ phase = "grace"
    /\ phase' = "drain"
    /\ proc' = IF Alive THEN "killed" ELSE proc
    /\ CancelTasks
    /\ UNCHANGED <<pending, turn, count, cut, returned, answer, outcome, overdue, server>>

Drained ==
    /\ phase = "drain"
    /\ phase' = "ended"
    /\ UNCHANGED <<pending, turn, count, cut, returned, answer, outcome, overdue, tasks,
                   proc, server>>

\* The orchestrator cancels the worker, once.  Start-up only catches
\* Exception; a stop that is cancelled is not resumed.
CancelStartUp ==
    /\ cut = "no"
    /\ \/ phase = "spawn"
       \/ phase = "request" /\ pending <= 2
    /\ cut' = "startup" /\ phase' = "ended" /\ pending' = 0
    /\ UNCHANGED <<turn, count, returned, answer, outcome, overdue, tasks, proc, server>>

CancelTurn ==
    /\ cut = "no"
    /\ phase \in {"ready", "stream"} \/ pending > 2
    /\ cut' = "turn"
    /\ Stop

CancelStop ==
    /\ cut = "no"
    /\ phase \in {"grace", "drain"}
    /\ cut' = "stop" /\ phase' = "ended"
    /\ UNCHANGED <<pending, turn, count, returned, answer, outcome, overdue, tasks, proc,
                   server>>

-----------------------------------------------------------------------------
(* The other tasks *)

\* _read_stdout takes a line and _dispatch_line acts on it at once, or spawns
\* a task for a request of the server.
ReadLine ==
    /\ reader = "reading" /\ pipe # <<>>
    /\ LET line == Head(pipe)
           matched == line.kind \in Answers /\ line.id = pending /\ answer = "none"
       IN /\ answer' = IF matched THEN line.kind ELSE answer
          /\ IF line.kind \in {"completed", "failed", "input"}
             THEN Finish(line.kind) ELSE UNCHANGED outcome
          /\ helpers' = helpers \cup ({line.kind} \cap {"ask", "tool"})
    /\ pipe' = Tail(pipe)
    /\ overdue' = FALSE
    /\ UNCHANGED <<runner, reader, watcher, proc, owed, working, written, told>>

ReadEOF ==
    /\ reader = "reading" /\ pipe = <<>> /\ ~Alive
    /\ reader' = "over"
    /\ UNCHANGED <<runner, answer, outcome, overdue, watcher, helpers, proc, server>>

\* A request for input, or an approval that ends the run: the reply is written
\* first, and when that raises the turn is not touched.
AnswerAsk ==
    /\ "ask" \in helpers
    /\ helpers' = helpers \ {"ask"}
    /\ IF Writable THEN Finish("input") ELSE UNCHANGED outcome
    /\ UNCHANGED <<runner, answer, overdue, reader, watcher, proc, server>>

\* A tool call, or a request that is answered at once, whatever came of it.
AnswerTool ==
    /\ "tool" \in helpers
    /\ helpers' = helpers \ {"tool"}
    /\ UNCHANGED <<runner, answer, outcome, overdue, reader, watcher, proc, server>>

\* Mutant: only the futures are failed.
FuturesOnly(o) == UNCHANGED outcome

\* What _watch_exit does to the active turn.
FinishExited(o) == Finish(o)

WatchExit ==
    /\ watcher = "waiting" /\ proc = "dead"
    /\ watcher' = "ran"
    /\ answer' = IF pending # 0 /\ answer = "none" THEN "exit" ELSE answer
    /\ FinishExited("exited")
    /\ UNCHANGED <<runner, overdue, reader, helpers, proc, server>>

SilenceElapses ==
    /\ phase = "stream" /\ ~overdue
    /\ overdue' = TRUE
    /\ UNCHANGED <<runner, answer, outcome, tasks, proc, server>>

-----------------------------------------------------------------------------
(* The process *)

\* Lines that nobody will read any more are left out.
Writes(line) ==
    /\ Alive /\ reader = "reading"
    /\ written < MaxLines /\ Len(pipe) < MaxPipe
    /\ pipe' = Append(pipe, line)
    /\ written' = written + 1
    /\ UNCHANGED <<runner, answer, outcome, overdue, tasks, proc>>

ServerAnswers(kind) ==
    /\ owed # 0
    /\ Writes([kind |-> kind, id |-> owed])
    /\ owed' = 0
    /\ UNCHANGED <<working, told>>

ServerEndsTurn(kind) ==
    /\ working # 0
    /\ Writes([kind |-> kind, id |-> 0])
    /\ working' = 0
    /\ told' = IF kind = "completed" THEN told \cup {working} ELSE told
    /\ UNCHANGED owed

\* Requests of its own, and output that means nothing to the client.
ServerTalks(kind) ==
    /\ Writes([kind |-> kind, id |-> 0])
    /\ UNCHANGED <<owed, working, told>>

ServerExits ==
    /\ Alive
    /\ proc' = "dead"
    /\ UNCHANGED <<runner, answer, outcome, overdue, tasks, server>>

-----------------------------------------------------------------------------
RunnerSteps ==
    \/ SpawnFails \/ Spawned \/ Initialized \/ ThreadCreated \/ RunTurnFails
    \/ RunTurn \/ TurnStarted \/ RequestFails \/ TurnCompletes \/ TurnFails
    \/ TurnTimesOut \/ LoopEnds \/ GraceEnds \/ GraceTimesOut \/ Drained

Next ==
    \/ StartSession \/ RunnerSteps
    \/ CancelStartUp \/ CancelTurn \/ CancelStop
    \/ ReadLine \/ ReadEOF \/ AnswerAsk \/ AnswerTool \/ WatchExit
    \/ SilenceElapses
    \/ \E kind \in Answers : ServerAnswers(kind)
    \/ \E kind \in {"completed", "failed"} : ServerEndsTurn(kind)
    \/ \E kind \in {"input", "ask", "tool", "noise"} : ServerTalks(kind)
    \/ ServerExits

Spec == Init /\ [][Next]_vars

\* The event loop resumes the runner's task, and the timers of read_timeout_ms,
\* turn_timeout_ms and the grace period fire.  Nothing is assumed of the process.
FairSpec == Spec /\ WF_vars(RunnerSteps) /\ WF_vars(SilenceElapses)

-----------------------------------------------------------------------------
(* Properties *)

\* Once the exit of the process has been noticed, neither a request nor a turn
\* is waited for: requests and turns that begin later fail in their write.
NobodyWaitsOnTheDead ==
    watcher = "ran" =>
        /\ phase = "request" => answer # "none"
        /\ phase = "stream" => outcome # "none"

\* run_turn returns normally only for a turn the server has announced as
\* completed: not on the late announcement of an earlier one, although the
\* client matches announcements with whatever turn is active.
TurnGetsItsOwnOutcome == returned \subseteq told

\* The outcome of an active turn is the first that came, from the reader, a
\* request of the server or the exit watcher, and does not change any more.
FirstOutcomeStands ==
    [][turn # 0 /\ turn' = turn /\ outcome # "none" => outcome' = outcome]_vars

\* A worker run that was not cancelled in start-up or in its stop leaves
\* neither a process that was not killed nor a task behind.
ChildEndsWithRun ==
    phase = "ended" /\ cut \notin {"startup", "stop"} =>
        /\ proc \in {"none", "killed", "dead"}
        /\ reader # "reading" /\ watcher # "waiting" /\ helpers = {}

\* The run ends although the process may stop answering, may go silent in a
\* turn and may ignore the signal to terminate; provided it falls silent.
RunEnds == phase = "spawn" ~> phase = "ended"

=============================================================================
