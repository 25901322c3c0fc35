----------------------------- MODULE ClaudeTurns -----------------------------
(***************************************************************************)
(* One attempt with the Claude Code client (agent/claude.py): the bridge   *)
(* that serves the tracker's tools, a process per turn, the one retry on a *)
(* session id that exists already, silence timeouts, cancellation, and     *)
(* what the runner calls at the end, session.stop().                       *)
(***************************************************************************)
EXTENDS Integers, FiniteSets

CONSTANTS MaxTurns   \* agent.max_turns, the turns of one attempt

ASSUME TurnsAssumption == MaxTurns \in Nat \ {0}

Launches == 1..(2 * MaxTurns)   \* no turn launches more than two processes

VARIABLES step,     \* where the attempt is
          session,  \* ClaudeSession: started, turns
          known,    \* the provider has a conversation under the session id
          argv,     \* per process: what of its command line matters here
          child,    \* per process: "none", "starting", "live", "refused", "gone"
          signalled, \* the processes that were sent SIGTERM
          proc,     \* self._proc, 0 for None
          tail,     \* "already in use" is in _stderr_tail
          ending,   \* how the turn ended, "none" while it runs
          bridge,   \* TrackerToolBridge: "off", "binding", "on"
          held,     \* self._bridge refers to the bridge
          tokenFile, \* .symphony-mcp.json exists
          toolCalls, \* tools run through the bridge (bounded by MaxTurns)
          cancelled \* the worker's task was cancelled

claudeVars == <<step, session, known, argv, child, signalled, proc, tail, ending,
                bridge, held, tokenFile, toolCalls, cancelled>>
bridgeVars == <<bridge, held, tokenFile, toolCalls, cancelled>>
childVars == <<known, argv, child, signalled>>

Endings == {"none", "completed", "failed", "exit", "timeout", "cancelled"}
Flags == {"--session-id", "--resume", "--mcp-config"}

ClaudeTypes ==
    /\ step \in {"new", "binding", "ready", "streaming", "unwinding", "ended"}
    /\ session \in [started : BOOLEAN, turns : 0..MaxTurns]
    /\ {known, tail, held, tokenFile, cancelled} \subseteq BOOLEAN
    /\ argv \in [Launches -> SUBSET Flags]
    /\ child \in [Launches -> {"none", "starting", "live", "refused", "gone"}]
    /\ signalled \subseteq Launches /\ proc \in Launches \cup {0}
    /\ ending \in Endings /\ bridge \in {"off", "binding", "on"} /\ toolCalls \in 0..MaxTurns

ClaudeInit ==
    /\ step = "new" /\ session = [started |-> FALSE, turns |-> 0]
    /\ known \in BOOLEAN      \* deterministic_session_id after a restart
    /\ argv = [n \in Launches |-> {}] /\ child = [n \in Launches |-> "none"]
    /\ signalled = {} /\ proc = 0 /\ tail = FALSE /\ ending = "none"
    /\ bridge = "off" /\ held = FALSE /\ tokenFile = FALSE /\ toolCalls = 0
    /\ cancelled = FALSE

Launched == {n \in Launches : child[n] # "none"}
Newest == Cardinality(Launched)
Alive(n) == child[n] \in {"starting", "live"}

-----------------------------------------------------------------------------

(* start_session without tools: no bridge.                                 *)
StartSession ==
    /\ step = "new" /\ step' = "ready"
    /\ UNCHANGED <<session, childVars, proc, tail, ending, bridgeVars>>

(* _start_tool_bridge: start() waits for its port.                         *)
StartBridge ==
    /\ step = "new" /\ step' = "binding" /\ bridge' = "binding"
    /\ UNCHANGED <<session, childVars, proc, tail, ending, held, tokenFile, toolCalls, cancelled>>

(* Bound: the configuration is written; or start() failed and the run goes *)
(* on without the tools.                                                   *)
BridgeBound ==
    /\ step = "binding" /\ step' = "ready"
    /\ \/ bridge' = "on" /\ held' = TRUE /\ tokenFile' = TRUE
       \/ bridge' = "off" /\ UNCHANGED <<held, tokenFile>>
    /\ UNCHANGED <<session, childVars, proc, tail, ending, toolCalls, cancelled>>

(* build_argv: the first launch of a session names its id, later ones      *)
(* resume it; the bridge is offered while the client holds it.             *)
Argv(started) ==
    {IF started THEN "--resume" ELSE "--session-id"}
        \cup (IF held /\ tokenFile THEN {"--mcp-config"} ELSE {})

(* _attempt_turn: a new process takes the place of self._proc.             *)
Launch(started) ==
    /\ argv' = [argv EXCEPT ![Newest + 1] = Argv(started)]
    /\ child' = [child EXCEPT ![Newest + 1] = "starting"]
    /\ proc' = Newest + 1 /\ step' = "streaming" /\ ending' = "none"
    /\ UNCHANGED <<known, signalled>>

RunTurn ==
    /\ step = "ready" /\ session.turns < MaxTurns
    /\ session' = [session EXCEPT !.turns = @ + 1]
    /\ Launch(session.started)
    /\ UNCHANGED <<tail, bridgeVars>>

(* The child: accepts its session (system/init), refuses an id that is in  *)
(* use and exits, or exits for any other reason, SIGTERM included.         *)
ChildInit(n) ==
    /\ child[n] = "starting" /\ known = ("--resume" \in argv[n])
    /\ child' = [child EXCEPT ![n] = "live"] /\ known' = TRUE
    /\ session' = IF n = Newest /\ step = "streaming"
                  THEN [session EXCEPT !.started = TRUE] ELSE session
    /\ UNCHANGED <<step, argv, signalled, proc, tail, ending, bridgeVars>>

ChildRefuses(n) ==
    /\ child[n] = "starting" /\ known /\ "--session-id" \in argv[n]
    /\ child' = [child EXCEPT ![n] = "refused"]
    /\ UNCHANGED <<step, session, known, argv, signalled, proc, tail, ending, bridgeVars>>

ChildExits(n) ==
    /\ Alive(n) /\ child' = [child EXCEPT ![n] = "gone"]
    /\ UNCHANGED <<step, session, known, argv, signalled, proc, tail, ending, bridgeVars>>

(* The agent calls a tool: only with the token of the file, for the issue  *)
(* the bridge was made for (_handle, _call).                               *)
BridgeCall(n) ==
    /\ child[n] = "live" /\ "--mcp-config" \in argv[n]
    /\ bridge = "on" /\ toolCalls < MaxTurns /\ toolCalls' = toolCalls + 1
    /\ UNCHANGED <<step, session, childVars, proc, tail, ending, bridge, held, tokenFile,
                   cancelled>>

-----------------------------------------------------------------------------

(* _consume leaves its loop: on a result event (is_error is the authority),*)
(* at the end of the stream of a process that is gone.                     *)
ResultArrives(how) ==
    /\ step = "streaming" /\ child[Newest] = "live" /\ session.started
    /\ step' = "unwinding" /\ ending' = how
    /\ UNCHANGED <<session, childVars, proc, tail, bridgeVars>>

StreamEnds ==
    /\ step = "streaming" /\ child[Newest] \in {"refused", "gone"}
    /\ step' = "unwinding" /\ ending' = "exit"
    /\ UNCHANGED <<session, childVars, proc, tail, bridgeVars>>

(* ClaudeCodeClient.stop: the bridge, its file and the live process.       *)
StopClient ==
    /\ IF held THEN bridge' = "off" ELSE UNCHANGED bridge
    /\ held' = FALSE /\ tokenFile' = FALSE /\ proc' = 0
    /\ signalled' = IF proc # 0 /\ Alive(proc) THEN signalled \cup {proc} ELSE signalled

(* Silence past read_timeout_ms or turn_timeout_ms.                        *)
StreamSilent ==
    /\ step = "streaming" /\ Alive(Newest)
    /\ StopClient /\ step' = "unwinding" /\ ending' = "timeout"
    /\ UNCHANGED <<session, known, argv, child, tail, toolCalls, cancelled>>

\* Mutant: the output is thrown away with the process.
StderrDropped == UNCHANGED tail

(* The finally of _attempt_turn: stderr is read until it closes or for two *)
(* seconds, the process awaited for five, and self._proc forgotten.        *)
DrainStderr == tail' = (tail \/ child[Newest] = "refused")

UnwindTurn ==
    /\ step = "unwinding" /\ ending # "none"
    /\ DrainStderr /\ proc' = 0
    /\ step' = "ready"
    /\ UNCHANGED <<session, childVars, ending, bridgeVars>>

(* run_turn: PortExit on a session that never started and whose id is in   *)
(* use: resume it, once.                                                   *)
CanResume == ending = "exit" /\ ~session.started /\ tail

ResumeTurn ==
    /\ step = "ready" /\ CanResume
    /\ session' = [session EXCEPT !.started = TRUE] /\ tail' = FALSE
    /\ Launch(TRUE)
    /\ UNCHANGED bridgeVars

NextTurn == ending \in {"none", "completed"} /\ RunTurn

(* AgentRunner: any other ending fails the attempt, and so does what       *)
(* happens between the turns; both call session.stop(), which only marks   *)
(* the session.                                                            *)
EndAttempt ==
    /\ step = "ready" /\ ~CanResume
    /\ step' = "ended"
    /\ UNCHANGED <<session, childVars, proc, tail, ending, bridgeVars>>

(* The worker is cancelled.  In start() nobody holds the bridge, whose     *)
(* server task goes on; in a turn the finally of _attempt_turn runs first, *)
(* and leaves self._proc set when the cancellation meets its last wait.    *)
CancelWorker ==
    /\ step \in {"binding", "ready", "streaming", "unwinding"}
    /\ ~cancelled /\ cancelled' = TRUE /\ ending' = "cancelled" /\ step' = "ended"
    /\ proc' = IF step = "unwinding" THEN proc ELSE 0
    /\ bridge' = IF step = "binding" THEN "on" ELSE bridge
    /\ UNCHANGED <<session, childVars, tail, held, tokenFile, toolCalls>>

(* A cancellation that meets the wait for stderr is suppressed with that   *)
(* wait's own timeout, and the attempt goes on.                            *)
SwallowCancel ==
    /\ step = "unwinding" /\ ~cancelled /\ cancelled' = TRUE
    /\ UNCHANGED <<step, session, childVars, proc, tail, ending, bridge, held,
                   tokenFile, toolCalls>>

ClaudeNext ==
    \/ StartSession \/ StartBridge \/ BridgeBound \/ NextTurn \/ ResumeTurn
    \/ \E n \in Launches : \/ ChildInit(n) \/ ChildRefuses(n)
                           \/ ChildExits(n) \/ BridgeCall(n)
    \/ \E how \in {"completed", "failed"} : ResultArrives(how)
    \/ StreamEnds \/ StreamSilent \/ UnwindTurn \/ EndAttempt
    \/ CancelWorker \/ SwallowCancel

ClaudeSpec == ClaudeInit /\ [][ClaudeNext]_claudeVars

(* run_turn, "the first turn self-heals": an attempt never fails because   *)
(* its session id is in use, the conversation is opened by one process at  *)
(* most and resumed by all others, and one extra process at most is        *)
(* launched in an attempt however many turns it has.                       *)
SessionSurvivesRestart ==
    /\ Newest <= session.turns + 1
    /\ step = "ended" /\ ending = "exit" => child[Newest] # "refused"
    /\ \A n \in Launched : "--session-id" \in argv[n] => n = 1

(* mcp_bridge.py: "Lifetime is one agent attempt: started before the first *)
(* turn, stopped when the client stops."                                   *)
BridgeEndsWithRun == step = "ended" /\ ~cancelled => bridge = "off" /\ ~tokenFile

=============================================================================
