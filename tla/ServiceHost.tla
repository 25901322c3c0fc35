----------------------------- MODULE ServiceHost -----------------------------
(***************************************************************************)
(* ServiceHost of cli.py: the startup sequence of SPEC 16.1, serving, the  *)
(* graceful stop with its signals, and aclose, which runs on every way     *)
(* out.  A part of the service may fail to start and refuse to stop.       *)
(***************************************************************************)
EXTENDS Integers, Sequences

CONSTANT MaxSignals \* bound: SIGINT and SIGTERM received

ASSUME SignalAssumption == MaxSignals \in Nat

(* What start() brings up, in this order, and aclose takes down.           *)
Startup == <<"config", "observability", "watch", "validation", "tracker", "orchestrator">>
Teardown == <<"orchestrator", "tracker", "watch", "observability">>
Parts == {Teardown[n] : n \in DOMAIN Teardown}

VARIABLES stage,     \* "starting", "serving", "stopping", "grace", "closing", "exited"
          next,      \* the step of Startup or Teardown to come
          up,        \* the parts whose object the host holds and has not closed
          refused,   \* the parts whose closing raised
          runLoop,   \* "off", "running", "lost" (over while serving), "ended" (over later)
          signals,   \* request_shutdown calls, _signal_count
          shutdown,  \* _shutdown is set
          force,     \* _force is set
          interrupt, \* asyncio.run's own SIGINT, where the host has no handler in place:
                     \* "none", "pending", "landed" (in start or serve), "cut" (in aclose)
          code       \* the exit code: "none", "ok", "startup", "runtime"

hostVars == <<stage, next, up, refused, runLoop, signals, shutdown, force, interrupt, code>>

HostTypes ==
    /\ stage \in {"starting", "serving", "stopping", "grace", "closing", "exited"}
    /\ next \in 1..(Len(Startup) + 1) /\ up \subseteq Parts /\ refused \subseteq Parts
    /\ runLoop \in {"off", "running", "lost", "ended"}
    /\ signals \in 0..MaxSignals /\ shutdown \in BOOLEAN /\ force \in BOOLEAN
    /\ interrupt \in {"none", "pending", "landed", "cut"}
    /\ code \in {"none", "ok", "startup", "runtime"}

HostInit ==
    /\ stage = "starting" /\ next = 1 /\ up = {} /\ refused = {} /\ runLoop = "off"
    /\ signals = 0 /\ shutdown = FALSE /\ force = FALSE /\ interrupt = "none" /\ code = "none"

Close(how) == stage' = "closing" /\ next' = 1 /\ code' = how

\* The watcher and the orchestrator are held before their start() is awaited.
HeldEarly ==
    IF stage = "starting" THEN {Startup[next]} \cap {"watch", "orchestrator"} ELSE {}

-----------------------------------------------------------------------------

(* A step of start() completes.  The orchestrator's runs the loop and      *)
(* serve() begins.                                                         *)
StepStarts ==
    /\ stage = "starting" /\ next' = next + 1
    /\ up' = up \cup ({Startup[next]} \cap Parts)
    /\ IF Startup[next] = "orchestrator"
       THEN stage' = "serving" /\ runLoop' = "running"
       ELSE UNCHANGED <<stage, runLoop>>
    /\ UNCHANGED <<refused, signals, shutdown, force, interrupt, code>>

(* A step raises.  Observability is optional; any other failure unwinds    *)
(* what is up.                                                             *)
StepFails ==
    /\ stage = "starting"
    /\ IF Startup[next] = "observability"
       THEN next' = next + 1 /\ UNCHANGED <<stage, up, code>>
       ELSE /\ Close("startup")
            /\ \E held \in SUBSET HeldEarly : up' = up \cup held
    /\ UNCHANGED <<refused, runLoop, signals, shutdown, force, interrupt>>

(* SIGINT before serve() has its handlers in place: asyncio.run cancels    *)
(* the main task, which learns of it at its next suspension, in a step of  *)
(* start() or in serve()'s first wait.  Both unwind through aclose, and    *)
(* run() counts it as a stop the operator asked for.                       *)
InterruptComes ==
    /\ stage = "starting" /\ interrupt = "none"
    /\ interrupt' = "pending"
    /\ UNCHANGED <<stage, next, up, refused, runLoop, signals, shutdown, force, code>>

InterruptLands ==
    /\ stage \in {"starting", "serving"} /\ interrupt = "pending"
    /\ interrupt' = "landed" /\ Close("ok")
    /\ \E held \in SUBSET HeldEarly : up' = up \cup held
    /\ UNCHANGED <<refused, runLoop, signals, shutdown, force>>

(* request_shutdown: the first call sets the event, a later one escalates. *)
Signal ==
    /\ stage \in {"serving", "stopping", "grace"} /\ signals < MaxSignals
    /\ signals' = signals + 1
    /\ shutdown' = TRUE /\ force' = shutdown
    /\ UNCHANGED <<stage, next, up, refused, runLoop, interrupt, code>>

(* run_forever raises or returns.                                          *)
LoopEnds ==
    /\ runLoop = "running" /\ stage \in {"serving", "stopping", "grace", "closing"}
    /\ runLoop' = (IF stage = "serving" THEN "lost" ELSE "ended")
    /\ UNCHANGED <<stage, next, up, refused, signals, shutdown, force, interrupt, code>>

(* serve: a finished run loop is looked at before the request to stop that *)
(* may have woken the wait; however it ended, that is abnormal.            *)
LoopFoundDone ==
    /\ stage = "serving" /\ interrupt # "pending" /\ runLoop # "running"
    /\ Close("runtime")
    /\ UNCHANGED <<up, refused, runLoop, signals, shutdown, force, interrupt>>

\* Mutant: the request to stop is looked at first.
StopFirst ==
    /\ stage = "serving" /\ interrupt # "pending" /\ shutdown
    /\ stage' = "stopping"
    /\ UNCHANGED <<next, up, refused, runLoop, signals, shutdown, force, interrupt, code>>

BeginStop ==
    /\ stage = "serving" /\ interrupt # "pending" /\ runLoop = "running" /\ shutdown
    /\ stage' = "stopping"
    /\ UNCHANGED <<next, up, refused, runLoop, signals, shutdown, force, interrupt, code>>

(* orchestrator.stop() returns, its loop with it or soon after, or raises. *)
(* Nothing but it ends this stage, force neither.                          *)
StopDone ==
    /\ stage = "stopping" /\ stage' = "grace"
    /\ UNCHANGED <<next, up, refused, runLoop, signals, shutdown, force, interrupt, code>>

(* The loop unwound within the grace, or is cancelled when the grace is    *)
(* over or a second signal came.                                           *)
LoopUnwound ==
    /\ stage = "grace" /\ runLoop # "running"
    /\ Close("ok")
    /\ UNCHANGED <<up, refused, runLoop, signals, shutdown, force, interrupt>>

LoopCancelled ==
    /\ stage = "grace" /\ runLoop = "running"
    /\ runLoop' = "ended" /\ Close("ok")
    /\ UNCHANGED <<up, refused, signals, shutdown, force, interrupt>>

(* aclose: each part in turn; one that refuses is reported.                *)
ClosePart ==
    /\ stage = "closing" /\ next <= Len(Teardown) /\ next' = next + 1
    /\ \/ up' = up \ {Teardown[next]} /\ UNCHANGED refused
       \/ Teardown[next] \in up /\ refused' = refused \cup {Teardown[next]} /\ UNCHANGED up
    /\ UNCHANGED <<stage, runLoop, signals, shutdown, force, interrupt, code>>

(* The host's handlers are gone again: an interrupt in the middle of a     *)
(* part's closing ends aclose, whose guard is for exceptions only, and     *)
(* whatever way the run ended is forgotten.                                *)
TeardownCut ==
    /\ stage = "closing" /\ next <= Len(Teardown) /\ Teardown[next] \in up
    /\ stage' = "exited" /\ interrupt' = "cut" /\ code' = "ok"
    /\ runLoop' = (IF runLoop = "running" THEN "ended" ELSE runLoop)
    /\ UNCHANGED <<next, up, refused, signals, shutdown, force>>

(* asyncio.run cancels what is left.                                       *)
Exit ==
    /\ stage = "closing" /\ next > Len(Teardown)
    /\ stage' = "exited"
    /\ runLoop' = (IF runLoop = "running" THEN "ended" ELSE runLoop)
    /\ UNCHANGED <<next, up, refused, signals, shutdown, force, interrupt, code>>

HostNext ==
    \/ StepStarts \/ StepFails \/ InterruptComes \/ InterruptLands \/ Signal
    \/ LoopEnds \/ LoopFoundDone \/ BeginStop \/ StopDone \/ LoopUnwound \/ LoopCancelled
    \/ ClosePart \/ TeardownCut \/ Exit

HostSpec == HostInit /\ [][HostNext]_hostVars

(* aclose, "one collaborator refusing to close must not strand the others";*)
(* serve, "Returns normally on an operator-requested stop" and raises      *)
(* otherwise.  Whatever failed to start, refused to stop, ended by itself  *)
(* or was interrupted, at exit the only parts left open are those that     *)
(* refused, unless an interrupt cut the teardown; ok means that an         *)
(* operator asked for the end, by a signal or an interrupt; and a failed   *)
(* startup and a run loop lost before the stop began show in the code,     *)
(* whatever else was asked, unless an interrupt came over them.            *)
ExitIsClean ==
    LET interrupted == interrupt \in {"landed", "cut"} IN
    stage = "exited" =>
        /\ interrupt # "cut" => up \subseteq refused
        /\ code = "ok" => shutdown \/ interrupted
        /\ code = "startup" => runLoop = "off"
        /\ runLoop = "off" => code = "startup" \/ interrupted
        /\ code = "runtime" => runLoop = "lost"
        /\ runLoop = "lost" => code = "runtime" \/ interrupted

=============================================================================
