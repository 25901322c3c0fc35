---------------------------- MODULE ServiceProofs ----------------------------
(***************************************************************************)
(* Theorems about what surrounds the orchestrator in the process: the      *)
(* service host (ServiceHost), the workflow watcher (WorkflowWatch), the   *)
(* refresh trigger (HttpSurface), the log router (LogRouting) and the      *)
(* retry queue (RetryQueue).                                               *)
(***************************************************************************)
EXTENDS ServiceHost, WorkflowWatch, HttpSurface, LogRouting, RetryQueue, TLAPS

USE SignalAssumption, WatchAssumption, SurfaceAssumption, RouterAssumption

-----------------------------------------------------------------------------
(* ServiceHost: the way out                                                *)

LEMMA PartsAre == Parts = {"orchestrator", "tracker", "watch", "observability"}
<1>1. DOMAIN Teardown = 1 .. 4
    BY DEF Teardown
<1>2. /\ Teardown[1] = "orchestrator" /\ Teardown[2] = "tracker"
      /\ Teardown[3] = "watch" /\ Teardown[4] = "observability"
    BY DEF Teardown
<1>. QED
    BY <1>1, <1>2 DEF Parts

LEMMA StartupIs ==
    /\ Len(Startup) = 6 /\ Len(Teardown) = 4
    /\ \A n \in 1 .. 6 : (Startup[n] = "orchestrator" <=> n = 6) /\ (Startup[n] = "observability" <=> n = 2)
    BY DEF Startup, Teardown

\* The stages are gone through in order, and each leaves its mark: the run
\* loop starts with serving, the exit code with closing, a part that the
\* teardown has passed is up only if it refused; an interrupt unwinds only
\* where it lands.
HostOrder ==
    /\ stage \in {"starting", "serving", "stopping", "grace", "closing", "exited"}
    /\ interrupt \in {"none", "pending", "landed", "cut"}
    /\ next \in Nat
    /\ up \subseteq Parts
    /\ stage = "starting" => runLoop = "off" /\ next \in 1 .. 6
    /\ stage = "serving" => runLoop \in {"running", "lost"}
    /\ stage \in {"stopping", "grace"} => shutdown /\ runLoop \in {"running", "ended"}
    /\ stage \notin {"closing", "exited"} => code = "none" /\ interrupt \in {"none", "pending"}
    /\ stage \in {"closing", "exited"} =>
        /\ code \in {"ok", "startup", "runtime"}
        /\ code = "ok" => shutdown \/ interrupt \in {"landed", "cut"}
        /\ code = "startup" => runLoop = "off"
        /\ runLoop = "off" => code = "startup" \/ interrupt \in {"landed", "cut"}
        /\ code = "runtime" => runLoop = "lost"
        /\ runLoop = "lost" => code = "runtime" \/ interrupt \in {"landed", "cut"}
    /\ stage = "closing" =>
        \A n \in 1 .. 4 : n < next => Teardown[n] \notin up \/ Teardown[n] \in refused
    /\ stage = "exited" /\ interrupt # "cut" => up \subseteq refused

LEMMA HostOrderStep == ASSUME HostOrder, [HostNext]_hostVars PROVE HostOrder'
<1>1. CASE StepStarts
    BY <1>1, StartupIs DEF StepStarts, HostOrder
<1>. DEFINE Given(held) == held \subseteq {"watch", "orchestrator"} /\ up' = up \cup held
<1>e. HeldEarly \subseteq {"watch", "orchestrator"}
    BY DEF HeldEarly
<1>u. ASSUME NEW held, Given(held) PROVE up' \subseteq Parts
    BY <1>u, PartsAre DEF HostOrder
<1>2. CASE StepFails
    <2>1. stage = "starting" /\ UNCHANGED <<refused, runLoop, signals, shutdown, force, interrupt>>
        BY <1>2 DEF StepFails
    <2>2. CASE Startup[next] = "observability"
        <3>1. next' = next + 1 /\ UNCHANGED <<stage, up, code>>
            BY <1>2, <2>2, Zenon DEF StepFails
        <3>. QED
            BY <2>1, <2>2, <3>1, StartupIs DEF HostOrder
    <2>3. CASE Startup[next] # "observability"
        <3>1. stage' = "closing" /\ next' = 1 /\ code' = "startup"
            BY <1>2, <2>3, Zenon DEF StepFails, Close
        <3>2. PICK held \in SUBSET HeldEarly : up' = up \cup held
            BY <1>2, <2>3, Zenon DEF StepFails
        <3>3. up' \subseteq Parts
            BY <1>e, <1>u, <3>2
        <3>. QED
            BY <2>1, <3>1, <3>3 DEF HostOrder
    <2>. QED
        BY <2>2, <2>3
<1>3. CASE Signal
    BY <1>3 DEF Signal, HostOrder
<1>4. CASE InterruptComes \/ LoopEnds
    BY <1>4 DEF InterruptComes, LoopEnds, HostOrder
<1>5. CASE InterruptLands
    <2>1. /\ stage' = "closing" /\ next' = 1 /\ code' = "ok" /\ interrupt' = "landed"
          /\ UNCHANGED <<refused, runLoop, signals, shutdown, force>>
        BY <1>5 DEF InterruptLands, Close
    <2>2. PICK held \in SUBSET HeldEarly : up' = up \cup held
        BY <1>5, Zenon DEF InterruptLands
    <2>3. up' \subseteq Parts
        BY <1>e, <1>u, <2>2
    <2>. QED
        BY <1>5, <2>1, <2>3 DEF InterruptLands, HostOrder
<1>6. CASE LoopFoundDone
    BY <1>6 DEF LoopFoundDone, Close, HostOrder
<1>7. CASE BeginStop \/ StopDone
    BY <1>7 DEF BeginStop, StopDone, HostOrder
<1>8. CASE LoopUnwound \/ LoopCancelled
    BY <1>8 DEF LoopUnwound, LoopCancelled, Close, HostOrder
<1>9. CASE ClosePart
    <2>1. /\ stage = "closing" /\ next' = next + 1
          /\ UNCHANGED <<stage, runLoop, signals, shutdown, force, interrupt, code>>
        BY <1>9 DEF ClosePart
    <2>2. /\ up' \subseteq up /\ refused \subseteq refused'
          /\ Teardown[next] \notin up' \/ Teardown[next] \in refused'
        BY <1>9 DEF ClosePart
    <2>3. ASSUME NEW n \in 1 .. 4, n < next' PROVE Teardown[n] \notin up' \/ Teardown[n] \in refused'
        <3>1. n < next \/ n = next
            BY <2>1, <2>3 DEF HostOrder
        <3>. QED
            BY <2>1, <2>2, <3>1 DEF HostOrder
    <2>. QED
        BY <2>1, <2>2, <2>3 DEF HostOrder
<1>10. CASE TeardownCut
    BY <1>10 DEF TeardownCut, HostOrder
<1>11. CASE Exit
    <2>1. next > 4 /\ stage = "closing" /\ stage' = "exited"
          /\ UNCHANGED <<next, up, refused, signals, shutdown, force, interrupt, code>>
        BY <1>11, StartupIs DEF Exit
    <2>2. \A n \in 1 .. 4 : Teardown[n] \notin up \/ Teardown[n] \in refused
        BY <2>1 DEF HostOrder
    <2>3. up \subseteq refused
        BY <2>2, PartsAre DEF HostOrder, Teardown
    <2>4. runLoop' = runLoop \/ (runLoop = "running" /\ runLoop' = "ended")
        BY <1>11, Zenon DEF Exit
    <2>. QED
        BY <2>1, <2>3, <2>4 DEF HostOrder
<1>12. CASE UNCHANGED hostVars
    BY <1>12 DEF hostVars, HostOrder
<1>. QED
    BY <1>1, <1>2, <1>3, <1>4, <1>5, <1>6, <1>7, <1>8, <1>9, <1>10, <1>11, <1>12 DEF HostNext

(* ServiceHost.aclose, serve and run: whatever part failed to start,       *)
(* refused to stop or ended by itself, and wherever an interrupt landed,   *)
(* at exit only a part that refused is left open unless the interrupt cut  *)
(* the teardown, and the exit code tells how the service ended.            *)
THEOREM ExitsAreClean == HostSpec => []ExitIsClean
<1>1. HostInit => HostOrder
    BY DEF HostInit, HostOrder
<1>2. HostOrder => ExitIsClean
    BY DEF HostOrder, ExitIsClean
<1>. QED
    BY <1>1, <1>2, HostOrderStep, PTL DEF HostSpec

-----------------------------------------------------------------------------
(* WorkflowWatch: what is in force                                         *)

LEMMA WatchTypesInit == WatchInit => WatchTypes
<1>1. WatchInit => changed \in BOOLEAN /\ torn \in BOOLEAN
    BY Zenon DEF WatchInit
<1>. QED
    BY <1>1 DEF WatchInit, WatchTypes, Passes, Stamps

LEMMA WatchTypesStep == ASSUME WatchTypes, [WatchNext]_watchVars PROVE WatchTypes'
<1>1. CASE BeginPrime \/ BeginPass
    BY <1>1 DEF BeginPrime, BeginPass, TakeStamp, WatchTypes, Passes, Stamps
<1>2. CASE EndPrime \/ ReadPass
    BY <1>2 DEF EndPrime, ReadPass, LoadFile, Loads, WatchTypes, Passes, Stamps
<1>3. CASE SkipPass \/ ConfigOrdered \/ ConfigRefused \/ WatchDies
    BY <1>3 DEF SkipPass, ConfigOrdered, ConfigRefused, WatchDies, WatchTypes, Passes, Stamps
<1>4. CASE ReloadWorkflow
    BY <1>4 DEF ReloadWorkflow, Loads, WatchTypes, Passes, Stamps
<1>5. ASSUME NEW content \in Contents, Save(content) PROVE WatchTypes'
    <2>1. changed' = changed \/ changed' = (pass \notin {"start", "priming"})
        BY <1>5, Zenon DEF Save
    <2>2. changed' \in BOOLEAN
        BY <2>1, Zenon DEF WatchTypes
    <2>3. torn' \in BOOLEAN
        BY <1>5, Zenon DEF Save
    <2>4. /\ file' \in Contents /\ saves' \in 0 .. MaxSaves
          /\ UNCHANGED <<pass, stamp, applied, failed, value, effective, ordered>>
        BY <1>5 DEF Save, WatchTypes
    <2>. QED
        BY <2>2, <2>3, <2>4, Zenon DEF WatchTypes
<1>6. CASE UNCHANGED watchVars
    BY <1>6 DEF watchVars, WatchTypes
<1>. QED
    BY <1>1, <1>2, <1>3, <1>4, <1>5, <1>6 DEF WatchNext

\* The reads of a pass agree as long as no save fell between them.
InForce == applied = value /\ value = effective /\ effective = ordered

PassFits ==
    /\ pass = "start" => file \notin Broken /\ effective = file /\ ordered = file /\ failed = NoContent
    /\ pass = "priming" => file \notin Broken /\ effective = file /\ ordered = file /\ stamp = file
    /\ pass \in {"idle", "reading"} => InForce /\ failed \in Broken \cup {NoContent}
    /\ pass = "idle" => changed \/ file = value \/ file \in Broken
    /\ pass \in {"reading", "notifying", "ordering"} => stamp = file
    /\ pass \in {"notifying", "ordering"} => value = file
    /\ pass = "ordering" => effective = file

\* A content that was just loaded is the one applied, and none has failed
\* since: that is what lets a later pass make up for a torn one.
JustLoaded == pass \in {"notifying", "ordering"} => failed = NoContent /\ applied = stamp

FileFits == JustLoaded /\ (torn \/ PassFits)

LEMMA FileFitsStep == ASSUME WatchTypes, FileFits, [WatchNext]_watchVars PROVE FileFits'
<1>1. CASE BeginPrime
    BY <1>1 DEF BeginPrime, TakeStamp, FileFits, JustLoaded, PassFits
<1>2. CASE EndPrime
    BY <1>2 DEF EndPrime, LoadFile, Loads, FileFits, JustLoaded, PassFits, InForce
<1>3. CASE BeginPass
    BY <1>3 DEF BeginPass, TakeStamp, FileFits, JustLoaded, PassFits, InForce
<1>4. CASE SkipPass
    BY <1>4 DEF SkipPass, Settled, FileFits, JustLoaded, PassFits, InForce, WatchTypes
<1>5. CASE ReadPass
    BY <1>5 DEF ReadPass, LoadFile, Loads, FileFits, JustLoaded, PassFits, InForce
<1>6. CASE ReloadWorkflow
    BY <1>6 DEF ReloadWorkflow, Loads, FileFits, JustLoaded, PassFits, WatchTypes
<1>7. CASE ConfigOrdered
    BY <1>7 DEF ConfigOrdered, FileFits, JustLoaded, PassFits, InForce
<1>8. CASE ConfigRefused \/ WatchDies
    BY <1>8 DEF ConfigRefused, WatchDies, FileFits, JustLoaded
<1>9. ASSUME NEW content \in Contents, Save(content) PROVE FileFits'
    BY <1>9 DEF Save, FileFits, JustLoaded, PassFits, InForce, WatchTypes
<1>10. CASE UNCHANGED watchVars
    BY <1>10 DEF watchVars, FileFits, JustLoaded, PassFits, InForce
<1>. QED
    BY <1>1, <1>2, <1>3, <1>4, <1>5, <1>6, <1>7, <1>8, <1>9, <1>10 DEF WatchNext

(* WorkflowWatcher and ServiceHost.reload_workflow: for whatever contents, *)
(* broken or not, and however often the file is saved, a watcher at rest   *)
(* has put the file in force, unless a save fell between the three reads   *)
(* of its last pass or no event told of one.                               *)
THEOREM FileComesIntoForce == WatchSpec => []FileIsInForce
<1>1. WatchInit => WatchTypes
    BY WatchTypesInit
<1>2. WatchInit => FileFits
    BY DEF WatchInit, FileFits, JustLoaded, PassFits
<1>3. FileFits => FileIsInForce
    BY DEF FileFits, PassFits, InForce, FileIsInForce
<1>. QED
    BY <1>1, <1>2, <1>3, WatchTypesStep, FileFitsStep, PTL DEF WatchSpec

-----------------------------------------------------------------------------
(* HttpSurface: the refresh trigger                                        *)

\* Requests made and the flag agree; and a refresh the waiter has seen is
\* the one it is about to take, or one that a poll took before it.
TriggerFits ==
    /\ unserved \in Nat /\ requests \in Nat /\ pending \in BOOLEAN
    /\ pending <=> unserved > 0
    /\ waiter = "asleep" => ~pending

\* What a request and a consume do to the two, as far as they differ.
LEMMA RequestFits == ASSUME TriggerFits, Request PROVE TriggerFits'
<1>1. CASE "coordinator" \in Wired
    <2>1. pending' = TRUE /\ (waiter' = IF waiter = "asleep" THEN "woken" ELSE waiter)
        BY <1>1, Zenon DEF Request
    <2>2. unserved' = unserved + 1 /\ requests' = requests + 1
        BY <1>1, Zenon DEF Request
    <2>3. unserved' \in Nat /\ requests' \in Nat /\ unserved' > 0
        BY <2>2 DEF TriggerFits
    <2>4. waiter' # "asleep"
        BY <2>1
    <2>. QED
        BY <2>1, <2>3, <2>4, Zenon DEF TriggerFits
<1>2. CASE "coordinator" \notin Wired
    <2>1. UNCHANGED <<pending, event, waiter, unserved, requests>>
        BY <1>2, Zenon DEF Request
    <2>. QED
        BY <2>1, Zenon DEF TriggerFits
<1>. QED
    BY <1>1, <1>2

LEMMA ConsumeFits ==
    ASSUME TriggerFits, NEW after, after = "busy" \/ after = waiter, Consume(after)
    PROVE  TriggerFits'
<1>1. pending' = FALSE /\ waiter' = after /\ requests' = requests
    BY Zenon DEF Consume
<1>2. unserved' = 0
    <2>1. CASE pending
        BY <2>1, Zenon DEF Consume
    <2>2. CASE ~pending
        <3>1. unserved' = unserved
            BY <2>2, Zenon DEF Consume
        <3>2. ~(unserved > 0) /\ unserved \in Nat
            BY <2>2, Zenon DEF TriggerFits
        <3>. QED
            BY <3>1, <3>2
    <2>. QED
        BY <2>1, <2>2
<1>3. unserved' \in Nat /\ ~(unserved' > 0)
    BY <1>2
<1>. QED
    BY <1>1, <1>3, Zenon DEF TriggerFits

LEMMA TriggerFitsStep ==
    ASSUME TriggerFits, [HttpNext]_httpVars PROVE TriggerFits'
<1>1. ASSUME NEW c \in Callers, Refresh(c) PROVE TriggerFits'
    <2>1. CASE Request
        BY <2>1, RequestFits
    <2>2. CASE UNCHANGED <<pending, event, waiter, unserved, requests>>
        BY <2>2, Zenon DEF TriggerFits
    <2>. QED
        BY <1>1, <2>1, <2>2, Zenon DEF Refresh
<1>2. ASSUME NEW c \in Callers, HookDone(c) PROVE TriggerFits'
    BY <1>2 DEF HookDone, TriggerFits
<1>3. CASE Wait
    BY <1>3 DEF Wait, TriggerFits
<1>4. CASE ConsumeWaited \/ ConsumePolled
    BY <1>4, ConsumeFits DEF ConsumeWaited, ConsumePolled
<1>5. CASE \/ StartServer \/ UvicornStarts \/ StartReturns
           \/ StopServer \/ TaskOver \/ StopReturns
    BY <1>5 DEF StartServer, UvicornStarts, StartReturns, StopServer, TaskOver, StopReturns,
                triggerVars, TriggerFits
<1>6. CASE UNCHANGED httpVars
    BY <1>6 DEF httpVars, TriggerFits
<1>. QED
    BY <1>1, <1>2, <1>3, <1>4, <1>5, <1>6 DEF HttpNext

(* RefreshCoordinator: with any number of clients, a waiter and a polling  *)
(* tick, a request stays pending until a consume takes it, and nobody      *)
(* sleeps on one.                                                          *)
THEOREM RefreshesAreNeverLost == HttpSpec => []RefreshIsNeverLost
<1>1. HttpInit => TriggerFits
    <2> SUFFICES ASSUME HttpInit PROVE TriggerFits
        OBVIOUS
    <2>1. pending = FALSE /\ unserved = 0 /\ requests = 0 /\ waiter = "busy"
        BY Zenon DEF HttpInit
    <2>2. unserved \in Nat /\ requests \in Nat /\ ~(unserved > 0) /\ waiter # "asleep"
        BY <2>1
    <2>. QED
        BY <2>1, <2>2, Zenon DEF TriggerFits
<1>2. TriggerFits => RefreshIsNeverLost
    BY DEF TriggerFits, RefreshIsNeverLost
<1>. QED
    BY <1>1, <1>2, TriggerFitsStep, PTL DEF HttpSpec

-----------------------------------------------------------------------------
(* LogRouting: failures that are told                                      *)

LogRecord ==
    [phase : {"idle", "fanning", "reporting", "done"}, targets : SUBSET Sinks,
     failed : SUBSET Sinks, survivors : SUBSET Sinks, spilled : BOOLEAN,
     told : SUBSET Sinks, lost : SUBSET Sinks]

\* What is lost is either still to be reported or told already; a record whose
\* fan-out is over and that some sink lost has a survivor or was spilled.
LossIsTold(e) ==
    /\ e.lost = e.failed \cup e.told
    /\ e.phase = "fanning" => e.told = {}
    /\ e.phase = "done" => e.failed = {}
    /\ e.phase \in {"reporting", "done"} /\ e.lost # {} => e.survivors # {} \/ e.spilled

LogInv ==
    /\ active \subseteq Sinks /\ disabled \subseteq Sinks
    /\ failures \in [Sinks -> Nat] /\ emitted \in [Writers -> 0 .. MaxRecords]
    /\ emission \in [Writers -> LogRecord]
    /\ \A w \in Writers : LossIsTold(emission[w])
    /\ \A s \in active : failures[s] < MaxFailures

\* A step of thread w on its own record leaves the records of the others.
LEMMA OneRecordMoves ==
    ASSUME LogInv, NEW w \in Writers, NEW e \in LogRecord, LossIsTold(e),
           emission' = [emission EXCEPT ![w] = e]
    PROVE  emission' \in [Writers -> LogRecord] /\ \A v \in Writers : LossIsTold(emission'[v])
<1>1. emission' \in [Writers -> LogRecord]
    BY DEF LogInv
<1>2. ASSUME NEW v \in Writers PROVE LossIsTold(emission'[v])
    <2>1. emission'[v] = e \/ emission'[v] = emission[v]
        BY DEF LogInv
    <2>2. LossIsTold(emission[v])
        BY DEF LogInv
    <2>. QED
        BY <2>1, <2>2
<1>. QED
    BY <1>1, <1>2

LEMMA IdleRecord == Idle \in LogRecord /\ LossIsTold(Idle)
    BY DEF Idle, LogRecord, LossIsTold

LEMMA BeginEmitKeeps == ASSUME LogInv, NEW w \in Writers, BeginEmit(w) PROVE LogInv'
<1>. DEFINE e == [Idle EXCEPT !.phase = "fanning", !.targets = active]
<1>1. e \in LogRecord /\ LossIsTold(e)
    BY DEF Idle, LogRecord, LossIsTold, LogInv
<1>2. emission' = [emission EXCEPT ![w] = e]
    BY DEF BeginEmit
<1>3. emission' \in [Writers -> LogRecord] /\ \A v \in Writers : LossIsTold(emission'[v])
    BY <1>1, <1>2, OneRecordMoves
<1>4. emitted' \in [Writers -> 0 .. MaxRecords]
    BY DEF BeginEmit, LogInv
<1>. QED
    BY <1>3, <1>4 DEF BeginEmit, LogInv

LEMMA DeliveredKeeps ==
    ASSUME LogInv, NEW w \in Writers, NEW s \in Sinks, Delivered(w, s) PROVE LogInv'
<1>. DEFINE e == [emission[w] EXCEPT !.targets = @ \ {s}, !.survivors = @ \cup {s}]
<1>0. emission[w] \in LogRecord /\ LossIsTold(emission[w])
    BY DEF LogInv
<1>1. e \in LogRecord /\ LossIsTold(e)
    BY <1>0 DEF LogRecord, LossIsTold
<1>2. emission' = [emission EXCEPT ![w] = e]
    BY <1>0 DEF Delivered, LogInv, LogRecord
<1>3. emission' \in [Writers -> LogRecord] /\ \A v \in Writers : LossIsTold(emission'[v])
    BY <1>1, <1>2, OneRecordMoves
<1>4. failures' \in [Sinks -> Nat] /\ \A t \in active : failures'[t] < MaxFailures
    BY DEF Delivered, LogInv
<1>. QED
    BY <1>3, <1>4 DEF Delivered, LogInv

LEMMA SinkFailsKeeps ==
    ASSUME LogInv, NEW w \in Writers, NEW s \in Sinks, SinkFails(w, s) PROVE LogInv'
<1>. DEFINE e == [emission[w] EXCEPT !.targets = @ \ {s}, !.failed = @ \cup {s},
                                     !.lost = @ \cup {s}]
<1>0. emission[w] \in LogRecord /\ LossIsTold(emission[w])
    BY DEF LogInv
<1>1. e \in LogRecord /\ LossIsTold(e)
    BY <1>0 DEF LogRecord, LossIsTold, SinkFails
<1>2. emission' = [emission EXCEPT ![w] = e]
    BY <1>0 DEF SinkFails, LogInv, LogRecord
<1>3. emission' \in [Writers -> LogRecord] /\ \A v \in Writers : LossIsTold(emission'[v])
    BY <1>1, <1>2, OneRecordMoves
<1>. QED
    BY <1>3 DEF SinkFails, LogInv

LEMMA FannedOutKeeps == ASSUME LogInv, NEW w \in Writers, FannedOut(w) PROVE LogInv'
<1>. DEFINE over == IF emission[w].failed = {} THEN "done" ELSE "reporting"
<1>1. PICK phase, spilt :
        /\ phase = over /\ spilt = NeedsFallback(emission[w])
        /\ emission' = [emission EXCEPT ![w].phase = phase, ![w].spilled = spilt]
    BY Zenon DEF FannedOut
<1>2. /\ phase \in {"done", "reporting"} /\ (phase = "done" <=> emission[w].failed = {})
      /\ spilt \in BOOLEAN /\ (spilt <=> NeedsFallback(emission[w]))
    BY <1>1 DEF NeedsFallback
<1>3. /\ emission[w].phase = "fanning"
      /\ UNCHANGED <<active, disabled, failures, emitted>>
    BY Zenon DEF FannedOut
<1>. HIDE DEF over
<1>. DEFINE e == [emission[w] EXCEPT !.phase = phase, !.spilled = spilt]
<1>4. emission[w] \in LogRecord /\ LossIsTold(emission[w])
    BY DEF LogInv
<1>5. e \in LogRecord /\ LossIsTold(e)
    BY <1>2, <1>3, <1>4 DEF LogRecord, LossIsTold, NeedsFallback
<1>6. emission' = [emission EXCEPT ![w] = e]
    BY <1>1, <1>4 DEF LogInv, LogRecord
<1>7. emission' \in [Writers -> LogRecord] /\ \A v \in Writers : LossIsTold(emission'[v])
    BY <1>5, <1>6, OneRecordMoves
<1>. QED
    BY <1>3, <1>7 DEF LogInv

\* The limit is looked at in the step that counts: a sink is at it only when it
\* is not active.
LEMMA ReportFailureKeeps ==
    ASSUME LogInv, NEW w \in Writers, NEW s \in Sinks, ReportFailure(w, s) PROVE LogInv'
<1>1. /\ emission[w].phase = "reporting" /\ s \in emission[w].failed
      /\ failures' = [failures EXCEPT ![s] = @ + 1] /\ Disable(s) /\ UNCHANGED emitted
    BY Zenon DEF ReportFailure
<1>2. PICK heard \in SUBSET emission[w].survivors :
        emission' = [emission EXCEPT
            ![w].failed = @ \ {s},
            ![w].told = IF heard # {} \/ NoticeSpills(emission[w].survivors, heard)
                        THEN @ \cup {s} ELSE @,
            ![w].phase = IF emission[w].failed = {s} THEN "done" ELSE @]
    BY Zenon DEF ReportFailure
<1>. DEFINE over == IF emission[w].failed = {s} THEN "done" ELSE emission[w].phase
            heardOf == IF heard # {} \/ NoticeSpills(emission[w].survivors, heard)
                       THEN emission[w].told \cup {s} ELSE emission[w].told
            e(told, phase) ==
                [emission[w] EXCEPT !.failed = @ \ {s}, !.told = told, !.phase = phase]
<1>3. emission[w] \in LogRecord /\ LossIsTold(emission[w])
    BY DEF LogInv
<1>4. heardOf = emission[w].told \cup {s}
    BY DEF NoticeSpills
<1>5. over \in {"done", "reporting"} /\ (over = "done" => emission[w].failed = {s})
    BY <1>1
<1>6. emission' = [emission EXCEPT ![w] = e(heardOf, over)]
    BY <1>2, Zenon
<1>. HIDE DEF over, heardOf
<1>7. e(heardOf, over) \in LogRecord /\ LossIsTold(e(heardOf, over))
    <2>. SUFFICES ASSUME NEW told, NEW phase, told = heardOf, phase = over
                  PROVE  e(told, phase) \in LogRecord /\ LossIsTold(e(told, phase))
        BY Zenon
    <2>1. e(told, phase) \in LogRecord
        BY <1>3, <1>4, <1>5 DEF LogRecord
    <2>. QED
        BY <2>1, <1>1, <1>3, <1>4, <1>5 DEF LogRecord, LossIsTold
<1>8. emission' \in [Writers -> LogRecord] /\ \A v \in Writers : LossIsTold(emission'[v])
    BY <1>6, <1>7, OneRecordMoves
<1>9. /\ active' \subseteq active /\ disabled' \subseteq Sinks
      /\ s \in active' => failures[s] + 1 < MaxFailures
    BY <1>1 DEF Disable, LogInv
<1>10. failures' \in [Sinks -> Nat] /\ \A t \in active' : failures'[t] < MaxFailures
    BY <1>1, <1>9 DEF LogInv
<1>. QED
    BY <1>1, <1>8, <1>9, <1>10 DEF LogInv

LEMMA OperatorKeeps ==
    ASSUME LogInv, NEW s \in Sinks, AddSink(s) \/ RemoveSink(s) PROVE LogInv'
    BY DEF LogInv, AddSink, RemoveSink

LEMMA LogInvInit == LogInit => LogInv
    BY IdleRecord DEF LogInit, LogInv

LEMMA LogInvStep == ASSUME LogInv, [LogNext]_logVars PROVE LogInv'
    BY BeginEmitKeeps, DeliveredKeeps, SinkFailsKeeps, FannedOutKeeps, ReportFailureKeeps,
       OperatorKeeps DEF LogNext, logVars, LogInv

(* LogRouter: however many sinks and threads there are, whatever fails and *)
(* whoever adds or removes a sink meanwhile, a record that a sink lost was *)
(* taken by another or spilled to the fallback, every sink that failed was *)
(* told of, and no active sink is at the limit of its failures.            *)
THEOREM LossesAreVisible == LogSpec => []LossIsVisible
<1>1. LogInit => LogInv
    BY LogInvInit
<1>2. LogInv /\ [LogNext]_logVars => LogInv'
    BY LogInvStep
<1>3. LogInv => LossIsVisible
    BY DEF LogInv, LossIsTold, LossIsVisible
<1>. QED
    BY <1>1, <1>2, <1>3, PTL DEF LogSpec

-----------------------------------------------------------------------------
USE RetryAssumption DEF Generations

(* RetryQueue: types                                                       *)

Handles == [Generations -> {"none", "armed", "queued", "cancelled", "late", "ran"}]

LEMMA RetryTypesInit == RetryInit => RetryTypes
<1> SUFFICES ASSUME RetryInit PROVE RetryTypes
    OBVIOUS
<1>1. \E i \in Retried : TRUE
    OBVIOUS
<1>2. (CHOOSE i \in Retried : TRUE) \in Retried
    BY <1>1, Zenon
<1>. QED
    <2>1. owner \in [Generations -> Retried]
        BY <1>2, Zenon DEF RetryInit
    <2>2. timer \in Handles
        BY DEF RetryInit, Handles
    <2>3. /\ sequence = 0 /\ entry = [i \in Retried |-> 0] /\ generation = [i \in Retried |-> 0]
          /\ notices = {} /\ delivered = {} /\ orphaned = {}
        BY Zenon DEF RetryInit
    <2>4. 0 \in 0..MaxSchedules
        OBVIOUS
    <2>5. /\ sequence \in 0..MaxSchedules /\ entry \in [Retried -> 0..MaxSchedules]
          /\ generation \in [Retried -> 0..MaxSchedules]
        BY <2>3, <2>4, Zenon
    <2>. QED
        BY <2>1, <2>2, <2>3, <2>5, Zenon DEF RetryTypes, Handles

\* A handle that is cancelled is still a handle of the table.
LEMMA CancelledHandles ==
    ASSUME RetryTypes, NEW g \in Generations
    PROVE  CancelHandle(timer, g) \in Handles
    BY DEF RetryTypes, CancelHandle, Handles

LEMMA CancelledEntries ==
    ASSUME RetryTypes, NEW i \in Retried
    PROVE  CancelEntry(i) \in Handles
<1>1. CASE entry[i] = 0
    BY <1>1 DEF CancelEntry, RetryTypes, Handles
<1>2. CASE entry[i] # 0
    <2>1. entry[i] \in Generations
        BY <1>2 DEF RetryTypes
    <2>. QED
        BY <1>2, <2>1, CancelledHandles DEF CancelEntry
<1>. QED
    BY <1>1, <1>2

LEMMA RetryTypesStep == ASSUME RetryTypes, [RetryNext]_retryVars PROVE RetryTypes'
<1>1. ASSUME NEW i \in Retried, Schedule(i) PROVE RetryTypes'
    <2>1. sequence + 1 \in Generations /\ sequence' \in 0..MaxSchedules
        BY <1>1 DEF Schedule, RetryTypes
    <2>2. CancelEntry(i) \in Handles
        BY CancelledEntries
    <2>3. timer' \in Handles
        BY <1>1, <2>1, <2>2 DEF Schedule, Handles
    <2>. QED
        BY <1>1, <2>1, <2>3 DEF Schedule, RetryTypes, Handles
<1>2. ASSUME NEW i \in Retried, ScheduleFails(i) PROVE RetryTypes'
    <2>1. timer' \in Handles
        BY <1>2, CancelledEntries DEF ScheduleFails
    <2>. QED
        BY <1>2, <2>1 DEF ScheduleFails, RetryTypes, Handles
<1>3. ASSUME NEW i \in Retried, Cancel(i) PROVE RetryTypes'
    <2>1. timer' \in Handles
        BY <1>3, CancelledEntries DEF Cancel, RemoveEntry
    <2>. QED
        BY <1>3, <2>1 DEF Cancel, RemoveEntry, RetryTypes, Handles
<1>4. CASE CancelAll
    <2>1. \A g \in Generations : CancelHandle(timer, g)[g] \in
              {"none", "armed", "queued", "cancelled", "late", "ran"}
        BY CancelledHandles DEF Handles
    <2>. QED
        BY <1>4, <2>1 DEF CancelAll, RetryTypes
<1>5. ASSUME NEW g \in Generations, Pop(g) PROVE RetryTypes'
    <2>1. owner[g] \in Retried
        BY DEF RetryTypes
    <2>2. timer' \in Handles
        BY <1>5, <2>1, CancelledEntries DEF Pop, RemoveEntry
    <2>. QED
        BY <1>5, <2>1, <2>2 DEF Pop, RemoveEntry, RetryTypes, Handles
<1>6. ASSUME NEW g \in Generations, ComesDue(g) PROVE RetryTypes'
    BY <1>6 DEF ComesDue, RetryTypes
<1>7. ASSUME NEW g \in Generations, NEW raises \in BOOLEAN, Fire(g, raises) PROVE RetryTypes'
    BY <1>7 DEF Fire, RetryTypes
<1>8. CASE UNCHANGED retryVars
    BY <1>8 DEF retryVars, RetryTypes
<1>. QED
    BY <1>1, <1>2, <1>3, <1>4, <1>5, <1>6, <1>7, <1>8 DEF RetryNext

(* The tables of the queue keep their types.                               *)
THEOREM RetryQueueTypes == RetrySpec => []RetryTypes
    BY RetryTypesInit, RetryTypesStep, PTL DEF RetrySpec

-----------------------------------------------------------------------------
(* Entries and their generations                                           *)

\* An entry bears the generation of its timer, which is one the queue gave
\* out for that issue; its handle has not been cancelled, and a callback of
\* its timer that ran told a handler or found it raising.
EntryOfIssue(i) ==
    /\ entry[i] = generation[i]
    /\ entry[i] # 0 =>
        /\ entry[i] <= sequence
        /\ owner[entry[i]] = i
        /\ timer[entry[i]] # "late"
        /\ timer[entry[i]] \in {"armed", "queued"} \/ entry[i] \in notices \cup orphaned

EntriesStand == \A i \in Retried : EntryOfIssue(i)

\* Two issues never share a generation, so what is done to the handle of
\* one leaves that of another alone.
LEMMA EntriesDiffer ==
    ASSUME RetryTypes, EntriesStand, NEW i \in Retried, NEW j \in Retried,
           i # j, entry[i] # 0, entry[j] # 0
    PROVE  entry[i] # entry[j]
    BY DEF EntriesStand, EntryOfIssue

LEMMA OtherHandlesKept ==
    ASSUME RetryTypes, EntriesStand, NEW i \in Retried, NEW j \in Retried,
           i # j, entry[j] # 0
    PROVE  CancelEntry(i)[entry[j]] = timer[entry[j]]
<1>1. entry[j] \in Generations
    BY DEF RetryTypes
<1>2. CASE entry[i] = 0
    BY <1>2 DEF CancelEntry
<1>3. CASE entry[i] # 0
    <2>1. entry[i] # entry[j]
        BY <1>3, EntriesDiffer
    <2>2. entry[i] \in Generations
        BY <1>3 DEF RetryTypes
    <2>. QED
        BY <1>1, <1>3, <2>1, <2>2 DEF CancelEntry, CancelHandle, RetryTypes
<1>. QED
    BY <1>2, <1>3

\* Taking the entry of one issue out.
LEMMA RemovalStands ==
    ASSUME RetryTypes, EntriesStand, NEW i \in Retried, NEW j \in Retried,
           RemoveEntry(i), UNCHANGED <<sequence, owner, orphaned>>,
           \A g \in notices : g \in notices' \/ owner[g] = i
    PROVE  EntryOfIssue(j)'
<1>1. CASE j = i
    BY <1>1 DEF RemoveEntry, EntryOfIssue, RetryTypes
<1>2. CASE j # i
    <2>1. entry'[j] = entry[j] /\ generation'[j] = generation[j]
        BY <1>2 DEF RemoveEntry, RetryTypes
    <2>2. CASE entry[j] = 0
        BY <2>1, <2>2 DEF EntriesStand, EntryOfIssue
    <2>3. CASE entry[j] # 0
        <3>1. timer'[entry[j]] = timer[entry[j]]
            BY <1>2, <2>3, OtherHandlesKept DEF RemoveEntry
        <3>. QED
            BY <1>2, <2>1, <2>3, <3>1 DEF EntriesStand, EntryOfIssue
    <2>. QED
        BY <2>2, <2>3
<1>. QED
    BY <1>1, <1>2

\* schedule(), whether the factory makes the timer or raises.
LEMMA ScheduleStands ==
    ASSUME RetryTypes, EntriesStand, NEW i \in Retried, NEW j \in Retried,
           Schedule(i) \/ ScheduleFails(i)
    PROVE  EntryOfIssue(j)'
<1>0. CancelEntry(i) \in Handles
    BY CancelledEntries
<1>1. CASE j = i
    <2>1. CASE Schedule(i)
        <3>1. sequence + 1 \in Generations /\ sequence + 1 # 0
            BY <2>1 DEF Schedule, RetryTypes, Generations
        <3>2. entry'[j] = sequence + 1 /\ generation'[j] = sequence + 1
            BY <1>1, <2>1 DEF Schedule, RetryTypes
        <3>3. owner'[sequence + 1] = i
            BY <2>1, <3>1 DEF Schedule, RetryTypes
        <3>4. timer'[sequence + 1] = "armed"
            BY <1>0, <2>1, <3>1 DEF Schedule, Handles
        <3>5. sequence' = sequence + 1
            BY <2>1 DEF Schedule
        <3>. QED
            BY <1>1, <3>1, <3>2, <3>3, <3>4, <3>5 DEF EntryOfIssue, Generations
    <2>2. CASE ScheduleFails(i)
        BY <1>1, <2>2 DEF ScheduleFails, EntryOfIssue, RetryTypes
    <2>. QED
        BY <2>1, <2>2
<1>2. CASE j # i
    <2>1. entry'[j] = entry[j] /\ generation'[j] = generation[j]
        BY <1>2 DEF Schedule, ScheduleFails, RetryTypes
    <2>2. CASE entry[j] = 0
        BY <2>1, <2>2 DEF EntriesStand, EntryOfIssue
    <2>3. CASE entry[j] # 0
        <3>1. entry[j] \in Generations /\ entry[j] <= sequence /\ sequence \in Nat
            BY <2>3 DEF EntriesStand, EntryOfIssue, RetryTypes
        <3>2. CancelEntry(i)[entry[j]] = timer[entry[j]]
            BY <1>2, <2>3, OtherHandlesKept
        <3>3. timer'[entry[j]] = timer[entry[j]] /\ owner'[entry[j]] = owner[entry[j]]
            <4>1. CASE Schedule(i)
                <5>1. entry[j] # sequence + 1
                    BY <3>1
                <5>. QED
                    BY <1>0, <3>1, <3>2, <4>1, <5>1 DEF Schedule, RetryTypes, Handles
            <4>2. CASE ScheduleFails(i)
                BY <3>2, <4>2 DEF ScheduleFails
            <4>. QED
                BY <4>1, <4>2
        <3>4. sequence' = sequence + 1 /\ UNCHANGED <<notices, orphaned>>
            BY DEF Schedule, ScheduleFails
        <3>. QED
            BY <2>1, <2>3, <3>1, <3>3, <3>4 DEF EntriesStand, EntryOfIssue
    <2>. QED
        BY <2>2, <2>3
<1>. QED
    BY <1>1, <1>2

\* A callback that runs for the entry that stands is what that entry waited
\* for; any other callback belongs to a generation no entry bears.
LEMMA FireStands ==
    ASSUME RetryTypes, EntriesStand, NEW j \in Retried,
           NEW g \in Generations, NEW raises \in BOOLEAN, Fire(g, raises)
    PROVE  EntryOfIssue(j)'
<1>1. UNCHANGED <<sequence, entry, generation, owner>>
    BY DEF Fire
<1>2. notices \subseteq notices' /\ orphaned \subseteq orphaned'
    BY DEF Fire
<1>3. CASE entry[j] = g
    <2>1. Current(g)
        BY <1>3 DEF EntriesStand, EntryOfIssue, Current
    <2>. QED
        BY <1>1, <1>3, <2>1 DEF Fire, EntriesStand, EntryOfIssue
<1>4. CASE entry[j] # g
    <2>1. entry[j] # 0 => timer'[entry[j]] = timer[entry[j]]
        BY <1>4 DEF Fire, RetryTypes
    <2>. QED
        BY <1>1, <1>2, <2>1 DEF EntriesStand, EntryOfIssue
<1>. QED
    BY <1>3, <1>4

LEMMA EntriesStandStep ==
    ASSUME RetryTypes, EntriesStand, [RetryNext]_retryVars PROVE EntriesStand'
<1> SUFFICES ASSUME NEW j \in Retried PROVE EntryOfIssue(j)'
    BY DEF EntriesStand
<1>1. ASSUME NEW i \in Retried, Schedule(i) \/ ScheduleFails(i) PROVE EntryOfIssue(j)'
    BY <1>1, ScheduleStands
<1>2. ASSUME NEW i \in Retried, Cancel(i) PROVE EntryOfIssue(j)'
    BY <1>2, RemovalStands DEF Cancel
<1>3. CASE CancelAll
    BY <1>3 DEF CancelAll, EntryOfIssue
<1>4. ASSUME NEW g \in Generations, Pop(g) PROVE EntryOfIssue(j)'
    <2>1. owner[g] \in Retried
        BY DEF RetryTypes
    <2>. QED
        BY <1>4, <2>1, RemovalStands DEF Pop
<1>5. ASSUME NEW g \in Generations, ComesDue(g) PROVE EntryOfIssue(j)'
    <2>1. entry[j] # 0 => entry[j] \in Generations
        BY DEF RetryTypes
    <2>. QED
        BY <1>5, <2>1 DEF ComesDue, EntriesStand, EntryOfIssue, RetryTypes
<1>6. ASSUME NEW g \in Generations, NEW raises \in BOOLEAN, Fire(g, raises) PROVE EntryOfIssue(j)'
    BY <1>6, FireStands
<1>7. CASE UNCHANGED retryVars
    BY <1>7 DEF retryVars, EntriesStand, EntryOfIssue
<1>. QED
    BY <1>1, <1>2, <1>3, <1>4, <1>5, <1>6, <1>7 DEF RetryNext

THEOREM EntriesAlwaysStand == RetrySpec => []EntriesStand
<1>1. RetryInit => EntriesStand
    BY DEF RetryInit, EntriesStand, EntryOfIssue
<1>. QED
    BY <1>1, RetryQueueTypes, EntriesStandStep, PTL DEF RetrySpec

-----------------------------------------------------------------------------
(* The two promises of the queue                                           *)

(* An issue that reads as retry-queued is woken: its timer is armed or due, *)
(* or its handler was told (RetryQueue.schedule, _fire, pop, cancel).      *)
THEOREM QueuedRetriesWake == RetrySpec => []RetryHasWaker
<1>1. EntriesStand => RetryHasWaker
    BY DEF EntriesStand, EntryOfIssue, RetryHasWaker
<1>. QED
    BY <1>1, EntriesAlwaysStand, PTL

(* _fire delivers the edge of the entry that stands and of no other, and   *)
(* none whose timer was cancelled after its callback had been queued.      *)
THEOREM StaleTimersAreDropped == RetrySpec => OnlyCurrentTimersFire
<1>1. ASSUME RetryTypes, EntriesStand, [RetryNext]_retryVars, NEW g \in delivered' \ delivered
      PROVE  entry[owner[g]] = g /\ timer[g] # "late"
    <2>1. PICK h \in Generations, raises \in BOOLEAN : Fire(h, raises)
        BY <1>1 DEF RetryNext, retryVars, Schedule, ScheduleFails, Cancel, CancelAll, Pop, ComesDue
    <2>2. g \in Generations /\ Current(g)
        BY <1>1, <2>1 DEF Fire
    <2>3. owner[g] \in Retried
        BY <1>1, <2>2 DEF RetryTypes
    <2>4. entry[owner[g]] = g
        BY <1>1, <2>2, <2>3 DEF Current, EntriesStand, EntryOfIssue
    <2>5. timer[g] # "late"
        BY <1>1, <2>2, <2>3, <2>4 DEF EntriesStand, EntryOfIssue, Current
    <2>. QED
        BY <2>4, <2>5
<1>2. RetryTypes /\ EntriesStand /\ [RetryNext]_retryVars =>
        [\A g \in delivered' \ delivered : entry[owner[g]] = g /\ timer[g] # "late"]_retryVars
    BY <1>1
<1>. QED
    BY <1>2, RetryQueueTypes, EntriesAlwaysStand, PTL DEF RetrySpec, OnlyCurrentTimersFire

=============================================================================
