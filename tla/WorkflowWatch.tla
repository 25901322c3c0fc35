---------------------------- MODULE WorkflowWatch ----------------------------
(***************************************************************************)
(* WORKFLOW.md while people save it: WorkflowWatcher stamps the file and   *)
(* then loads it, both in threads, and on success calls                    *)
(* ServiceHost.reload_workflow, which reads the file once more and applies *)
(* what it reads.  Every read may see another content than the one before. *)
(***************************************************************************)
EXTENDS Integers

CONSTANTS Contents,  \* what the file may hold
          Broken,    \* the contents that cannot be loaded
          NoContent, \* no stamp, no value
          MaxSaves   \* bound: saves

ASSUME WatchAssumption ==
    Broken \subseteq Contents /\ NoContent \notin Contents /\ MaxSaves \in Nat

VARIABLES file,      \* the content on disk
          changed,   \* the event stream holds a change not yet taken
          pass,      \* where _apply is
          stamp,     \* the stamp it took
          applied,   \* _applied_stamp
          failed,    \* _failed_stamp
          value,     \* _value, the last known good of the watcher
          effective, \* ServiceHost.config and what its collaborators got
          ordered,   \* the orchestrator's config
          torn,      \* a save fell into a pass, or no event told of it
          saves

watchVars == <<file, changed, pass, stamp, applied, failed, value, effective, ordered,
               torn, saves>>

Passes == {"start", "priming", "idle", "reading", "notifying", "ordering", "dead"}
Stamps == Contents \cup {NoContent}

WatchTypes ==
    /\ file \in Contents /\ changed \in BOOLEAN /\ pass \in Passes
    /\ {stamp, applied, failed} \subseteq Stamps
    /\ {value, effective, ordered} \subseteq Stamps \ Broken
    /\ torn \in BOOLEAN /\ saves \in 0..MaxSaves

(* ServiceHost.start has loaded the configuration.                         *)
WatchInit ==
    /\ file \in Contents \ Broken /\ changed = FALSE /\ pass = "start"
    /\ stamp = NoContent /\ applied = NoContent /\ failed = NoContent /\ value = NoContent
    /\ effective = file /\ ordered = file
    /\ torn = FALSE /\ saves = 0

Loads(content) == content \notin Broken

-----------------------------------------------------------------------------

(* WorkflowWatcher.start: prime is a forced pass that notifies nobody.     *)
TakeStamp(next) == stamp' = file /\ pass' = next

BeginPrime ==
    /\ pass = "start" /\ TakeStamp("priming")
    /\ UNCHANGED <<file, changed, applied, failed, value, effective, ordered, torn, saves>>

\* Mutant: a load that fails replaces the last known good all the same.
LoadAnyway == value' = file /\ applied' = stamp /\ failed' = NoContent

(* A load that succeeds takes the stamp for its own, one that fails keeps  *)
(* the last known good.                                                    *)
LoadFile ==
    IF Loads(file) THEN value' = file /\ applied' = stamp /\ failed' = NoContent
    ELSE failed' = stamp /\ UNCHANGED <<value, applied>>

EndPrime ==
    /\ pass = "priming" /\ LoadFile /\ pass' = "idle"
    /\ UNCHANGED <<file, changed, stamp, effective, ordered, torn, saves>>

(* _watch_loop: the changes of a window are one event; _apply stamps the   *)
(* file under its lock.                                                    *)
BeginPass ==
    /\ pass = "idle" /\ changed /\ changed' = FALSE
    /\ TakeStamp("reading")
    /\ UNCHANGED <<file, applied, failed, value, effective, ordered, torn, saves>>

\* Mutant: a content that failed once is read no more, whatever came after.
SettledByFailure(content) == content = applied \/ failed # NoContent

Settled(content) == content = applied \/ content = failed

SkipPass ==
    /\ pass = "reading" /\ Settled(stamp) /\ pass' = "idle"
    /\ UNCHANGED <<file, changed, stamp, applied, failed, value, effective, ordered, torn, saves>>

ReadPass ==
    /\ pass = "reading" /\ ~Settled(stamp) /\ LoadFile
    /\ pass' = IF Loads(file) THEN "notifying" ELSE "idle"
    /\ UNCHANGED <<file, changed, stamp, effective, ordered, torn, saves>>

(* ServiceHost.reload_workflow: a failed load keeps the configuration in   *)
(* force; a good one reaches the runner, the hooks and the workspaces and  *)
(* then waits for the orchestrator.                                        *)
ReloadWorkflow ==
    /\ pass = "notifying"
    /\ IF Loads(file)
       THEN /\ effective' = file /\ pass' = "ordering"
            /\ torn' = (torn /\ ~(stamp = file /\ value = file))
       ELSE pass' = "idle" /\ UNCHANGED <<effective, torn>>
    /\ UNCHANGED <<file, changed, stamp, applied, failed, value, ordered, saves>>

ConfigOrdered ==
    /\ pass = "ordering" /\ ordered' = effective /\ pass' = "idle"
    /\ UNCHANGED <<file, changed, stamp, applied, failed, value, effective, torn, saves>>

(* apply_config raises: reported, and the pass is over.                    *)
ConfigRefused ==
    /\ pass = "ordering" /\ pass' = "idle" /\ torn' = TRUE
    /\ UNCHANGED <<file, changed, stamp, applied, failed, value, effective, ordered, saves>>

(* The stream dies: no event is taken any more (start() is not repeated).  *)
WatchDies ==
    /\ pass = "idle" /\ pass' = "dead" /\ torn' = TRUE
    /\ UNCHANGED <<file, changed, stamp, applied, failed, value, effective, ordered, saves>>

(* Someone saves the file.  Its event may be missed, and is while nothing  *)
(* watches yet.                                                            *)
Save(content) ==
    /\ saves < MaxSaves /\ saves' = saves + 1 /\ content # file
    /\ file' = content
    /\ changed' \in {changed, pass \notin {"start", "priming"}}
    /\ torn' = (torn \/ pass # "idle" \/ changed' = FALSE)
    /\ UNCHANGED <<pass, stamp, applied, failed, value, effective, ordered>>

WatchNext ==
    \/ BeginPrime \/ EndPrime \/ BeginPass \/ SkipPass \/ ReadPass
    \/ ReloadWorkflow \/ ConfigOrdered \/ ConfigRefused \/ WatchDies
    \/ \E content \in Contents : Save(content)

WatchSpec == WatchInit /\ [][WatchNext]_watchVars

(* SPEC 6.2 as the code gives it: once the watcher has nothing to do, the  *)
(* service runs on what the file holds, or on an older content if the file *)
(* is broken - provided that no save fell between the reads of a pass and  *)
(* none went without an event.  (Without the proviso it is false.)         *)
FileIsInForce ==
    pass = "idle" /\ ~changed /\ ~torn =>
        \/ file \in Broken /\ effective = ordered
        \/ file = effective /\ file = ordered /\ file = value

=============================================================================
