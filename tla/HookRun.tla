------------------------------- MODULE HookRun -------------------------------
(***************************************************************************)
(* One workspace hook run by HookRunner of workspace/hooks.py on POSIX: a  *)
(* shell in a session of its own, descendants that may outlive it, hold    *)
(* its output pipe or leave its process group, the timeout, the            *)
(* cancellation of the caller, the kill of the group, which may fail, and  *)
(* the draining of the pipe.                                               *)
(***************************************************************************)
EXTENDS Integers

CONSTANT MaxHooks \* bound: hooks run one after the other

ASSUME HookAssumption == MaxHooks \in Nat

VARIABLES hook,   \* execute(): "idle", "waiting" (for the pipe's end), "draining", "over"
          fatal,  \* what the caller asked run() for
          shell,  \* "none", "alive", "zero" or "nonzero" by itself, "killed"
          kids,   \* the rest of its group: "none", "holding" the pipe, "released" it, "gone"
          strays, \* its descendants in sessions of their own, likewise
          killed, \* _kill_tree's answer: "none", "already_exited", "process_group", "terminate"
          why,    \* what ended the wait: "none", "pipe", "timeout", "cancel", "launch"
          report, \* what run() did: "none", "returned", "error", "timeout", "cancelled"
          begun

hookVars == <<hook, fatal, shell, kids, strays, killed, why, report, begun>>

HookTypes ==
    /\ hook \in {"idle", "waiting", "draining", "over"} /\ fatal \in BOOLEAN
    /\ shell \in {"none", "alive", "zero", "nonzero", "killed"}
    /\ {kids, strays} \subseteq {"none", "holding", "released", "gone"}
    /\ killed \in {"none", "already_exited", "process_group", "terminate"}
    /\ why \in {"none", "pipe", "timeout", "cancel", "launch"}
    /\ report \in {"none", "returned", "error", "timeout", "cancelled"} /\ begun \in 0..MaxHooks

HookInit ==
    /\ hook = "idle" /\ fatal = FALSE /\ shell = "none" /\ kids = "none" /\ strays = "none"
    /\ killed = "none" /\ why = "none" /\ report = "none" /\ begun = 0

(* run(): what the caller gets of an outcome.  A cancellation is raised    *)
(* whatever the caller asked for.                                          *)
Reported(reason, isFatal, exit) ==
    IF reason = "cancel" THEN "cancelled"
    ELSE IF ~ isFatal \/ (reason = "pipe" /\ exit = "zero") THEN "returned"
    ELSE IF reason = "timeout" THEN "timeout"
    ELSE "error"

EndHook(reason, exit) ==
    hook' = "over" /\ report' = Reported(reason, fatal', exit)

-----------------------------------------------------------------------------

(* execute(): no script, no run; else the shell is launched, or is not.    *)
BeginHook ==
    /\ hook \in {"idle", "over"} /\ begun < MaxHooks
    /\ begun' = begun + 1 /\ fatal' \in BOOLEAN
    /\ kids' = "none" /\ strays' = "none" /\ killed' = "none"
    /\ \/ shell' = "alive" /\ why' = "none" /\ hook' = "waiting" /\ report' = "none"
       \/ shell' = "none" /\ why' = "launch" /\ EndHook("launch", "none")

SkipHook ==
    /\ hook \in {"idle", "over"} /\ begun < MaxHooks
    /\ begun' = begun + 1 /\ fatal' \in BOOLEAN
    /\ shell' = "none" /\ kids' = "none" /\ strays' = "none"
    /\ killed' = "none" /\ why' = "none"
    /\ hook' = "over" /\ report' = "returned"

(* The processes.  A descendant may give the inherited pipe up, and may    *)
(* leave the group with setsid.                                            *)
ShellForks ==
    /\ shell = "alive" /\ kids \in {"none", "gone"}
    /\ kids' = "holding"
    /\ UNCHANGED <<hook, fatal, shell, strays, killed, why, report, begun>>

ShellExits ==
    /\ shell = "alive" /\ shell' \in {"zero", "nonzero"}
    /\ UNCHANGED <<hook, fatal, kids, strays, killed, why, report, begun>>

KidsMove ==
    /\ kids \in {"holding", "released"} /\ kids' \in {"released", "gone"} \ {kids}
    /\ UNCHANGED <<hook, fatal, shell, strays, killed, why, report, begun>>

KidStrays ==
    /\ kids \in {"holding", "released"} /\ strays \in {"none", "gone"}
    /\ strays' = kids /\ kids' = "gone"
    /\ UNCHANGED <<hook, fatal, shell, killed, why, report, begun>>

StraysMove ==
    /\ strays \in {"holding", "released"} /\ strays' \in {"released", "gone"} \ {strays}
    /\ UNCHANGED <<hook, fatal, shell, kids, killed, why, report, begun>>

PipeEnded == shell # "alive" /\ kids # "holding" /\ strays # "holding"

(* communicate() returns at the pipe's end.                                *)
HookCompletes ==
    /\ hook = "waiting" /\ PipeEnded
    /\ why' = "pipe" /\ UNCHANGED fatal /\ EndHook("pipe", shell)
    /\ UNCHANGED <<shell, kids, strays, killed, begun>>

\* A shell that exited by itself stays what it was.
ShellDies == shell' = IF shell = "alive" THEN "killed" ELSE shell

\* Mutant: the shell is killed, the rest of its group is not.
KillShell ==
    \/ shell # "alive" /\ killed' = "already_exited" /\ UNCHANGED <<shell, kids>>
    \/ killed' = "process_group" /\ ShellDies /\ UNCHANGED kids

(* _kill_tree, at the timeout or the caller's cancellation.  The exit of   *)
(* the shell may have been noticed; the signal to its group reaches every  *)
(* process of the group and no other, whether the shell has just exited or *)
(* not; or the group could not be signalled (its leader has been reaped,   *)
(* or a process may not be), and proc.kill() goes to the shell alone,      *)
(* which may be refused too.                                               *)
KillTree ==
    \/ shell # "alive" /\ killed' = "already_exited" /\ UNCHANGED <<shell, kids>>
    \/ /\ killed' = "process_group" /\ ShellDies
       /\ kids' = IF kids = "none" THEN "none" ELSE "gone"
    \/ killed' = "terminate" /\ (ShellDies \/ UNCHANGED shell) /\ UNCHANGED kids

Interrupt ==
    /\ hook = "waiting"
    /\ why' \in {"timeout", "cancel"} /\ hook' = "draining"
    /\ KillTree
    /\ UNCHANGED <<fatal, strays, report, begun>>

(* _drain: until the pipe's end, or five seconds.  A cancellation that     *)
(* comes now raises out of a timed-out hook and is swallowed in a          *)
(* cancelled one, which raises its own.                                    *)
HookDrained ==
    /\ hook = "draining"
    /\ UNCHANGED fatal
    /\ EndHook(why, shell)
    /\ UNCHANGED <<shell, kids, strays, killed, why, begun>>

CancelDrain ==
    /\ hook = "draining" /\ why = "timeout"
    /\ why' = "cancel" /\ UNCHANGED fatal /\ EndHook("cancel", shell)
    /\ UNCHANGED <<shell, kids, strays, killed, begun>>

HookNext ==
    \/ BeginHook \/ SkipHook \/ ShellForks \/ ShellExits \/ KidsMove
    \/ KidStrays \/ StraysMove
    \/ HookCompletes \/ Interrupt \/ HookDrained \/ CancelDrain

HookSpec == HookInit /\ [][HookNext]_hookVars

(* HookRunner.execute, "must not leave the hook running in a workspace     *)
(* that is about to be removed", and run's failure table.  When run() is   *)
(* over, its shell runs on only if neither the group nor the shell could   *)
(* be killed; of its group nothing is left but what a shell that exited by *)
(* itself left behind, or what could not be killed, and nothing at all     *)
(* where the group was killed; of a hook that completed nobody holds the   *)
(* pipe.  Of what left the group nothing is said.  A caller is told of a   *)
(* success only if the shell exited zero, unless it asked not to be told,  *)
(* and never of a timeout that did not happen.                             *)
HookEndsAsTold ==
    LET left == kids \in {"holding", "released"} IN
    hook = "over" =>
        /\ shell = "alive" => killed = "terminate"
        /\ left => killed = "terminate" \/ shell \in {"zero", "nonzero"}
        /\ left => killed # "process_group"
        /\ why = "pipe" => PipeEnded
        /\ report = "returned" /\ fatal /\ why = "pipe" => shell = "zero"
        /\ report = "returned" => ~ fatal \/ why \in {"pipe", "none"}
        /\ report = "timeout" => fatal /\ killed # "none"
        /\ why = "pipe" => killed = "none"

=============================================================================
