----------------------------- MODULE ConfigRules -----------------------------
(***************************************************************************)
(* workflow/config.py: what the front matter of WORKFLOW.md means.  A      *)
(* scalar of the author is missing, of a wrong type, or a number (which    *)
(* may be written as text); a path is a sequence of pieces.  Fields that   *)
(* are only copied (sandbox, labels, states) are left out.                 *)
(***************************************************************************)
EXTENDS Integers, Sequences, FiniteSets, SequencesExt

Unusable == [kind |-> "unusable", n |-> 0]
Absent == [kind |-> "absent", n |-> 0]
Number(k) == [kind |-> "number", n |-> k]

(* _coerce_int, _lenient_int and _fatal_positive_int.                      *)
CoercibleInt(v) == v.kind = "number"

LenientInt(v, default, minimum) ==
    IF CoercibleInt(v) /\ v.n >= minimum THEN v.n ELSE default

RejectsPositive(v) == v # Absent /\ ~(CoercibleInt(v) /\ v.n > 0)

(* _by_state_limits: an override that is no positive number is ignored.    *)
ByStateLimits(overrides) ==
    [s \in {t \in DOMAIN overrides : CoercibleInt(overrides[t]) /\ overrides[t].n > 0} |->
        overrides[s].n]

SlotLimitForState(cfg, s) == IF s \in DOMAIN cfg.byState THEN cfg.byState[s] ELSE cfg.maxAgents

(* Ports and the per-host cap: -1 for none.  --port wins over server.port, *)
(* and is fatal where the other is only ignored.                           *)
MaxPort == 65535
ServerPort(v) == IF CoercibleInt(v) /\ v.n \in 0..MaxPort THEN v.n ELSE -1
ResolvePort(cli, cfg) == IF cli # -1 THEN cli ELSE cfg.port
PerHostCap(v) == IF CoercibleInt(v) /\ v.n > 0 THEN v.n ELSE -1

-----------------------------------------------------------------------------

(* expand_value: "~" is expanded at the front of what the author wrote, a  *)
(* variable once, and not inside another's value; an empty one is missing. *)
(* A path that does not begin with "/" is put under the workflow's.        *)
Variables == {"$A", "$B"}
Home == <<"/", "home">>
WorkflowDir == <<"/", "repo">>

Missing(path, env) == \E k \in DOMAIN path : path[k] \in Variables /\ env[path[k]] = <<>>

Expanded(path, env) ==
    FlattenSeq([k \in DOMAIN path |->
        CASE k = 1 /\ path[k] = "~" -> Home
          [] path[k] \in Variables -> env[path[k]]
          [] OTHER -> <<path[k]>>])

WorkspaceRoot(path, env) ==
    IF path = <<>> THEN <<"/", "tmp", "symphony_workspaces">>
    ELSE IF Missing(path, env) THEN <<>>
    ELSE IF Expanded(path, env)[1] = "/" THEN Expanded(path, env)
    ELSE WorkflowDir \o Expanded(path, env)

-----------------------------------------------------------------------------

(* codex.command and the like: absent is the default, blank stays blank.   *)
Command(v) == IF v.kind = "absent" THEN "default" ELSE IF v.kind = "number" THEN "given" ELSE ""

(* The timeouts of codex, and of claude, whose block takes any number.     *)
Timeout(backend, v, default) ==
    IF backend = "codex" THEN LenientInt(v, default, 1)
    ELSE IF CoercibleInt(v) THEN v.n ELSE default

(* A number of stall_timeout_ms that is not positive turns the check off.  *)
StallTimeout(v) == IF CoercibleInt(v) THEN v.n ELSE 300000

(* build_config: three fields can fail, everything else has a default.     *)
ConfigFails(raw, env) ==
    \/ RejectsPositive(raw.maxTurns) \/ RejectsPositive(raw.hookTimeout)
    \/ WorkspaceRoot(raw.root, env) = <<>>

BuildConfig(raw, env) ==
    [kind |-> raw.kind, backend |-> raw.backend,
     command |-> Command(raw.command),
     root |-> WorkspaceRoot(raw.root, env),
     interval |-> LenientInt(raw.interval, 30000, 1),
     maxAgents |-> LenientInt(raw.maxAgents, 10, 0),
     maxTurns |-> LenientInt(raw.maxTurns, 20, 1),
     backoffCap |-> LenientInt(raw.backoffCap, 300000, 1),
     hookTimeout |-> LenientInt(raw.hookTimeout, 60000, 1),
     turnTimeout |-> Timeout(raw.backend, raw.turnTimeout, 3600000),
     stallTimeout |-> StallTimeout(raw.stallTimeout),
     byState |-> ByStateLimits([s \in {"todo"} |-> raw.override]),
     port |-> ServerPort(raw.port),
     perHost |-> PerHostCap(raw.perHost)]

(* validate_dispatch_config: the first check that fails, "" for none.      *)
Rejection(cfg, accepts) ==
    IF cfg.kind \notin {"linear", "github", "memory"} THEN "tracker.kind"
    ELSE IF cfg.backend \notin {"codex", "claude"} THEN "agent.kind"
    ELSE IF cfg.backend = "codex" /\ cfg.command = "" THEN "codex.command"
    ELSE IF ~accepts THEN "tracker.provider"
    ELSE ""

-----------------------------------------------------------------------------

(* What an author may write in a field, two of them at a time.             *)
Fields == {"interval", "maxAgents", "maxTurns", "backoffCap", "hookTimeout", "turnTimeout",
           "stallTimeout", "override", "port", "perHost", "command"}
Scalars == {Absent, Unusable} \cup {Number(k) : k \in {-1, 0, 1, 7, 70000}}
Authored == [f \in Fields \cup {"kind", "backend", "root"} |->
                CASE f = "kind" -> "memory" [] f = "backend" -> "codex" [] f = "root" -> <<>>
                  [] OTHER -> Absent]
Paths == {<<>>} \cup UNION {[1..n -> {"~", "/", "x", "$A", "$B"}] : n \in 1..2}
Values == {<<>>, <<"/", "v">>, <<"~">>, <<"$B">>}

(* build_config with validate_dispatch_config: whatever the author wrote,  *)
(* a configuration is refused only for agent.max_turns, hooks.timeout_ms   *)
(* or an empty variable, and one in force never polls in a busy loop, ends *)
(* a codex turn at once, retries without delay, caps a host at none or     *)
(* blocks a state by an override; nothing is dispatched for good only if   *)
(* the author asked for zero agents.                                       *)
ConfigIsUsable(f, v, g, w) ==
    LET raw == [Authored EXCEPT ![f] = v, ![g] = w]
        env == [x \in Variables |-> <<>>]
        cfg == BuildConfig(raw, env)
        refused(x) == raw[x] # Absent /\ (raw[x] = Unusable \/ raw[x].n <= 0)
    IN IF ConfigFails(raw, env) THEN refused("maxTurns") \/ refused("hookTimeout")
       ELSE /\ ~refused("maxTurns") /\ ~refused("hookTimeout")
            /\ \A x \in {"interval", "backoffCap", "turnTimeout", "maxTurns"} : cfg[x] >= 1
            /\ cfg.perHost # 0 /\ cfg.port \in -1..MaxPort
            /\ SlotLimitForState(cfg, "todo") <= 0 => raw.maxAgents = Number(0)
            /\ SlotLimitForState(cfg, "other") = cfg.maxAgents
            /\ Rejection(cfg, TRUE) # "" => raw.command = Unusable

(* expand_value: a workspace root is absolute, "~" of a variable's value   *)
(* is no home directory, and a variable's value is not expanded again.     *)
RootIsAbsolute(path, env) ==
    LET root == WorkspaceRoot(path, env) IN
    /\ root = <<>> <=> \E k \in DOMAIN path : path[k] \in Variables /\ env[path[k]] = <<>>
    /\ root # <<>> => root[1] = "/"
    /\ \A k \in DOMAIN path :
         path[k] \in Variables /\ root # <<>> => \E a \in 1..Len(root), b \in 0..Len(root) :
            SubSeq(root, a, b) = env[path[k]]

=============================================================================
