---------------------------- MODULE ApprovalRules ----------------------------
(***************************************************************************)
(* agent/approvals.py: what kind of permission an agent's request asks     *)
(* for, and what a policy answers.  A request is a chain of envelopes; of  *)
(* each level only the kinds its names and its keys hint at are kept.      *)
(***************************************************************************)
EXTENDS Integers

Kinds == {"user_input", "file_change", "command_execution"}

(* _candidate_names and _structural_keys give up below depth 3.            *)
ReadDepth == 0..3
Hints == {{}} \cup {{k} : k \in Kinds}
Requests == [{0, 3, 4} -> [names : Hints, keys : Hints]]

NameHints(request) == UNION {request[d].names : d \in DOMAIN request \cap ReadDepth}
KeyHints(request) == UNION {request[d].keys : d \in DOMAIN request \cap ReadDepth}

FirstKind(hints, first, second, third, otherwise) ==
    IF first \in hints THEN first
    ELSE IF second \in hints THEN second
    ELSE IF third \in hints THEN third
    ELSE otherwise

(* _KIND_HINTS and _STRUCTURAL_HINTS, each in its order.                   *)
ClassifyApproval(request) ==
    FirstKind(NameHints(request), "user_input", "file_change", "command_execution",
        FirstKind(KeyHints(request), "file_change", "command_execution", "user_input", "unknown"))

TrustedAutoApprove(kind) ==
    CASE kind \in {"command_execution", "file_change"} -> "approve_for_session"
      [] kind = "user_input" -> "fail_run"
      [] OTHER -> "deny"

DenyAll(kind) == IF kind = "user_input" THEN "fail_run" ELSE "deny"

IsApproval(decision) == decision \in {"approve", "approve_for_session"}

(* decide_approval: "Anything unrecognized classifies as UNKNOWN, never as *)
(* an approvable default", and a name resolves "toward the most            *)
(* restrictive reading".  What is approved was hinted at where the reader  *)
(* looks, and no name there asked for the user's input.                    *)
NothingApprovedUnread(request) ==
    LET kind == ClassifyApproval(request) IN
    /\ IsApproval(TrustedAutoApprove(kind)) =>
         /\ kind \in NameHints(request) \cup KeyHints(request)
         /\ "user_input" \notin NameHints(request)
    /\ ~ IsApproval(DenyAll(kind))

=============================================================================
