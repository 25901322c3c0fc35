---------------------------- MODULE TrackerRules ----------------------------
(***************************************************************************)
(* The decisions of the tracker adapters that need no state: what an HTTP  *)
(* answer means, whether an issue may be dispatched, and which issue a     *)
(* tool of the agent may touch.  A record keeps what the rules tell apart. *)
(***************************************************************************)
EXTENDS Integers, FiniteSets

(* An answer of a GraphQL endpoint.  errors: what the errors array says,   *)
(* "none" if there is no array.  signal: how a 403 or 429 is explained.    *)
GqlErrors == {"none", "rate", "auth", "transport", "not_found", "other"}
Signals == {"none", "retry_after", "secondary_text", "exhausted"}
GqlAnswers == [status : {200, 401, 403, 429, 500}, errors : GqlErrors,
            signal : Signals, body : {"data", "no_data", "not_object"}]

Verdict(category, retryable) == [category |-> category, retryable |-> retryable]
Success == Verdict("success", FALSE)

(* LinearAdapter._graphql_error: the code of the first error, then the     *)
(* status of the answer that carried it.                                   *)
LinearErrors(a) ==
    IF a.errors = "rate" \/ a.status = 429 THEN Verdict("rate_limited", TRUE)
    ELSE IF a.errors = "auth" \/ a.status \in {401, 403} THEN Verdict("status", FALSE)
    ELSE IF a.errors = "transport" \/ a.status >= 500 THEN Verdict("request", TRUE)
    ELSE Verdict("response", FALSE)

(* LinearAdapter._post: errors are read before the status.                 *)
LinearVerdict(a) ==
    IF a.body # "not_object" /\ a.errors # "none" THEN LinearErrors(a)
    ELSE IF a.status = 429 THEN Verdict("rate_limited", TRUE)
    ELSE IF a.status >= 400 THEN Verdict("status", a.status >= 500)
    ELSE IF a.body # "data" THEN Verdict("response", FALSE)
    ELSE Success

(* GitHubProjectsAdapter._rate_limit_error: primary and secondary limits.  *)
GithubThrottled(a) == a.status \in {403, 429} /\ a.signal # "none"

GithubErrors(a) ==
    CASE a.errors = "rate" -> Verdict("rate_limited", TRUE)
      [] a.errors = "not_found" -> Verdict("config", FALSE)
      [] a.errors = "auth" -> Verdict("status", FALSE)
      [] OTHER -> Verdict("response", FALSE)

(* GitHubProjectsAdapter._graphql: the status is read before errors.       *)
GithubVerdict(a) ==
    IF GithubThrottled(a) THEN Verdict("rate_limited", TRUE)
    ELSE IF a.status >= 400 THEN Verdict("status", a.status >= 500)
    ELSE IF a.body = "not_object" THEN Verdict("response", FALSE)
    ELSE IF a.errors # "none" THEN GithubErrors(a)
    ELSE IF a.body # "data" THEN Verdict("response", FALSE)
    ELSE Success

-----------------------------------------------------------------------------

(* What the trackers agree an issue has.  content and open are GitHub's.   *)
Tickets3 == [archived : BOOLEAN, assigned : BOOLEAN,
             blockers : SUBSET {"open", "closed", "unknown"}]
RoutingRules == [requireAssignee : BOOLEAN]

(* MemoryTrackerAdapter._dispatchable, without an explicit value.          *)
MemoryDispatchable(t, rules) ==
    /\ ~t.archived
    /\ rules.requireAssignee => t.assigned
    /\ \A b \in t.blockers : b = "closed"

\* Mutant: a blocker of an unknown state does not block.
KnownOpenBlocker(t) == "open" \in t.blockers

(* linear.normalize_issue: a blocker whose state type is unknown is open.  *)
LinearHasOpenBlocker(t) == \E b \in t.blockers : b # "closed"

LinearDispatchable(t, rules, stateType, blockOnOpen) ==
    /\ ~t.archived
    /\ stateType \notin {"triage", "canceled"}
    /\ ~(blockOnOpen /\ LinearHasOpenBlocker(t))
    /\ ~(rules.requireAssignee /\ ~t.assigned)

(* GitHubProjectsAdapter._dispatch_blockers: the reasons against it.       *)
GithubReasons(t, rules, content, open, allowed) ==
    {r \in {"content_type", "archived", "not_open", "unassigned", "not_allowed", "blocked"} :
        \/ r = "content_type" /\ content # "Issue"
        \/ r = "archived" /\ t.archived
        \/ r = "not_open" /\ content = "Issue" /\ ~open
        \/ r = "unassigned" /\ rules.requireAssignee /\ ~t.assigned
        \/ r = "not_allowed" /\ ~allowed
        \/ r = "blocked" /\ \E b \in t.blockers : b # "closed"}

GithubDispatchable(t, rules, content, open, allowed) ==
    GithubReasons(t, rules, content, open, allowed) = {}

(* The issue a tool acts on.  current: the dispatched one, "" without one; *)
(* wanted: the issue_id the agent gave, "" without one.  "": refused.      *)
LinearTarget(current, wanted) ==
    IF current = "" \/ wanted \notin {"", current} THEN "" ELSE current

GithubTarget(current, wanted) == current

MemoryTarget(current, wanted, visible) ==
    LET id == IF wanted = "" THEN current ELSE wanted
    IN IF id \in visible THEN id ELSE ""

-----------------------------------------------------------------------------

(* _post and _graphql: nothing but a 2xx answer with data and without      *)
(* errors is a success; throttling the server states in the errors of a    *)
(* 200, or with a 429 that says how long, is retryable in both adapters,   *)
(* and a refusal of the credential never is.                               *)
AnswersAreTold(a) ==
    LET verdicts == {LinearVerdict(a), GithubVerdict(a)} IN
    /\ Success \in verdicts => a.status = 200 /\ a.errors = "none" /\ a.body = "data"
    /\ \/ a.status = 200 /\ a.errors = "rate" /\ a.body # "not_object"
       \/ a.status = 429 /\ a.signal # "none" /\ a.errors = "none"
       => \A v \in verdicts : v = Verdict("rate_limited", TRUE)
    /\ a.status = 401 /\ a.errors \in {"none", "auth"} => \A v \in verdicts : ~v.retryable

(* The three adapters call the same ticket dispatchable under the same     *)
(* rules (an open issue on GitHub, an open state in Linear, every option   *)
(* that hides blockers off), and none whose blocker is not known closed.   *)
AdaptersAgree(t, rules) ==
    LET memory == MemoryDispatchable(t, rules) IN
    /\ LinearDispatchable(t, rules, "started", TRUE) = memory
    /\ GithubDispatchable(t, rules, "Issue", TRUE, TRUE) = memory
    /\ memory => t.blockers \subseteq {"closed"}

=============================================================================
