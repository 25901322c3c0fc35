----------------------------- MODULE ComponentsMC -----------------------------
(***************************************************************************)
(* The components around the orchestrator, side by side.  They share no    *)
(* state, so an instance runs one of them and leaves the others where they *)
(* start: the states add up and do not multiply.  The pure rules have no   *)
(* steps; their inputs are initial states.                                 *)
(***************************************************************************)
EXTENDS HostPool, RetryDelays, RetryQueue, TokenUsage, TokenTotals, Chunking,
        RecursiveQuery, TrackerRules, TrackerReads, ClaudeTurns, WorkflowWatch,
        ServiceHost, LogRouting, HttpSurface, HookRun, WorkspacePaths, ApprovalRules,
        ConfigRules, SnapshotViews, DispatchRules

VARIABLES part,  \* the component that runs
          input  \* of the pure rules, NoInput for a component

allVars == <<poolVars, retryVars, totalsVars, queryVars, readVars, claudeVars, watchVars,
             hostVars, logVars, httpVars, hookVars, part, input>>

ComponentNames == {"pool", "retry", "totals", "query", "reads", "claude", "watch", "host",
                   "log", "http", "hook"}
NoInput == [kind |-> "none"]

(* A configured root, a link or two on the way to the workspace, and a     *)
(* directory that is not there.  A link names where it finally leads.      *)
Link == {<<"srv">>, <<"srv", "ws">>, <<"srv", "ws", "k">>, <<"out", "k">>}
Target == {<<"out">>, <<"srv", "ws", "other">>, <<"srv", "elsewhere">>}
Links == {l \in UNION {[D -> Target] : D \in SUBSET Link} :
            \A p \in DOMAIN l : Resolve(l, l[p]) = l[p]}
Roots == [slashes : 0..3, parts : {<<>>, <<"srv">>, <<"srv", "ws">>, <<"srv", ".", "ws">>,
                                   <<"srv", "..">>, <<"srv", "~">>}]

Inputs ==
    [kind : {"answer"}, answer : GqlAnswers]
    \cup [kind : {"ticket"}, ticket : Tickets3, rules : RoutingRules]
    \cup [kind : {"identifier"}, id : Identifiers]
    \cup [kind : {"path"}, links : Links, missing : {{}, {<<"srv", "ws">>}}, root : Roots,
          name : {"k", ".", ".."}]

SomeOrder == CHOOSE f \in [Cards -> 1..Cardinality(Cards)] :
                \A c, d \in Cards : c # d => f[c] # f[d]

ComponentsInit ==
    /\ part \in ComponentNames \cup {"rules"}
    /\ input \in IF part = "rules" THEN Inputs ELSE {NoInput}
    /\ PoolInit /\ RetryInit /\ TotalsInit /\ HostInit /\ LogInit /\ HttpInit /\ HookInit
    /\ QueryInit /\ (part # "query" => payload = 0 /\ ~ raising)
    /\ ReadInit /\ (part # "reads" => position = SomeOrder /\ broken = {}
                                      /\ \A c \in Cards : column[c] = "other")
    /\ ClaudeInit /\ (part # "claude" => ~ known)
    /\ WatchInit /\ (part # "watch" => file = CHOOSE c \in Contents \ Broken : TRUE)

ComponentsNext ==
    /\ UNCHANGED <<part, input>>
    /\ IF part = "pool" THEN PoolNext ELSE UNCHANGED poolVars
    /\ IF part = "retry" THEN RetryNext ELSE UNCHANGED retryVars
    /\ IF part = "totals" THEN TotalsNext ELSE UNCHANGED totalsVars
    /\ IF part = "query" THEN QueryNext ELSE UNCHANGED queryVars
    /\ IF part = "reads" THEN ReadNext ELSE UNCHANGED readVars
    /\ IF part = "claude" THEN ClaudeNext ELSE UNCHANGED claudeVars
    /\ IF part = "watch" THEN WatchNext ELSE UNCHANGED watchVars
    /\ IF part = "host" THEN HostNext ELSE UNCHANGED hostVars
    /\ IF part = "log" THEN LogNext ELSE UNCHANGED logVars
    /\ IF part = "http" THEN HttpNext ELSE UNCHANGED httpVars
    /\ IF part = "hook" THEN HookNext ELSE UNCHANGED hookVars

ComponentsSpec == ComponentsInit /\ [][ComponentsNext]_allVars

(* Type correctness of every component.                                    *)
ComponentTypes ==
    /\ PoolTypes /\ RetryTypes /\ TotalsTypes /\ QueryTypes /\ ReadsTypes /\ ClaudeTypes
    /\ WatchTypes /\ HostTypes /\ LogTypes /\ HttpTypes /\ HookTypes

(* linear.py, github.py and memory.py decide alike: the same failure of an *)
(* answer is told the same way, and the same ticket is dispatchable.       *)
TrackersAgree ==
    /\ input.kind = "answer" => AnswersAreTold(input.answer)
    /\ input.kind = "ticket" => AdaptersAgree(input.ticket, input.rules)

(* models.py, safety.py and ssh/worker.py: every issue has a workspace of  *)
(* its own, unless its identifier is spelled with the digest of another at *)
(* its end, and it is inside the root.                                     *)
WorkspacesAreApart ==
    /\ input.kind = "identifier" =>
         \A other \in Identifiers : KeysNeverMeet(input.id, other)
    /\ input.kind = "path" =>
         PathsStayInside(input.links, input.missing, input.root, input.name)

-----------------------------------------------------------------------------

(* Rules that depend on no state, over every input of these sets.          *)
ASSUME DelaysAreTheFormula ==
    \A attempted \in 0..10, cap \in {0, 5000, 10000, 15000, 300000} :
        BackoffIsTheFormula(attempted, cap)
ASSUME TotalsAreSelected == \A tree \in Trees(3) : OnlyTotalsAreSelected(tree)
ASSUME TextsAreCovered ==
    \A text \in UNION {[1..n -> Breaks] : n \in 0..4}, size \in 1..3, overlap \in 0..2 :
        ChunksCover(text, size, overlap)
ASSUME ApprovalsAreRead == \A request \in Requests : NothingApprovedUnread(request)
ASSUME ConfigsAreUsable ==
    \A f, g \in Fields, v, w \in Scalars : ConfigIsUsable(f, v, g, w)
ASSUME RootsAreAbsolute ==
    \A path \in Paths, env \in [Variables -> Values] : RootIsAbsolute(path, env)
ASSUME DetailsAreFound ==
    \A v \in ViewStates, ident \in Naming : DetailIsOfTheIssue(v, ident)
ASSUME RuntimeIsLive ==
    \A started \in UNION {[D -> 0..3] : D \in SUBSET ViewIssues}, banked, now \in 0..3 :
        RuntimeIsContinuous(banked, started, now)
ASSUME OrdersAreFair ==
    \A list \in UNION {[1..n -> Candidates] : n \in 0..2} : OrderIsFair(list)
ASSUME GatesHold ==
    \A mine, required \in SUBSET {"", "a", "b"} : GateHolds(mine, required)

=============================================================================
