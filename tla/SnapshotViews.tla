---------------------------- MODULE SnapshotViews ----------------------------
(***************************************************************************)
(* observability/snapshot.py: what the HTTP API reads from the state of    *)
(* the orchestrator.  A name is an issue id or an identifier; loose says   *)
(* that it is spelled in another case than the stored one.  Dictionaries   *)
(* are sequences, in their insertion order.                                *)
(***************************************************************************)
EXTENDS Integers, Sequences, FiniteSets, FiniteSetsExt

ViewIssues == {"i1", "i2"}
Names == ViewIssues \cup {"n1", "n2", "n3"}

Orders == UNION {{s \in [1..n -> ViewIssues] : \A j, k \in 1..n : j # k => s[j] # s[k]} :
                    n \in 0..Cardinality(ViewIssues)}
Set(s) == {s[k] : k \in DOMAIN s}

(* OrchestratorState, in what the views read of it.                        *)
ViewStates == {v \in [running : Orders, retrying : Orders, claimed : SUBSET ViewIssues,
                      completed : SUBSET ViewIssues] :
                  Set(v.running) \cap Set(v.retrying) = {}}

(* Two issues may carry the same identifier, or one another's id.          *)
Naming == [ViewIssues -> {"n1", "n2", "i1"}]

Detail(i, running, retrying) == [issue |-> i, running |-> running, retrying |-> retrying]
NotFound == Detail("none", FALSE, FALSE)

(* The first of the order that goes by the name, by id or identifier.      *)
FirstNamed(order, ident, name) ==
    LET hits == {k \in DOMAIN order : name \in {order[k], ident[order[k]]}}
    IN IF hits = {} THEN "none" ELSE order[Min(hits)]

(* _resolve: running before retrying; a name spelled as stored may also be *)
(* the id of an issue that is only claimed or completed.                   *)
ResolveName(v, ident, name, loose) ==
    LET r == FirstNamed(v.running, ident, name)
        q == FirstNamed(v.retrying, ident, name)
    IN IF r # "none" THEN Detail(r, TRUE, r \in Set(v.retrying))
       ELSE IF q # "none" THEN Detail(q, FALSE, TRUE)
       ELSE IF ~loose /\ name \in v.claimed \cup v.completed THEN Detail(name, FALSE, FALSE)
       ELSE NotFound

(* _status, after OrchestratorState.claim_state.                           *)
StatusOf(v, i) ==
    IF i \in Set(v.running) THEN "running"
    ELSE IF i \in Set(v.retrying) THEN "retrying"
    ELSE IF i \in v.claimed THEN "claimed"
    ELSE IF i \in v.completed THEN "completed"
    ELSE "unknown"

(* build_snapshot.                                                         *)
Counts(v) == [running |-> Len(v.running), retrying |-> Len(v.retrying)]

(* build_issue_detail: the attempt of the entry, else of the queued retry; *)
(* 0 stands for none.                                                      *)
CurrentAttempt(entryAttempt, retryAttempt) ==
    IF entryAttempt # 0 THEN entryAttempt ELSE retryAttempt

(* elapsed_seconds and live_seconds_running: a clock that steps back does  *)
(* not subtract.                                                           *)
Elapsed(started, now) == IF now > started THEN now - started ELSE 0
LiveSeconds(banked, started, now) ==
    banked + MapThenSumSet(LAMBDA i : Elapsed(started[i], now), DOMAIN started)

(* Orchestrator._add_runtime_seconds, when the entry of i goes.            *)
BankedSeconds(banked, started, i, now) == banked + Elapsed(started[i], now)

-----------------------------------------------------------------------------

(* GET /api/v1/<issue>: every row of the snapshot can be asked for, by id  *)
(* and by identifier in any case, and is then told as the row has it,      *)
(* provided no two issues share a name; an issue is never told as unknown, *)
(* and one that is neither running nor queued only goes by its id.         *)
DetailIsOfTheIssue(v, ident) ==
    LET apart == \A i, j \in ViewIssues : i # j => ident[i] \notin {j, ident[j]}
        asked(name, loose) == ResolveName(v, ident, name, loose)
    IN /\ \A name \in Names, loose \in BOOLEAN :
            asked(name, loose) # NotFound => StatusOf(v, asked(name, loose).issue) # "unknown"
       /\ apart => \A i \in ViewIssues, loose \in BOOLEAN : \A name \in {i, ident[i]} :
            LET d == asked(name, loose) IN
            /\ d \in {NotFound, Detail(i, i \in Set(v.running), i \in Set(v.retrying))}
            /\ d = NotFound => StatusOf(v, i) \in {"claimed", "completed", "unknown"}
       /\ Cardinality({i \in ViewIssues : StatusOf(v, i) = "running"}) = Counts(v).running
       /\ Cardinality({i \in ViewIssues : StatusOf(v, i) = "retrying"}) = Counts(v).retrying

(* SPEC 13.5, "a live aggregate at render time": the total runtime does    *)
(* not change when a session ends, and does not fall as the clock goes on, *)
(* whatever clock steps the sessions started across.                       *)
RuntimeIsContinuous(banked, started, now) ==
    /\ \A i \in DOMAIN started :
         LiveSeconds(BankedSeconds(banked, started, i, now),
                     [j \in DOMAIN started \ {i} |-> started[j]], now)
            = LiveSeconds(banked, started, now)
    /\ LiveSeconds(banked, started, now) <= LiveSeconds(banked, started, now + 1)

=============================================================================
