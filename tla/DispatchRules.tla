---------------------------- MODULE DispatchRules ----------------------------
(***************************************************************************)
(* orchestrator/scheduling.py: who is dispatched first, who may be, and    *)
(* how many.  A priority or a creation time is None or a number; names are *)
(* numbers in lexicographic order.  The handlers that use these rules are  *)
(* in Orchestrator.tla.                                                    *)
(***************************************************************************)
EXTENDS Integers, Sequences, FiniteSets

NoValue == -1
Candidates == [priority : {NoValue, 0, 1, 4, 5}, created : {NoValue, 0, 1}, name : {1, 2}]

(* _priority_rank: 1 to 4 in order, and everything else level after them.  *)
PriorityRank(p) == IF p \in 1..4 THEN <<0, p>> ELSE <<1, 0>>

(* _created_rank: oldest first, none last.                                 *)
CreatedRank(t) == IF t = NoValue THEN <<1, 0>> ELSE <<0, t>>

SortKey(c) == PriorityRank(c.priority) \o CreatedRank(c.created) \o <<c.name>>

Precedes(a, b) ==
    \E k \in DOMAIN a : a[k] < b[k] /\ \A j \in 1..(k - 1) : a[j] = b[j]

(* sort_for_dispatch is stable: of equals, the earlier stays first.  Where *)
(* the k-th of a list ends up.                                             *)
SortedPlace(list, k) ==
    1 + Cardinality({j \in DOMAIN list :
            \/ Precedes(SortKey(list[j]), SortKey(list[k]))
            \/ SortKey(list[j]) = SortKey(list[k]) /\ j < k})

-----------------------------------------------------------------------------

(* Labels after their folding; "" is a blank one.                          *)
HasLabels(mine, required) == \A want \in required : want # "" /\ want \in mine

Routable(dispatchable, mine, required) == dispatchable /\ HasLabels(mine, required)

(* Tracker's normalize_labels drops blanks where required labels keep them.*)
NormalizedLabels(raw) == raw \ {""}

AvailableSlots(limit, running) == IF limit > running THEN limit - running ELSE 0

(* should_dispatch, from the state of an issue as the configuration reads  *)
(* it; inState: running issues of the same state.                          *)
ShouldDispatch(active, terminal, routable, claimed, limit, running, stateLimit, inState) ==
    /\ active /\ ~terminal /\ routable /\ ~claimed
    /\ AvailableSlots(limit, running) > 0
    /\ inState < stateLimit

-----------------------------------------------------------------------------

(* sort_for_dispatch: every candidate gets a place of its own; a change of *)
(* priority outside 1..4 changes nothing, and nobody passes an issue of a  *)
(* lower priority number by being older.                                   *)
OrderIsFair(list) ==
    /\ {SortedPlace(list, k) : k \in DOMAIN list} = DOMAIN list
    /\ \A j, k \in DOMAIN list :
        /\ list[j].priority \in 1..4 /\ list[k].priority \notin 1..(list[j].priority)
             => SortedPlace(list, j) < SortedPlace(list, k)
        /\ SortedPlace([list EXCEPT ![k].priority = IF @ \in 1..4 THEN @ ELSE NoValue], j)
             = SortedPlace(list, j)

(* has_labels: a blank required label lets nobody through, and so does one *)
(* that no issue carries; more labels never take an issue out.             *)
GateHolds(mine, required) ==
    /\ "" \in required => ~HasLabels(NormalizedLabels(mine), required)
    /\ HasLabels(mine, required) => HasLabels(mine \cup {"extra"}, required)

=============================================================================
