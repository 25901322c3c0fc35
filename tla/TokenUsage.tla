----------------------------- MODULE TokenUsage -----------------------------
(***************************************************************************)
(* Which part of an agent payload carries absolute token totals.  A        *)
(* payload is a tree of mappings whose nodes are numbered breadth first;   *)
(* of each node only what the selection tells apart is kept.  The bounds   *)
(* on the walk (depth 8, 512 nodes) are beyond the instances.              *)
(***************************************************************************)
EXTENDS Integers, FiniteSets

(* key: what the key of a node folds to.  "total" is an absolute wrapper,  *)
(* "delta" an incremental one, "usage" a usage container, "envelope" one   *)
(* of params, payload, data, ...  event: a type key names the token-usage  *)
(* event.  counts: it has input, output or total fields.                   *)
NodeKeys == {"total", "delta", "usage", "envelope", "other"}

Trees(n) ==
    [parent : {p \in [1..n -> 0..n] : /\ p[1] = 0
                                      /\ \A k \in 2..n : p[k] \in 1..(k - 1) /\ p[k - 1] <= p[k]},
     key : {f \in [1..n -> NodeKeys] : f[1] = "other"},
     event : [1..n -> BOOLEAN],
     counts : [1..n -> BOOLEAN]]

Nodes(t) == DOMAIN t.key

FirstOf(S) == CHOOSE n \in S : \A k \in S : n <= k

(* The walk never descends into a delta.                                   *)
Walked(t) ==
    LET walked[n \in Nodes(t)] ==
            n = 1 \/ (t.key[n] # "delta" /\ walked[t.parent[n]])
    IN {n \in Nodes(t) : walked[n]}

Children(t, n, key) == {k \in Nodes(t) : t.parent[k] = n /\ t.key[k] = key}

(* Keys are folded, so a wrapper is also a usage container, and the first  *)
(* of the names is the wrapper's.                                          *)
ContainersOf(t, n) ==
    IF Children(t, n, "total") # {} THEN Children(t, n, "total") ELSE Children(t, n, "usage")

(* _usage_container: the node itself first, then its envelopes.  0: none.  *)
UsageContainer(t, n) ==
    LET found(c) == ContainersOf(t, c) # {} \/ t.counts[c]
        candidates == {c \in {n} \cup Children(t, n, "envelope") : found(c)}
        c == FirstOf(candidates)
    IN IF candidates = {} THEN 0
       ELSE IF ContainersOf(t, c) # {} THEN FirstOf(ContainersOf(t, c)) ELSE c

(* select_absolute_usage: any wrapper outside a delta, else the counts of  *)
(* a token-usage event.                                                    *)
SelectAbsoluteUsage(t) ==
    LET wrappers == {n \in Nodes(t) : t.key[n] = "total" /\ n # 1 /\ t.parent[n] \in Walked(t)}
        events == {n \in Walked(t) : t.event[n] /\ UsageContainer(t, n) # 0}
    IN IF wrappers # {} THEN FirstOf(wrappers)
       ELSE IF events # {} THEN UsageContainer(t, FirstOf(events))
       ELSE 0

(* _coerce_count and read_token_counts: a missing total is the sum; -1 is *)
(* a field that is absent or is no count.                                  *)
ReadCounts(in, out, total) ==
    LET zero(x) == IF x < 0 THEN 0 ELSE x IN
    IF in < 0 /\ out < 0 /\ total < 0 THEN <<>>
    ELSE <<zero(in), zero(out), IF total < 0 THEN zero(in) + zero(out) ELSE total>>

-----------------------------------------------------------------------------

Ancestors(t, n) ==
    LET up[k \in Nodes(t)] == {k} \cup (IF k = 1 THEN {} ELSE up[t.parent[k]])
    IN up[n]

(* select_absolute_usage: nothing inside an incremental payload is ever    *)
(* taken for a total, and what is taken is a wrapper or belongs to a       *)
(* token-usage event; a wrapper outside every delta is never missed.       *)
OnlyTotalsAreSelected(t) ==
    LET n == SelectAbsoluteUsage(t)
        clean(k) == \A a \in Ancestors(t, k) : t.key[a] # "delta"
    IN /\ n # 0 => /\ clean(n)
                   /\ t.key[n] = "total" \/ \E a \in Ancestors(t, n) : t.event[a]
       /\ (\E k \in Nodes(t) : t.key[k] = "total" /\ clean(k)) => t.key[n] = "total"

=============================================================================
