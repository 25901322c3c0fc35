--------------------------- MODULE ClaimLifecycle ---------------------------
(***************************************************************************)
(* What the orchestrator promises about the claim on each issue: the       *)
(* states reported by OrchestratorState.claim_state and the moves between  *)
(* them, with no mailbox, no timers and no worker tasks.                   *)
(***************************************************************************)
EXTENDS Naturals, FiniteSets

CONSTANTS
    Issues,
    Limits      \* values max_concurrent_agents may take

VARIABLES
    claim,      \* issue -> claim state
    limit,      \* max_concurrent_agents in force
    open        \* FALSE once stop() was called

vars == <<claim, limit, open>>

ClaimState == {"Unclaimed", "Claimed", "Running", "RetryQueued"}

In(state) == {i \in Issues : claim[i] = state}

\* The moves one handler may make.  "Claimed" is an issue in the hand of a
\* handler that waits for the tracker or for a workspace cleanup.
Moves ==
    { <<"Unclaimed", "Running">>,       \* dispatched by a tick
      <<"Unclaimed", "RetryQueued">>,   \* its spawn raised
      <<"Running", "RetryQueued">>,     \* worker exit, stall
      <<"Running", "Unclaimed">>,       \* no longer active, or closing
      <<"Running", "Claimed">>,         \* terminal: cleaning up
      <<"RetryQueued", "Claimed">>,     \* its timer fired: asking the tracker
      <<"Claimed", "Running">>,         \* re-dispatched
      <<"Claimed", "RetryQueued">>,     \* no slot, failed refresh or spawn
      <<"Claimed", "Unclaimed">> }      \* released

Init ==
    /\ claim = [i \in Issues |-> "Unclaimed"]
    /\ limit \in Limits
    /\ open = TRUE

\* One handler step.  It never replaces a running worker, has one issue in
\* hand, starts no more than the limit allows and queues nothing after close.
Handle ==
    /\ claim' \in [Issues -> ClaimState]
    /\ \A i \in Issues : claim'[i] = claim[i] \/ <<claim[i], claim'[i]>> \in Moves
    /\ LET started == {i \in Issues : claim'[i] = "Running" /\ claim[i] # "Running"}
       IN  started # {} =>
             Cardinality({i \in Issues : claim'[i] = "Running"}) <= limit
    /\ open => Cardinality({i \in Issues : claim'[i] = "Claimed"}) <= 1
    /\ ~open => \A i \in Issues : claim'[i] # "RetryQueued"
    /\ UNCHANGED <<limit, open>>

Reconfigure ==
    /\ limit' \in Limits
    /\ UNCHANGED <<claim, open>>

\* stop() drops the retries and leaves their claims.
Close ==
    /\ open
    /\ open' = FALSE
    /\ claim' = [i \in Issues |-> IF claim[i] = "RetryQueued" THEN "Claimed" ELSE claim[i]]
    /\ UNCHANGED limit

Next == Handle \/ Reconfigure \/ Close

Spec == Init /\ [][Next]_vars
=============================================================================
