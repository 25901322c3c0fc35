--------------------------- MODULE OrchestratorMC ---------------------------
(***************************************************************************)
(* Small instances of Orchestrator for TLC.                                *)
(***************************************************************************)
EXTENDS Orchestrator, TLC

CONSTANTS i1, i2, g1, g2

\* One active state; no override.
NoOverride == [s \in {} |-> 0]

\* Two active states, one of them with an override below the global limit.
OneInReview == [s \in {"review"} |-> 1]

\* Issues and task names are interchangeable, tracker states are not.
Symmetry == Permutations(Issues) \cup Permutations(Gens)

=============================================================================
