----------------------------- MODULE AttemptMC -----------------------------
(***************************************************************************)
(* Small instances of Attempt for TLC.                                     *)
(***************************************************************************)
EXTENDS Attempt, TLC

CONSTANTS a1, a2, a3

\* Two configs that differ in agent.max_turns, on both sides of one turn.
OneOrTwo == (1 :> 1) @@ (2 :> 2)
OneTurn == (1 :> 1)


Symmetry == Permutations(Attempts)

=============================================================================
