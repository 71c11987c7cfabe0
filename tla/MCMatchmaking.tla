--------------------------- MODULE MCMatchmaking ---------------------------
(***************************************************************************)
(* The matchmaker for TLC: every player connects once.                     *)
(***************************************************************************)
EXTENDS Matchmaking, SequencesExt, TLC

EachOnce == Player \X {1}

Symmetry == Permutations(Player) \cup Permutations(Match)

\* Filtered computes what the code's loop over the slice computes.
ASSUME FilterIsSelect ==
    \A q \in BoundedSeq(Player, 3), keep \in SUBSET Player :
        Filtered(q, keep) = SelectSeq(q, LAMBDA p : p \in keep)
============================================================================
