------------------------------ MODULE MCScoreInk ------------------------------
(***************************************************************************)
(* ScoreInk with a few strokes, for TLC.                                   *)
(***************************************************************************)
EXTENDS ScoreInk, TLC

\* Strokes differ in nothing but their names, and neither do the handlers.
Symmetry == Permutations(Strokes) \union Permutations(Handlers)

=============================================================================
