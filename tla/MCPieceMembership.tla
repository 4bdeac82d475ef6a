-------------------------- MODULE MCPieceMembership --------------------------
(***************************************************************************)
(* PieceMembership with an owner and a few people to invite, for TLC.      *)
(***************************************************************************)
EXTENDS PieceMembership, TLC

\* The people other than the owner play the same part, and so do the messages
\* and the call slots.
Symmetry ==
    Permutations(Users \ {Owner}) \union Permutations(MessageIds) \union Permutations(Calls)

=============================================================================
