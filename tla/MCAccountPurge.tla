--------------------------- MODULE MCAccountPurge ---------------------------
(***************************************************************************)
(* AccountPurge with an owner and two collaborators, for TLC.  One of the  *)
(* collaborators, and the owner, may delete their accounts; the other one  *)
(* is there to join and leave beside them.                                 *)
(***************************************************************************)
EXTENDS AccountPurge, TLC

CONSTANT Purger     \* the collaborator who may delete the account

\* The messages play the same part.
Symmetry == Permutations(MessageIds)

Sent == {m \in MessageIds : \E u \in Users : inbox[u][m] # "absent"}

\* Bound: only Purger has ink and notes, only Purger and the owner delete their
\* accounts, nobody invites the owner, beside the owner's purge at most one
\* invite is ever sent, and of a deleted piece nobody else is told 'left'.
Bounds ==
    /\ \A m \in MessageIds : inbox[Owner][m] = "absent"
    /\ Users \ directory \subseteq {Purger, Owner}
    /\ Owner \notin directory => \A m, n \in Sent : m = n
    /\ layers \subseteq {Purger}
    /\ \A u \in Users \ {Purger} : NotesOf(u) = {}
    /\ piece.exists \/ leftClean \subseteq {Purger}

=============================================================================
