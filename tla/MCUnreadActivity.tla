--------------------------- MODULE MCUnreadActivity ---------------------------
(***************************************************************************)
(* UnreadActivity with an owner and two collaborators, for TLC.            *)
(***************************************************************************)
EXTENDS UnreadActivity, TLC

CONSTANT MaxOpens   \* bounds the markOpened writes on their way

\* The collaborators differ in nothing but their names.
Symmetry == Permutations(People \ {Owner})

\* Writes that may overtake one another are those of one reader: two readers'
\* watermarks have nothing to do with each other, and the owner sees no marks.
Bounds ==
    /\ Cardinality(opens) <= MaxOpens
    /\ \A o, p \in opens : o.user = p.user /\ (o.user = Owner => o = p)

=============================================================================
