------------------------------- MODULE MCTandem -------------------------------
(***************************************************************************)
(* GroceryList and ShoppingPresence for TLC.  They live in two databases   *)
(* and share no state, so a behaviour explores one of them with the other  *)
(* at rest.                                                                *)
(***************************************************************************)
EXTENDS GroceryList, ShoppingPresence, TLC

VARIABLE part

vars == <<listVars, presenceVars, part>>

Init == ListInit /\ PresenceInit /\ part \in {"list", "presence"}

Next ==
    /\ \/ part = "list" /\ ListNext /\ UNCHANGED presenceVars
       \/ part = "presence" /\ PresenceNext /\ UNCHANGED listVars
    /\ UNCHANGED part

Spec == Init /\ [][Next]_vars

\* The states of both parts: the documents, the operations under way, the
\* presence database and the requests to it.
TypeOK == ListTypeOK /\ PresenceTypeOK

\* The phones, the documents and the spellings differ in nothing but names.
Symmetry ==
    Permutations(People) \union Permutations(Items) \union Permutations(Rests)

\* Bound: the list is not looked into once an overlap or a restored item may
\* have listed a name twice.
Bounds == doubled = {}

=============================================================================
