----------------------------- MODULE MCReviewSync -----------------------------
(***************************************************************************)
(* ReviewSync with a note and a few bundles, for TLC.                      *)
(***************************************************************************)
EXTENDS ReviewSync, TLC

CONSTANT MaxBundles  \* bounds the bundles that are looked into

\* One bundle fewer once the author's stamps no longer tell their order, and
\* once imports were disturbed: what is promised then needs no third.
Bounds ==
    LET Fewer(flag) == IF flag THEN 1 ELSE 0
    IN  Cardinality(bundles) <= MaxBundles - Fewer(unordered) - Fewer(disturbed)

\* Batches and slots differ in nothing but their names.
Symmetry ==
    Permutations(Batches) \union Permutations(Exports) \union Permutations(Imports)

=============================================================================
