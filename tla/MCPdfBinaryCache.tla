--------------------------- MODULE MCPdfBinaryCache ---------------------------
(***************************************************************************)
(* PdfBinaryCache with a few files, for TLC.                               *)
(***************************************************************************)
EXTENDS PdfBinaryCache, TLC

\* Files differ in nothing but their names, and neither do the opens.
Symmetry == Permutations(Checksums) \union Permutations(Opens)

\* Bound: paths of one file are returned wrongly, not those of two.
Bounds == Cardinality(misserved) <= 1

=============================================================================
