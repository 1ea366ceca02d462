--------------------------- MODULE MCPaperLedger ---------------------------
(* Small instances of PaperLedger for TLC. *)
EXTENDS PaperLedger, TLC, Functions

MCTotal(f) == FoldFunction(LAMBDA x, y : x + y, 0, f)

Symmetry == Permutations(Ids) \cup Permutations(Symbols)
=============================================================================
