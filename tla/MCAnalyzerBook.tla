--------------------------- MODULE MCAnalyzerBook ---------------------------
(* A loop and one other task, one velocity and one LLM strategy.            *)
EXTENDS AnalyzerBook, TLC

Symmetry == Permutations(Ids)
=============================================================================
