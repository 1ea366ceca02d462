-------------------------- MODULE MCCombinedPaper --------------------------
(* Prices at the stop, at the entry, at the trigger and at the target.      *)
EXTENDS CombinedPaper, FiniteSetsExt

MCGains == {-1, 0, 2, 3}
MCTotal(f) == FoldSet(LAMBDA i, sum : f[i] + sum, 0, DOMAIN f)
=============================================================================
