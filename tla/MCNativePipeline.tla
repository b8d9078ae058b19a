--------------------------- MODULE MCNativePipeline ---------------------------
(* Small instance of NativePipeline; tabs are alike, and nodes are.            *)
EXTENDS NativePipeline, TLC

CONSTANTS t1, t2, n1, n2

MCTabs == {t1, t2}
MCNodes == {n1, n2}
Symmetry == Permutations(MCTabs) \union Permutations(MCNodes)
=============================================================================
