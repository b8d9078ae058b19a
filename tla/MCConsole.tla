------------------------------ MODULE MCConsole ------------------------------
(* Small instance of Console: two windows, one draft id; the texts are 0 (no  *)
(* nodes) and 5 (what it is mended to), 1 (the sample), 3 (an edit with a     *)
(* secret that took the start node away) and 4 (the same, mended), -4 (the    *)
(* latter, masked by the API).                                                *)
EXTENDS Console, TLC

CONSTANTS w1, w2

MCMends == (0 :> 5) @@ (3 :> 4)
MCEvents == [keyword \in BOOLEAN |-> IF keyword THEN 1 ELSE 2]
=============================================================================
