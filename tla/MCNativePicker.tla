--------------------------- MODULE MCNativePicker ---------------------------
(* Instances of NativePicker for TLC. *)
EXTENDS NativePicker, TLC

\* Sessions, threads and hosts are interchangeable.
Symmetric == Permutations(Sessions) \cup Permutations(Threads) \cup Permutations(Hosts)
=============================================================================
