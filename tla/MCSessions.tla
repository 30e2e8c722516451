----------------------------- MODULE MCSessions -----------------------------
(* Small instances of Sessions for TLC. *)
EXTENDS Sessions, TLC

\* Goroutines, keys and passwords are interchangeable; used by safety runs only.
Symmetry == Permutations(Req) \cup Permutations(Key) \cup Permutations(Password)
=============================================================================
