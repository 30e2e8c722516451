---------------------------- MODULE MCPanelConfig ----------------------------
(* Small instances of PanelConfig for TLC. *)
EXTENDS PanelConfig, TLC

\* Goroutines and ids are interchangeable; used by safety runs only.
Symmetry ==
  Permutations(Req) \cup Permutations(Iid) \cup Permutations(Uid) \cup Permutations(Oid)
=============================================================================
