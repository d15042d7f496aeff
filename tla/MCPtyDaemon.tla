---------------------------- MODULE MCPtyDaemon ----------------------------
(* The instances of PtyDaemon that TLC checks.                              *)
EXTENDS PtyDaemon, TLC

Symmetry == Permutations(Conns) \cup Permutations(Ids) \cup Permutations(Ptys)
=============================================================================
