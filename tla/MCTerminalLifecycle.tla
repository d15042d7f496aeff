------------------------ MODULE MCTerminalLifecycle ------------------------
(* The instances of TerminalLifecycle that TLC checks.                      *)
EXTENDS TerminalLifecycle, TLC

Symmetry == Permutations(Openers) \cup Permutations(Ptys)
=============================================================================
