------------------------- MODULE MCConnectCommands -------------------------
(* Finite instances of ConnectCommands.                                      *)
EXTENDS ConnectCommands, TLC

Symmetry == Permutations(Source) \cup Permutations(Attempt)
=============================================================================
