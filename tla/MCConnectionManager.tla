------------------------ MODULE MCConnectionManager ------------------------
(* Finite instances of ConnectionManager.  Sources, queries and consoles are *)
(* interchangeable where no configuration distinguishes them.                *)
EXTENDS ConnectionManager, TLC

SourceSymmetry == Permutations(Source)
Symmetry == Permutations(Source) \cup Permutations(QueryId) \cup Permutations(Console)
=============================================================================
