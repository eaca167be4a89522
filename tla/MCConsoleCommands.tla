------------------------- MODULE MCConsoleCommands -------------------------
(* Finite instances of ConsoleCommands.                                      *)
EXTENDS ConsoleCommands, TLC

Symmetry == Permutations(Console) \cup Permutations(Command)

(* Uncommitted work is lost only with a session that was found closed, and   *)
(* work that failed is never taken up again (see ConsoleCommands).          *)
WorkIsSettledOrLostKnowingly == UncommittedWorkSurvives /\ FailedStaysFailed
=============================================================================
