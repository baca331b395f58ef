---------------------------- MODULE MCToolsCache ----------------------------
(* Small instances of ToolsCache.                                          *)
EXTENDS ToolsCache, TLC

ClientSymmetry == Permutations(Clients)

\* Of any two faults one at least excuses each of the invariants for good: what comes
\* after a second need not be explored.
OneFault == Cardinality(faults) <= 1
=============================================================================
