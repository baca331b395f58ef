------------------------------ MODULE MCSetup ------------------------------
(* Instance of Setup for TLC.  Names and versions are interchangeable. *)
EXTENDS Setup, TLC

Symmetry == Permutations(Names) \cup Permutations(Versions)
=============================================================================
