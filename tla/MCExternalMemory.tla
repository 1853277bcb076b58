-------------------------- MODULE MCExternalMemory --------------------------
(* ExternalMemory with processes and data that are interchangeable.        *)
EXTENDS ExternalMemory, TLC

Symmetry == Permutations(Procs) \cup Permutations(Data)
=============================================================================
