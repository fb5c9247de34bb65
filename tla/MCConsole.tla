------------------------------ MODULE MCConsole ------------------------------
(* Instances of Console for TLC. *)
EXTENDS ConsoleInv, TLC

\* Heap addresses and entry ids are only ever compared.
Symmetry == Permutations(Heaps) \cup Permutations(Ids)
=============================================================================
