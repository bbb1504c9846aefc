---------------------------- MODULE MCFinalizer ------------------------------
(* Symmetry for the run of Finalizer: neither this event's lines nor the    *)
(* sheets are told apart.                                                   *)
EXTENDS Finalizer, TLC

Symmetry == Permutations(Own) \cup Permutations(Sheet)
=============================================================================
