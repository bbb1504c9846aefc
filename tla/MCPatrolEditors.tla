-------------------------- MODULE MCPatrolEditors --------------------------
(* Organisers' pages are interchangeable, and so are patrols.              *)
EXTENDS PatrolEditors, TLC

PatrolSymmetry == Permutations(Editor) \cup Permutations(Patrol)

=============================================================================
