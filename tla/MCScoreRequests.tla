-------------------------- MODULE MCScoreRequests ---------------------------
(* Symmetry for the model-checking runs of ScoreRequests: neither requests *)
(* nor tasks are told apart by the handlers.                               *)
EXTENDS ScoreRequests, TLC

Symmetry == Permutations(Client) \cup Permutations(Task)
=============================================================================
