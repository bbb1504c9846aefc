-------------------------- MODULE MCScoresToReports --------------------------
EXTENDS ScoresToReports, TLC

\* The patrols are model values that nothing tells apart.
Symmetry == Permutations(Patrol)

\* A bound: once another patrol's answers are recorded, nothing more is followed.
NoneForeign == \A p \in Patrol, t \in StationTask : recorded[p][t] \in {p, Nobody}

=============================================================================
