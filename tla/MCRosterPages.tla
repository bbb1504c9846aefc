--------------------------- MODULE MCRosterPages ----------------------------
(* RosterImport with two names one letter apart and two operators, one of  *)
(* whom imports sheets of two rows.                                        *)
EXTENDS RosterPages, TLC

CONSTANTS c1, c2, n1, n2

OneLetterApart == {<<n1, n2>>, <<n2, n1>>}

Rows == c1 :> 2 @@ c2 :> 1

\* A bound: a third person is followed while only the first operator imports.
ThirdWithOneImport == Len(people) = 3 => plan[c2] = <<>>

Symmetry == Permutations({n1, n2})
=============================================================================
