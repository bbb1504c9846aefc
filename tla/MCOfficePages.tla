---------------------------- MODULE MCOfficePages ----------------------------
(* Organisers' pages are interchangeable, and so are the rows they work on.  *)
(* One area is at work in a behaviour, so one permutation swaps the pages of *)
(* all areas and one the rows: four elements in place of sixty-four.         *)
EXTENDS OfficePages

Kept(S) == [x \in S |-> x]
Swapped(S) == [x \in S |-> CHOOSE y \in S : y # x]

OfficeSymmetry ==
    {f @@ g :
        f \in {Kept(Editor),
               Swapped(Editor) @@ Swapped(Manager) @@ Swapped(Keeper) @@ Swapped(Outing)},
        g \in {Kept(Patrol), Swapped(Patrol) @@ Swapped(Account)}}

=============================================================================
