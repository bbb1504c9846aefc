--------------------------- MODULE StationVisits ---------------------------
(***************************************************************************)
(* The rows of the station_visits table of ONE patrol at ONE station of    *)
(* ONE event, and what the handlers do to a row.  Every query and every    *)
(* update of the visit and score handlers is keyed by that triple, so      *)
(* triples never interfere and one of them is the whole story.             *)
(*                                                                         *)
(* Rows are kept in created_at order: the stamp is taken in                *)
(* StationVisitsStore.create in the step that inserts the row.  A          *)
(* timestamp column is abstracted to "set or NULL", which is all the       *)
(* handlers branch on.                                                     *)
(***************************************************************************)
EXTENDS Naturals, Sequences

Status == {"checked_in", "checked_out", "completed"}

\* arrived, left and scored are checked_in_at, checked_out_at and
\* tasks_completed_at being set.
Visit == [status : Status, arrived : BOOLEAN, left : BOOLEAN, scored : BOOLEAN]

\* The times a score submission may carry: completedAt (or timestamp, which
\* the handler takes in its place) and startedAt.
PayloadTimes == SUBSET {"startedAt", "completedAt"}

-----------------------------------------------------------------------------
(* What the two queries return: a position in visits, 0 when no row.       *)

OpenRows(visits) == {i \in DOMAIN visits : ~visits[i].left}

\* GET_ACTIVE_VISIT: checked_out_at IS NULL, newest first, LIMIT 1.
ActiveRow(visits) ==
    IF OpenRows(visits) = {} THEN 0
    ELSE CHOOSE i \in OpenRows(visits) : \A j \in OpenRows(visits) : j <= i

\* GET_LATEST_VISIT: newest first, LIMIT 1.
LatestRow(visits) == Len(visits)

-----------------------------------------------------------------------------
(* The completed-attempt guard of check_in.  A definition like NeverBlocked *)
(* is deliberately wrong and named for the bug it makes; no specification  *)
(* uses it.  It stands in for the definition below it when the sensitivity *)
(* of a property is tested.                                                *)

NeverBlocked(visits) == FALSE

CheckInBlocked(visits) ==
    /\ visits # <<>>
    /\ visits[LatestRow(visits)].status = "completed"

(* What each handler writes into the row it read.                          *)

Arrived(v) == [v EXCEPT !.arrived = TRUE, !.status = "checked_in"]

Departed(v) ==
    [v EXCEPT !.left = TRUE,
              !.status = IF @ = "completed" THEN @ ELSE "checked_out"]

ScoredUnknownStatus(v, times) ==
    [v EXCEPT !.status = "scored", !.scored = TRUE, !.left = TRUE]

Scored(v, times) ==
    [v EXCEPT !.status  = "completed",
              !.scored  = @ \/ "completedAt" \in times,
              !.arrived = @ \/ times # {},
              !.left    = @ \/ "completedAt" \in times]

Reopened(v) == [v EXCEPT !.status = "checked_in", !.left = FALSE]

(* The row each handler inserts when it found none to update.              *)

FirstArrival ==
    [status |-> "checked_in", arrived |-> TRUE, left |-> FALSE, scored |-> FALSE]

DepartureOnly ==
    [status |-> "checked_out", arrived |-> FALSE, left |-> TRUE, scored |-> FALSE]

ScoreOnly(times) ==
    [status  |-> "completed",
     arrived |-> times # {},
     left    |-> "completedAt" \in times,
     scored  |-> "completedAt" \in times]

=============================================================================
