--------------------------- MODULE StationAttempt ---------------------------
(***************************************************************************)
(* The contract of the visit handlers for one patrol at one station, each  *)
(* handler taken as ONE step: what the code promises when no two requests  *)
(* for the same patrol and station overlap.  ScoreRequests breaks the      *)
(* handlers into their database statements and is shown to implement this  *)
(* module when requests are served one at a time.                          *)
(***************************************************************************)
EXTENDS StationVisits

CONSTANT MaxVisits      \* bound on the rows inserted, for model checking

ASSUME MaxVisitsAssumption == MaxVisits \in Nat

VARIABLE visits         \* sequence of Visit, in created_at order

Init == visits = <<>>

Insert(v) ==
    /\ Len(visits) < MaxVisits
    /\ visits' = Append(visits, v)

Update(i, v) == visits' = [visits EXCEPT ![i] = v]

CheckInAlwaysInserts ==
    /\ ~CheckInBlocked(visits)
    /\ Insert(FirstArrival)

\* check_in: 409 when the latest attempt is completed; otherwise the open
\* visit is stamped again, or a new one is inserted.
CheckIn ==
    /\ ~CheckInBlocked(visits)
    /\ LET i == ActiveRow(visits) IN
       IF i # 0 THEN Update(i, Arrived(visits[i])) ELSE Insert(FirstArrival)

CheckOutOfNewest ==
    IF visits = <<>> THEN Insert(DepartureOnly)
    ELSE Update(LatestRow(visits),
                [visits[LatestRow(visits)] EXCEPT !.left = TRUE, !.status = "checked_out"])

\* check_out: the open visit is closed, or a closed one is inserted.
CheckOut ==
    LET i == ActiveRow(visits) IN
    IF i # 0 THEN Update(i, Departed(visits[i])) ELSE Insert(DepartureOnly)

\* POST /v1/scores: the open visit, else the latest, else a synthetic one.
Submit(times) ==
    LET i == IF ActiveRow(visits) # 0 THEN ActiveRow(visits) ELSE LatestRow(visits)
    IN IF i # 0 THEN Update(i, Scored(visits[i], times)) ELSE Insert(ScoreOnly(times))

ResetAnyRow ==
    \E i \in DOMAIN visits : Update(i, Reopened(visits[i]))

\* POST /v1/visits/reset by a caller who may: the latest visit is reopened.
Reset ==
    /\ visits # <<>>
    /\ Update(LatestRow(visits), Reopened(visits[LatestRow(visits)]))

Next ==
    \/ CheckIn
    \/ CheckOut
    \/ \E times \in PayloadTimes : Submit(times)
    \/ Reset

Spec == Init /\ [][Next]_visits

-----------------------------------------------------------------------------
(* Type invariant: every stored row is a well-formed visit.                *)
TypeOK == visits \in Seq(Visit)

\* Only the newest visit can be open.  check_in tests the status of the
\* LATEST visit and then writes the OPEN one: the two queries agree because
\* of this, and a patrol never counts as present twice at one station.
OnlyLatestOpen == \A i \in OpenRows(visits) : i = LatestRow(visits)

\* A completed visit leaves that status by a reset and by nothing else: no
\* check-in or check-out walks a scored station back.
CompletedUntilReset ==
    [][\A i \in DOMAIN visits :
          visits[i].status = "completed" /\ visits'[i].status # "completed"
             => Reset]_visits

\* Visits before the newest are history: no handler writes them again.
HistoryFrozen ==
    [][\A i \in DOMAIN visits :
          i < LatestRow(visits) => visits'[i] = visits[i]]_visits

=============================================================================
