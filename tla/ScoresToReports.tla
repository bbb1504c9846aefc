--------------------------- MODULE ScoresToReports ---------------------------
(***************************************************************************)
(* The way of a station's scores: the scorer's page (ScoringPage), the     *)
(* handlers that record what it sends (ScoreRequests), and the reports     *)
(* that are compiled of the records (CompiledReports).  The page takes a   *)
(* submission as one step and a report takes the scores as they are, so a  *)
(* behaviour is one of one part and the others stay as they are at first.  *)
(***************************************************************************)
EXTENDS ScoreRequests, ScoringPage, CompiledReports

VARIABLE part

scoresVars == <<part, vars, scoringVars, reportsVars>>

\* The choices of a part that is not the one of the behaviour are fixed.
ScoresInit ==
    /\ part \in {"page", "handlers", "reports"}
    /\ Init /\ ScoringInit /\ ReportsInit
    /\ part # "reports" =>
          LET i == CHOOSE i \in Instance : TRUE
              r == CHOOSE r \in Report : TRUE
          IN  /\ \A q \in Report : task[q].at = i
              /\ \A d \in Deleter : delete[d].report = r /\ delete[d].at = i

ScoresNext ==
    \/ part = "page" /\ ScoringNext /\ UNCHANGED <<part, vars, reportsVars>>
    \/ part = "handlers" /\ Next /\ UNCHANGED <<part, scoringVars, reportsVars>>
    \/ part = "reports" /\ ReportsNext /\ UNCHANGED <<part, vars, scoringVars>>

ScoresSpec == ScoresInit /\ [][ScoresNext]_scoresVars

=============================================================================
