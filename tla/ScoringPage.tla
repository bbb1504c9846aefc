----------------------------- MODULE ScoringPage -----------------------------
(***************************************************************************)
(* The scoring page of one station (Scoring.jsx, ScoreForm.jsx, prefill.js) *)
(* for a scorer who goes from patrol to patrol.  POST /v1/scores is one    *)
(* step here; ScoreRequests takes it apart.                                *)
(*                                                                         *)
(* An answer is abstracted to the patrol it was entered for: what can go   *)
(* wrong on this page is that a patrol gets the answers of another one.    *)
(* The saved rows of a patrol are fetched when it is selected, and those   *)
(* of the patrol before stay on the page until the fetch is answered.      *)
(***************************************************************************)
EXTENDS Naturals, FiniteSets

CONSTANTS
    Patrol,
    Timed,       \* Stopwatch and Timed Challenge tasks of the station
    Optional,    \* Pass / Fail, Completed and Checkpoint tasks
    Plain,       \* the other tasks, of one value
    Divided,     \* those of Plain that are RangeRated and divide by patrol size
    Loose,       \* those of Plain that are neither RangeRated, DeltaTime nor
                 \* multiple choice: texts, challenges and untyped numbers
    Disqualify,  \* the disqualification task: a set of at most one
    Nobody

ASSUME TasksAssumption ==
    /\ Nobody \notin Patrol
    /\ Divided \subseteq Plain /\ Loose \subseteq Plain /\ Divided \cap Loose = {}
    /\ Cardinality(Disqualify) \in {0, 1}

VARIABLES
    recorded,    \* whose answer is the active score of each patrol and task
    page,        \* what the page shows
    form,        \* the open ScoreForm
    post,        \* the submission on its way to the server
    haste        \* history: a correction was opened from rows that were not
                 \* those of the patrol it is for

scoringVars == <<recorded, page, form, post, haste>>

StationTask == Timed \cup Optional \cup Plain \cup Disqualify
SavedRows == [StationTask -> Patrol \cup {Nobody}]
NoRows == [t \in StationTask |-> Nobody]

\* What a task's field holds; "blank": nothing, or an emptied number that has
\* to be one; "empty": an emptied text, which is a value; "open": a running
\* timer, or a disqualification still without its reason.
Answer == {"blank", "empty", "open", "ready"}

\* fetch: the scores request of the newest selection is unanswered.  held
\* holds the rows a correction is being prepared from, while preparing.
Page ==
    [sel : Patrol \cup {Nobody}, fetch : BOOLEAN, scored : BOOLEAN,
     rows : SavedRows, preparing : BOOLEAN, held : SavedRows, started : BOOLEAN,
     crashed : BOOLEAN]

Form ==
    [ans : [StationTask -> Answer], of : SavedRows, times : BOOLEAN, edit : BOOLEAN,
     review : BOOLEAN, sending : BOOLEAN]

Post == [to : Patrol \cup {Nobody}, rows : SavedRows]
NoPost == [to |-> Nobody, rows |-> NoRows]

BlankForm ==
    [ans |-> [t \in StationTask |-> "blank"], of |-> NoRows, times |-> FALSE,
     edit |-> FALSE, review |-> FALSE, sending |-> FALSE]

FreshPage ==
    [sel |-> Nobody, fetch |-> FALSE, scored |-> FALSE, rows |-> NoRows,
     preparing |-> FALSE, held |-> NoRows, started |-> FALSE, crashed |-> FALSE]

ScoringInit ==
    /\ recorded = [p \in Patrol |-> NoRows]
    /\ page = FreshPage
    /\ form = BlankForm
    /\ post = NoPost
    /\ haste = FALSE

OnPage(r) == page' = r /\ UNCHANGED <<recorded, form, post, haste>>
OnForm(r) == form' = r /\ UNCHANGED <<recorded, page, post, haste>>

-----------------------------------------------------------------------------
(* Selecting a patrol.                                                     *)

\* The selectors are on the page until scoring has started, also while a
\* correction is being prepared.
MaySelect == ~page.crashed /\ ~page.started

\* handlePatrolSelection, and the effect that asks for the saved rows: the
\* answer to an earlier selection is dropped, its rows are not.
Select(p) ==
    /\ MaySelect /\ p # page.sel
    /\ page' = [page EXCEPT !.sel = p, !.fetch = TRUE]
    /\ haste' = (haste \/ page.preparing)
    /\ UNCHANGED <<recorded, form, post>>

\* Without a patrol the effect forgets the rows at once.
Deselect ==
    /\ MaySelect /\ page.sel # Nobody
    /\ OnPage([page EXCEPT !.sel = Nobody, !.fetch = FALSE,
                           !.scored = FALSE, !.rows = NoRows])

RowsArriveLate ==
    /\ \E p \in Patrol :
          OnPage([page EXCEPT !.fetch = FALSE, !.rows = recorded[p],
                              !.scored = recorded[p] # NoRows])
    /\ page.fetch

RowsArrive ==
    /\ page.fetch
    /\ OnPage([page EXCEPT !.fetch = FALSE, !.rows = recorded[page.sel],
                           !.scored = recorded[page.sel] # NoRows])

RowsFail ==
    /\ page.fetch
    /\ OnPage([page EXCEPT !.fetch = FALSE, !.rows = NoRows, !.scored = FALSE])

-----------------------------------------------------------------------------
(* Opening the form.                                                       *)

\* The panel under the selectors: one button, named by isAlreadyScored.
PanelShown == ~page.crashed /\ page.sel # Nobody /\ ~page.started

\* startScoring of a patrol that shows as not scored, which a correction being
\* prepared does not prevent.
StartScoring ==
    /\ PanelShown /\ ~page.scored
    /\ page' = [page EXCEPT !.started = TRUE]
    /\ form' = BlankForm
    /\ UNCHANGED <<recorded, post, haste>>

\* startScoring of a patrol that shows as scored: the rows on the page are
\* kept while the station report is asked for the judge's comment.
StartCorrection ==
    /\ PanelShown /\ page.scored /\ ~page.preparing
    /\ page' = [page EXCEPT !.preparing = TRUE, !.held = page.rows]
    /\ haste' = (haste \/ page.fetch)
    /\ UNCHANGED <<recorded, form, post>>

\* buildCorrectionValues: a task with no saved row opens blank; the times
\* are those of the first row.  (A text saved empty opens empty, a number as
\* the zero it was recorded as; the review lets both through like any value.)
Prefilled(rows) ==
    [BlankForm EXCEPT
        !.ans   = [t \in StationTask |-> IF rows[t] = Nobody THEN "blank" ELSE "ready"],
        !.of    = rows,
        !.times = rows # NoRows,
        !.edit  = TRUE]

\* The report arrives or fails; the form opens for whatever patrol is
\* selected NOW, in place of a blank one that was opened meanwhile.  With none
\* selected the page reads a name of null.
CorrectionOpens ==
    /\ page.preparing
    /\ page' = [page EXCEPT !.preparing = FALSE, !.held = NoRows,
                            !.started = TRUE, !.crashed = (page.sel = Nobody)]
    /\ form' = Prefilled(page.held)
    /\ UNCHANGED <<recorded, post, haste>>

-----------------------------------------------------------------------------
(* Filling the form.  The review dialog covers it.                         *)

MayFill == page.started /\ ~page.crashed /\ ~form.review

\* updateScore: the answer is the selected patrol's.
Fill(t, a) == MayFill /\ OnForm([form EXCEPT !.ans[t] = a, !.of[t] = page.sel])

\* startTimer; while it runs, every frame stores a running answer.
StartTimer(t) == t \in Timed /\ form.ans[t] # "open" /\ Fill(t, "open")

StopTimer(t) == t \in Timed /\ form.ans[t] = "open" /\ Fill(t, "ready")

\* applyClockTimes with both clock times typed.
TypeTimes(t) == t \in Timed /\ form.ans[t] # "open" /\ Fill(t, "ready")

\* applyManual, offered once the timer has run or a saved run was filled in.
ApplyAdjusted(t) == t \in Timed /\ form.ans[t] = "ready" /\ Fill(t, "ready")

\* The box is ticked in a confirmed dialog, or the reason erased.
TickWithoutReason(t) == t \in Disqualify /\ Fill(t, "open")

\* The reason is given, or the box cleared.
SettleBox(t) == t \in Disqualify /\ form.ans[t] = "open" /\ Fill(t, "ready")

PassOrFail(t) == t \in Optional /\ Fill(t, "ready")

EnterValue(t) == t \in Plain /\ Fill(t, "ready")

\* Where any value will do, its input is emptied; or, of a value that is divided,
\* only the number of members is entered.
EmptyValue(t) == t \in Loose /\ Fill(t, "empty")

\* Elsewhere the number is deleted, the choice unselected.
ClearValue(t) ==
    /\ MayFill /\ t \in Plain \ Loose
    /\ OnForm([form EXCEPT !.ans[t] = "blank", !.of[t] = Nobody])

Running == {t \in Timed : form.ans[t] = "open"}

\* The second of the station's two times, start and completion, is set with a
\* button; checkAndStopStationTimer refuses while a timer runs.
StopActivity ==
    MayFill /\ Running = {} /\ ~form.times /\ OnForm([form EXCEPT !.times = TRUE])

\* Or it is typed, or deleted, timer or not.
TypeTime(on) == MayFill /\ form.times # on /\ OnForm([form EXCEPT !.times = on])

\* cancelCorrection.
CancelCorrection ==
    /\ MayFill /\ form.edit
    /\ page' = [page EXCEPT !.started = FALSE]
    /\ form' = BlankForm
    /\ UNCHANGED <<recorded, post, haste>>

-----------------------------------------------------------------------------
(* Review and submission.                                                  *)

WithoutReason == {t \in Disqualify : form.ans[t] = "open"}
Blank == {t \in Timed \cup Plain : form.ans[t] = "blank"}

\* A RangeRated answer must be a number; one that is divided by the size of
\* the patrol is an object.  Of other values only the absent one is missing.
Missing == Blank \cup Divided

ReviewUnchecked == MayFill /\ form.times

\* handleInitiateReview: each of its checks.
Reviewable ==
    /\ MayFill /\ form.times
    /\ Running = {} /\ WithoutReason = {} /\ Missing = {}

Review == Reviewable /\ OnForm([form EXCEPT !.review = TRUE])

BackToEdit == form.review /\ ~form.sending /\ OnForm([form EXCEPT !.review = FALSE])

\* The submission names every task of the station: an untouched optional
\* one is sent as failed, an untouched disqualification as none.
Submission ==
    [t \in StationTask |-> IF form.ans[t] = "blank" THEN page.sel ELSE form.of[t]]

\* submitScore up to the request.  One submission travels at a time (a bound:
\* a form opened in place of one that is sending could send another).
Confirm ==
    /\ form.review /\ ~form.sending /\ post = NoPost
    /\ form' = [form EXCEPT !.sending = TRUE]
    /\ post' = [to |-> page.sel, rows |-> Submission]
    /\ UNCHANGED <<recorded, page, haste>>

Record == recorded' = [recorded EXCEPT ![post.to] = post.rows]

\* Answered 201.  onScoreSubmitted closes whatever form is open by then and
\* drops the patrol; a correction being prepared goes on.
Submitted ==
    /\ post # NoPost
    /\ Record
    /\ page' = [FreshPage EXCEPT !.preparing = page.preparing, !.held = page.held,
                                 !.crashed = page.crashed]
    /\ form' = BlankForm
    /\ post' = NoPost
    /\ UNCHANGED haste

\* It failed before or after the tasks were recorded (ScoreRequests also has
\* the failures between them): the review stays open, and the scorer may send
\* it again.
SubmissionFails ==
    /\ post # NoPost
    /\ Record \/ UNCHANGED recorded
    /\ form' = [form EXCEPT !.sending = FALSE]
    /\ post' = NoPost
    /\ UNCHANGED <<page, haste>>

\* The scorer reloads a page that crashed, or walks away from it; a request
\* under way may still be served.
Reload ==
    /\ \/ UNCHANGED recorded
       \/ post # NoPost /\ Record
    /\ page' = FreshPage
    /\ form' = BlankForm
    /\ post' = NoPost
    /\ UNCHANGED haste

-----------------------------------------------------------------------------
ScoringNext ==
    \/ \E p \in Patrol : Select(p)
    \/ Deselect \/ RowsArrive \/ RowsFail
    \/ StartScoring \/ StartCorrection \/ CorrectionOpens
    \/ \E t \in StationTask :
          \/ StartTimer(t) \/ StopTimer(t) \/ TypeTimes(t) \/ ApplyAdjusted(t)
          \/ TickWithoutReason(t) \/ SettleBox(t)
          \/ PassOrFail(t) \/ EnterValue(t) \/ EmptyValue(t) \/ ClearValue(t)
    \/ StopActivity \/ (\E on \in BOOLEAN : TypeTime(on))
    \/ CancelCorrection
    \/ Review \/ BackToEdit \/ Confirm \/ Submitted \/ SubmissionFails
    \/ Reload

ScoringSpec == ScoringInit /\ [][ScoringNext]_scoringVars

-----------------------------------------------------------------------------
ScoringTypeOK ==
    /\ recorded \in [Patrol -> SavedRows]
    /\ page \in Page
    /\ form \in Form
    /\ post \in Post
    /\ haste \in BOOLEAN

\* A patrol has another patrol's answers only after a correction was opened
\* in haste: before the rows of its patrol had arrived, or with the patrol
\* changed while the form was being prepared.
ForeignAnswersNeedHaste ==
    haste \/ \A p \in Patrol, t \in StationTask : recorded[p][t] \in {p, Nobody}

\* What is being stored holds no running timer, no disqualification without
\* a reason and no task without a value that needs one, although timers run on
\* and boxes can be ticked after the station's completion time was set.  (An
\* emptied text is a value: see OnlyOptionalUnanswered.)
SentIsSettled == form.sending => Running \cup WithoutReason \cup Blank = {}

Unanswered == {t \in StationTask \ Disqualify : form.ans[t] \in {"blank", "empty"}}

\* "Pass / Fail, Checkpoint and Completed are the ones that reach the modal
\* unanswered: the missing-task check above exempts them" (ScoreForm.jsx).
OnlyOptionalUnanswered == form.review => Unanswered \subseteq Optional

=============================================================================
