-------------------------- MODULE ScoringPage_proofs --------------------------
(***************************************************************************)
(* Proofs about ScoringPage, for any number of patrols and tasks: what is  *)
(* sent is settled, and a patrol gets another one's answers only after a   *)
(* correction opened in haste.                                             *)
(***************************************************************************)
EXTENDS ScoringPage, TLAPS

(***************************************************************************)
(* The actions that fill in the form are all Fill(t, a): one case instead  *)
(* of nine in the proofs below.                                            *)
(***************************************************************************)
LEMMA FillSteps ==
    ASSUME NEW t \in StationTask,
           \/ StartTimer(t) \/ StopTimer(t) \/ TypeTimes(t) \/ ApplyAdjusted(t)
           \/ TickWithoutReason(t) \/ SettleBox(t)
           \/ PassOrFail(t) \/ EnterValue(t) \/ EmptyValue(t)
    PROVE  \E a \in Answer : Fill(t, a)
  BY DEF StartTimer, StopTimer, TypeTimes, ApplyAdjusted, TickWithoutReason,
         SettleBox, PassOrFail, EnterValue, EmptyValue, Answer

\* The steps that leave the form alone, and the record too.
PageStep ==
    \/ (\E p \in Patrol : Select(p)) \/ Deselect \/ RowsArrive \/ RowsFail
    \/ StartCorrection

-----------------------------------------------------------------------------
(* Types.                                                                  *)

LEMMA RowsTyped ==
    NoRows \in SavedRows /\ BlankForm \in Form /\ FreshPage \in Page /\ NoPost \in Post
  BY DEF NoRows, SavedRows, BlankForm, Form, FreshPage, Page, NoPost, Post, Answer

\* The rows that are fetched are those of some patrol.
Fetching == page.fetch => page.sel # Nobody

LEMMA FetchingStep == ScoringTypeOK /\ Fetching /\ [ScoringNext]_scoringVars => Fetching'
  <1> SUFFICES ASSUME ScoringTypeOK, Fetching, [ScoringNext]_scoringVars PROVE Fetching'
    OBVIOUS
  <1> USE DEF Fetching
  <1>1. CASE UNCHANGED page
    BY <1>1
  <1>2. ASSUME NEW p \in Patrol, Select(p) PROVE Fetching'
    BY <1>2, TasksAssumption DEF Select, ScoringTypeOK, Page
  <1>3. CASE Deselect \/ RowsArrive \/ RowsFail \/ StartScoring \/ StartCorrection
             \/ CorrectionOpens \/ CancelCorrection
    BY <1>3 DEF Deselect, RowsArrive, RowsFail, StartScoring, StartCorrection,
                CorrectionOpens, CancelCorrection, OnPage, ScoringTypeOK, Page
  <1>4. CASE Submitted \/ Reload
    <2>1. ~FreshPage.fetch /\ FreshPage \in Page
      BY RowsTyped DEF FreshPage
    <2> QED  BY <1>4, <2>1 DEF Submitted, Reload, Page
  <1>5. ASSUME NEW t \in StationTask, NEW a \in Answer, Fill(t, a) PROVE UNCHANGED page
    BY <1>5 DEF Fill, OnForm
  <1>6. CASE StopActivity \/ (\E on \in BOOLEAN : TypeTime(on)) \/ Review \/ BackToEdit
             \/ Confirm \/ SubmissionFails
    BY <1>1, <1>6 DEF StopActivity, TypeTime, Review, BackToEdit, Confirm, SubmissionFails, OnForm
  <1>7. CASE UNCHANGED scoringVars
    BY <1>1, <1>7 DEF scoringVars
  <1>8. ASSUME NEW t \in StationTask, ClearValue(t) PROVE UNCHANGED page
    BY <1>8 DEF ClearValue, OnForm
  <1> QED
    BY <1>1, <1>2, <1>3, <1>4, <1>5, <1>6, <1>7, <1>8, FillSteps DEF ScoringNext

LEMMA TypeStep == ScoringTypeOK /\ Fetching /\ [ScoringNext]_scoringVars => ScoringTypeOK'
  <1> SUFFICES ASSUME ScoringTypeOK, Fetching, [ScoringNext]_scoringVars PROVE ScoringTypeOK'
    OBVIOUS
  <1> USE RowsTyped
  <1> USE DEF ScoringTypeOK
  <1>1. CASE PageStep
    <2>1. ASSUME NEW p \in Patrol, Select(p) PROVE ScoringTypeOK'
      BY <2>1 DEF Select, Page
    <2>2. CASE Deselect \/ RowsFail \/ StartCorrection
      BY <2>2 DEF Deselect, RowsFail, StartCorrection, OnPage, Page
    <2>3. CASE RowsArrive
      BY <2>3 DEF RowsArrive, OnPage, Page, Fetching
    <2> QED  BY <1>1, <2>1, <2>2, <2>3 DEF PageStep
  <1>2. CASE StartScoring
    BY <1>2 DEF StartScoring, Page
  <1>3. CASE CorrectionOpens
    <2>1. Prefilled(page.held) \in Form
      BY DEF Prefilled, BlankForm, Form, Page, Answer
    <2> QED  BY <1>3, <2>1 DEF CorrectionOpens, Page
  <1>4. ASSUME NEW t \in StationTask, NEW a \in Answer, Fill(t, a) PROVE ScoringTypeOK'
    <2>1. [form EXCEPT !.ans[t] = a, !.of[t] = page.sel] \in Form
      BY DEF Form, Page, SavedRows
    <2> QED  BY <1>4, <2>1 DEF Fill, OnForm
  <1>5. ASSUME NEW t \in StationTask, ClearValue(t) PROVE ScoringTypeOK'
    <2>1. [form EXCEPT !.ans[t] = "blank", !.of[t] = Nobody] \in Form
      BY DEF Form, SavedRows, Answer
    <2> QED  BY <1>5, <2>1 DEF ClearValue, OnForm
  <1>6. CASE StopActivity \/ (\E on \in BOOLEAN : TypeTime(on)) \/ Review \/ BackToEdit
    BY <1>6 DEF StopActivity, TypeTime, Review, BackToEdit, OnForm, Form
  <1>7. CASE CancelCorrection
    BY <1>7 DEF CancelCorrection, Page
  <1>8. CASE Confirm
    <2>1. Submission \in SavedRows
      BY DEF Submission, SavedRows, Page, Form
    <2> QED  BY <1>8, <2>1 DEF Confirm, Form, Page, Post
  <1>9. Record => recorded' \in [Patrol -> SavedRows]
    BY DEF Record, Post
  <1>10. CASE Submitted \/ SubmissionFails \/ Reload
    BY <1>9, <1>10 DEF Submitted, SubmissionFails, Reload, FreshPage, Page, Form
  <1>11. CASE UNCHANGED scoringVars
    BY <1>11 DEF scoringVars
  <1> QED  BY <1>1, <1>2, <1>3, <1>4, <1>5, <1>6, <1>7, <1>8, <1>10, <1>11, FillSteps
              DEF ScoringNext, PageStep

(***************************************************************************)
(* Every page, form, submission and record is well-formed.                 *)
(***************************************************************************)
THEOREM TypeCorrect == ScoringSpec => []ScoringTypeOK
  <1>1. ScoringInit => ScoringTypeOK
    BY RowsTyped DEF ScoringInit, ScoringTypeOK
  <1>2. ScoringInit => Fetching
    BY DEF ScoringInit, Fetching, FreshPage
  <1> QED  BY <1>1, <1>2, TypeStep, FetchingStep, PTL DEF ScoringSpec

-----------------------------------------------------------------------------
(* What is sent is settled.                                                *)

Unsettled == Running \cup WithoutReason \cup Blank

\* A form under review is settled, and only such a form is sent.  The review
\* covers the form: nothing can be filled in behind it.
SentInv ==
    /\ form.sending => form.review
    /\ form.review => Unsettled = {}

LEMMA SentStep == ScoringTypeOK /\ SentInv /\ [ScoringNext]_scoringVars => SentInv'
  <1> SUFFICES ASSUME ScoringTypeOK, SentInv, [ScoringNext]_scoringVars PROVE SentInv'
    OBVIOUS
  <1> USE DEF SentInv
  <1>1. CASE UNCHANGED form
    BY <1>1 DEF Unsettled, Running, WithoutReason, Blank
  <1>2. CASE form' = BlankForm
    BY <1>2 DEF BlankForm
  <1>3. CASE form' = Prefilled(page.held)
    <2>1. ~Prefilled(page.held).sending /\ ~Prefilled(page.held).review
      BY DEF Prefilled, BlankForm
    <2> QED  BY <1>3, <2>1
  <1>4. ASSUME NEW t \in StationTask, NEW a \in Answer, NEW w, ~form.review,
               form' = [form EXCEPT !.ans[t] = a, !.of[t] = w]
        PROVE  SentInv'
    BY <1>4 DEF ScoringTypeOK, Form
  <1>5. ASSUME NEW on \in BOOLEAN, ~form.review, form' = [form EXCEPT !.times = on]
        PROVE  SentInv'
    BY <1>5 DEF ScoringTypeOK, Form
  <1>6. CASE Review
    <2>1. form'.ans = form.ans /\ ~form'.sending
      BY <1>6 DEF Review, Reviewable, MayFill, OnForm, ScoringTypeOK, Form
    <2>2. Unsettled' = Unsettled
      BY <2>1 DEF Unsettled, Running, WithoutReason, Blank
    <2>3. Unsettled = {}
      BY <1>6 DEF Review, Reviewable, Missing, Unsettled
    <2> QED  BY <2>1, <2>2, <2>3
  <1>7. CASE BackToEdit
    BY <1>7 DEF BackToEdit, OnForm, ScoringTypeOK, Form
  <1>8. CASE Confirm \/ SubmissionFails
    <2>1. form'.ans = form.ans /\ form'.review = form.review
      BY <1>8 DEF Confirm, SubmissionFails, ScoringTypeOK, Form
    <2>2. Unsettled' = Unsettled
      BY <2>1 DEF Unsettled, Running, WithoutReason, Blank
    <2>3. form'.sending => form.review
      BY <1>8 DEF Confirm, SubmissionFails, ScoringTypeOK, Form
    <2> QED  BY <2>1, <2>2, <2>3
  <1> QED
    <2>1. CASE PageStep
      BY <1>1, <2>1 DEF PageStep, Select, Deselect, RowsArrive, RowsFail, StartCorrection, OnPage
    <2>2. CASE StartScoring \/ CancelCorrection \/ Submitted \/ Reload
      BY <1>2, <2>2 DEF StartScoring, CancelCorrection, Submitted, Reload
    <2>3. CASE CorrectionOpens
      BY <1>3, <2>3 DEF CorrectionOpens
    <2>4. ASSUME NEW t \in StationTask, NEW a \in Answer, Fill(t, a) PROVE SentInv'
      BY <1>4, <2>4 DEF Fill, MayFill, OnForm
    <2>5. ASSUME NEW t \in StationTask, ClearValue(t) PROVE SentInv'
      BY <1>4, <2>5 DEF ClearValue, MayFill, OnForm, Answer
    <2>6. CASE StopActivity \/ (\E on \in BOOLEAN : TypeTime(on))
      BY <1>5, <2>6 DEF StopActivity, TypeTime, MayFill, OnForm
    <2>7. CASE UNCHANGED scoringVars
      BY <1>1, <2>7 DEF scoringVars
    <2> QED  BY <1>6, <1>7, <1>8, <2>1, <2>2, <2>3, <2>4, <2>5, <2>6, <2>7, FillSteps
                DEF ScoringNext, PageStep

(***************************************************************************)
(* What is being stored holds no running timer, no disqualification        *)
(* without a reason and no value that handleInitiateReview calls missing,  *)
(* although timers run on and values are deleted after the station's       *)
(* completion time was set.  An emptied text is a value and may be there.  *)
(***************************************************************************)
THEOREM SentIsSettledHolds == ScoringSpec => []SentIsSettled
  <1>1. ScoringInit => SentInv
    BY DEF ScoringInit, SentInv, BlankForm
  <1>2. SentInv => SentIsSettled
    BY DEF SentInv, SentIsSettled, Unsettled
  <1> QED  BY <1>1, <1>2, SentStep, TypeCorrect, PTL DEF ScoringSpec

-----------------------------------------------------------------------------
(* Whose answers a patrol gets.                                            *)

\* Every answer among rows is p's, or there is none.
Own(rows, p) == \A t \in StationTask : rows[t] \in {p, Nobody}

\* Along the way of an answer from the table to the page, into a correction,
\* the form, the submission and the table again, it stays with its patrol.  The
\* rows on the page are another patrol's only while a fetch is unanswered,
\* and a form that can be reviewed belongs to a page that started scoring.
OwnInv ==
    /\ \A p \in Patrol : Own(recorded[p], p)
    /\ Own(post.rows, post.to)
    /\ ~page.fetch => Own(page.rows, page.sel)
    /\ page.preparing /\ page.sel # Nobody => Own(page.held, page.sel)
    /\ page.started /\ ~page.crashed => Own(form.of, page.sel)
    /\ form.review => page.started /\ ~page.crashed

HasteInv == haste \/ OwnInv

LEMMA HasteStep == ScoringTypeOK /\ Fetching /\ HasteInv /\ [ScoringNext]_scoringVars => HasteInv'
  <1> SUFFICES ASSUME ScoringTypeOK, Fetching, HasteInv, [ScoringNext]_scoringVars, ~haste'
               PROVE  OwnInv'
    BY DEF HasteInv
  <1>1. haste => haste'
    BY DEF ScoringNext, scoringVars, ScoringTypeOK, Select, Deselect, RowsArrive,
           RowsFail, StartScoring, StartCorrection, CorrectionOpens, StartTimer, StopTimer, TypeTimes,
           ApplyAdjusted, TickWithoutReason, SettleBox, PassOrFail, EnterValue, EmptyValue,
           Fill, ClearValue, StopActivity, TypeTime, CancelCorrection, Review, BackToEdit,
           Confirm, Submitted, SubmissionFails, Reload, OnPage, OnForm
  <1>2. OwnInv
    BY <1>1 DEF HasteInv
  <1>3. \A p : Own(NoRows, p)
    BY DEF Own, NoRows
  <1>4. page \in Page /\ form \in Form /\ post \in Post /\ recorded \in [Patrol -> SavedRows]
    BY DEF ScoringTypeOK
  <1>5. FreshPage \in Page /\ BlankForm \in Form /\ NoPost \in Post
    BY RowsTyped
  <1>6. /\ FreshPage.rows = NoRows /\ ~FreshPage.started /\ ~FreshPage.preparing
        /\ FreshPage.sel = Nobody /\ BlankForm.of = NoRows /\ ~BlankForm.review
        /\ NoPost.rows = NoRows /\ ~FreshPage.fetch
    BY DEF FreshPage, BlankForm, NoPost
  <1>7. ASSUME NEW p \in Patrol, Select(p) PROVE OwnInv'
    BY <1>2, <1>4, <1>7, TasksAssumption DEF OwnInv, Select, MaySelect, Page
  <1>8. CASE Deselect
    BY <1>2, <1>3, <1>4, <1>8 DEF OwnInv, Deselect, MaySelect, OnPage, Page
  <1>9. CASE RowsArrive
    BY <1>2, <1>4, <1>9 DEF OwnInv, RowsArrive, OnPage, Page, Fetching
  <1>10. CASE RowsFail
    BY <1>2, <1>3, <1>4, <1>10 DEF OwnInv, RowsFail, OnPage, Page
  <1>11. CASE StartScoring
    BY <1>2, <1>3, <1>4, <1>6, <1>11 DEF OwnInv, StartScoring, Page
  <1>12. CASE StartCorrection
    BY <1>2, <1>4, <1>12 DEF OwnInv, StartCorrection, PanelShown, Page
  <1>13. CASE CorrectionOpens
    <2>1. Prefilled(page.held).of = page.held /\ ~Prefilled(page.held).review
      BY <1>5 DEF Prefilled, BlankForm, Form
    <2>2. form' = Prefilled(page.held) /\ UNCHANGED <<recorded, post>>
      BY <1>13 DEF CorrectionOpens
    <2>3. /\ page'.sel = page.sel /\ page'.fetch = page.fetch /\ page'.rows = page.rows
          /\ ~page'.preparing /\ page'.crashed = (page.sel = Nobody) /\ page.preparing
      BY <1>4, <1>13 DEF CorrectionOpens, Page
    <2> QED  BY <1>2, <2>1, <2>2, <2>3 DEF OwnInv
  <1>14. ASSUME NEW t \in StationTask, NEW a \in Answer, NEW w \in {page.sel, Nobody}, MayFill,
                OnForm([form EXCEPT !.ans[t] = a, !.of[t] = w])
         PROVE  OwnInv'
    <2>1. /\ form'.of = [form.of EXCEPT ![t] = w] /\ form'.review = form.review
          /\ form.of \in SavedRows
      BY <1>4, <1>14 DEF OnForm, Form
    <2>2. Own(form.of, page.sel) => Own(form'.of, page.sel)
      BY <2>1 DEF Own, SavedRows
    <2> QED  BY <1>2, <1>14, <2>1, <2>2 DEF OwnInv, OnForm
  <1>15. CASE StopActivity \/ (\E on \in BOOLEAN : TypeTime(on)) \/ Review \/ BackToEdit
    <2>1. /\ form'.of = form.of /\ (form'.review => (form.review \/ MayFill))
          /\ UNCHANGED <<recorded, page, post>>
      BY <1>4, <1>15 DEF StopActivity, TypeTime, Review, Reviewable, BackToEdit, OnForm, Form
    <2> QED  BY <1>2, <2>1 DEF OwnInv, MayFill
  <1>16. CASE CancelCorrection
    BY <1>2, <1>3, <1>4, <1>6, <1>16 DEF OwnInv, CancelCorrection, Page
  <1>17. CASE Confirm
    <2>1. /\ form'.of = form.of /\ form'.review = form.review /\ form.review
          /\ UNCHANGED <<recorded, page>> /\ post' = [to |-> page.sel, rows |-> Submission]
      BY <1>4, <1>17 DEF Confirm, Form
    <2>2. Own(Submission, page.sel)
      BY <1>2, <2>1 DEF OwnInv, Own, Submission
    <2> QED  BY <1>2, <2>1, <2>2 DEF OwnInv
  <1>18. ASSUME Record PROVE \A p \in Patrol : Own(recorded'[p], p)
    BY <1>2, <1>4, <1>18 DEF Record, OwnInv
  <1>19. CASE Submitted
    <2>1. /\ page'.sel = Nobody /\ ~page'.fetch /\ page'.rows = NoRows /\ ~page'.started
      BY <1>4, <1>5, <1>6, <1>19 DEF Submitted, Page
    <2>2. form' = BlankForm /\ post' = NoPost /\ Record
      BY <1>19 DEF Submitted
    <2> QED  BY <1>3, <1>6, <1>18, <2>1, <2>2 DEF OwnInv
  <1>20. CASE SubmissionFails
    <2>1. /\ form'.of = form.of /\ form'.review = form.review /\ post' = NoPost
          /\ UNCHANGED page /\ (Record \/ UNCHANGED recorded)
      BY <1>4, <1>20 DEF SubmissionFails, Form
    <2> QED  BY <1>2, <1>3, <1>6, <1>18, <2>1 DEF OwnInv
  <1>21. CASE Reload
    <2>1. /\ page' = FreshPage /\ form' = BlankForm /\ post' = NoPost
          /\ (Record \/ UNCHANGED recorded)
      BY <1>21 DEF Reload
    <2> QED  BY <1>2, <1>3, <1>6, <1>18, <2>1 DEF OwnInv
  <1>22. CASE UNCHANGED scoringVars
    BY <1>2, <1>22 DEF OwnInv, scoringVars
  <1>23. ASSUME NEW t \in StationTask, NEW a \in Answer, Fill(t, a) PROVE OwnInv'
    BY <1>14, <1>23 DEF Fill
  <1>24. ASSUME NEW t \in StationTask, ClearValue(t) PROVE OwnInv'
    BY <1>14, <1>24 DEF ClearValue, Answer
  <1> QED
    BY <1>7, <1>8, <1>9, <1>10, <1>11, <1>12, <1>13, <1>15, <1>16, <1>17, <1>19, <1>20,
       <1>21, <1>22, <1>23, <1>24, FillSteps DEF ScoringNext

(***************************************************************************)
(* A patrol has another patrol's answers only after a correction was       *)
(* opened before the rows of its patrol had arrived, or with the patrol    *)
(* changed while the form was being prepared (Scoring.jsx, prefill.js).    *)
(***************************************************************************)
THEOREM ForeignAnswersNeedHasteHolds == ScoringSpec => []ForeignAnswersNeedHaste
  <1>1. ScoringInit => HasteInv
    BY DEF ScoringInit, HasteInv, OwnInv, Own, FreshPage, BlankForm, NoPost, NoRows
  <1>2. ScoringInit => ScoringTypeOK
    BY RowsTyped DEF ScoringInit, ScoringTypeOK
  <1>3. ScoringInit => Fetching
    BY DEF ScoringInit, Fetching, FreshPage
  <1>4. HasteInv => ForeignAnswersNeedHaste
    BY DEF HasteInv, OwnInv, Own, ForeignAnswersNeedHaste
  <1> QED  BY <1>1, <1>2, <1>3, <1>4, TypeStep, FetchingStep, HasteStep, PTL DEF ScoringSpec

=============================================================================
