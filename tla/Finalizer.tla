------------------------------ MODULE Finalizer ------------------------------
(***************************************************************************)
(* The Finalizer page (Finalizer.jsx) of one organizer over the finalized  *)
(* results of one event, "own", while other organizers save too.           *)
(*                                                                         *)
(* The page computes every result from the stations, patrols and station   *)
(* reports it loaded and from the settings on it (task and station weights,*)
(* overrides, scoring mode).  The settings are abstracted to a Sheet: two  *)
(* sheets give different results.  Loads are not cancelled: one of another *)
(* event may be answered after the event was switched, the buttons are     *)
(* released by whichever ends first, and nothing compares the event the    *)
(* page shows with the one selected.                                       *)
(***************************************************************************)
EXTENDS FinalizedResults, FiniteSets

CONSTANTS
    Organizer,   \* the saver that is the page
    Own,         \* the lines of this event; the others are of another event
    Sheet,
    MaxLoads     \* bound on the loads on their way

ASSUME PageAssumption ==
    /\ Organizer \in Saver /\ Own \subseteq Line /\ MaxLoads \in Nat
    /\ Sheet \cap {"none", "blind", "mixed"} = {}

VARIABLES
    page,
    sheets,      \* history: the sheet each save of log was computed from
    misled,      \* history: a final report was queued that is not of the
                 \* screen, for none of the reasons it may not be
    trouble      \* history: a load failed, lost a station's report, or was
                 \* still on its way when the event was switched

pageVars == <<rows, saving, log, page, sheets, misled, trouble>>

Event == {"own", "other"}

\* What a page finds stored: nothing, the results of a sheet, results computed
\* without some station's report, or a mixture: lines missing, of several
\* saves, or of another event's patrols.
Found == Sheet \cup {"none", "blind", "mixed"}

\* known: the newest save when stored was learned.  goOn: a report is to
\* follow the save.  edited: the page was edited or reloaded since its save was
\* asked for.
PageState ==
    [event : Event, shown : Event \cup {"none"}, sheet : Sheet, blind : BOOLEAN,
     stored : Found, known : Nat, loads : SUBSET [of : Event, stored : Found, known : Nat],
     loading : BOOLEAN, goOn : BOOLEAN, edited : BOOLEAN]

LinesOf(e) == IF e = "own" THEN Own ELSE IF e = "other" THEN Line \ Own ELSE {}

\* The results a page shows: none without patrols and stations.
Screen ==
    IF LinesOf(page.shown) = {} THEN "none"
    ELSE IF page.blind THEN "blind" ELSE page.sheet

\* What is to be made of the results of save k, and of the whole table.
OfSave(k) ==
    IF log[k].lines = {} THEN "none"
    ELSE IF log[k].lines # Own THEN "mixed"
    ELSE sheets[k]

Stored ==
    IF rows = {} THEN "none"
    ELSE IF \E k \in DOMAIN log : rows = {[line |-> l, save |-> k] : l \in Own}
    THEN sheets[(CHOOSE r \in rows : TRUE).save]
    ELSE "mixed"

\* The mismatch banner compares line by line the results that are stored with
\* those on the page.  Of a mixture it may show some or none.
MayMismatch == Screen # "none" /\ page.stored \notin {"none", Screen}
MatchUnchecked == TRUE
MayMatch    == Screen = "none" \/ page.stored \in {"none", "mixed", Screen}

PageInit ==
    /\ Init
    /\ \E s \in Sheet :
          page = [event |-> "own", shown |-> "none", sheet |-> s, blind |-> FALSE,
                  stored |-> "none", known |-> 0,
                  loads |-> {[of |-> "own", stored |-> "none", known |-> 0]},
                  loading |-> TRUE, goOn |-> FALSE, edited |-> FALSE]
    /\ sheets = <<>>
    /\ misled = FALSE
    /\ trouble = FALSE

PageBusy == saving[Organizer] # Idle

OnPage(r) == page' = r /\ UNCHANGED <<rows, saving, log, sheets, misled>>

-----------------------------------------------------------------------------
(* Loading.                                                                *)

\* loadData reads the stored results of the event selected when it starts.
Load(e) ==
    [of |-> e, stored |-> IF e = "own" THEN Stored ELSE "mixed", known |-> Newest]

\* The other event may have none, and a request for them that fails counts as
\* none: .catch(() => []).
Gets(l) == {"none", l.stored}

\* The event context changes; the page keeps what it shows until the answer.
SwitchEvent(e) ==
    /\ e # page.event /\ Cardinality(page.loads) < MaxLoads
    /\ OnPage([page EXCEPT !.event = e, !.loads = @ \cup {Load(e)}, !.loading = TRUE])
    /\ trouble' = (trouble \/ page.loads # {})

\* The one button a save does not disable.
Refresh ==
    /\ ~page.loading /\ Cardinality(page.loads) < MaxLoads
    /\ OnPage([page EXCEPT !.loads = @ \cup {Load(page.event)}, !.loading = TRUE])
    /\ trouble' = (trouble \/ page.loads # {})

\* Stations, patrols, stored results and settings replace those on the page.
\* A station report that fails is taken for one without patrols.
Loaded(l, b) ==
    \E s \in Sheet, f \in Gets(l) :
        OnPage([page EXCEPT !.shown = l.of, !.sheet = s, !.blind = b,
                            !.stored = f, !.known = l.known,
                            !.loads = @ \ {l}, !.loading = FALSE,
                            !.edited = @ \/ PageBusy])

LoadArrives ==
    \E l \in page.loads, b \in BOOLEAN :
        /\ Loaded(l, b)
        /\ trouble' = (trouble \/ b)

\* The page keeps what it had, and its buttons are released all the same.
LoadFails ==
    \E l \in page.loads :
        /\ OnPage([page EXCEPT !.loads = @ \ {l}, !.loading = FALSE])
        /\ trouble' = TRUE

-----------------------------------------------------------------------------
(* Settings: weights, enabled tasks, overrides, participant counts, mode.  *)

\* No box of the tables is ever disabled.
Edited(s) == [page EXCEPT !.sheet = s, !.edited = @ \/ (PageBusy /\ s # page.sheet)]

Edit ==
    /\ \E s \in Sheet : OnPage(Edited(s))
    /\ UNCHANGED trouble

-----------------------------------------------------------------------------
(* Saving and reporting.                                                   *)

MayPressEarly == ~PageBusy /\ page.event = "own"

MayPress == ~PageBusy /\ ~page.loading /\ page.event = "own"

\* saveFinalizedResults: the results of the patrols and stations on the page,
\* for the event selected now.
Send(goOn) ==
    /\ Start(Organizer, LinesOf(page.shown))
    /\ sheets' = Append(sheets, Screen)
    /\ page' = [page EXCEPT !.goOn = goOn, !.edited = FALSE]
    /\ UNCHANGED <<misled, trouble>>

PressSave == MayPress /\ Send(FALSE)

\* handleGenerateReport, final report or spreadsheet: with unsaved changes the
\* organizer is asked to save first, and backs out or agrees.
AskReport == MayPress /\ MayMismatch /\ Send(TRUE)

Overlapped == Newest # 0 /\ log[Newest].flying # {}

\* After a load that failed or was overtaken: the screen is of another event.
Misplaced == trouble /\ page.shown # "own"

\* generateReportJob: the report will be built from what is stored.
Queue(excused) ==
    misled' = (misled \/ (~excused /\ ~Overlapped /\ Screen # Stored))

\* The spreadsheet can be asked for when nothing is stored; the final report
\* has no button then.
GenerateReport ==
    /\ MayPress /\ MayMatch
    /\ Queue(page.stored \in {"none", "mixed"} \/ page.known # Newest \/ Misplaced)
    /\ UNCHANGED <<rows, saving, log, page, sheets, trouble>>

\* Answered: the results sent are now the stored ones, and the final report is
\* queued (a second time, if the save was asked for by a report).
SaveAnswered ==
    /\ Answer(Organizer)
    /\ LET k == saving[Organizer].save IN
          /\ page' = [page EXCEPT !.stored = OfSave(k), !.known = k, !.goOn = FALSE, !.edited = FALSE]
          /\ Queue(page.edited \/ k # Newest \/ Misplaced)
    /\ UNCHANGED <<sheets, trouble>>

\* An error is shown.  A report that waited for the save is queued all the
\* same, which clears the error.
SaveFails ==
    /\ Abort(Organizer)
    /\ page' = [page EXCEPT !.goOn = FALSE, !.edited = FALSE]
    /\ IF page.goOn THEN Queue(TRUE) ELSE UNCHANGED misled
    /\ UNCHANGED <<sheets, trouble>>

PageInsert == Insert(Organizer) /\ UNCHANGED <<page, sheets, misled, trouble>>

-----------------------------------------------------------------------------
\* Another organizer, whose page has loaded the event as it is.
OtherOrganizer(c) ==
    /\ \/ \E s \in Sheet : Start(c, Own) /\ sheets' = Append(sheets, s)
       \/ (Insert(c) \/ Answer(c) \/ Abort(c)) /\ UNCHANGED sheets
    /\ UNCHANGED <<page, misled, trouble>>

FinalizerNext ==
    \/ \E e \in Event : SwitchEvent(e)
    \/ Refresh \/ LoadArrives \/ LoadFails \/ Edit
    \/ PressSave \/ AskReport \/ GenerateReport
    \/ PageInsert \/ SaveAnswered \/ SaveFails
    \/ \E c \in Saver \ {Organizer} : OtherOrganizer(c)

FinalizerSpec == PageInit /\ [][FinalizerNext]_pageVars

-----------------------------------------------------------------------------
\* Every save that was answered "saved" holds a result of each patrol and
\* station of this event, computed from all the reports, and none of another
\* event's, unless a load failed, lost a report or was overtaken.  (With a
\* failed load, the page saves an empty list or another event's results.)
WholeUnlessTrouble ==
    trouble \/ \A k \in DOMAIN log :
        log[k].answered => log[k].lines = Own /\ sheets[k] # "blind"

\* The final report and the spreadsheet are built from the stored results and
\* not from the screen: the two are the same when one is queued, unless
\* somebody saved since the page looked, saves overlapped, the page was edited
\* or loaded anew while its save was under way, the save that the report waited
\* for failed, or the page found nothing or a mixture stored.  With nothing
\* stored the page does not compare; nor does it notice that it still shows
\* another event, which takes a load that failed or was overtaken.
ReportOfScreen == ~misled

=============================================================================
