----------------------------- MODULE ReportsPage -----------------------------
(***************************************************************************)
(* The page that lists the compiled reports of the event (Reports.jsx), on *)
(* top of the reports themselves.  It polls while its list has a report    *)
(* that is being generated, and loads the list after every request of its  *)
(* own.  Loads are not cancelled: they are answered in any order, fail, or *)
(* belong to an event that was left.                                       *)
(*                                                                         *)
(* No process stops here and no statement fails; loads may fail on their   *)
(* way.  A request that is refused changes nothing on the page but the     *)
(* message it shows.                                                       *)
(***************************************************************************)
EXTENDS CompiledReports

CONSTANTS
    Elsewhere,     \* the reports of the other event
    Load,          \* loads of the poll, the button and the event's choice
    Mine,          \* the DELETE requests of this page
    Post           \* its POST request

ASSUME ReportsPageAssumption ==
    Elsewhere \subseteq Report /\ Mine \subseteq Deleter /\ Post \notin Load \cup Mine

VARIABLES
    screen,        \* the state of the page
    lists,         \* its loads, each at most once in flight
    doubt          \* history: the event was chosen with requests in flight, or a
                   \* load has failed since

screenVars == <<screen, lists, doubt>>
reportsPageVars == <<reportsVars, screenVars>>

Event == {"own", "other"}
EventOf(r) == IF r \in Elsewhere THEN "other" ELSE "own"

\* A POST or DELETE of the page ("call") ends with a load of the event that
\* was shown when its button was pressed.
Call == Mine \cup {Post}
Request == Load \cup Call

Shown == {"absent", "generating", "ready", "failed"}
NoRows == [r \in Report |-> "absent"]
Idle == [phase |-> "idle", of |-> "own", rows |-> NoRows]

\* list_reports.
RowsOf(e) ==
    [r \in Report |-> IF EventOf(r) = e /\ Listed(r) THEN row[r].status ELSE "absent"]

Resting == \A k \in Request : lists[k] = Idle

Sent(k, e) == lists' = [lists EXCEPT ![k] = [Idle EXCEPT !.phase = "sent", !.of = e]]

\* The page is opened for the event.
ReportsPageInit ==
    /\ ReportsInit
    /\ screen = [event |-> "own", list |-> NoRows, about |-> "own", loading |-> TRUE,
                 posting |-> {}]
    /\ \E first \in Load :
          lists = [k \in Request |-> IF k = first THEN [Idle EXCEPT !.phase = "sent"] ELSE Idle]
    /\ doubt = FALSE

-----------------------------------------------------------------------------
(* Loading the list.                                                       *)

ChooseEventUnloaded(e) ==
    /\ screen.event # e
    /\ screen' = [screen EXCEPT !.event = e]
    /\ doubt' = ~Resting
    /\ UNCHANGED <<reportsVars, lists>>

\* The list of the event before stays until this one's has arrived.
ChooseEvent(e) ==
    /\ screen.event # e
    /\ screen' = [screen EXCEPT !.event = e]
    /\ \E k \in Load : lists[k] = Idle /\ Sent(k, e)
    /\ doubt' = ~Resting
    /\ UNCHANGED reportsVars

ClearEvent ==
    /\ screen.event # "none"
    /\ screen' = [screen EXCEPT !.event = "none", !.list = NoRows, !.about = "none",
                                !.loading = FALSE]
    /\ UNCHANGED <<reportsVars, lists, doubt>>

PollingOwn ==
    /\ screen.event = screen.about /\ screen.event # "none"
    /\ \E r \in Report : screen.list[r] = "generating"

\* The interval runs as long as this holds; a failed load does not end it.
Polling == screen.event # "none" /\ \E r \in Report : screen.list[r] = "generating"

Poll(k) ==
    /\ Polling /\ lists[k] = Idle
    /\ Sent(k, screen.event)
    /\ UNCHANGED <<reportsVars, screen, doubt>>

Refresh(k) ==
    /\ screen.event # "none" /\ ~screen.loading /\ lists[k] = Idle
    /\ Sent(k, screen.event)
    /\ UNCHANGED <<reportsVars, screen, doubt>>

ReadList(k) ==
    /\ lists[k].phase = "sent"
    /\ lists' = [lists EXCEPT ![k].phase = "read", ![k].rows = RowsOf(lists[k].of)]
    /\ UNCHANGED <<reportsVars, screen, doubt>>

\* The button "Generate" is released at the end of the load after its POST.
Loaded(k, s) ==
    /\ screen' = [s EXCEPT !.loading = FALSE]
    /\ lists' = [lists EXCEPT ![k] = Idle]
    /\ UNCHANGED reportsVars

ListArrives(k) ==
    /\ lists[k].phase = "read"
    /\ Loaded(k, [screen EXCEPT !.list = lists[k].rows, !.about = lists[k].of])
    /\ UNCHANGED doubt

ListFails(k) ==
    /\ lists[k].phase \in {"sent", "read"}
    /\ Loaded(k, screen)
    /\ doubt' = TRUE

-----------------------------------------------------------------------------
(* Requests.                                                               *)

Calls(k) ==
    /\ screen.event # "none" /\ lists[k] = Idle
    /\ lists' = [lists EXCEPT ![k].phase = "call", ![k].of = screen.event]

\* handleGenerateCompiledReport: the POST inserts the row ...
Generate(r) ==
    /\ Calls(Post) /\ screen.event = EventOf(r)
    /\ InsertJob(r)
    /\ screen' = [screen EXCEPT !.posting = {r}]
    /\ UNCHANGED doubt

\* ... and is answered when the task has been started.
PostAnswered(r) ==
    /\ r \in screen.posting
    /\ StartTask(r)
    /\ screen' = [screen EXCEPT !.posting = {}]
    /\ Sent(Post, lists[Post].of)
    /\ UNCHANGED doubt

\* handleDeleteCompiledReport: every row of the list has the button.
PressDelete(d, r) ==
    /\ screen.list[r] # "absent"
    /\ Calls(d)
    /\ \E i \in Instance : ReadRow(d, r, i)
    /\ UNCHANGED <<screen, doubt>>

DeleteAnswered(d) ==
    /\ DeleteRow(d)
    /\ Sent(d, lists[d].of)
    /\ UNCHANGED <<screen, doubt>>

-----------------------------------------------------------------------------

\* The tasks, and the requests of colleagues.
OthersStep ==
    /\ \/ \E r \in Report :
             \/ InsertJob(r)
             \/ r \notin screen.posting /\ StartTask(r)
             \/ Upload(r) \/ GenerateFails(r) \/ MarkReady(r) \/ MarkFailed(r)
       \/ \E d \in Deleter : DeleteFile(d)
       \/ \E d \in Deleter \ Mine :
             \/ \E r \in Report, i \in Instance : ReadRow(d, r, i)
             \/ DeleteRow(d)
    /\ UNCHANGED screenVars

ReportsPageNext ==
    \/ \E e \in Event : ChooseEvent(e)
    \/ ClearEvent
    \/ \E k \in Load : Poll(k) \/ Refresh(k)
    \/ \E k \in Request : ReadList(k) \/ ListArrives(k) \/ ListFails(k)
    \/ \E r \in Report : Generate(r) \/ PostAnswered(r) \/ (\E d \in Mine : PressDelete(d, r))
    \/ \E d \in Mine : DeleteAnswered(d)
    \/ OthersStep

ReportsPageSpec == ReportsPageInit /\ [][ReportsPageNext]_reportsPageVars

\* The event loop runs every task; the browser's interval fires; a load that is
\* tried again and again gets through in the end.
FairPageSpec ==
    /\ ReportsPageSpec
    /\ \A r \in Report : WF_reportsVars(TaskStep(r))
    /\ WF_reportsPageVars(\E k \in Load : Poll(k))
    /\ SF_reportsPageVars(\E k \in Request : ReadList(k))
    /\ SF_reportsPageVars(\E k \in Request : ListArrives(k))

-----------------------------------------------------------------------------
ReportsPageTypeOK ==
    /\ ReportsTypeOK
    /\ screen \in [event : Event \cup {"none"}, list : [Report -> Shown],
                   about : Event \cup {"none"}, loading : BOOLEAN, posting : SUBSET Report]
    /\ lists \in [Request -> [phase : {"idle", "call", "sent", "read"}, of : Event,
                              rows : [Report -> Shown]]]
    /\ doubt \in BOOLEAN

\* A page at rest lists the reports of the event it shows, although the list of
\* the event before stays until another arrives and no load is cancelled; unless
\* the event was chosen with requests in flight, or a load has failed since.
ListIsOfEvent ==
    Resting /\ ~doubt => screen.event \in {screen.about, "none"}

\* What the page shows as being generated does not stay so, with the page open:
\* it polls, though loads fail and are answered out of order.
ShownEnds ==
    \A r \in Report :
        (screen.event # "none" /\ screen.list[r] = "generating")
            ~> (screen.event = "none" \/ screen.list[r] # "generating")

=============================================================================
