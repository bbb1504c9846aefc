------------------------------ MODULE EventForms ------------------------------
(***************************************************************************)
(* The page of the event's details (EventManager.jsx) in one tab, with the *)
(* part of EventContext.jsx it works with, a colleague who creates events  *)
(* (EventCreator.jsx) and saves the same, and the handler of an event      *)
(* (transport/events.py, drivers/store/events.py).  An event's details     *)
(* are told apart only by the event they were entered for.  The organizers *)
(* of an event are entered on no page: each save sends back those of the   *)
(* copy it was made from.                                                  *)
(***************************************************************************)
EXTENDS Naturals, FiniteSets, Sequences

CONSTANTS
    Outing,      \* events
    MaxSaves,    \* bound on the saves sent
    MaxPicks,    \* bound on the events picked in the selector
    NoOuting     \* no event selected, or one deleted

ASSUME FormsAssumption ==
    MaxSaves \in Nat /\ MaxPicks \in Nat /\ NoOuting \notin Outing

VARIABLES
    stored,      \* the rows of events and of event_organizers
    context,     \* EventContext: event, loading, error
    sheet,       \* the state of the page
    saves,       \* PUT and DELETE requests in flight
    selects,     \* runs of selectEvent in flight
    budget,      \* saves sent and events picked so far
    history      \* see History

formVars == <<stored, context, sheet, saves, selects, budget, history>>

\* details: the event whose details the row has.  organized: it has organizers.
EventRow == [details : Outing, organized : BOOLEAN]

Context == [shown : Outing \cup {NoOuting}, organized : BOOLEAN, loading : BOOLEAN,
            error : BOOLEAN]

Sheet == [details : Outing \cup {NoOuting}, saving : BOOLEAN, deleting : BOOLEAN]

\* The statements left of a request, and what it writes.  n tells apart
\* requests that are otherwise the same.
Save == [by : {"page", "colleague"}, of : Outing, details : Outing, organized : BOOLEAN,
         todo : Seq({"row", "clear", "add", "delete"}), n : 0..MaxSaves]

\* after: selectEvent was called at the end of a save.
Reselection == [of : Outing, after : BOOLEAN, n : 0..(MaxSaves + MaxPicks)]

\* stranded: selecting the saved event again failed with another one shown.
\* readDuring: an event was read while a save of it was in flight.
\* cut: a save failed.  unused: ids never given out.  bare: events created
\* without organizers.
History == [stranded : BOOLEAN, readDuring : BOOLEAN, cut : BOOLEAN,
            unused : SUBSET Outing, bare : SUBSET Outing]

FormsInit ==
    /\ stored \in {[e \in Outing |-> IF e \in held THEN [details |-> e, organized |-> TRUE]
                                      ELSE NoOuting] : held \in SUBSET Outing}
    /\ context = [shown |-> NoOuting, organized |-> FALSE, loading |-> FALSE, error |-> FALSE]
    /\ sheet = [details |-> NoOuting, saving |-> FALSE, deleting |-> FALSE]
    /\ saves = {}
    /\ selects = {}
    /\ budget = [saves |-> 0, picks |-> 0]
    /\ history = [stranded |-> FALSE, readDuring |-> FALSE, cut |-> FALSE,
                  unused |-> {e \in Outing : stored[e] = NoOuting}, bare |-> {}]

EventExists(e) == stored[e] # NoOuting
SavingOf(e) == \E s \in saves : s.of = e

-----------------------------------------------------------------------------
(* Selecting an event.  Any number of runs may be in flight.               *)

\* selectEvent up to its request.
SelectEvent(e, after) ==
    /\ selects' = selects \cup {[of |-> e, after |-> after, n |-> budget.saves + budget.picks]}
    /\ context' = [context EXCEPT !.loading = TRUE, !.error = FALSE]

PickEvent(e) ==
    /\ budget.picks < MaxPicks
    /\ SelectEvent(e, FALSE)
    /\ budget' = [budget EXCEPT !.picks = @ + 1]
    /\ UNCHANGED <<stored, sheet, saves, history>>

\* Mutant: the form is filled once and kept when the event changes.
EnteredOnce(f, e) == [f EXCEPT !.details = IF @ = NoOuting THEN stored[e].details ELSE @]

\* The effect of the page fills the form with the details of the event.
Entered(f, e) == [f EXCEPT !.details = stored[e].details]

SelectAnswers(r) ==
    /\ EventExists(r.of)
    /\ selects' = selects \ {r}
    /\ context' = [context EXCEPT !.shown = r.of, !.organized = stored[r.of].organized,
                                  !.loading = FALSE]
    /\ sheet' = [Entered(sheet, r.of) EXCEPT !.saving = @ /\ ~r.after]
    /\ history' = [history EXCEPT !.readDuring = @ \/ SavingOf(r.of)]
    /\ UNCHANGED <<stored, saves, budget>>

SelectFails(r) ==
    /\ selects' = selects \ {r}
    /\ context' = [context EXCEPT !.loading = FALSE, !.error = TRUE]
    /\ sheet' = [sheet EXCEPT !.saving = @ /\ ~r.after]
    /\ history' = [history EXCEPT !.stranded = @ \/ (r.after /\ context.shown # r.of)]
    /\ UNCHANGED <<stored, saves, budget>>

\* openEventSelector takes the error away, whatever is chosen then.
OpenEventSelector ==
    /\ context.error
    /\ context' = [context EXCEPT !.error = FALSE]
    /\ UNCHANGED <<stored, sheet, saves, selects, budget, history>>

-----------------------------------------------------------------------------
(* The page.                                                               *)

\* The form is on the screen and its buttons are enabled.
FormUsable ==
    /\ context.shown # NoOuting /\ ~context.loading /\ ~context.error
    /\ ~sheet.saving /\ ~sheet.deleting

Sends(by, e, details, organized, todo) ==
    /\ budget.saves < MaxSaves
    /\ saves' = saves \cup {[by |-> by, of |-> e, details |-> details, organized |-> organized,
                             todo |-> todo, n |-> budget.saves]}
    /\ budget' = [budget EXCEPT !.saves = @ + 1]

\* Mutant: the organizers are not sent back.
UpdatesBare(organized) == <<"row", "clear">>

\* EventsStore.update: the row, then the organizers deleted and inserted.
Updates(organized) == IF organized THEN <<"row", "clear", "add">> ELSE <<"row", "clear">>

HandleSubmit ==
    /\ FormUsable
    /\ Sends("page", context.shown, sheet.details, context.organized, Updates(context.organized))
    /\ sheet' = [sheet EXCEPT !.saving = TRUE]
    /\ UNCHANGED <<stored, context, selects, history>>

HandleDelete ==
    /\ FormUsable
    /\ Sends("page", context.shown, sheet.details, context.organized, <<"delete">>)
    /\ sheet' = [sheet EXCEPT !.deleting = TRUE]
    /\ UNCHANGED <<stored, context, selects, history>>

\* A colleague reads an event and saves it from a page of their own.
ColleagueSavesEvent(e) ==
    /\ EventExists(e)
    /\ \A s \in saves : s.by = "page"
    /\ Sends("colleague", e, e, stored[e].organized, Updates(stored[e].organized))
    /\ history' = [history EXCEPT !.readDuring = @ \/ SavingOf(e)]
    /\ UNCHANGED <<stored, context, sheet, selects>>

\* A colleague creates an event.  The form has no organizers, and the context
\* of no page changes.
CreateEvent(e) ==
    /\ e \in history.unused
    /\ stored' = [stored EXCEPT ![e] = [details |-> e, organized |-> FALSE]]
    /\ history' = [history EXCEPT !.unused = @ \ {e}, !.bare = @ \cup {e}]
    /\ UNCHANGED <<context, sheet, saves, selects, budget>>

-----------------------------------------------------------------------------
(* The handler, a statement at a time.                                     *)

EventAfter(e, s) ==
    CASE Head(s.todo) = "row"    -> [stored[e] EXCEPT !.details = s.details]
      [] Head(s.todo) = "clear"  -> [stored[e] EXCEPT !.organized = FALSE]
      [] Head(s.todo) = "add"    -> [stored[e] EXCEPT !.organized = TRUE]
      [] Head(s.todo) = "delete" -> NoOuting

\* An event that is gone is answered 404, and organizers that are there
\* already violate the key.
EventSaveRefused(s) == ~EventExists(s.of) \/ (Head(s.todo) = "add" /\ stored[s.of].organized)

ExecuteSave(s) ==
    /\ s.todo # <<>> /\ ~EventSaveRefused(s)
    /\ stored' = [stored EXCEPT ![s.of] = EventAfter(s.of, s)]
    /\ saves' = (saves \ {s}) \cup {[s EXCEPT !.todo = Tail(s.todo)]}
    /\ UNCHANGED <<context, sheet, selects, budget, history>>

\* What the page saved is put into the form, and selected, whichever event
\* is shown by then.
EventSaved(s) ==
    /\ s.todo = <<>> /\ s.by = "page" /\ ~sheet.deleting
    /\ saves' = saves \ {s}
    /\ sheet' = [sheet EXCEPT !.details = s.details]
    /\ SelectEvent(s.of, TRUE)
    /\ UNCHANGED <<stored, budget, history>>

\* The context is cleared, and the page asks to select an event.
EventDeleted(s) ==
    /\ s.todo = <<>> /\ s.by = "page" /\ sheet.deleting
    /\ saves' = saves \ {s}
    /\ sheet' = [sheet EXCEPT !.deleting = FALSE]
    /\ context' = [context EXCEPT !.shown = NoOuting, !.organized = FALSE, !.error = FALSE]
    /\ UNCHANGED <<stored, selects, budget, history>>

ColleagueAnswered(s) ==
    /\ s.todo = <<>> /\ s.by = "colleague"
    /\ saves' = saves \ {s}
    /\ UNCHANGED <<stored, context, sheet, selects, budget, history>>

\* The rest of the statements is not done.
EventSaveFails(s) ==
    /\ saves' = saves \ {s}
    /\ sheet' = IF s.by = "page" THEN [sheet EXCEPT !.saving = FALSE, !.deleting = FALSE]
               ELSE sheet
    /\ history' = [history EXCEPT !.cut = TRUE]
    /\ UNCHANGED <<stored, context, selects, budget>>

FormsNext ==
    \/ \E e \in Outing : PickEvent(e) \/ ColleagueSavesEvent(e) \/ CreateEvent(e)
    \/ OpenEventSelector \/ HandleSubmit \/ HandleDelete
    \/ \E r \in selects : SelectAnswers(r) \/ SelectFails(r)
    \/ \E s \in saves : \/ ExecuteSave(s) \/ EventSaved(s) \/ EventDeleted(s)
                        \/ ColleagueAnswered(s) \/ EventSaveFails(s)

FormsSpec == FormsInit /\ [][FormsNext]_formVars

-----------------------------------------------------------------------------
FormsTypeOK ==
    /\ stored \in [Outing -> EventRow \cup {NoOuting}]
    /\ context \in Context /\ sheet \in Sheet
    /\ \A s \in saves : s.of \in Outing /\ s.details \in Outing /\ Len(s.todo) <= 3
    /\ selects \subseteq Reselection
    /\ budget.saves \in 0..MaxSaves /\ budget.picks \in 0..MaxPicks
    /\ history \in History

\* The details entered for one event are never saved over another's, although
\* the event can be changed while a save is in flight and the save puts its
\* details into the form whichever event is shown; unless, the event changed,
\* selecting the saved one again failed.
OwnDetails ==
    ~history.stranded => \A e \in Outing : EventExists(e) => stored[e].details = e

\* No save costs an event the organizers it had, although each deletes and
\* inserts them; unless one failed half-way or an event was read while being
\* saved.
OrganizersKept ==
    ~history.cut /\ ~history.readDuring =>
        \A e \in Outing \ history.bare :
            EventExists(e) /\ ~SavingOf(e) => stored[e].organized

=============================================================================
