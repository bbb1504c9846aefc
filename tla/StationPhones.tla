---------------------------- MODULE StationPhones ----------------------------
(***************************************************************************)
(* The phones at a station: the signed-in check-in page (CheckInOut.jsx),  *)
(* the public check-in page behind an event link (PublicCheckIn.jsx) and a *)
(* scorer, around the visits of one patrol at one station.  A handler is   *)
(* one step of StationAttempt; what is interleaved here are the pages.     *)
(*                                                                         *)
(* A page works from the list of visits it received last.  The action it   *)
(* offers is chosen from that list when the patrol is selected (signed     *)
(* in) or tapped (public), is confirmed in a dialog, and is sent later; in *)
(* between, other phones write.  Lists are answered late and out of order. *)
(***************************************************************************)
EXTENDS StationAttempt, FiniteSets

CONSTANTS
    Signed,      \* phones showing CheckInOut
    Public,      \* phones showing PublicCheckIn
    MaxLists     \* bound on the visit lists on their way to one phone

ASSUME PhonesAssumption == Signed \cap Public = {} /\ MaxLists \in Nat

VARIABLES
    page,        \* what each phone shows and waits for
    lists,       \* visit lists on their way to each phone
    link,        \* the state of the event's check-in link
    stale        \* history: an action was written that its page had chosen
                 \* while showing something else than the newest visit

phoneVars == <<visits, page, lists, link, stale>>

Phone == Signed \cup Public

\* What a page makes of the newest visit in its list: the badge it shows.
View == {"not_arrived", "here", "gone", "completed"}

ViewByArrival(v) == IF v.arrived THEN "here" ELSE "not_arrived"

ViewOf(v) ==
    IF v.status = "completed" THEN "completed"
    ELSE IF v.left THEN "gone"
    ELSE IF v.arrived THEN "here"
    ELSE "not_arrived"

Latest == IF visits = <<>> THEN "not_arrived" ELSE ViewOf(visits[LatestRow(visits)])

\* Why a list was asked for: first, by the page's timer, or after a write.
Why == {"first", "poll", "after"}
Lists == SUBSET (View \X Why)

\* call and reset are the requests of the page in flight: "sent" until they
\* are answered, "reload" while the list that ends them is awaited.
CallState == {"none", "sent", "reload"}

Page ==
    [loaded : BOOLEAN, seen : View, basis : View, chosen : BOOLEAN,
     asking : BOOLEAN, call : CallState,
     reset : CallState, owed : SUBSET Why, dead : BOOLEAN]

\* The action offered for a patrol seen as v.  basis is the view an action
\* was chosen from, so ActionFor(basis) is the action of the page.
ActionFor(v) == IF v = "here" THEN "check-out" ELSE "check-in"

Set(p, r) == page' = [page EXCEPT ![p] = r]

\* The whole page of a dead link is a notice.
Dead ==
    [loaded |-> TRUE, seen |-> "not_arrived", basis |-> "not_arrived", chosen |-> FALSE,
     asking |-> FALSE, call |-> "none", reset |-> "none", owed |-> {}, dead |-> TRUE]

PhonesInit ==
    /\ Init
    /\ page = [p \in Phone |->
          [loaded |-> FALSE, seen |-> "not_arrived", basis |-> "not_arrived", chosen |-> FALSE,
           asking |-> FALSE, call |-> "none",
           reset |-> "none",
           owed |-> IF p \in Signed THEN {"first"} ELSE {}, dead |-> FALSE]]
    /\ lists = [p \in Phone |-> {}]
    /\ link = "live"
    /\ stale = FALSE

-----------------------------------------------------------------------------
(* Lists.                                                                  *)

MayRead(p) == Cardinality(lists[p]) < MaxLists

\* The server reads the visits for a list a page asked for.
ReadList(p, w) ==
    /\ w \in page[p].owed /\ MayRead(p)
    /\ lists' = [lists EXCEPT ![p] = @ \cup {<<Latest, w>>}]
    /\ Set(p, [page[p] EXCEPT !.owed = @ \ {w}])
    /\ UNCHANGED <<visits, link, stale>>

\* setInterval(load, REFRESH_MS) of the public page, which goes on after the
\* link died; then no answer is of any use.  A request is taken with the
\* read it leads to.
Poll(p) ==
    /\ p \in Public /\ MayRead(p) /\ ~page[p].dead
    /\ lists' = [lists EXCEPT ![p] = @ \cup {<<Latest, "poll">>}]
    /\ UNCHANGED <<visits, page, link, stale>>

\* The dialog closes.  The public page forgets what it asked about; the
\* signed-in page has its patrol still chosen, or dropped with the write.
Closed(r) ==
    [r EXCEPT !.call = "none", !.asking = FALSE,
              !.basis = IF r.chosen THEN @ ELSE "not_arrived"]

\* What ends with a list fetched after a write: act() of the public page
\* closes its dialog, handleResetVisit releases its button.
EndReload(r) ==
    [r EXCEPT !.asking = @ /\ r.call # "reload",
              !.call   = IF @ = "reload" THEN "none" ELSE @,
              !.reset  = IF @ = "reload" THEN "none" ELSE @]

After(r, w) == IF w = "after" THEN EndReload(r) ELSE r

\* A list arrives, in any order.  The chosen action is left as it is.
ReceiveList(p) ==
    \E l \in lists[p] :
        /\ ~ (p \in Public /\ link = "revoked")
        /\ Set(p, After([page[p] EXCEPT !.seen = l[1], !.loaded = TRUE], l[2]))
        /\ lists' = [lists EXCEPT ![p] = @ \ {l}]
        /\ UNCHANGED <<visits, link, stale>>

\* A list is lost.  The signed-in page takes a failed FIRST list of visits
\* for an empty one; the public page of a revoked link shows it is dead.
LoseList(p) ==
    \E l \in lists[p] :
        /\ Set(p, IF p \in Public /\ link = "revoked" THEN Dead
                  ELSE IF p \in Signed /\ l[2] = "first"
                  THEN [page[p] EXCEPT !.loaded = TRUE, !.seen = "not_arrived"]
                  ELSE After(page[p], l[2]))
        /\ lists' = [lists EXCEPT ![p] = @ \ {l}]
        /\ UNCHANGED <<visits, link, stale>>

-----------------------------------------------------------------------------
(* The volunteer.  An open dialog covers the page.                         *)

OnPage(p, r) == Set(p, r) /\ UNCHANGED <<visits, lists, link, stale>>

\* handleStationSelection and handlePatrolSelection.
Choose(p) ==
    /\ p \in Signed /\ page[p].loaded /\ ~page[p].asking
    /\ OnPage(p, [page[p] EXCEPT !.chosen = TRUE, !.basis = page[p].seen])

\* The selector's clear button.
Unchoose(p) ==
    /\ p \in Signed /\ page[p].chosen /\ ~page[p].asking
    /\ OnPage(p, [page[p] EXCEPT !.chosen = FALSE, !.basis = "not_arrived"])

\* handleSubmit: nothing is recorded until the volunteer confirms.
Ask(p) ==
    /\ p \in Signed /\ page[p].chosen /\ ~page[p].asking
    /\ page[p].seen # "completed"
    /\ OnPage(p, [page[p] EXCEPT !.asking = TRUE])

\* The one button of a patrol's row on the public page.
Tap(p) ==
    /\ p \in Public /\ page[p].loaded /\ ~page[p].dead /\ ~page[p].asking
    /\ page[p].seen # "completed"
    /\ OnPage(p, [page[p] EXCEPT !.asking = TRUE, !.basis = page[p].seen])

Cancel(p) ==
    /\ page[p].asking /\ page[p].call = "none"
    /\ OnPage(p, Closed(page[p]))

\* executeCheckInOrOut and act, up to the request.
Confirm(p) ==
    /\ page[p].asking /\ page[p].call = "none" /\ ~page[p].dead
    /\ OnPage(p, [page[p] EXCEPT !.call = "sent"])

\* handleResetVisit, up to the request: the button shows on a completed visit.
AskReset(p) ==
    /\ p \in Signed /\ page[p].chosen /\ ~page[p].asking
    /\ page[p].seen = "completed" /\ page[p].reset = "none"
    /\ OnPage(p, [page[p] EXCEPT !.reset = "sent"])

-----------------------------------------------------------------------------
(* The server takes a request and answers it.  The page can do nothing about *)
(* it in between, so the answer is taken with the request.                 *)

\* resolve_token: a revoked link is answered 404 by every public route.
LinkRefuses(p) == p \in Public /\ link = "revoked"

\* Signed in: the completion panel, whose one button (reset) drops the patrol
\* and is taken with it, and a list in the background.  Public: a list that is
\* awaited before the dialog closes.
Saved(p) ==
    IF p \in Signed
    THEN Closed([page[p] EXCEPT !.chosen = FALSE, !.owed = @ \cup {"after"}])
    ELSE [page[p] EXCEPT !.call = "reload", !.basis = "not_arrived",
                         !.owed = @ \cup {"after"}]

TakeAction(p) ==
    /\ page[p].call = "sent" /\ ~LinkRefuses(p)
    /\ IF ActionFor(page[p].basis) = "check-in" THEN CheckIn ELSE CheckOut
    /\ stale' = (stale \/ page[p].basis # Latest)
    /\ \/ Set(p, Saved(p))
       \/ Set(p, Closed(page[p]))     \* the answer is lost
    /\ UNCHANGED <<lists, link>>

\* Refused by the server, or the request is lost: an error is shown.
FailAction(p) ==
    /\ page[p].call = "sent"
    /\ OnPage(p, Closed(page[p]))

\* Reopening is allowed to a leader, or within five minutes; else 403.
TakeReset(p) ==
    /\ page[p].reset = "sent"
    /\ Reset
    /\ \/ Set(p, [page[p] EXCEPT !.reset = "reload", !.owed = @ \cup {"after"}])
       \/ Set(p, [page[p] EXCEPT !.reset = "none"])
    /\ UNCHANGED <<lists, link, stale>>

FailReset(p) ==
    /\ page[p].reset = "sent"
    /\ OnPage(p, [page[p] EXCEPT !.reset = "none"])

\* A scorer submits.  ScoreForm.jsx sends both times.
ScoreSubmitted ==
    /\ Submit({"startedAt", "completedAt"})
    /\ UNCHANGED <<page, lists, link, stale>>

\* An organiser revokes the link (PublicLinksPanel.jsx).
Revoke ==
    /\ link = "live" /\ link' = "revoked"
    /\ UNCHANGED <<visits, page, lists, stale>>

-----------------------------------------------------------------------------
PhonesNext ==
    \/ \E p \in Phone :
          \/ Poll(p) \/ ReceiveList(p) \/ LoseList(p)
          \/ \E w \in Why : ReadList(p, w)
          \/ Choose(p) \/ Unchoose(p) \/ Ask(p) \/ Tap(p) \/ Cancel(p)
          \/ Confirm(p) \/ AskReset(p)
          \/ TakeAction(p) \/ FailAction(p) \/ TakeReset(p) \/ FailReset(p)
    \/ ScoreSubmitted
    \/ Revoke

PhonesSpec == PhonesInit /\ [][PhonesNext]_phoneVars

-----------------------------------------------------------------------------
\* A scored visit stays the newest one, which is what check_in looks at to
\* keep the attempt locked, unless some phone's action was chosen from a view
\* that was out of date when the server took it.  A departure from such a
\* phone finds nothing open and inserts a row over the scored one.
ScoredStaysNewest ==
    stale \/ \A i \in DOMAIN visits : i < LatestRow(visits) => visits[i].status # "completed"

=============================================================================
