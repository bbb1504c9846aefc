----------------------------- MODULE EventSession -----------------------------
(***************************************************************************)
(* Who is signed in and which event the pages work on, in one browser tab: *)
(* the cached profile (UserService.js), the token and its two subscribers  *)
(* (AuthServiceProvider.jsx, EventContext.jsx) and the event selector.     *)
(*                                                                         *)
(* initializeEvent, selectEvent and openEventSelector are asynchronous and *)
(* nothing cancels them: several run at once and continue when their       *)
(* request is answered.  What survives a reload is localStorage.           *)
(***************************************************************************)
EXTENDS Naturals, FiniteSets, Bags

CONSTANTS
    User,        \* accounts
    Admins,      \* those of them who are system administrators
    Event,       \* events
    RoleSets,    \* the sets of events an account may have roles in
    MaxRuns,     \* bound on the asynchronous runs in flight at once
    None

ASSUME SessionAssumption ==
    /\ Admins \subseteq User /\ IsFiniteSet(Event)
    /\ RoleSets \subseteq SUBSET Event /\ MaxRuns \in Nat
    /\ None \notin User \cup Event \cup [id : User, events : SUBSET Event]

VARIABLES
    roles,       \* the server's roles of each account
    token,       \* whose token the tab has
    cached,      \* the profile in localStorage
    last,        \* last_user_id and last_event_id in localStorage
    tab,         \* what is shown: the event, the selector and its choice
    runs,        \* the asynchronous runs in flight, a bag
    picked,      \* history: the event chosen last in the selector
    crossed      \* history: another run was in flight with that choice, or
                 \* the profile has changed since

sessionVars == <<roles, token, cached, last, tab, runs, picked, crossed>>

Profile == [id : User, events : SUBSET Event]

\* at: what a run waits for.  next: what it goes on with.
\*   "me"    GET /me, then "nothing", "init" or "selector"
\*   "list"  GET /events, then "restore" (an administrator's saved event) or
\*           "selector"
\*   "event" GET /events/{id}; when that fails, "clear", "fallback" or "stop"
\* of: the events of the profile that a run to fall back on keeps.
Run == [at : {"ended", "me", "list", "event"},
        next : {"nothing", "init", "selector", "restore", "clear", "fallback", "stop"},
        event : Event \cup {None}, who : User \cup {None}, of : SUBSET Event,
        pick : BOOLEAN]

\* choosing: the event whose load the open selector waits for.
TabState == [shown : Event \cup {None}, selector : BOOLEAN, choosing : Event \cup {None}]

Cleared == [shown |-> None, selector |-> FALSE, choosing |-> None]
Showing(e) == [Cleared EXCEPT !.shown = e]

NoRun == [at |-> "ended", next |-> "nothing", event |-> None, who |-> None, of |-> {},
          pick |-> FALSE]

Me(u, next) == [NoRun EXCEPT !.at = "me", !.who = u, !.next = next]
ListFor(next, e) == [NoRun EXCEPT !.at = "list", !.next = next, !.event = e]
Select(e, next) == [NoRun EXCEPT !.at = "event", !.next = next, !.event = e]

SessionInit ==
    /\ roles \in [User -> RoleSets]
    /\ token = None
    /\ cached = None
    /\ last = [user |-> None, event |-> None]
    /\ tab = Cleared
    /\ runs = EmptyBag
    /\ picked = None
    /\ crossed = FALSE

InFlight == BagToSet(runs)

\* NoRun stands for a run that has ended.
One(r) == IF r = NoRun THEN EmptyBag ELSE SetToBag({r})

\* The run r goes on as s, or starts as s when r is NoRun.
Goes(r, s) ==
    /\ runs' = (runs (-) One(r)) (+) One(s)
    /\ BagCardinality(runs') <= MaxRuns

IsSystemAdmin(c) == c.id \in Admins
HasEventAccess(c, e) == IsSystemAdmin(c) \/ e \in c.events

-----------------------------------------------------------------------------
(* initializeEvent up to its first await, for the profile c.                *)

\* The saved event is only used for the user who saved it.
SavedEvent(c) == IF last.user = c.id THEN last.event ELSE None

SavedFor(c) ==
    [user |-> c.id,
     event |-> IF last.user \notin {None, c.id} THEN None ELSE last.event]

Only(es) == CHOOSE e \in es : TRUE

\* Mutant: the first of several events is selected.
RemainingFirst(es) == Select(Only(es), "stop")

\* With one event it is selected, with several the selector is to open.
Remaining(es) ==
    IF Cardinality(es) = 1 THEN Select(Only(es), "stop") ELSE ListFor("selector", None)

Initialize(c) ==
    IF IsSystemAdmin(c) THEN ListFor("restore", SavedEvent(c))
    ELSE IF c.events = {} THEN NoRun
    ELSE IF SavedEvent(c) # None /\ HasEventAccess(c, SavedEvent(c))
         THEN [Select(SavedEvent(c), "fallback") EXCEPT !.of = c.events]
    ELSE Remaining(c.events)

\* The effect of EventContext: the cached profile, or else the server's.
Started == IF cached = None THEN Me(token', "init") ELSE Initialize(cached)
StartedLast == IF cached = None THEN last ELSE SavedFor(cached)

-----------------------------------------------------------------------------
(* Signing in and out, reloading.                                          *)

\* Both subscribers act on the token: one fetches the profile, the other
\* initializes the event.
SignIn(u) ==
    /\ token = None /\ runs = EmptyBag
    /\ token' = u
    /\ runs' = One(Me(u, "nothing")) (+) One(Started)
    /\ last' = StartedLast
    /\ UNCHANGED <<roles, cached, tab, picked, crossed>>

\* logout: with Firebase userData.clear() drops the profile and tells the
\* listeners there is no user; with OIDC the profile stays in localStorage.  The
\* page is left or reloaded later.
SignOut ==
    /\ token # None
    /\ token' = None
    /\ cached' \in {None, cached}
    /\ tab' = Cleared
    /\ picked' = None
    /\ UNCHANGED <<roles, last, runs, crossed>>

Reload ==
    /\ token' = token
    /\ tab' = Cleared
    /\ IF token = None
       THEN runs' = EmptyBag /\ last' = last
       ELSE /\ runs' = One(Me(token, "nothing")) (+) One(Started)
            /\ last' = StartedLast
    /\ UNCHANGED <<roles, cached, picked, crossed>>

-----------------------------------------------------------------------------
(* Answers.                                                                *)

\* get() fails: the profile is dropped and the event with it.
MeFails(r) ==
    /\ r.at = "me"
    /\ cached' = None
    /\ tab' = Cleared
    /\ Goes(r, NoRun)
    /\ picked' = None
    /\ UNCHANGED <<roles, token, last, crossed>>

\* The listeners are told of a profile only when it differs from the cached.
Differs(c) == cached # c

\* What the run itself goes on with: openEventSelector, initializeEvent.
Continued(r, c) ==
    IF r.next = "init" THEN Initialize(c)
    ELSE IF r.next = "selector" /\ (IsSystemAdmin(c) \/ Cardinality(c.events) > 1)
         THEN ListFor("selector", None)
    ELSE NoRun

MeAnswers(r) ==
    /\ r.at = "me"
    /\ LET c == [id |-> r.who, events |-> roles[r.who]]
           told == IF Differs(c) THEN One(Initialize(c)) ELSE EmptyBag
       IN  /\ cached' = c
           /\ runs' = ((runs (-) One(r)) (+) One(Continued(r, c))) (+) told
           /\ BagCardinality(runs') <= MaxRuns
           /\ crossed' = (crossed \/ Differs(c))
           /\ last' = IF Differs(c) \/ r.next = "init" THEN SavedFor(c) ELSE last
    /\ UNCHANGED <<roles, token, tab, picked>>

\* An administrator's saved event is restored, if there is one; without it
\* no event is shown and the selector opens.
ListAnswers(r) ==
    /\ r.at = "list"
    /\ LET restore == r.next = "restore" IN
       IF restore /\ r.event # None
       THEN Goes(r, Select(r.event, "clear")) /\ UNCHANGED tab
       ELSE /\ Goes(r, NoRun)
            /\ tab' = [tab EXCEPT !.selector = TRUE,
                                  !.shown = IF restore THEN None ELSE @]
    /\ UNCHANGED <<roles, token, cached, last, picked, crossed>>

ListFails(r) ==
    /\ r.at = "list"
    /\ Goes(r, NoRun)
    /\ tab' = Showing(tab.shown)
    /\ UNCHANGED <<roles, token, cached, last, picked, crossed>>

\* selectEvent: the event is shown and saved, whoever is signed in by now.
EventAnswers(r) ==
    /\ r.at = "event"
    /\ tab' = Showing(r.event)
    /\ last' = [last EXCEPT !.event = r.event]
    /\ picked' = IF r.pick THEN r.event ELSE picked
    /\ crossed' = (crossed \/ (r.pick /\ runs # One(r)))
    /\ Goes(r, NoRun)
    /\ UNCHANGED <<roles, token, cached>>

\* initializeEvent goes on with the events it started with; selectEvent asks
\* the profile of now whether the only one may be shown.
FallBack(r) ==
    IF Cardinality(r.of) = 1 /\ (cached = None \/ ~HasEventAccess(cached, Only(r.of)))
    THEN NoRun
    ELSE Remaining(r.of)

EventFails(r) ==
    /\ r.at = "event"
    /\ CASE r.next = "clear" ->
              Goes(r, NoRun) /\ tab' = [tab EXCEPT !.shown = None, !.selector = TRUE]
         [] r.next = "fallback" -> Goes(r, FallBack(r)) /\ UNCHANGED tab
         [] OTHER ->
              /\ Goes(r, NoRun)
              /\ tab' = IF ~r.pick THEN Showing(tab.shown)
                        ELSE IF r.event = tab.choosing THEN [tab EXCEPT !.choosing = None]
                        ELSE tab
    /\ UNCHANGED <<roles, token, cached, last, picked, crossed>>

-----------------------------------------------------------------------------
(* The user and the organisers.                                            *)

\* EventSelector: its button is disabled while its choice is on its way.  It may
\* be closed and opened again meanwhile, and then takes another choice.
Pick(e) ==
    /\ tab.selector /\ tab.choosing = None /\ cached # None /\ HasEventAccess(cached, e)
    /\ Goes(NoRun, [Select(e, "stop") EXCEPT !.pick = TRUE])
    /\ tab' = [tab EXCEPT !.choosing = e]
    /\ picked' = None
    /\ crossed' = (InFlight # {})
    /\ UNCHANGED <<roles, token, cached, last>>

\* openEventSelector: the header offers it to whoever is signed in, however
\* many events he has, and as often as he likes.
OpenSelector ==
    /\ token # None
    /\ Goes(NoRun, Me(token, "selector"))
    /\ UNCHANGED <<roles, token, cached, last, tab, picked, crossed>>

CloseSelector ==
    /\ tab.selector
    /\ tab' = Showing(tab.shown)
    /\ UNCHANGED <<roles, token, cached, last, runs, picked, crossed>>

\* Mutant: null is written to localStorage instead of removing the item.
ClearEventToNull ==
    /\ tab.shown # None
    /\ tab' = Cleared
    /\ last' = [last EXCEPT !.event = "null"]
    /\ picked' = None
    /\ UNCHANGED <<roles, token, cached, runs, crossed>>

\* clearEvent: the event shown was deleted (EventManager.jsx).
ClearEvent ==
    /\ tab.shown # None
    /\ tab' = Cleared
    /\ last' = [last EXCEPT !.event = None]
    /\ picked' = None
    /\ UNCHANGED <<roles, token, cached, runs, crossed>>

\* An organiser gives or takes roles.
ChangeRoles(u) ==
    /\ u \notin Admins
    /\ \E es \in RoleSets : roles' = [roles EXCEPT ![u] = es]
    /\ UNCHANGED <<token, cached, last, tab, runs, picked, crossed>>

SessionNext ==
    \/ \E u \in User : SignIn(u) \/ ChangeRoles(u)
    \/ SignOut \/ Reload \/ OpenSelector \/ CloseSelector \/ ClearEvent
    \/ \E e \in Event : Pick(e)
    \/ \E r \in InFlight : \/ MeAnswers(r) \/ MeFails(r)
                           \/ ListAnswers(r) \/ ListFails(r)
                           \/ EventAnswers(r) \/ EventFails(r)

SessionSpec == SessionInit /\ [][SessionNext]_sessionVars

-----------------------------------------------------------------------------
SessionTypeOK ==
    /\ roles \in [User -> RoleSets]
    /\ token \in User \cup {None}
    /\ cached \in Profile \cup {None}
    /\ last \in [user : User \cup {None}, event : Event \cup {None}]
    /\ tab \in TabState
    /\ IsABag(runs) /\ InFlight \subseteq Run
    /\ picked \in Event \cup {None} /\ crossed \in BOOLEAN

\* The event chosen in the selector stays the one shown, reloads included,
\* until it is cleared or the user signs out, unless another run was in flight
\* when it was chosen or the profile has changed since.  (During a reload, and
\* when the event can no longer be loaded, none is shown.)
PickStands == picked = None \/ crossed \/ tab.shown \in {picked, None}

=============================================================================
