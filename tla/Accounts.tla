------------------------------- MODULE Accounts -------------------------------
(***************************************************************************)
(* The user manager: organisers' pages (UserManager.jsx) and the handlers  *)
(* of an account (users.py).  A page works on copies.  A handler is a list *)
(* of statements, each a transaction of its own, and one press of "Save    *)
(* Changes" is up to three handlers.  The system-administrator flag goes   *)
(* the way of the status and is left out; there is one event and one       *)
(* station.                                                                *)
(***************************************************************************)
EXTENDS Naturals, FiniteSets, Sequences, Bags

CONSTANTS
    Manager,     \* organisers with the page open
    Account,     \* the accounts they manage, none of them their own
    Role,        \* roles in the event, the default "user" among them
    DefaultRole,
    MaxPresses,  \* bound on the buttons pressed
    Nothing

ASSUME AccountsAssumption ==
    /\ DefaultRole \in Role /\ MaxPresses \in Nat
    /\ Nothing \notin Manager \cup Account \cup Role

VARIABLES
    accounts,    \* the rows of users, user_roles and station_staff
    desk,        \* each organiser's page
    requests,    \* the requests in flight, a bag
    presses,     \* the buttons pressed so far
    record       \* history of each account

accountVars == <<accounts, desk, requests, presses, record>>

Status == {"pending", "active", "blocked"}
Level == {"system", "event", "leader"}

AccountRow == [status : Status, roles : SUBSET Role, staff : BOOLEAN]
Copy == [status : Status, role : Role \cup {Nothing}, staff : BOOLEAN]

\* list: the users as the page has them.  of, copy: the user selected and the
\* copy being edited.  saving: the state of that name.
Desk == [level : Level, list : [Account -> Copy \cup {Nothing}],
         of : Account \cup {Nothing}, copy : Copy \cup {Nothing}, saving : BOOLEAN]

Statement == {"dropRoles", "grant", "status", "assign", "unassign", "dropStaff",
              "delete"}

Kind == {"save", "status", "station", "delete"}

\* last: the status chosen last.  had: a role was given.  muddled, torn:
\* what excuses the account's status and its roles, see below.
Record == [last : Status, had : BOOLEAN, muddled : BOOLEAN, torn : BOOLEAN]

Unread == [u \in Account |-> Nothing]

AccountsInit ==
    /\ accounts \in [Account -> [status : {"pending", "active"}, roles : {{}},
                                 staff : {FALSE}]]
    /\ \E level \in [Manager -> Level] :
          desk = [m \in Manager |-> [level |-> level[m], list |-> Unread,
                    of |-> Nothing, copy |-> Nothing, saving |-> FALSE]]
    /\ requests = EmptyBag
    /\ presses = 0
    /\ record = [u \in Account |-> [last |-> accounts[u].status, had |-> FALSE,
                                    muddled |-> FALSE, torn |-> FALSE]]

HasAccount(u) == accounts[u] # Nothing
Pending == BagToSet(requests)
Carries(r, statement) == \E i \in DOMAIN r.todo : r.todo[i] = statement
CarriesRoles(r) == Carries(r, "dropRoles") \/ Carries(r, "grant") \/ Carries(r, "delete")

\* What GET answers for an account.  Of several roles in one event
\* roles_to_map keeps one.
CopiesOf(u) ==
    IF ~HasAccount(u) THEN {Nothing}
    ELSE {c \in [status : {accounts[u].status}, role : Role \cup {Nothing},
                 staff : {accounts[u].staff}] :
            IF accounts[u].roles = {} THEN c.role = Nothing ELSE c.role \in accounts[u].roles}

-----------------------------------------------------------------------------
(* The page.                                                               *)

\* The users are loaded once, when the page is opened; a failed read leaves
\* its list empty.
LoadUsers(m) ==
    /\ desk[m].list = Unread /\ desk[m].of = Nothing
    /\ \A r \in Pending : r.by # m
    /\ \E list \in [Account -> Copy \cup {Nothing}] :
          /\ \A u \in Account : list[u] \in CopiesOf(u)
          /\ desk' = [desk EXCEPT ![m].list = list]
    /\ UNCHANGED <<accounts, requests, presses, record>>

\* visibleUsers: an organiser of the event sees its users and those waiting
\* for approval, a station leader their own staff and those waiting.
Visible(m, c) ==
    \/ desk[m].level = "system"
    \/ c.status = "pending"
    \/ desk[m].level = "event" /\ c.role # Nothing
    \/ desk[m].level = "leader" /\ c.staff

\* The list can be used while a request is in flight.
SelectUser(m, u) ==
    /\ desk[m].list[u] # Nothing /\ Visible(m, desk[m].list[u])
    /\ desk' = [desk EXCEPT ![m].of = u, ![m].copy = desk[m].list[u]]
    /\ UNCHANGED <<accounts, requests, presses, record>>

\* A press sends a request for the account selected.
Press(m, kind, todo, status, role) ==
    /\ presses < MaxPresses
    /\ presses' = presses + 1
    /\ requests' = requests (+) SetToBag({[by |-> m, kind |-> kind, of |-> desk[m].of,
                       todo |-> todo, status |-> status, role |-> role]})
    /\ UNCHANGED accounts

\* Mutant: the status is sent by every organiser who may set roles.
SaveTodoWithStatus(level) ==
    IF level = "leader" THEN << >> ELSE <<"dropRoles", "grant", "status">>

\* saveUser: the role, and from a system administrator the status too, by a
\* second PATCH.  For a station leader the PATCH has an empty station and
\* changes nothing.
SaveTodo(level) ==
    CASE level = "system" -> <<"dropRoles", "grant", "status">>
      [] level = "event"  -> <<"dropRoles", "grant">>
      [] level = "leader" -> << >>

\* The role sent is that of the copy, without one the default, or another
\* chosen on the form before the press (updateSelectedEventRole).
SaveUser(m, role) ==
    LET d == desk[m]
        u == d.of
        sends == d.level = "system"
    IN  /\ u # Nothing /\ ~d.saving
        /\ d.level = "leader" => role = DefaultRole
        /\ Press(m, "save", SaveTodo(d.level), d.copy.status, role)
        /\ desk' = [desk EXCEPT ![m].saving = TRUE]
        /\ record' = [record EXCEPT ![u] =
              [record[u] EXCEPT !.had = @ \/ d.level # "leader",
                 !.muddled = @ \/ (sends /\ d.copy.status # record[u].last),
                 !.torn = @ \/ (d.level # "leader"
                                 /\ \E r \in Pending : r.of = u /\ CarriesRoles(r))]]

\* The buttons Approve, Block and Unblock.
NextStatus(s) == IF s = "active" THEN "blocked" ELSE "active"

StatusChange(m) ==
    LET d == desk[m]
        u == d.of
    IN  /\ u # Nothing /\ d.level # "leader" /\ ~d.saving
        /\ Press(m, "status", <<"status">>, NextStatus(d.copy.status), DefaultRole)
        /\ desk' = [desk EXCEPT ![m].saving = TRUE]
        /\ record' = [record EXCEPT ![u] =
              [record[u] EXCEPT !.last = NextStatus(d.copy.status),
                 !.muddled = \E r \in Pending : r.of = u /\ Carries(r, "status")]]

\* The boxes of the stations are never disabled.
ToggleStation(m) ==
    LET d == desk[m] IN
    /\ d.of # Nothing
    /\ Press(m, "station", IF d.copy.staff THEN <<"unassign">>
                           ELSE <<"unassign", "assign">>, d.copy.status, DefaultRole)
    /\ desk' = [desk EXCEPT ![m].saving = TRUE]
    /\ UNCHANGED record

\* Nor is the button Delete.
DeleteUser(m) ==
    LET u == desk[m].of IN
    /\ u # Nothing
    /\ Press(m, "delete", <<"dropRoles", "dropStaff", "delete">>, desk[m].copy.status,
             DefaultRole)
    /\ record' = [record EXCEPT ![u].torn =
                     @ \/ \E r \in Pending : r.of = u /\ CarriesRoles(r)]
    /\ UNCHANGED desk

-----------------------------------------------------------------------------
(* The handlers, a statement at a time.                                    *)

Proceeds(r, s) == requests' = (requests (-) SetToBag({r})) (+) SetToBag({s})
Ends(r) == requests' = requests (-) SetToBag({r})

\* Mutant: the event's other role is not taken away.
AccountAfterBeside(u, r) ==
    IF Head(r.todo) = "grant" THEN [accounts[u] EXCEPT !.roles = @ \cup {r.role}]
    ELSE accounts[u]

AccountAfter(u, r) ==
    CASE Head(r.todo) = "dropRoles" -> [accounts[u] EXCEPT !.roles = {}]
      [] Head(r.todo) = "grant"      -> [accounts[u] EXCEPT !.roles = @ \cup {r.role}]
      [] Head(r.todo) = "status"     -> [accounts[u] EXCEPT !.status = r.status]
      [] Head(r.todo) = "assign"     -> [accounts[u] EXCEPT !.staff = TRUE]
      [] Head(r.todo) \in {"unassign", "dropStaff"} -> [accounts[u] EXCEPT !.staff = FALSE]
      [] Head(r.todo) = "delete"     -> Nothing

\* A row of a role or a station that is there already cannot be inserted, and
\* an account with a role not be deleted (user_roles has no cascade).
StatementRefused(r) ==
    LET u == r.of IN
    \/ ~HasAccount(u)
    \/ Head(r.todo) = "grant" /\ r.role \in accounts[u].roles
    \/ Head(r.todo) = "assign" /\ accounts[u].staff
    \/ Head(r.todo) = "delete" /\ accounts[u].roles # {}

ExecuteStatement(r) ==
    /\ r.todo # <<>> /\ ~StatementRefused(r)
    /\ accounts' = [accounts EXCEPT ![r.of] = AccountAfter(r.of, r)]
    /\ Proceeds(r, [r EXCEPT !.todo = Tail(r.todo)])
    /\ UNCHANGED <<desk, presses, record>>

\* A statement is refused or the connection breaks, before the answer or
\* after it: what is left of the list is not done.
RequestEndsEarly(r) ==
    /\ Ends(r)
    /\ desk' = [desk EXCEPT ![r.by].saving = @ /\ r.kind = "delete"]
    /\ record' = [record EXCEPT ![r.of] =
          [record[r.of] EXCEPT !.muddled = @ \/ Carries(r, "status"),
                               !.torn = @ \/ CarriesRoles(r)]]
    /\ UNCHANGED <<accounts, presses>>

-----------------------------------------------------------------------------
(* The answer: the account as it is now, but for a deletion.               *)

\* saveUser selects the account it saved again.
UserSaved(d, r, c) ==
    [d EXCEPT !.list[r.of] = IF @ = Nothing THEN Nothing ELSE c, !.of = r.of, !.copy = c, !.saving = FALSE]

\* handleStatusChange puts the status into the copy selected by now.
StatusAnswered(d, r, c) ==
    [d EXCEPT !.list[r.of] = IF @ = Nothing THEN Nothing ELSE [@ EXCEPT !.status = r.status],
              !.copy = IF @ = Nothing THEN Nothing ELSE [@ EXCEPT !.status = r.status],
              !.saving = FALSE]

\* handleToggleStation selects its account again, if one is selected.
StationAnswered(d, r, c) ==
    IF d.of = Nothing
    THEN [d EXCEPT !.list[r.of] = IF @ = Nothing THEN Nothing ELSE c, !.saving = FALSE]
    ELSE UserSaved(d, r, c)

UserDeleted(d, r) ==
    [d EXCEPT !.list[r.of] = Nothing, !.of = Nothing, !.copy = Nothing]

RequestAnswered(r) ==
    /\ r.todo = <<>>
    /\ r.kind = "delete" \/ HasAccount(r.of)
    /\ Ends(r)
    /\ \E c \in CopiesOf(r.of) :
          desk' = [desk EXCEPT ![r.by] =
                     CASE r.kind = "save"    -> UserSaved(@, r, c)
                       [] r.kind = "status"  -> StatusAnswered(@, r, c)
                       [] r.kind = "station" -> StationAnswered(@, r, c)
                       [] r.kind = "delete"  -> UserDeleted(@, r)]
    /\ UNCHANGED <<accounts, presses, record>>

AccountsNext ==
    \/ \E m \in Manager :
          \/ LoadUsers(m) \/ StatusChange(m) \/ ToggleStation(m)
          \/ DeleteUser(m)
          \/ \E u \in Account : SelectUser(m, u)
          \/ \E role \in Role : SaveUser(m, role)
    \/ \E r \in Pending : ExecuteStatement(r) \/ RequestEndsEarly(r) \/ RequestAnswered(r)

AccountsSpec == AccountsInit /\ [][AccountsNext]_accountVars

-----------------------------------------------------------------------------
AccountsTypeOK ==
    /\ accounts \in [Account -> AccountRow \cup {Nothing}]
    /\ desk \in [Manager -> Desk]
    /\ IsABag(requests) /\ \A r \in Pending :
          /\ r.by \in Manager /\ r.kind \in Kind /\ r.of \in Account
          /\ r.todo \in Seq(Statement) /\ r.status \in Status /\ r.role \in Role
    /\ presses \in 0..MaxPresses
    /\ record \in [Account -> Record]

Resting(u) == \A r \in Pending : r.of # u

\* An account that is blocked stays blocked, and one unblocked stays so, until
\* an organiser chooses otherwise for that very account, whoever saves it
\* meanwhile; unless two requests with a status overlapped, one failed, or a
\* system administrator saved a copy whose status was not the one chosen last
\* (an old copy, or one that the answer for another account was put into).
StatusStands ==
    \A u \in Account :
        HasAccount(u) /\ Resting(u) /\ ~record[u].muddled
            => accounts[u].status = record[u].last

\* An account given a role has exactly one in the event, although each save
\* deletes it and inserts the new one; unless requests that change its roles
\* overlapped or one of them failed half-way.
OneRoleEach ==
    \A u \in Account :
        HasAccount(u) /\ Resting(u) /\ record[u].had /\ ~record[u].torn
            => Cardinality(accounts[u].roles) = 1

=============================================================================
