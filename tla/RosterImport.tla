---------------------------- MODULE RosterImport ----------------------------
(***************************************************************************)
(* The roster of ONE event: sheets are previewed and applied row by row,   *)
(* people are added and edited by hand, and their status is set, by        *)
(* several operators at once.                                              *)
(*                                                                         *)
(* A person is identified by source_key (the troop, last and first name    *)
(* they were created with) and key_ordinal, and keeps both for ever:       *)
(* UPDATE_ATTENDEE writes every other column.  The preview matches by the  *)
(* CURRENT name and the apply handler by source_key.  Nobody is ever       *)
(* deleted: delete_attendee names a statement that does not exist.         *)
(*                                                                         *)
(* A name stands for the normalised "troop|last|first".  Phones, mail      *)
(* addresses, categories, the troops' own rows and the audit log are left  *)
(* out; a troop INSERT that loses its race ends the request (Abort).       *)
(***************************************************************************)
EXTENDS Naturals, Sequences, FiniteSets

CONSTANTS
    Operator,      \* requests that can be in flight at once
    Clerk,         \* those of them that also add and edit people by hand
    Name,          \* normalised names
    Similar,       \* pairs of names of one troop, one letter apart
    Status,        \* values of the status column
    NewStatus,     \* the status of a person just created: "coming"
    MaxPeople,     \* bound on the people, for model checking
    MaxPatched,    \* bound: the people whose status is ever set
    SheetRows      \* bound on the rows of each operator's sheet

ASSUME RosterAssumption ==
    /\ Clerk \subseteq Operator
    /\ Similar \subseteq Name \X Name
    /\ NewStatus \in Status
    /\ MaxPeople \in Nat /\ MaxPatched \in Nat
    /\ SheetRows \in [Operator -> Nat]

VARIABLES
    people,    \* event_attendees, in the order of their INSERTs
    plan,      \* per operator: the rows approved from the last preview
    req        \* what each request in flight is doing

vars == <<people, plan, req>>

Person == [key : Name, ordinal : Nat \ {0}, name : Name, status : Status]

\* A row of an apply.  rename is the person the operator renames (0: none).
\* sure, made and low are history: the preview matched a person, nobody of that
\* name having been renamed; how many people the row has created, and whether
\* one of them got a lower ordinal than the row's.
Row == [name : Name, ordinal : Nat \ {0}, rename : Nat, sure : BOOLEAN, made : Nat,
        low : BOOLEAN]

\* at is the row of the plan being applied (0: no import), name the name to
\* write or the key to create, id and status the person as read.  stale is
\* history: somebody has written that person since.
Request ==
    [pc : {"idle", "find", "rename", "number", "create", "write"}, at : Nat,
     name : Name \cup {"none"}, ordinal : Nat \ {0}, id : Nat, status : Status, stale : BOOLEAN]

Id == 1..Len(people)

Idle ==
    [pc |-> "idle", at |-> 0, name |-> "none", ordinal |-> 1,
     id |-> 0, status |-> NewStatus, stale |-> FALSE]

Taken(key, ordinal) ==
    \E i \in Id : people[i].key = key /\ people[i].ordinal = ordinal

Init ==
    /\ people = <<>>
    /\ plan = [c \in Operator |-> <<>>]
    /\ req = [c \in Operator |-> Idle]

-----------------------------------------------------------------------------
(* The preview: one read of the roster, and nothing written.               *)

Named(name) == {i \in Id : people[i].name = name}

\* The place of a person among those of the same name, by key_ordinal.
Place(i) ==
    Cardinality({j \in Named(people[i].name) :
                    \/ people[j].ordinal < people[i].ordinal
                    \/ people[j].ordinal = people[i].ordinal /\ j <= i})

\* Rows of one name stand together, as build_plan groups them.
Sheets(max) ==
    {s \in UNION {[1..n -> Name] : n \in 1..max} :
        \A a, b \in DOMAIN s : s[a] = s[b] => \A x \in a..b : s[x] = s[a]}

Copies(sheet, y, name) == Cardinality({z \in 1..y : sheet[z] = name})

RankAfterExisting(sheet, y) ==
    Copies(sheet, y, sheet[y]) + Cardinality(Named(sheet[y]))

\* The ordinal suggested to a row that shares its name with others.
Rank(sheet, y) == Copies(sheet, y, sheet[y])

\* Somebody whose name is one letter away and whom no earlier row matched.
RenameCandidates(sheet, y) ==
    {i \in Id : /\ <<people[i].name, sheet[y]>> \in Similar
                /\ Place(i) > Copies(sheet, y - 1, people[i].name)}

Unmoved(name) == \A i \in Named(name) : people[i].key = name

\* What the operator may approve for row y: a collision is numbered by its
\* place in the sheet, an exact match takes the first person of that name,
\* a possible rename is accepted or not, anybody else is new.
Offers(sheet, y) ==
    LET name == sheet[y]
        Offer(ordinal, rename, sure) ==
            [name |-> name, ordinal |-> ordinal, rename |-> rename,
             sure |-> sure, made |-> 0, low |-> FALSE]
    IN  IF Copies(sheet, Len(sheet), name) > 1
        THEN {Offer(Rank(sheet, y), 0,
                    /\ Copies(sheet, y, name) <= Cardinality(Named(name))
                    /\ Unmoved(name))}
        ELSE IF Named(name) # {}
        THEN {Offer(people[i].ordinal, 0, Unmoved(name)) :
                  i \in {j \in Named(name) : Place(j) = 1}}
        ELSE IF RenameCandidates(sheet, y) # {}
        THEN UNION {{Offer(people[i].ordinal, r, r # 0) : r \in {0, i}} :
                       i \in RenameCandidates(sheet, y)}
        ELSE {Offer(1, 0, FALSE)}

\* Which rows are approved, in the order of the sheet.
Selections(n) ==
    {k \in UNION {[1..m -> 1..n] : m \in 1..n} :
        \A a, b \in DOMAIN k : a < b => k[a] < k[b]}

Preview(c) ==
    /\ req[c] = Idle
    /\ \E sheet \in Sheets(SheetRows[c]) :
          \E offers \in {[y \in 1..Len(sheet) |-> Offers(sheet, y)]} :
          \E pick \in Selections(Len(sheet)) :
              \E rows \in [1..Len(pick) -> UNION {offers[y] : y \in 1..Len(sheet)}] :
                 /\ \A x \in 1..Len(pick) : rows[x] \in offers[pick[x]]
                 /\ plan' = [plan EXCEPT ![c] = rows]
    /\ UNCHANGED <<people, req>>

-----------------------------------------------------------------------------
(* The apply handler, statement by statement.  An approved plan can be     *)
(* applied again: after an error, or after an answer that never arrived.   *)

ApplyRow(c, x) ==
    IF x > Len(plan[c]) THEN Idle
    ELSE [Idle EXCEPT !.pc = "find", !.at = x, !.name = plan[c][x].name]

\* The rest of the request: the next row of an import, or the answer.
Continue(c) == IF req[c].at = 0 THEN Idle ELSE ApplyRow(c, req[c].at + 1)

Begin(c, r) ==
    /\ req[c] = Idle
    /\ req' = [req EXCEPT ![c] = r]
    /\ UNCHANGED <<people, plan>>

Apply(c) == plan[c] # <<>> /\ Begin(c, ApplyRow(c, 1))

\* The person as read; the whole row is written back later.
Copy(r, i) ==
    [pc |-> "write", at |-> r.at, name |-> r.name, ordinal |-> r.ordinal,
     id |-> i, status |-> people[i].status, stale |-> FALSE]

Lookup(c, found) ==
    /\ req[c].pc = "find"
    /\ \/ \E i \in found : req' = [req EXCEPT ![c] = Copy(@, i)]
       \/ /\ found = {}
          /\ req' = [req EXCEPT ![c].pc =
                        IF plan[c][req[c].at].rename # 0 THEN "rename" ELSE "number"]
    /\ UNCHANGED <<people, plan>>

FindByName(c) ==
    Lookup(c, {i \in Named(req[c].name) :
                  people[i].ordinal = plan[c][req[c].at].ordinal})

\* find_by_key with the ordinal the client sent, and the branch it decides.
FindByKey(c) ==
    Lookup(c, {i \in Id : /\ people[i].key = req[c].name
                          /\ people[i].ordinal = plan[c][req[c].at].ordinal})

\* The person the operator chose to rename.
ReadRenamed(c) ==
    /\ req[c].pc = "rename"
    /\ req' = [req EXCEPT ![c] = Copy(@, plan[c][@.at].rename)]
    /\ UNCHANGED <<people, plan>>

Numbered(r, o) ==
    [pc |-> "create", at |-> r.at, name |-> r.name, ordinal |-> o,
     id |-> r.id, status |-> r.status, stale |-> r.stale]

FreeFromZero(c) ==
    /\ req[c].pc = "number"
    /\ \E o \in 0..Len(people) :
          /\ ~Taken(req[c].name, o)
          /\ \A p \in 0..(o - 1) : Taken(req[c].name, p)
          /\ req' = [req EXCEPT ![c] = Numbered(@, o)]
    /\ UNCHANGED <<people, plan>>

\* The lowest ordinal of the key that nobody has.
NextFreeOrdinal(c) ==
    /\ req[c].pc = "number"
    /\ \E o \in 1..(Len(people) + 1) :
          /\ ~Taken(req[c].name, o)
          /\ \A p \in 1..(o - 1) : Taken(req[c].name, p)
          /\ req' = [req EXCEPT ![c] = Numbered(@, o)]
    /\ UNCHANGED <<people, plan>>

Insert(c) ==
    people' = Append(people, [key |-> req[c].name, ordinal |-> req[c].ordinal,
                              name |-> req[c].name, status |-> NewStatus])

OneMore(r, ordinal) ==
    [r EXCEPT !.made = r.made + 1, !.low = r.low \/ ordinal < r.ordinal]

Created(c) ==
    /\ req' = [req EXCEPT ![c] = Continue(c)]
    /\ IF req[c].at = 0 THEN UNCHANGED plan
       ELSE plan' = [plan EXCEPT ![c][req[c].at] = OneMore(@, req[c].ordinal)]

CreateUnindexed(c) ==
    /\ req[c].pc = "create"
    /\ Len(people) < MaxPeople
    /\ Insert(c)
    /\ Created(c)

\* The INSERT; the unique index on (event_id, source_key, key_ordinal) makes
\* it raise when somebody else has taken the ordinal, which ends the request.
CreateAttendee(c) ==
    /\ req[c].pc = "create"
    /\ IF Taken(req[c].name, req[c].ordinal)
       THEN req' = [req EXCEPT ![c] = Idle] /\ UNCHANGED <<people, plan>>
       ELSE Len(people) < MaxPeople /\ Insert(c) /\ Created(c)

\* Somebody writes person i: every other copy of it is old now.
Outdated(r, i) ==
    [d \in Operator |-> [r[d] EXCEPT !.stale = @ \/ (r[d].pc = "write" /\ r[d].id = i)]]

WriteBack(c, status) ==
    /\ req[c].pc = "write"
    /\ people' = [people EXCEPT ![req[c].id] =
                     [key |-> @.key, ordinal |-> @.ordinal,
                      name |-> req[c].name, status |-> status]]
    /\ req' = Outdated([req EXCEPT ![c] = Continue(c)], req[c].id)
    /\ UNCHANGED plan

UpdateWithDefaults(c) == WriteBack(c, NewStatus)

\* UPDATE_ATTENDEE: the new name, and the status as it was read.
UpdateAttendee(c) == WriteBack(c, req[c].status)

-----------------------------------------------------------------------------
(* Other handlers over the same people.                                    *)

\* POST attendees: a person added by hand.
AddByHand(c, name) == Begin(c, [Idle EXCEPT !.pc = "number", !.name = name])

\* PUT attendees/{id}: reads the person; UpdateAttendee writes it back.
EditByHand(c, i, name) == Begin(c, Copy([Idle EXCEPT !.name = name], i))

\* PATCH attendees/{id}/status: one statement that writes the status alone.
SetStatus(i, status) ==
    /\ i <= MaxPatched
    /\ people' = [people EXCEPT ![i].status = status]
    /\ req' = Outdated(req, i)
    /\ UNCHANGED plan

\* A statement raises or the instance stops.
Abort(c) ==
    /\ req[c] # Idle
    /\ req' = [req EXCEPT ![c] = Idle]
    /\ UNCHANGED <<people, plan>>

Next ==
    \/ \E c \in Operator :
          \/ Preview(c) \/ Apply(c)
          \/ FindByKey(c) \/ ReadRenamed(c) \/ NextFreeOrdinal(c)
          \/ CreateAttendee(c) \/ UpdateAttendee(c)
          \/ Abort(c)
    \/ \E c \in Clerk, name \in Name :
          AddByHand(c, name) \/ \E i \in Id : EditByHand(c, i, name)
    \/ \E i \in Id, status \in Status : SetStatus(i, status)

Spec == Init /\ [][Next]_vars

-----------------------------------------------------------------------------
(* Type invariant.                                                         *)
TypeOK ==
    /\ people \in Seq(Person)
    /\ plan \in [Operator -> Seq(Row)]
    /\ req \in [Operator -> Request]

\* "They should be contiguous: 1, then 2" (next_free_ordinal): whatever
\* overlaps, the people of a key are numbered from 1 without gap or repeat.
OrdinalsContiguous ==
    \A i \in Id :
        /\ \A o \in 1..people[i].ordinal : Taken(people[i].key, o)
        /\ \A j \in Id : /\ people[j].key = people[i].key
                          /\ people[j].ordinal = people[i].ordinal => j = i

\* Applying an approved row again and again, with anything in between, creates
\* at most one person, unless one of those it created was numbered below the
\* row: then the row is still not found, up to the number of its ordinal.
SecondNeedsLow ==
    \A c \in Operator : \A x \in DOMAIN plan[c] :
        \/ plan[c][x].made <= 1
        \/ plan[c][x].low /\ plan[c][x].made <= plan[c][x].ordinal

\* "Re-applying the same rows updates rather than duplicates" (roster.py).
ReapplyUpdates ==
    \A c \in Operator : \A x \in DOMAIN plan[c] : plan[c][x].made <= 1

\* A row that the preview showed as somebody already known never creates a
\* person, provided nobody of that name had been renamed by then.
KnownRowsUpdate ==
    \A c \in Operator : \A x \in DOMAIN plan[c] : plan[c][x].sure => plan[c][x].made = 0

\* An import or an edit undoes a status only if somebody wrote the person
\* between its read and its write.
StatusUndoneByStale ==
    [][\A c \in Operator :
          req[c].pc = "write" /\ req'[c].pc # "write" /\ ~req[c].stale
              => people'[req[c].id].status = people[req[c].id].status]_vars
=============================================================================
