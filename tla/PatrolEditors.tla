---------------------------- MODULE PatrolEditors ----------------------------
(***************************************************************************)
(* Organisers composing patrols: the patrol editor (PatrolEditor.jsx), the *)
(* picker that offers the youth of the roster (TroopMemberPicker.jsx), the *)
(* list with its delete button (Patrols.jsx), and the patrols of the store.*)
(*                                                                         *)
(* A page works on the patrol as it loaded it and sends it whole; the      *)
(* picker offers whoever the server saw on no patrol when the troop was    *)
(* chosen.  A page that waits shows a spinner, so a load and its answer    *)
(* are one step.  The statements of one update are taken as one step that  *)
(* may fail after any member.  Names, radios and ranks are left out.       *)
(***************************************************************************)
EXTENDS Naturals, FiniteSets, FiniteSetsExt

CONSTANTS
    Editor,      \* organisers' pages
    Patrol,      \* the patrols that can exist at once
    Youth,       \* the attendees who can be on a patrol
    Typed,       \* those whose name somebody also types in by hand
    MaxNumber,   \* bound on the patrol numbers given out
    NoPatrol

ASSUME PatrolsAssumption == Typed \subseteq Youth /\ NoPatrol \notin Patrol /\ MaxNumber \in Nat

VARIABLES
    patrols,     \* the rows of patrols and patrol_members, by patrol
    editor,      \* what each organiser's page shows and waits for
    misfit       \* history: a page that no longer knew the patrols saved

patrolVars == <<patrols, editor, misfit>>

-----------------------------------------------------------------------------
(* Members and patrols.                                                    *)

\* A member row refers to its attendee ("linked") or only bears the name.
Link == {"linked", "named"}
Member == Youth \X Link

NoNumber == 0
PatrolRow == [here : BOOLEAN, number : 0..MaxNumber, members : SUBSET Member]

Present == {p \in Patrol : patrols[p].here}

\* attendee_assignments: the youth whose attendee row is on some patrol.
OnSomePatrol == {y \in Youth : \E p \in Present : <<y, "linked">> \in patrols[p].members}

\* Mutant: the next number is counted.
NextNumberCounted == Cardinality(Present) + 1

\* next_number: MAX + 1, so that the number of a deleted patrol may return.
NextNumber == Max({patrols[p].number : p \in Present} \cup {NoNumber}) + 1

-----------------------------------------------------------------------------
(* A page.  offered: the youth the picker shows as on no patrol.  fresh:    *)
(* nothing was written since the page was opened.  dropped: the youth taken *)
(* off a stored patrol by hand, as long as the form is fresh.               *)

Screen == {"list", "edit", "create"}
Call == {"none", "numbered"}

EditorState ==
    [screen : Screen, of : Patrol \cup {NoPatrol}, number : 0..MaxNumber,
     members : SUBSET Member, offered : SUBSET Youth, dropped : SUBSET Youth,
     fresh : BOOLEAN, call : Call]

\* EMPTY_PATROL, which is also what a failed load leaves in the form.
Blank == [screen |-> "list", of |-> NoPatrol, number |-> NoNumber, members |-> {},
          offered |-> {}, dropped |-> {}, fresh |-> TRUE, call |-> "none"]

PatrolsInit ==
    /\ patrols = [p \in Patrol |-> [here |-> FALSE, number |-> NoNumber, members |-> {}]]
    /\ editor = [e \in Editor |-> Blank]
    /\ misfit = FALSE

FormIdle(e) == editor[e].screen # "list" /\ editor[e].call = "none"
OnList(e) == editor[e].screen = "list"
Saves(e, screen) == editor[e].screen = screen /\ FormIdle(e)

Becomes(e, r) ==
    /\ editor' = [editor EXCEPT ![e] = r]
    /\ UNCHANGED <<patrols, misfit>>

\* The create page loads nothing.
OpenCreate(e) ==
    /\ OnList(e)
    /\ Becomes(e, [Blank EXCEPT !.screen = "create"])

OpenEdit(e) ==
    /\ OnList(e)
    /\ \E p \in Present :
          Becomes(e, [Blank EXCEPT !.screen = "edit", !.of = p,
                         !.number = patrols[p].number, !.members = patrols[p].members])

\* loadPatrol fails: an error over a form that is empty and can be saved.
OpenFails(e) ==
    /\ OnList(e)
    /\ \E p \in Present :
          Becomes(e, [Blank EXCEPT !.screen = "edit", !.of = p, !.fresh = FALSE])

Leave(e) == FormIdle(e) /\ Becomes(e, Blank)

\* The picker asks for the youth of a troop, with their assignments.
ChooseTroop(e) ==
    /\ FormIdle(e)
    /\ Becomes(e, [editor[e] EXCEPT !.offered = Youth \ OnSomePatrol])

\* A youth the form already has, by attendee or by name, is not offered.
AlreadyAdded(e, y) == \E k \in Link : <<y, k>> \in editor[e].members

Selectable(e, y) == FormIdle(e) /\ y \in editor[e].offered /\ ~AlreadyAdded(e, y)

PickYouth(e, y) ==
    /\ Selectable(e, y)
    /\ Becomes(e, [editor[e] EXCEPT !.members = @ \cup {<<y, "linked">>},
                                    !.dropped = @ \ {y}])

\* The form under the table takes anybody's name, rank and troop.
TypedIn(e, y) == FormIdle(e) /\ y \in Typed

\* addMember without a member being edited: whoever is typed in.
AddByHand(e, y) ==
    /\ TypedIn(e, y)
    /\ Becomes(e, [editor[e] EXCEPT !.members = @ \cup {<<y, "named">>},
                                    !.dropped = @ \ {y}])

\* editMember and addMember: the row is built anew from id, name, rank and
\* troop, so that it no longer refers to the attendee.
Rebuilt(m) == <<m[1], "named">>

\* Each row of the table has its Edit and its Remove.
InTable(e, m) == FormIdle(e) /\ m \in editor[e].members

\* Mutant: the member being edited leaves the table until it is added again.
EditMemberTakesOut(e, m) ==
    /\ InTable(e, m)
    /\ Becomes(e, [editor[e] EXCEPT !.members = @ \ {m}])

EditMember(e, m) ==
    /\ InTable(e, m)
    /\ Becomes(e, [editor[e] EXCEPT !.members = (@ \ {m}) \cup {Rebuilt(m)}])

Dropped(e, m) ==
    IF Saves(e, "edit") /\ editor[e].fresh THEN editor[e].dropped \cup {m[1]} ELSE {}

RemoveMember(e, m) ==
    /\ InTable(e, m)
    /\ Becomes(e, [editor[e] EXCEPT !.members = @ \ {m}, !.dropped = Dropped(e, m)])

-----------------------------------------------------------------------------
(* savePatrol and the server.  A page that waits does nothing else, so a   *)
(* request is sent with the step that takes it.                            *)

\* Every other open page has now loaded something else than what is stored,
\* and so has the page of e itself unless it leaves.
OtherForms(e, r) ==
    [f \in Editor |-> IF f = e THEN r
                      ELSE IF OnList(f) THEN editor[f]
                      ELSE [editor[f] EXCEPT !.fresh = FALSE, !.dropped = {}]]

FormAfterFailure(e) ==
    [editor[e] EXCEPT !.call = "none", !.fresh = FALSE, !.dropped = {},
                      !.number = IF editor[e].screen = "create" THEN NoNumber ELSE @]

\* Of the members sent, those inserted before a statement failed; a request
\* that succeeds inserts all of them.
StoreMembers(e, p, number) ==
    \/ /\ patrols' = [patrols EXCEPT ![p] =
             [here |-> TRUE, number |-> number, members |-> editor[e].members]]
       /\ \/ editor' = OtherForms(e, Blank)
          \/ editor' = OtherForms(e, FormAfterFailure(e))      \* the answer is lost
    \/ \E some \in SUBSET editor[e].members :
          /\ patrols' = [patrols EXCEPT ![p] =
                [here |-> TRUE, number |-> number, members |-> some]]
          /\ editor' = OtherForms(e, FormAfterFailure(e))

\* on_put: 404 for a patrol that was deleted.
Update(e) ==
    /\ Saves(e, "edit")
    /\ patrols[editor[e].of].here
    /\ StoreMembers(e, editor[e].of, editor[e].number)
    /\ misfit' = (misfit \/ ~editor[e].fresh)

\* on_post reads the largest number first ...
TakeNumber(e) ==
    /\ Saves(e, "create")
    /\ NextNumber <= MaxNumber
    /\ Becomes(e, [editor[e] EXCEPT !.call = "numbered", !.number = NextNumber])

\* ... and inserts the patrol next, then its members.
Create(e) ==
    /\ editor[e].call = "numbered"
    /\ \E p \in Patrol \ Present : StoreMembers(e, p, editor[e].number)
    /\ misfit' = (misfit \/ ~editor[e].fresh)

\* The insert of the patrol fails.  A request refused or lost before that
\* leaves everything as it was.
RequestFails(e) ==
    /\ editor[e].call = "numbered"
    /\ Becomes(e, [editor[e] EXCEPT !.call = "none", !.number = NoNumber])

\* deletePatrol of the list; its members go with it.
Delete(e) ==
    /\ OnList(e)
    /\ \E p \in Present :
          /\ patrols' = [patrols EXCEPT ![p] =
                [here |-> FALSE, number |-> NoNumber, members |-> {}]]
          /\ editor' = OtherForms(e, editor[e])
    /\ UNCHANGED misfit

PatrolsNext ==
    \E e \in Editor :
       \/ OpenCreate(e) \/ OpenEdit(e) \/ OpenFails(e) \/ Leave(e)
       \/ ChooseTroop(e)
       \/ \E y \in Youth : PickYouth(e, y) \/ AddByHand(e, y)
       \/ \E m \in Member : EditMember(e, m) \/ RemoveMember(e, m)
       \/ Update(e) \/ TakeNumber(e) \/ Create(e) \/ RequestFails(e) \/ Delete(e)

PatrolsSpec == PatrolsInit /\ [][PatrolsNext]_patrolVars

-----------------------------------------------------------------------------
PatrolsTypeOK ==
    /\ patrols \in [Patrol -> PatrolRow]
    /\ editor \in [Editor -> EditorState]
    /\ misfit \in BOOLEAN

On(y) == {p \in Present : \E k \in Link : <<y, k>> \in patrols[p].members}

\* Patrol numbers are what people call a patrol on a radio: two patrols share
\* one only if a page saved that no longer knew what was stored: another
\* organiser had written since it was opened, or two creations overlapped.
NumbersDiffer ==
    misfit \/ \A p, q \in Present : p # q => patrols[p].number # patrols[q].number

\* A youth disappears from a patrol only because the organiser whose save is
\* taken removed them, or worked from a form that was not the stored patrol,
\* or because the save failed halfway.
LossHasCause ==
    [][\A p \in Present, y \in Youth :
         (patrols'[p].here /\ (\E k \in Link : <<y, k>> \in patrols[p].members)
                           /\ (\A k \in Link : <<y, k>> \notin patrols'[p].members))
         => \E e \in Editor : /\ editor[e].screen = "edit" /\ editor[e].of = p
                              /\ y \in editor[e].dropped \/ ~editor[e].fresh \/ ~editor'[e].fresh]_patrolVars

\* "so the same child is never placed twice" (TroopMemberPicker.jsx): with one
\* organiser, no failure and nobody typed in by hand, a youth is on one patrol.
PlacedOnce ==
    misfit \/ \A y \in Youth : Cardinality(On(y)) <= 1

=============================================================================
