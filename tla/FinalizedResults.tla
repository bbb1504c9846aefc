-------------------------- MODULE FinalizedResults --------------------------
(***************************************************************************)
(* The finalized results of ONE event: POST /v1/scores/finalized replaces  *)
(* them by one DELETE and one INSERT per result, each a statement of its   *)
(* own, while other organizers save and reports read.                      *)
(*                                                                         *)
(* A line stands for one result of the Finalizer page: a patrol's overall  *)
(* score or its score at one station.  Its value is abstracted to the save *)
(* that wrote it.  The payload of a save holds a line at most once, and a  *)
(* save may know only some of the lines (patrols and stations are loaded   *)
(* with the page).  Readers (GET, the compiled reports) take the table in  *)
(* one statement, so what they see is what an invariant says of rows.      *)
(***************************************************************************)
EXTENDS Naturals, Sequences

CONSTANTS
    Saver,         \* organizers' requests that can be in flight at once
    Line,          \* result lines of the event
    MaxSaves       \* bound on the saves, for model checking

ASSUME ResultsAssumption == MaxSaves \in Nat

VARIABLES
    rows,      \* event_finalized_results: a set of [line, save]
    saving,    \* what each request in flight still has to insert
    log        \* history: the saves, in the order of their DELETEs

vars == <<rows, saving, log>>

Row == [line : Line, save : Nat \ {0}]

\* The save a request is busy with (0: none) and the lines not yet inserted.
Request == [save : Nat, left : SUBSET Line]

\* lines is the payload, flying the saves in flight at this save's DELETE,
\* answered whether the client was told "saved".
Save == [lines : SUBSET Line, flying : SUBSET Nat, answered : BOOLEAN]

Idle == [save |-> 0, left |-> {}]

Newest == Len(log)

Init ==
    /\ rows = {}
    /\ saving = [c \in Saver |-> Idle]
    /\ log = <<>>

InFlight == {saving[c].save : c \in {d \in Saver : saving[d] # Idle}}

-----------------------------------------------------------------------------

\* The request arrives and its DELETE runs.
Enter(c, lines) ==
    /\ saving[c] = Idle
    /\ Len(log) < MaxSaves
    /\ saving' = [saving EXCEPT ![c] = [save |-> Newest + 1, left |-> lines]]
    /\ log' = Append(log, [lines |-> lines, flying |-> InFlight, answered |-> FALSE])

StartKeepingRows(c, lines) ==
    /\ Enter(c, lines)
    /\ UNCHANGED rows

Start(c, lines) ==
    /\ Enter(c, lines)
    /\ rows' = {}

InsertSkipping(c) ==
    /\ \E l \in saving[c].left :
          saving' = [saving EXCEPT ![c].left = @ \ {l}]
    /\ UNCHANGED <<rows, log>>

InsertUnasked(c) ==
    /\ \E l \in Line :
          /\ rows' = rows \cup {[line |-> l, save |-> saving[c].save]}
          /\ saving' = [saving EXCEPT ![c].left = @ \ {l}]
    /\ UNCHANGED log

\* One INSERT of the loop over the payload.
Insert(c) ==
    /\ \E l \in saving[c].left :
          /\ rows' = rows \cup {[line |-> l, save |-> saving[c].save]}
          /\ saving' = [saving EXCEPT ![c].left = @ \ {l}]
    /\ UNCHANGED log

\* {"status": "saved"}
Answer(c) ==
    /\ saving[c] # Idle /\ saving[c].left = {}
    /\ log' = [log EXCEPT ![saving[c].save].answered = TRUE]
    /\ saving' = [saving EXCEPT ![c] = Idle]
    /\ UNCHANGED rows

\* A row without patrolId, a score that is no number, a failing statement or
\* a stopped instance: the rows written so far stay.
Abort(c) ==
    /\ saving[c] # Idle
    /\ saving' = [saving EXCEPT ![c] = Idle]
    /\ UNCHANGED <<rows, log>>

Next ==
    \E c \in Saver :
        \/ \E lines \in SUBSET Line : Start(c, lines)
        \/ Insert(c)
        \/ Answer(c)
        \/ Abort(c)

Spec == Init /\ [][Next]_vars

-----------------------------------------------------------------------------
(* Type invariant.                                                         *)
TypeOK ==
    /\ rows \subseteq Row
    /\ saving \in [Saver -> Request]
    /\ log \in Seq(Save)

\* The newest save that was answered "saved" is in the table completely,
\* whatever older saves are still inserting and wherever they fail.
AnsweredIsWhole ==
    Newest # 0 /\ log[Newest].answered
        => \A l \in log[Newest].lines : [line |-> l, save |-> Newest] \in rows

\* "Replace stored finalized results for an event" (drivers/store/scores.py):
\* a result of an older save is left in the table only if that save was still
\* in flight at every later DELETE, so saves that do not overlap never mix.
StaleNeedsOverlap ==
    \A r \in rows : \A k \in (r.save + 1)..Newest : r.save \in log[k].flying

=============================================================================
