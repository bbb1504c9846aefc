------------------------------ MODULE TaskLists ------------------------------
(***************************************************************************)
(* The list of tasks of one station or of one configuration preset, as an  *)
(* organiser edits it (StationEditor.jsx, ConfigurationEditor.jsx) and as  *)
(* the server merges it into station_tasks.                                *)
(*                                                                         *)
(* One page is modelled in detail.  The task being edited sits in a panel  *)
(* under the list, remembered by its POSITION, while the buttons of the    *)
(* list stay live.  Colleagues save the same list in single steps.         *)
(* Whether the list is a station's or a preset's is chosen once.           *)
(*                                                                         *)
(* The list is stored twice: as rows of station_tasks, and as JSON in the  *)
(* row of the station or the preset.  The JSON is read if there is no row. *)
(***************************************************************************)
EXTENDS Naturals, FiniteSets, Sequences, SequencesExt

CONSTANTS
    Stored,      \* the tasks the list has at first
    New,         \* ids still to be given out, by a page or by the server
    Foreign,     \* tasks of another preset, as an exported file names them
    MaxLength,   \* bound on the list in the form
    MaxScored,   \* bound on the tasks with scores
    NoPanel

ASSUME TasksAssumption ==
    /\ IsFiniteSet(Stored \cup New) /\ Cardinality(Stored) <= MaxLength
    /\ (Stored \cup New) \cap Foreign = {}
    /\ {"no id", "hole"} \cap (Stored \cup New \cup Foreign) = {}
    /\ MaxLength \in Nat \ {0} /\ MaxScored \in Nat

VARIABLES
    owner,       \* whose list it is: "station" or "preset"
    rows,        \* the rows of station_tasks that belong to the list
    json,        \* stations.tasks or configurations.value
    scored,      \* tasks that scores refer to
    form,        \* the page
    slipped,     \* history: a task was deleted while another was edited
    mixed        \* history: the list took in what it had not loaded, or
                 \* somebody else saved between its load and its save

taskVars == <<owner, rows, json, scored, form, slipped, mixed>>

Own == Stored \cup New
Ids == Own \cup Foreign

\* A task whose id the server is to give, and the gap an assignment behind
\* the end of an array leaves.
NoId == "no id"
Hole == "hole"
Entry == Ids \cup {NoId, Hole}

\* The deleted task stays as a row that is switched off if it has scores.
RowState == {"absent", "active", "inactive"}

Listed(l) == ToSet(l) \cap Ids
Exists(t) == rows[t] # "absent"
Existing == {t \in Own : Exists(t)}

\* _load_tasks_for_station, _load_tasks_for_config: the tasks in the order of
\* their ids, or the JSON.  A task that is switched off has scores, so its row
\* stays and no JSON that is read holds it.
Read == IF Existing # {} THEN SetToSeq(Existing) ELSE json

\* Fit for the rows: no task twice, no gap and none of another preset.
Sound(l) == IsInjective(l) /\ ToSet(l) \subseteq Own

\* update, update_configuration: a station without tasks gets a NULL, a preset
\* without tasks keeps the value it had.
Column(l) == IF l = <<>> /\ owner = "preset" THEN json ELSE l

-----------------------------------------------------------------------------
(* The page.  off: the tasks it loaded as switched off; kept: the tasks it  *)
(* loaded and its organiser neither deleted nor replaced; panel: the task   *)
(* editor, with index 0 for a new task; seen: the rows its save has read.   *)

FormState ==
    [open : BOOLEAN, list : BoundedSeq(Entry, MaxLength), off : SUBSET Own,
     kept : SUBSET Own,
     panel : [mode : {"create", "edit"}, index : 1..(MaxLength + 1), task : Entry] \cup {NoPanel},
     seen : SUBSET Own, saving : BOOLEAN, sending : BoundedSeq(Entry, MaxLength)]

Closed == [open |-> FALSE, list |-> <<>>, off |-> {}, kept |-> {},
           panel |-> NoPanel, seen |-> {}, saving |-> FALSE, sending |-> <<>>]

Panel(mode, index, task) == [mode |-> mode, index |-> index, task |-> task]

TasksInit ==
    /\ owner \in {"station", "preset"}
    /\ rows = [t \in Own |-> IF t \in Stored THEN "active" ELSE "absent"]
    /\ json = SetToSeq(Stored)
    /\ scored = {}
    /\ form = Closed
    /\ slipped = FALSE
    /\ mixed = FALSE

OnForm(f) ==
    /\ form' = f
    /\ UNCHANGED <<owner, rows, json, scored, slipped, mixed>>

\* A save disables both buttons at the foot of a page, and on the preset's
\* page all others too; the station's goes on being edited.
AtFoot == form.open /\ ~form.saving
StationPage == form.open /\ owner = "station"
PresetPage == AtFoot /\ owner = "preset"
Editable == StationPage \/ PresetPage

\* loadData and load.  A failed load leaves a form that cannot be saved, for it
\* has neither a name nor a type; a list with a gap cannot be drawn.  The JSON
\* of a save that failed may hold a task twice or one of another preset.
LoadTasks ==
    /\ ~form.open
    /\ Len(Read) <= MaxLength /\ Hole \notin ToSet(Read)
    /\ form' = [Closed EXCEPT !.open = TRUE, !.list = Read, !.kept = ToSet(Read) \cap Own,
                   !.off = {t \in Own : rows[t] = "inactive"}]
    /\ slipped' = FALSE
    /\ mixed' = ~Sound(Read)
    /\ UNCHANGED <<owner, rows, json, scored>>

CancelForm == AtFoot /\ OnForm(Closed)

\* The ids that were never given out.
Unused ==
    {n \in New : /\ ~Exists(n) /\ n \notin ToSet(json)
                 /\ n \notin Listed(form.list) \cup Listed(form.sending)
                 /\ form.panel # NoPanel => n # form.panel.task}

\* openCreateTask: the id is made by the station's page, and the position is
\* that behind the end ...
OpenCreateTask ==
    /\ StationPage
    /\ \E t \in Unused : OnForm([form EXCEPT !.panel = Panel("create", Len(form.list) + 1, t)])

\* ... and is left to the server by the preset's, which keeps no position.
OpenPresetTask ==
    /\ PresetPage
    /\ OnForm([form EXCEPT !.panel = Panel("create", MaxLength + 1, NoId)])

\* Mutant: the position is counted from one, the array from zero.
OpenEditTaskShifted(i) ==
    /\ Editable /\ i \in DOMAIN form.list /\ form.list[i] # Hole
    /\ OnForm([form EXCEPT !.panel = Panel("edit", i + 1, form.list[i])])

\* openEditTask: a copy of the task and its position.
OpenEditTask(i) ==
    /\ Editable /\ i \in DOMAIN form.list /\ form.list[i] # Hole
    /\ OnForm([form EXCEPT !.panel = Panel("edit", i, form.list[i])])

CloseTask == Editable /\ form.panel # NoPanel /\ OnForm([form EXCEPT !.panel = NoPanel])

\* nextTasks[index] = task: an array assignment, also behind the end.
ArrayWith(l, i, t) ==
    [j \in 1..(IF i > Len(l) THEN i ELSE Len(l)) |->
        IF j = i THEN t ELSE IF j <= Len(l) THEN l[j] ELSE Hole]

SaveTask ==
    /\ Editable /\ form.panel # NoPanel
    /\ LET p == form.panel IN
       IF p.mode = "create"
       THEN /\ Len(form.list) < MaxLength
            /\ OnForm([form EXCEPT !.list = Append(@, p.task), !.panel = NoPanel])
       ELSE OnForm([form EXCEPT !.list = ArrayWith(@, p.index, p.task), !.panel = NoPanel])

Without(i) ==
    [form EXCEPT !.list = RemoveAt(@, i), !.kept = @ \ {form.list[i]}]

Editing == form.panel # NoPanel /\ form.panel.mode = "edit"

\* deleteTask of the station's page closes a panel of that position only.
DeleteTask(i) ==
    /\ StationPage /\ i \in DOMAIN form.list /\ form.list[i] # Hole
    /\ LET own == form.panel # NoPanel /\ form.panel.index = i
       IN  /\ form' = [Without(i) EXCEPT !.panel = IF own THEN NoPanel ELSE @]
           /\ slipped' = (slipped \/ (Editing /\ ~own))
    /\ UNCHANGED <<owner, rows, json, scored, mixed>>

\* removeTask of the preset's page closes no panel.
RemoveTask(i) ==
    /\ PresetPage /\ i \in DOMAIN form.list /\ form.list[i] # Hole
    /\ form' = Without(i)
    /\ slipped' = (slipped \/ Editing)
    /\ UNCHANGED <<owner, rows, json, scored, mixed>>

\* handleGroupChange, handleConfigurationChange: after a confirmation, the
\* tasks of the chosen preset, without their ids.
ChoosePreset ==
    /\ StationPage
    /\ \E n \in 0..1 :
          OnForm([form EXCEPT !.list = [i \in 1..n |-> NoId], !.kept = {}])

\* handleImport: the tasks of a file, with the ids they were exported with.
ImportFile ==
    /\ PresetPage
    /\ \E t \in Foreign \cup {NoId} :
          form' = [form EXCEPT !.list = <<t>>, !.kept = {}]
    /\ mixed' = TRUE
    /\ UNCHANGED <<owner, rows, json, scored, slipped>>

-----------------------------------------------------------------------------
(* Saving.  A colleague's save may come between the UPDATE and the writes   *)
(* to the rows, or between the read of the existing rows and the writes.    *)

\* The list as the server completes it: every entry without an id gets one.
Nameless == {i \in DOMAIN form.list : form.list[i] = NoId}

CompletedLists ==
    {[i \in DOMAIN form.list |-> IF i \in Nameless THEN id[i] ELSE form.list[i]] :
        id \in Injection(Nameless, Unused)}

\* saveStation, handleSave: the UPDATE of the station or the preset, and the
\* read of the existing rows.  A save that fails before them changes nothing.
PressSave ==
    /\ AtFoot
    /\ \E l \in CompletedLists :
          /\ form' = [form EXCEPT !.saving = TRUE, !.seen = Existing, !.sending = l]
          /\ json' = Column(l)
    /\ UNCHANGED <<owner, rows, scored, slipped, mixed>>

SentActive(t) == IF t \in form.off THEN "inactive" ELSE "active"

\* The first k entries written, one by one: an UPDATE of a task that was there
\* when the rows were read and does nothing if it is gone, else an INSERT.
StationWrites(l, k) ==
    [t \in Own |-> IF \A i \in 1..k : l[i] # t THEN rows[t]
                   ELSE IF t \in form.seen /\ ~Exists(t) THEN "absent"
                   ELSE SentActive(t)]

\* An INSERT is refused for an id that is in the table.
Refuses(l, k) ==
    /\ k \in DOMAIN l /\ l[k] # Hole
    /\ IF owner = "station"
       THEN l[k] \notin form.seen /\ (Exists(l[k]) \/ \E i \in 1..(k-1) : l[i] = l[k])
       ELSE l[k] \in Foreign \/ \E i \in 1..(k-1) : l[i] = l[k]

\* A preset's sync takes a hole for a task and fails; a station's skips it.
Breaks(l, k) == k \in DOMAIN l /\ l[k] = Hole /\ owner = "preset"

\* Mutant: only tasks with scores are dealt with.
RemovedIfScored(r, l) ==
    [t \in Own |-> IF t \in (form.seen \cap scored) \ ToSet(l) /\ r[t] # "absent"
                   THEN "inactive" ELSE r[t]]

\* The removal: deleted, or switched off if a score refers to it.
Removed(r, l) ==
    [t \in Own |-> IF t \in form.seen \ ToSet(l) /\ r[t] # "absent"
                   THEN IF t \in scored THEN "inactive" ELSE "absent"
                   ELSE r[t]]

\* A preset's rows are all deleted first.
PresetWrites(l, k) ==
    [t \in Own |-> IF \E i \in 1..k : l[i] = t THEN SentActive(t) ELSE "absent"]

WrittenSoFar(l, k) == IF owner = "station" THEN StationWrites(l, k) ELSE PresetWrites(l, k)

Completed(l) ==
    IF owner = "station" THEN Removed(StationWrites(l, Len(l)), l)
    ELSE PresetWrites(l, Len(l))

Accepts(l, k) == ~Refuses(l, k) /\ ~Breaks(l, k)

Stopped == [form EXCEPT !.saving = FALSE, !.seen = {}, !.sending = <<>>]

SaveDone ==
    /\ form.saving
    /\ \A k \in DOMAIN form.sending : Accepts(form.sending, k)
    /\ rows' = Completed(form.sending)
    /\ form' = Closed
    /\ UNCHANGED <<owner, json, scored, slipped, mixed>>

\* The database refuses an entry; those before it are written.
SaveRefused ==
    /\ form.saving
    /\ \E k \in DOMAIN form.sending :
          /\ ~Accepts(form.sending, k)
          /\ \A j \in 1..(k-1) : Accepts(form.sending, j)
          /\ rows' = WrittenSoFar(form.sending, k - 1)
    /\ form' = Stopped
    /\ UNCHANGED <<owner, json, scored, slipped, mixed>>

\* A statement fails for another reason, or the answer is lost.  What was
\* written stays, and the form is no longer what the table was loaded as.
SaveFails ==
    /\ form.saving
    /\ \/ \E k \in 0..Len(form.sending) :
             /\ \A j \in 1..k : Accepts(form.sending, j)
             /\ rows' = WrittenSoFar(form.sending, k)
       \/ rows' = rows
    /\ form' = Stopped
    /\ mixed' = TRUE
    /\ UNCHANGED <<owner, json, scored, slipped>>

\* A colleague's whole save: some tasks of the list go, one may come.
ColleagueSaves ==
    /\ Sound(Read)
    /\ \E out \in SUBSET ToSet(Read), in \in SUBSET Unused :
          /\ Cardinality(in) + Cardinality(out) = 1
          /\ rows' = [t \in Own |->
                IF t \in in \/ (t \in ToSet(Read) \ out /\ ~Exists(t)) THEN "active"
                ELSE IF t \in out
                     THEN IF owner = "station" /\ t \in scored THEN "inactive" ELSE "absent"
                ELSE rows[t]]
          /\ json' = Column(SetToSeq((ToSet(Read) \ out) \cup in))
    /\ mixed' = (mixed \/ form.open)
    /\ UNCHANGED <<owner, scored, form, slipped>>

\* A patrol's score refers to a task of the station.
TaskScored ==
    /\ owner = "station" /\ Cardinality(scored) < MaxScored
    /\ \E t \in Existing \ scored : scored' = scored \cup {t}
    /\ UNCHANGED <<owner, rows, json, form, slipped, mixed>>

TasksNext ==
    \/ LoadTasks \/ CancelForm \/ OpenCreateTask \/ OpenPresetTask \/ CloseTask \/ SaveTask
    \/ \E i \in 1..MaxLength : OpenEditTask(i) \/ DeleteTask(i) \/ RemoveTask(i)
    \/ ChoosePreset \/ ImportFile
    \/ PressSave \/ SaveDone \/ SaveRefused \/ SaveFails
    \/ ColleagueSaves \/ TaskScored

TasksSpec == TasksInit /\ [][TasksNext]_taskVars

-----------------------------------------------------------------------------
TasksTypeOK ==
    /\ owner \in {"station", "preset"}
    /\ rows \in [Own -> RowState]
    /\ json \in Seq(Entry)
    /\ scored \subseteq Own
    /\ form \in FormState
    /\ slipped \in BOOLEAN /\ mixed \in BOOLEAN

\* A task the page loaded is in its list until the organiser deletes it or
\* replaces the list, unless a task was deleted while another was edited: the
\* panel then writes over whatever has moved to its position.
TaskLostBySlip == slipped \/ form.kept \subseteq Listed(form.list)

\* The active tasks of a list that is read; a gap is no task.
ReadActive == {t \in Listed(Read) : t \in Existing => rows[t] = "active"}

\* The database refuses a list only if such a slip doubled a task or left a
\* gap, or a file was imported, or others saved meanwhile.  After an answered
\* save the active tasks that are read are exactly those sent.  Only a preset
\* that was sent without tasks is read with those of its last save that had
\* any: its JSON stays behind when its rows go.
SavedAsSent ==
    [][~mixed /\ ~slipped =>
          /\ ~SaveRefused
          /\ SaveDone =>
                IF owner = "preset" /\ form.sending = <<>> THEN Read' = json
                ELSE ReadActive' = Listed(form.sending) \ form.off]_taskVars

=============================================================================
