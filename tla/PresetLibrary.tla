---------------------------- MODULE PresetLibrary ----------------------------
(***************************************************************************)
(* Station types and the presets filed under them: the page of both lists  *)
(* (Configurations.jsx) and the handlers behind it                         *)
(* (configuration_groups.py, configurations.py).  The page forbids to      *)
(* delete a type that has presets by looking at its own list; the database *)
(* deletes the presets along with the type (ON DELETE CASCADE).  What a    *)
(* request reads is taken with its answer.                                 *)
(***************************************************************************)
EXTENDS Naturals, FiniteSets

CONSTANTS
    Keeper,      \* organisers
    Type,        \* station types (configuration_groups)
    Preset,      \* presets (configurations)
    MaxWrites,   \* bound on the presets saved and types created
    MaxErrands,  \* bound on the runs in flight at once
    Unfiled,     \* no type: filed under none, or none selected
    Absent       \* a preset that does not exist

ASSUME LibraryAssumption ==
    /\ MaxWrites \in Nat /\ MaxErrands \in Nat
    /\ Unfiled # Absent /\ {Unfiled, Absent} \cap (Type \cup Preset) = {}

VARIABLES
    types,       \* the rows of configuration_groups
    filed,       \* the type of each preset in configurations
    shelf,       \* each organiser's page
    errands,     \* the runs of the pages' asynchronous functions
    writes,      \* presets saved and types created so far
    later,       \* history: presets written since an organiser opened the page
    blind,       \* history: organisers whose page failed to load
    lost         \* history: presets deleted with their type that the organiser's
                 \* page, opened after they were filed, could have listed

libraryVars == <<types, filed, shelf, errands, writes, later, blind, lost>>

Filing == [Preset -> Type \cup {Unfiled, Absent}]

ClosedPage == [open |-> FALSE, loading |-> FALSE, types |-> {},
           filed |-> [p \in Preset |-> Absent], type |-> Unfiled, preset |-> Absent,
           dialog |-> "none", deleting |-> {}]

Does == {"load", "create", "update", "delete type", "delete preset"}

\* deleting: the buttons Delete that are disabled while their run goes on.
Shelf == [open : BOOLEAN, loading : BOOLEAN, types : SUBSET Type, filed : Filing,
          type : Type \cup Preset \cup {Unfiled}, preset : Preset \cup {Absent},
          dialog : {"none", "create", "edit"}, deleting : SUBSET Does]

\* What a run does first and what it reads then.  about: the type or preset.
\* live: the page it was started from is still open.
Errand == [by : Keeper, live : BOOLEAN, does : Does,
           at : {"call", "types", "presets"}, about : Type \cup Preset \cup {Unfiled}]

LibraryInit ==
    /\ types \in SUBSET Type
    /\ filed \in [Preset -> types \cup {Unfiled, Absent}]
    /\ shelf = [k \in Keeper |-> ClosedPage]
    /\ errands = {}
    /\ writes = 0
    /\ later = [k \in Keeper |-> {}]
    /\ blind = {}
    /\ lost = {}

Starts(k, does, about) ==
    /\ Cardinality(errands) < MaxErrands
    /\ \A e \in errands : e.by = k /\ e.live => e.does # does
    /\ errands' = errands \cup
          {[by |-> k, live |-> TRUE, does |-> does, at |-> "call", about |-> about]}

\* Of a page that is left only the requests that write matter any more.
Orphaned(k) ==
    {e \in errands : e.by # k} \cup
    {[e EXCEPT !.live = FALSE] :
        e \in {f \in errands : f.by = k /\ f.at = "call" /\ f.does # "load"}}

\* A run goes on, if its page is there.
Continues(e, at) ==
    errands' = (errands \ {e}) \cup (IF e.live THEN {[e EXCEPT !.at = at]} ELSE {})

-----------------------------------------------------------------------------
(* Opening the page, leaving it for the editor of presets.                 *)

OpenPage(k) ==
    /\ ~shelf[k].open
    /\ shelf' = [shelf EXCEPT ![k] = [ClosedPage EXCEPT !.open = TRUE, !.loading = TRUE]]
    /\ Starts(k, "load", Unfiled)
    /\ IF \E e \in errands : e.by = k
       THEN UNCHANGED <<later, blind>>
       ELSE later' = [later EXCEPT ![k] = {}] /\ blind' = blind \ {k}
    /\ UNCHANGED <<types, filed, writes, lost>>

LeavePage(k) ==
    /\ shelf[k].open
    /\ shelf' = [shelf EXCEPT ![k] = ClosedPage]
    /\ errands' = Orphaned(k)
    /\ UNCHANGED <<types, filed, writes, later, blind, lost>>

\* The editor files a preset, new or old, under a type that exists or none.
SavePreset(k, p, t) ==
    /\ ~shelf[k].open /\ writes < MaxWrites
    /\ t \in types \cup {Unfiled} /\ filed[p] # t
    /\ filed' = [filed EXCEPT ![p] = t]
    /\ writes' = writes + 1
    /\ later' = [j \in Keeper |-> later[j] \cup {p}]
    /\ UNCHANGED <<types, shelf, errands, blind, lost>>

-----------------------------------------------------------------------------
(* Reading the lists.  A type that is selected and gone is deselected.     *)

\* load() asks for both lists at once and shows both or none.
LoadAnswered(e) ==
    LET s == shelf[e.by] IN
    /\ e.does = "load"
    /\ errands' = errands \ {e}
    /\ shelf' = [shelf EXCEPT ![e.by] =
                    [s EXCEPT !.loading = FALSE, !.types = types, !.filed = filed,
                              !.type = IF s.type \in types THEN s.type ELSE Unfiled]]
    /\ UNCHANGED <<types, filed, writes, later, blind, lost>>

\* loadGroups, then loadConfigurations.
TypesAnswered(e) ==
    /\ e.at = "types"
    /\ Continues(e, "presets")
    /\ shelf' = [shelf EXCEPT ![e.by].types = types]
    /\ UNCHANGED <<types, filed, writes, later, blind, lost>>

\* The type created or changed is selected and the dialog closed.
Finished(s, e) ==
    CASE e.does \in {"create", "update"} -> [s EXCEPT !.type = e.about, !.dialog = "none"]
      [] OTHER                           -> [s EXCEPT !.deleting = @ \ {e.does}]

PresetsAnswered(e) ==
    /\ e.at = "presets"
    /\ errands' = errands \ {e}
    /\ shelf' = [shelf EXCEPT ![e.by] = Finished([@ EXCEPT !.filed = filed], e)]
    /\ UNCHANGED <<types, filed, writes, later, blind, lost>>

\* A request fails and the rest of its run is not done.  The dialog stays open
\* with the error; a failed load leaves both lists empty.
ErrandFails(e) ==
    LET s == shelf[e.by] IN
    /\ errands' = errands \ {e}
    /\ shelf' = IF e.live
                THEN [shelf EXCEPT ![e.by] = [s EXCEPT !.loading = s.loading /\ e.does # "load",
                                                       !.deleting = s.deleting \ {e.does}]]
                ELSE shelf
    /\ blind' = IF e.does = "load" THEN blind \cup {e.by} ELSE blind
    /\ UNCHANGED <<types, filed, writes, later, lost>>

-----------------------------------------------------------------------------
(* The page's controls.  While the page loads none is shown.               *)

Usable(k) == shelf[k].open /\ ~shelf[k].loading

SelectType(k, t) ==
    /\ Usable(k) /\ shelf[k].dialog = "none" /\ t \in shelf[k].types \cup {Unfiled}
    /\ shelf' = [shelf EXCEPT ![k].type = t, ![k].preset = Absent]
    /\ UNCHANGED <<types, filed, errands, writes, later, blind, lost>>

\* Only the presets of the type selected are listed.
FilteredConfigurations(s) ==
    {p \in Preset : s.filed[p] # Absent /\ s.type \in {Unfiled, s.filed[p]}}

SelectPreset(k, p) ==
    /\ Usable(k) /\ shelf[k].dialog = "none" /\ p \in FilteredConfigurations(shelf[k])
    /\ shelf' = [shelf EXCEPT ![k].preset = p]
    /\ UNCHANGED <<types, filed, errands, writes, later, blind, lost>>

OpenCreateGroup(k) ==
    /\ Usable(k) /\ shelf[k].dialog = "none"
    /\ shelf' = [shelf EXCEPT ![k].dialog = "create"]
    /\ UNCHANGED <<types, filed, errands, writes, later, blind, lost>>

OpenEditGroup(k) ==
    /\ Usable(k) /\ shelf[k].dialog = "none" /\ shelf[k].type \in shelf[k].types
    /\ shelf' = [shelf EXCEPT ![k].dialog = "edit"]
    /\ UNCHANGED <<types, filed, errands, writes, later, blind, lost>>

\* The dialog saves once at a time and cannot be closed meanwhile.
DialogBusy(k) == \E e \in errands : e.by = k /\ e.does \in {"create", "update"}

CloseDialog(k) ==
    /\ Usable(k) /\ shelf[k].dialog # "none" /\ ~DialogBusy(k)
    /\ shelf' = [shelf EXCEPT ![k].dialog = "none"]
    /\ UNCHANGED <<types, filed, errands, writes, later, blind, lost>>

SubmitDialog(k) ==
    /\ Usable(k) /\ ~DialogBusy(k)
    /\ \/ shelf[k].dialog = "create"
          /\ Starts(k, "create", Unfiled)
       \/ shelf[k].dialog = "edit"
          /\ Starts(k, "update", shelf[k].type)
    /\ UNCHANGED <<types, filed, shelf, writes, later, blind, lost>>

\* Mutant: only the presets on the screen are counted, not those of the type.
AssignedSelected(s) == {p \in Preset : p = s.preset /\ s.filed[p] = s.type}

\* groupConfigurations: the page's presets of the type selected.
Assigned(s) == {p \in Preset : s.filed[p] = s.type}

HandleDeleteGroup(k) ==
    LET s == shelf[k] IN
    /\ Usable(k) /\ s.dialog = "none" /\ s.type \in s.types
    /\ "delete type" \notin s.deleting
    /\ Assigned(s) = {}
    /\ Starts(k, "delete type", s.type)
    /\ shelf' = [shelf EXCEPT ![k].deleting = @ \cup {"delete type"}]
    /\ UNCHANGED <<types, filed, writes, later, blind, lost>>

HandleDeleteConfiguration(k) ==
    LET s == shelf[k] IN
    /\ Usable(k) /\ s.dialog = "none" /\ s.preset # Absent /\ s.filed[s.preset] # Absent
    /\ "delete preset" \notin s.deleting
    /\ Starts(k, "delete preset", s.preset)
    /\ shelf' = [shelf EXCEPT ![k].deleting = @ \cup {"delete preset"}]
    /\ UNCHANGED <<types, filed, writes, later, blind, lost>>

-----------------------------------------------------------------------------
(* The handlers.                                                           *)

CreateGroup(e, t) ==
    /\ e.does = "create" /\ e.at = "call"
    /\ t \in Type \ types /\ writes < MaxWrites
    /\ types' = types \cup {t}
    /\ errands' = (errands \ {e}) \cup
          (IF e.live THEN {[e EXCEPT !.at = "types", !.about = t]} ELSE {})
    /\ writes' = writes + 1
    /\ UNCHANGED <<filed, shelf, later, blind, lost>>

\* A type that is gone is answered 404 (ErrandFails).
UpdateGroup(e) ==
    /\ e.does = "update" /\ e.at = "call" /\ e.about \in types
    /\ Continues(e, "types")
    /\ UNCHANGED <<types, filed, shelf, writes, later, blind, lost>>

\* The row is deleted, its presets with it, and the page deselects both.
DeleteGroup(e) ==
    LET gone == {p \in Preset : filed[p] = e.about} IN
    /\ e.does = "delete type" /\ e.at = "call"
    /\ types' = types \ {e.about}
    /\ filed' = [p \in Preset |-> IF p \in gone THEN Absent ELSE filed[p]]
    /\ lost' = IF e.by \in blind THEN lost ELSE lost \cup (gone \ later[e.by])
    /\ Continues(e, "types")
    /\ shelf' = IF e.live THEN [shelf EXCEPT ![e.by].type = Unfiled, ![e.by].preset = Absent]
                ELSE shelf
    /\ UNCHANGED <<writes, later, blind>>

DeleteConfiguration(e) ==
    /\ e.does = "delete preset" /\ e.at = "call"
    /\ filed' = [filed EXCEPT ![e.about] = Absent]
    /\ Continues(e, "presets")
    /\ shelf' = IF e.live THEN [shelf EXCEPT ![e.by].preset = Absent] ELSE shelf
    /\ UNCHANGED <<types, writes, later, blind, lost>>

LibraryNext ==
    \/ \E k \in Keeper :
          \/ OpenPage(k) \/ LeavePage(k)
          \/ \E p \in Preset, t \in Type \cup {Unfiled} : SavePreset(k, p, t)
          \/ \E t \in Type \cup {Unfiled} : SelectType(k, t)
          \/ \E p \in Preset : SelectPreset(k, p)
          \/ OpenCreateGroup(k) \/ OpenEditGroup(k) \/ CloseDialog(k) \/ SubmitDialog(k)
          \/ HandleDeleteGroup(k) \/ HandleDeleteConfiguration(k)
    \/ \E e \in errands :
          \/ LoadAnswered(e) \/ TypesAnswered(e) \/ PresetsAnswered(e) \/ ErrandFails(e)
          \/ UpdateGroup(e) \/ DeleteGroup(e) \/ DeleteConfiguration(e)
          \/ \E t \in Type : CreateGroup(e, t)

LibrarySpec == LibraryInit /\ [][LibraryNext]_libraryVars

-----------------------------------------------------------------------------
LibraryTypeOK ==
    /\ types \subseteq Type /\ filed \in Filing
    /\ shelf \in [Keeper -> Shelf]
    /\ errands \subseteq Errand
    /\ writes \in 0..MaxWrites
    /\ later \in [Keeper -> SUBSET Preset] /\ blind \subseteq Keeper /\ lost \subseteq Preset

\* A type that is deleted takes no preset with it that was filed before its
\* organiser opened the page: only one filed since, which the page need not
\* list, or any at all after the page failed to load, when its lists are empty.
NoPresetTaken == lost = {}

=============================================================================
