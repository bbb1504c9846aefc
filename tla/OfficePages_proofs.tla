-------------------------- MODULE OfficePages_proofs --------------------------
(***************************************************************************)
(* Proofs about the organisers' pages, for any number of organisers, rows  *)
(* and requests in flight: the library of presets, patrols, tasks, the     *)
(* session of a tab, the users, the event's details, and in the end all of *)
(* them together.                                                          *)
(*                                                                         *)
(* Each area has its inductive invariant.                                  *)
(*   LibraryInv   a page lists a preset that was filed before it was       *)
(*                opened as the table has it, or the preset is gone, so    *)
(*                the page that finds a type empty finds it empty of such  *)
(*                presets in the table (CallsKnow);                        *)
(*   PatrolsInv   a fresh form is of a patrol stored under its number;     *)
(*   TasksInv     no list has a task twice, and a form that mixed no two   *)
(*                lists holds the row's tasks but those removed;           *)
(*   SessionInv   nothing in flight leads away from the chosen event;      *)
(*   AccountsInv  what the requests in flight still have to do to an       *)
(*                account yields what the screen will show;                *)
(*   FormsInv     what a form was filled with is of the event it is for.   *)
(***************************************************************************)
EXTENDS OfficePages, FiniteSetTheorems, SequenceTheorems, NaturalsInduction,
        WellFoundedInduction, TLAPS

PageKnows ==
    \A k \in Keeper, p \in Preset :
        shelf[k].open /\ ~shelf[k].loading /\ k \notin blind /\ p \notin later[k]
            => filed[p] \in {Absent, shelf[k].filed[p]}

CallsKnow ==
    \A e \in errands, p \in Preset :
        e.does = "delete type" /\ e.at = "call" /\ e.by \notin blind /\ p \notin later[e.by]
            => filed[p] # e.about

LibraryInv == LibraryTypeOK /\ PageKnows /\ CallsKnow /\ lost = {}

-----------------------------------------------------------------------------
(* The helpers that change the runs.                                       *)

\* A run is as it was, or its page is gone.
SameRun(e, f) == e \in {f, [f EXCEPT !.live = FALSE]}

LEMMA StartsTyped ==
    ASSUME errands \subseteq Errand, NEW k \in Keeper, NEW does \in Does,
           NEW about \in Type \cup Preset \cup {Unfiled}, Starts(k, does, about)
    PROVE  /\ errands' \subseteq Errand
           /\ \A e \in errands' \ errands : e.by = k /\ e.does = does /\ e.about = about
  <1> DEFINE new == [by |-> k, live |-> TRUE, does |-> does, at |-> "call", about |-> about]
  <1>1. errands' = errands \cup {new}
    BY DEF Starts
  <1>2. new \in Errand /\ new.by = k /\ new.does = does /\ new.about = about
    BY DEF Errand
  <1> HIDE DEF new
  <1> QED  BY <1>1, <1>2

LEMMA OrphanedTyped ==
    ASSUME errands \subseteq Errand, NEW k \in Keeper
    PROVE  /\ Orphaned(k) \subseteq Errand
           /\ \A e \in Orphaned(k) : \E f \in errands :
                 e.does = f.does /\ e.at = f.at /\ e.by = f.by /\ e.about = f.about
  <1> SUFFICES ASSUME NEW e \in Orphaned(k)
               PROVE  e \in Errand /\ \E f \in errands :
                         e.does = f.does /\ e.at = f.at /\ e.by = f.by /\ e.about = f.about
    OBVIOUS
  <1>1. CASE e \in errands
    BY <1>1
  <1>2. CASE e \notin errands
    <2>1. PICK f \in errands : e = [f EXCEPT !.live = FALSE]
      BY <1>2 DEF Orphaned
    <2>2. f \in Errand
      OBVIOUS
    <2> QED  BY <2>1, <2>2 DEF Errand
  <1> QED  BY <1>1, <1>2

LEMMA ContinuesTyped ==
    ASSUME errands \subseteq Errand, NEW e \in errands, NEW at \in {"types", "presets"},
           Continues(e, at)
    PROVE  errands' \subseteq Errand /\ \A f \in errands' : f \in errands \/ f.at = at
  <1>1. e \in Errand
    OBVIOUS
  <1>2. [e EXCEPT !.at = at] \in Errand /\ [e EXCEPT !.at = at].at = at
    BY <1>1 DEF Errand
  <1>3. \A f \in errands' : f \in errands \/ f = [e EXCEPT !.at = at]
    BY DEF Continues
  <1> QED  BY <1>2, <1>3

LEMMA ClosedTyped == ClosedPage \in Shelf /\ [ClosedPage EXCEPT !.open = TRUE, !.loading = TRUE] \in Shelf
  BY DEF ClosedPage, Shelf, Filing, Does

-----------------------------------------------------------------------------
(* What each action does to a page, as far as PageKnows looks.             *)

\* A page that shows its lists either shows the presets it showed before, or
\* it shows those of the table.
PagesFollow ==
    \A k \in Keeper :
        shelf'[k].open /\ ~shelf'[k].loading =>
            \/ /\ shelf[k].open /\ shelf'[k].filed = shelf[k].filed
               /\ ~shelf[k].loading \/ k \in blind'
            \/ shelf'[k].filed = filed

\* The steps after which the runs are as before, or fewer, or read their lists.
RunsFollow ==
    \A e \in errands' :
        e.does = "delete type" /\ e.at = "call" =>
            \E f \in errands : /\ f.does = e.does /\ f.at = e.at
                              /\ f.by = e.by /\ f.about = e.about

\* No step but SavePreset files a preset.
FilesNothing == \A p \in Preset : filed'[p] \in {filed[p], Absent}

\* An organiser's history is only forgotten when no request is in flight.
HistoryFollows ==
    \A k \in Keeper :
        \/ later[k] \subseteq later'[k] /\ (k \in blind => k \in blind')
        \/ /\ shelf'[k].loading
           /\ \A e \in errands : e.by # k

LEMMA FollowsKeeps ==
    ASSUME LibraryInv, PagesFollow, RunsFollow, FilesNothing, HistoryFollows,
           LibraryTypeOK'
    PROVE  PageKnows' /\ CallsKnow'
  <1> USE DEF LibraryInv
  <1>1. ASSUME NEW k \in Keeper, NEW p \in Preset, shelf'[k].open, ~shelf'[k].loading,
               k \notin blind', p \notin later'[k]
        PROVE  filed'[p] \in {Absent, shelf'[k].filed[p]}
    <2>1. p \notin later[k] /\ k \notin blind
      BY <1>1 DEF HistoryFollows
    <2>2. CASE shelf'[k].filed = filed
      BY <2>2 DEF FilesNothing
    <2>3. CASE shelf[k].open /\ shelf'[k].filed = shelf[k].filed /\ ~shelf[k].loading
      BY <2>1, <2>3 DEF FilesNothing, PageKnows
    <2> QED  BY <1>1, <2>2, <2>3 DEF PagesFollow
  <1>2. ASSUME NEW e \in errands', NEW p \in Preset, e.does = "delete type", e.at = "call",
               e.by \notin blind', p \notin later'[e.by]
        PROVE  filed'[p] # e.about
    <2>1. e.by \in Keeper /\ e.about # Absent
      BY LibraryAssumption DEF LibraryTypeOK, Errand
    <2>2. PICK f \in errands : f.does = e.does /\ f.at = e.at /\ f.by = e.by /\ f.about = e.about
      BY <1>2 DEF RunsFollow
    <2>3. p \notin later[e.by] /\ e.by \notin blind
      BY <1>2, <2>1, <2>2 DEF HistoryFollows
    <2>4. filed[p] # e.about
      BY <1>2, <2>2, <2>3 DEF CallsKnow
    <2> QED  BY <2>1, <2>4 DEF FilesNothing
  <1> QED  BY <1>1, <1>2 DEF PageKnows, CallsKnow

-----------------------------------------------------------------------------
(* The steps of the pages.                                                 *)

\* The controls that change nothing but the page's own selections.
Browse(k) ==
    \/ (\E t \in Type \cup {Unfiled} : SelectType(k, t))
    \/ (\E p \in Preset : SelectPreset(k, p))
    \/ OpenCreateGroup(k) \/ OpenEditGroup(k) \/ CloseDialog(k)

LEMMA SelectionKeeps ==
    ASSUME LibraryInv, NEW k \in Keeper, NEW s \in Shelf, s.open = shelf[k].open,
           s.loading = shelf[k].loading, s.filed = shelf[k].filed,
           shelf' = [shelf EXCEPT ![k] = s],
           UNCHANGED <<types, filed, errands, writes, later, blind, lost>>
    PROVE  LibraryInv'
  <1> USE DEF LibraryInv
  <1>1. LibraryTypeOK'
    BY DEF LibraryTypeOK
  <1>2. PagesFollow
    BY DEF PagesFollow, LibraryTypeOK
  <1>3. RunsFollow /\ FilesNothing /\ HistoryFollows
    BY DEF RunsFollow, FilesNothing, HistoryFollows
  <1> QED  BY <1>1, <1>2, <1>3, FollowsKeeps

LEMMA BrowseKeeps ==
    ASSUME LibraryInv, NEW k \in Keeper, Browse(k)
    PROVE  LibraryInv'
  <1>1. shelf[k] \in Shelf
    BY DEF LibraryInv, LibraryTypeOK
  <1>2. UNCHANGED <<types, filed, errands, writes, later, blind, lost>>
    BY DEF Browse, SelectType, SelectPreset, OpenCreateGroup, OpenEditGroup, CloseDialog
  <1>3. ASSUME NEW t \in Type \cup {Unfiled}, SelectType(k, t) PROVE LibraryInv'
    <2> DEFINE s == [shelf[k] EXCEPT !.type = t, !.preset = Absent]
    <2>1. /\ s \in Shelf /\ s.open = shelf[k].open /\ s.loading = shelf[k].loading
          /\ s.filed = shelf[k].filed
      BY <1>1 DEF Shelf
    <2>2. shelf' = [shelf EXCEPT ![k] = s]
      <3>1. shelf \in [Keeper -> Shelf]
        BY DEF LibraryInv, LibraryTypeOK
      <3>2. shelf' = [shelf EXCEPT ![k].type = t, ![k].preset = Absent]
        BY <1>3 DEF SelectType
      <3> QED  BY <3>1, <3>2
    <2> QED  BY <1>2, <2>1, <2>2, SelectionKeeps
  <1>4. ASSUME NEW p \in Preset, SelectPreset(k, p) PROVE LibraryInv'
    <2> DEFINE s == [shelf[k] EXCEPT !.preset = p]
    <2>1. /\ s \in Shelf /\ s.open = shelf[k].open /\ s.loading = shelf[k].loading
          /\ s.filed = shelf[k].filed
      BY <1>1 DEF Shelf
    <2>2. shelf' = [shelf EXCEPT ![k] = s]
      BY <1>4 DEF SelectPreset
    <2> QED  BY <1>2, <2>1, <2>2, SelectionKeeps
  <1>5. ASSUME NEW d \in {"none", "create", "edit"}, shelf' = [shelf EXCEPT ![k].dialog = d]
        PROVE  LibraryInv'
    <2> DEFINE s == [shelf[k] EXCEPT !.dialog = d]
    <2>1. /\ s \in Shelf /\ s.open = shelf[k].open /\ s.loading = shelf[k].loading
          /\ s.filed = shelf[k].filed
      BY <1>1 DEF Shelf
    <2>2. shelf' = [shelf EXCEPT ![k] = s]
      BY <1>5
    <2> QED  BY <1>2, <2>1, <2>2, SelectionKeeps
  <1>6. CASE OpenCreateGroup(k) \/ OpenEditGroup(k) \/ CloseDialog(k)
    BY <1>5, <1>6 DEF OpenCreateGroup, OpenEditGroup, CloseDialog
  <1> QED  BY <1>3, <1>4, <1>6 DEF Browse

LEMMA OpenKeeps ==
    ASSUME LibraryInv, NEW k \in Keeper, OpenPage(k)
    PROVE  LibraryInv'
  <1> USE DEF LibraryInv
  <1> DEFINE s == [ClosedPage EXCEPT !.open = TRUE, !.loading = TRUE]
  <1>1. s \in Shelf /\ s.loading
    BY ClosedTyped DEF ClosedPage
  <1>2. shelf' = [shelf EXCEPT ![k] = s] /\ shelf \in [Keeper -> Shelf]
    BY DEF OpenPage, LibraryTypeOK
  <1> HIDE DEF s
  <1>3. errands' \subseteq Errand /\ \A e \in errands' \ errands : e.does = "load"
    <2>1. Starts(k, "load", Unfiled) /\ errands \subseteq Errand /\ "load" \in Does
      BY DEF OpenPage, LibraryTypeOK, Does
    <2> QED  BY <2>1, StartsTyped
  <1>4. UNCHANGED <<types, filed, writes, lost>>
    BY DEF OpenPage
  <1>5. \/ UNCHANGED <<later, blind>>
        \/ /\ \A e \in errands : e.by # k
           /\ later' = [later EXCEPT ![k] = {}] /\ blind' = blind \ {k}
    BY DEF OpenPage
  <1>6. LibraryTypeOK'
    BY <1>1, <1>2, <1>3, <1>4, <1>5 DEF LibraryTypeOK
  <1>7. PagesFollow
    BY <1>1, <1>2 DEF PagesFollow
  <1>8. RunsFollow /\ FilesNothing
    BY <1>3, <1>4 DEF RunsFollow, FilesNothing
  <1>9. HistoryFollows
    BY <1>1, <1>2, <1>5 DEF HistoryFollows, LibraryTypeOK
  <1> QED  BY <1>4, <1>6, <1>7, <1>8, <1>9, FollowsKeeps

LEMMA LeaveKeeps ==
    ASSUME LibraryInv, NEW k \in Keeper, LeavePage(k)
    PROVE  LibraryInv'
  <1> USE DEF LibraryInv
  <1>1. shelf' = [shelf EXCEPT ![k] = ClosedPage] /\ shelf \in [Keeper -> Shelf]
    BY DEF LeavePage, LibraryTypeOK
  <1>2. ClosedPage \in Shelf /\ ~ClosedPage.open
    BY ClosedTyped DEF ClosedPage
  <1>3. errands' \subseteq Errand /\ RunsFollow
    <2>1. errands' = Orphaned(k) /\ errands \subseteq Errand
      BY DEF LeavePage, LibraryTypeOK
    <2> QED  BY <2>1, OrphanedTyped DEF RunsFollow
  <1>4. UNCHANGED <<types, filed, writes, later, blind, lost>>
    BY DEF LeavePage
  <1>5. LibraryTypeOK'
    BY <1>1, <1>2, <1>3, <1>4 DEF LibraryTypeOK
  <1>6. PagesFollow
    BY <1>1, <1>2 DEF PagesFollow
  <1>7. FilesNothing /\ HistoryFollows
    BY <1>4 DEF FilesNothing, HistoryFollows
  <1> QED  BY <1>3, <1>4, <1>5, <1>6, <1>7, FollowsKeeps

\* What is filed is new to every organiser.
LEMMA SaveKeeps ==
    ASSUME LibraryInv, NEW k \in Keeper, NEW p \in Preset, NEW t \in Type \cup {Unfiled},
           SavePreset(k, p, t)
    PROVE  LibraryInv'
  <1> USE DEF LibraryInv
  <1>1. /\ filed' = [filed EXCEPT ![p] = t] /\ writes' = writes + 1 /\ writes < MaxWrites
        /\ later' = [j \in Keeper |-> later[j] \cup {p}]
        /\ UNCHANGED <<types, shelf, errands, blind, lost>>
    BY DEF SavePreset
  <1>2. LibraryTypeOK'
    BY <1>1, LibraryAssumption DEF LibraryTypeOK, Filing
  <1>3. PageKnows'
    BY <1>1 DEF LibraryTypeOK, Filing, PageKnows
  <1>4. CallsKnow'
    BY <1>1 DEF LibraryTypeOK, Filing, CallsKnow, Errand
  <1> QED  BY <1>1, <1>2, <1>3, <1>4

-----------------------------------------------------------------------------
(* The runs start.                                                         *)

LEMMA SubmitKeeps ==
    ASSUME LibraryInv, NEW k \in Keeper, SubmitDialog(k)
    PROVE  LibraryInv'
  <1> USE DEF LibraryInv
  <1>1. shelf[k].type \in Type \cup Preset \cup {Unfiled} /\ errands \subseteq Errand
    BY DEF LibraryTypeOK, Shelf
  <1>2. errands' \subseteq Errand /\ \A e \in errands' \ errands : e.does # "delete type"
    <2>1. CASE Starts(k, "create", Unfiled)
      BY <1>1, <2>1, StartsTyped, "create" \in Does DEF Does
    <2>2. CASE Starts(k, "update", shelf[k].type)
      <3> DEFINE t == shelf[k].type
      <3>1. t \in Type \cup Preset \cup {Unfiled} /\ Starts(k, "update", t)
        BY <1>1, <2>2
      <3> HIDE DEF t
      <3> QED  BY <1>1, <3>1, StartsTyped, "update" \in Does DEF Does
    <2> QED  BY <2>1, <2>2 DEF SubmitDialog
  <1>3. UNCHANGED <<types, filed, shelf, writes, later, blind, lost>>
    BY DEF SubmitDialog
  <1>4. LibraryTypeOK'
    BY <1>2, <1>3 DEF LibraryTypeOK
  <1>5. PagesFollow /\ RunsFollow /\ FilesNothing /\ HistoryFollows
    BY <1>2, <1>3 DEF PagesFollow, RunsFollow, FilesNothing, HistoryFollows
  <1> QED  BY <1>3, <1>4, <1>5, FollowsKeeps

LEMMA DeletingTyped ==
    ASSUME LibraryTypeOK, NEW k \in Keeper, NEW does \in Does,
           shelf' = [shelf EXCEPT ![k].deleting = @ \cup {does}]
    PROVE  /\ shelf' \in [Keeper -> Shelf]
           /\ \A j \in Keeper : /\ shelf'[j].open = shelf[j].open
                              /\ shelf'[j].loading = shelf[j].loading
                              /\ shelf'[j].filed = shelf[j].filed
  <1> DEFINE s == [shelf[k] EXCEPT !.deleting = @ \cup {does}]
  <1>1. shelf[k] \in Shelf /\ shelf \in [Keeper -> Shelf]
    BY DEF LibraryTypeOK
  <1>2. /\ s \in Shelf /\ s.open = shelf[k].open /\ s.loading = shelf[k].loading
        /\ s.filed = shelf[k].filed
    BY <1>1 DEF Shelf
  <1>3. shelf' = [shelf EXCEPT ![k] = s]
    OBVIOUS
  <1> HIDE DEF s
  <1> QED  BY <1>1, <1>2, <1>3

LEMMA DeleteConfigurationStarts ==
    ASSUME LibraryInv, NEW k \in Keeper, HandleDeleteConfiguration(k)
    PROVE  LibraryInv'
  <1> USE DEF LibraryInv
  <1>1. shelf[k].preset \in Preset /\ errands \subseteq Errand /\ "delete preset" \in Does
    BY DEF HandleDeleteConfiguration, LibraryTypeOK, Shelf, Does
  <1>2. errands' \subseteq Errand /\ \A e \in errands' \ errands : e.does # "delete type"
    <2> DEFINE p == shelf[k].preset
    <2>1. p \in Preset /\ Starts(k, "delete preset", p)
      BY <1>1 DEF HandleDeleteConfiguration
    <2> HIDE DEF p
    <2> QED  BY <1>1, <2>1, StartsTyped
  <1>3. UNCHANGED <<types, filed, writes, later, blind, lost>>
    BY DEF HandleDeleteConfiguration
  <1>4. shelf' = [shelf EXCEPT ![k].deleting = @ \cup {"delete preset"}]
    BY DEF HandleDeleteConfiguration
  <1>5. /\ shelf' \in [Keeper -> Shelf]
        /\ \A j \in Keeper : /\ shelf'[j].open = shelf[j].open
                           /\ shelf'[j].loading = shelf[j].loading
                           /\ shelf'[j].filed = shelf[j].filed
    BY <1>1, <1>4, DeletingTyped
  <1>6. LibraryTypeOK'
    BY <1>2, <1>3, <1>5 DEF LibraryTypeOK
  <1>7. PagesFollow /\ RunsFollow /\ FilesNothing /\ HistoryFollows
    BY <1>2, <1>3, <1>5 DEF PagesFollow, RunsFollow, FilesNothing, HistoryFollows
  <1> QED  BY <1>3, <1>6, <1>7, FollowsKeeps

\* The one step that needs what the page knows: it lists no preset of the type.
LEMMA DeleteGroupStarts ==
    ASSUME LibraryInv, NEW k \in Keeper, HandleDeleteGroup(k)
    PROVE  LibraryInv'
  <1> USE DEF LibraryInv
  <1>1. /\ Usable(k) /\ shelf[k].type \in shelf[k].types /\ Assigned(shelf[k]) = {}
        /\ Starts(k, "delete type", shelf[k].type)
        /\ shelf' = [shelf EXCEPT ![k].deleting = @ \cup {"delete type"}]
        /\ UNCHANGED <<types, filed, writes, later, blind, lost>>
    BY DEF HandleDeleteGroup
  <1>2. shelf[k].type \in Type /\ errands \subseteq Errand /\ "delete type" \in Does
    BY <1>1 DEF LibraryTypeOK, Shelf, Does
  <1>3. /\ errands' \subseteq Errand
        /\ \A e \in errands' \ errands : e.by = k /\ e.about = shelf[k].type
    <2> DEFINE t == shelf[k].type
    <2>1. t \in Type /\ Starts(k, "delete type", t)
      BY <1>1, <1>2
    <2> HIDE DEF t
    <2>2. /\ errands' \subseteq Errand
          /\ \A e \in errands' \ errands : e.by = k /\ e.about = t
      BY <1>2, <2>1, StartsTyped
    <2> QED  BY <2>2 DEF t
  <1>4. /\ shelf' \in [Keeper -> Shelf]
        /\ \A j \in Keeper : /\ shelf'[j].open = shelf[j].open
                           /\ shelf'[j].loading = shelf[j].loading
                           /\ shelf'[j].filed = shelf[j].filed
    BY <1>1, <1>2, DeletingTyped
  <1>5. LibraryTypeOK'
    BY <1>1, <1>3, <1>4 DEF LibraryTypeOK
  <1>6. PageKnows'
    BY <1>1, <1>4 DEF PageKnows
  <1>7. ASSUME NEW p \in Preset, k \notin blind, p \notin later[k]
        PROVE  filed[p] # shelf[k].type
    <2>1. filed[p] \in {Absent, shelf[k].filed[p]}
      BY <1>1, <1>7 DEF PageKnows, Usable
    <2>2. shelf[k].filed[p] # shelf[k].type
      BY <1>1 DEF Assigned
    <2> QED  BY <1>2, <2>1, <2>2, LibraryAssumption
  <1>8. CallsKnow'
    BY <1>1, <1>3, <1>7 DEF CallsKnow
  <1> QED  BY <1>1, <1>5, <1>6, <1>8

-----------------------------------------------------------------------------
(* The answers.                                                            *)

\* A page changes into one that shows what PagesFollow asks for, and nothing
\* is written.
LEMMA AnswerKeeps ==
    ASSUME LibraryInv, NEW k \in Keeper, NEW s \in Shelf,
           shelf' = [shelf EXCEPT ![k] = s],
           s.open /\ ~s.loading =>
               \/ /\ shelf[k].open /\ s.filed = shelf[k].filed
                  /\ ~shelf[k].loading \/ k \in blind'
               \/ s.filed = filed,
           errands' \subseteq Errand, RunsFollow,
           blind \subseteq blind', blind' \subseteq Keeper,
           UNCHANGED <<types, filed, writes, later, lost>>
    PROVE  LibraryInv'
  <1> USE DEF LibraryInv
  <1>1. LibraryTypeOK'
    BY DEF LibraryTypeOK
  <1>2. PagesFollow
    <2>1. shelf \in [Keeper -> Shelf]
      BY DEF LibraryTypeOK
    <2>2. shelf'[k] = s
      BY <2>1
    <2>3. ASSUME NEW j \in Keeper, j # k PROVE shelf'[j] = shelf[j]
      BY <2>1, <2>3
    <2> QED  BY <2>2, <2>3 DEF PagesFollow
  <1>3. FilesNothing /\ HistoryFollows
    BY DEF FilesNothing, HistoryFollows
  <1> QED  BY <1>1, <1>2, <1>3, FollowsKeeps

LEMMA RunEnds ==
    ASSUME LibraryTypeOK, NEW e \in errands,
           \/ errands' = errands \ {e}
           \/ Continues(e, "types") \/ Continues(e, "presets")
    PROVE  errands' \subseteq Errand /\ RunsFollow
  <1>1. CASE errands' = errands \ {e}
    BY <1>1 DEF RunsFollow, LibraryTypeOK
  <1>2. ASSUME NEW at \in {"types", "presets"}, Continues(e, at)
        PROVE  errands' \subseteq Errand /\ RunsFollow
    <2>1. errands' \subseteq Errand /\ \A f \in errands' : f \in errands \/ f.at = at
      BY <1>2, ContinuesTyped DEF LibraryTypeOK
    <2> QED  BY <2>1 DEF RunsFollow
  <1> QED  BY <1>1, <1>2

LEMMA LoadAnsweredKeeps ==
    ASSUME LibraryInv, NEW e \in errands, LoadAnswered(e)
    PROVE  LibraryInv'
  <1> DEFINE r == shelf[e.by]
  <1> DEFINE s == [r EXCEPT !.loading = FALSE, !.types = types, !.filed = filed,
                            !.type = IF r.type \in types THEN r.type ELSE Unfiled]
  <1>1. e.by \in Keeper /\ r \in Shelf /\ types \subseteq Type /\ filed \in Filing
        /\ blind \subseteq Keeper
    BY DEF LibraryInv, LibraryTypeOK, Errand
  <1>2. s \in Shelf /\ s.filed = filed
    <2> HIDE DEF r
    <2> QED  BY <1>1 DEF Shelf
  <1>3. errands' \subseteq Errand /\ RunsFollow
    BY RunEnds DEF LoadAnswered, LibraryInv
  <1>4. shelf' = [shelf EXCEPT ![e.by] = s]
    BY DEF LoadAnswered
  <1>5. UNCHANGED <<types, filed, writes, later, blind, lost>>
    BY DEF LoadAnswered
  <1> HIDE DEF s, r
  <1> QED  BY <1>1, <1>2, <1>3, <1>4, <1>5, AnswerKeeps

LEMMA TypesAnsweredKeeps ==
    ASSUME LibraryInv, NEW e \in errands, TypesAnswered(e)
    PROVE  LibraryInv'
  <1> DEFINE r == shelf[e.by]
  <1> DEFINE s == [r EXCEPT !.types = types]
  <1>1. e.by \in Keeper /\ r \in Shelf /\ types \subseteq Type /\ blind \subseteq Keeper
    BY DEF LibraryInv, LibraryTypeOK, Errand
  <1>2. /\ s \in Shelf /\ s.filed = r.filed /\ s.open = r.open /\ s.loading = r.loading
    <2> HIDE DEF r
    <2> QED  BY <1>1 DEF Shelf
  <1>3. errands' \subseteq Errand /\ RunsFollow
    BY RunEnds DEF TypesAnswered, LibraryInv
  <1>4. shelf' = [shelf EXCEPT ![e.by] = s]
    BY DEF TypesAnswered
  <1>5. UNCHANGED <<types, filed, writes, later, blind, lost>>
    BY DEF TypesAnswered
  <1> HIDE DEF s
  <1> QED  BY <1>1, <1>2, <1>3, <1>4, <1>5, AnswerKeeps

LEMMA PresetsAnsweredKeeps ==
    ASSUME LibraryInv, NEW e \in errands, PresetsAnswered(e)
    PROVE  LibraryInv'
  <1> DEFINE r == shelf[e.by]
  <1> DEFINE q == [r EXCEPT !.filed = filed]
  <1> DEFINE s == Finished(q, e)
  <1>1. e.by \in Keeper /\ r \in Shelf /\ filed \in Filing /\ blind \subseteq Keeper
        /\ e.about \in Type \cup Preset \cup {Unfiled}
    BY DEF LibraryInv, LibraryTypeOK, Errand
  <1>2. q \in Shelf /\ q.filed = filed
    <2> HIDE DEF r
    <2> QED  BY <1>1 DEF Shelf
  <1>3. s \in Shelf /\ s.filed = filed
    <2> HIDE DEF q
    <2>1. /\ [q EXCEPT !.type = e.about, !.dialog = "none"] \in Shelf
          /\ [q EXCEPT !.type = e.about, !.dialog = "none"].filed = filed
      BY <1>1, <1>2 DEF Shelf
    <2>2. /\ [q EXCEPT !.deleting = @ \ {e.does}] \in Shelf
          /\ [q EXCEPT !.deleting = @ \ {e.does}].filed = filed
      BY <1>2 DEF Shelf
    <2>3. CASE e.does \in {"create", "update"}
      BY <2>1, <2>3 DEF Finished
    <2>4. CASE e.does \notin {"create", "update"}
      BY <2>2, <2>4 DEF Finished
    <2> QED  BY <2>3, <2>4
  <1>4. errands' \subseteq Errand /\ RunsFollow
    BY RunEnds DEF PresetsAnswered, LibraryInv
  <1>5. shelf' = [shelf EXCEPT ![e.by] = s]
    BY DEF PresetsAnswered
  <1>6. UNCHANGED <<types, filed, writes, later, blind, lost>>
    BY DEF PresetsAnswered
  <1> HIDE DEF s, q, r
  <1> QED  BY <1>1, <1>3, <1>4, <1>5, <1>6, AnswerKeeps

\* A load that fails shows empty lists, and its organiser counts as blind.
LEMMA ErrandFailsKeeps ==
    ASSUME LibraryInv, NEW e \in errands, ErrandFails(e)
    PROVE  LibraryInv'
  <1> DEFINE r == shelf[e.by]
  <1>1. e.by \in Keeper /\ r \in Shelf /\ shelf \in [Keeper -> Shelf] /\ blind \subseteq Keeper
    BY DEF LibraryInv, LibraryTypeOK, Errand
  <1>2. errands' \subseteq Errand /\ RunsFollow
    BY RunEnds DEF ErrandFails, LibraryInv
  <1>3. UNCHANGED <<types, filed, writes, later, lost>>
    BY DEF ErrandFails
  <1>4. /\ blind \subseteq blind' /\ blind' \subseteq Keeper
        /\ e.does = "load" => e.by \in blind'
    BY <1>1 DEF ErrandFails
  <1>5. CASE e.live
    <2> DEFINE s == [r EXCEPT !.loading = r.loading /\ e.does # "load",
                              !.deleting = r.deleting \ {e.does}]
    <2>1. /\ s \in Shelf /\ s.filed = r.filed /\ s.open = r.open
          /\ s.loading = (r.loading /\ e.does # "load")
      <3> HIDE DEF r
      <3> QED  BY <1>1 DEF Shelf
    <2>2. shelf' = [shelf EXCEPT ![e.by] = s]
      BY <1>5 DEF ErrandFails
    <2> HIDE DEF s
    <2> QED  BY <1>1, <1>2, <1>3, <1>4, <2>1, <2>2, AnswerKeeps
  <1>6. CASE ~e.live
    <2>1. shelf' = [shelf EXCEPT ![e.by] = r]
      BY <1>1, <1>6 DEF ErrandFails
    <2> QED  BY <1>1, <1>2, <1>3, <1>4, <2>1, AnswerKeeps
  <1> QED  BY <1>5, <1>6

-----------------------------------------------------------------------------
(* The handlers.                                                           *)

LEMMA CreateGroupKeeps ==
    ASSUME LibraryInv, NEW e \in errands, NEW t \in Type, CreateGroup(e, t)
    PROVE  LibraryInv'
  <1> USE DEF LibraryInv
  <1> DEFINE n == [e EXCEPT !.at = "types", !.about = t]
  <1>1. e \in Errand /\ errands \subseteq Errand
    BY DEF LibraryTypeOK
  <1>2. n \in Errand /\ n.at = "types"
    BY <1>1 DEF Errand
  <1>3. errands' \subseteq errands \cup {n}
    BY DEF CreateGroup
  <1>4. /\ types' = types \cup {t} /\ writes < MaxWrites /\ writes' = writes + 1
        /\ UNCHANGED <<filed, shelf, later, blind, lost>>
    BY DEF CreateGroup
  <1> HIDE DEF n
  <1>5. LibraryTypeOK'
    BY <1>1, <1>2, <1>3, <1>4, LibraryAssumption DEF LibraryTypeOK
  <1>6. RunsFollow
    BY <1>2, <1>3 DEF RunsFollow
  <1>7. PagesFollow /\ FilesNothing /\ HistoryFollows
    BY <1>4 DEF PagesFollow, FilesNothing, HistoryFollows
  <1> QED  BY <1>4, <1>5, <1>6, <1>7, FollowsKeeps

LEMMA UpdateGroupKeeps ==
    ASSUME LibraryInv, NEW e \in errands, UpdateGroup(e)
    PROVE  LibraryInv'
  <1> USE DEF LibraryInv
  <1>1. errands' \subseteq Errand /\ RunsFollow
    BY RunEnds DEF UpdateGroup
  <1>2. UNCHANGED <<types, filed, shelf, writes, later, blind, lost>>
    BY DEF UpdateGroup
  <1>3. LibraryTypeOK'
    BY <1>1, <1>2 DEF LibraryTypeOK
  <1>4. PagesFollow /\ FilesNothing /\ HistoryFollows
    BY <1>2 DEF PagesFollow, FilesNothing, HistoryFollows
  <1> QED  BY <1>1, <1>2, <1>3, <1>4, FollowsKeeps

\* A page after a deletion: its lists are as before.
LEMMA DeselectTyped ==
    ASSUME LibraryTypeOK, NEW k \in Keeper,
           \/ UNCHANGED shelf
           \/ shelf' = [shelf EXCEPT ![k].preset = Absent]
           \/ shelf' = [shelf EXCEPT ![k].type = Unfiled, ![k].preset = Absent]
    PROVE  shelf' \in [Keeper -> Shelf] /\ PagesFollow
  <1> DEFINE r == shelf[k]
  <1>1. r \in Shelf /\ shelf \in [Keeper -> Shelf]
    BY DEF LibraryTypeOK
  <1>2. PICK s \in Shelf : /\ shelf' = [shelf EXCEPT ![k] = s] /\ s.open = r.open
                           /\ s.loading = r.loading /\ s.filed = r.filed
    <2>1. CASE UNCHANGED shelf
      BY <1>1, <2>1
    <2>2. CASE shelf' = [shelf EXCEPT ![k].preset = Absent]
      <3> DEFINE s == [r EXCEPT !.preset = Absent]
      <3>1. s \in Shelf /\ s.open = r.open /\ s.loading = r.loading /\ s.filed = r.filed
        <4> HIDE DEF r
        <4> QED  BY <1>1 DEF Shelf
      <3>2. shelf' = [shelf EXCEPT ![k] = s]
        BY <2>2
      <3> HIDE DEF s
      <3> QED  BY <3>1, <3>2
    <2>3. CASE shelf' = [shelf EXCEPT ![k].type = Unfiled, ![k].preset = Absent]
      <3> DEFINE s == [r EXCEPT !.type = Unfiled, !.preset = Absent]
      <3>1. s \in Shelf /\ s.open = r.open /\ s.loading = r.loading /\ s.filed = r.filed
        <4> HIDE DEF r
        <4> QED  BY <1>1 DEF Shelf
      <3>2. shelf' = [shelf EXCEPT ![k] = s]
        BY <1>1, <2>3
      <3> HIDE DEF s
      <3> QED  BY <3>1, <3>2
    <2> QED  BY <2>1, <2>2, <2>3
  <1>3. shelf' \in [Keeper -> Shelf]
    BY <1>1, <1>2
  <1>4. shelf'[k] = s /\ \A j \in Keeper : j # k => shelf'[j] = shelf[j]
    BY <1>1, <1>2
  <1> QED  BY <1>2, <1>3, <1>4 DEF PagesFollow

\* The request of a page that knew the type to be empty finds no preset in the
\* table but those filed later.
LEMMA DeleteGroupKeeps ==
    ASSUME LibraryInv, NEW e \in errands, DeleteGroup(e)
    PROVE  LibraryInv'
  <1> USE DEF LibraryInv
  <1>1. e.by \in Keeper /\ e.does = "delete type" /\ e.at = "call"
    BY DEF DeleteGroup, LibraryTypeOK, Errand
  <1>2. errands' \subseteq Errand /\ RunsFollow
    BY RunEnds DEF DeleteGroup
  <1>3. /\ types' = types \ {e.about}
        /\ filed' = [p \in Preset |-> IF p \in {q \in Preset : filed[q] = e.about}
                                      THEN Absent ELSE filed[p]]
        /\ UNCHANGED <<writes, later, blind>>
    BY DEF DeleteGroup
  <1>4. shelf' \in [Keeper -> Shelf] /\ PagesFollow
    BY <1>1, DeselectTyped DEF DeleteGroup
  <1>5. lost' = {}
    BY <1>1 DEF DeleteGroup, CallsKnow
  <1>6. filed' \in Filing
    BY <1>3 DEF LibraryTypeOK, Filing
  <1>7. LibraryTypeOK'
    BY <1>2, <1>3, <1>4, <1>5, <1>6 DEF LibraryTypeOK
  <1>8. FilesNothing /\ HistoryFollows
    BY <1>3 DEF FilesNothing, HistoryFollows
  <1> QED  BY <1>2, <1>4, <1>5, <1>7, <1>8, FollowsKeeps

LEMMA DeleteConfigurationKeeps ==
    ASSUME LibraryInv, NEW e \in errands, DeleteConfiguration(e)
    PROVE  LibraryInv'
  <1> USE DEF LibraryInv
  <1>1. e.by \in Keeper
    BY DEF LibraryTypeOK, Errand
  <1>2. errands' \subseteq Errand /\ RunsFollow
    BY RunEnds DEF DeleteConfiguration
  <1>3. /\ filed' = [filed EXCEPT ![e.about] = Absent]
        /\ UNCHANGED <<types, writes, later, blind, lost>>
    BY DEF DeleteConfiguration
  <1>4. shelf' \in [Keeper -> Shelf] /\ PagesFollow
    BY <1>1, DeselectTyped DEF DeleteConfiguration
  <1>5. filed' \in Filing /\ FilesNothing
    BY <1>3 DEF LibraryTypeOK, Filing, FilesNothing
  <1>6. LibraryTypeOK'
    BY <1>2, <1>3, <1>4, <1>5 DEF LibraryTypeOK
  <1>7. HistoryFollows
    BY <1>3 DEF HistoryFollows
  <1> QED  BY <1>2, <1>3, <1>4, <1>5, <1>6, <1>7, FollowsKeeps

-----------------------------------------------------------------------------
LEMMA LibraryInvInit == LibraryInit => LibraryInv
  <1> SUFFICES ASSUME LibraryInit PROVE LibraryInv
    OBVIOUS
  <1>1. shelf \in [Keeper -> Shelf] /\ \A k \in Keeper : ~shelf[k].open
    BY ClosedTyped DEF LibraryInit, ClosedPage
  <1>2. LibraryTypeOK
    BY <1>1, LibraryAssumption DEF LibraryInit, LibraryTypeOK, Filing
  <1>3. PageKnows /\ CallsKnow /\ lost = {}
    BY <1>1 DEF LibraryInit, PageKnows, CallsKnow
  <1> QED  BY <1>2, <1>3 DEF LibraryInv

LEMMA LibraryInvStep == LibraryInv /\ [LibraryNext]_libraryVars => LibraryInv'
  <1> SUFFICES ASSUME LibraryInv, [LibraryNext]_libraryVars PROVE LibraryInv'
    OBVIOUS
  <1>1. CASE UNCHANGED libraryVars
    BY <1>1 DEF libraryVars, LibraryInv, LibraryTypeOK, PageKnows, CallsKnow
  <1>2. ASSUME NEW k \in Keeper, Browse(k) PROVE LibraryInv'
    BY <1>2, BrowseKeeps
  <1>3. ASSUME NEW k \in Keeper,
               \/ OpenPage(k) \/ LeavePage(k) \/ SubmitDialog(k)
               \/ HandleDeleteGroup(k) \/ HandleDeleteConfiguration(k)
        PROVE  LibraryInv'
    BY <1>3, OpenKeeps, LeaveKeeps, SubmitKeeps, DeleteGroupStarts, DeleteConfigurationStarts
  <1>4. ASSUME NEW k \in Keeper, NEW p \in Preset, NEW t \in Type \cup {Unfiled},
               SavePreset(k, p, t)
        PROVE  LibraryInv'
    BY <1>4, SaveKeeps
  <1>5. ASSUME NEW e \in errands,
               \/ LoadAnswered(e) \/ TypesAnswered(e) \/ PresetsAnswered(e) \/ ErrandFails(e)
               \/ UpdateGroup(e) \/ DeleteGroup(e) \/ DeleteConfiguration(e)
        PROVE  LibraryInv'
    BY <1>5, LoadAnsweredKeeps, TypesAnsweredKeeps, PresetsAnsweredKeeps, ErrandFailsKeeps,
       UpdateGroupKeeps, DeleteGroupKeeps, DeleteConfigurationKeeps
  <1>6. ASSUME NEW e \in errands, NEW t \in Type, CreateGroup(e, t) PROVE LibraryInv'
    BY <1>6, CreateGroupKeeps
  <1> QED  BY <1>1, <1>2, <1>3, <1>4, <1>5, <1>6 DEF LibraryNext, Browse

(***************************************************************************)
(* The rows, the pages and the runs in flight are well-formed.             *)
(***************************************************************************)
THEOREM LibraryTypeCorrect == LibrarySpec => []LibraryTypeOK
  BY LibraryInvInit, LibraryInvStep, PTL DEF LibrarySpec, LibraryInv

(***************************************************************************)
(* A type that is deleted (configuration_groups.py, ON DELETE CASCADE)     *)
(* takes no preset with it that was filed before its organiser opened a    *)
(* page that loaded, whatever other organisers do meanwhile.               *)
(***************************************************************************)
THEOREM NoPresetTakenHolds == LibrarySpec => []NoPresetTaken
  <1>1. LibraryInv => NoPresetTaken
    BY DEF LibraryInv, NoPresetTaken
  <1> QED  BY <1>1, LibraryInvInit, LibraryInvStep, PTL DEF LibrarySpec

-----------------------------------------------------------------------------
(* Patrols.                                                                *)

\* A form that is fresh is of a patrol that is stored under the number the
\* form has, with no youth but those in the form or taken off it; a number
\* taken in a fresh form is nobody's.
FormFits(r) ==
    /\ r \in EditorState
    /\ r.call = "numbered" => r.screen = "create"
    /\ r.screen = "edit" => r.of \in Patrol
    /\ r.fresh /\ r.screen = "edit" =>
          /\ patrols[r.of].here
          /\ r.number = patrols[r.of].number
          /\ \A y \in Youth :
                (\E k \in Link : <<y, k>> \in patrols[r.of].members)
                   => (\E k \in Link : <<y, k>> \in r.members) \/ y \in r.dropped
    /\ r.fresh /\ r.call = "numbered" =>
          \A p \in Present : patrols[p].number # r.number

PatrolsInv ==
    /\ PatrolsTypeOK
    /\ \A e \in Editor : FormFits(editor[e])
    /\ NumbersDiffer

\* A set of numbers up to a bound has a largest.
LEMMA LargestExists ==
    ASSUME NEW n \in Nat, NEW S \in SUBSET (0..n), S # {}
    PROVE  Max(S) \in S /\ \A x \in S : Max(S) >= x
  <1> DEFINE Back == {n - x : x \in S}
  <1>0. \A x \in S : x \in Nat /\ n - x \in Nat
    OBVIOUS
  <1>1. Back \subseteq Nat /\ Back # {}
    BY <1>0
  <1>2. PICK b \in Back : \A c \in Back : ~(<<c, b>> \in OpToRel(<, Nat))
    BY <1>1, NatLessThanWellFounded, WFMin
  <1>3. PICK x \in S : b = n - x
    BY <1>2
  <1>4. ASSUME NEW y \in S
        PROVE  x >= y
    <2>1. n - y \in Back /\ n - y \in Nat /\ b \in Nat /\ x \in Nat /\ y \in Nat
      BY <1>0, <1>1
    <2>2. n - y < b => <<n - y, b>> \in OpToRel(<, Nat)
      BY <2>1 DEF OpToRel
    <2>3. ~(<<n - y, b>> \in OpToRel(<, Nat))
      BY <1>2, <2>1
    <2> HIDE DEF Back
    <2>4. ~(n - y < n - x)
      BY <1>3, <2>2, <2>3
    <2>5. QED
      BY <2>1, <2>4
  <1>5. QED
    BY <1>4 DEF Max

\* The number given out is nobody's.
LEMMA NextNumberIsNew ==
    ASSUME PatrolsTypeOK
    PROVE  NextNumber \in Nat /\ \A p \in Present : patrols[p].number # NextNumber
  <1> DEFINE S == {patrols[p].number : p \in Present} \cup {NoNumber}
  <1>1. S \in SUBSET (0..MaxNumber) /\ S # {}
    BY PatrolsAssumption DEF PatrolsTypeOK, PatrolRow, Present, NoNumber
  <1>2. Max(S) \in S /\ \A x \in S : Max(S) >= x
    BY <1>1, LargestExists, PatrolsAssumption
  <1>3. NextNumber = Max(S) + 1
    BY DEF NextNumber
  <1>4. \A p \in Present : patrols[p].number \in S
    OBVIOUS
  <1> HIDE DEF S
  <1>5. Max(S) \in Nat /\ \A x \in S : x \in Nat /\ x <= Max(S)
    <2>1. \A x \in S : x \in Nat
      BY <1>1, PatrolsAssumption
    <2>2. QED
      BY <1>2, <2>1
  <1> DEFINE m == Max(S)
  <1> HIDE DEF m
  <1>6. m \in Nat /\ NextNumber = m + 1 /\ \A p \in Present : patrols[p].number \in Nat
                                                          /\ patrols[p].number <= m
    BY <1>3, <1>4, <1>5 DEF m
  <1>7. QED
    BY <1>6

LEMMA NumbersBounded == NoNumber \in 0..MaxNumber /\ MaxNumber \in Nat
  BY PatrolsAssumption DEF NoNumber

LEMMA BlankFields ==
    /\ Blank \in EditorState
    /\ Blank.screen = "list" /\ Blank.call = "none" /\ Blank.fresh
  BY PatrolsAssumption DEF Blank, EditorState, Screen, Call, NoNumber

LEMMA BlankFits == FormFits(Blank)
  BY BlankFields DEF FormFits

LEMMA PatrolsInitInv == PatrolsInit => PatrolsInv
  <1> SUFFICES ASSUME PatrolsInit PROVE PatrolsInv
    OBVIOUS
  <1>1. PatrolsTypeOK
    <2>1. [here |-> FALSE, number |-> NoNumber, members |-> {}] \in PatrolRow
      BY PatrolsAssumption DEF PatrolRow, NoNumber
    <2>2. QED
      BY <2>1, BlankFields DEF PatrolsInit, PatrolsTypeOK
  <1>2. \A e \in Editor : FormFits(editor[e])
    BY BlankFits DEF PatrolsInit
  <1>3. NumbersDiffer
    BY DEF PatrolsInit, NumbersDiffer, Present
  <1>4. QED
    BY <1>1, <1>2, <1>3 DEF PatrolsInv

\* A step on a page that writes nothing.
LEMMA PageStep ==
    ASSUME PatrolsInv, NEW e \in Editor, NEW r, FormFits(r), Becomes(e, r)
    PROVE  PatrolsInv'
  <1>1. /\ patrols' = patrols /\ misfit' = misfit
        /\ editor' = [editor EXCEPT ![e] = r] /\ r \in EditorState
    BY DEF Becomes, FormFits
  <1>2. /\ editor' \in [Editor -> EditorState]
        /\ \A f \in Editor : editor'[f] = r \/ editor'[f] = editor[f]
    BY <1>1 DEF PatrolsInv, PatrolsTypeOK
  <1>3. PatrolsTypeOK'
    BY <1>1, <1>2 DEF PatrolsInv, PatrolsTypeOK
  <1>4. \A f \in Editor : FormFits(editor'[f])
    BY <1>2 DEF PatrolsInv
  <1>5. \A f \in Editor : FormFits(editor[f])'
    BY <1>1, <1>4 DEF FormFits, Present
  <1>6. NumbersDiffer'
    BY <1>1 DEF PatrolsInv, NumbersDiffer, Present
  <1>7. QED
    BY <1>3, <1>5, <1>6 DEF PatrolsInv

LEMMA OpenSteps ==
    ASSUME PatrolsInv, NEW e \in Editor,
           OpenCreate(e) \/ OpenEdit(e) \/ OpenFails(e) \/ Leave(e)
    PROVE  PatrolsInv'
  <1>1. CASE OpenCreate(e)
    <2> DEFINE r == [Blank EXCEPT !.screen = "create"]
    <2>1. r \in EditorState /\ r.screen = "create" /\ r.call = "none"
      BY BlankFields DEF EditorState, Screen
    <2>2. Becomes(e, r)
      BY <1>1 DEF OpenCreate
    <2> HIDE DEF r
    <2>3. FormFits(r)
      BY <2>1 DEF FormFits
    <2>4. QED
      BY <2>2, <2>3, PageStep
  <1>2. ASSUME NEW p \in Present,
               Becomes(e, [Blank EXCEPT !.screen = "edit", !.of = p,
                              !.number = patrols[p].number, !.members = patrols[p].members])
        PROVE  PatrolsInv'
    <2> DEFINE r == [Blank EXCEPT !.screen = "edit", !.of = p,
                       !.number = patrols[p].number, !.members = patrols[p].members]
    <2>1. p \in Patrol /\ patrols[p] \in PatrolRow /\ patrols[p].here
      BY <1>2 DEF PatrolsInv, PatrolsTypeOK, Present
    <2>2. patrols[p].number \in 0..MaxNumber /\ patrols[p].members \in SUBSET Member
      BY <2>1 DEF PatrolRow
    <2>3. /\ r \in EditorState /\ r.screen = "edit" /\ r.call = "none" /\ r.of = p
          /\ r.number = patrols[p].number /\ r.members = patrols[p].members
      BY <2>1, <2>2, BlankFields DEF EditorState, Screen
    <2>4. Becomes(e, r)
      BY <1>2
    <2> HIDE DEF r
    <2>5. FormFits(r)
      BY <2>1, <2>3 DEF FormFits
    <2>6. QED
      BY <2>4, <2>5, PageStep
  <1>3. ASSUME NEW p \in Present,
               Becomes(e, [Blank EXCEPT !.screen = "edit", !.of = p, !.fresh = FALSE])
        PROVE  PatrolsInv'
    <2> DEFINE r == [Blank EXCEPT !.screen = "edit", !.of = p, !.fresh = FALSE]
    <2>1. /\ r \in EditorState /\ r.of = p /\ ~r.fresh /\ r.call = "none" /\ p \in Patrol
      BY BlankFields DEF EditorState, Screen, Present
    <2>2. Becomes(e, r)
      BY <1>3
    <2> HIDE DEF r
    <2>3. FormFits(r)
      BY <2>1 DEF FormFits
    <2>4. QED
      BY <2>2, <2>3, PageStep
  <1>4. CASE Leave(e)
    BY <1>4, BlankFits, PageStep DEF Leave
  <1>5. QED
    BY <1>1, <1>2, <1>3, <1>4 DEF OpenEdit, OpenFails

\* The organiser edits the members, or has others offered.
LEMMA MemberSteps ==
    ASSUME PatrolsInv, NEW e \in Editor,
           \/ ChooseTroop(e)
           \/ \E y \in Youth : PickYouth(e, y) \/ AddByHand(e, y)
           \/ \E m \in Member : EditMember(e, m) \/ RemoveMember(e, m)
    PROVE  PatrolsInv'
  <1> DEFINE r == editor[e]
  <1>1. r \in EditorState /\ FormFits(r)
    BY DEF PatrolsInv, PatrolsTypeOK
  <1>2. r.call = "none" /\ r.screen # "list"
    BY DEF ChooseTroop, PickYouth, Selectable, AddByHand, TypedIn, EditMember, RemoveMember,
           InTable, FormIdle
  <1>3. ASSUME NEW members \in SUBSET Member, NEW offered \in SUBSET Youth,
               NEW dropped \in SUBSET Youth,
               Becomes(e, [r EXCEPT !.members = members, !.offered = offered,
                                    !.dropped = dropped]),
               r.fresh /\ r.screen = "edit" =>
                  \A y \in Youth :
                     (\E k \in Link : <<y, k>> \in r.members) \/ y \in r.dropped
                        => (\E k \in Link : <<y, k>> \in members) \/ y \in dropped
        PROVE  PatrolsInv'
    <2> DEFINE s == [r EXCEPT !.members = members, !.offered = offered, !.dropped = dropped]
    <2>1. /\ s \in EditorState /\ s.call = r.call /\ s.screen = r.screen /\ s.of = r.of
          /\ s.fresh = r.fresh /\ s.number = r.number /\ s.members = members
          /\ s.dropped = dropped
      BY <1>1 DEF EditorState
    <2>2. Becomes(e, s)
      BY <1>3
    <2> HIDE DEF s
    <2>3. FormFits(s)
      BY <1>1, <1>2, <1>3, <2>1 DEF FormFits
    <2>4. QED
      BY <2>2, <2>3, PageStep
  <1>4. r = [r EXCEPT !.members = @, !.offered = @, !.dropped = @]
        /\ r.members \in SUBSET Member /\ r.offered \in SUBSET Youth
        /\ r.dropped \in SUBSET Youth
    BY <1>1 DEF EditorState
  <1>5. CASE ChooseTroop(e)
    <2>1. Becomes(e, [r EXCEPT !.members = r.members, !.offered = Youth \ OnSomePatrol,
                               !.dropped = r.dropped])
      BY <1>1, <1>5 DEF ChooseTroop, EditorState
    <2>2. QED
      BY <1>3, <1>4, <2>1
  <1>6. ASSUME NEW y \in Youth, PickYouth(e, y) \/ AddByHand(e, y) PROVE PatrolsInv'
    <2>1. PICK k \in Link :
             Becomes(e, [r EXCEPT !.members = r.members \cup {<<y, k>>}, !.offered = r.offered,
                                  !.dropped = r.dropped \ {y}])
      BY <1>1, <1>6 DEF PickYouth, AddByHand, EditorState, Link
    <2>2. r.members \cup {<<y, k>>} \in SUBSET Member /\ r.dropped \ {y} \in SUBSET Youth
      BY <1>4 DEF Member
    <2>3. \A z \in Youth :
             (\E l \in Link : <<z, l>> \in r.members) \/ z \in r.dropped
                => (\E l \in Link : <<z, l>> \in r.members \cup {<<y, k>>})
                   \/ z \in r.dropped \ {y}
      OBVIOUS
    <2> DEFINE members == r.members \cup {<<y, k>>}
    <2> DEFINE dropped == r.dropped \ {y}
    <2> HIDE DEF members, dropped, r
    <2>4. QED
      BY <1>3, <1>4, <2>1, <2>2, <2>3 DEF members, dropped
  <1>7. ASSUME NEW m \in Member, EditMember(e, m) PROVE PatrolsInv'
    <2>1. PICK y \in Youth, k \in Link : m = <<y, k>>
      BY DEF Member
    <2> DEFINE members == (r.members \ {m}) \cup {<<y, "named">>}
    <2>2. /\ Becomes(e, [r EXCEPT !.members = members, !.offered = r.offered,
                                  !.dropped = r.dropped])
          /\ m \in r.members
      BY <1>1, <1>7, <2>1 DEF EditMember, Rebuilt, EditorState, InTable
    <2>3. members \in SUBSET Member
      BY <1>4 DEF Member, Link
    <2>4. \A z \in Youth :
             (\E l \in Link : <<z, l>> \in r.members) \/ z \in r.dropped
                => (\E l \in Link : <<z, l>> \in members) \/ z \in r.dropped
      BY <2>1 DEF Link
    <2>5. QED
      BY <1>3, <1>4, <2>2, <2>3, <2>4
  <1>8. ASSUME NEW m \in Member, RemoveMember(e, m) PROVE PatrolsInv'
    <2>1. PICK y \in Youth, k \in Link : m = <<y, k>>
      BY DEF Member
    <2> DEFINE members == r.members \ {m}
    <2>2. Becomes(e, [r EXCEPT !.members = members, !.offered = r.offered,
                               !.dropped = Dropped(e, m)])
      BY <1>1, <1>8 DEF RemoveMember, EditorState
    <2>3. members \in SUBSET Member /\ Dropped(e, m) \in SUBSET Youth
      BY <1>4, <2>1 DEF Dropped
    <2>4. r.fresh /\ r.screen = "edit" => Dropped(e, m) = r.dropped \cup {y}
      BY <1>2, <2>1 DEF Dropped, Saves, FormIdle
    <2>5. \A z \in Youth :
             (\E l \in Link : <<z, l>> \in r.members) \/ z \in r.dropped
                => (\E l \in Link : <<z, l>> \in members) \/ z \in r.dropped \cup {y}
      BY <2>1
    <2>6. QED
      BY <1>3, <1>4, <2>2, <2>3, <2>4, <2>5
  <1>9. QED
    BY <1>5, <1>6, <1>7, <1>8

LEMMA NumberSteps ==
    ASSUME PatrolsInv, NEW e \in Editor, TakeNumber(e) \/ RequestFails(e)
    PROVE  PatrolsInv'
  <1>1. editor[e] \in EditorState /\ FormFits(editor[e]) /\ PatrolsTypeOK
    BY DEF PatrolsInv, PatrolsTypeOK
  <1>2. CASE TakeNumber(e)
    <2> DEFINE r == [editor[e] EXCEPT !.call = "numbered", !.number = NextNumber]
    <2>1. NextNumber \in 0..MaxNumber /\ \A p \in Present : patrols[p].number # NextNumber
      BY <1>1, <1>2, NextNumberIsNew, PatrolsAssumption DEF TakeNumber
    <2>2. /\ r \in EditorState /\ r.call = "numbered" /\ r.number = NextNumber
          /\ r.screen = "create"
      BY <1>1, <1>2, <2>1 DEF EditorState, Call, TakeNumber, Saves
    <2>3. Becomes(e, r)
      BY <1>2 DEF TakeNumber
    <2> HIDE DEF r
    <2>4. FormFits(r)
      BY <2>1, <2>2 DEF FormFits
    <2>5. QED
      BY <2>3, <2>4, PageStep
  <1>3. CASE RequestFails(e)
    <2> DEFINE r == [editor[e] EXCEPT !.call = "none", !.number = NoNumber]
    <2>1. /\ r \in EditorState /\ r.call = "none" /\ r.screen = "create"
      BY <1>1, <1>3, NumbersBounded DEF EditorState, Call, RequestFails, FormFits
    <2>2. Becomes(e, r)
      BY <1>3 DEF RequestFails
    <2> HIDE DEF r
    <2>3. FormFits(r)
      BY <2>1 DEF FormFits
    <2>4. QED
      BY <2>2, <2>3, PageStep
  <1>4. QED
    BY <1>2, <1>3

\* After a write no other page is fresh, and the page that wrote is closed or
\* not fresh either.
LEMMA FormsAfterWrite ==
    ASSUME PatrolsInv, NEW e \in Editor,
           \/ editor' = OtherForms(e, Blank)
           \/ editor' = OtherForms(e, FormAfterFailure(e))
           \/ OnList(e) /\ editor' = OtherForms(e, editor[e])
    PROVE  /\ editor' \in [Editor -> EditorState]
           /\ \A f \in Editor : FormFits(editor[f])'
  <1>1. \A f \in Editor : editor[f] \in EditorState /\ FormFits(editor[f])
    BY DEF PatrolsInv, PatrolsTypeOK
  <1>2. ASSUME NEW f \in Editor
        PROVE  editor'[f] \in EditorState /\ FormFits(editor[f])'
    <2>1. CASE editor'[f].screen = "list" /\ editor'[f] \in EditorState /\ editor'[f].call # "numbered"
      BY <2>1 DEF FormFits
    <2>2. CASE f # e /\ OnList(f)
      BY <1>1, <2>1, <2>2 DEF OtherForms, OnList, FormFits
    <2>3. CASE f # e /\ ~OnList(f)
      <3>1. editor'[f] = [editor[f] EXCEPT !.fresh = FALSE, !.dropped = {}]
        BY <2>3 DEF OtherForms
      <3>2. /\ editor'[f] \in EditorState /\ ~editor'[f].fresh
            /\ editor'[f].screen = editor[f].screen /\ editor'[f].call = editor[f].call
            /\ editor'[f].of = editor[f].of
        BY <1>1, <3>1 DEF EditorState
      <3>3. QED
        BY <1>1, <3>2 DEF FormFits
    <2>4. CASE f = e /\ editor' = OtherForms(e, Blank)
      BY <2>1, <2>4, BlankFields DEF OtherForms
    <2>5. CASE f = e /\ OnList(e) /\ editor' = OtherForms(e, editor[e])
      BY <1>1, <2>1, <2>5 DEF OtherForms, OnList, FormFits
    <2>6. CASE f = e /\ editor' = OtherForms(e, FormAfterFailure(e))
      <3>1. editor'[f] = FormAfterFailure(e)
        BY <2>6 DEF OtherForms
      <3>2. /\ editor'[f] \in EditorState /\ ~editor'[f].fresh /\ editor'[f].call = "none"
            /\ editor'[f].screen = editor[e].screen /\ editor'[f].of = editor[e].of
        BY <1>1, <3>1, NumbersBounded DEF FormAfterFailure, EditorState, Call
      <3>3. QED
        BY <1>1, <2>6, <3>2 DEF FormFits
    <2>7. QED
      BY <2>2, <2>3, <2>4, <2>5, <2>6
  <1>3. editor' = [f \in Editor |-> editor'[f]]
    BY DEF OtherForms
  <1>4. QED
    BY <1>2, <1>3

LEMMA StoreStep ==
    ASSUME PatrolsInv, NEW e \in Editor, NEW p \in Patrol, NEW number \in 0..MaxNumber,
           StoreMembers(e, p, number), misfit' = (misfit \/ ~editor[e].fresh),
           editor[e].fresh /\ ~misfit => \A q \in Present \ {p} : patrols[q].number # number
    PROVE  PatrolsInv'
  <1>1. editor[e] \in EditorState /\ patrols \in [Patrol -> PatrolRow] /\ misfit \in BOOLEAN
    BY DEF PatrolsInv, PatrolsTypeOK
  <1>2. PICK members \in SUBSET Member :
           patrols' = [patrols EXCEPT ![p] =
                          [here |-> TRUE, number |-> number, members |-> members]]
    BY <1>1 DEF StoreMembers, EditorState
  <1>3. [here |-> TRUE, number |-> number, members |-> members] \in PatrolRow
    BY DEF PatrolRow
  <1>4. /\ editor' \in [Editor -> EditorState]
        /\ \A f \in Editor : FormFits(editor[f])'
    <2>1. (editor' = OtherForms(e, Blank)) \/ (editor' = OtherForms(e, FormAfterFailure(e)))
      BY DEF StoreMembers
    <2>2. QED
      BY <2>1, FormsAfterWrite
  <1>5. PatrolsTypeOK'
    BY <1>1, <1>2, <1>3, <1>4 DEF PatrolsTypeOK, EditorState
  <1>6. NumbersDiffer'
    <2> SUFFICES ASSUME ~misfit', NEW a \in Present', NEW b \in Present', a # b
                 PROVE  patrols'[a].number # patrols'[b].number
      BY DEF NumbersDiffer
    <2>1. ~misfit /\ editor[e].fresh
      OBVIOUS
    <2>2. \A q \in Patrol : patrols'[q] = IF q = p THEN [here |-> TRUE, number |-> number,
                                                         members |-> members]
                                          ELSE patrols[q]
      BY <1>1, <1>2
    <2>3. a \in Patrol /\ b \in Patrol /\ (a # p => a \in Present) /\ (b # p => b \in Present)
      BY <2>2 DEF Present
    <2>4. a # p /\ b # p => patrols[a].number # patrols[b].number
      BY <2>1, <2>3 DEF PatrolsInv, NumbersDiffer
    <2>5. QED
      BY <2>1, <2>2, <2>3, <2>4
  <1>7. QED
    BY <1>4, <1>5, <1>6 DEF PatrolsInv

LEMMA WriteSteps ==
    ASSUME PatrolsInv, NEW e \in Editor, Update(e) \/ Create(e) \/ Delete(e)
    PROVE  PatrolsInv'
  <1>1. editor[e] \in EditorState /\ patrols \in [Patrol -> PatrolRow] /\ FormFits(editor[e])
    BY DEF PatrolsInv, PatrolsTypeOK
  <1>2. editor[e].number \in 0..MaxNumber
    BY <1>1 DEF EditorState
  <1>3. CASE Update(e)
    <2> DEFINE p == editor[e].of
    <2>1. /\ p \in Patrol /\ patrols[p].here /\ editor[e].screen = "edit"
          /\ StoreMembers(e, p, editor[e].number) /\ misfit' = (misfit \/ ~editor[e].fresh)
      BY <1>1, <1>3 DEF Update, Saves, FormFits
    <2>2. PatrolsTypeOK /\ NumbersDiffer
      BY DEF PatrolsInv
    <2>3. editor[e].fresh /\ ~misfit =>
             \A q \in Present \ {p} : patrols[q].number # editor[e].number
      BY <1>1, <2>1, <2>2 DEF FormFits, NumbersDiffer, Present
    <2>4. QED
      BY <1>2, <2>1, <2>3, StoreStep
  <1>4. CASE Create(e)
    <2>1. PICK p \in Patrol \ Present : StoreMembers(e, p, editor[e].number)
      BY <1>4 DEF Create
    <2>2. editor[e].fresh => \A q \in Present : patrols[q].number # editor[e].number
      BY <1>1, <1>4 DEF Create, FormFits
    <2>3. misfit' = (misfit \/ ~editor[e].fresh)
      BY <1>4 DEF Create
    <2>4. QED
      BY <1>2, <2>1, <2>2, <2>3, StoreStep
  <1>5. CASE Delete(e)
    <2> DEFINE row == [here |-> FALSE, number |-> NoNumber, members |-> {}]
    <2>1. PICK p \in Present : /\ patrols' = [patrols EXCEPT ![p] = row]
                               /\ editor' = OtherForms(e, editor[e])
      BY <1>5 DEF Delete
    <2>2. row \in PatrolRow /\ ~row.here
      BY NumbersBounded DEF PatrolRow
    <2> HIDE DEF row
    <2>3. OnList(e) /\ misfit' = misfit /\ p \in Patrol
      BY <1>5 DEF Delete, Present
    <2>4. /\ editor' \in [Editor -> EditorState]
          /\ \A f \in Editor : FormFits(editor[f])'
      BY <2>1, <2>3, FormsAfterWrite
    <2>5. PatrolsTypeOK'
      BY <1>1, <2>1, <2>2, <2>3, <2>4 DEF PatrolsInv, PatrolsTypeOK
    <2>6. Present' \subseteq Present /\ \A q \in Present' : patrols'[q] = patrols[q]
      BY <1>1, <2>1, <2>2, <2>3 DEF Present
    <2>7. NumbersDiffer'
      BY <2>3, <2>6 DEF PatrolsInv, NumbersDiffer
    <2>8. QED
      BY <2>4, <2>5, <2>7 DEF PatrolsInv
  <1>6. QED
    BY <1>3, <1>4, <1>5

LEMMA PatrolsStep == PatrolsInv /\ [PatrolsNext]_patrolVars => PatrolsInv'
  <1> SUFFICES ASSUME PatrolsInv, [PatrolsNext]_patrolVars PROVE PatrolsInv'
    OBVIOUS
  <1>1. CASE UNCHANGED patrolVars
    BY <1>1 DEF patrolVars, PatrolsInv, PatrolsTypeOK, FormFits, NumbersDiffer, Present
  <1>2. CASE PatrolsNext
    BY <1>2, OpenSteps, MemberSteps, NumberSteps, WriteSteps DEF PatrolsNext
  <1>3. QED
    BY <1>1, <1>2

LEMMA PatrolsInductive == PatrolsSpec => []PatrolsInv
  BY PatrolsInitInv, PatrolsStep, PTL DEF PatrolsSpec

\* Types, for any number of organisers, patrols and youth.
THEOREM PatrolsTypeCorrect == PatrolsSpec => []PatrolsTypeOK
  <1>1. PatrolsInv => PatrolsTypeOK
    BY DEF PatrolsInv
  <1>2. QED
    BY <1>1, PatrolsInductive, PTL

\* Two patrols share a number only if a page saved that no longer knew what
\* was stored, although numbers are given out again and creations interleave.
THEOREM NumbersDifferHolds == PatrolsSpec => []NumbersDiffer
  <1>1. PatrolsInv => NumbersDiffer
    BY DEF PatrolsInv
  <1>2. QED
    BY <1>1, PatrolsInductive, PTL

\* A youth disappears from a patrol only by the removal on the form saved, by
\* a form that was not the stored patrol, or by a save that failed halfway.
THEOREM LossHasCauseHolds == PatrolsSpec => LossHasCause
  <1> DEFINE Held(p, y) == \E k \in Link : <<y, k>> \in patrols[p].members
  <1> DEFINE Cause(e, p, y) ==
        /\ editor[e].screen = "edit" /\ editor[e].of = p
        /\ y \in editor[e].dropped \/ ~editor[e].fresh \/ ~editor'[e].fresh
  <1>1. ASSUME PatrolsInv, [PatrolsNext]_patrolVars, NEW p \in Present, NEW y \in Youth,
               patrols'[p].here, Held(p, y), ~Held(p, y)'
        PROVE  \E e \in Editor : Cause(e, p, y)
    <2>1. patrols \in [Patrol -> PatrolRow] /\ p \in Patrol /\ patrols[p].here
      BY <1>1 DEF PatrolsInv, PatrolsTypeOK, Present
    <2>2. patrols' # patrols
      BY <1>1
    <2>3. PICK e \in Editor : Update(e) \/ Create(e) \/ Delete(e)
      BY <1>1, <2>2 DEF PatrolsNext, OpenCreate, OpenEdit, OpenFails, Leave, ChooseTroop,
         PickYouth, AddByHand, EditMember, RemoveMember, TakeNumber, RequestFails, Becomes,
         patrolVars
    <2>4. editor[e] \in EditorState /\ FormFits(editor[e])
      BY <1>1 DEF PatrolsInv, PatrolsTypeOK
    <2>5. ~Delete(e)
      <3> SUFFICES ASSUME NEW q \in Present,
                          patrols' = [patrols EXCEPT ![q] =
                             [here |-> FALSE, number |-> NoNumber, members |-> {}]]
                   PROVE  FALSE
        BY DEF Delete
      <3>1. q # p
        BY <1>1, <2>1
      <3>2. QED
        BY <1>1, <2>1, <3>1
    <2>6. ~Create(e)
      <3> SUFFICES ASSUME NEW q \in Patrol \ Present, StoreMembers(e, q, editor[e].number)
                   PROVE  FALSE
        BY DEF Create
      <3>1. patrols'[p] = patrols[p]
        BY <2>1 DEF StoreMembers
      <3>2. QED
        BY <1>1, <3>1
    <2>7. /\ Saves(e, "edit") /\ editor[e].screen = "edit" /\ editor[e].of \in Patrol
          /\ StoreMembers(e, editor[e].of, editor[e].number)
      BY <2>3, <2>4, <2>5, <2>6 DEF Update, Saves, FormFits
    <2>8. editor[e].of = p
      <3>1. CASE editor[e].of # p
        <4>1. patrols'[p] = patrols[p]
          BY <2>1, <2>7, <3>1 DEF StoreMembers
        <4>2. QED
          BY <1>1, <4>1
      <3>2. QED
        BY <3>1
    <2>9. CASE editor' = OtherForms(e, FormAfterFailure(e))
      <3>1. editor'[e] = FormAfterFailure(e)
        BY <2>9 DEF OtherForms
      <3>2. ~editor'[e].fresh
        BY <2>4, <3>1 DEF FormAfterFailure, EditorState
      <3>3. QED
        BY <2>7, <2>8, <3>2
    <2>10. CASE editor' # OtherForms(e, FormAfterFailure(e))
      <3>1. patrols'[p].members = editor[e].members
        BY <2>1, <2>7, <2>8, <2>10 DEF StoreMembers
      <3>2. editor[e].fresh => (\E k \in Link : <<y, k>> \in editor[e].members)
                               \/ y \in editor[e].dropped
        BY <1>1, <2>4, <2>7, <2>8 DEF FormFits
      <3>3. QED
        BY <1>1, <2>7, <2>8, <3>1, <3>2
    <2>11. QED
      BY <2>9, <2>10
  <1>2. PatrolsInv /\ [PatrolsNext]_patrolVars =>
           \A p \in Present, y \in Youth :
              (patrols'[p].here /\ (\E k \in Link : <<y, k>> \in patrols[p].members)
                                /\ (\A k \in Link : <<y, k>> \notin patrols'[p].members))
              => \E e \in Editor : /\ editor[e].screen = "edit" /\ editor[e].of = p
                                   /\ y \in editor[e].dropped \/ ~editor[e].fresh \/ ~editor'[e].fresh
    BY <1>1
  <1>3. QED
    BY <1>2, PatrolsInductive, PTL DEF PatrolsSpec, LossHasCause

-----------------------------------------------------------------------------
(* Tasks of a station or a preset.                                         *)

\* No task twice in a list, none of another preset, and in a preset's no gap.
Orderly(l) ==
    /\ \A i, j \in DOMAIN l : i # j /\ l[i] = l[j] => l[i] \in {NoId, Hole}
    /\ \A i \in DOMAIN l : l[i] \notin Foreign
    /\ owner = "preset" => \A i \in DOMAIN l : l[i] # Hole

\* A list the rows take: no task twice, none of another preset, none without
\* an id, and in a preset's no gap.
Storable(l) ==
    /\ \A i \in DOMAIN l : l[i] = Hole \/ l[i] \in Own
    /\ \A i, j \in DOMAIN l : i # j /\ l[i] = l[j] => l[i] = Hole
    /\ owner = "preset" => \A i \in DOMAIN l : l[i] # Hole

\* The JSON is that of the list on its way.
JsonOf(l) == json = l \/ (owner = "preset" /\ l = <<>>)

\* The panel in the form f edits the task that is at its position.
InPlace(f) ==
    f.panel # NoPanel /\ f.panel.mode = "edit" =>
        f.panel.index \in DOMAIN f.list /\ f.list[f.panel.index] = f.panel.task

\* What the panel saves is nowhere else in the list.
PanelFits(f) ==
    f.panel # NoPanel =>
        /\ f.panel.task \notin Foreign \cup {Hole}
        /\ \/ f.panel.task = NoId
           \/ \A i \in DOMAIN f.list :
                 (f.panel.mode = "edit" => i # f.panel.index) => f.list[i] # f.panel.task

\* Closed or open, the form f holds what is excused neither by a slip nor by a
\* list that was mixed up.
FormHolds(f, slip, mix) ==
    /\ f \in FormState
    /\ f.saving => f.open
    /\ f.panel # NoPanel /\ f.panel.mode = "edit" => f.panel.index <= MaxLength
    /\ ~slip => /\ f.kept \subseteq Listed(f.list)
                /\ f.kept # {} \/ (owner = "preset" /\ ~mix) => InPlace(f)
    /\ ~slip /\ ~mix =>
          /\ Orderly(f.list) /\ PanelFits(f)
          /\ f.saving => f.seen = Existing /\ Storable(f.sending) /\ JsonOf(f.sending)

TasksInv == TasksTypeOK /\ FormHolds(form, slipped, mixed)

LEMMA LengthBounded == MaxLength \in Nat \ {0}
  BY TasksAssumption

LEMMA ListBounded ==
    ASSUME NEW l
    PROVE  l \in BoundedSeq(Entry, MaxLength) <=> l \in Seq(Entry) /\ Len(l) <= MaxLength
  <1>1. MaxLength \in Nat
    BY LengthBounded
  <1>2. ASSUME l \in BoundedSeq(Entry, MaxLength)
        PROVE  l \in Seq(Entry) /\ Len(l) <= MaxLength
    <2>1. PICK m \in 0..MaxLength : l \in [1..m -> Entry]
      BY <1>2 DEF BoundedSeq, SeqOf
    <2>2. m \in Nat /\ m <= MaxLength
      BY <1>1
    <2>3. l \in Seq(Entry)
      BY <2>1, <2>2, SeqDef
    <2>4. Len(l) = m
      BY <2>1, <2>2, <2>3, LenProperties
    <2>5. QED
      BY <2>2, <2>3, <2>4
  <1>3. ASSUME l \in Seq(Entry), Len(l) <= MaxLength
        PROVE  l \in BoundedSeq(Entry, MaxLength)
    <2>1. Len(l) \in 0..MaxLength /\ l \in [1..Len(l) -> Entry]
      BY <1>1, <1>3, LenProperties
    <2>2. QED
      BY <2>1 DEF BoundedSeq, SeqOf
  <1>4. QED
    BY <1>2, <1>3

\* Taking one entry out of a list moves the later ones up.
LEMMA RemoveAtFacts ==
    ASSUME NEW S, NEW l \in Seq(S), NEW i \in 1..Len(l)
    PROVE  /\ RemoveAt(l, i) \in Seq(S) /\ Len(RemoveAt(l, i)) = Len(l) - 1
           /\ \A j \in 1..(Len(l) - 1) : RemoveAt(l, i)[j] = IF j < i THEN l[j] ELSE l[j + 1]
  <1> DEFINE n == Len(l)
  <1> DEFINE a == SubSeq(l, 1, i - 1)
  <1> DEFINE b == SubSeq(l, i + 1, n)
  <1>1. n \in Nat /\ i \in 1..n /\ \A j \in 1..n : l[j] \in S
    BY LenProperties, ElementOfSeq
  <1> HIDE DEF n
  <1>2. i - 1 \in Int /\ i + 1 \in Int /\ n \in Int /\ i \in Int /\ 1 \in Int
    BY <1>1
  <1>3. a \in Seq(S) /\ Len(a) = i - 1 /\ \A j \in 1..(i - 1) : a[j] = l[j]
    <2>1. \A j \in 1..(i - 1) : l[j] \in S
      BY <1>1
    <2>2. a \in Seq(S) /\ Len(a) = (IF 1 <= i - 1 THEN (i - 1) - 1 + 1 ELSE 0)
          /\ \A j \in 1..((i - 1) - 1 + 1) : a[j] = l[1 + j - 1]
      BY <1>2, <2>1, SubSeqProperties
    <2>3. (i - 1) - 1 + 1 = i - 1 /\ \A j \in 1..(i - 1) : 1 + j - 1 = j
      BY <1>1
    <2>4. QED
      BY <1>1, <2>2, <2>3
  <1>4. b \in Seq(S) /\ Len(b) = n - i /\ \A j \in 1..(n - i) : b[j] = l[j + i]
    <2>1. \A j \in (i + 1)..n : l[j] \in S
      BY <1>1
    <2>2. b \in Seq(S) /\ Len(b) = (IF i + 1 <= n THEN n - (i + 1) + 1 ELSE 0)
          /\ \A j \in 1..(n - (i + 1) + 1) : b[j] = l[(i + 1) + j - 1]
      BY <1>2, <2>1, SubSeqProperties
    <2>3. n - (i + 1) + 1 = n - i /\ \A j \in 1..(n - i) : (i + 1) + j - 1 = j + i
      BY <1>1
    <2>4. QED
      BY <1>1, <2>2, <2>3
  <1>5. RemoveAt(l, i) = a \o b
    BY DEF RemoveAt, n
  <1> HIDE DEF a, b
  <1>6. /\ a \o b \in Seq(S) /\ Len(a \o b) = (i - 1) + (n - i)
        /\ \A j \in 1..((i - 1) + (n - i)) :
              (a \o b)[j] = IF j <= i - 1 THEN a[j] ELSE b[j - (i - 1)]
    <2>1. /\ a \o b \in Seq(S) /\ Len(a \o b) = Len(a) + Len(b)
          /\ \A j \in 1..(Len(a) + Len(b)) :
                (a \o b)[j] = IF j <= Len(a) THEN a[j] ELSE b[j - Len(a)]
      BY <1>3, <1>4, ConcatProperties
    <2>2. Len(a) = i - 1 /\ Len(b) = n - i
      BY <1>3, <1>4
    <2>3. QED
      BY <2>1, <2>2
  <1>7. (i - 1) + (n - i) = n - 1
    BY <1>1
  <1>8. ASSUME NEW j \in 1..(n - 1)
        PROVE  (a \o b)[j] = IF j < i THEN l[j] ELSE l[j + 1]
    <2>1. CASE j < i
      BY <1>1, <1>3, <1>6, <1>7, <2>1
    <2>2. CASE ~(j < i)
      <3>1. j - (i - 1) \in 1..(n - i) /\ (j - (i - 1)) + i = j + 1 /\ ~(j <= i - 1)
        BY <1>1, <2>2
      <3>2. (a \o b)[j] = b[j - (i - 1)]
        BY <1>6, <1>7, <3>1
      <3>3. b[j - (i - 1)] = l[j + 1]
        BY <1>4, <3>1
      <3>4. QED
        BY <2>2, <3>2, <3>3
    <2>3. QED
      BY <2>1, <2>2
  <1>9. QED
    BY <1>5, <1>6, <1>7, <1>8 DEF n

\* A finite set as a sequence: each element once.
LEMMA SetToSeqFacts ==
    ASSUME NEW S, IsFiniteSet(S)
    PROVE  /\ Cardinality(S) \in Nat
           /\ SetToSeq(S) \in [1..Cardinality(S) -> S]
           /\ IsInjective(SetToSeq(S))
           /\ \A x \in S : \E i \in 1..Cardinality(S) : SetToSeq(S)[i] = x
  <1> DEFINE n == Cardinality(S)
  <1>1. n \in Nat /\ ExistsBijection(1..n, S)
    BY FS_CardinalityType
  <1>2. PICK f \in Bijection(1..n, S) : TRUE
    BY <1>1 DEF ExistsBijection
  <1>3. f \in [1..n -> S] /\ IsInjective(f)
    BY <1>2 DEF Bijection, Injection
  <1>4. SetToSeq(S) \in [1..n -> S] /\ IsInjective(SetToSeq(S))
    BY <1>3 DEF SetToSeq
  <1>5. \A x \in S : \E i \in 1..n : SetToSeq(S)[i] = x
    <2>1. IsFiniteSet(1..n) /\ Cardinality(1..n) = n
      BY <1>1, FS_Interval
    <2>2. SetToSeq(S) \in Injection(1..n, S)
      BY <1>4 DEF Injection
    <2>3. SetToSeq(S) \in Surjection(1..n, S)
      BY <2>1, <2>2, FS_Injection
    <2>4. QED
      BY <2>3 DEF Surjection
  <1>6. QED
    BY <1>1, <1>4, <1>5

\* Tasks that are rows make a list of each of them.
LEMMA ListOfOwn ==
    ASSUME NEW S \in SUBSET Own
    PROVE  SetToSeq(S) \in Seq(Entry) /\ ToSet(SetToSeq(S)) = S
  <1> DEFINE l == SetToSeq(S)
  <1>1. IsFiniteSet(S)
    BY TasksAssumption, FS_Subset DEF Own
  <1>2. PICK n \in Nat : l \in [1..n -> S] /\ \A x \in S : \E i \in 1..n : l[i] = x
    BY <1>1, SetToSeqFacts
  <1> HIDE DEF l
  <1>3. l \in [1..n -> Entry]
    BY <1>2 DEF Entry, Ids
  <1>4. l \in Seq(Entry)
    BY <1>3, SeqDef
  <1>5. ToSet(l) = S
    BY <1>2 DEF ToSet
  <1>6. QED
    BY <1>4, <1>5 DEF l

-----------------------------------------------------------------------------
(* The page's steps.                                                       *)

LEMMA ClosedHolds == FormHolds(Closed, FALSE, FALSE) /\ Listed(<<>>) = {}
  <1>1. <<>> \in BoundedSeq(Entry, MaxLength)
    <2>1. <<>> \in Seq(Entry) /\ Len(<<>>) = 0 /\ 0 <= MaxLength
      BY EmptySeq, LengthBounded
    <2>2. QED
      BY <2>1, ListBounded
  <1>2. Closed \in FormState
    BY <1>1 DEF Closed, FormState
  <1>3. /\ ~Closed.open /\ ~Closed.saving /\ Closed.panel = NoPanel /\ Closed.kept = {}
        /\ Closed.list = <<>>
    BY DEF Closed
  <1>4. DOMAIN <<>> = {}
    OBVIOUS
  <1> HIDE DEF Closed
  <1>5. Orderly(Closed.list) /\ PanelFits(Closed) /\ InPlace(Closed)
    BY <1>3, <1>4 DEF Orderly, PanelFits, InPlace
  <1>6. QED
    BY <1>2, <1>3, <1>4, <1>5 DEF FormHolds, Listed, ToSet

\* What is excused by more is still held.
LEMMA ExcuseMore ==
    ASSUME NEW f, NEW slip \in BOOLEAN, NEW mix \in BOOLEAN, NEW slip2 \in BOOLEAN,
           NEW mix2 \in BOOLEAN, FormHolds(f, slip, mix), slip => slip2, mix => mix2
    PROVE  FormHolds(f, slip2, mix2)
  BY DEF FormHolds

LEMMA TasksInitInv == TasksInit => TasksInv
  <1> SUFFICES ASSUME TasksInit PROVE TasksInv
    OBVIOUS
  <1>1. rows \in [Own -> RowState]
    BY DEF TasksInit, RowState
  <1>2. json \in Seq(Entry)
    BY ListOfOwn DEF TasksInit, Own
  <1>3. QED
    BY <1>1, <1>2, ClosedHolds DEF TasksInit, TasksInv, TasksTypeOK, FormHolds

\* The rows change only under a form that is not saving, or is mixed up by it.
LEMMA FormMoves ==
    ASSUME TasksInv, NEW f, form' = f, slipped' \in BOOLEAN, mixed' \in BOOLEAN,
           FormHolds(f, slipped', mixed'), owner' = owner, scored' \subseteq Own,
           rows' \in [Own -> RowState], json' \in Seq(Entry),
           (rows' = rows /\ json' = json) \/ mixed' \/ ~f.saving
    PROVE  TasksInv'
  <1>1. rows' = rows => Existing' = Existing
    BY DEF Existing, Exists
  <1>2. TasksTypeOK'
    BY DEF TasksInv, TasksTypeOK, FormHolds
  <1>3. FormHolds(form, slipped, mixed)'
    BY <1>1 DEF FormHolds, Orderly, Storable, JsonOf, InPlace, PanelFits, Listed
  <1>4. QED
    BY <1>2, <1>3 DEF TasksInv

LEMMA FormStays ==
    ASSUME TasksInv, NEW f, form' = f, FormHolds(f, slipped', mixed'), slipped' \in BOOLEAN,
           mixed' \in BOOLEAN, UNCHANGED <<owner, rows, json, scored>>
    PROVE  TasksInv'
  <1>1. scored' \subseteq Own /\ rows' \in [Own -> RowState] /\ json' \in Seq(Entry)
    BY DEF TasksInv, TasksTypeOK
  <1>2. QED
    BY <1>1, FormMoves

LEMMA FormFacts ==
    ASSUME TasksInv
    PROVE  /\ form \in FormState /\ slipped \in BOOLEAN /\ mixed \in BOOLEAN
           /\ FormHolds(form, slipped, mixed)
           /\ form.list \in Seq(Entry) /\ Len(form.list) \in Nat
           /\ Len(form.list) <= MaxLength /\ DOMAIN form.list = 1..Len(form.list)
           /\ \A i \in DOMAIN form.list : form.list[i] \in Entry
  <1>1. form \in FormState /\ form.list \in BoundedSeq(Entry, MaxLength)
    BY DEF TasksInv, TasksTypeOK, FormState
  <1>2. form.list \in Seq(Entry) /\ Len(form.list) <= MaxLength
    BY <1>1, ListBounded
  <1>3. QED
    BY <1>1, <1>2, LenProperties, ElementOfSeq DEF TasksInv, TasksTypeOK

\* Only the panel changes.
LEMMA PanelMoves ==
    ASSUME TasksInv, form.open, NEW panel, OnForm([form EXCEPT !.panel = panel]),
           panel \in [mode : {"create", "edit"}, index : 1..(MaxLength + 1), task : Entry]
                     \cup {NoPanel},
           panel # NoPanel =>
              /\ panel.mode = "edit" =>
                    /\ panel.index \in DOMAIN form.list /\ panel.task # Hole
                    /\ panel.task = form.list[panel.index]
              /\ panel.mode = "create" =>
                    /\ panel.task \notin Foreign \cup {Hole}
                    /\ \/ panel.task = NoId
                       \/ \A i \in DOMAIN form.list : form.list[i] # panel.task
    PROVE  TasksInv'
  <1> DEFINE f == [form EXCEPT !.panel = panel]
  <1>1. /\ f \in FormState /\ f.panel = panel /\ f.list = form.list /\ f.kept = form.kept
        /\ f.open = form.open /\ f.saving = form.saving /\ f.seen = form.seen
        /\ f.sending = form.sending
    BY FormFacts DEF FormState
  <1>2. form' = f /\ UNCHANGED <<owner, rows, json, scored, slipped, mixed>>
    BY DEF OnForm
  <1> HIDE DEF f
  <1>3. InPlace(f)
    BY <1>1 DEF InPlace
  <1>4. Orderly(form.list) => PanelFits(f)
    <2> SUFFICES ASSUME Orderly(form.list), panel # NoPanel
                 PROVE  /\ panel.task \notin Foreign \cup {Hole}
                        /\ \/ panel.task = NoId
                           \/ \A i \in DOMAIN form.list :
                                 (panel.mode = "edit" => i # panel.index)
                                    => form.list[i] # panel.task
      BY <1>1 DEF PanelFits
    <2>1. CASE panel.mode = "create"
      BY <2>1
    <2>2. CASE panel.mode = "edit"
      <3>1. /\ panel.index \in DOMAIN form.list /\ panel.task # Hole
            /\ panel.task = form.list[panel.index] /\ panel.task \notin Foreign
        BY <2>2 DEF Orderly
      <3>2. QED
        BY <2>2, <3>1 DEF Orderly
    <2>3. QED
      BY <2>1, <2>2
  <1>5. panel # NoPanel /\ panel.mode = "edit" => panel.index <= MaxLength
    BY FormFacts, LengthBounded
  <1>6. FormHolds(f, slipped, mixed)
    BY <1>1, <1>3, <1>4, <1>5, FormFacts DEF FormHolds
  <1>7. QED
    BY <1>2, <1>6, FormFacts, FormStays

LEMMA PanelSteps ==
    ASSUME TasksInv,
           \/ OpenCreateTask \/ OpenPresetTask \/ CloseTask
           \/ \E i \in 1..MaxLength : OpenEditTask(i)
    PROVE  TasksInv'
  <1>1. Len(form.list) + 1 \in 1..(MaxLength + 1) /\ MaxLength + 1 \in 1..(MaxLength + 1)
    BY FormFacts, LengthBounded
  <1>2. NoId \in Entry /\ NoId # Hole /\ NoId \notin Foreign /\ New \subseteq Entry
        /\ New \cap (Foreign \cup {Hole}) = {}
    BY TasksAssumption DEF Entry, Ids, Own, NoId, Hole
  <1>3. CASE OpenCreateTask
    <2>1. PICK t \in New :
             /\ t \notin Listed(form.list)
             /\ OnForm([form EXCEPT !.panel = Panel("create", Len(form.list) + 1, t)])
      BY <1>3 DEF OpenCreateTask, Unused
    <2> DEFINE panel == Panel("create", Len(form.list) + 1, t)
    <2>2. panel \in [mode : {"create", "edit"}, index : 1..(MaxLength + 1), task : Entry]
      BY <1>1, <1>2 DEF Panel
    <2>3. panel.mode = "create" /\ panel.task = t
      BY DEF Panel
    <2>4. \A i \in DOMAIN form.list : form.list[i] # t
      BY <2>1 DEF Listed, ToSet, Ids, Own
    <2>5. form.open /\ OnForm([form EXCEPT !.panel = panel])
      BY <1>3, <2>1 DEF OpenCreateTask, StationPage
    <2> HIDE DEF panel
    <2>6. QED
      BY <1>2, <2>2, <2>3, <2>4, <2>5, PanelMoves
  <1>4. CASE OpenPresetTask
    <2> DEFINE panel == Panel("create", MaxLength + 1, NoId)
    <2>1. panel \in [mode : {"create", "edit"}, index : 1..(MaxLength + 1), task : Entry]
      BY <1>1, <1>2 DEF Panel
    <2>2. panel.mode = "create" /\ panel.task = NoId
      BY DEF Panel
    <2>3. form.open /\ OnForm([form EXCEPT !.panel = panel])
      BY <1>4 DEF OpenPresetTask, PresetPage, AtFoot
    <2> HIDE DEF panel
    <2>4. QED
      BY <1>2, <2>1, <2>2, <2>3, PanelMoves
  <1>5. ASSUME NEW i \in 1..MaxLength, OpenEditTask(i) PROVE TasksInv'
    <2> DEFINE panel == Panel("edit", i, form.list[i])
    <2>1. i \in DOMAIN form.list /\ form.list[i] # Hole /\ form.open
          /\ OnForm([form EXCEPT !.panel = panel])
      BY <1>5 DEF OpenEditTask, Editable, StationPage, PresetPage, AtFoot
    <2>2. panel \in [mode : {"create", "edit"}, index : 1..(MaxLength + 1), task : Entry]
      BY <2>1, FormFacts, LengthBounded DEF Panel
    <2>3. panel.mode = "edit" /\ panel.index = i /\ panel.task = form.list[i]
      BY DEF Panel
    <2> HIDE DEF panel
    <2>4. QED
      BY <2>1, <2>2, <2>3, PanelMoves
  <1>6. CASE CloseTask
    <2>1. form.open /\ OnForm([form EXCEPT !.panel = NoPanel])
      BY <1>6 DEF CloseTask, Editable, StationPage, PresetPage, AtFoot
    <2>2. QED
      BY <2>1, PanelMoves
  <1>7. QED
    BY <1>3, <1>4, <1>5, <1>6

\* What the stored tasks are when a page reads them.
LEMMA LoadStep == ASSUME TasksInv, LoadTasks PROVE TasksInv'
  <1> DEFINE l == Read
  <1> DEFINE f == [Closed EXCEPT !.open = TRUE, !.list = l, !.kept = ToSet(l) \cap Own,
                      !.off = {t \in Own : rows[t] = "inactive"}]
  <1>1. l \in Seq(Entry)
    <2>1. Existing \in SUBSET Own
      BY DEF Existing
    <2>2. QED
      BY <2>1, ListOfOwn DEF Read, TasksInv, TasksTypeOK
  <1>2. /\ form' = f /\ slipped' = FALSE /\ mixed' = ~Sound(l) /\ Len(l) <= MaxLength
        /\ UNCHANGED <<owner, rows, json, scored>>
    BY DEF LoadTasks
  <1> HIDE DEF l
  <1>3. l \in BoundedSeq(Entry, MaxLength)
    BY <1>1, <1>2, ListBounded
  <1>4. Own \subseteq Ids /\ Own \cap Foreign = {} /\ Hole \notin Own
    BY TasksAssumption DEF Own, Ids, Hole
  <1>5. ToSet(l) \cap Own \subseteq Listed(l)
    BY <1>4 DEF Listed
  <1>6. Sound(l) => Orderly(l)
    BY <1>4 DEF Sound, Orderly, IsInjective, ToSet
  <1>7. /\ f \in FormState /\ f.list = l /\ f.kept = ToSet(l) \cap Own /\ f.panel = NoPanel
        /\ f.open /\ ~f.saving
    BY <1>3, ClosedHolds DEF FormHolds, FormState, Closed
  <1> HIDE DEF f
  <1>8. FormHolds(f, FALSE, ~Sound(l))
    BY <1>5, <1>6, <1>7 DEF FormHolds, InPlace, PanelFits
  <1>9. (~Sound(l)) \in BOOLEAN
    <2>1. CASE Sound(l)
      <3>1. (~Sound(l)) = FALSE
        BY <2>1
      <3>2. QED
        BY <3>1
    <2>2. CASE ~Sound(l)
      <3>1. (~Sound(l)) = TRUE
        BY <2>2
      <3>2. QED
        BY <3>1
    <2>3. QED
      BY <2>1, <2>2
  <1>10. QED
    BY <1>2, <1>8, <1>9, FormStays

\* Only the list, what is kept of it and the panel change.
LEMMA ListMoves ==
    ASSUME TasksInv, form.open, NEW l, NEW k \in SUBSET Own, NEW panel,
           form' = [form EXCEPT !.list = l, !.kept = k, !.panel = panel],
           panel = form.panel \/ panel = NoPanel,
           l \in Seq(Entry), Len(l) <= MaxLength,
           slipped' \in BOOLEAN, mixed' \in BOOLEAN, slipped => slipped', mixed => mixed',
           ~slipped' => k \subseteq Listed(l),
           ~slipped' /\ panel # NoPanel /\ panel.mode = "edit" =>
              k = {} /\ (owner = "preset" => mixed'),
           ~slipped' /\ ~mixed' => Orderly(l),
           ~slipped' /\ ~mixed' /\ panel # NoPanel =>
              \A i \in DOMAIN l : panel.task = NoId \/ l[i] # panel.task,
           UNCHANGED <<owner, rows, json, scored>>
    PROVE  TasksInv'
  <1> DEFINE f == [form EXCEPT !.list = l, !.kept = k, !.panel = panel]
  <1>1. l \in BoundedSeq(Entry, MaxLength)
    BY ListBounded
  <1>2. /\ f \in FormState /\ f.panel = panel /\ f.list = l /\ f.kept = k
        /\ f.open = form.open /\ f.saving = form.saving /\ f.seen = form.seen
        /\ f.sending = form.sending
    BY <1>1, FormFacts DEF FormState
  <1>3. form' = f
    OBVIOUS
  <1> HIDE DEF f
  <1>4. panel # NoPanel /\ panel.mode = "edit" => panel.index <= MaxLength
    BY FormFacts DEF FormHolds
  <1>5. ~slipped' => (k # {} \/ (owner = "preset" /\ ~mixed') => InPlace(f))
    BY <1>2 DEF InPlace
  <1>6. ~slipped' /\ ~mixed' => PanelFits(f)
    BY <1>2, FormFacts DEF FormHolds, PanelFits
  <1>7. FormHolds(f, slipped', mixed')
    BY <1>2, <1>4, <1>5, <1>6, FormFacts DEF FormHolds
  <1>8. QED
    BY <1>3, <1>7, FormStays

LEMMA SaveTaskStep == ASSUME TasksInv, SaveTask PROVE TasksInv'
  <1> DEFINE p == form.panel
  <1>1. /\ p # NoPanel /\ form.open /\ p.mode \in {"create", "edit"} /\ p.task \in Entry
        /\ p.index \in Nat \ {0} /\ form.kept \in SUBSET Own
    BY FormFacts, LengthBounded
       DEF SaveTask, FormState, Editable, StationPage, PresetPage, AtFoot
  <1>2. CASE p.mode = "create"
    <2> DEFINE l == Append(form.list, p.task)
    <2>1. /\ form' = [form EXCEPT !.list = l, !.panel = NoPanel] /\ Len(form.list) < MaxLength
          /\ UNCHANGED <<owner, rows, json, scored, slipped, mixed>>
      BY <1>2 DEF SaveTask, OnForm
    <2>2. /\ l \in Seq(Entry) /\ Len(l) = Len(form.list) + 1 /\ l[Len(form.list) + 1] = p.task
          /\ \A i \in 1..Len(form.list) : l[i] = form.list[i]
          /\ DOMAIN l = 1..(Len(form.list) + 1)
      <3>1. l \in Seq(Entry)
        BY <1>1, FormFacts
      <3>2. Len(l) = Len(form.list) + 1 /\ \A i \in 1..Len(form.list) : l[i] = form.list[i]
            /\ l[Len(form.list) + 1] = p.task
        BY <1>1, FormFacts
      <3>3. QED
        BY <3>1, <3>2, LenProperties
    <2> HIDE DEF l
    <2>3. form' = [form EXCEPT !.list = l, !.kept = form.kept, !.panel = NoPanel]
      BY <2>1, FormFacts DEF FormState
    <2>4. Len(l) <= MaxLength
      BY <2>1, <2>2, FormFacts, LengthBounded
    <2>5. form.kept \subseteq Listed(form.list) => form.kept \subseteq Listed(l)
      <3>1. DOMAIN form.list \subseteq DOMAIN l
        BY <2>2, FormFacts
      <3>2. QED
        BY <2>2, <3>1, FormFacts DEF Listed, ToSet
    <2>6. ~slipped /\ ~mixed => Orderly(l)
      <3>1. ASSUME ~slipped, ~mixed
            PROVE  /\ Orderly(form.list) /\ p.task \notin Foreign \cup {Hole}
                   /\ \/ p.task = NoId
                      \/ \A i \in DOMAIN form.list : form.list[i] # p.task
        BY <1>1, <1>2, <3>1, FormFacts DEF FormHolds, PanelFits
      <3>2. \A i \in DOMAIN l : i = Len(form.list) + 1 \/ i \in DOMAIN form.list
        BY <2>2, FormFacts
      <3>3. QED
        BY <2>2, <3>1, <3>2, FormFacts DEF Orderly
    <2>7. QED
      BY <1>1, <2>1, <2>2, <2>3, <2>4, <2>5, <2>6, FormFacts, ListMoves DEF FormHolds
  <1>3. CASE p.mode = "edit"
    <2> DEFINE n == IF p.index > Len(form.list) THEN p.index ELSE Len(form.list)
    <2> DEFINE l == ArrayWith(form.list, p.index, p.task)
    <2>1. /\ form' = [form EXCEPT !.list = l, !.panel = NoPanel]
          /\ UNCHANGED <<owner, rows, json, scored, slipped, mixed>>
      BY <1>1, <1>3 DEF SaveTask, OnForm
    <2>2. n \in Nat /\ n <= MaxLength /\ n >= p.index /\ n >= Len(form.list)
      BY <1>1, <1>3, FormFacts, LengthBounded DEF FormHolds
    <2>3. l = [j \in 1..n |-> IF j = p.index THEN p.task
                             ELSE IF j <= Len(form.list) THEN form.list[j] ELSE Hole]
      BY DEF ArrayWith
    <2> HIDE DEF n, l
    <2>4. Hole \in Entry
      BY DEF Entry
    <2>5. l \in [1..n -> Entry]
      BY <1>1, <2>2, <2>3, <2>4, FormFacts
    <2>6. l \in Seq(Entry)
      BY <2>2, <2>5, SeqDef
    <2>7. Len(l) = n /\ DOMAIN l = 1..n
      BY <2>2, <2>5, <2>6, LenProperties
    <2>8. InPlace(form) => l = form.list
      <3> SUFFICES ASSUME InPlace(form) PROVE l = form.list
        OBVIOUS
      <3>1. p.index \in DOMAIN form.list /\ form.list[p.index] = p.task
        BY <1>1, <1>3 DEF InPlace
      <3>2. n = Len(form.list)
        BY <3>1, FormFacts DEF n
      <3>3. \A j \in 1..n : l[j] = form.list[j]
        BY <2>3, <3>1, <3>2
      <3>4. QED
        BY <2>6, <2>7, <3>2, <3>3, FormFacts, SeqEqual
    <2>9. form' = [form EXCEPT !.list = l, !.kept = form.kept, !.panel = NoPanel]
      BY <2>1, FormFacts DEF FormState
    <2>10. ~slipped => form.kept \subseteq Listed(l)
      BY <2>8, FormFacts DEF FormHolds
    <2>11. ~slipped /\ ~mixed => Orderly(l)
      <3> SUFFICES ASSUME ~slipped, ~mixed PROVE Orderly(l)
        OBVIOUS
      <3>1. Orderly(form.list) /\ p.task \notin Foreign \cup {Hole}
            /\ \/ p.task = NoId
               \/ \A i \in DOMAIN form.list : i # p.index => form.list[i] # p.task
        BY <1>1, <1>3, FormFacts DEF FormHolds, PanelFits
      <3>2. CASE owner = "preset"
        BY <2>8, <3>1, <3>2, FormFacts DEF FormHolds
      <3>3. CASE owner # "preset"
        <4>0. Len(form.list) \in Nat /\ DOMAIN form.list = 1..Len(form.list)
          BY FormFacts
        <4>1. ASSUME NEW j \in 1..n
              PROVE  \/ j = p.index /\ l[j] = p.task
                     \/ j # p.index /\ j \in DOMAIN form.list /\ l[j] = form.list[j]
                     \/ j # p.index /\ l[j] = Hole
          <5>1. l[j] = IF j = p.index THEN p.task
                       ELSE IF j <= Len(form.list) THEN form.list[j] ELSE Hole
            BY <2>3
          <5>2. j <= Len(form.list) => j \in DOMAIN form.list
            BY <2>2, <4>0
          <5>3. QED
            BY <5>1, <5>2
        <4>2. Hole \notin Foreign
          BY TasksAssumption DEF Hole
        <4>3. QED
          BY <2>7, <3>1, <3>3, <4>1, <4>2 DEF Orderly
      <3>4. QED
        BY <3>2, <3>3
    <2>12. QED
      BY <1>1, <2>1, <2>2, <2>6, <2>7, <2>9, <2>10, <2>11, FormFacts, ListMoves
  <1>4. QED
    BY <1>1, <1>2, <1>3

\* What deleting an entry leaves.
LEMMA WithoutFacts ==
    ASSUME TasksInv, NEW i \in DOMAIN form.list
    PROVE  LET l == RemoveAt(form.list, i) IN
           /\ l \in Seq(Entry) /\ Len(l) <= MaxLength
           /\ form.kept \in SUBSET Own
           /\ form.kept \subseteq Listed(form.list)
                 => form.kept \ {form.list[i]} \subseteq Listed(l)
           /\ Orderly(form.list) => Orderly(l)
           /\ \A e : (\A j \in DOMAIN form.list : form.list[j] # e) => \A j \in DOMAIN l : l[j] # e
  <1> DEFINE l == RemoveAt(form.list, i)
  <1> DEFINE n == Len(form.list)
  <1>1. n \in Nat /\ i \in 1..n /\ DOMAIN form.list = 1..n /\ n <= MaxLength
    BY FormFacts
  <1>2. /\ l \in Seq(Entry) /\ Len(l) = n - 1
        /\ \A j \in 1..(n - 1) : l[j] = IF j < i THEN form.list[j] ELSE form.list[j + 1]
    BY <1>1, FormFacts, RemoveAtFacts
  <1>3. DOMAIN l = 1..(n - 1)
    BY <1>2, LenProperties
  <1> HIDE DEF l, n
  <1> DEFINE at(j) == IF j < i THEN j ELSE j + 1
  <1>4. \A j \in DOMAIN l : at(j) \in DOMAIN form.list /\ l[j] = form.list[at(j)]
    BY <1>1, <1>2, <1>3
  <1>5. \A j, k \in DOMAIN l : j # k => at(j) # at(k)
    BY <1>1, <1>3
  <1>6. \A k \in DOMAIN form.list : k # i => \E j \in DOMAIN l : at(j) = k
    <2> SUFFICES ASSUME NEW k \in 1..n, k # i PROVE \E j \in 1..(n - 1) : at(j) = k
      BY <1>1, <1>3
    <2>1. CASE k < i
      BY <1>1, <2>1
    <2>2. CASE k > i
      <3>1. k - 1 \in 1..(n - 1) /\ at(k - 1) = k
        BY <1>1, <2>2
      <3>2. QED
        BY <3>1
    <2>3. QED
      BY <1>1, <2>1, <2>2
  <1> HIDE DEF at
  <1>7. form.kept \subseteq Listed(form.list) => form.kept \ {form.list[i]} \subseteq Listed(l)
    BY <1>4, <1>6 DEF Listed, ToSet
  <1>8. Orderly(form.list) => Orderly(l)
    BY <1>4, <1>5 DEF Orderly
  <1>9. form.kept \in SUBSET Own
    BY FormFacts DEF FormState
  <1>10. Len(l) <= MaxLength
    BY <1>1, <1>2, LengthBounded
  <1>11. QED
    BY <1>2, <1>4, <1>7, <1>8, <1>9, <1>10 DEF l

LEMMA DeleteStep ==
    ASSUME TasksInv, NEW i \in 1..MaxLength, DeleteTask(i) \/ RemoveTask(i)
    PROVE  TasksInv'
  <1> DEFINE l == RemoveAt(form.list, i)
  <1> DEFINE k == form.kept \ {form.list[i]}
  <1>1. i \in DOMAIN form.list /\ form.open /\ UNCHANGED <<owner, rows, json, scored, mixed>>
    BY DEF DeleteTask, RemoveTask, StationPage, PresetPage, AtFoot
  <1>2. PICK panel :
           /\ form' = [form EXCEPT !.list = l, !.kept = k, !.panel = panel]
           /\ panel = form.panel \/ panel = NoPanel
           /\ slipped' = (slipped \/ (panel # NoPanel /\ Editing))
    <2>1. CASE DeleteTask(i)
      <3> DEFINE own == form.panel # NoPanel /\ form.panel.index = i
      <3>1. /\ form' = [Without(i) EXCEPT !.panel = IF own THEN NoPanel ELSE Without(i).panel]
            /\ slipped' = (slipped \/ (Editing /\ ~own))
        BY <2>1 DEF DeleteTask
      <3>2. Without(i) = [form EXCEPT !.list = l, !.kept = k]
        BY FormFacts DEF Without, FormState
      <3>3. Without(i).panel = form.panel
        BY <3>2, FormFacts DEF FormState
      <3>4. form' = [form EXCEPT !.list = l, !.kept = k, !.panel = IF own THEN NoPanel ELSE form.panel]
        BY <3>1, <3>2, <3>3, FormFacts DEF FormState
      <3>5. QED
        BY <3>1, <3>4 DEF Editing
    <2>2. CASE RemoveTask(i)
      <3>1. form' = Without(i) /\ slipped' = (slipped \/ Editing)
        BY <2>2 DEF RemoveTask
      <3>2. form' = [form EXCEPT !.list = l, !.kept = k, !.panel = form.panel]
        BY <3>1, FormFacts DEF Without, FormState
      <3>3. QED
        BY <3>1, <3>2 DEF Editing
    <2>3. QED
      BY <2>1, <2>2
  <1>3. /\ l \in Seq(Entry) /\ Len(l) <= MaxLength /\ k \in SUBSET Own
        /\ form.kept \subseteq Listed(form.list) => k \subseteq Listed(l)
        /\ Orderly(form.list) => Orderly(l)
        /\ \A e : (\A j \in DOMAIN form.list : form.list[j] # e) => \A j \in DOMAIN l : l[j] # e
    BY <1>1, WithoutFacts
  <1> HIDE DEF l, k
  <1>4. slipped' \in BOOLEAN /\ mixed' \in BOOLEAN /\ (slipped => slipped')
    BY <1>1, <1>2, FormFacts
  <1>5. ~slipped' => panel = NoPanel \/ panel.mode # "edit"
    BY <1>2 DEF Editing
  <1>6. ~slipped' /\ ~mixed' /\ panel # NoPanel =>
              \A j \in DOMAIN l : panel.task = NoId \/ l[j] # panel.task
    BY <1>1, <1>2, <1>3, <1>4, <1>5, FormFacts DEF FormHolds, PanelFits
  <1>7. ~slipped' => k \subseteq Listed(l)
    BY <1>3, <1>4, FormFacts DEF FormHolds
  <1>8. ~slipped' /\ ~mixed' => Orderly(l)
    BY <1>1, <1>3, <1>4, FormFacts DEF FormHolds
  <1>9. QED
    BY <1>1, <1>2, <1>3, <1>4, <1>5, <1>6, <1>7, <1>8, ListMoves

LEMMA ListSteps ==
    ASSUME TasksInv, ChoosePreset \/ ImportFile
    PROVE  TasksInv'
  <1>1. NoId \in Entry /\ NoId \notin Foreign /\ NoId # Hole /\ Foreign \subseteq Entry
    BY TasksAssumption DEF Entry, Ids, NoId, Hole
  <1>2. CASE ChoosePreset
    <2>1. PICK n \in 0..1 :
             OnForm([form EXCEPT !.list = [i \in 1..n |-> NoId], !.kept = {}])
      BY <1>2 DEF ChoosePreset
    <2> DEFINE l == [i \in 1..n |-> NoId]
    <2>2. l \in Seq(Entry) /\ Len(l) <= MaxLength /\ \A i \in DOMAIN l : l[i] = NoId
      <3>1. n \in Nat /\ n <= MaxLength
        BY LengthBounded
      <3>2. l \in [1..n -> Entry]
        BY <1>1
      <3>3. l \in Seq(Entry)
        BY <3>1, <3>2, SeqDef
      <3>4. QED
        BY <3>1, <3>2, <3>3, LenProperties
    <2> HIDE DEF l
    <2>3. form' = [form EXCEPT !.list = l, !.kept = {}, !.panel = form.panel]
      BY <2>1, FormFacts DEF OnForm, FormState, l
    <2>4. form.open /\ owner = "station" /\ UNCHANGED <<owner, rows, json, scored, slipped, mixed>>
      BY <1>2, <2>1 DEF ChoosePreset, StationPage, OnForm
    <2>5. Orderly(l) /\ (form.panel # NoPanel =>
              \A i \in DOMAIN l : form.panel.task = NoId \/ l[i] # form.panel.task)
      BY <1>1, <2>2 DEF Orderly
    <2>6. {} \in SUBSET Own /\ slipped' \in BOOLEAN /\ mixed' \in BOOLEAN /\ {} \subseteq Listed(l)
      BY <2>4, FormFacts
    <2> DEFINE panel == form.panel
    <2> HIDE DEF panel
    <2>7. form' = [form EXCEPT !.list = l, !.kept = {}, !.panel = panel] /\ panel = form.panel
      BY <2>3 DEF panel
    <2>8. QED
      BY <2>2, <2>4, <2>5, <2>6, <2>7, ListMoves
  <1>3. CASE ImportFile
    <2>1. PICK t \in Foreign \cup {NoId} : form' = [form EXCEPT !.list = <<t>>, !.kept = {}]
      BY <1>3 DEF ImportFile
    <2>2. <<t>> \in Seq(Entry) /\ Len(<<t>>) <= MaxLength
      BY <1>1, LengthBounded
    <2>3. form' = [form EXCEPT !.list = <<t>>, !.kept = {}, !.panel = form.panel]
      BY <2>1, FormFacts DEF FormState
    <2>4. form.open /\ mixed' = TRUE /\ UNCHANGED <<owner, rows, json, scored, slipped>>
      BY <1>3 DEF ImportFile, PresetPage, AtFoot
    <2> DEFINE panel == form.panel
    <2> DEFINE l == <<t>>
    <2> HIDE DEF panel, l
    <2>5. {} \in SUBSET Own /\ slipped' \in BOOLEAN /\ mixed' \in BOOLEAN /\ {} \subseteq Listed(l)
      BY <2>4, FormFacts
    <2>6. form' = [form EXCEPT !.list = l, !.kept = {}, !.panel = panel] /\ panel = form.panel
          /\ l \in Seq(Entry) /\ Len(l) <= MaxLength
      BY <2>2, <2>3 DEF panel, l
    <2>7. QED
      BY <2>4, <2>5, <2>6, FormFacts, ListMoves
  <1>4. QED
    BY <1>2, <1>3

\* The server gives each nameless task an id of its own, so what it makes of an
\* orderly list can be stored.
LEMMA CompletedFacts ==
    ASSUME TasksInv, NEW l \in CompletedLists
    PROVE  l \in BoundedSeq(Entry, MaxLength) /\ (Orderly(form.list) => Storable(l))
  <1>1. PICK id \in Injection(Nameless, Unused) :
           l = [i \in DOMAIN form.list |-> IF i \in Nameless THEN id[i] ELSE form.list[i]]
    BY DEF CompletedLists
  <1>2. id \in [Nameless -> Unused] /\ \A i, j \in Nameless : id[i] = id[j] => i = j
    BY <1>1 DEF Injection, IsInjective
  <1>3. DOMAIN l = DOMAIN form.list
    BY <1>1
  <1>4. \A i \in DOMAIN l :
           \/ i \in Nameless /\ l[i] = id[i] /\ l[i] \in New /\ l[i] \notin Listed(form.list)
           \/ i \notin Nameless /\ l[i] = form.list[i] /\ form.list[i] # NoId
    BY <1>1, <1>2 DEF Unused, Nameless
  <1>5. New \subseteq Own /\ New \subseteq Ids /\ New \subseteq Entry /\ Hole \notin New
    BY TasksAssumption DEF Own, Ids, Entry, Hole
  <1>6. l \in BoundedSeq(Entry, MaxLength)
    <2>1. Len(form.list) \in Nat /\ DOMAIN l = 1..Len(form.list) /\ Len(form.list) <= MaxLength
      BY <1>3, FormFacts
    <2>2. \A i \in DOMAIN l : l[i] \in Entry
      BY <1>3, <1>4, <1>5, FormFacts
    <2>3. l \in [1..Len(form.list) -> Entry]
      BY <1>1, <2>1, <2>2
    <2>4. l \in Seq(Entry)
      BY <2>1, <2>3, SeqDef
    <2>5. QED
      BY <2>1, <2>3, <2>4, ListBounded, LenProperties
  <1>7. \A i \in DOMAIN form.list : form.list[i] \in Ids => form.list[i] \in Listed(form.list)
    BY DEF Listed, ToSet
  <1>8. ASSUME Orderly(form.list) PROVE Storable(l)
    <2>1. \A i \in DOMAIN l : l[i] = Hole \/ l[i] \in Own
      <3>1. \A i \in DOMAIN form.list : form.list[i] \in Entry /\ form.list[i] \notin Foreign
        BY <1>8, FormFacts DEF Orderly
      <3>2. QED
        BY <1>3, <1>4, <1>5, <3>1 DEF Entry, Ids
    <2>2. \A i, j \in DOMAIN l : i # j /\ l[i] = l[j] => l[i] = Hole
      BY <1>2, <1>3, <1>4, <1>5, <1>7, <1>8 DEF Orderly
    <2>3. owner = "preset" => \A i \in DOMAIN l : l[i] # Hole
      BY <1>3, <1>4, <1>5, <1>8 DEF Orderly
    <2>4. QED
      BY <2>1, <2>2, <2>3 DEF Storable
  <1>9. QED
    BY <1>6, <1>8

LEMMA PressStep == ASSUME TasksInv, PressSave PROVE TasksInv'
  <1>1. PICK l \in CompletedLists :
           /\ form' = [form EXCEPT !.saving = TRUE, !.seen = Existing, !.sending = l]
           /\ json' = Column(l)
    BY DEF PressSave
  <1> DEFINE f == [form EXCEPT !.saving = TRUE, !.seen = Existing, !.sending = l]
  <1>2. l \in BoundedSeq(Entry, MaxLength) /\ l \in Seq(Entry)
        /\ (Orderly(form.list) => Storable(l))
    BY CompletedFacts, ListBounded
  <1>3. Existing \subseteq Own
    BY DEF Existing
  <1>4. /\ f \in FormState /\ f.list = form.list /\ f.kept = form.kept /\ f.panel = form.panel
        /\ f.open = form.open /\ f.seen = Existing /\ f.sending = l
    BY <1>2, <1>3, FormFacts DEF FormState
  <1>5. form' = f /\ form.open /\ UNCHANGED <<owner, rows, scored, slipped, mixed>>
    BY <1>1 DEF PressSave, AtFoot
  <1> HIDE DEF f
  <1>6. TasksTypeOK'
    BY <1>1, <1>2, <1>4, <1>5 DEF Column, TasksInv, TasksTypeOK
  <1>7. /\ json' = l \/ (owner = "preset" /\ l = <<>>)
        /\ Existing' = Existing
    BY <1>1, <1>5 DEF Column, Existing, Exists
  <1>8. FormHolds(form, slipped, mixed)'
    <2>1. /\ form'.list = form.list /\ form'.kept = form.kept /\ form'.panel = form.panel
          /\ form'.open /\ form'.seen = Existing' /\ form'.sending = l /\ form' \in FormState
          /\ owner' = owner /\ slipped' = slipped /\ mixed' = mixed
      BY <1>4, <1>5, <1>7
    <2>2. /\ Orderly(form.list) => Orderly(form.list)'
          /\ PanelFits(form) => PanelFits(form)'
          /\ InPlace(form) => InPlace(form)'
          /\ form.kept \subseteq Listed(form.list) => (form.kept \subseteq Listed(form.list))'
      BY <2>1 DEF Orderly, PanelFits, InPlace, Listed
    <2>3. ASSUME ~slipped, ~mixed
          PROVE  /\ Orderly(form.list)' /\ PanelFits(form)'
                 /\ Storable(form.sending)' /\ JsonOf(form.sending)'
      <3>1. Orderly(form.list) /\ PanelFits(form) /\ Storable(l)
        BY <1>2, <2>3, FormFacts DEF FormHolds
      <3>2. Storable(form.sending)'
        BY <2>1, <3>1 DEF Storable
      <3>3. JsonOf(form.sending)'
        BY <1>7, <2>1 DEF JsonOf
      <3>4. QED
        BY <2>2, <3>1, <3>2, <3>3
    <2>4. ASSUME ~slipped
          PROVE  /\ (form.kept \subseteq Listed(form.list))'
                 /\ (form.kept # {} \/ (owner = "preset" /\ ~mixed))' => InPlace(form)'
      BY <2>1, <2>2, <2>4, FormFacts DEF FormHolds
    <2>5. (form.panel # NoPanel /\ form.panel.mode = "edit" => form.panel.index <= MaxLength)'
      BY <2>1, FormFacts DEF FormHolds
    <2>6. QED
      BY <2>1, <2>3, <2>4, <2>5 DEF FormHolds
  <1>9. QED
    BY <1>5, <1>6, <1>8 DEF TasksInv

\* Whatever is written, every row keeps one of its three states.
LEMMA WritesTyped ==
    ASSUME TasksInv, NEW l, NEW k
    PROVE  WrittenSoFar(l, k) \in [Own -> RowState] /\ Completed(l) \in [Own -> RowState]
  <1>1. rows \in [Own -> RowState]
    BY DEF TasksInv, TasksTypeOK
  <1>2. {"absent", "active", "inactive"} = RowState
    BY DEF RowState
  <1>3. \A t : SentActive(t) \in RowState
    BY <1>2 DEF SentActive
  <1>4. \A n : StationWrites(l, n) \in [Own -> RowState]
    BY <1>1, <1>2, <1>3 DEF StationWrites
  <1>5. \A n : PresetWrites(l, n) \in [Own -> RowState]
    BY <1>2, <1>3 DEF PresetWrites
  <1>6. ASSUME NEW r \in [Own -> RowState] PROVE Removed(r, l) \in [Own -> RowState]
    BY <1>2 DEF Removed
  <1>7. QED
    BY <1>4, <1>5, <1>6 DEF WrittenSoFar, Completed

LEMMA StoppedHolds == ASSUME TasksInv PROVE FormHolds(Stopped, slipped, mixed) /\ ~Stopped.saving
  <1>1. <<>> \in BoundedSeq(Entry, MaxLength)
    BY ClosedHolds DEF FormHolds, FormState, Closed
  <1>2. /\ Stopped \in FormState /\ Stopped.list = form.list /\ Stopped.kept = form.kept
        /\ Stopped.panel = form.panel /\ ~Stopped.saving /\ Stopped.open = form.open
    BY <1>1, FormFacts DEF FormState, Stopped
  <1> HIDE DEF Stopped
  <1>3. QED
    BY <1>2, FormFacts DEF FormHolds, InPlace, PanelFits

LEMMA SaveSteps ==
    ASSUME TasksInv, SaveDone \/ SaveRefused \/ SaveFails \/ ColleagueSaves \/ TaskScored
           \/ CancelForm
    PROVE  TasksInv'
  <1>1. rows \in [Own -> RowState] /\ scored \subseteq Own /\ json \in Seq(Entry)
    BY DEF TasksInv, TasksTypeOK
  <1>2. FormHolds(Closed, slipped, mixed) /\ ~Closed.saving
    BY ClosedHolds, ExcuseMore, FormFacts DEF Closed
  <1> HIDE DEF Closed, Stopped
  <1>3. CASE SaveDone
    <2>1. rows' = Completed(form.sending) /\ form' = Closed
      BY <1>3 DEF SaveDone
    <2>2. UNCHANGED <<owner, json, scored, slipped, mixed>>
      BY <1>3 DEF SaveDone
    <2>3. QED
      BY <1>1, <1>2, <2>1, <2>2, WritesTyped, FormFacts, FormMoves
  <1>4. CASE SaveRefused
    <2>1. form' = Stopped /\ \E k \in DOMAIN form.sending : rows' = WrittenSoFar(form.sending, k - 1)
      BY <1>4 DEF SaveRefused
    <2>2. UNCHANGED <<owner, json, scored, slipped, mixed>>
      BY <1>4 DEF SaveRefused
    <2>3. QED
      BY <1>1, <1>2, <2>1, <2>2, StoppedHolds, WritesTyped, FormFacts, FormMoves
  <1>5. CASE SaveFails
    <2>1. \/ \E k \in 0..Len(form.sending) : rows' = WrittenSoFar(form.sending, k)
          \/ rows' = rows
      BY <1>5 DEF SaveFails
    <2>2. form' = Stopped /\ mixed' = TRUE /\ UNCHANGED <<owner, json, scored, slipped>>
      BY <1>5 DEF SaveFails
    <2>3. FormHolds(Stopped, slipped', mixed')
      BY <2>2, StoppedHolds, FormFacts, ExcuseMore
    <2>4. rows' \in [Own -> RowState]
      BY <1>1, <2>1, WritesTyped
    <2>5. QED
      BY <1>1, <2>2, <2>3, <2>4, StoppedHolds, FormFacts, FormMoves
  <1>6. CASE ColleagueSaves
    <2>1. /\ mixed' = (mixed \/ form.open)
          /\ UNCHANGED <<owner, scored, form, slipped>>
      BY <1>6 DEF ColleagueSaves
    <2>2. PICK out \in SUBSET ToSet(Read), in \in SUBSET Unused :
             /\ rows' = [t \in Own |->
                   IF t \in in \/ (t \in ToSet(Read) \ out /\ ~Exists(t)) THEN "active"
                   ELSE IF t \in out
                        THEN IF owner = "station" /\ t \in scored THEN "inactive" ELSE "absent"
                   ELSE rows[t]]
             /\ json' = Column(SetToSeq((ToSet(Read) \ out) \cup in))
      BY <1>6 DEF ColleagueSaves
    <2>3. rows' \in [Own -> RowState]
      BY <1>1, <2>2 DEF RowState
    <2>4. json' \in Seq(Entry)
      <3>1. (ToSet(Read) \ out) \cup in \in SUBSET Own
        BY <1>6 DEF ColleagueSaves, Sound, Unused, Own
      <3>2. QED
        BY <1>1, <2>2, <3>1, ListOfOwn DEF Column
    <2>5. FormHolds(form, slipped', mixed') /\ (mixed' \/ ~form.saving)
      BY <2>1, FormFacts, ExcuseMore DEF FormHolds
    <2>6. QED
      BY <1>1, <2>1, <2>3, <2>4, <2>5, FormFacts, FormMoves
  <1>7. CASE TaskScored
    <2>1. scored' \subseteq Own /\ UNCHANGED <<owner, rows, json, form, slipped, mixed>>
      BY <1>1, <1>7 DEF TaskScored, Existing
    <2>2. QED
      BY <1>1, <2>1, FormFacts, FormMoves
  <1>8. CASE CancelForm
    <2>1. form' = Closed /\ UNCHANGED <<owner, rows, json, scored, slipped, mixed>>
      BY <1>8 DEF CancelForm, OnForm
    <2>2. QED
      BY <1>2, <2>1, FormFacts, FormStays
  <1>9. QED
    BY <1>3, <1>4, <1>5, <1>6, <1>7, <1>8

LEMMA TasksStep == TasksInv /\ [TasksNext]_taskVars => TasksInv'
  <1> SUFFICES ASSUME TasksInv, [TasksNext]_taskVars PROVE TasksInv'
    OBVIOUS
  <1>1. CASE UNCHANGED taskVars
    BY <1>1, FormFacts, FormStays DEF taskVars
  <1>2. CASE TasksNext
    BY <1>2, LoadStep, PanelSteps, SaveTaskStep, DeleteStep, ListSteps, PressStep, SaveSteps
       DEF TasksNext
  <1>3. QED
    BY <1>1, <1>2

\* The form, the rows and the scores always have their types.
THEOREM TasksTypeCorrect == TasksSpec => []TasksTypeOK
  <1>1. TasksInv => TasksTypeOK
    BY DEF TasksInv
  <1>2. QED
    BY <1>1, TasksInitInv, TasksStep, PTL DEF TasksSpec

\* A task that the page loaded is in its list until the organiser deletes it or
\* replaces the list, unless a task was deleted under an open task editor
\* (deleteTask and removeTask, StationEditor.jsx and ConfigurationEditor.jsx).
THEOREM TaskLostBySlipHolds == TasksSpec => []TaskLostBySlip
  <1>1. TasksInv => TaskLostBySlip
    BY DEF TasksInv, FormHolds, TaskLostBySlip
  <1>2. QED
    BY <1>1, TasksInitInv, TasksStep, PTL DEF TasksSpec

\* What was written when an answered save had read every row.
LEMMA RowsOfSent ==
    ASSUME TasksInv, form.seen = Existing, Storable(form.sending), SaveDone
    PROVE  /\ {t \in Own : rows'[t] = "active"} = Listed(form.sending) \ form.off
           /\ \A t \in Listed(form.sending) : t \in Existing'
           /\ owner = "preset" => Existing' \subseteq Listed(form.sending)
  <1> DEFINE l == form.sending
  <1>1. rows' = Completed(l) /\ rows \in [Own -> RowState]
    BY DEF SaveDone, TasksInv, TasksTypeOK
  <1>2. l \in Seq(Entry)
    BY FormFacts, ListBounded DEF FormState
  <1>3. DOMAIN l = 1..Len(l)
    BY <1>2, LenProperties
  <1> HIDE DEF l
  <1>4. \A t \in Own : t \in Listed(l) <=> \E i \in 1..Len(l) : l[i] = t
    BY <1>3 DEF Listed, ToSet, Ids
  <1>5. Listed(l) \subseteq Own
    <2>1. Hole \notin Ids
      BY TasksAssumption DEF Ids, Own, Hole
    <2>2. QED
      BY <2>1 DEF Storable, Listed, ToSet, l
  <1>6. \A t \in Own : /\ SentActive(t) = "active" <=> t \notin form.off
                       /\ SentActive(t) # "absent"
    BY DEF SentActive
  <1>7. ASSUME NEW t \in Own
        PROVE  /\ rows'[t] = "active" <=> t \in Listed(l) \ form.off
               /\ t \in Listed(l) => rows'[t] # "absent"
               /\ owner = "preset" /\ t \notin Listed(l) => rows'[t] = "absent"
    <2>1. CASE owner = "station"
      <3>1. StationWrites(l, Len(l))[t] =
               IF \A i \in 1..Len(l) : l[i] # t THEN rows[t]
               ELSE IF t \in form.seen /\ ~Exists(t) THEN "absent"
               ELSE SentActive(t)
        BY DEF StationWrites
      <3>2. rows'[t] = IF t \in form.seen \ ToSet(l) /\ StationWrites(l, Len(l))[t] # "absent"
                       THEN IF t \in scored THEN "inactive" ELSE "absent"
                       ELSE StationWrites(l, Len(l))[t]
        BY <1>1, <2>1 DEF Completed, Removed
      <3>3. t \in form.seen <=> Exists(t)
        BY DEF Existing
      <3>4. t \in ToSet(l) <=> t \in Listed(l)
        BY DEF Listed, Ids
      <3>5. CASE t \in Listed(l)
        BY <1>4, <1>6, <2>1, <3>1, <3>2, <3>3, <3>4, <3>5
      <3>6. CASE t \notin Listed(l)
        <4>1. StationWrites(l, Len(l))[t] = rows[t]
          BY <1>4, <3>1, <3>6
        <4>2. QED
          BY <2>1, <3>2, <3>3, <3>4, <3>6, <4>1 DEF Exists
      <3>7. QED
        BY <3>5, <3>6
    <2>2. CASE owner # "station"
      <3>1. rows'[t] = IF \E i \in 1..Len(l) : l[i] = t THEN SentActive(t) ELSE "absent"
        BY <1>1, <2>2 DEF Completed, PresetWrites
      <3>2. QED
        BY <1>4, <1>6, <3>1
    <2>3. QED
      BY <2>1, <2>2
  <1>8. {t \in Own : rows'[t] = "active"} = Listed(l) \ form.off
    BY <1>5, <1>7
  <1>9. /\ \A t \in Listed(l) : t \in Existing'
        /\ owner = "preset" => Existing' \subseteq Listed(l)
    BY <1>5, <1>7 DEF Existing, Exists
  <1>10. QED
    BY <1>8, <1>9 DEF l

\* A list that was neither mixed up nor slipped in is never refused, and once
\* the save is answered the active tasks that are read are those sent, less those
\* the page loaded as switched off; an emptied preset is read with the tasks its
\* JSON still holds (_sync_tasks_for_station, _sync_tasks_for_config,
\* update_configuration and _load_tasks_for_config).
THEOREM SavedAsSentHolds == TasksSpec => SavedAsSent
  <1> DEFINE Saved ==
        ~mixed /\ ~slipped =>
          /\ ~SaveRefused
          /\ SaveDone =>
                IF owner = "preset" /\ form.sending = <<>> THEN Read' = json
                ELSE ReadActive' = Listed(form.sending) \ form.off
  <1>1. ASSUME TasksInv, ~mixed, ~slipped, form.saving
        PROVE  form.seen = Existing /\ Storable(form.sending) /\ JsonOf(form.sending)
    BY <1>1, FormFacts DEF FormHolds
  <1>2. ASSUME TasksInv, ~mixed, ~slipped, SaveRefused PROVE FALSE
    <2> DEFINE l == form.sending
    <2>1. PICK k \in DOMAIN l : Refuses(l, k) \/ Breaks(l, k)
      BY <1>2 DEF SaveRefused, Accepts
    <2>2. form.seen = Existing /\ Storable(l)
      BY <1>1, <1>2 DEF SaveRefused
    <2>3. l \in Seq(Entry)
      BY <1>2, FormFacts, ListBounded DEF FormState
    <2>4. DOMAIN l = 1..Len(l) /\ Len(l) \in Nat
      BY <2>3, LenProperties
    <2> HIDE DEF l
    <2>5. /\ l[k] = Hole \/ l[k] \in Own
          /\ \A i \in DOMAIN l : i # k /\ l[i] = l[k] => l[i] = Hole
          /\ owner = "preset" => l[k] # Hole
      BY <2>1, <2>2 DEF Storable
    <2>6. Refuses(l, k) /\ l[k] # Hole
      BY <2>1, <2>5 DEF Breaks, Refuses
    <2>7. \A i \in 1..(k - 1) : i \in DOMAIN l /\ i # k
      BY <2>1, <2>4
    <2>8. l[k] \in Own /\ l[k] \notin Foreign
      BY <2>5, <2>6, TasksAssumption DEF Own
    <2>9. Exists(l[k]) => l[k] \in form.seen
      BY <2>2, <2>8 DEF Existing
    <2>10. QED
      BY <2>5, <2>6, <2>7, <2>8, <2>9 DEF Refuses
  <1>3. ASSUME TasksInv, ~mixed, ~slipped, SaveDone
        PROVE  IF owner = "preset" /\ form.sending = <<>> THEN Read' = json
               ELSE ReadActive' = Listed(form.sending) \ form.off
    <2>1. form.saving /\ json' = json /\ owner' = owner
      BY <1>3 DEF SaveDone
    <2>2. form.seen = Existing /\ Storable(form.sending) /\ JsonOf(form.sending)
      BY <1>1, <1>3, <2>1
    <2>3. /\ {t \in Own : rows'[t] = "active"} = Listed(form.sending) \ form.off
          /\ \A t \in Listed(form.sending) : t \in Existing'
          /\ owner = "preset" => Existing' \subseteq Listed(form.sending)
      BY <1>3, <2>2, RowsOfSent
    <2>4. Existing' \in SUBSET Own /\ \A t \in Own : rows'[t] = "active" => t \in Existing'
      BY DEF Existing, Exists
    <2>5. Read' = IF Existing' # {} THEN SetToSeq(Existing') ELSE json
      BY <2>1 DEF Read
    <2>6. CASE owner = "preset" /\ form.sending = <<>>
      <3>1. Listed(form.sending) = {}
        BY <2>6, ClosedHolds
      <3>2. QED
        BY <2>3, <2>5, <2>6, <3>1
    <2>7. CASE ~(owner = "preset" /\ form.sending = <<>>) /\ Existing' # {}
      <3>1. ToSet(Read') = Existing'
        BY <2>4, <2>5, <2>7, ListOfOwn
      <3>2. ReadActive' = {t \in Existing' : rows'[t] = "active"}
        BY <2>4, <3>1 DEF ReadActive, Listed, Ids
      <3>3. QED
        BY <2>3, <2>4, <2>7, <3>2
    <2>8. CASE ~(owner = "preset" /\ form.sending = <<>>) /\ Existing' = {}
      <3>1. Read' = form.sending
        BY <2>2, <2>5, <2>8 DEF JsonOf
      <3>2. Listed(form.sending) = {}
        BY <2>3, <2>8
      <3>3. ReadActive' = {}
        BY <3>1, <3>2 DEF ReadActive, Listed, Ids, Own
      <3>4. QED
        BY <2>8, <3>2, <3>3
    <2>9. QED
      BY <2>6, <2>7, <2>8
  <1>4. TasksInv => Saved
    BY <1>2, <1>3
  <1>5. TasksInv /\ [TasksNext]_taskVars => [Saved]_taskVars
    BY <1>4
  <1> HIDE DEF Saved
  <1>6. TasksSpec => [][Saved]_taskVars
    BY <1>4, TasksInitInv, TasksStep, PTL DEF TasksSpec
  <1>7. QED
    BY <1>6 DEF SavedAsSent, Saved

-----------------------------------------------------------------------------
(* The session of a tab.                                                   *)

\* Each run in flight knows what it needs to go on.
RunFits(r) ==
    /\ r.pick => r.at = "event"
    /\ r.at = "me" => r.who \in User

\* With e chosen, the run can show no other event.
LeadsTo(r, e) ==
    /\ r.at = "event" => r.event = e
    /\ r.at = "event" /\ r.next = "fallback" => e \in r.of
    /\ r.at = "list" /\ r.next = "restore" => r.event \in {None, e}

SessionTyped ==
    /\ SessionTypeOK
    /\ \A r \in InFlight : RunFits(r)

\* The saved event is that of the user whose profile is cached.
SavedByUser == cached # None => last.user = cached.id

\* A choice on its way, and one that was made, is of an event the user of the
\* cached profile may see.
PickAllowed ==
    ~crossed =>
        /\ cached # None => \A r \in InFlight : r.pick => HasEventAccess(cached, r.event)
        /\ cached # None /\ picked # None => HasEventAccess(cached, picked)

\* The chosen event is the saved one and nothing in flight leads elsewhere.
PickHolds ==
    picked # None /\ ~crossed =>
        /\ last.event = picked /\ tab.shown \in {picked, None}
        /\ \A r \in InFlight : LeadsTo(r, picked)

SessionInv == SessionTyped /\ SavedByUser /\ PickAllowed /\ PickHolds

\* A run that starts, or goes on, and is not the selector's choice.
Harmless(s) == s \in Run /\ RunFits(s) /\ ~s.pick

-----------------------------------------------------------------------------
(* The runs in flight, a bag.                                              *)

LEMMA RunsAdd ==
    ASSUME NEW A, NEW B, IsABag(A), IsABag(B)
    PROVE  IsABag(A (+) B) /\ BagToSet(A (+) B) = BagToSet(A) \cup BagToSet(B)
  BY DEF IsABag, (+), BagToSet

LEMMA RunsEnd ==
    ASSUME NEW A, NEW B, IsABag(A), IsABag(B)
    PROVE  IsABag(A (-) B) /\ BagToSet(A (-) B) \subseteq BagToSet(A)
  BY DEF IsABag, (-), BagToSet

LEMMA NoRuns == IsABag(EmptyBag) /\ BagToSet(EmptyBag) = {}
  BY DEF IsABag, EmptyBag, SetToBag, BagToSet

LEMMA OneFacts ==
    ASSUME NEW r
    PROVE  IsABag(One(r)) /\ BagToSet(One(r)) = {r} \ {NoRun}
  <1>1. CASE r = NoRun
    BY <1>1, NoRuns DEF One
  <1>2. CASE r # NoRun
    BY <1>2 DEF One, IsABag, SetToBag, BagToSet
  <1>3. QED
    BY <1>1, <1>2

\* The last run leaves none behind.
LEMMA LastEnds == ASSUME NEW r PROVE BagToSet(One(r) (-) One(r)) = {}
  <1>1. CASE r = NoRun
    BY <1>1, OneFacts, RunsEnd
  <1>2. CASE r # NoRun
    <2>1. One(r) = SetToBag({r})
      BY <1>2 DEF One
    <2>2. BagToSet(SetToBag({r}) (-) SetToBag({r})) = {}
      BY DEF (-), SetToBag, BagToSet
    <2>3. QED
      BY <2>1, <2>2
  <1>3. QED
    BY <1>1, <1>2

\* What is in flight after a run went on.
LEMMA GoesFacts ==
    ASSUME NEW r, NEW s, IsABag(runs), Goes(r, s)
    PROVE  /\ IsABag(runs') /\ InFlight' \subseteq InFlight \cup ({s} \ {NoRun})
           /\ runs = One(r) /\ s = NoRun => InFlight' = {}
  <1> DEFINE D == runs (-) One(r)
  <1>1. IsABag(D) /\ BagToSet(D) \subseteq InFlight
    BY OneFacts, RunsEnd DEF InFlight
  <1>2. runs = One(r) => BagToSet(D) = {}
    BY LastEnds
  <1> HIDE DEF D
  <1>3. /\ IsABag(D (+) One(s))
        /\ BagToSet(D (+) One(s)) = BagToSet(D) \cup ({s} \ {NoRun})
    BY <1>1, OneFacts, RunsAdd
  <1>4. runs' = D (+) One(s)
    BY DEF Goes, D
  <1>5. InFlight' = BagToSet(D) \cup ({s} \ {NoRun})
    BY <1>3, <1>4 DEF InFlight
  <1>6. QED
    BY <1>1, <1>2, <1>3, <1>4, <1>5

-----------------------------------------------------------------------------
(* The runs a step starts.                                                 *)

LEMMA NoRunFacts == Harmless(NoRun) /\ \A e : LeadsTo(NoRun, e)
  BY DEF Harmless, NoRun, Run, RunFits, LeadsTo

LEMMA MeFacts ==
    ASSUME NEW u \in User, NEW next \in {"nothing", "init", "selector"}
    PROVE  Harmless(Me(u, next)) /\ \A e : LeadsTo(Me(u, next), e)
  <1> DEFINE s == Me(u, next)
  <1>1. /\ s \in Run /\ s.at = "me" /\ s.who = u /\ s.next = next /\ ~s.pick
    BY DEF Me, NoRun, Run
  <1> HIDE DEF s
  <1>2. Harmless(s) /\ \A e : LeadsTo(s, e)
    BY <1>1 DEF Harmless, RunFits, LeadsTo
  <1>3. QED
    BY <1>2 DEF s

LEMMA ListForFacts ==
    ASSUME NEW next \in {"restore", "selector"}, NEW f \in Event \cup {None}
    PROVE  /\ Harmless(ListFor(next, f))
           /\ \A e : (next = "restore" => f \in {None, e}) => LeadsTo(ListFor(next, f), e)
  <1> DEFINE s == ListFor(next, f)
  <1>1. /\ s \in Run /\ s.at = "list" /\ s.event = f /\ s.next = next /\ ~s.pick
    BY DEF ListFor, NoRun, Run
  <1> HIDE DEF s
  <1>2. Harmless(s) /\ \A e : (next = "restore" => f \in {None, e}) => LeadsTo(s, e)
    BY <1>1 DEF Harmless, RunFits, LeadsTo
  <1>3. QED
    BY <1>2 DEF s

LEMMA SelectFacts ==
    ASSUME NEW next \in {"clear", "stop"}, NEW e \in Event
    PROVE  Harmless(Select(e, next)) /\ LeadsTo(Select(e, next), e)
  <1> DEFINE s == Select(e, next)
  <1>1. /\ s \in Run /\ s.at = "event" /\ s.event = e /\ s.next = next /\ ~s.pick
    BY DEF Select, NoRun, Run
  <1> HIDE DEF s
  <1>2. Harmless(s) /\ LeadsTo(s, e)
    BY <1>1 DEF Harmless, RunFits, LeadsTo
  <1>3. QED
    BY <1>2 DEF s

\* The one event of a set is the one any member is.
LEMMA OnlyFacts ==
    ASSUME NEW es \in SUBSET Event, Cardinality(es) = 1
    PROVE  Only(es) \in es /\ \A e \in es : e = Only(es)
  <1>1. IsFiniteSet(es)
    BY SessionAssumption, FS_Subset
  <1>2. \E x : es = {x}
    BY <1>1, FS_Singleton
  <1>3. QED
    BY <1>2 DEF Only

LEMMA RemainingFacts ==
    ASSUME NEW es \in SUBSET Event
    PROVE  /\ Harmless(Remaining(es))
           /\ \A e \in es : LeadsTo(Remaining(es), e)
  <1>1. CASE Cardinality(es) = 1
    <2>1. Only(es) \in Event /\ \A e \in es : e = Only(es)
      BY <1>1, OnlyFacts
    <2>2. Remaining(es) = Select(Only(es), "stop")
      BY <1>1 DEF Remaining
    <2>3. QED
      BY <2>1, <2>2, SelectFacts
  <1>2. CASE Cardinality(es) # 1
    <2>1. Remaining(es) = ListFor("selector", None)
      BY <1>2 DEF Remaining
    <2>2. QED
      BY <2>1, ListForFacts
  <1>3. QED
    BY <1>1, <1>2

LEMMA InitializeFacts ==
    ASSUME SessionInv, NEW c \in Profile
    PROVE  /\ Harmless(Initialize(c))
           /\ cached = c /\ picked # None /\ ~crossed => LeadsTo(Initialize(c), picked)
  <1> DEFINE e == SavedEvent(c)
  <1>1. e \in Event \cup {None} /\ c.events \in SUBSET Event
    BY DEF SavedEvent, SessionInv, SessionTyped, SessionTypeOK, Profile
  <1>2. ASSUME cached = c, picked # None, ~crossed
        PROVE  e = picked /\ e # None /\ HasEventAccess(c, e)
    BY <1>2, SessionAssumption
       DEF SessionInv, SavedByUser, PickHolds, PickAllowed, SavedEvent, Profile
  <1> HIDE DEF e
  <1>3. CASE IsSystemAdmin(c)
    <2>1. Initialize(c) = ListFor("restore", e)
      BY <1>3 DEF Initialize, e
    <2>2. QED
      BY <1>1, <1>2, <2>1, ListForFacts
  <1>4. CASE ~IsSystemAdmin(c) /\ c.events = {}
    <2>1. Initialize(c) = NoRun
      BY <1>4 DEF Initialize
    <2>2. QED
      BY <2>1, NoRunFacts
  <1>5. CASE /\ ~IsSystemAdmin(c) /\ c.events # {}
             /\ e # None /\ HasEventAccess(c, e)
    <2> DEFINE s == [Select(e, "fallback") EXCEPT !.of = c.events]
    <2>1. Initialize(c) = s
      BY <1>5 DEF Initialize, e
    <2>2. /\ s \in Run /\ s.at = "event" /\ s.event = e /\ s.next = "fallback" /\ ~s.pick
          /\ s.of = c.events
      BY <1>1, <1>5 DEF Select, NoRun, Run
    <2>3. e \in c.events
      BY <1>5 DEF HasEventAccess
    <2> HIDE DEF s
    <2>4. Harmless(s) /\ LeadsTo(s, e)
      BY <1>5, <2>2, <2>3 DEF Harmless, RunFits, LeadsTo
    <2>5. QED
      BY <1>2, <2>1, <2>4
  <1>6. CASE /\ ~IsSystemAdmin(c) /\ c.events # {}
             /\ ~(e # None /\ HasEventAccess(c, e))
    <2>1. Initialize(c) = Remaining(c.events)
      BY <1>6 DEF Initialize, e
    <2>2. QED
      BY <1>1, <1>2, <1>6, <2>1, RemainingFacts
  <1>7. QED
    BY <1>3, <1>4, <1>5, <1>6

\* For the user who saved it, starting keeps the saved event.
LEMMA SavedForFacts ==
    ASSUME SessionInv, NEW c \in Profile
    PROVE  /\ SavedFor(c) \in [user : User \cup {None}, event : Event \cup {None}]
           /\ SavedFor(c).user = c.id
           /\ last.user = c.id => SavedFor(c).event = last.event
  BY DEF SessionInv, SessionTyped, SessionTypeOK, SavedFor, Profile

\* What a tab can come to show.
LEMMA TabFacts ==
    ASSUME SessionInv
    PROVE  /\ tab \in TabState /\ Cleared \in TabState /\ Cleared.shown = None
           /\ \A e \in Event \cup {None} : Showing(e) \in TabState /\ Showing(e).shown = e
           /\ Showing(tab.shown) \in TabState /\ Showing(tab.shown).shown = tab.shown
           /\ \A e \in Event \cup {None} :
                 LET t == [tab EXCEPT !.choosing = e] IN t \in TabState /\ t.shown = tab.shown
           /\ \A e \in Event \cup {None} :
                 LET t == [tab EXCEPT !.selector = TRUE, !.shown = e]
                 IN  t \in TabState /\ t.shown = e
           /\ tab.shown \in Event \cup {None}
  BY DEF SessionInv, SessionTyped, SessionTypeOK, TabState, Cleared, Showing

-----------------------------------------------------------------------------
(* Runs that only go on.                                                   *)

\* A step that leaves the profile, the choice and what is saved alone, and
\* shows nothing or what was shown.
LEMMA RunContinues ==
    ASSUME SessionInv, NEW r, NEW s, Goes(r, s), Harmless(s),
           picked # None /\ ~crossed => LeadsTo(s, picked),
           UNCHANGED <<roles, token, cached, last, picked, crossed>>,
           tab' \in TabState,
           tab'.shown \in {tab.shown, None}
    PROVE  SessionInv'
  <1>1. IsABag(runs') /\ InFlight' \subseteq InFlight \cup {s}
    BY GoesFacts DEF SessionInv, SessionTyped, SessionTypeOK
  <1>2. SessionTyped'
    BY <1>1 DEF SessionInv, SessionTyped, SessionTypeOK, Harmless, RunFits
  <1>3. SavedByUser'
    BY DEF SessionInv, SavedByUser
  <1>4. PickAllowed'
    BY <1>1 DEF SessionInv, PickAllowed, Harmless, HasEventAccess, IsSystemAdmin
  <1>5. PickHolds'
    BY <1>1 DEF SessionInv, PickHolds, LeadsTo
  <1>6. QED
    BY <1>2, <1>3, <1>4, <1>5 DEF SessionInv

LEMMA ListStep ==
    ASSUME SessionInv, NEW r \in InFlight, ListAnswers(r) \/ ListFails(r)
    PROVE  SessionInv'
  <1>1. /\ r \in Run /\ r.at = "list"
        /\ tab \in TabState
    BY DEF SessionInv, SessionTyped, SessionTypeOK, ListAnswers, ListFails
  <1>2. UNCHANGED <<roles, token, cached, last, picked, crossed>>
    BY DEF ListAnswers, ListFails
  <1>3. CASE ListAnswers(r) /\ r.next = "restore" /\ r.event # None
    <2>1. Goes(r, Select(r.event, "clear")) /\ UNCHANGED tab
      BY <1>3 DEF ListAnswers
    <2>2. r.event \in Event
      BY <1>1, <1>3 DEF Run
    <2>3. picked # None /\ ~crossed => r.event = picked
      BY <1>1, <1>3 DEF SessionInv, PickHolds, LeadsTo
    <2>4. QED
      BY <1>1, <1>2, <2>1, <2>2, <2>3, SelectFacts, RunContinues
  <1>4. CASE ListAnswers(r) /\ ~(r.next = "restore" /\ r.event # None)
    <2>1. /\ Goes(r, NoRun)
          /\ tab' = [tab EXCEPT !.selector = TRUE,
                                !.shown = IF r.next = "restore" THEN None ELSE tab.shown]
      BY <1>1, <1>4 DEF ListAnswers, TabState
    <2>2. /\ tab' \in TabState
          /\ tab'.shown \in {tab.shown, None}
      BY <2>1, TabFacts
    <2>3. QED
      BY <1>2, <2>1, <2>2, NoRunFacts, RunContinues
  <1>5. CASE ListFails(r)
    <2>1. Goes(r, NoRun) /\ tab' = Showing(tab.shown)
      BY <1>5 DEF ListFails
    <2>2. /\ tab' \in TabState
          /\ tab'.shown \in {tab.shown, None}
      BY <2>1, TabFacts
    <2>3. QED
      BY <1>2, <2>1, <2>2, NoRunFacts, RunContinues
  <1>6. QED
    BY <1>3, <1>4, <1>5

LEMMA EventFailsStep ==
    ASSUME SessionInv, NEW r \in InFlight, EventFails(r)
    PROVE  SessionInv'
  <1>1. /\ r \in Run /\ r.at = "event" /\ r.of \in SUBSET Event /\ r.pick \in BOOLEAN
        /\ tab \in TabState
    BY DEF SessionInv, SessionTyped, SessionTypeOK, EventFails, Run
  <1>2. UNCHANGED <<roles, token, cached, last, picked, crossed>>
    BY DEF EventFails
  <1>3. CASE r.next = "clear"
    <2>1. Goes(r, NoRun) /\ tab' = [tab EXCEPT !.selector = TRUE, !.shown = None]
      BY <1>1, <1>3 DEF EventFails, TabState
    <2>2. /\ tab' \in TabState
          /\ tab'.shown \in {tab.shown, None}
      BY <2>1, TabFacts
    <2>3. QED
      BY <1>2, <2>1, <2>2, NoRunFacts, RunContinues
  <1>4. CASE r.next = "fallback"
    <2>1. Goes(r, FallBack(r)) /\ UNCHANGED tab
      BY <1>4 DEF EventFails
    <2>2. picked # None /\ ~crossed => picked \in r.of
      BY <1>1, <1>4 DEF SessionInv, PickHolds, LeadsTo
    <2>3. FallBack(r) \in {NoRun, Remaining(r.of)}
      BY DEF FallBack
    <2>4. /\ Harmless(FallBack(r))
          /\ picked # None /\ ~crossed => LeadsTo(FallBack(r), picked)
      BY <1>1, <2>2, <2>3, NoRunFacts, RemainingFacts
    <2>5. QED
      BY <1>1, <1>2, <2>1, <2>4, RunContinues
  <1>5. CASE r.next \notin {"clear", "fallback"}
    <2>1. /\ Goes(r, NoRun)
          /\ tab' \in {Showing(tab.shown), [tab EXCEPT !.choosing = None], tab}
      BY <1>5 DEF EventFails
    <2>2. /\ tab' \in TabState
          /\ tab'.shown \in {tab.shown, None}
      BY <2>1, TabFacts
    <2>3. QED
      BY <1>2, <2>1, <2>2, NoRunFacts, RunContinues
  <1>6. QED
    BY <1>3, <1>4, <1>5

LEMMA OpenSelectorStep == ASSUME SessionInv, OpenSelector PROVE SessionInv'
  <1>1. token \in User /\ tab \in TabState
    BY DEF SessionInv, SessionTyped, SessionTypeOK, OpenSelector
  <1>2. Goes(NoRun, Me(token, "selector"))
    BY DEF OpenSelector
  <1>3. Harmless(Me(token, "selector")) /\ \A e : LeadsTo(Me(token, "selector"), e)
    BY <1>1, MeFacts
  <1>4. UNCHANGED <<roles, token, cached, last, picked, crossed>> /\ UNCHANGED tab
    BY DEF OpenSelector
  <1>5. QED
    BY <1>1, <1>2, <1>3, <1>4, RunContinues

-----------------------------------------------------------------------------
(* A choice, and its answer.                                               *)

LEMMA PickStep == ASSUME SessionInv, NEW e \in Event, Pick(e) PROVE SessionInv'
  <1> DEFINE s == [Select(e, "stop") EXCEPT !.pick = TRUE]
  <1>1. s \in Run /\ s.at = "event" /\ s.event = e /\ s.next = "stop" /\ s.pick
    BY DEF Select, NoRun, Run
  <1>2. Goes(NoRun, s)
    BY DEF Pick
  <1> HIDE DEF s
  <1>3. IsABag(runs') /\ InFlight' \subseteq InFlight \cup {s}
    BY <1>2, GoesFacts DEF SessionInv, SessionTyped, SessionTypeOK
  <1>4. /\ UNCHANGED <<roles, token, cached, last>> /\ picked' = None
        /\ tab' = [tab EXCEPT !.choosing = e]
        /\ crossed' = (InFlight # {}) /\ cached # None /\ HasEventAccess(cached, e)
    BY DEF Pick
  <1>5. SessionTyped'
    BY <1>1, <1>3, <1>4, TabFacts DEF SessionInv, SessionTyped, SessionTypeOK, RunFits
  <1>6. SavedByUser' /\ PickHolds'
    BY <1>4 DEF SessionInv, SavedByUser, PickHolds
  <1>7. PickAllowed'
    BY <1>1, <1>3, <1>4 DEF PickAllowed, HasEventAccess, IsSystemAdmin
  <1>8. QED
    BY <1>5, <1>6, <1>7 DEF SessionInv

LEMMA EventAnswersStep ==
    ASSUME SessionInv, NEW r \in InFlight, EventAnswers(r)
    PROVE  SessionInv'
  <1>1. r \in Run /\ r.at = "event" /\ r.event \in Event \cup {None} /\ r.pick \in BOOLEAN
    BY DEF SessionInv, SessionTyped, SessionTypeOK, EventAnswers, Run
  <1>2. IsABag(runs') /\ InFlight' \subseteq InFlight /\ (runs = One(r) => InFlight' = {})
    <2>1. Goes(r, NoRun) /\ IsABag(runs)
      BY DEF EventAnswers, SessionInv, SessionTyped, SessionTypeOK
    <2>2. QED
      BY <2>1, GoesFacts
  <1>3. /\ UNCHANGED <<roles, token, cached>>
        /\ tab' = Showing(r.event)
        /\ last' = [last EXCEPT !.event = r.event]
        /\ picked' = IF r.pick THEN r.event ELSE picked
        /\ crossed' = (crossed \/ (r.pick /\ runs # One(r)))
    BY DEF EventAnswers
  <1>4. /\ last'.user = last.user /\ last'.event = r.event
        /\ tab'.shown = r.event /\ tab' \in TabState
    BY <1>1, <1>3, TabFacts DEF SessionInv, SessionTyped, SessionTypeOK
  <1>5. SessionTyped'
    BY <1>1, <1>2, <1>3, <1>4 DEF SessionInv, SessionTyped, SessionTypeOK
  <1>6. SavedByUser'
    BY <1>3, <1>4 DEF SessionInv, SavedByUser
  <1>7. PickAllowed'
    BY <1>2, <1>3 DEF SessionInv, PickAllowed, HasEventAccess, IsSystemAdmin
  <1>8. PickHolds'
    <2>1. CASE r.pick
      BY <1>2, <1>3, <1>4, <2>1 DEF PickHolds
    <2>2. CASE ~r.pick
      <3>1. picked' = picked /\ crossed' = crossed
        BY <1>3, <2>2 DEF SessionInv, SessionTyped, SessionTypeOK
      <3>2. picked # None /\ ~crossed => r.event = picked
        BY <1>1 DEF SessionInv, PickHolds, LeadsTo
      <3>3. QED
        BY <1>2, <1>3, <1>4, <3>1, <3>2 DEF SessionInv, PickHolds, LeadsTo
    <2>3. QED
      BY <2>1, <2>2
  <1>9. QED
    BY <1>5, <1>6, <1>7, <1>8 DEF SessionInv

-----------------------------------------------------------------------------
(* The profile.                                                            *)

LEMMA MeFailsStep ==
    ASSUME SessionInv, NEW r \in InFlight, MeFails(r)
    PROVE  SessionInv'
  <1>1. IsABag(runs') /\ InFlight' \subseteq InFlight
    <2>1. Goes(r, NoRun) /\ IsABag(runs)
      BY DEF MeFails, SessionInv, SessionTyped, SessionTypeOK
    <2>2. QED
      BY <2>1, GoesFacts
  <1>2. /\ UNCHANGED <<roles, token, last, crossed>> /\ cached' = None /\ picked' = None
        /\ tab' = Cleared
    BY DEF MeFails
  <1>3. QED
    BY <1>1, <1>2, TabFacts
       DEF SessionInv, SessionTyped, SessionTypeOK, SavedByUser, PickAllowed, PickHolds

LEMMA MeAnswersStep ==
    ASSUME SessionInv, NEW r \in InFlight, MeAnswers(r)
    PROVE  SessionInv'
  <1> DEFINE c == [id |-> r.who, events |-> roles[r.who]]
             next == Continued(r, c)
             told == IF Differs(c) THEN One(Initialize(c)) ELSE EmptyBag
             D == runs (-) One(r)
  <1>1. r.who \in User /\ roles[r.who] \in SUBSET Event
    BY SessionAssumption
       DEF SessionInv, SessionTyped, SessionTypeOK, RunFits, MeAnswers
  <1>2. c \in Profile /\ c.id = r.who
    BY <1>1 DEF Profile
  <1>3. /\ UNCHANGED <<roles, token, tab, picked>> /\ cached' = c
        /\ runs' = (D (+) One(next)) (+) told
        /\ crossed' = (crossed \/ Differs(c))
        /\ last' = IF Differs(c) \/ r.next = "init" THEN SavedFor(c) ELSE last
    BY DEF MeAnswers
  <1> HIDE DEF c
  <1>4. /\ Harmless(next)
        /\ cached = c /\ picked # None /\ ~crossed => LeadsTo(next, picked)
    <2>1. next \in {Initialize(c), ListFor("selector", None), NoRun}
      BY DEF Continued
    <2>2. QED
      BY <1>2, <2>1, InitializeFacts, ListForFacts, NoRunFacts
  <1>5. Harmless(Initialize(c))
    BY <1>2, InitializeFacts
  <1>6. /\ IsABag(runs')
        /\ InFlight' \subseteq InFlight \cup {next} \cup (IF Differs(c) THEN {Initialize(c)} ELSE {})
    <2>1. IsABag(D) /\ BagToSet(D) \subseteq InFlight
      BY OneFacts, RunsEnd DEF InFlight, SessionInv, SessionTyped, SessionTypeOK
    <2> HIDE DEF D, next
    <2>2. IsABag(D (+) One(next)) /\ BagToSet(D (+) One(next)) \subseteq InFlight \cup {next}
      BY <2>1, OneFacts, RunsAdd
    <2>3. /\ IsABag(told)
          /\ BagToSet(told) \subseteq (IF Differs(c) THEN {Initialize(c)} ELSE {})
      BY OneFacts, NoRuns
    <2> DEFINE E == D (+) One(next)
    <2> HIDE DEF told, E
    <2>4. IsABag(E (+) told) /\ BagToSet(E (+) told) = BagToSet(E) \cup BagToSet(told)
      BY <2>2, <2>3, RunsAdd DEF E
    <2>5. runs' = E (+) told
      BY <1>3 DEF E
    <2>6. IsABag(runs') /\ InFlight' = BagToSet(E) \cup BagToSet(told)
      BY <2>4, <2>5 DEF InFlight
    <2>7. BagToSet(E) \subseteq InFlight \cup {next}
      BY <2>2 DEF E
    <2>8. QED
      BY <2>3, <2>6, <2>7
  <1> HIDE DEF next, told, D
  <1>7. \A s \in InFlight' : s \in InFlight \/ Harmless(s)
    BY <1>4, <1>5, <1>6
  <1>8. Differs(c) <=> cached # c
    BY DEF Differs
  <1>9. /\ last' \in [user : User \cup {None}, event : Event \cup {None}]
        /\ last'.user = c.id
        /\ cached = c => last'.event = last.event
    <2>1. cached = c => last.user = c.id
      BY <1>2, SessionAssumption DEF SessionInv, SavedByUser, Profile
    <2>2. CASE last' = SavedFor(c)
      BY <1>2, <2>1, <2>2, SavedForFacts
    <2>3. CASE last' = last /\ cached = c
      BY <2>1, <2>3 DEF SessionInv, SessionTyped, SessionTypeOK
    <2>4. QED
      BY <1>3, <1>8, <2>2, <2>3
  <1>10. SessionTyped'
    BY <1>2, <1>3, <1>6, <1>7, <1>8, <1>9
       DEF SessionInv, SessionTyped, SessionTypeOK, Harmless
  <1>11. SavedByUser'
    BY <1>3, <1>9 DEF SavedByUser
  <1>12. CASE Differs(c)
    <2>1. crossed'
      BY <1>3, <1>12
    <2>2. QED
      BY <1>10, <1>11, <2>1 DEF SessionInv, PickAllowed, PickHolds
  <1>13. CASE ~Differs(c)
    <2>1. cached' = cached /\ crossed' = crossed /\ InFlight' \subseteq InFlight \cup {next}
      BY <1>3, <1>6, <1>8, <1>13 DEF SessionInv, SessionTyped, SessionTypeOK
    <2>2. PickAllowed'
      BY <1>3, <1>4, <2>1
         DEF SessionInv, PickAllowed, HasEventAccess, IsSystemAdmin, Harmless
    <2>3. PickHolds'
      BY <1>3, <1>4, <1>8, <1>9, <1>13, <2>1 DEF SessionInv, PickHolds, LeadsTo
    <2>4. QED
      BY <1>10, <1>11, <2>2, <2>3 DEF SessionInv
  <1>14. QED
    BY <1>12, <1>13

-----------------------------------------------------------------------------
(* The tab starts.                                                         *)

LEMMA StartFacts ==
    ASSUME SessionInv, token' \in User
    PROVE  /\ Harmless(Started)
           /\ picked # None /\ ~crossed => LeadsTo(Started, picked)
           /\ StartedLast \in [user : User \cup {None}, event : Event \cup {None}]
           /\ cached # None => StartedLast.user = cached.id
           /\ StartedLast.event = last.event
  <1>1. CASE cached = None
    <2>1. Started = Me(token', "init") /\ StartedLast = last
      BY <1>1 DEF Started, StartedLast
    <2>2. Harmless(Me(token', "init")) /\ \A e : LeadsTo(Me(token', "init"), e)
      BY MeFacts
    <2>3. QED
      BY <1>1, <2>1, <2>2 DEF SessionInv, SessionTyped, SessionTypeOK
  <1>2. CASE cached # None
    <2>1. Started = Initialize(cached) /\ StartedLast = SavedFor(cached) /\ cached \in Profile
      BY <1>2 DEF Started, StartedLast, SessionInv, SessionTyped, SessionTypeOK
    <2>2. last.user = cached.id
      BY <1>2 DEF SessionInv, SavedByUser
    <2>3. QED
      BY <2>1, <2>2, InitializeFacts, SavedForFacts
  <1>3. QED
    BY <1>1, <1>2

LEMMA StartStep ==
    ASSUME SessionInv, token' \in User, UNCHANGED <<roles, cached, picked, crossed>>,
           runs' = One(Me(token', "nothing")) (+) One(Started), last' = StartedLast,
           tab' \in TabState,
           tab'.shown \in {tab.shown, None}
    PROVE  SessionInv'
  <1> DEFINE m == Me(token', "nothing")
  <1>1. IsABag(runs') /\ InFlight' \subseteq {m, Started}
    <2>1. /\ IsABag(One(m)) /\ BagToSet(One(m)) \subseteq {m}
          /\ IsABag(One(Started)) /\ BagToSet(One(Started)) \subseteq {Started}
      BY OneFacts
    <2>2. /\ IsABag(One(m) (+) One(Started))
          /\ BagToSet(One(m) (+) One(Started)) = BagToSet(One(m)) \cup BagToSet(One(Started))
      BY <2>1, RunsAdd
    <2>3. QED
      BY <2>1, <2>2 DEF InFlight
  <1>2. Harmless(m) /\ \A e : LeadsTo(m, e)
    BY MeFacts
  <1> HIDE DEF m
  <1>3. \A s \in InFlight' : Harmless(s) /\ (picked # None /\ ~crossed => LeadsTo(s, picked))
    BY <1>1, <1>2, StartFacts
  <1>4. SessionTyped'
    BY <1>1, <1>3, StartFacts DEF SessionInv, SessionTyped, SessionTypeOK, Harmless
  <1>5. SavedByUser'
    BY StartFacts DEF SavedByUser
  <1>6. PickAllowed'
    BY <1>3 DEF SessionInv, PickAllowed, Harmless, HasEventAccess, IsSystemAdmin
  <1>7. PickHolds'
    BY <1>3, StartFacts DEF SessionInv, PickHolds, LeadsTo
  <1>8. QED
    BY <1>4, <1>5, <1>6, <1>7 DEF SessionInv

LEMMA SignInStep == ASSUME SessionInv, NEW u \in User, SignIn(u) PROVE SessionInv'
  <1>1. /\ token' = u /\ UNCHANGED <<roles, cached, picked, crossed>> /\ tab' = tab
        /\ runs' = One(Me(u, "nothing")) (+) One(Started) /\ last' = StartedLast
    BY DEF SignIn
  <1>2. tab' \in TabState
    BY <1>1 DEF SessionInv, SessionTyped, SessionTypeOK
  <1>3. QED
    BY <1>1, <1>2, StartStep

LEMMA ReloadStep == ASSUME SessionInv, Reload PROVE SessionInv'
  <1>1. /\ token' = token /\ UNCHANGED <<roles, cached, picked, crossed>>
        /\ tab' = Cleared
    BY DEF Reload
  <1>2. CASE token = None
    <2>1. runs' = EmptyBag /\ last' = last
      BY <1>2 DEF Reload
    <2>2. IsABag(runs') /\ InFlight' = {}
      BY <2>1, NoRuns DEF InFlight
    <2>3. QED
      BY <1>1, <2>1, <2>2, TabFacts
         DEF SessionInv, SessionTyped, SessionTypeOK, SavedByUser, PickAllowed, PickHolds,
             HasEventAccess, IsSystemAdmin
  <1>3. CASE token # None
    <2>1. runs' = One(Me(token', "nothing")) (+) One(Started) /\ last' = StartedLast
      BY <1>1, <1>3 DEF Reload
    <2>2. token' \in User
      BY <1>1, <1>3 DEF SessionInv, SessionTyped, SessionTypeOK
    <2>3. /\ tab' \in TabState
          /\ tab'.shown \in {tab.shown, None}
      BY <1>1, TabFacts
    <2>4. QED
      BY <1>1, <2>1, <2>2, <2>3, StartStep
  <1>4. QED
    BY <1>2, <1>3

-----------------------------------------------------------------------------
(* Every step.                                                             *)

LEMMA SessionInitInv == SessionInit => SessionInv
  <1> SUFFICES ASSUME SessionInit PROVE SessionInv
    OBVIOUS
  <1>1. IsABag(runs) /\ InFlight = {}
    BY NoRuns DEF SessionInit, InFlight
  <1>2. SessionTyped
    BY <1>1 DEF SessionInit, SessionTyped, SessionTypeOK, TabState, Cleared
  <1>3. SavedByUser /\ PickAllowed /\ PickHolds
    BY DEF SessionInit, SavedByUser, PickAllowed, PickHolds
  <1>4. QED
    BY <1>2, <1>3 DEF SessionInv

\* Steps that start no run and end none.
LEMMA QuietStep ==
    ASSUME SessionInv,
           \/ SignOut \/ CloseSelector \/ ClearEvent
           \/ \E u \in User : ChangeRoles(u)
           \/ UNCHANGED sessionVars
    PROVE  SessionInv'
  <1>1. InFlight' = InFlight /\ runs' = runs /\ crossed' = crossed
    <2>1. runs' = runs /\ crossed' = crossed
      BY DEF SignOut, CloseSelector, ClearEvent, ChangeRoles, sessionVars
    <2>2. QED
      BY <2>1 DEF InFlight
  <1>2. SessionTyped'
    <2>1. roles' \in [User -> RoleSets]
      BY DEF SessionInv, SessionTyped, SessionTypeOK, SignOut, CloseSelector, ClearEvent,
             ChangeRoles, sessionVars
    <2>2. token' \in User \cup {None} /\ cached' \in Profile \cup {None}
      BY DEF SessionInv, SessionTyped, SessionTypeOK, SignOut, CloseSelector, ClearEvent,
             ChangeRoles, sessionVars
    <2>3. last' \in [user : User \cup {None}, event : Event \cup {None}]
      BY DEF SessionInv, SessionTyped, SessionTypeOK, SignOut, CloseSelector, ClearEvent,
             ChangeRoles, sessionVars
    <2>4. tab' \in {tab, Showing(tab.shown), Cleared}
      BY DEF SignOut, CloseSelector, ClearEvent, ChangeRoles, sessionVars
    <2>5. picked' \in Event \cup {None}
      BY DEF SessionInv, SessionTyped, SessionTypeOK, SignOut, CloseSelector, ClearEvent,
             ChangeRoles, sessionVars
    <2>6. QED
      BY <1>1, <2>1, <2>2, <2>3, <2>4, <2>5, TabFacts DEF SessionInv, SessionTyped, SessionTypeOK
  <1>3. SavedByUser'
    BY DEF SessionInv, SessionTyped, SessionTypeOK, SavedByUser, SignOut, CloseSelector,
           ClearEvent, ChangeRoles, sessionVars
  <1>4. PickAllowed'
    BY <1>1
       DEF SessionInv, PickAllowed, HasEventAccess, IsSystemAdmin, SignOut, CloseSelector,
           ClearEvent, ChangeRoles, sessionVars
  <1>5. PickHolds'
    <2>1. picked' = None \/ (picked' = picked /\ last' = last /\ tab'.shown = tab.shown)
      BY TabFacts DEF SignOut, CloseSelector, ClearEvent, ChangeRoles, sessionVars
    <2>2. QED
      BY <1>1, <2>1 DEF SessionInv, PickHolds, LeadsTo
  <1>6. QED
    BY <1>2, <1>3, <1>4, <1>5 DEF SessionInv

LEMMA SessionInductive == SessionInv /\ [SessionNext]_sessionVars => SessionInv'
  BY SignInStep, ReloadStep, OpenSelectorStep, PickStep, QuietStep, MeAnswersStep,
     MeFailsStep, ListStep, EventAnswersStep, EventFailsStep
  DEF SessionNext

\* The tab, what it keeps over a reload and its runs in flight are of their
\* types, however many runs overlap.
THEOREM SessionTypeCorrect == SessionSpec => []SessionTypeOK
  <1>1. SessionInv => SessionTypeOK
    BY DEF SessionInv, SessionTyped
  <1>2. QED
    BY <1>1, SessionInitInv, SessionInductive, PTL DEF SessionSpec

\* The event chosen in the selector stays the one shown until it is cleared or
\* the user signs out, whatever initializeEvent runs reloads start, when none
\* was in flight at the choice and the profile stays the same: it is the saved
\* one, the user may see it, and nothing in flight leads to another.
THEOREM PickStandsHolds == SessionSpec => []PickStands
  <1>1. SessionInv => PickStands
    BY DEF SessionInv, PickHolds, PickStands
  <1>2. QED
    BY <1>1, SessionInitInv, SessionInductive, PTL DEF SessionSpec

-----------------------------------------------------------------------------
(* The users of an event and their roles.                                  *)

\* The statements a handler has left, as it works through its list.
Lists ==
    {<<"dropRoles", "grant", "status">>, <<"grant", "status">>, <<"status">>, <<>>,
     <<"dropRoles", "grant">>, <<"grant">>, <<"unassign">>, <<"unassign", "assign">>,
     <<"assign">>, <<"dropRoles", "dropStaff", "delete">>, <<"dropStaff", "delete">>,
     <<"delete">>}

Has(todo, statement) == \E i \in DOMAIN todo : todo[i] = statement
HasRoles(todo) == Has(todo, "dropRoles") \/ Has(todo, "grant") \/ Has(todo, "delete")

Request ==
    [by : Manager, kind : Kind, of : Account, todo : Lists, status : Status, role : Role]

AccountsTyped ==
    /\ accounts \in [Account -> AccountRow \cup {Nothing}]
    /\ desk \in [Manager -> Desk]
    /\ \A m \in Manager : desk[m].of # Nothing => desk[m].copy \in Copy
    /\ IsABag(requests) /\ Pending \subseteq Request
    /\ presses \in 0..MaxPresses
    /\ record \in [Account -> Record]

Of(u) == {r \in Pending : r.of = u}

\* Unless it is muddled, every status under way is the one chosen last, and
\* the account has it already or it is under way.
StatusComes(u) ==
    ~record[u].muddled =>
        /\ \A r \in Of(u) : Has(r.todo, "status") => r.status = record[u].last
        /\ HasAccount(u) =>
              \/ accounts[u].status = record[u].last
              \/ \E r \in Of(u) : Has(r.todo, "status")

\* Unless they are torn, the roles are changed by one request at a time, which
\* inserts a role when there is none.
RolesWhole(u) ==
    ~record[u].torn =>
        /\ \A r, q \in Of(u) : HasRoles(r.todo) /\ HasRoles(q.todo) => r = q
        /\ \A r \in Of(u) : HasRoles(r.todo) => requests[r] = 1
        /\ HasAccount(u) =>
              \A r \in Of(u) : r.todo # <<>> /\ Head(r.todo) = "grant" => accounts[u].roles = {}
        /\ HasAccount(u) /\ record[u].had =>
              \/ \E r \in Of(u) : HasRoles(r.todo)
              \/ \E role \in Role : accounts[u].roles = {role}

AccountsInv == AccountsTyped /\ \A u \in Account : StatusComes(u) /\ RolesWhole(u)

\* Lists of up to three statements.
LEMMA Lists1 ==
    ASSUME NEW a
    PROVE  /\ Head(<<a>>) = a /\ Tail(<<a>>) = <<>>
           /\ \A x : Has(<<a>>, x) <=> x = a
           /\ \A x : ~Has(Tail(<<a>>), x)
           /\ Tail(<<a>>) # <<a>>
  BY DEF Has

LEMMA Lists2 ==
    ASSUME NEW a, NEW b
    PROVE  /\ Head(<<a, b>>) = a /\ Tail(<<a, b>>) = <<b>> /\ Head(Tail(<<a, b>>)) = b
           /\ \A x : Has(<<a, b>>, x) <=> x \in {a, b}
           /\ \A x : Has(Tail(<<a, b>>), x) <=> x = b
           /\ Tail(<<a, b>>) # <<a, b>>
  <1>1. /\ Head(<<a, b>>) = a /\ Tail(<<a, b>>) = <<b>>
        /\ \A x : Has(<<a, b>>, x) <=> x \in {a, b}
    BY DEF Has
  <1>2. <<b>> # <<a, b>>
    <2>1. Len(<<b>>) = 1 /\ Len(<<a, b>>) = 2
      OBVIOUS
    <2>2. QED
      BY <2>1
  <1>3. QED
    BY <1>1, <1>2, Lists1

LEMMA Lists3 ==
    ASSUME NEW a, NEW b, NEW c
    PROVE  /\ Head(<<a, b, c>>) = a /\ Tail(<<a, b, c>>) = <<b, c>>
           /\ Head(Tail(<<a, b, c>>)) = b
           /\ \A x : Has(<<a, b, c>>, x) <=> x \in {a, b, c}
           /\ \A x : Has(Tail(<<a, b, c>>), x) <=> x \in {b, c}
           /\ Tail(<<a, b, c>>) # <<a, b, c>>
  <1>1. /\ Head(<<a, b, c>>) = a /\ Tail(<<a, b, c>>) = <<b, c>>
        /\ \A x : Has(<<a, b, c>>, x) <=> x \in {a, b, c}
    BY DEF Has
  <1>2. <<b, c>> # <<a, b, c>>
    <2>1. Len(<<b, c>>) = 2 /\ Len(<<a, b, c>>) = 3
      OBVIOUS
    <2>2. QED
      BY <2>1
  <1>3. Head(<<b, c>>) = b /\ \A x : Has(<<b, c>>, x) <=> x \in {b, c}
    BY Lists2
  <1>4. QED
    BY <1>1, <1>2, <1>3

\* What a statement leaves of each list.
LEMMA ListFacts ==
    ASSUME NEW todo, todo \in Lists, todo # <<>>
    PROVE  /\ Tail(todo) \in Lists
           /\ Head(todo) \in {"dropRoles", "grant", "status", "unassign", "assign",
                              "dropStaff", "delete"}
           /\ Has(todo, "status") => Head(todo) = "status" \/ Has(Tail(todo), "status")
           /\ Has(Tail(todo), "status") => Has(todo, "status")
           /\ Head(todo) = "status" => Has(todo, "status")
           /\ HasRoles(Tail(todo)) => HasRoles(todo)
           /\ HasRoles(todo) => HasRoles(Tail(todo)) \/ Head(todo) \in {"grant", "delete"}
           /\ Head(todo) \in {"dropRoles", "grant", "delete"} => HasRoles(todo)
           /\ Head(todo) = "grant" => ~HasRoles(Tail(todo))
           /\ Tail(todo) # <<>> /\ Head(Tail(todo)) = "grant" => Head(todo) = "dropRoles"
           /\ Tail(todo) # todo
  <1>1. CASE todo = <<"dropRoles", "grant", "status">>
    <2> DEFINE a == "dropRoles"
    <2> DEFINE b == "grant"
    <2> DEFINE c == "status"
    <2>1. todo = <<a, b, c>> /\ a = "dropRoles" /\ b = "grant" /\ c = "status"
      BY <1>1
    <2>2. Tail(todo) = <<"grant", "status">> => Tail(todo) \in Lists
      BY DEF Lists
    <2>3. <<b, c>> = <<"grant", "status">>
      OBVIOUS
    <2> HIDE DEF a, b, c
    <2>4. Tail(todo) = <<b, c>>
      BY <2>1, Lists3
    <2>5. QED
      BY <2>1, <2>2, <2>3, <2>4, Lists3 DEF HasRoles
  <1>2. CASE todo = <<"grant", "status">>
    <2> DEFINE a == "grant"
    <2> DEFINE b == "status"
    <2>1. todo = <<a, b>> /\ a = "grant" /\ b = "status"
      BY <1>2
    <2>2. Tail(todo) = <<"status">> => Tail(todo) \in Lists
      BY DEF Lists
    <2>3. <<b>> = <<"status">>
      OBVIOUS
    <2> HIDE DEF a, b
    <2>4. Tail(todo) = <<b>>
      BY <2>1, Lists2
    <2>5. QED
      BY <2>1, <2>2, <2>3, <2>4, Lists2 DEF HasRoles
  <1>3. CASE todo = <<"status">>
    <2> DEFINE a == "status"
    <2>1. todo = <<a>> /\ a = "status"
      BY <1>3
    <2>2. Tail(todo) = <<>> => Tail(todo) \in Lists
      BY DEF Lists
    <2>3. <<>> = <<>>
      OBVIOUS
    <2> HIDE DEF a
    <2>4. Tail(todo) = <<>>
      BY <2>1, Lists1
    <2>5. QED
      BY <2>1, <2>2, <2>3, <2>4, Lists1 DEF HasRoles
  <1>4. CASE todo = <<>>
    BY <1>4
  <1>5. CASE todo = <<"dropRoles", "grant">>
    <2> DEFINE a == "dropRoles"
    <2> DEFINE b == "grant"
    <2>1. todo = <<a, b>> /\ a = "dropRoles" /\ b = "grant"
      BY <1>5
    <2>2. Tail(todo) = <<"grant">> => Tail(todo) \in Lists
      BY DEF Lists
    <2>3. <<b>> = <<"grant">>
      OBVIOUS
    <2> HIDE DEF a, b
    <2>4. Tail(todo) = <<b>>
      BY <2>1, Lists2
    <2>5. QED
      BY <2>1, <2>2, <2>3, <2>4, Lists2 DEF HasRoles
  <1>6. CASE todo = <<"grant">>
    <2> DEFINE a == "grant"
    <2>1. todo = <<a>> /\ a = "grant"
      BY <1>6
    <2>2. Tail(todo) = <<>> => Tail(todo) \in Lists
      BY DEF Lists
    <2>3. <<>> = <<>>
      OBVIOUS
    <2> HIDE DEF a
    <2>4. Tail(todo) = <<>>
      BY <2>1, Lists1
    <2>5. QED
      BY <2>1, <2>2, <2>3, <2>4, Lists1 DEF HasRoles
  <1>7. CASE todo = <<"unassign">>
    <2> DEFINE a == "unassign"
    <2>1. todo = <<a>> /\ a = "unassign"
      BY <1>7
    <2>2. Tail(todo) = <<>> => Tail(todo) \in Lists
      BY DEF Lists
    <2>3. <<>> = <<>>
      OBVIOUS
    <2> HIDE DEF a
    <2>4. Tail(todo) = <<>>
      BY <2>1, Lists1
    <2>5. QED
      BY <2>1, <2>2, <2>3, <2>4, Lists1 DEF HasRoles
  <1>8. CASE todo = <<"unassign", "assign">>
    <2> DEFINE a == "unassign"
    <2> DEFINE b == "assign"
    <2>1. todo = <<a, b>> /\ a = "unassign" /\ b = "assign"
      BY <1>8
    <2>2. Tail(todo) = <<"assign">> => Tail(todo) \in Lists
      BY DEF Lists
    <2>3. <<b>> = <<"assign">>
      OBVIOUS
    <2> HIDE DEF a, b
    <2>4. Tail(todo) = <<b>>
      BY <2>1, Lists2
    <2>5. QED
      BY <2>1, <2>2, <2>3, <2>4, Lists2 DEF HasRoles
  <1>9. CASE todo = <<"assign">>
    <2> DEFINE a == "assign"
    <2>1. todo = <<a>> /\ a = "assign"
      BY <1>9
    <2>2. Tail(todo) = <<>> => Tail(todo) \in Lists
      BY DEF Lists
    <2>3. <<>> = <<>>
      OBVIOUS
    <2> HIDE DEF a
    <2>4. Tail(todo) = <<>>
      BY <2>1, Lists1
    <2>5. QED
      BY <2>1, <2>2, <2>3, <2>4, Lists1 DEF HasRoles
  <1>10. CASE todo = <<"dropRoles", "dropStaff", "delete">>
    <2> DEFINE a == "dropRoles"
    <2> DEFINE b == "dropStaff"
    <2> DEFINE c == "delete"
    <2>1. todo = <<a, b, c>> /\ a = "dropRoles" /\ b = "dropStaff" /\ c = "delete"
      BY <1>10
    <2>2. Tail(todo) = <<"dropStaff", "delete">> => Tail(todo) \in Lists
      BY DEF Lists
    <2>3. <<b, c>> = <<"dropStaff", "delete">>
      OBVIOUS
    <2> HIDE DEF a, b, c
    <2>4. Tail(todo) = <<b, c>>
      BY <2>1, Lists3
    <2>5. QED
      BY <2>1, <2>2, <2>3, <2>4, Lists3 DEF HasRoles
  <1>11. CASE todo = <<"dropStaff", "delete">>
    <2> DEFINE a == "dropStaff"
    <2> DEFINE b == "delete"
    <2>1. todo = <<a, b>> /\ a = "dropStaff" /\ b = "delete"
      BY <1>11
    <2>2. Tail(todo) = <<"delete">> => Tail(todo) \in Lists
      BY DEF Lists
    <2>3. <<b>> = <<"delete">>
      OBVIOUS
    <2> HIDE DEF a, b
    <2>4. Tail(todo) = <<b>>
      BY <2>1, Lists2
    <2>5. QED
      BY <2>1, <2>2, <2>3, <2>4, Lists2 DEF HasRoles
  <1>12. CASE todo = <<"delete">>
    <2> DEFINE a == "delete"
    <2>1. todo = <<a>> /\ a = "delete"
      BY <1>12
    <2>2. Tail(todo) = <<>> => Tail(todo) \in Lists
      BY DEF Lists
    <2>3. <<>> = <<>>
      OBVIOUS
    <2> HIDE DEF a
    <2>4. Tail(todo) = <<>>
      BY <2>1, Lists1
    <2>5. QED
      BY <2>1, <2>2, <2>3, <2>4, Lists1 DEF HasRoles
  <1>13. QED
    BY <1>1, <1>2, <1>3, <1>4, <1>5, <1>6, <1>7, <1>8, <1>9, <1>10, <1>11, <1>12 DEF Lists

LEMMA ListsAreLists == Lists \subseteq Seq(Statement)
  BY DEF Lists, Statement

\* A request that is sent, that ends, and that goes on as another.
LEMMA BagAdds ==
    ASSUME NEW B, IsABag(B), NEW s
    PROVE  LET C == B (+) SetToBag({s}) IN
           /\ IsABag(C) /\ DOMAIN C = DOMAIN B \cup {s}
           /\ \A x \in DOMAIN B \ {s} : C[x] = B[x]
           /\ s \notin DOMAIN B => C[s] = 1
  BY DEF IsABag, (+), SetToBag

LEMMA BagEnds ==
    ASSUME NEW B, IsABag(B), NEW r \in DOMAIN B
    PROVE  LET C == B (-) SetToBag({r}) IN
           /\ IsABag(C) /\ DOMAIN C \subseteq DOMAIN B /\ DOMAIN B \ {r} \subseteq DOMAIN C
           /\ \A x \in DOMAIN B \ {r} : C[x] = B[x]
           /\ B[r] = 1 => r \notin DOMAIN C
  BY DEF IsABag, (-), SetToBag

LEMMA BagGoesOn ==
    ASSUME NEW B, IsABag(B), NEW r \in DOMAIN B, NEW s, s # r
    PROVE  LET C == (B (-) SetToBag({r})) (+) SetToBag({s}) IN
           /\ IsABag(C) /\ DOMAIN C \subseteq DOMAIN B \cup {s} /\ s \in DOMAIN C
           /\ DOMAIN B \ {r} \subseteq DOMAIN C
           /\ \A x \in DOMAIN B \ {r, s} : C[x] = B[x]
           /\ B[r] = 1 => r \notin DOMAIN C
           /\ s \notin DOMAIN B => C[s] = 1
  <1> DEFINE D == B (-) SetToBag({r})
  <1>1. /\ IsABag(D) /\ DOMAIN D \subseteq DOMAIN B /\ DOMAIN B \ {r} \subseteq DOMAIN D
        /\ \A x \in DOMAIN B \ {r} : D[x] = B[x]
        /\ B[r] = 1 => r \notin DOMAIN D
    BY BagEnds
  <1> HIDE DEF D
  <1> DEFINE C == D (+) SetToBag({s})
  <1>2. /\ IsABag(C) /\ DOMAIN C = DOMAIN D \cup {s}
        /\ \A x \in DOMAIN D \ {s} : C[x] = D[x]
        /\ s \notin DOMAIN D => C[s] = 1
    BY <1>1, BagAdds
  <1> HIDE DEF C
  <1>3. /\ IsABag(C) /\ DOMAIN C \subseteq DOMAIN B \cup {s} /\ s \in DOMAIN C
        /\ DOMAIN B \ {r} \subseteq DOMAIN C
        /\ \A x \in DOMAIN B \ {r, s} : C[x] = B[x]
        /\ B[r] = 1 => r \notin DOMAIN C
        /\ s \notin DOMAIN B => C[s] = 1
    BY <1>1, <1>2
  <1>4. QED
    BY <1>3 DEF C, D

LEMMA CarriesFacts ==
    ASSUME NEW r
    PROVE  /\ \A x : Carries(r, x) <=> Has(r.todo, x)
           /\ CarriesRoles(r) <=> HasRoles(r.todo)
  BY DEF Carries, CarriesRoles, Has, HasRoles

LEMMA RequestFacts ==
    ASSUME AccountsInv, NEW r \in Pending
    PROVE  /\ r \in Request /\ r.by \in Manager /\ r.kind \in Kind /\ r.of \in Account
           /\ r.todo \in Lists /\ r.status \in Status /\ r.role \in Role
           /\ r \in DOMAIN requests /\ IsABag(requests)
  BY DEF AccountsInv, AccountsTyped, Request, Pending, BagToSet

LEMMA AccountsInitInv == AccountsInit => AccountsInv
  <1> SUFFICES ASSUME AccountsInit PROVE AccountsInv
    OBVIOUS
  <1>1. requests = EmptyBag /\ IsABag(requests) /\ Pending = {}
    BY DEF AccountsInit, EmptyBag, IsABag, SetToBag, Pending, BagToSet
  <1>2. \A u \in Account : accounts[u] \in AccountRow /\ accounts[u].status \in Status
    BY DEF AccountsInit, AccountRow, Status
  <1>3. accounts \in [Account -> AccountRow \cup {Nothing}]
    BY <1>2 DEF AccountsInit
  <1>4. PICK level \in [Manager -> Level] :
          desk = [m \in Manager |-> [level |-> level[m], list |-> Unread,
                    of |-> Nothing, copy |-> Nothing, saving |-> FALSE]]
    BY DEF AccountsInit
  <1>5. desk \in [Manager -> Desk] /\ \A m \in Manager : desk[m].of = Nothing
    <2>1. Unread \in [Account -> Copy \cup {Nothing}]
      BY DEF Unread
    <2> HIDE DEF Unread
    <2>2. QED
      BY <1>4, <2>1 DEF Desk
  <1>6. record \in [Account -> Record] /\ \A u \in Account :
           record[u].last = accounts[u].status /\ ~record[u].had
    BY <1>2 DEF AccountsInit, Record
  <1>7. presses \in 0..MaxPresses
    BY AccountsAssumption DEF AccountsInit
  <1>8. AccountsTyped
    BY <1>1, <1>3, <1>5, <1>6, <1>7 DEF AccountsTyped
  <1>9. \A u \in Account : StatusComes(u) /\ RolesWhole(u)
    BY <1>1, <1>6 DEF StatusComes, RolesWhole, Of
  <1>10. QED
    BY <1>8, <1>9 DEF AccountsInv

\* Only one page changes.
LEMMA DeskMoves ==
    ASSUME AccountsInv, NEW m \in Manager, NEW d, desk' = [desk EXCEPT ![m] = d],
           d \in Desk, d.of # Nothing => d.copy \in Copy
    PROVE  /\ desk' \in [Manager -> Desk]
           /\ \A n \in Manager : desk'[n].of # Nothing => desk'[n].copy \in Copy
  BY DEF AccountsInv, AccountsTyped

\* What GET answers.
LEMMA CopiesFacts ==
    ASSUME AccountsInv, NEW u \in Account, NEW c \in CopiesOf(u)
    PROVE  c \in Copy \cup {Nothing} /\ (HasAccount(u) => c \in Copy)
  <1>1. CASE ~HasAccount(u)
    BY <1>1 DEF CopiesOf
  <1>2. CASE HasAccount(u)
    <2>1. accounts[u].status \in Status /\ accounts[u].staff \in BOOLEAN
      BY <1>2 DEF HasAccount, AccountsInv, AccountsTyped, AccountRow
    <2>2. c \in [status : {accounts[u].status}, role : Role \cup {Nothing},
                 staff : {accounts[u].staff}]
      BY <1>2 DEF CopiesOf
    <2>3. QED
      BY <2>1, <2>2 DEF Copy
  <1>3. QED
    BY <1>1, <1>2

LEMMA LoadUsersStep == ASSUME AccountsInv, NEW m \in Manager, LoadUsers(m) PROVE AccountsInv'
  <1>1. PICK list \in [Account -> Copy \cup {Nothing}] : desk' = [desk EXCEPT ![m].list = list]
    BY DEF LoadUsers
  <1>2. UNCHANGED <<accounts, requests, presses, record>>
    BY DEF LoadUsers
  <1>3. desk' \in [Manager -> Desk]
        /\ \A n \in Manager : desk'[n].of = desk[n].of /\ desk'[n].copy = desk[n].copy
    BY <1>1 DEF AccountsInv, AccountsTyped, Desk
  <1>4. Pending' = Pending
    BY <1>2 DEF Pending
  <1>5. AccountsTyped'
    BY <1>2, <1>3, <1>4 DEF AccountsInv, AccountsTyped
  <1>6. \A u \in Account : (StatusComes(u) /\ RolesWhole(u))'
    BY <1>2, <1>4 DEF AccountsInv, StatusComes, RolesWhole, Of, HasAccount
  <1>7. QED
    BY <1>5, <1>6 DEF AccountsInv

LEMMA SelectUserStep ==
    ASSUME AccountsInv, NEW m \in Manager, NEW u \in Account, SelectUser(m, u)
    PROVE  AccountsInv'
  <1>1. desk' = [desk EXCEPT ![m].of = u, ![m].copy = desk[m].list[u]]
        /\ UNCHANGED <<accounts, requests, presses, record>> /\ desk[m].list[u] # Nothing
    BY DEF SelectUser
  <1>2. desk[m].list[u] \in Copy
    BY <1>1 DEF AccountsInv, AccountsTyped, Desk
  <1>3. desk' \in [Manager -> Desk]
        /\ \A n \in Manager : desk'[n].of # Nothing => desk'[n].copy \in Copy
    BY <1>1, <1>2 DEF AccountsInv, AccountsTyped, Desk
  <1>4. Pending' = Pending
    BY <1>1 DEF Pending
  <1>5. AccountsTyped'
    BY <1>1, <1>3, <1>4 DEF AccountsInv, AccountsTyped
  <1>6. \A x \in Account : (StatusComes(x) /\ RolesWhole(x))'
    BY <1>1, <1>4 DEF AccountsInv, StatusComes, RolesWhole, Of, HasAccount
  <1>7. QED
    BY <1>5, <1>6 DEF AccountsInv

-----------------------------------------------------------------------------
(* The buttons.                                                            *)

\* The request s joins those in flight.
Joins(s) ==
    /\ IsABag(requests') /\ DOMAIN requests' = DOMAIN requests \cup {s}
    /\ \A x \in DOMAIN requests \ {s} : requests'[x] = requests[x]
    /\ s \notin DOMAIN requests => requests'[s] = 1

LEMMA PressFacts ==
    ASSUME AccountsInv, NEW m \in Manager, NEW kind \in Kind, NEW todo \in Lists,
           NEW status \in Status, NEW role \in Role, desk[m].of # Nothing,
           Press(m, kind, todo, status, role)
    PROVE  /\ presses' \in 0..MaxPresses /\ accounts' = accounts
           /\ \E s \in Request :
                 /\ s.of = desk[m].of /\ s.todo = todo /\ s.status = status
                 /\ Joins(s)
  <1> DEFINE s == [by |-> m, kind |-> kind, of |-> desk[m].of, todo |-> todo,
                   status |-> status, role |-> role]
  <1>1. desk[m].of \in Account
    BY DEF AccountsInv, AccountsTyped, Desk
  <1>2. s \in Request
    BY <1>1 DEF Request
  <1>3. s.of = desk[m].of /\ s.todo = todo /\ s.status = status
    OBVIOUS
  <1>4. presses < MaxPresses /\ presses' = presses + 1 /\ accounts' = accounts
        /\ requests' = requests (+) SetToBag({s})
    BY DEF Press
  <1> HIDE DEF s
  <1>5. IsABag(requests)
    BY DEF AccountsInv, AccountsTyped
  <1>6. Joins(s)
    BY <1>4, <1>5, BagAdds DEF Joins
  <1>7. presses' \in 0..MaxPresses
    BY <1>4, AccountsAssumption DEF AccountsInv, AccountsTyped
  <1>8. QED
    BY <1>2, <1>3, <1>4, <1>6, <1>7

\* What a press may do to the history of its account.
LEMMA PressKeeps ==
    ASSUME AccountsInv, NEW m \in Manager, NEW u \in Account, NEW s \in Request, s.of = u,
           Joins(s),
           presses' \in 0..MaxPresses, accounts' = accounts,
           s.todo # <<>> => Head(s.todo) # "grant",
           desk' \in [Manager -> Desk],
           \A n \in Manager : desk'[n].of # Nothing => desk'[n].copy \in Copy,
           record' \in [Account -> Record],
           \A x \in Account : x # u => record'[x] = record[x],
           record'[u].had => record[u].had \/ HasRoles(s.todo),
           ~record'[u].torn => /\ ~record[u].torn
                               /\ HasRoles(s.todo) => \A r \in Of(u) : ~HasRoles(r.todo),
           ~record'[u].muddled =>
              \/ /\ ~record[u].muddled /\ record'[u].last = record[u].last
                 /\ Has(s.todo, "status") => s.status = record[u].last
              \/ /\ Has(s.todo, "status") /\ s.status = record'[u].last
                 /\ \A r \in Of(u) : ~Has(r.todo, "status")
    PROVE  AccountsInv'
  <1>1. Pending' = Pending \cup {s} /\ Pending = DOMAIN requests
    BY DEF Pending, BagToSet, Joins
  <1>2. AccountsTyped'
    BY <1>1 DEF AccountsInv, AccountsTyped, Joins
  <1>3. ASSUME NEW x \in Account, x # u PROVE (StatusComes(x) /\ RolesWhole(x))'
    <2>1. Of(x)' = Of(x) /\ \A r \in Of(x) : requests'[r] = requests[r]
      BY <1>1, <1>3 DEF Of, Joins
    <2>2. QED
      BY <1>3, <2>1 DEF AccountsInv, StatusComes, RolesWhole, HasAccount
  <1>4. Of(u)' = Of(u) \cup {s}
    BY <1>1 DEF Of
  <1>5. StatusComes(u)'
    BY <1>4 DEF AccountsInv, StatusComes, HasAccount
  <1>6. RolesWhole(u)'
    <2> SUFFICES ASSUME ~record'[u].torn
                 PROVE  /\ \A r, q \in Of(u)' : HasRoles(r.todo) /\ HasRoles(q.todo) => r = q
                        /\ \A r \in Of(u)' : HasRoles(r.todo) => requests'[r] = 1
                        /\ HasAccount(u)' => \A r \in Of(u)' :
                              r.todo # <<>> /\ Head(r.todo) = "grant" => accounts'[u].roles = {}
                        /\ HasAccount(u)' /\ record'[u].had =>
                              \/ \E r \in Of(u)' : HasRoles(r.todo)
                              \/ \E x \in Role : accounts'[u].roles = {x}
      BY DEF RolesWhole
    <2>1. /\ \A r, q \in Of(u) : HasRoles(r.todo) /\ HasRoles(q.todo) => r = q
          /\ \A r \in Of(u) : HasRoles(r.todo) => requests[r] = 1
          /\ HasAccount(u) =>
              \A r \in Of(u) : r.todo # <<>> /\ Head(r.todo) = "grant" => accounts[u].roles = {}
          /\ HasAccount(u) /\ record[u].had =>
                \/ \E r \in Of(u) : HasRoles(r.todo)
                \/ \E x \in Role : accounts[u].roles = {x}
      BY DEF AccountsInv, RolesWhole
    <2>2. Of(u) \subseteq DOMAIN requests
      BY <1>1 DEF Of
    <2>3. \A r \in Of(u)' : HasRoles(r.todo) => requests'[r] = 1
      <3>1. CASE HasRoles(s.todo)
        <4>1. s \notin Of(u)
          BY <3>1
        <4>2. s \notin DOMAIN requests
          BY <1>1, <4>1 DEF Of
        <4>3. QED
          BY <1>4, <2>1, <2>2, <4>2 DEF Joins
      <3>2. CASE ~HasRoles(s.todo)
        BY <1>4, <2>1, <2>2, <3>2 DEF Joins
      <3>3. QED
        BY <3>1, <3>2
    <2>4. QED
      BY <1>4, <2>1, <2>3 DEF HasAccount
  <1>7. QED
    BY <1>2, <1>3, <1>5, <1>6 DEF AccountsInv

LEMMA ButtonFacts ==
    ASSUME AccountsInv, NEW m \in Manager, desk[m].of # Nothing
    PROVE  /\ desk[m] \in Desk /\ desk[m].of \in Account /\ desk[m].copy \in Copy
           /\ desk[m].copy.status \in Status /\ desk[m].copy.staff \in BOOLEAN
           /\ desk[m].level \in Level /\ record[desk[m].of] \in Record
           /\ \A v \in BOOLEAN : [desk[m] EXCEPT !.saving = v] \in Desk
           /\ \A v \in BOOLEAN : [desk[m] EXCEPT !.saving = v].copy = desk[m].copy
           /\ DefaultRole \in Role
  BY AccountsAssumption DEF AccountsInv, AccountsTyped, Desk, Copy

LEMMA SavingStep ==
    ASSUME AccountsInv, NEW m \in Manager, desk[m].of # Nothing,
           desk' = [desk EXCEPT ![m].saving = TRUE]
    PROVE  /\ desk' \in [Manager -> Desk]
           /\ \A n \in Manager : desk'[n].of # Nothing => desk'[n].copy \in Copy
  <1>1. desk' = [desk EXCEPT ![m] = [desk[m] EXCEPT !.saving = TRUE]]
    BY DEF AccountsInv, AccountsTyped
  <1>2. QED
    BY <1>1, ButtonFacts, DeskMoves

LEMMA SaveTodoFacts ==
    ASSUME NEW level \in Level
    PROVE  LET todo == SaveTodo(level) IN
           /\ todo \in Lists /\ (todo # <<>> => Head(todo) # "grant")
           /\ (Has(todo, "status") <=> level = "system")
           /\ (HasRoles(todo) <=> level # "leader")
  <1> DEFINE todo == SaveTodo(level)
  <1>1. CASE level = "system"
    <2>1. todo = <<"dropRoles", "grant", "status">>
      BY <1>1 DEF SaveTodo
    <2>2. Head(todo) = "dropRoles" /\ \A x : Has(todo, x) <=> x \in {"dropRoles", "grant", "status"}
      BY <2>1 DEF Has
    <2>3. todo \in Lists
      BY <2>1 DEF Lists
    <2>4. QED
      BY <1>1, <2>2, <2>3 DEF HasRoles
  <1>2. CASE level = "event"
    <2>1. todo = <<"dropRoles", "grant">>
      BY <1>2 DEF SaveTodo
    <2>2. Head(todo) = "dropRoles" /\ \A x : Has(todo, x) <=> x \in {"dropRoles", "grant"}
      BY <2>1 DEF Has
    <2>3. todo \in Lists
      BY <2>1 DEF Lists
    <2>4. QED
      BY <1>2, <2>2, <2>3 DEF HasRoles
  <1>3. CASE level = "leader"
    <2>1. todo = <<>>
      BY <1>3 DEF SaveTodo
    <2>2. todo \in Lists
      BY <2>1 DEF Lists
    <2>3. QED
      BY <1>3, <2>1, <2>2 DEF HasRoles, Has
  <1>4. QED
    BY <1>1, <1>2, <1>3 DEF Level

LEMMA SaveUserStep ==
    ASSUME AccountsInv, NEW m \in Manager, NEW role \in Role, SaveUser(m, role)
    PROVE  AccountsInv'
  <1> DEFINE u == desk[m].of
  <1> DEFINE todo == SaveTodo(desk[m].level)
  <1> DEFINE h == [record[u] EXCEPT
                      !.had = record[u].had \/ desk[m].level # "leader",
                      !.muddled = record[u].muddled \/ (desk[m].level = "system"
                                     /\ desk[m].copy.status # record[u].last),
                      !.torn = record[u].torn \/ (desk[m].level # "leader"
                                     /\ \E r \in Pending : r.of = u /\ CarriesRoles(r))]
  <1>1. /\ u # Nothing /\ Press(m, "save", todo, desk[m].copy.status, role)
        /\ desk' = [desk EXCEPT ![m].saving = TRUE]
        /\ record' = [record EXCEPT ![u] = h]
    BY DEF SaveUser
  <1>2. /\ todo \in Lists /\ (todo # <<>> => Head(todo) # "grant")
        /\ (Has(todo, "status") <=> desk[m].level = "system")
        /\ (HasRoles(todo) <=> desk[m].level # "leader")
    BY <1>1, ButtonFacts, SaveTodoFacts
  <1>3. /\ h \in Record /\ h.last = record[u].last
        /\ h.had = (record[u].had \/ desk[m].level # "leader")
        /\ h.muddled = (record[u].muddled \/ (desk[m].level = "system"
                            /\ desk[m].copy.status # record[u].last))
        /\ h.torn = (record[u].torn \/ (desk[m].level # "leader"
                            /\ \E r \in Pending : r.of = u /\ CarriesRoles(r)))
    BY <1>1, ButtonFacts DEF Record
  <1> HIDE DEF h, todo
  <1>4. /\ record' \in [Account -> Record] /\ record'[u] = h
        /\ \A x \in Account : x # u => record'[x] = record[x]
    BY <1>1, <1>3, ButtonFacts DEF AccountsInv, AccountsTyped
  <1>5. h.had => record[u].had \/ HasRoles(todo)
    BY <1>2, <1>3
  <1>6. ~h.torn => ~record[u].torn /\ (HasRoles(todo) => \A r \in Of(u) : ~HasRoles(r.todo))
    BY <1>2, <1>3, CarriesFacts DEF Of
  <1>7. ~h.muddled => ~record[u].muddled /\ h.last = record[u].last
              /\ (Has(todo, "status") => desk[m].copy.status = record[u].last)
    BY <1>2, <1>3
  <1>8. "save" \in Kind
    BY DEF Kind
  <1>9. desk[m].copy.status \in Status
    BY <1>1, ButtonFacts
  <1>10. /\ desk' \in [Manager -> Desk]
         /\ \A n \in Manager : desk'[n].of # Nothing => desk'[n].copy \in Copy
    BY <1>1, SavingStep
  <1>11. PICK s \in Request :
           s.of = u /\ s.todo = todo /\ s.status = desk[m].copy.status /\ Joins(s)
    BY <1>1, <1>2, <1>8, <1>9, PressFacts
  <1>12. presses' \in 0..MaxPresses /\ accounts' = accounts
    BY <1>1, <1>2, <1>8, <1>9, PressFacts
  <1>13. u \in Account
    BY <1>1, ButtonFacts
  <1> HIDE DEF u
  <1>14. QED
    BY <1>2, <1>4, <1>5, <1>6, <1>7, <1>10, <1>11, <1>12, <1>13, PressKeeps

LEMMA NextStatusFacts == \A status \in Status : NextStatus(status) \in Status
  BY DEF NextStatus, Status

LEMMA StatusChangeStep ==
    ASSUME AccountsInv, NEW m \in Manager, StatusChange(m)
    PROVE  AccountsInv'
  <1> DEFINE u == desk[m].of
  <1> DEFINE next == NextStatus(desk[m].copy.status)
  <1> DEFINE todo == <<"status">>
  <1> DEFINE h == [record[u] EXCEPT !.last = next,
                      !.muddled = \E r \in Pending : r.of = u /\ Carries(r, "status")]
  <1>1. /\ u # Nothing /\ Press(m, "status", todo, next, DefaultRole)
        /\ desk' = [desk EXCEPT ![m].saving = TRUE]
        /\ record' = [record EXCEPT ![u] = h]
    BY DEF StatusChange
  <1>2. todo \in Lists /\ Head(todo) = "status" /\ Has(todo, "status") /\ ~HasRoles(todo)
    <2>1. Head(todo) = "status" /\ \A x : Has(todo, x) <=> x = "status"
      BY DEF Has
    <2>2. QED
      BY <2>1 DEF Lists, HasRoles
  <1>3. next \in Status /\ "status" \in Kind /\ u \in Account /\ DefaultRole \in Role
    BY <1>1, ButtonFacts, NextStatusFacts DEF Kind
  <1>4. /\ h \in Record /\ h.last = next /\ h.had = record[u].had /\ h.torn = record[u].torn
        /\ h.muddled = \E r \in Pending : r.of = u /\ Carries(r, "status")
    <2>1. record[u] \in Record /\ (\E r \in Pending : r.of = u /\ Carries(r, "status")) \in BOOLEAN
      BY <1>1, ButtonFacts
    <2>2. QED
      BY <1>3, <2>1 DEF Record
  <1> HIDE DEF h, todo, next
  <1>5. /\ record' \in [Account -> Record] /\ record'[u] = h
        /\ \A x \in Account : x # u => record'[x] = record[x]
    BY <1>1, <1>3, <1>4 DEF AccountsInv, AccountsTyped
  <1>6. ~h.muddled => \A r \in Of(u) : ~Has(r.todo, "status")
    BY <1>4, CarriesFacts DEF Of
  <1>7. /\ desk' \in [Manager -> Desk]
        /\ \A n \in Manager : desk'[n].of # Nothing => desk'[n].copy \in Copy
    BY <1>1, SavingStep
  <1>8. PICK s \in Request : s.of = u /\ s.todo = todo /\ s.status = next /\ Joins(s)
    BY <1>1, <1>2, <1>3, PressFacts
  <1>9. presses' \in 0..MaxPresses /\ accounts' = accounts
    BY <1>1, <1>2, <1>3, PressFacts
  <1>10. ~h.torn => ~record[u].torn /\ (HasRoles(s.todo) => \A r \in Of(u) : ~HasRoles(r.todo))
    BY <1>2, <1>4, <1>8
  <1>11. s.todo # <<>> => Head(s.todo) # "grant"
    BY <1>2, <1>8
  <1> HIDE DEF u
  <1>12. QED
    BY <1>2, <1>3, <1>4, <1>5, <1>6, <1>7, <1>8, <1>9, <1>10, <1>11, PressKeeps

LEMMA ToggleStationStep ==
    ASSUME AccountsInv, NEW m \in Manager, ToggleStation(m)
    PROVE  AccountsInv'
  <1> DEFINE u == desk[m].of
  <1> DEFINE todo == IF desk[m].copy.staff THEN <<"unassign">> ELSE <<"unassign", "assign">>
  <1>1. /\ u # Nothing /\ Press(m, "station", todo, desk[m].copy.status, DefaultRole)
        /\ desk' = [desk EXCEPT ![m].saving = TRUE] /\ record' = record
    BY DEF ToggleStation
  <1>2. todo \in Lists /\ Head(todo) = "unassign" /\ ~Has(todo, "status") /\ ~HasRoles(todo)
    <2>1. CASE todo = <<"unassign">>
      <3>1. Head(todo) = "unassign" /\ \A x : Has(todo, x) <=> x = "unassign"
        BY <2>1 DEF Has
      <3>2. QED
        BY <2>1, <3>1 DEF Lists, HasRoles
    <2>2. CASE todo = <<"unassign", "assign">>
      <3>1. Head(todo) = "unassign" /\ \A x : Has(todo, x) <=> x \in {"unassign", "assign"}
        BY <2>2 DEF Has
      <3>2. QED
        BY <2>2, <3>1 DEF Lists, HasRoles
    <2>3. QED
      BY <2>1, <2>2
  <1>3. "station" \in Kind /\ u \in Account /\ DefaultRole \in Role /\ desk[m].copy.status \in Status
    BY <1>1, ButtonFacts DEF Kind
  <1> HIDE DEF todo
  <1>4. record' \in [Account -> Record]
    BY <1>1 DEF AccountsInv, AccountsTyped
  <1>5. /\ desk' \in [Manager -> Desk]
        /\ \A n \in Manager : desk'[n].of # Nothing => desk'[n].copy \in Copy
    BY <1>1, SavingStep
  <1>6. PICK s \in Request : s.of = u /\ s.todo = todo /\ Joins(s)
    BY <1>1, <1>2, <1>3, PressFacts
  <1>7. presses' \in 0..MaxPresses /\ accounts' = accounts
    BY <1>1, <1>2, <1>3, PressFacts
  <1> HIDE DEF u
  <1>8. QED
    BY <1>1, <1>2, <1>3, <1>4, <1>5, <1>6, <1>7, PressKeeps

LEMMA DeleteUserStep ==
    ASSUME AccountsInv, NEW m \in Manager, DeleteUser(m)
    PROVE  AccountsInv'
  <1> DEFINE u == desk[m].of
  <1> DEFINE todo == <<"dropRoles", "dropStaff", "delete">>
  <1> DEFINE h == [record[u] EXCEPT
                      !.torn = record[u].torn \/ \E r \in Pending : r.of = u /\ CarriesRoles(r)]
  <1>1. /\ u # Nothing /\ Press(m, "delete", todo, desk[m].copy.status, DefaultRole)
        /\ desk' = desk
    BY DEF DeleteUser
  <1>2. todo \in Lists /\ Head(todo) = "dropRoles" /\ ~Has(todo, "status") /\ HasRoles(todo)
    <2>1. Head(todo) = "dropRoles" /\ \A x : Has(todo, x) <=> x \in {"dropRoles", "dropStaff", "delete"}
      BY DEF Has
    <2>2. QED
      BY <2>1 DEF Lists, HasRoles
  <1>3. "delete" \in Kind /\ u \in Account /\ DefaultRole \in Role /\ desk[m].copy.status \in Status
    BY <1>1, ButtonFacts DEF Kind
  <1>4. record[u] \in Record /\ record' = [record EXCEPT ![u] = h]
    BY <1>1, <1>3, ButtonFacts DEF DeleteUser, AccountsInv, AccountsTyped
  <1>5. /\ h \in Record /\ h.last = record[u].last /\ h.had = record[u].had
        /\ h.muddled = record[u].muddled
        /\ h.torn = (record[u].torn \/ \E r \in Pending : r.of = u /\ CarriesRoles(r))
    BY <1>4 DEF Record
  <1> HIDE DEF h, todo
  <1>6. /\ record' \in [Account -> Record] /\ record'[u] = h
        /\ \A x \in Account : x # u => record'[x] = record[x]
    BY <1>3, <1>4, <1>5 DEF AccountsInv, AccountsTyped
  <1>7. ~h.torn => ~record[u].torn /\ \A r \in Of(u) : ~HasRoles(r.todo)
    BY <1>5, CarriesFacts DEF Of
  <1>8. /\ desk' \in [Manager -> Desk]
        /\ \A n \in Manager : desk'[n].of # Nothing => desk'[n].copy \in Copy
    BY <1>1 DEF AccountsInv, AccountsTyped
  <1>9. PICK s \in Request : s.of = u /\ s.todo = todo /\ Joins(s)
    BY <1>1, <1>2, <1>3, PressFacts
  <1>10. presses' \in 0..MaxPresses /\ accounts' = accounts
    BY <1>1, <1>2, <1>3, PressFacts
  <1> HIDE DEF u
  <1>11. QED
    BY <1>2, <1>3, <1>5, <1>6, <1>7, <1>8, <1>9, <1>10, PressKeeps

-----------------------------------------------------------------------------
(* The handlers and the answers.                                           *)

\* The request r goes on as s, and it leaves.
GoesOnAs(r, s) ==
    /\ IsABag(requests') /\ DOMAIN requests' \subseteq DOMAIN requests \cup {s}
    /\ s \in DOMAIN requests' /\ DOMAIN requests \ {r} \subseteq DOMAIN requests'
    /\ \A x \in DOMAIN requests \ {r, s} : requests'[x] = requests[x]
    /\ requests[r] = 1 => r \notin DOMAIN requests'
    /\ s \notin DOMAIN requests => requests'[s] = 1

Leaves(r) ==
    /\ IsABag(requests') /\ DOMAIN requests' \subseteq DOMAIN requests
    /\ DOMAIN requests \ {r} \subseteq DOMAIN requests'
    /\ \A x \in DOMAIN requests \ {r} : requests'[x] = requests[x]
    /\ requests[r] = 1 => r \notin DOMAIN requests'

LEMMA LeavesFacts == ASSUME AccountsInv, NEW r \in Pending, Ends(r) PROVE Leaves(r)
  BY RequestFacts, BagEnds DEF Ends, Leaves

LEMMA GoesOnAsFacts ==
    ASSUME AccountsInv, NEW r \in Pending, NEW s, s # r, Proceeds(r, s)
    PROVE  GoesOnAs(r, s)
  <1> DEFINE C == (requests (-) SetToBag({r})) (+) SetToBag({s})
  <1>1. IsABag(requests) /\ r \in DOMAIN requests
    BY RequestFacts
  <1>2. /\ IsABag(C) /\ DOMAIN C \subseteq DOMAIN requests \cup {s} /\ s \in DOMAIN C
        /\ DOMAIN requests \ {r} \subseteq DOMAIN C
        /\ \A x \in DOMAIN requests \ {r, s} : C[x] = requests[x]
        /\ requests[r] = 1 => r \notin DOMAIN C
        /\ s \notin DOMAIN requests => C[s] = 1
    BY <1>1, BagGoesOn
  <1>3. requests' = C
    BY DEF Proceeds
  <1> HIDE DEF C
  <1>4. QED
    BY <1>2, <1>3 DEF GoesOnAs

LEMMA EndKeeps ==
    ASSUME AccountsInv, NEW r \in Pending, Leaves(r), NEW u, u = r.of,
           accounts' = accounts, presses' = presses,
           desk' \in [Manager -> Desk],
           \A n \in Manager : desk'[n].of # Nothing => desk'[n].copy \in Copy,
           record' \in [Account -> Record],
           \A x \in Account : x # u => record'[x] = record[x],
           record'[u].had => record[u].had,
           ~record'[u].torn => ~record[u].torn /\ ~HasRoles(r.todo),
           ~record'[u].muddled => /\ ~record[u].muddled /\ ~Has(r.todo, "status")
                                  /\ record'[u].last = record[u].last
    PROVE  AccountsInv'
  <1>1. Pending = DOMAIN requests /\ Pending' = DOMAIN requests'
    BY DEF Pending, BagToSet
  <1>2. u \in Account
    BY RequestFacts
  <1>3. AccountsTyped'
    BY <1>1 DEF AccountsInv, AccountsTyped, Leaves
  <1>4. ASSUME NEW x \in Account, x # u PROVE (StatusComes(x) /\ RolesWhole(x))'
    <2>1. Of(x)' = Of(x) /\ \A q \in Of(x) : requests'[q] = requests[q]
      BY <1>1, <1>4 DEF Of, Leaves
    <2>2. QED
      BY <1>4, <2>1 DEF AccountsInv, StatusComes, RolesWhole, HasAccount
  <1>5. /\ Of(u)' \subseteq Of(u) /\ Of(u) \ {r} \subseteq Of(u)'
        /\ \A q \in Of(u) \ {r} : requests'[q] = requests[q]
    BY <1>1 DEF Of, Leaves
  <1>6. StatusComes(u)'
    BY <1>2, <1>5 DEF AccountsInv, StatusComes, HasAccount
  <1>7. RolesWhole(u)'
    BY <1>2, <1>5 DEF AccountsInv, RolesWhole, HasAccount
  <1>8. QED
    BY <1>3, <1>4, <1>6, <1>7 DEF AccountsInv

LEMMA RequestEndsEarlyStep ==
    ASSUME AccountsInv, NEW r \in Pending, RequestEndsEarly(r)
    PROVE  AccountsInv'
  <1> DEFINE u == r.of
  <1> DEFINE h == [record[u] EXCEPT !.muddled = record[u].muddled \/ Carries(r, "status"),
                                    !.torn = record[u].torn \/ CarriesRoles(r)]
  <1>1. /\ Ends(r) /\ desk' = [desk EXCEPT ![r.by].saving = @ /\ r.kind = "delete"]
        /\ record' = [record EXCEPT ![u] = h] /\ UNCHANGED <<accounts, presses>>
    BY DEF RequestEndsEarly
  <1>2. u \in Account /\ r.by \in Manager /\ record[u] \in Record
    BY RequestFacts DEF AccountsInv, AccountsTyped
  <1>3. /\ h \in Record /\ h.last = record[u].last /\ h.had = record[u].had
        /\ h.muddled = (record[u].muddled \/ Carries(r, "status"))
        /\ h.torn = (record[u].torn \/ CarriesRoles(r))
    BY <1>2 DEF Record, Carries, CarriesRoles
  <1> HIDE DEF h
  <1>4. /\ record' \in [Account -> Record] /\ record'[u] = h
        /\ \A x \in Account : x # u => record'[x] = record[x]
    BY <1>1, <1>2, <1>3 DEF AccountsInv, AccountsTyped
  <1>5. /\ desk' \in [Manager -> Desk]
        /\ \A n \in Manager : desk'[n].of # Nothing => desk'[n].copy \in Copy
    <2> DEFINE d == [desk[r.by] EXCEPT !.saving = desk[r.by].saving /\ r.kind = "delete"]
    <2>1. desk' = [desk EXCEPT ![r.by] = d]
      BY <1>1, <1>2 DEF AccountsInv, AccountsTyped
    <2>2. desk[r.by] \in Desk /\ (desk[r.by].of # Nothing => desk[r.by].copy \in Copy)
      BY <1>2 DEF AccountsInv, AccountsTyped
    <2>3. d \in Desk /\ (d.of # Nothing => d.copy \in Copy)
      BY <2>2 DEF Desk
    <2> HIDE DEF d
    <2>4. QED
      BY <1>2, <2>1, <2>3, DeskMoves
  <1>6. (~h.torn => ~HasRoles(r.todo)) /\ (~h.muddled => ~Has(r.todo, "status"))
    BY <1>3, CarriesFacts
  <1>7. Leaves(r)
    BY <1>1, LeavesFacts
  <1> HIDE DEF u
  <1>8. QED
    BY <1>1, <1>3, <1>4, <1>5, <1>6, <1>7, EndKeeps DEF u

\* Whatever a page does with an answer, it keeps its types.
LEMMA AnswerFacts ==
    ASSUME AccountsInv, NEW r \in Pending, NEW d \in Desk, d.of # Nothing => d.copy \in Copy,
           NEW c \in Copy
    PROVE  /\ UserSaved(d, r, c) \in Desk /\ UserSaved(d, r, c).copy \in Copy
           /\ StatusAnswered(d, r, c) \in Desk
           /\ StatusAnswered(d, r, c).of # Nothing => StatusAnswered(d, r, c).copy \in Copy
           /\ StationAnswered(d, r, c) \in Desk
           /\ StationAnswered(d, r, c).of # Nothing => StationAnswered(d, r, c).copy \in Copy
  <1>1. r.of \in Account /\ r.status \in Status
    BY RequestFacts
  <1>2. /\ d.list \in [Account -> Copy \cup {Nothing}] /\ d.copy \in Copy \cup {Nothing}
        /\ d.of \in Account \cup {Nothing}
    BY DEF Desk
  <1>3. UserSaved(d, r, c) \in Desk /\ UserSaved(d, r, c).copy \in Copy
    BY <1>1, <1>2 DEF UserSaved, Desk
  <1>4. \A x \in Copy : [x EXCEPT !.status = r.status] \in Copy
    BY <1>1 DEF Copy
  <1>5. StatusAnswered(d, r, c) \in Desk
        /\ (StatusAnswered(d, r, c).of # Nothing => StatusAnswered(d, r, c).copy \in Copy)
    BY <1>1, <1>2, <1>4 DEF StatusAnswered, Desk
  <1>6. StationAnswered(d, r, c) \in Desk
        /\ (StationAnswered(d, r, c).of # Nothing => StationAnswered(d, r, c).copy \in Copy)
    BY <1>1, <1>2, <1>3 DEF StationAnswered, Desk
  <1>7. QED
    BY <1>3, <1>5, <1>6

LEMMA RequestAnsweredStep ==
    ASSUME AccountsInv, NEW r \in Pending, RequestAnswered(r)
    PROVE  AccountsInv'
  <1>1. /\ r.todo = <<>> /\ Ends(r) /\ UNCHANGED <<accounts, presses, record>>
        /\ r.kind = "delete" \/ HasAccount(r.of)
    BY DEF RequestAnswered
  <1>2. r.of \in Account /\ r.by \in Manager /\ r.kind \in Kind
    BY RequestFacts
  <1>3. PICK c \in CopiesOf(r.of) :
          desk' = [desk EXCEPT ![r.by] =
                     CASE r.kind = "save"    -> UserSaved(desk[r.by], r, c)
                       [] r.kind = "status"  -> StatusAnswered(desk[r.by], r, c)
                       [] r.kind = "station" -> StationAnswered(desk[r.by], r, c)
                       [] r.kind = "delete"  -> UserDeleted(desk[r.by], r)]
    BY DEF RequestAnswered
  <1> DEFINE d == desk[r.by]
  <1>4. d \in Desk /\ (d.of # Nothing => d.copy \in Copy)
    BY <1>2 DEF AccountsInv, AccountsTyped
  <1>5. PICK e \in Desk : desk' = [desk EXCEPT ![r.by] = e] /\ (e.of # Nothing => e.copy \in Copy)
    <2>1. CASE r.kind = "delete"
      <3>1. desk' = [desk EXCEPT ![r.by] = UserDeleted(d, r)]
        BY <1>3, <2>1
      <3>2. UserDeleted(d, r) \in Desk /\ UserDeleted(d, r).of = Nothing
        BY <1>2, <1>4 DEF UserDeleted, Desk
      <3>3. QED
        BY <3>1, <3>2
    <2>2. CASE r.kind # "delete"
      <3>1. c \in Copy
        BY <1>1, <1>2, <2>2, CopiesFacts
      <3> HIDE DEF d
      <3>2. /\ UserSaved(d, r, c) \in Desk /\ UserSaved(d, r, c).copy \in Copy
            /\ StatusAnswered(d, r, c) \in Desk
            /\ StatusAnswered(d, r, c).of # Nothing => StatusAnswered(d, r, c).copy \in Copy
            /\ StationAnswered(d, r, c) \in Desk
            /\ StationAnswered(d, r, c).of # Nothing => StationAnswered(d, r, c).copy \in Copy
        BY <1>4, <3>1, AnswerFacts
      <3>3. \/ desk' = [desk EXCEPT ![r.by] = UserSaved(d, r, c)]
            \/ desk' = [desk EXCEPT ![r.by] = StatusAnswered(d, r, c)]
            \/ desk' = [desk EXCEPT ![r.by] = StationAnswered(d, r, c)]
        BY <1>2, <1>3, <2>2 DEF Kind, d
      <3>4. QED
        BY <3>2, <3>3
    <2>3. QED
      BY <2>1, <2>2
  <1>6. /\ desk' \in [Manager -> Desk]
        /\ \A n \in Manager : desk'[n].of # Nothing => desk'[n].copy \in Copy
    BY <1>2, <1>5, DeskMoves
  <1>7. ~HasRoles(r.todo) /\ ~Has(r.todo, "status")
    BY <1>1 DEF HasRoles, Has
  <1>8. Leaves(r) /\ record' \in [Account -> Record]
    BY <1>1, LeavesFacts DEF AccountsInv, AccountsTyped
  <1> DEFINE u == r.of
  <1> HIDE DEF u
  <1>9. QED
    BY <1>1, <1>6, <1>7, <1>8, EndKeeps DEF u

\* What a statement does to the account.
LEMMA AccountAfterFacts ==
    ASSUME AccountsInv, NEW r \in Pending, r.todo # <<>>, ~StatementRefused(r)
    PROVE  LET u == r.of
               a == AccountAfter(r.of, r)
           IN  /\ HasAccount(u) /\ a \in AccountRow \cup {Nothing}
               /\ Head(r.todo) = "delete" => a = Nothing
               /\ Head(r.todo) = "status" => a.status = r.status
               /\ Head(r.todo) \notin {"status", "delete"} => a.status = accounts[u].status
               /\ Head(r.todo) = "dropRoles" => a.roles = {}
               /\ Head(r.todo) = "grant" => a.roles = accounts[u].roles \cup {r.role}
               /\ Head(r.todo) \notin {"dropRoles", "grant", "delete"} =>
                     a.roles = accounts[u].roles
  <1> DEFINE u == r.of
  <1> DEFINE a == AccountAfter(r.of, r)
  <1>1. u \in Account /\ r.status \in Status /\ r.role \in Role /\ r.todo \in Lists
    BY RequestFacts
  <1>2. HasAccount(u)
    BY DEF StatementRefused
  <1>3. accounts[u] \in AccountRow
    BY <1>1, <1>2 DEF HasAccount, AccountsInv, AccountsTyped
  <1>4. Head(r.todo) \in {"dropRoles", "grant", "status", "unassign", "assign", "dropStaff",
                          "delete"}
    BY <1>1, ListFacts
  <1> DEFINE x == accounts[u]
  <1>5. CASE Head(r.todo) = "dropRoles"
    <2>1. a = [x EXCEPT !.roles = {}]
      BY <1>5 DEF AccountAfter
    <2>2. a \in AccountRow /\ a.status = x.status /\ a.roles = {}
      BY <1>3, <2>1 DEF AccountRow
    <2>3. QED
      BY <1>2, <1>5, <2>2
  <1>6. CASE Head(r.todo) = "grant"
    <2>1. a = [x EXCEPT !.roles = x.roles \cup {r.role}]
      BY <1>6 DEF AccountAfter
    <2>2. a \in AccountRow /\ a.status = x.status /\ a.roles = x.roles \cup {r.role}
      BY <1>1, <1>3, <2>1 DEF AccountRow
    <2>3. QED
      BY <1>2, <1>6, <2>2
  <1>7. CASE Head(r.todo) = "status"
    <2>1. a = [x EXCEPT !.status = r.status]
      BY <1>7 DEF AccountAfter
    <2>2. a \in AccountRow /\ a.status = r.status /\ a.roles = x.roles
      BY <1>1, <1>3, <2>1 DEF AccountRow
    <2>3. QED
      BY <1>2, <1>7, <2>2
  <1>8. CASE Head(r.todo) \in {"unassign", "assign", "dropStaff"}
    <2>1. PICK v \in BOOLEAN : a = [x EXCEPT !.staff = v]
      BY <1>8 DEF AccountAfter
    <2>2. a \in AccountRow /\ a.status = x.status /\ a.roles = x.roles
      BY <1>3, <2>1 DEF AccountRow
    <2>3. QED
      BY <1>2, <1>8, <2>2
  <1>9. CASE Head(r.todo) = "delete"
    BY <1>2, <1>9 DEF AccountAfter
  <1>10. QED
    BY <1>4, <1>5, <1>6, <1>7, <1>8, <1>9

LEMMA ExecuteStatementStep ==
    ASSUME AccountsInv, NEW r \in Pending, ExecuteStatement(r)
    PROVE  AccountsInv'
  <1> DEFINE u == r.of
  <1> DEFINE s == [r EXCEPT !.todo = Tail(r.todo)]
  <1> DEFINE a == AccountAfter(r.of, r)
  <1>1. /\ r.todo # <<>> /\ ~StatementRefused(r) /\ accounts' = [accounts EXCEPT ![u] = a]
        /\ Proceeds(r, s) /\ UNCHANGED <<desk, presses, record>>
    BY DEF ExecuteStatement
  <1>2. u \in Account /\ r \in Request /\ r.todo \in Lists /\ r.role \in Role
    BY RequestFacts
  <1>3. /\ Tail(r.todo) \in Lists /\ Tail(r.todo) # r.todo
        /\ Head(r.todo) \in {"dropRoles", "grant", "status", "unassign", "assign",
                             "dropStaff", "delete"}
        /\ Has(r.todo, "status") => Head(r.todo) = "status" \/ Has(Tail(r.todo), "status")
        /\ Has(Tail(r.todo), "status") => Has(r.todo, "status")
        /\ Head(r.todo) = "status" => Has(r.todo, "status")
        /\ HasRoles(Tail(r.todo)) => HasRoles(r.todo)
        /\ HasRoles(r.todo) => HasRoles(Tail(r.todo)) \/ Head(r.todo) \in {"grant", "delete"}
        /\ Head(r.todo) \in {"dropRoles", "grant", "delete"} => HasRoles(r.todo)
        /\ Tail(r.todo) # <<>> /\ Head(Tail(r.todo)) = "grant" => Head(r.todo) = "dropRoles"
    BY <1>1, <1>2, ListFacts
  <1>4. /\ s \in Request /\ s.of = u /\ s.todo = Tail(r.todo) /\ s.status = r.status
        /\ s # r
    BY <1>2, <1>3 DEF Request
  <1> HIDE DEF s
  <1>5. GoesOnAs(r, s)
    BY <1>1, <1>4, GoesOnAsFacts
  <1>6. /\ HasAccount(u) /\ a \in AccountRow \cup {Nothing}
        /\ Head(r.todo) = "delete" => a = Nothing
        /\ Head(r.todo) = "status" => a.status = r.status
        /\ Head(r.todo) \notin {"status", "delete"} => a.status = accounts[u].status
        /\ Head(r.todo) = "dropRoles" => a.roles = {}
        /\ Head(r.todo) = "grant" => a.roles = accounts[u].roles \cup {r.role}
        /\ Head(r.todo) \notin {"dropRoles", "grant", "delete"} => a.roles = accounts[u].roles
    BY <1>1, AccountAfterFacts
  <1> HIDE DEF a
  <1>7. Pending = DOMAIN requests /\ Pending' = DOMAIN requests'
    BY DEF Pending, BagToSet
  <1>8. /\ accounts' \in [Account -> AccountRow \cup {Nothing}] /\ accounts'[u] = a
        /\ \A x \in Account : x # u => accounts'[x] = accounts[x]
    BY <1>1, <1>2, <1>6 DEF AccountsInv, AccountsTyped
  <1>9. AccountsTyped'
    BY <1>1, <1>4, <1>5, <1>7, <1>8 DEF AccountsInv, AccountsTyped, GoesOnAs
  <1>10. ASSUME NEW x \in Account, x # u PROVE (StatusComes(x) /\ RolesWhole(x))'
    <2>1. Of(x)' = Of(x) /\ \A q \in Of(x) : requests'[q] = requests[q]
      BY <1>4, <1>5, <1>7, <1>10 DEF Of, GoesOnAs
    <2>2. QED
      BY <1>1, <1>8, <1>10, <2>1 DEF AccountsInv, StatusComes, RolesWhole, HasAccount
  <1> HIDE DEF u
  <1>11. /\ Of(u)' \subseteq Of(u) \cup {s} /\ Of(u) \ {r} \subseteq Of(u)'
         /\ r \in Of(u) /\ s \in Of(u)' /\ Of(u) \subseteq DOMAIN requests
         /\ \A q \in Of(u) \ {r, s} : requests'[q] = requests[q]
         /\ requests[r] = 1 => r \notin Of(u)'
         /\ s \notin Of(u) => requests'[s] = 1
    BY <1>4, <1>5, <1>7 DEF Of, GoesOnAs, u
  <1>12. StatusComes(u)'
    <2> SUFFICES ASSUME ~record[u].muddled
                 PROVE  /\ \A q \in Of(u)' : Has(q.todo, "status") => q.status = record[u].last
                        /\ a # Nothing => \/ a.status = record[u].last
                                          \/ \E q \in Of(u)' : Has(q.todo, "status")
      BY <1>1, <1>8 DEF StatusComes, HasAccount
    <2>1. /\ \A q \in Of(u) : Has(q.todo, "status") => q.status = record[u].last
          /\ \/ accounts[u].status = record[u].last
             \/ \E q \in Of(u) : Has(q.todo, "status")
      BY <1>2, <1>6 DEF AccountsInv, StatusComes
    <2>2. \A q \in Of(u)' : Has(q.todo, "status") => q.status = record[u].last
      BY <1>3, <1>4, <1>11, <2>1
    <2>3. CASE Head(r.todo) = "status"
      BY <1>3, <1>6, <1>11, <2>1, <2>2, <2>3
    <2>4. CASE Head(r.todo) = "delete"
      BY <1>6, <2>2, <2>4
    <2>5. CASE Head(r.todo) \notin {"status", "delete"}
      BY <1>3, <1>4, <1>6, <1>11, <2>1, <2>2, <2>5
    <2>6. QED
      BY <2>3, <2>4, <2>5
  <1>13. RolesWhole(u)'
    <2> SUFFICES ASSUME ~record[u].torn
                 PROVE  /\ \A p, q \in Of(u)' : HasRoles(p.todo) /\ HasRoles(q.todo) => p = q
                        /\ \A q \in Of(u)' : HasRoles(q.todo) => requests'[q] = 1
                        /\ a # Nothing => \A q \in Of(u)' :
                              q.todo # <<>> /\ Head(q.todo) = "grant" => a.roles = {}
                        /\ a # Nothing /\ record[u].had =>
                              \/ \E q \in Of(u)' : HasRoles(q.todo)
                              \/ \E role \in Role : a.roles = {role}
      BY <1>1, <1>8 DEF RolesWhole, HasAccount
    <2>1. /\ \A p, q \in Of(u) : HasRoles(p.todo) /\ HasRoles(q.todo) => p = q
          /\ \A q \in Of(u) : HasRoles(q.todo) => requests[q] = 1
          /\ \A q \in Of(u) : q.todo # <<>> /\ Head(q.todo) = "grant" => accounts[u].roles = {}
          /\ record[u].had => \/ \E q \in Of(u) : HasRoles(q.todo)
                              \/ \E role \in Role : accounts[u].roles = {role}
      BY <1>2, <1>6 DEF AccountsInv, RolesWhole
    <2>2. HasRoles(r.todo) => r \notin Of(u)' /\ \A q \in Of(u) : HasRoles(q.todo) => q = r
      BY <1>11, <2>1
    <2>3. \A p, q \in Of(u)' : HasRoles(p.todo) /\ HasRoles(q.todo) => p = q
      BY <1>3, <1>4, <1>11, <2>1, <2>2
    <2>4. \A q \in Of(u)' : HasRoles(q.todo) => requests'[q] = 1
      BY <1>3, <1>4, <1>11, <2>1, <2>2
    <2>5. ASSUME a # Nothing, NEW q \in Of(u)', q.todo # <<>>, Head(q.todo) = "grant"
          PROVE  a.roles = {}
      <3>1. CASE q = s
        BY <1>3, <1>4, <1>6, <2>5, <3>1
      <3>2. CASE q # s
        <4>1. q \in Of(u) /\ accounts[u].roles = {}
          BY <1>11, <2>1, <2>5, <3>2
        <4>2. HasRoles(q.todo)
          <5>1. q \in Pending
            BY <4>1 DEF Of
          <5>2. QED
            BY <2>5, <5>1, RequestFacts, ListFacts
        <4>3. Head(r.todo) # "grant" \/ ~HasRoles(r.todo)
          BY <2>2, <2>5, <4>1, <4>2
        <4>4. QED
          BY <1>3, <1>6, <2>5, <4>1, <4>3
      <3>3. QED
        BY <3>1, <3>2
    <2>6. ASSUME a # Nothing, record[u].had
          PROVE  \/ \E q \in Of(u)' : HasRoles(q.todo)
                 \/ \E role \in Role : a.roles = {role}
      <3>1. CASE HasRoles(r.todo) /\ Head(r.todo) = "grant"
        <4>1. accounts[u].roles = {}
          BY <1>1, <1>11, <2>1, <3>1
        <4>2. a.roles = {r.role}
          BY <1>6, <3>1, <4>1
        <4>3. QED
          BY <1>2, <4>2
      <3>2. CASE HasRoles(r.todo) /\ Head(r.todo) # "grant"
        <4>1. HasRoles(s.todo)
          BY <1>3, <1>4, <1>6, <2>6, <3>2
        <4>2. QED
          BY <1>11, <4>1
      <3>3. CASE ~HasRoles(r.todo)
        <4>1. a.roles = accounts[u].roles
          BY <1>3, <1>6, <3>3
        <4>2. CASE \E q \in Of(u) : HasRoles(q.todo)
          BY <1>11, <3>3, <4>2
        <4>3. CASE \E role \in Role : accounts[u].roles = {role}
          BY <4>1, <4>3
        <4>4. QED
          BY <2>1, <2>6, <4>2, <4>3
      <3>4. QED
        BY <3>1, <3>2, <3>3
    <2>7. QED
      BY <2>3, <2>4, <2>5, <2>6
  <1>14. QED
    BY <1>9, <1>10, <1>12, <1>13 DEF AccountsInv

LEMMA AccountsInductive == AccountsInv /\ [AccountsNext]_accountVars => AccountsInv'
  <1> SUFFICES ASSUME AccountsInv, [AccountsNext]_accountVars PROVE AccountsInv'
    OBVIOUS
  <1>1. CASE UNCHANGED accountVars
    BY <1>1 DEF accountVars, AccountsInv, AccountsTyped, StatusComes, RolesWhole, HasAccount,
                Of, Pending
  <1>2. CASE AccountsNext
    BY <1>2, LoadUsersStep, SelectUserStep, SaveUserStep, StatusChangeStep, ToggleStationStep,
       DeleteUserStep, ExecuteStatementStep, RequestEndsEarlyStep, RequestAnsweredStep
       DEF AccountsNext
  <1>3. QED
    BY <1>1, <1>2

\* The rows, the pages and the requests in flight always have their types.
THEOREM AccountsTypeCorrect == AccountsSpec => []AccountsTypeOK
  <1>1. AccountsInv => AccountsTypeOK
    BY ListsAreLists DEF AccountsInv, AccountsTyped, AccountsTypeOK, Request
  <1>2. QED
    BY <1>1, AccountsInitInv, AccountsInductive, PTL DEF AccountsSpec

\* An account has the status an organiser chose last for it, unless requests
\* with a status overlapped, one failed, or a copy with another one was saved
\* (saveUser and handleStatusChange of UserManager.jsx).
THEOREM StatusStandsHolds == AccountsSpec => []StatusStands
  <1>1. AccountsInv => StatusStands
    <2> SUFFICES ASSUME AccountsInv, NEW u \in Account, HasAccount(u), Resting(u),
                        ~record[u].muddled
                 PROVE  accounts[u].status = record[u].last
      BY DEF StatusStands
    <2>1. Of(u) = {}
      BY DEF Resting, Of
    <2>2. QED
      BY <2>1 DEF AccountsInv, StatusComes
  <1>2. QED
    BY <1>1, AccountsInitInv, AccountsInductive, PTL DEF AccountsSpec

\* An account that was given a role has exactly one, unless requests that
\* change its roles overlapped or one failed half-way: UserResource.on_patch
\* deletes the roles and then inserts one, each statement on its own.
THEOREM OneRoleEachHolds == AccountsSpec => []OneRoleEach
  <1>1. AccountsInv => OneRoleEach
    <2> SUFFICES ASSUME AccountsInv, NEW u \in Account, HasAccount(u), Resting(u),
                        record[u].had, ~record[u].torn
                 PROVE  Cardinality(accounts[u].roles) = 1
      BY DEF OneRoleEach
    <2>1. Of(u) = {}
      BY DEF Resting, Of
    <2>2. PICK role \in Role : accounts[u].roles = {role}
      BY <2>1 DEF AccountsInv, RolesWhole
    <2>3. QED
      BY <2>2, FS_Singleton
  <1>2. QED
    BY <1>1, AccountsInitInv, AccountsInductive, PTL DEF AccountsSpec

-----------------------------------------------------------------------------
(* The page of the event's details.                                        *)

\* What a request has left to do, whether or not it brings organizers.
Whole == {<<"row", "clear", "add">>, <<"clear", "add">>, <<"add">>, <<>>, <<"delete">>}
Bare == {<<"row", "clear">>, <<"clear">>}

FormsTyped ==
    /\ stored \in [Outing -> EventRow \cup {NoOuting}]
    /\ context \in Context /\ sheet \in Sheet
    /\ saves \subseteq Save /\ \A s \in saves : s.todo \in Whole \cup Bare
    /\ selects \subseteq Reselection
    /\ budget \in [saves : 0..MaxSaves, picks : 0..MaxPicks]
    /\ history \in History
    /\ context.shown # NoOuting => sheet.details # NoOuting

\* The page waits for one thing at a time: a save, a deletion or the
\* selection that follows a save.
OneAtATime ==
    /\ ~(sheet.saving /\ sheet.deleting)
    /\ \A s, t \in saves : s.by = "page" /\ t.by = "page" => s = t
    /\ \A r, q \in selects : r.after /\ q.after => r = q
    /\ \A s \in saves, r \in selects : ~(s.by = "page" /\ r.after)
    /\ \A s \in saves : s.by = "page" => sheet.saving \/ sheet.deleting
    /\ \A r \in selects : r.after => sheet.saving

\* The form has the details of the event shown, or those of the event that is
\* being selected again.
FilledFor ==
    ~history.stranded =>
        /\ \/ context.shown = NoOuting
           \/ sheet.details = context.shown
           \/ \E r \in selects : r.after /\ r.of = sheet.details
        /\ \A s \in saves : s.details = s.of
        /\ \A e \in Outing : EventExists(e) => stored[e].details = e

\* Whoever saves an event that had organizers brings them, and between their
\* deletion and their insertion the request that inserts them is under way.
Brought ==
    ~history.cut /\ ~history.readDuring =>
        /\ context.shown \in Outing \ history.bare => context.organized
        /\ \A s \in saves : s.of \notin history.bare => s.todo \in Whole
        /\ \A e \in Outing \ history.bare : EventExists(e) =>
              \/ stored[e].organized
              \/ \E s \in saves : s.of = e /\ s.todo = <<"add">>

FormsInv == FormsTyped /\ OneAtATime /\ FilledFor /\ Brought

\* What a statement leaves of each list.
LEMMA TodoFacts ==
    ASSUME NEW todo \in Whole \cup Bare
    PROVE  /\ todo \in Seq({"row", "clear", "add", "delete"}) /\ Len(todo) <= 3
           /\ todo # <<>> =>
                 /\ Tail(todo) \in Whole \cup Bare
                 /\ todo \in Whole => Tail(todo) \in Whole
                 /\ todo = <<"add">> => Head(todo) = "add"
                 /\ Head(todo) = "clear" /\ todo \in Whole => Tail(todo) = <<"add">>
                 /\ Head(todo) \in {"row", "clear", "add", "delete"}
  <1>1. CASE todo = <<"row", "clear", "add">>
    <2>1. Head(todo) = "row" /\ Tail(todo) = <<"clear", "add">> /\ Len(todo) = 3
      BY <1>1
    <2>2. QED
      BY <1>1, <2>1 DEF Whole, Bare
  <1>2. CASE todo = <<"clear", "add">>
    <2>1. Head(todo) = "clear" /\ Tail(todo) = <<"add">> /\ Len(todo) = 2
      BY <1>2
    <2>2. QED
      BY <1>2, <2>1 DEF Whole, Bare
  <1>3. CASE todo = <<"add">>
    <2>1. Head(todo) = "add" /\ Tail(todo) = <<>> /\ Len(todo) = 1
      BY <1>3
    <2>2. QED
      BY <1>3, <2>1 DEF Whole, Bare
  <1>4. CASE todo = <<>>
    BY <1>4
  <1>5. CASE todo = <<"delete">>
    <2>1. Head(todo) = "delete" /\ Tail(todo) = <<>> /\ Len(todo) = 1
      BY <1>5
    <2>2. QED
      BY <1>5, <2>1 DEF Whole, Bare
  <1>6. CASE todo = <<"row", "clear">>
    <2>1. Head(todo) = "row" /\ Tail(todo) = <<"clear">> /\ Len(todo) = 2
      BY <1>6
    <2>2. QED
      BY <1>6, <2>1 DEF Whole, Bare
  <1>7. CASE todo = <<"clear">>
    <2>1. Head(todo) = "clear" /\ Tail(todo) = <<>> /\ Len(todo) = 1
      BY <1>7
    <2>2. QED
      BY <1>7, <2>1 DEF Whole, Bare
  <1>8. QED
    BY <1>1, <1>2, <1>3, <1>4, <1>5, <1>6, <1>7 DEF Whole, Bare

LEMMA FormsBounds == MaxSaves \in Nat /\ MaxPicks \in Nat /\ NoOuting \notin Outing
  BY FormsAssumption

LEMMA FormsInitInv == FormsInit => FormsInv
  <1> SUFFICES ASSUME FormsInit PROVE FormsInv
    OBVIOUS
  <1>1. PICK held \in SUBSET Outing :
           stored = [e \in Outing |-> IF e \in held THEN [details |-> e, organized |-> TRUE]
                                      ELSE NoOuting]
    BY DEF FormsInit
  <1>2. \A e \in Outing : stored[e] \in EventRow \cup {NoOuting}
    BY <1>1 DEF EventRow
  <1>3. \A e \in Outing : EventExists(e) => stored[e].details = e /\ stored[e].organized
    BY <1>1 DEF EventExists
  <1>4. FormsTyped
    <2>1. budget \in [saves : 0..MaxSaves, picks : 0..MaxPicks]
      BY FormsBounds DEF FormsInit
    <2>2. context \in Context /\ sheet \in Sheet /\ context.shown = NoOuting
      BY DEF FormsInit, Context, Sheet
    <2>3. history \in History
      BY DEF FormsInit, History
    <2>4. stored \in [Outing -> EventRow \cup {NoOuting}]
      BY <1>1, <1>2
    <2>5. QED
      BY <2>1, <2>2, <2>3, <2>4 DEF FormsInit, FormsTyped
  <1>5. OneAtATime
    BY DEF FormsInit, OneAtATime
  <1>6. FilledFor
    BY <1>3 DEF FormsInit, FilledFor
  <1>7. Brought
    BY <1>3, FormsBounds DEF FormsInit, Brought
  <1>8. QED
    BY <1>4, <1>5, <1>6, <1>7 DEF FormsInv

\* selectEvent's request.
LEMMA Reselects ==
    ASSUME FormsInv, NEW e \in Outing, NEW after \in BOOLEAN, SelectEvent(e, after),
           NEW r, r = [of |-> e, after |-> after, n |-> budget.saves + budget.picks]
    PROVE  /\ r \in Reselection /\ r.of = e /\ r.after = after /\ selects' = selects \cup {r}
           /\ context' \in Context /\ context'.shown = context.shown
           /\ context'.organized = context.organized /\ context'.loading
  <1>1. budget.saves + budget.picks \in 0..(MaxSaves + MaxPicks)
    BY FormsBounds DEF FormsInv, FormsTyped
  <1>2. r \in Reselection
    BY <1>1 DEF Reselection
  <1>3. QED
    BY <1>2 DEF SelectEvent, FormsInv, FormsTyped, Context

LEMMA PickEventStep == ASSUME FormsInv, NEW e \in Outing, PickEvent(e) PROVE FormsInv'
  <1>1. PICK r \in Reselection :
           /\ r.of = e /\ ~r.after /\ selects' = selects \cup {r}
           /\ context' \in Context /\ context'.shown = context.shown
           /\ context'.organized = context.organized
    BY Reselects DEF PickEvent
  <1>2. /\ budget' = [budget EXCEPT !.picks = budget.picks + 1] /\ budget.picks < MaxPicks
        /\ UNCHANGED <<stored, sheet, saves, history>>
    BY DEF PickEvent
  <1>3. budget' \in [saves : 0..MaxSaves, picks : 0..MaxPicks]
    BY <1>2, FormsBounds DEF FormsInv, FormsTyped
  <1>4. FormsTyped'
    BY <1>1, <1>2, <1>3 DEF FormsInv, FormsTyped
  <1>5. OneAtATime'
    BY <1>1, <1>2 DEF FormsInv, OneAtATime
  <1>6. FilledFor'
    BY <1>1, <1>2 DEF FormsInv, FilledFor, EventExists
  <1>7. Brought'
    BY <1>1, <1>2 DEF FormsInv, Brought, EventExists
  <1>8. QED
    BY <1>4, <1>5, <1>6, <1>7 DEF FormsInv

LEMMA SelectAnswersStep == ASSUME FormsInv, NEW r \in selects, SelectAnswers(r) PROVE FormsInv'
  <1>1. r \in Reselection /\ r.of \in Outing /\ r.after \in BOOLEAN
    BY DEF FormsInv, FormsTyped, Reselection
  <1>2. stored[r.of] \in EventRow /\ stored[r.of].details \in Outing
        /\ stored[r.of].organized \in BOOLEAN /\ EventExists(r.of)
    BY <1>1 DEF SelectAnswers, EventExists, FormsInv, FormsTyped, EventRow
  <1>3. /\ context' \in Context /\ context'.shown = r.of
        /\ context'.organized = stored[r.of].organized
    BY <1>1, <1>2 DEF SelectAnswers, FormsInv, FormsTyped, Context
  <1>4. /\ sheet' \in Sheet /\ sheet'.details = stored[r.of].details
        /\ sheet'.saving = (sheet.saving /\ ~r.after) /\ sheet'.deleting = sheet.deleting
    BY <1>1, <1>2 DEF SelectAnswers, Entered, FormsInv, FormsTyped, Sheet
  <1>5. /\ history' \in History /\ history'.stranded = history.stranded
        /\ history'.cut = history.cut /\ history'.bare = history.bare
        /\ history'.readDuring = (history.readDuring \/ SavingOf(r.of))
    BY DEF SelectAnswers, FormsInv, FormsTyped, History, SavingOf
  <1>6. selects' = selects \ {r} /\ UNCHANGED <<stored, saves, budget>>
    BY DEF SelectAnswers
  <1>7. FormsTyped'
    BY <1>2, <1>3, <1>4, <1>5, <1>6, FormsBounds DEF FormsInv, FormsTyped
  <1>8. OneAtATime'
    BY <1>1, <1>4, <1>6 DEF FormsInv, OneAtATime
  <1>9. FilledFor'
    BY <1>1, <1>2, <1>3, <1>4, <1>5, <1>6 DEF FormsInv, FilledFor, EventExists
  <1>10. Brought'
    <2>1. SavingOf(r.of) \/ ~(\E s \in saves : s.of = r.of)
      BY DEF SavingOf
    <2>2. QED
      BY <1>1, <1>2, <1>3, <1>5, <1>6, <2>1 DEF FormsInv, Brought, EventExists
  <1>11. QED
    BY <1>7, <1>8, <1>9, <1>10 DEF FormsInv

LEMMA SelectFailsStep == ASSUME FormsInv, NEW r \in selects, SelectFails(r) PROVE FormsInv'
  <1>1. r \in Reselection /\ r.of \in Outing /\ r.after \in BOOLEAN
    BY DEF FormsInv, FormsTyped, Reselection
  <1>2. /\ context' \in Context /\ context'.shown = context.shown
        /\ context'.organized = context.organized
    BY DEF SelectFails, FormsInv, FormsTyped, Context
  <1>3. /\ sheet' \in Sheet /\ sheet'.details = sheet.details
        /\ sheet'.saving = (sheet.saving /\ ~r.after) /\ sheet'.deleting = sheet.deleting
    BY <1>1 DEF SelectFails, FormsInv, FormsTyped, Sheet
  <1>4. /\ history' \in History /\ history'.cut = history.cut /\ history'.bare = history.bare
        /\ history'.readDuring = history.readDuring
        /\ history'.stranded = (history.stranded \/ (r.after /\ context.shown # r.of))
    BY <1>1 DEF SelectFails, FormsInv, FormsTyped, History
  <1>5. selects' = selects \ {r} /\ UNCHANGED <<stored, saves, budget>>
    BY DEF SelectFails
  <1>6. FormsTyped'
    BY <1>2, <1>3, <1>4, <1>5 DEF FormsInv, FormsTyped
  <1>7. OneAtATime'
    BY <1>1, <1>3, <1>5 DEF FormsInv, OneAtATime
  <1>8. FilledFor'
    BY <1>1, <1>2, <1>3, <1>4, <1>5 DEF FormsInv, FilledFor, EventExists, OneAtATime
  <1>9. Brought'
    BY <1>2, <1>4, <1>5 DEF FormsInv, Brought, EventExists
  <1>10. QED
    BY <1>6, <1>7, <1>8, <1>9 DEF FormsInv

LEMMA SelectorStep == ASSUME FormsInv, OpenEventSelector PROVE FormsInv'
  <1>1. /\ context' \in Context /\ context'.shown = context.shown
        /\ context'.organized = context.organized
        /\ UNCHANGED <<stored, sheet, saves, selects, budget, history>>
    BY DEF OpenEventSelector, FormsInv, FormsTyped, Context
  <1>2. FormsTyped' /\ OneAtATime'
    BY <1>1 DEF FormsInv, FormsTyped, OneAtATime
  <1>3. FilledFor' /\ Brought'
    BY <1>1 DEF FormsInv, FilledFor, Brought, EventExists
  <1>4. QED
    BY <1>2, <1>3 DEF FormsInv

\* A request that is sent.
LEMMA SendsFacts ==
    ASSUME FormsInv, NEW by \in {"page", "colleague"}, NEW e \in Outing, NEW d \in Outing,
           NEW o \in BOOLEAN, NEW todo \in Whole \cup Bare, Sends(by, e, d, o, todo)
    PROVE  /\ budget' \in [saves : 0..MaxSaves, picks : 0..MaxPicks]
           /\ \E s \in Save : /\ s.by = by /\ s.of = e /\ s.details = d /\ s.todo = todo
                              /\ saves' = saves \cup {s}
  <1> DEFINE s == [by |-> by, of |-> e, details |-> d, organized |-> o, todo |-> todo,
                   n |-> budget.saves]
  <1>1. budget.saves < MaxSaves /\ budget' = [budget EXCEPT !.saves = budget.saves + 1]
        /\ saves' = saves \cup {s}
    BY DEF Sends
  <1>2. budget' \in [saves : 0..MaxSaves, picks : 0..MaxPicks]
    BY <1>1, FormsBounds DEF FormsInv, FormsTyped
  <1>3. s \in Save
    <2>1. budget.saves \in 0..MaxSaves
      BY DEF FormsInv, FormsTyped
    <2>2. todo \in Seq({"row", "clear", "add", "delete"})
      BY TodoFacts
    <2>3. QED
      BY <2>1, <2>2 DEF Save
  <1>4. s.by = by /\ s.of = e /\ s.details = d /\ s.todo = todo
    OBVIOUS
  <1>5. QED
    BY <1>1, <1>2, <1>3, <1>4

LEMMA SubmitStep == ASSUME FormsInv, HandleSubmit \/ HandleDelete PROVE FormsInv'
  <1>1. /\ context.shown \in Outing /\ ~sheet.saving /\ ~sheet.deleting
        /\ sheet.details \in Outing /\ context.organized \in BOOLEAN
    BY DEF HandleSubmit, HandleDelete, FormUsable, FormsInv, FormsTyped, Context, Sheet
  <1>2. PICK todo \in Whole \cup Bare :
           /\ Sends("page", context.shown, sheet.details, context.organized, todo)
           /\ context.organized => todo \in Whole
    <2>1. CASE HandleSubmit
      <3>1. Updates(context.organized) \in Whole \cup Bare
            /\ (context.organized => Updates(context.organized) \in Whole)
        BY DEF Updates, Whole, Bare
      <3>2. QED
        BY <2>1, <3>1 DEF HandleSubmit
    <2>2. CASE HandleDelete
      BY <2>2 DEF HandleDelete, Whole
    <2>3. QED
      BY <2>1, <2>2
  <1>3. PICK s \in Save : /\ s.by = "page" /\ s.of = context.shown /\ s.details = sheet.details
                          /\ s.todo = todo /\ saves' = saves \cup {s}
    BY <1>1, <1>2, SendsFacts
  <1>4. budget' \in [saves : 0..MaxSaves, picks : 0..MaxPicks]
    BY <1>1, <1>2, SendsFacts
  <1>5. /\ sheet' \in Sheet /\ sheet'.details = sheet.details
        /\ (sheet'.saving /\ ~sheet'.deleting) \/ (sheet'.deleting /\ ~sheet'.saving)
    BY <1>1 DEF HandleSubmit, HandleDelete, FormsInv, FormsTyped, Sheet
  <1>6. UNCHANGED <<stored, context, selects, history>>
    BY DEF HandleSubmit, HandleDelete
  <1>7. FormsTyped'
    BY <1>3, <1>4, <1>5, <1>6 DEF FormsInv, FormsTyped
  <1>8. OneAtATime'
    BY <1>1, <1>3, <1>5, <1>6 DEF FormsInv, OneAtATime
  <1>9. FilledFor'
    <2>1. ~history.stranded => sheet.details = context.shown
      BY <1>1, FormsBounds DEF FormsInv, FilledFor, OneAtATime
    <2>2. QED
      BY <1>3, <1>5, <1>6, <2>1 DEF FormsInv, FilledFor, EventExists
  <1>10. Brought'
    BY <1>1, <1>2, <1>3, <1>6 DEF FormsInv, Brought, EventExists
  <1>11. QED
    BY <1>7, <1>8, <1>9, <1>10 DEF FormsInv

LEMMA ColleagueStep ==
    ASSUME FormsInv, NEW e \in Outing, ColleagueSavesEvent(e) PROVE FormsInv'
  <1>1. stored[e] \in EventRow /\ stored[e].organized \in BOOLEAN /\ EventExists(e)
    BY DEF ColleagueSavesEvent, EventExists, FormsInv, FormsTyped, EventRow
  <1> DEFINE todo == Updates(stored[e].organized)
  <1>2. todo \in Whole \cup Bare /\ (stored[e].organized => todo \in Whole)
    BY DEF Updates, Whole, Bare
  <1>3. Sends("colleague", e, e, stored[e].organized, todo)
    BY DEF ColleagueSavesEvent
  <1> HIDE DEF todo
  <1>4. PICK s \in Save : /\ s.by = "colleague" /\ s.of = e /\ s.details = e
                          /\ s.todo = todo /\ saves' = saves \cup {s}
    BY <1>1, <1>2, <1>3, SendsFacts
  <1>5. budget' \in [saves : 0..MaxSaves, picks : 0..MaxPicks]
    BY <1>1, <1>2, <1>3, SendsFacts
  <1>6. /\ history' \in History /\ history'.stranded = history.stranded
        /\ history'.cut = history.cut /\ history'.bare = history.bare
        /\ history'.readDuring = (history.readDuring \/ SavingOf(e))
    BY DEF ColleagueSavesEvent, FormsInv, FormsTyped, History, SavingOf
  <1>7. UNCHANGED <<stored, context, sheet, selects>>
    BY DEF ColleagueSavesEvent
  <1>8. FormsTyped'
    BY <1>2, <1>4, <1>5, <1>6, <1>7 DEF FormsInv, FormsTyped
  <1>9. OneAtATime'
    BY <1>4, <1>7 DEF FormsInv, OneAtATime
  <1>10. FilledFor'
    BY <1>4, <1>6, <1>7 DEF FormsInv, FilledFor, EventExists
  <1>11. Brought'
    <2>1. CASE history'.cut \/ history'.readDuring
      BY <2>1 DEF Brought
    <2>2. CASE ~history'.cut /\ ~history'.readDuring
      <3>1. ~history.cut /\ ~history.readDuring /\ ~(\E t \in saves : t.of = e)
        BY <1>6, <2>2 DEF SavingOf
      <3>2. e \notin history.bare => todo \in Whole
        BY <1>1, <1>2, <3>1 DEF FormsInv, Brought
      <3>3. QED
        BY <1>4, <1>6, <1>7, <3>1, <3>2 DEF FormsInv, Brought, EventExists
    <2>3. QED
      BY <2>1, <2>2
  <1>12. QED
    BY <1>8, <1>9, <1>10, <1>11 DEF FormsInv

LEMMA CreateEventStep == ASSUME FormsInv, NEW e \in Outing, CreateEvent(e) PROVE FormsInv'
  <1>1. stored' = [stored EXCEPT ![e] = [details |-> e, organized |-> FALSE]]
        /\ UNCHANGED <<context, sheet, saves, selects, budget>>
    BY DEF CreateEvent
  <1>2. stored' \in [Outing -> EventRow \cup {NoOuting}]
    BY <1>1 DEF FormsInv, FormsTyped, EventRow
  <1>3. stored'[e].details = e /\ \A x \in Outing \ {e} : stored'[x] = stored[x]
    BY <1>1 DEF FormsInv, FormsTyped
  <1>4. /\ history' \in History /\ history'.stranded = history.stranded
        /\ history'.cut = history.cut /\ history'.bare = history.bare \cup {e}
        /\ history'.readDuring = history.readDuring
    BY DEF CreateEvent, FormsInv, FormsTyped, History
  <1>5. FormsTyped' /\ OneAtATime'
    BY <1>1, <1>2, <1>4 DEF FormsInv, FormsTyped, OneAtATime
  <1>6. FilledFor'
    BY <1>1, <1>3, <1>4 DEF FormsInv, FilledFor, EventExists
  <1>7. Brought'
    BY <1>1, <1>3, <1>4 DEF FormsInv, Brought, EventExists
  <1>8. QED
    BY <1>5, <1>6, <1>7 DEF FormsInv

LEMMA ExecuteSaveStep == ASSUME FormsInv, NEW s \in saves, ExecuteSave(s) PROVE FormsInv'
  <1> DEFINE s2 == [s EXCEPT !.todo = Tail(s.todo)]
  <1> DEFINE e == s.of
  <1>1. /\ s \in Save /\ s.of \in Outing /\ s.details \in Outing /\ s.todo \in Whole \cup Bare
        /\ s.todo # <<>> /\ EventExists(e) /\ ~(Head(s.todo) = "add" /\ stored[e].organized)
    BY DEF ExecuteSave, EventSaveRefused, FormsInv, FormsTyped, Save
  <1>2. Tail(s.todo) \in Whole \cup Bare
        /\ Tail(s.todo) \in Seq({"row", "clear", "add", "delete"})
    BY <1>1, TodoFacts
  <1>3. /\ s2 \in Save /\ s2.by = s.by /\ s2.of = e /\ s2.details = s.details
        /\ s2.todo = Tail(s.todo)
    BY <1>1, <1>2 DEF Save
  <1>4. saves' = (saves \ {s}) \cup {s2} /\ UNCHANGED <<context, sheet, selects, budget, history>>
    BY DEF ExecuteSave
  <1>5. stored[e] \in EventRow
    BY <1>1 DEF EventExists, FormsInv, FormsTyped
  <1>6. /\ stored' \in [Outing -> EventRow \cup {NoOuting}]
        /\ \A x \in Outing \ {e} : stored'[x] = stored[x]
        /\ \/ /\ Head(s.todo) = "row" /\ stored'[e].details = s.details
              /\ stored'[e].organized = stored[e].organized
           \/ /\ Head(s.todo) = "clear" /\ stored'[e].details = stored[e].details
           \/ /\ Head(s.todo) = "add" /\ stored'[e].details = stored[e].details
              /\ stored'[e].organized
           \/ stored'[e] = NoOuting
    <2>1. stored' = [stored EXCEPT ![e] = EventAfter(e, s)]
      BY DEF ExecuteSave
    <2>2. /\ EventAfter(e, s) \in EventRow \cup {NoOuting}
          /\ \/ /\ Head(s.todo) = "row" /\ EventAfter(e, s).details = s.details
                /\ EventAfter(e, s).organized = stored[e].organized
             \/ /\ Head(s.todo) = "clear" /\ EventAfter(e, s).details = stored[e].details
             \/ /\ Head(s.todo) = "add" /\ EventAfter(e, s).details = stored[e].details
                /\ EventAfter(e, s).organized
             \/ EventAfter(e, s) = NoOuting
      <3>1. Head(s.todo) \in {"row", "clear", "add", "delete"}
        BY <1>1, TodoFacts
      <3>2. CASE Head(s.todo) = "row"
        <4>1. EventAfter(e, s) = [stored[e] EXCEPT !.details = s.details]
          BY <3>2 DEF EventAfter
        <4>2. QED
          BY <1>1, <1>5, <3>2, <4>1 DEF EventRow
      <3>3. CASE Head(s.todo) = "clear"
        <4>1. EventAfter(e, s) = [stored[e] EXCEPT !.organized = FALSE]
          BY <3>3 DEF EventAfter
        <4>2. QED
          BY <1>1, <1>5, <3>3, <4>1 DEF EventRow
      <3>4. CASE Head(s.todo) = "add"
        <4>1. EventAfter(e, s) = [stored[e] EXCEPT !.organized = TRUE]
          BY <3>4 DEF EventAfter
        <4>2. QED
          BY <1>1, <1>5, <3>4, <4>1 DEF EventRow
      <3>5. CASE Head(s.todo) = "delete"
        BY <3>5 DEF EventAfter
      <3>6. QED
        BY <3>1, <3>2, <3>3, <3>4, <3>5
    <2>3. QED
      BY <1>1, <2>1, <2>2 DEF FormsInv, FormsTyped
  <1> HIDE DEF s2, e
  <1>7. FormsTyped'
    BY <1>2, <1>3, <1>4, <1>6 DEF FormsInv, FormsTyped
  <1>8. OneAtATime'
    BY <1>3, <1>4 DEF FormsInv, OneAtATime
  <1>9. FilledFor'
    BY <1>1, <1>3, <1>4, <1>6 DEF FormsInv, FilledFor, EventExists, e
  <1>10. Brought'
    <2> SUFFICES ASSUME ~history.cut, ~history.readDuring
                 PROVE  /\ \A t \in saves' : t.of \notin history.bare => t.todo \in Whole
                        /\ \A x \in Outing \ history.bare : EventExists(x)' =>
                              \/ stored'[x].organized
                              \/ \E t \in saves' : t.of = x /\ t.todo = <<"add">>
      BY <1>4 DEF FormsInv, Brought
    <2>1. \A t \in saves : t.of \notin history.bare => t.todo \in Whole
      BY DEF FormsInv, Brought
    <2>2. s.todo \in Whole => Tail(s.todo) \in Whole
      BY <1>1, TodoFacts
    <2>3. ASSUME NEW x \in Outing \ history.bare, EventExists(x)'
          PROVE  \/ stored'[x].organized
                 \/ \E t \in saves' : t.of = x /\ t.todo = <<"add">>
      <3>1. CASE x # e
        <4>1. stored[x].organized \/ \E t \in saves : t.of = x /\ t.todo = <<"add">>
          BY <1>6, <2>3, <3>1 DEF FormsInv, Brought, EventExists
        <4>2. QED
          BY <1>4, <1>6, <3>1, <4>1 DEF e
      <3>2. CASE x = e /\ Head(s.todo) = "row"
        <4>1. stored[x].organized \/ \E t \in saves : t.of = x /\ t.todo = <<"add">>
          BY <1>1, <3>2 DEF FormsInv, Brought
        <4>2. s.todo # <<"add">>
          BY <3>2
        <4>3. (\E t \in saves : t.of = x /\ t.todo = <<"add">>) =>
                 (\E t \in saves' : t.of = x /\ t.todo = <<"add">>)
          BY <1>4, <4>2
        <4>4. stored'[x].organized = stored[x].organized
          BY <1>6, <2>3, <3>2 DEF EventExists
        <4>5. QED
          BY <1>4, <4>1, <4>2, <4>4
      <3>3. CASE x = e /\ Head(s.todo) = "clear"
        <4>1. s.todo \in Whole
          BY <2>1, <3>3 DEF e
        <4>2. s2.todo = <<"add">>
          BY <1>1, <1>3, <3>3, <4>1, TodoFacts
        <4>3. QED
          BY <1>3, <1>4, <3>3, <4>2
      <3>4. CASE x = e /\ Head(s.todo) = "add"
        BY <1>6, <2>3, <3>4 DEF EventExists
      <3>5. QED
        BY <1>6, <2>3, <3>1, <3>2, <3>3, <3>4 DEF EventExists
    <2>4. QED
      BY <1>3, <1>4, <2>1, <2>2, <2>3 DEF e
  <1>11. QED
    BY <1>7, <1>8, <1>9, <1>10 DEF FormsInv

LEMMA EventSavedStep == ASSUME FormsInv, NEW s \in saves, EventSaved(s) PROVE FormsInv'
  <1>1. s \in Save /\ s.of \in Outing /\ s.details \in Outing /\ s.by = "page" /\ s.todo = <<>>
        /\ ~sheet.deleting
    BY DEF EventSaved, FormsInv, FormsTyped, Save
  <1>2. PICK r \in Reselection :
           /\ r.of = s.of /\ r.after /\ selects' = selects \cup {r}
           /\ context' \in Context /\ context'.shown = context.shown
           /\ context'.organized = context.organized
    <2>1. SelectEvent(s.of, TRUE)
      BY DEF EventSaved
    <2> DEFINE r == [of |-> s.of, after |-> TRUE, n |-> budget.saves + budget.picks]
    <2>2. /\ r \in Reselection /\ r.of = s.of /\ r.after = TRUE /\ selects' = selects \cup {r}
          /\ context' \in Context /\ context'.shown = context.shown
          /\ context'.organized = context.organized
      BY <1>1, <2>1, Reselects
    <2>3. QED
      BY <2>2
  <1>3. /\ sheet' \in Sheet /\ sheet'.details = s.details /\ sheet'.saving = sheet.saving
        /\ sheet'.deleting = sheet.deleting
    BY <1>1 DEF EventSaved, FormsInv, FormsTyped, Sheet
  <1>4. saves' = saves \ {s} /\ UNCHANGED <<stored, budget, history>>
    BY DEF EventSaved
  <1>5. FormsTyped'
    BY <1>1, <1>2, <1>3, <1>4, FormsBounds DEF FormsInv, FormsTyped
  <1>6. OneAtATime'
    BY <1>1, <1>2, <1>3, <1>4 DEF FormsInv, OneAtATime
  <1>7. FilledFor'
    BY <1>2, <1>3, <1>4 DEF FormsInv, FilledFor, EventExists
  <1>8. Brought'
    <2>1. s.todo # <<"add">>
      BY <1>1
    <2>2. QED
      BY <1>2, <1>4, <2>1 DEF FormsInv, Brought, EventExists
  <1>9. QED
    BY <1>5, <1>6, <1>7, <1>8 DEF FormsInv

LEMMA EventDeletedStep == ASSUME FormsInv, NEW s \in saves, EventDeleted(s) PROVE FormsInv'
  <1>1. s.by = "page" /\ s.todo = <<>> /\ sheet.deleting
    BY DEF EventDeleted
  <1>2. /\ sheet' \in Sheet /\ sheet'.details = sheet.details /\ sheet'.saving = sheet.saving
        /\ ~sheet'.deleting
    BY DEF EventDeleted, FormsInv, FormsTyped, Sheet
  <1>3. context' \in Context /\ context'.shown = NoOuting
    BY DEF EventDeleted, FormsInv, FormsTyped, Context
  <1>4. saves' = saves \ {s} /\ UNCHANGED <<stored, selects, budget, history>>
    BY DEF EventDeleted
  <1>5. FormsTyped'
    BY <1>2, <1>3, <1>4 DEF FormsInv, FormsTyped
  <1>6. OneAtATime'
    BY <1>1, <1>2, <1>4 DEF FormsInv, OneAtATime
  <1>7. FilledFor'
    BY <1>3, <1>4 DEF FormsInv, FilledFor, EventExists
  <1>8. Brought'
    <2>1. s.todo # <<"add">>
      BY <1>1
    <2>2. QED
      BY <1>3, <1>4, <2>1, FormsBounds DEF FormsInv, Brought, EventExists
  <1>9. QED
    BY <1>5, <1>6, <1>7, <1>8 DEF FormsInv

LEMMA ColleagueAnsweredStep ==
    ASSUME FormsInv, NEW s \in saves, ColleagueAnswered(s) PROVE FormsInv'
  <1>1. s.todo # <<"add">>
    BY DEF ColleagueAnswered
  <1>2. saves' = saves \ {s} /\ UNCHANGED <<stored, context, sheet, selects, budget, history>>
    BY DEF ColleagueAnswered
  <1>3. FormsTyped' /\ OneAtATime'
    BY <1>2 DEF FormsInv, FormsTyped, OneAtATime
  <1>4. FilledFor' /\ Brought'
    BY <1>1, <1>2 DEF FormsInv, FilledFor, Brought, EventExists
  <1>5. QED
    BY <1>3, <1>4 DEF FormsInv

LEMMA EventSaveFailsStep == ASSUME FormsInv, NEW s \in saves, EventSaveFails(s) PROVE FormsInv'
  <1>1. /\ sheet' \in Sheet /\ sheet'.details = sheet.details
        /\ \/ s.by = "page" /\ ~sheet'.saving /\ ~sheet'.deleting
           \/ /\ s.by # "page" /\ sheet'.saving = sheet.saving
              /\ sheet'.deleting = sheet.deleting
    BY DEF EventSaveFails, FormsInv, FormsTyped, Sheet
  <1>2. /\ history' \in History /\ history'.stranded = history.stranded /\ history'.cut
    BY DEF EventSaveFails, FormsInv, FormsTyped, History
  <1>3. saves' = saves \ {s} /\ UNCHANGED <<stored, context, selects, budget>>
    BY DEF EventSaveFails
  <1>4. FormsTyped'
    BY <1>1, <1>2, <1>3 DEF FormsInv, FormsTyped
  <1>5. OneAtATime'
    BY <1>1, <1>3 DEF FormsInv, OneAtATime
  <1>6. FilledFor'
    BY <1>1, <1>2, <1>3 DEF FormsInv, FilledFor, EventExists
  <1>7. Brought'
    BY <1>2 DEF Brought
  <1>8. QED
    BY <1>4, <1>5, <1>6, <1>7 DEF FormsInv

LEMMA FormsInductive == FormsInv /\ [FormsNext]_formVars => FormsInv'
  <1> SUFFICES ASSUME FormsInv, [FormsNext]_formVars PROVE FormsInv'
    OBVIOUS
  <1>1. CASE UNCHANGED formVars
    BY <1>1 DEF formVars, FormsInv, FormsTyped, OneAtATime, FilledFor, Brought, EventExists
  <1>2. CASE FormsNext
    BY <1>2, PickEventStep, ColleagueStep, CreateEventStep, SelectorStep, SubmitStep,
       SelectAnswersStep, SelectFailsStep, ExecuteSaveStep, EventSavedStep, EventDeletedStep,
       ColleagueAnsweredStep, EventSaveFailsStep
       DEF FormsNext
  <1>3. QED
    BY <1>1, <1>2

\* The rows, the context, the form and the requests always have their types.
THEOREM FormsTypeCorrect == FormsSpec => []FormsTypeOK
  <1>1. FormsInv => FormsTypeOK
    <2> SUFFICES ASSUME FormsInv PROVE FormsTypeOK
      OBVIOUS
    <2>1. \A s \in saves : s.of \in Outing /\ s.details \in Outing /\ Len(s.todo) <= 3
      BY TodoFacts DEF FormsInv, FormsTyped, Save
    <2>2. QED
      BY <2>1 DEF FormsInv, FormsTyped, FormsTypeOK
  <1>2. QED
    BY <1>1, FormsInitInv, FormsInductive, PTL DEF FormsSpec

\* Whichever event is shown when a save is answered, the details of one event
\* are never saved over another's, unless selecting the saved event again
\* failed (handleSubmit of EventManager.jsx, selectEvent of EventContext.jsx).
THEOREM OwnDetailsHolds == FormsSpec => []OwnDetails
  <1>1. FormsInv => OwnDetails
    BY DEF FormsInv, FilledFor, OwnDetails
  <1>2. QED
    BY <1>1, FormsInitInv, FormsInductive, PTL DEF FormsSpec

\* An event never loses its organizers to saves that all went through, unless
\* it was read between the deletion and the insertion (EventsStore.update).
THEOREM OrganizersKeptHolds == FormsSpec => []OrganizersKept
  <1>1. FormsInv => OrganizersKept
    BY DEF FormsInv, Brought, OrganizersKept, SavingOf
  <1>2. QED
    BY <1>1, FormsInitInv, FormsInductive, PTL DEF FormsSpec

-----------------------------------------------------------------------------
(* The pages together.                                                     *)

\* What a step of one area does is a step of that area's module, and leaves
\* what the other modules hold as it is.
LEMMA AreaSteps ==
    ASSUME [OfficeNext]_officeVars
    PROVE  /\ [PatrolsNext]_patrolVars /\ [TasksNext]_taskVars
           /\ [SessionNext]_sessionVars /\ [AccountsNext]_accountVars
           /\ [LibraryNext]_libraryVars /\ [FormsNext]_formVars
  <1>1. CASE UNCHANGED officeVars
    BY <1>1 DEF officeVars
  <1>2. CASE OfficeNext
    BY <1>2 DEF OfficeNext
  <1>3. QED
    BY <1>1, <1>2

\* The office pages implement each page's own specification: whatever the
\* organiser does on another page, the steps of a page are those its module
\* has, so what is proved of a page holds of the whole.
THEOREM OfficeImplementsPages ==
    OfficeSpec => /\ PatrolsSpec /\ TasksSpec /\ SessionSpec
                  /\ AccountsSpec /\ LibrarySpec /\ FormsSpec
  <1>1. OfficeInit => /\ PatrolsInit /\ TasksInit /\ SessionInit
                      /\ AccountsInit /\ LibraryInit /\ FormsInit
    BY DEF OfficeInit
  <1>2. [OfficeNext]_officeVars =>
           /\ [PatrolsNext]_patrolVars /\ [TasksNext]_taskVars
           /\ [SessionNext]_sessionVars /\ [AccountsNext]_accountVars
           /\ [LibraryNext]_libraryVars /\ [FormsNext]_formVars
    BY AreaSteps
  <1>3. QED
    BY <1>1, <1>2, PTL
       DEF OfficeSpec, PatrolsSpec, TasksSpec, SessionSpec, AccountsSpec, LibrarySpec, FormsSpec

\* Whichever page the organiser works on, its state, the rows behind it and its
\* requests in flight are of their types.
THEOREM OfficeTypeCorrect == OfficeSpec => []OfficeTypeOK
  <1> DEFINE InArea == area \in {"patrols", "tasks", "session", "accounts", "library", "event"}
  <1>1. OfficeInit => InArea
    BY DEF OfficeInit
  <1>2. InArea /\ [OfficeNext]_officeVars => InArea'
    BY DEF OfficeNext, officeVars
  <1>3. /\ InArea /\ PatrolsTypeOK /\ TasksTypeOK /\ SessionTypeOK
        /\ AccountsTypeOK /\ LibraryTypeOK /\ FormsTypeOK
        => OfficeTypeOK
    BY DEF OfficeTypeOK
  <1>4. OfficeSpec => /\ []PatrolsTypeOK /\ []TasksTypeOK /\ []SessionTypeOK
                      /\ []AccountsTypeOK /\ []LibraryTypeOK /\ []FormsTypeOK
    BY OfficeImplementsPages, PatrolsTypeCorrect, TasksTypeCorrect, SessionTypeCorrect,
       AccountsTypeCorrect, LibraryTypeCorrect, FormsTypeCorrect
  <1>5. OfficeSpec => []InArea
    BY <1>1, <1>2, PTL DEF OfficeSpec
  <1>6. QED
    BY <1>3, <1>4, <1>5, PTL

\* What is proved of each page holds wherever the organiser works.
THEOREM OfficePagesSafe ==
    OfficeSpec => /\ [](/\ NumbersDiffer /\ TaskLostBySlip /\ PickStands
                        /\ StatusStands /\ OneRoleEach /\ NoPresetTaken
                        /\ OwnDetails /\ OrganizersKept)
                  /\ LossHasCause /\ SavedAsSent
  <1>1. OfficeSpec => /\ []NumbersDiffer /\ []TaskLostBySlip /\ []PickStands
                      /\ []StatusStands /\ []OneRoleEach /\ []NoPresetTaken
                      /\ []OwnDetails /\ []OrganizersKept
    BY OfficeImplementsPages, NumbersDifferHolds, TaskLostBySlipHolds, PickStandsHolds,
       StatusStandsHolds, OneRoleEachHolds, NoPresetTakenHolds, OwnDetailsHolds,
       OrganizersKeptHolds
  <1>2. OfficeSpec => LossHasCause /\ SavedAsSent
    BY OfficeImplementsPages, LossHasCauseHolds, SavedAsSentHolds
  <1>3. QED
    BY <1>1, <1>2, PTL

=============================================================================
