# NightRunner: models, checks and proofs

NightRunner runs a scouting night game: patrols walk between stations,
volunteers check them in and out and score them, organizers import the roster,
check people in at the gate, finalize the scores and print reports. A Falcon
(asyncio) backend keeps everything in PostgreSQL (SQLite in development) and
report files in a Google Cloud Storage bucket; a React frontend, on many phones
and desks at once, works on copies of what it fetched and talks to the backend
over HTTP. This directory holds TLA+ models of the backend's protocols and of the
pages that write, the TLC configurations that check them and TLAPS proofs about
them.

    tlc -config station_phones.cfg StationPhones.tla        one run
    tlapm StationPhones_proofs.tla                          one proof module

## What makes the system hard

* **A statement is atomic, a handler is not.** `DatabaseDriver.execute`
  (`drivers/base.py`) runs every SQL statement on its own, under an
  `asyncio.Lock` and committed at once; no handler opens a transaction. Every
  `await` of a store call is a point where another request of the same process,
  or of the second Cloud Run instance, runs. A "replace" is a DELETE and N
  INSERTs; a "check" is a SELECT some statements before the write it guards.
* **Whole rows are written back.** `UPDATE_VISIT`, `UPDATE_ATTENDEE` and the saves of
  patrols, presets, users and events write every column of a copy read earlier, by
  the handler or, minutes before, by a page.
* **Pages act on what they last saw.** Lists are polled; answers come late, out of
  order or never; few loads are cancelled, and several asynchronous runs of the same
  function continue side by side in one tab.
* **A request may stop anywhere** (a failing statement, a client that goes away,
  an instance that is scaled down: `terraform/cloud_run.tf` allows 0 to 2
  instances). What it has written stays.
* **Tasks without a home.** Reports are generated by `asyncio.create_task` in the
  process that took the POST; the row is in the database, the file in the bucket
  or, when the bucket refuses, in that process's memory.

## Inventory

Backend paths are relative to `src/nightrunner_backend/`, pages to
`src/nightrunner_frontend/src/`.

| Component | State | Operations | What makes it correct | Modelled in |
|---|---|---|---|---|
| Station visits: `transport/visits.py`, `visit_actions.py`, `drivers/store/station_visits.py`; `pages/checkin/CheckInOut.jsx`, `pages/public/PublicCheckIn.jsx` | `station_visits`: a row per visit with status and times; on each phone the list it saw last | check-in, check-out, reset; a submission of scores completes the visit; poll, choose, confirm | only the newest visit is open; a scored attempt is reopened only by a reset, and stays the newest | `StationVisits`, `StationAttempt`, `ScoreRequests`, `StationPhones` |
| Public links: `transport/public_checkin.py`, `event_access_tokens.py`; `pages/admin/events/PublicLinksPanel.jsx` | tokens; the visits through `visit_actions` | create, revoke, resolve, check in and out | a revoked link's page stops working; the public page keeps the contract of the visits | `StationPhones` |
| Scores: `transport/scores.py`, `drivers/store/scores.py`; `pages/scoring/` | `scores`: rows kept as history, `active` marks the counted one; the form with its prefill and timers | submit (per entry: deactivate, insert; then the visit), deactivate all, PATCH active; open, fill, review, confirm | one counted row per task; a scored task stays counted; nobody gets another patrol's answers | `ScoreRequests`, `ScoringPage` |
| Finalized results: `transport/scores.py`; `pages/admin/reports/Finalizer.jsx` | `event_finalized_results`; the page's settings and what it loaded | load, edit, compare, save (replace), final report | one result per line; saved results are whole; the report prints what was shown | `FinalizedResults`, `Finalizer` |
| Compiled reports: `transport/compiled_reports.py`, `reports_gcs.py`, `drivers/store/compiled_reports.py`; `pages/admin/reports/Reports.jsx` | `compiled_reports` rows, bucket objects, `_LOCAL_STORAGE` per process, running tasks; the page's list | queue, generate, mark, download, delete; poll, load | ready rows have a file; deleted reports leave none; generation ends, and the page sees it end | `CompiledReports`, `ReportsPage` |
| Roster import: `transport/roster.py`, `services/roster_import.py`, `drivers/store/roster.py` | attendees (source key + ordinal), previewed plans | preview, apply, add, edit, set status | a row applied again updates its person, a known person's row creates nobody; ordinals are contiguous; a status set meanwhile survives | `RosterImport` |
| The gate: `pages/arrivals/Arrivals.jsx`, arrivals in `transport/roster.py` | arrivals; the page's list, batch of new people and detail | add, check in (one, a troop, whoever was added), undo, mark, edit, refresh | nobody is added twice; the counts agree with the list | `Gate`, `RosterPages` |
| Patrols: `transport/patrols.py`, `drivers/store/patrols.py`; `pages/admin/patrols/` | patrols, numbers, members; the editor's form and the picker | create (next number), edit members, save, delete | numbers differ; a youth is on one patrol and leaves it only on purpose | `PatrolEditors` |
| Task lists: `drivers/store/stations.py`, `configuration.py`; `StationEditor.jsx`, `ConfigurationEditor.jsx` | `station_tasks`, and the same list as JSON; the form's list and its panel | add, edit, delete, import, choose a preset, save (merge or replace) | no task is lost by an edit of another; a save leaves what was sent | `TaskLists` |
| Preset library: `transport/configuration_groups.py`, `configurations.py`; `Configurations.jsx` | types, presets filed under them; two lists on each page | create, rename, delete types; file, delete presets; refresh | deleting a type takes no preset with it | `PresetLibrary` |
| Users: `transport/users.py`; `UserManager.jsx` | users, user_roles, station_staff; copies on each page | set status, role, stations; delete | a status stands until somebody changes it; one role each | `Accounts` |
| Session: `UserService.js`, `AuthServiceProvider.jsx`, `EventContext.jsx`, `EventSelector.jsx` | token, cached profile, event shown, localStorage | sign in and out, start, pick, clear, reload | the pick of the user stands | `EventSession` |
| Events: `transport/events.py`, `drivers/store/events.py`; `EventManager.jsx`, `EventCreator.jsx` | events, event_organizers; the form | create, save, delete, switch | details are saved to their own event; organizers survive a save | `EventForms` |
| Migrations: `drivers/base.py` | `_migrations`, the schema | run at start | each file runs once | not modelled |
| Aggregation: `troop_results.py`, `AGGREGATE_EVENT` | none | weigh and sum scores | readers of the same scores agree | not modelled |
| PDF and ODS layout, views, styling, terraform, workflows, samples | none | pure output and deployment | | not modelled |

How they interact: handlers call stores, stores call the driver; `public_checkin`
and `visits` share `visit_actions.check_in` and `check_out`; a score submission
writes the visit of its patrol; the Finalizer saves what it computed and then asks
for a report, which reads what is stored; the import, the gate and the patrol
editor work over the same attendees; every page reads its event from
`EventContext`; deleting an event cascades through the foreign keys.

## Modules

One module per component, composed where components interact: `StationPhones`
extends `StationAttempt`, `Finalizer` extends `FinalizedResults` and `ReportsPage`
extends `CompiledReports`; `ScoreRequests` and `StationAttempt` share `StationVisits`.
`ScoresToReports`, `RosterPages` and `OfficePages` put modules that share no modelled
state into one run: a behaviour is of one area (chosen in `Init`) and the others stay
as they are at first.

### `StationVisits`, `StationAttempt`: the contract of the visits
`StationVisits` is the vocabulary of one patrol at one station: what a visit row
is, which row `GET_ACTIVE_VISIT` and `get_latest_visit` answer, and what each
handler writes. Times are abstracted to whether they are set. Rows are kept in the
order of created_at, which the handler takes from its own clock just before the
INSERT. `StationAttempt` takes each handler as ONE step: what the handlers promise
when nobody interferes.

* `OnlyLatestOpen`: only the newest visit is open. `check_in` tests the latest
  row and writes the open one, so this is what makes its test mean anything.
* `CompletedUntilReset`, `HistoryFrozen` (proved, in no run): only a reset takes a visit out of
  "completed"; older visits are never written again.

### `StationPhones`: the pages around the contract
A signed-in phone, a phone behind a public link, and a scorer. A page keeps the list
it saw (`seen`) and, from the moment a patrol is chosen, what the action is based
on (`basis`: the signed-in page fixes it at the choice, the public page at the
tap). Lists are sent by a poll, after a write and on opening; each is read
(`ReadList`), then received or lost, in any order. `TakeAction` is the request with
its answer, which may be lost; `Revoke` ends the public link, whose page then goes
`Dead`. History: `stale`, some action was taken by the server when its basis was
no longer the latest status.

* `ScoredStaysNewest`: a scored visit is buried under a newer one only after a
  phone acted on an outdated list. (A check-out of a completed, closed visit finds
  nothing open and inserts a row.)
* `OnlyLatestOpen` and `CompletedUntilReset`, with the phones around them.

### `ScoreRequests`: the handlers, statement by statement
A request in flight is a record (`req[c]`): its operation, the next statement,
the entries still to record, and the copy of the row it read. `Abort` drops it
anywhere. `CreateScore` lets an entry say `"active": false`, as the payload may.
History: `since`, how many score rows existed at the submission's deactivate, and
`off`, tasks that were switched off by hand or abandoned between the two statements.

* `DoubleCountNeedsOverlap`: two counted rows of one task come from submissions
  that overlapped between deactivate and insert, and from nothing else.
* `ScoredTaskCounted`: a scored task has an active row, unless a correction
  stands between its two statements or the task is in `off`.
* `AttemptContract`: with `Overlap = FALSE` the module implements
  `StationAttempt` (`INSTANCE StationAttempt`; every statement maps to a handler's
  step or a stutter), aborts included.

### `ScoringPage`
One station's page and a scorer who goes from patrol to patrol. An answer is
abstracted to the patrol it was entered for (`form.of`), with timers, boxes without
a reason and blanks kept as they decide what may be sent. The rows of a selected
patrol arrive by a fetch; those of the patrol before stay on the page meanwhile, and
a correction is filled from the rows that are there when its preparation ends.

A value is "blank" if the form has none, or an emptied number where the review asks
for a number. Where it asks for nothing in particular (`Loose`: texts, challenges,
untyped numbers) an emptied field is a value, "empty" (`EmptyValue`): it passes the
review, is sent, and is recorded as a zero.

* `ForeignAnswersNeedHaste`: a patrol gets another's answers only if a correction
  was opened before its rows had arrived or the patrol was changed while the form
  was being prepared.
* `SentIsSettled`: nothing is sent with a timer running, a disqualification without
  a reason or a value blank, though timers run on after the station's completion
  time was set.
* `OnlyOptionalUnanswered` says what the form's comment says, that only the optional
  tasks reach the review unanswered. The empty ones do too: run `unanswered`.

### `FinalizedResults`, `Finalizer`
`FinalizedResults` is `save_finalized_results`: one DELETE and one INSERT per line.
`log` records the saves in the order of their DELETEs and who was in flight at each;
a row carries the save that wrote it. `Finalizer` is the page of one of the savers:
loads (not cancelled, several at once, one of them possibly of the event shown
before), edits, the save, and the reports that may first save: the final one, and the
spreadsheet, which can also be asked for with nothing stored. Settings are a member
of `Sheet`: two sheets give different results. Nothing on the page compares the event
it shows with the one selected: after a switch whose load failed, the screen and the
stored results it is compared with are the former event's, and a save or a report is
for the event selected now. A request for the stored results that fails counts as none
(`Gets`).

* `AnsweredIsWhole`: the newest save that was answered is in the table.
* `StaleNeedsOverlap`: a row of an older save is left only if that save was in
  flight at every later DELETE.
* `WholeUnlessTrouble`: an answered save holds exactly this event's lines, computed
  from all the reports, unless a load failed, lost a station's report or was
  overtaken (`trouble`).
* `ReportOfScreen`: what the server builds from the table for a report is what the
  screen showed, but for the exceptions its comment lists. Two are the page's own: with
  nothing stored it does not compare, and it does not notice that it still shows
  another event, which takes a load that failed or was overtaken (`Misplaced`).

Between the DELETE and the last INSERT a reader finds a part of the results; the
model has these states and no property forbids them.

### `CompiledReports`
The POST that inserts the row and starts the task, the task (upload, then
`mark_report_ready`; any exception leads to `mark_report_failed`), and the DELETE
(read the row, remove the file it names, delete the row), over the database, the
bucket and the memory of every process. `Reliable = FALSE` lets statements raise
(before or after their effect), the bucket refuse and processes stop (`Stop`).

History: `excused`, `removed` (a copy of the file was removed) and `refused` (the bucket
did not confirm the upload, or there is none).

* `ReadyHasFile`, `OrphanNeedsExcuse`, `DeletedStaysDeleted` hold whatever fails.
* `ReadyIsDownloadable`, whatever fails: a ready report is served by every process. If
  the bucket did not take its file, only the process that generated it can serve it;
  and it is gone once a DELETE has got as far as its file or that process has stopped.
* `StillBeingGenerated`, `GenerationEnds` hold when nothing fails: a process that stops
  leaves its row "generating" for ever.

One task stands for the five `_background_generate_*` functions, which differ
only in what they print. Ids are taken as distinct (the loser of a collision on
the millisecond fails on the primary key and changes nothing).

### `ReportsPage`
The page that lists the reports of its event. Every request of the page is a record
in `lists`: a load of the choice of event, the interval or the button (`Load`), or
the POST or DELETE of a button, which ends with a load of the event shown when it was
pressed. Loads are sent, read and received as three steps in any order, and may
fail. Colleagues' requests and the tasks are the steps of `CompiledReports`. History:
`doubt`, the event was chosen with requests in flight, or a load has failed since.

* `ListIsOfEvent`: a page at rest lists the reports of the event it shows, unless
  in doubt, although the list of the event before stays until another arrives.
* `ShownEnds`: what the page shows as being generated does not stay so while the page
  is open. The interval runs off the list that is shown, whichever event and answer
  it came from, so an older answer that arrives last starts it again.

### `RosterImport`
The roster of one event under several operators. A person keeps the
`source_key` (here: the normalised name) and `key_ordinal` they were created with;
`UPDATE_ATTENDEE` writes everything else. `Preview` is `build_plan` on one read of
the roster, followed by the operator's approval of some rows; the apply handler then
goes row by row: `FindByKey`, and on a miss `ReadRenamed` or `NextFreeOrdinal`, each
followed by its write. `AddByHand` and `EditByHand` share the last statements;
`SetStatus` is the PATCH, and `Abort` ends a request anywhere. `Similar` is the
relation "same troop, same last name, first names one letter apart". History: `sure`
(the preview matched a person nobody had renamed), `made` (how many people a row has
created), `low` (one of them was numbered below the row), `stale` (somebody wrote the
person since it was read).

* `OrdinalsContiguous`: the people of one key are numbered 1, 2, ... without gap
  or repeat: two creations that computed the same ordinal are settled by the
  unique index, and nobody is ever deleted.
* `SecondNeedsLow`: applied any number of times, with anything in between, a row
  creates a second person only if one it created was numbered below the row, and never
  more people than its ordinal. The docstring promises more, "re-applying the same rows
  updates rather than duplicates" (`ReapplyUpdates`), and run `reapplied` refutes it:
  with only the second of two duplicate rows approved, the first application creates
  ordinal 1, the next finds no ordinal 2 and creates one more.
* `KnownRowsUpdate`: a row that the preview showed as a known person never
  creates one, provided nobody of that name had been renamed (the preview matches by
  the current name, the apply by `source_key`, which a rename does not write).
* `StatusUndoneByStale`: an import or an edit changes a status only if somebody
  wrote the person between its read and its write.

`DELETE attendees/{id}` has no action: the store names a statement,
`DELETE_ATTENDEE`, that is not defined anywhere, so the request fails after its
read. Among people who came to share a name by a rename, whose ordinals may tie,
the stable sort of `build_plan` is taken to keep the order of insertion.

### `Gate`, `RosterPages`
The page at the gate in detail, colleagues in single steps. A summary is read by two
queries (the roster, then the arrivals), a list of new people is sent one after the
other, a troop is checked in by a loop over its members that can overlap
with another loop.

* `AddedOnce`: somebody added at the gate has two rows only if colleagues added
  people too, a batch or the load after it failed, or an older list arrived last.
* `HereAreListed`: the number of those here counts nobody missing from the list
  below it, unless somebody was added between the two queries of that summary.

### `PatrolEditors`
Two organisers, each with the list, the editor, the picker of a troop and the form.
A member row refers to its attendee or only bears the name. The statements of one
update are one step that may fail after any member.

* `NumbersDiffer`: two patrols share a number only if a page saved that no longer
  knew what was stored (`misfit`), which includes overlapping creations.
* `LossHasCause`: a youth disappears from a patrol only because the organiser whose
  save is taken removed them, worked from another form than was stored, or the save
  failed half-way.

### `TaskLists`
One organiser's list of a station's or a preset's tasks, with the panel that
remembers its task by position while the buttons of the list stay live; colleagues
save in single steps, also between the save's read and its writes. The list is stored
as rows of `station_tasks` and as JSON in the row of the station or preset; it is read
from the rows, or, when there are none, from the JSON (`Read`). A station saved without
tasks has its JSON cleared, a preset keeps it (`Column`); a save writes the JSON first
and the rows one by one, so a save that fails may be read back from the JSON.

* `TaskLostBySlip`: a task the page loaded leaves the list only by the organiser's
  hand, unless one was deleted while another was edited.
* `SavedAsSent`: the database refuses a list only after such a slip, an import or
  another's save; after an answered save the active tasks that are read are exactly
  those sent. The exception is a preset sent without tasks: its rows go, its JSON stays,
  and it is read with the tasks of its last save that had any. No sentence of the
  repository says otherwise, so the property states it instead of a run refuting it.

### `EventSession`
The asynchronous runs of `initializeEvent`, `selectEvent` and `openEventSelector`
are a bag (`runs`), each with what it knew when it started; nothing cancels them.
The cached profile and the last event survive a reload in localStorage. The selector
waits for the event that was chosen in it (`choosing`), but can be closed and opened
again, so several picks may be in flight; the header opens it for whoever is signed in.
Signing out drops the cached profile with Firebase and keeps it with OIDC.

* `PickStands`: the event picked in the selector stays the one shown, reloads
  included, until it is cleared or the user signs out, unless another run was in
  flight at the pick or the profile has changed since.

### `Accounts`
Two pages of the user manager. A press of "Save Changes" is up to three handlers, a
handler a list of statements; `record` keeps, per account, what was last chosen and
whether requests overlapped or failed.

* `StatusStands`: a blocked account stays blocked, and an unblocked one unblocked,
  until somebody chooses otherwise for that very account, but for the exceptions its
  comment lists.
* `OneRoleEach`: an account given a role has exactly one, though each save deletes
  and inserts it, unless requests overlapped or failed half-way.

### `PresetLibrary`
The page forbids deleting a type that has presets by looking at its own list; the
database deletes the presets along with the type. Refreshes and calls in flight are
records (`errands`) that end in any order or fail.

* `NoPresetTaken`: a deleted type takes no preset with it that was filed before its
  organiser opened the page, unless the page failed to load.

### `EventForms`
The page of an event's details in one tab, the selection of events behind it, and
colleagues; an event's row, the DELETE of its organizers and their INSERTs are
statements of their own.

* `OwnDetails`: details entered for one event are never saved over another's,
  although the answer to a save is put into the form whichever event is shown,
  unless selecting the saved event again failed.
* `OrganizersKept`: no save costs an event its organizers unless one failed
  half-way or an event was read while being saved.

### `ScoresToReports`, `OfficePages` and the MC modules
`ScoresToReports` composes `ScoringPage`, `ScoreRequests` and `CompiledReports`: the
page takes a submission as one step, which `ScoreRequests` takes apart, and reports
are compiled of whatever is recorded. `OfficePages` composes `PatrolEditors`,
`TaskLists`, `EventSession`, `Accounts`, `PresetLibrary` and `EventForms` by area, as
said above; `OfficeTypeOK` is the type of the area at work. `MCScoreRequests`,
`MCScoresToReports`, `MCFinalizer`, `MCRosterPages`, `MCPatrolEditors` and
`MCOfficePages` add the symmetry sets (and, for the roster, its relation and sheets)
and the two constraints named below. The permuted constants are model values that no
definition tells apart, and no symmetric run checks liveness.

## Runs

| Run | Module | Bounds | Shows |
|---|---|---|---|
| `station_phones` | `StationPhones` | 1 signed-in and 1 public phone, 2 visits, 1 list in flight per phone | the contract of the visits, and when a scored visit is buried |
| `scores_overlap` | `MCScoreRequests` | 2 clients, 1 task, 1 visit, 2 scores, 2 entries | scores under overlap and abort |
| `scores_to_reports` | `MCScoresToReports` | page: 3 patrols, 1 task each timed, pass/fail, number, text, disqualification; handlers: 2 visits, 2 scores, 2 entries, one request at a time; reports: 2 reports, 2 processes, 1 DELETE, every failure | whose answers are stored and what is sent; refinement of the contract; where reports can be served and what is left of them |
| `finalizer` | `MCFinalizer` | 2 savers, 2 own lines and 1 foreign, 2 sheets, 2 saves, 2 loads | saves under overlap and failure, with the page that makes them |
| `reports_reliable` | `ReportsPage` | 1 report, 1 process, a DELETE of the page and one of a colleague, 2 loads beside those after a request | reports without failures of the backend, and the page with loads that fail; liveness |
| `roster_overlap` | `MCRosterPages` | import: 2 operators (sheets of 2 and of 1 row), 2 names one letter apart, 3 people (the third while one operator imports), 1 status set; gate: 1 walk-in, 2 rows, 1 mark by colleagues, 2 loads | the roster under overlap, retry and abort; the gate's list |
| `office_pages` | `MCOfficePages` | patrols: 2 pages, 2 patrols, 1 youth, numbers to 2; tasks: 2 stored, 1 new, 1 foreign, list of 2, 1 scored; session: 2 users, 2 events, 3 runs; accounts: 2 pages, 2 accounts, 2 roles, 2 presses; library: 2 pages, 1 type, 1 preset, 1 write, 1 errand; events: 2 events, 2 saves, 2 picks | the organisers' pages, one area to a behaviour |

Why the bounds are enough to be interesting: two clients (phones, pages, savers)
give every pairwise interleaving, and every hazard found needs two; two visits are
needed for "newest" and "older" to differ; two lines and two saves let a save be
overtaken while half inserted, and a foreign line lets another event's load arrive
late; three people let a row of ordinal 2 be applied over
its own first creation and once more, which is what `SecondNeedsLow` could be broken by;
two reports let one task's steps fall between another's, two processes give
the memory fallback its wrong reader, and two loads at once let the older list of
the page arrive last; a sheet of two rows holds a duplicate, a rename
next to its old name, or two different people; a list of two tasks is the shortest
in which a deletion moves another task under the panel; three runs in a session are
a start, a pick and a refreshed list at once. The proofs hold for every
value of these bounds; beyond the runs, `PresetLibrary` was also
checked with two errands per page and `EventForms` with three saves and three picks,
with the same results. Two runs have a constraint, in their MC modules: `NoneForeign`
stops following the scoring page once a patrol has another's answers (which
`ForeignAnswersNeedHaste` then had to excuse), and `ThirdWithOneImport` follows a third
person only while the second operator has no plan. The runs take from a second to about
three minutes; the largest are `finalizer` (2.6 million states), `roster_overlap` (1.7
million) and `office_pages` (0.9 million). `CHECK_DEADLOCK FALSE` stands only where the system really
stops: all reports ended, or a bound on saves, runs or presses used up.

### Disagreements with the repository's own words
Each is a run that ends in a counterexample; `PROJECT.json` quotes the sentence.

| Run | What happens |
|---|---|
| `double_count` | two overlapping submissions both deactivate, then both insert: the task counts twice |
| `walk_back` | a check-out that read the visit before a submission completed it writes "checked_out" over "completed" |
| `placed_twice` | one organiser, without any failure, edits a member who came from the picker: the member loses the link to the roster, and the picker offers the youth for another patrol |
| `unanswered` | a scorer empties a text field and opens the review, which by the comment lists only optional tasks as unanswered: the empty text passes the check for missing tasks, and would be recorded as a zero |
| `reapplied` | one operator, without any failure, applies twice the second of two duplicate rows: the first creates the person as number 1, the second finds no number 2 and creates another |

## Fairness
Liveness is stated of the compiled reports. `FairPageSpec` assumes weak fairness of
each report's task: the event loop schedules every task that is not waiting, and the
page's polling keeps the instance served with CPU. It assumes weak fairness of the
poll (`setInterval` fires every 2.5 seconds until its effect is cleaned up) and strong
fairness of a load being read and of its answer arriving: any one load may fail, but
a page that polls again and again is answered in the end. What users press (POST,
DELETE, the choice of an event) is under no fairness. `GenerationEnds` and
`ShownEnds` are checked with `Reliable = TRUE` only: an instance that stops ends the
task, and nothing restarts it. The other pages promise nothing of the kind: a request
that is lost is not sent again, and what the volunteer does next is theirs to decide.

## Proofs

Every safety property that a passing run checks is also a theorem of the
specification with unconstrained constants: any number of visits, phones, savers,
lines, reports, processes, loads, operators, names, people, patrols, users, types
and presets. The constants have only the assumptions their modules name. Nearly all
of these keep sets and markers apart or say that a bound is a number; the others are
that the tasks stored at first are finitely many and within the list's bound
(`TaskLists`), that there are finitely many events to fall back on (`EventSession`),
and that at most one task disqualifies (`ScoringPage`). Where a theorem needs more, its ASSUME says so:

| Hypothesis | Theorems | Why |
|---|---|---|
| `~Overlap` (a request is served before the next arrives) | `AttemptContractHolds`, `OneScorePerTaskWhenSerial`, `CheckOutKeepsCompletedWhenSerial` | with overlap they are false: runs `double_count`, `walk_back` |
| `Reliable` (no statement or upload fails, no instance stops) | `StillBeingGeneratedHolds`, and that part of `ReportsPageSafe` | an instance that stops leaves a row "generating" that no task works on |

* `StationVisits_proofs`: lemmas about the operators on rows, cited by the two
  modules below: what `UpdateRow` and `InsertRow` leave alone, and that the active row
  is the latest when only the latest is open (`ActiveIsLatest`).
* `StationPhones_proofs`: in `StationAttempt`, `TypeOK /\ OnlyLatestOpen` is
  inductive. Every step writes at most one row, the latest, and inserts only when no
  row is open (`StepShape`); from that follow `CompletedUntilReset` and
  `HistoryFrozen`. Every step of the phones is a step of `StationAttempt` or leaves
  the visits alone, so `PhonesSpec => Spec` (`PhonesKeepContract`) and the contract's
  theorems carry over. `ScoredStaysNewest` is inductive only next to the type and
  `OnlyLatestOpen` (`PhonesInv`): a check-in whose basis is the latest status finds
  that visit open or starts the first row after a departure, and never inserts over a
  scored one.
* `ScoreRequests_proofs`: with requests overlapping, `DoubleCountNeedsOverlap` and
  `ScoredTaskCounted` need what the two statements of a submission owe each other:
  between deactivate and insert, the counted rows of the task are those inserted
  since (`Behind`). Without overlap, what a request has read is still so when it
  writes (`Undisturbed`) and nothing is inserted between its two statements (`Since`);
  then only the last write of a handler changes the visits, and it is the handler's
  step in `StationAttempt`: `AttemptContractHolds` is the refinement, step by step.
  `OneScorePerTaskWhenSerial` and `CheckOutKeepsCompletedWhenSerial` are the two
  violated properties under the one condition that makes them true.
* `ScoringPage_proofs`: `SentInv` (a form under review has nothing unsettled, and
  only such a form is sent) is inductive because the review covers the form.
  `OwnInv` follows an answer's owner through every place it can be in: the record,
  the request, the rows on the page, the rows held for a correction and the form.
* `Finalizer_proofs`: what the table of `FinalizedResults` promises depends on what the
  requests in flight still owe. `IInv` adds that a request owns its save (`Owned`), that
  later DELETEs saw it (`Seen`), and that the newest save has inserted what it no longer
  has to (`Progress`). The page implements that module (`FinalizerKeepsContract`), whose
  theorems carry over. `WholeUnlessTrouble` rests on `Calm`: without trouble every load
  in flight is of the event shown and there is at most one, and a page that does not
  load shows its event's lines; so whatever is sent is whole. `ReportOfScreen` relates
  what the page shows, what it loaded and what is stored, and none of the three is
  inductive alone. `StillStored` says when what was read remains true: the newest save
  is the one that was known and did not begin over another, and what was found is one
  sheet's results, hence this event's (`Current`). `Truthful` says it of the page, of
  each load in flight and of each answer; `Owes` that whoever still inserts for the
  newest save is the one who began it; `OneEvent` that a save's lines are those of one
  event. A table with nothing left to insert for the newest save is exactly that save's
  results (`NewestAlone`).
* `CompiledReports_proofs`: the database and the bucket meet only in the order of each
  actor's steps. `Past(r)`, the task is behind its upload, carries it: a row is named
  only then, so a DELETE that reads a name meets a file that nobody uploads again, and
  one that reads none is the excuse (`DeleteInv`). One lemma (`TaskMoves`) serves every
  step that moves a task without touching files. For downloads, `Kept` says that what
  was uploaded is in the bucket, or with the process of its task if the bucket refused
  it, until somebody removes it; nothing else takes a copy away, so this needs no
  assumption about failures. The page only takes steps of the reports
  (`ReportsPageKeepsContract`), so these carry over (`ReportsPageSafe`). `ListIsOfEvent`
  needs `FlightInv` (without doubt, whatever is in flight is of the event shown) and
  `CallInv` (a request still being served has loaded nothing, so its load is sent for
  the event it was pressed for).
* `RosterPages_proofs`: people are only appended, with their key and ordinal
  fixed (`Grows`), so what was found once can be found again: that carries `RowInv`
  (after a row has created n people, ordinals 1 to n of its key are taken, so a lookup
  of its ordinal that misses says that n is smaller; if none of them was numbered below
  the row, the row's own ordinal is taken and no lookup misses again, hence
  `SecondNeedsLow`; a row shown as known has its ordinal taken from the preview on,
  hence `KnownRowsUpdate`) and the numbering.
  `ReqInv` ties a request in flight to its row and to the person it read: the copy's
  status is the person's unless it is stale, and the ordinals below the one about to
  be inserted are taken, which is all that needs to survive other creations, since the
  unique index checks the ordinal itself. At the gate, `AddedOnce` rests on what the
  page knows (`KnowsAdded`): a list that misses somebody added is behind a batch that
  is still to reload, and the form is open again only when that load has arrived;
  `OneBatch` says that there is one such load, and `GateLists` that every row held
  anywhere is on the roster. `RosterPages` implements both modules
  (`RosterPagesImplement`), and so inherits all of it (`RosterPagesSafe`).
* `OfficePages_proofs`, area by area, each with its own invariant; then every step
  of `OfficePages` is a step of each area or leaves it alone (`OfficeImplementsPages`),
  so all of it holds there (`OfficePagesSafe`).
  * Presets: `PageKnows` (a page that is not loading agrees with the table on every
    preset filed before it was opened) and `CallsKnow` (a deletion already sent is of
    a type without such presets) together give that nothing is lost.
  * Patrols: `FormFits` ties an editor to the table for as long as it is fresh: its
    number is its patrol's, or nobody's, and whoever is a member in the table is one in
    the form or was dropped there.
  * Task lists: `FormHolds` says of the form, and of the one that was closed, that what
    the user kept is in its list unless a slip took it; that follows from the list
    having no task twice (`Orderly`), the panel editing the task at its position
    (`InPlace`), and that task being nowhere else (`PanelFits`). What is on its way to
    the server is fit for the rows (`Storable`), so no row refuses it, and the JSON is
    already that list, or that of an emptied preset (`JsonOf`).
  * Session: once the user has chosen an event, every run in flight either shows that
    event or none (`LeadsTo`); the fallback needs that the saved event is of the user
    whose profile is cached (`SavedByUser`) and that this user may see what was chosen
    (`PickAllowed`).
  * Users: requests are counted, since two that look the same may be under way.
    `StatusComes` says that the status chosen last is in the table or under way,
    and every other that is under way is the same; `RolesWhole` that between the
    deletion of roles and the insertion of one, the request that inserts is the only
    one that touches roles.
  * Events: `OneAtATime` (a save, a deletion or the selection that follows a save)
    gives that the form has the details of the event it will be saved to
    (`FilledFor`); `Brought` says that whoever saves an event with organizers sends
    them, and that they are in the table or about to be inserted.

Most of these arguments start from "unless": each property names the events that
excuse it (`trouble`, `stale`, `misled`, `crossed`, ...), and the invariant says what
holds for as long as none of them has happened.

Model-checked only: liveness, `GenerationEnds` and `ShownEnds`, since the prover
handles neither fairness nor ENABLED. The five properties expected to be violated
are false. TLAPS cannot instantiate the induction rules over data and loses its SMT
backend in modules with RECURSIVE operators; no module that is proved about
declares one.

## Not modelled

* **Arithmetic**: weights, ranges, time scoring, ranks and ties, aggregation, and
  the layout of PDF and ODS files. They are functions of what the database holds,
  without state or protocol. In `ScoringPage`, a range-rated task divided by patrol
  size is part of the model (`Divided`) but of no run: its answer is a record where
  the review asks for a number, so no form with such a task can be sent at all.
* **Migrations** (`drivers/base.py`): a file's statements and its record are
  separate commits, and two instances starting together run it twice; what that
  does depends on each SQL file.
* **First sign-in**: two first requests of a new user both try to insert the
  account, and the loser is answered 401 although the account now exists; the
  refusal of blocked accounts and the system-administrator flag are left out too.
* **Cascades of an event's deletion**, among them the rows of its compiled reports,
  whose files stay in the bucket.
* **Audit log, contact data, radios, QR codes, token creation, the progress board**:
  written or read, never read back by a decision.
* A public link that is revoked between the resolution of its token and the write of
  the visit: the revocation in `StationPhones` falls before or after a request.
* **Deployment**: its scaling limits justify the processes and stops the models assume.

## Plan

Done, in this order: visits, scores, finalized results, compiled reports and roster
import with their proofs; then the pages around them (phones, scoring, finalizer,
gate, reports), the organisers' pages, and the proofs of every safety property that
the passing runs check.

Left, in the order of what they would add:

1. First sign-in as statements, next to `Accounts`: two first requests of a new user.
2. Aggregation as functions over active rows, against the newest-active-row reader
   in `troop_results.py`.
3. The revocation of a public link between the resolution of its token and the write
   of the visit, next to `StationPhones`.
