--------------------------------- MODULE Gate ---------------------------------
(***************************************************************************)
(* The gate: people checked in as they arrive (Arrivals.jsx), on one page  *)
(* in detail while colleagues do the same on others.                       *)
(*                                                                         *)
(* The page is a list that is reloaded after every request and by a timer; *)
(* no load is cancelled, so the answers may come in another order than the *)
(* server took the requests.  A request about one row is sent, taken and   *)
(* answered in one step.  A summary is read by two queries, the second of  *)
(* which is taken with the answer.  Left out are contact data, the times   *)
(* of arrival, troops, and who is marked as not coming.                    *)
(***************************************************************************)
EXTENDS Naturals, FiniteSets, Sequences, SequencesExt

CONSTANTS
    Guest,
    Expected,    \* those on the roster before the event
    MaxRows,     \* bound on the attendee rows of one person
    MaxMarks,    \* bound on the arrivals recorded and taken back
    MaxReads     \* bound on the loads on their way

ASSUME GateAssumption == /\ Expected \subseteq Guest
                         /\ MaxRows \in Nat \ {0} /\ MaxMarks \in Nat /\ MaxReads \in Nat

VARIABLES
    roster,      \* the attendee rows, and those of them who have arrived
    phone,       \* the page
    reads,       \* its loads, in the order in which the server took them
    marks,       \* how often an arrival was recorded or taken back
    misled       \* history: adding people failed, the load after it failed, a
                 \* colleague added people, or an older list arrived last

gateVars == <<roster, phone, reads, marks, misled>>

\* The rows of one person are told apart by key_ordinal.
Attendee == Guest \X (1..MaxRows)
Walkin == Guest \ Expected

RosterState == [listed : SUBSET Attendee, here : SUBSET Attendee]
Nobody == [listed |-> {}, here |-> {}]

\* torn: somebody was added between the two queries of this summary.
Summary == [roster : RosterState, torn : BOOLEAN]

\* ends: what waits for this load, if anything does.
For(what) == <<what, 0>>
Read == [listed : SUBSET Attendee, torn : BOOLEAN, late : BOOLEAN,
         ends : Attendee \cup {For("nobody"), For("batch")}]

\* detail: the row in the modal of one person.  asking: it has a button to
\* check that person in.  troop: what is left of the loop over a troop.  form:
\* the people typed into the modal that is open.  adding, created: what is left
\* of a batch, and its attendee to be checked in.
PhoneState ==
    [list : Summary, detail : SUBSET Attendee, asking : BOOLEAN,
     troop : SUBSET Attendee, open : BOOLEAN, form : SUBSET Guest,
     busy : BOOLEAN, adding : SUBSET Guest, created : SUBSET Attendee]

GateInit ==
    /\ roster = [Nobody EXCEPT !.listed = Expected \X {1}]
    /\ phone = [list |-> [roster |-> Nobody, torn |-> FALSE],
                detail |-> {}, asking |-> FALSE, troop |-> {}, open |-> FALSE,
                form |-> {}, busy |-> FALSE, adding |-> {}, created |-> {}]
    /\ reads = <<>>
    /\ marks = 0
    /\ misled = FALSE

OnPhone(f) ==
    /\ phone' = f
    /\ UNCHANGED <<roster, reads, marks, misled>>

-----------------------------------------------------------------------------
(* Loading the list.                                                       *)

\* The first query, of the attendees.
ReadFor(ends) ==
    [listed |-> roster.listed, torn |-> FALSE, late |-> FALSE, ends |-> ends]

MayRead == Len(reads) < MaxReads

\* The effect that loads, and the timer.
Poll ==
    /\ MayRead
    /\ reads' = Append(reads, ReadFor(For("nobody")))
    /\ UNCHANGED <<roster, phone, marks, misled>>

\* What waited for the load goes on.
Released(f, ends) ==
    [f EXCEPT !.busy = @ /\ ends # For("batch"), !.open = @ /\ ends # For("batch")]

\* The loads taken before this one are late from now on, which is of interest
\* as long as the page is not misled.
Overtaken(k) ==
    [j \in 1..(Len(reads) - 1) |->
        IF j < k THEN [reads[j] EXCEPT !.late = ~misled] ELSE reads[j + 1]]

\* Mutant: a load renews the arrivals and keeps the people.
LoadArrivesPartly(k) ==
    /\ k \in DOMAIN reads
    /\ phone' = [Released(phone, reads[k].ends) EXCEPT !.list.roster.here = roster.here]
    /\ reads' = Overtaken(k)
    /\ misled' = (misled \/ reads[k].late)
    /\ UNCHANGED <<roster, marks>>

\* The second query, of the arrivals, and the answer.
LoadArrives(k) ==
    /\ k \in DOMAIN reads
    /\ phone' = [Released(phone, reads[k].ends) EXCEPT
          !.list = [roster |-> [listed |-> reads[k].listed, here |-> roster.here],
                    torn |-> reads[k].torn]]
    /\ reads' = Overtaken(k)
    /\ misled' = (misled \/ reads[k].late)
    /\ UNCHANGED <<roster, marks>>

\* load() only shows an error.
LoadFails(k) ==
    /\ k \in DOMAIN reads
    /\ phone' = Released(phone, reads[k].ends)
    /\ reads' = RemoveAt(reads, k)
    /\ misled' = (misled \/ reads[k].ends = For("batch"))
    /\ UNCHANGED <<roster, marks>>

-----------------------------------------------------------------------------
(* The buttons of a row.                                                   *)

Shown == phone.list.roster

\* pending: a row waits until the load that follows its request has ended.
Waits(r) == \E k \in DOMAIN reads : reads[k].ends = r

\* The modals cover the list.
OnGateList == phone.detail = {} /\ ~phone.open

\* Which buttons a row has; "status" marks somebody as coming or not coming.
Offered(r) ==
    IF r \in Shown.here THEN {"undo"} ELSE {"here", "status"}

\* A row's name: a copy of the row goes into the modal ...
SelectDetail(r) ==
    /\ OnGateList /\ r \in Shown.listed
    /\ OnPhone([phone EXCEPT !.detail = {r}])

\* ... and its button, which has the modal ask.
InitiateCheckIn(r) ==
    /\ OnGateList /\ r \in Shown.listed /\ ~Waits(r) /\ "here" \in Offered(r)
    /\ OnPhone([phone EXCEPT !.detail = {r}, !.asking = TRUE])

CancelDetail ==
    phone.detail # {} /\ OnPhone([phone EXCEPT !.detail = {}, !.asking = FALSE])

\* A click beside the modal, and its button "Close", leave the next one asking.
DismissDetail == phone.detail # {} /\ OnPhone([phone EXCEPT !.detail = {}])

\* record_arrival, clear_arrival and update_attendee_status.
Recorded(r, what) ==
    [roster EXCEPT !.here = CASE what = "here" -> @ \cup {r}
                              [] what = "undo" -> @ \ {r}
                              [] OTHER -> @]

Marked == marks < MaxMarks /\ marks' = marks + 1

\* Answered, and the list is loaded; or refused, or the answer lost.
Asked(r, what) ==
    \/ /\ MayRead
       /\ roster' = Recorded(r, what)
       /\ reads' = Append(reads, ReadFor(r))
    \/ roster' \in {roster, Recorded(r, what)} /\ UNCHANGED reads

\* confirmCheckInFromModal: the list may have changed under the modal.
ConfirmCheckIn(r) ==
    /\ phone.detail = {r} /\ phone.asking
    /\ Asked(r, "here") /\ Marked
    /\ phone' = [phone EXCEPT !.detail = {}, !.asking = FALSE]
    /\ UNCHANGED misled

\* saveModalEdit: the attendee's data are sent, and the list is loaded.
SaveEdit ==
    /\ phone.detail # {} /\ MayRead
    /\ reads' = Append(reads, ReadFor(For("nobody")))
    /\ UNCHANGED <<roster, phone, marks, misled>>

Undo(r) ==
    /\ OnGateList /\ r \in Shown.listed /\ ~Waits(r) /\ "undo" \in Offered(r)
    /\ Asked(r, "undo") /\ Marked
    /\ UNCHANGED <<phone, misled>>

SetAttendeeStatus(r) ==
    /\ OnGateList /\ r \in Shown.listed /\ ~Waits(r) /\ "status" \in Offered(r)
    /\ Asked(r, "status")
    /\ UNCHANGED <<phone, marks, misled>>

-----------------------------------------------------------------------------
(* The whole troop.  Loops that run at once are taken together.            *)

\* Those of the troop who are neither here nor marked as not coming.
CheckInTroop ==
    /\ OnGateList
    /\ \E outstanding \in SUBSET (Shown.listed \ Shown.here) \ {{}} :
          OnPhone([phone EXCEPT !.troop = @ \cup outstanding])

\* The next arrival of the loop; the last is followed by a load.
TroopGoesOn(r) ==
    /\ r \in phone.troop
    /\ roster' = Recorded(r, "here")
    /\ phone' = [phone EXCEPT !.troop = @ \ {r}]
    /\ IF phone.troop = {r}
       THEN MayRead /\ reads' = Append(reads, ReadFor(For("nobody")))
       ELSE UNCHANGED reads
    /\ Marked /\ UNCHANGED misled

\* One request fails: the rest is not sent and nothing is loaded.
TroopFails(r) ==
    /\ r \in phone.troop
    /\ roster' \in {roster, Recorded(r, "here")} /\ Marked
    /\ phone' = [phone EXCEPT !.troop = {}]
    /\ UNCHANGED <<reads, misled>>

-----------------------------------------------------------------------------
(* People who are on no roster.                                            *)

\* openAddAttendeesModalForTroop, also at the end of handleAddTroop: the rows
\* are blank again.
OpenAdd ==
    /\ OnGateList
    /\ OnPhone([phone EXCEPT !.open = TRUE, !.form = {}])

\* updateBatchRow: whoever the list does not show.
TypeIn(w) ==
    /\ phone.open /\ \A r \in Shown.listed : r[1] # w
    /\ OnPhone([phone EXCEPT !.form = @ \cup {w}])

RemoveBatchRow(w) ==
    /\ phone.open /\ w \in phone.form
    /\ OnPhone([phone EXCEPT !.form = @ \ {w}])

\* A click beside the modal closes it also while people are being added.
CloseAdd == phone.open /\ OnPhone([phone EXCEPT !.open = FALSE])

\* handleAddAttendees; its button is disabled while a batch runs.
AddAttendees ==
    /\ phone.open /\ ~phone.busy /\ phone.form # {}
    /\ OnPhone([phone EXCEPT !.busy = TRUE, !.adding = phone.form])

\* next_free_ordinal.
FreeOrdinal(w) ==
    CHOOSE k \in 1..MaxRows : /\ <<w, k>> \notin roster.listed
                              /\ \A j \in 1..(k-1) : <<w, j>> \in roster.listed

HasRoom(w) == \E k \in 1..MaxRows : <<w, k>> \notin roster.listed

\* Every load on its way misses the new row.
Enlisted(w) ==
    /\ HasRoom(w)
    /\ roster' = [roster EXCEPT !.listed = @ \cup {<<w, FreeOrdinal(w)>>}]
    /\ reads' = [k \in DOMAIN reads |-> [reads[k] EXCEPT !.torn = TRUE]]

AddNext(w) ==
    /\ phone.busy /\ w \in phone.adding /\ phone.created = {}
    /\ Enlisted(w)
    /\ \E checkIn \in BOOLEAN :       \* autoCheckInNew
          phone' = [phone EXCEPT !.adding = @ \ {w},
                       !.created = IF checkIn THEN {<<w, FreeOrdinal(w)>>} ELSE {}]
    /\ UNCHANGED <<marks, misled>>

CheckInAdded(r) ==
    /\ r \in phone.created
    /\ roster' = Recorded(r, "here")
    /\ phone' = [phone EXCEPT !.created = {}]
    /\ UNCHANGED <<reads, marks, misled>>

\* A request of the batch fails, or its answer is lost.  The form keeps all of
\* its rows and the list is not loaded.
BatchFails ==
    /\ phone.busy
    /\ \/ phone.created # {} /\ UNCHANGED <<roster, reads>>
       \/ \E r \in phone.created : roster' = Recorded(r, "here") /\ UNCHANGED reads
       \/ phone.created = {} /\ phone.adding # {} /\ UNCHANGED <<roster, reads>>
       \/ phone.created = {} /\ \E w \in phone.adding : Enlisted(w)
    /\ phone' = [phone EXCEPT !.busy = FALSE, !.adding = {}, !.created = {}]
    /\ misled' = TRUE
    /\ UNCHANGED marks

\* Mutant: the modal closes without a load.
BatchDoneUnloaded ==
    /\ phone.busy /\ phone.adding = {} /\ phone.created = {}
    /\ phone' = [phone EXCEPT !.busy = FALSE, !.open = FALSE]
    /\ UNCHANGED <<roster, reads, marks, misled>>

\* The list is loaded before the modal closes and the button comes back.
BatchDone ==
    /\ phone.busy /\ phone.adding = {} /\ phone.created = {}
    /\ MayRead /\ \A k \in DOMAIN reads : reads[k].ends # For("batch")
    /\ reads' = Append(reads, ReadFor(For("batch")))
    /\ UNCHANGED <<roster, phone, marks, misled>>

-----------------------------------------------------------------------------
(* Other pages.                                                            *)

ColleagueMarks(r, what) ==
    /\ r \in roster.listed
    /\ roster' = Recorded(r, what) /\ Marked
    /\ UNCHANGED <<phone, reads, misled>>

ColleagueAdds(w) ==
    /\ Enlisted(w)
    /\ misled' = TRUE
    /\ UNCHANGED <<phone, marks>>

GateNext ==
    \/ Poll \/ CancelDetail \/ DismissDetail \/ SaveEdit \/ CheckInTroop
    \/ \E k \in 1..MaxReads : LoadArrives(k) \/ LoadFails(k)
    \/ \E r \in Attendee : \/ SelectDetail(r) \/ InitiateCheckIn(r)
                           \/ ConfirmCheckIn(r) \/ Undo(r) \/ SetAttendeeStatus(r)
                           \/ TroopGoesOn(r) \/ TroopFails(r) \/ CheckInAdded(r)
    \/ \E r \in Attendee, what \in {"here", "undo"} : ColleagueMarks(r, what)
    \/ OpenAdd \/ CloseAdd \/ AddAttendees \/ BatchFails \/ BatchDone
    \/ \E w \in Walkin : \/ TypeIn(w) \/ RemoveBatchRow(w) \/ AddNext(w)
                         \/ ColleagueAdds(w)

GateSpec == GateInit /\ [][GateNext]_gateVars

-----------------------------------------------------------------------------
GateTypeOK ==
    /\ roster \in RosterState
    /\ phone \in PhoneState
    /\ reads \in Seq(Read) /\ Len(reads) <= MaxReads
    /\ marks \in 0..MaxMarks /\ misled \in BOOLEAN

\* Somebody added at the gate has two attendee rows only if colleagues added
\* people too, or the page did not know what it had added: a batch or the load
\* after it failed, or an older list arrived last.
AddedOnce ==
    misled \/ \A w \in Walkin :
        Cardinality({r \in roster.listed : r[1] = w}) <= 1

\* The number of those here above the list counts nobody who is not in the
\* list below it, unless somebody was added between the two queries of this
\* very summary; only then can "coming" be negative.
HereAreListed == phone.list.torn \/ Shown.here \subseteq Shown.listed

=============================================================================
