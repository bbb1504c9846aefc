--------------------------- MODULE ScoreRequests ----------------------------
(***************************************************************************)
(* The check-in, check-out, reset and score-submission handlers for one    *)
(* patrol at one station, statement by statement.                          *)
(*                                                                         *)
(* DatabaseDriver.execute runs each SQL statement alone, under a lock and  *)
(* autocommitted, and no handler opens a transaction: a statement is       *)
(* atomic and a handler is not.  Every await of a store call is a point    *)
(* where another request runs.  A request that has read a row keeps a copy *)
(* of it and later writes the WHOLE row back (UPDATE_VISIT).               *)
(*                                                                         *)
(* A request is abandoned (Abort) when a statement raises, the client      *)
(* disconnects or the instance stops: what it has written stays written.   *)
(***************************************************************************)
EXTENDS StationVisits, FiniteSets

CONSTANTS
    Client,        \* requests that can be in flight at once
    Task,          \* the tasks of the station
    Malformed,     \* a score entry without taskId or scoreValue
    Overlap,       \* FALSE: requests are served one at a time
    MaxVisits,     \* bound on visit rows, for model checking
    MaxScores,     \* bound on score rows, for model checking
    MaxEntries     \* bound on the entries of one submission

ASSUME ConstantsAssumption ==
    /\ Malformed \notin Task
    /\ Overlap \in BOOLEAN
    /\ MaxVisits \in Nat /\ MaxScores \in Nat /\ MaxEntries \in Nat

VARIABLES
    visits,    \* rows of station_visits, in created_at order
    scores,    \* rows of scores, in insertion order
    req,       \* what each request in flight is doing
    off        \* history: tasks whose score was switched off and not replaced

vars == <<visits, scores, req, off>>

Entry == Task \cup {Malformed}
Operation == {"none", "check_in", "check_out", "reset", "submit"}
Step == {"idle", "latest", "active", "write", "scores", "create"}

\* since is history: how many score rows existed when the submission that
\* inserted this row deactivated the previous ones.  restored: switched back
\* on by PATCH /v1/scores/{id}.
Score == [task : Task, active : BOOLEAN, restored : BOOLEAN, since : Nat]

\* row and at are the visit as read and its position (0: none, so insert).
Request ==
    [op : Operation, pc : Step, todo : Seq(Entry), times : PayloadTimes,
     since : Nat, at : Nat, row : Visit]

Idle ==
    [op |-> "none", pc |-> "idle", todo |-> <<>>, times |-> {},
     since |-> 0, at |-> 0, row |-> FirstArrival]

Init ==
    /\ visits = <<>>
    /\ scores = <<>>
    /\ req = [c \in Client |-> Idle]
    /\ off = {}

-----------------------------------------------------------------------------
(* A request arrives.  Validation of the ids happens before any await.     *)

MayBegin(c) ==
    /\ req[c] = Idle
    /\ Overlap \/ \A d \in Client : req[d] = Idle

Begin(c, r) ==
    /\ MayBegin(c)
    /\ req' = [req EXCEPT ![c] = r]
    /\ UNCHANGED <<visits, scores, off>>

BeginCheckIn(c)  == Begin(c, [Idle EXCEPT !.op = "check_in", !.pc = "latest"])
BeginCheckOut(c) == Begin(c, [Idle EXCEPT !.op = "check_out", !.pc = "active"])
BeginReset(c)    == Begin(c, [Idle EXCEPT !.op = "reset", !.pc = "latest"])

AfterEntries(todo) == IF todo = <<>> THEN "active" ELSE "scores"

BeginSubmit(c, todo, times) ==
    Begin(c, [Idle EXCEPT !.op = "submit", !.pc = AfterEntries(todo),
                          !.todo = todo, !.times = times])

Finish(c) == req' = [req EXCEPT ![c] = Idle]

(* The score loop of ScoresResource.on_post.                               *)

SwitchOff(s) == [s EXCEPT !.active = FALSE, !.restored = FALSE]

DeactivateNothing(c) ==
    /\ req[c].pc = "scores" /\ req[c].todo # <<>> /\ Head(req[c].todo) \in Task
    /\ req' = [req EXCEPT ![c].pc = "create", ![c].since = Len(scores)]
    /\ UNCHANGED <<visits, scores, off>>

\* deactivate_previous_scores: every active row of the task.
DeactivatePrevious(c) ==
    /\ req[c].pc = "scores" /\ req[c].todo # <<>> /\ Head(req[c].todo) \in Task
    /\ scores' = [i \in DOMAIN scores |->
                     IF scores[i].task = Head(req[c].todo) THEN SwitchOff(scores[i])
                                                           ELSE scores[i]]
    /\ req' = [req EXCEPT ![c].pc = "create", ![c].since = Len(scores)]
    /\ UNCHANGED <<visits, off>>

CreateInactive(c) ==
    /\ req[c].pc = "create"
    /\ Len(scores) < MaxScores
    /\ scores' = Append(scores, [task |-> Head(req[c].todo), active |-> FALSE,
                                 restored |-> FALSE, since |-> req[c].since])
    /\ off' = off \ {Head(req[c].todo)}
    /\ req' = [req EXCEPT ![c].pc = AfterEntries(Tail(req[c].todo)),
                          ![c].todo = Tail(req[c].todo), ![c].since = 0]
    /\ UNCHANGED visits

\* An entry is counted unless it says "active": false itself.
CreateScore(c) ==
    /\ req[c].pc = "create"
    /\ Len(scores) < MaxScores
    /\ \E on \in BOOLEAN :
          /\ scores' = Append(scores, [task |-> Head(req[c].todo), active |-> on,
                                       restored |-> FALSE, since |-> req[c].since])
          /\ off' = IF on THEN off \ {Head(req[c].todo)} ELSE off \cup {Head(req[c].todo)}
    /\ req' = [req EXCEPT ![c].pc = AfterEntries(Tail(req[c].todo)),
                          ![c].todo = Tail(req[c].todo), ![c].since = 0]
    /\ UNCHANGED visits

\* A malformed entry: 400, and the entries before it stay recorded.
RejectEntry(c) ==
    /\ req[c].pc = "scores" /\ req[c].todo # <<>> /\ Head(req[c].todo) = Malformed
    /\ Finish(c)
    /\ UNCHANGED <<visits, scores, off>>

-----------------------------------------------------------------------------
(* The reads of the visit handlers.                                        *)

Hold(c, i) ==
    req' = [req EXCEPT ![c].pc = "write", ![c].at = i,
                       ![c].row = IF i = 0 THEN FirstArrival ELSE visits[i]]

ReadLatestUnguarded(c) ==
    /\ req[c].op = "check_in" /\ req[c].pc = "latest"
    /\ req' = [req EXCEPT ![c].pc = "active"]
    /\ UNCHANGED <<visits, scores, off>>

ReadLatestCheckIn(c) ==
    /\ req[c].op = "check_in" /\ req[c].pc = "latest"
    /\ IF CheckInBlocked(visits)
         THEN Finish(c)                                       \* 409
         ELSE req' = [req EXCEPT ![c].pc = "active"]
    /\ UNCHANGED <<visits, scores, off>>

\* 404 without a visit; 403 for a volunteer outside the five-minute window.
ReadLatestReset(c) ==
    /\ req[c].op = "reset" /\ req[c].pc = "latest"
    /\ \/ Finish(c)
       \/ visits # <<>> /\ Hold(c, LatestRow(visits))
    /\ UNCHANGED <<visits, scores, off>>

ReadLatestSubmit(c) ==
    /\ req[c].op = "submit" /\ req[c].pc = "latest"
    /\ Hold(c, LatestRow(visits))
    /\ UNCHANGED <<visits, scores, off>>

ReadActive(c) ==
    /\ req[c].pc = "active"
    /\ IF req[c].op = "submit" /\ ActiveRow(visits) = 0
         THEN req' = [req EXCEPT ![c].pc = "latest"]
         ELSE Hold(c, ActiveRow(visits))
    /\ UNCHANGED <<visits, scores, off>>

(* The one write of each visit handler, the last statement of the request. *)

Written(r) ==
    CASE r.op = "check_in"  -> IF r.at = 0 THEN FirstArrival ELSE Arrived(r.row)
      [] r.op = "check_out" -> IF r.at = 0 THEN DepartureOnly ELSE Departed(r.row)
      [] r.op = "reset"     -> Reopened(r.row)
      [] OTHER -> IF r.at = 0 THEN ScoreOnly(r.times) ELSE Scored(r.row, r.times)

WriteVisit(c) ==
    /\ req[c].pc = "write"
    /\ IF req[c].at = 0
         THEN /\ Len(visits) < MaxVisits
              /\ visits' = Append(visits, Written(req[c]))
         ELSE visits' = [visits EXCEPT ![req[c].at] = Written(req[c])]
    /\ Finish(c)
    /\ UNCHANGED <<scores, off>>

-----------------------------------------------------------------------------
(* Requests of a single statement, and failure.                            *)

\* POST /v1/scores with action "deactivate": the visit is left alone.
DeactivateAll ==
    /\ scores' = [i \in DOMAIN scores |-> SwitchOff(scores[i])]
    /\ off' = off \cup {scores[i].task : i \in DOMAIN scores}
    /\ UNCHANGED <<visits, req>>

\* PATCH /v1/scores/{id}: the statement writes the named columns only.
PatchActive(i, on) ==
    /\ scores' = [scores EXCEPT ![i].active = on, ![i].restored = on]
    /\ off' = IF on THEN off \ {scores[i].task} ELSE off \cup {scores[i].task}
    /\ UNCHANGED <<visits, req>>

\* Between deactivate and create an abort leaves the task without a score.
Abort(c) ==
    /\ req[c] # Idle
    /\ off' = IF req[c].pc = "create" THEN off \cup {Head(req[c].todo)} ELSE off
    /\ Finish(c)
    /\ UNCHANGED <<visits, scores>>

-----------------------------------------------------------------------------

Submissions == UNION {[1..n -> Entry] : n \in 0..MaxEntries}

Serve(c) ==
    \/ DeactivatePrevious(c) \/ CreateScore(c) \/ RejectEntry(c)
    \/ ReadLatestCheckIn(c) \/ ReadLatestReset(c) \/ ReadLatestSubmit(c)
    \/ ReadActive(c) \/ WriteVisit(c)

Arrive(c) ==
    \/ BeginCheckIn(c) \/ BeginCheckOut(c) \/ BeginReset(c)
    \/ \E todo \in Submissions, times \in PayloadTimes : BeginSubmit(c, todo, times)

ServerNext ==
    \/ \E c \in Client : Arrive(c) \/ Serve(c)
    \/ DeactivateAll
    \/ \E i \in DOMAIN scores, on \in BOOLEAN : PatchActive(i, on)

Next == ServerNext \/ \E c \in Client : Abort(c)

Spec == Init /\ [][Next]_vars

-----------------------------------------------------------------------------
(* Type invariant.                                                         *)
TypeOK ==
    /\ visits \in Seq(Visit)
    /\ scores \in Seq(Score)
    /\ req \in [Client -> Request]
    /\ off \subseteq Task

Counted(i) == scores[i].active /\ ~scores[i].restored

\* Two rows of one task are both counted only if the two submissions
\* overlapped: the later row's submission had deactivated the previous rows
\* BEFORE the earlier row was inserted, so it could not see it.  (Rows
\* switched on again by hand are not the submissions' doing.)
DoubleCountNeedsOverlap ==
    \A i, j \in DOMAIN scores :
        i < j /\ Counted(i) /\ Counted(j) /\ scores[i].task = scores[j].task
           => scores[j].since < i

\* A task that has been scored stays counted through any number of
\* corrections: it is without an active row only while a correction stands
\* between its two statements, or after somebody switched it off, submitted
\* it inactive or abandoned a correction there.
ScoredTaskCounted ==
    \A t \in Task \ off :
        (\E i \in DOMAIN scores : scores[i].task = t)
           => \/ \E i \in DOMAIN scores : scores[i].task = t /\ scores[i].active
              \/ \E c \in Client : req[c].pc = "create" /\ Head(req[c].todo) = t

\* One active row per task, "to avoid double counting" (scores.py).
OneScorePerTask ==
    \A i, j \in DOMAIN scores :
        Counted(i) /\ Counted(j) /\ scores[i].task = scores[j].task => i = j

\* "Checking out must not walk back a station that has already been scored"
\* (visit_actions.py): no check-out takes a visit out of "completed".
CheckOutKeepsCompleted ==
    [][\A i \in DOMAIN visits :
          visits[i].status = "completed" /\ visits'[i].status # "completed"
             => ~\E c \in Client : req[c].op = "check_out" /\ WriteVisit(c)]_vars

\* Served one at a time, the handlers are atomic in effect: they implement
\* the one-step contract.
Attempt == INSTANCE StationAttempt WITH MaxVisits <- MaxVisits, visits <- visits
AttemptContract == Attempt!Spec

=============================================================================
