------------------------ MODULE ScoreRequests_proofs -------------------------
(***************************************************************************)
(* Proofs about the visit and score handlers, statement by statement, for  *)
(* any number of requests, tasks, entries, visits and scores.              *)
(*                                                                         *)
(* What a submission deactivates and what it inserts are two statements;   *)
(* Behind says what it still knows between them: a counted row of its task *)
(* that it has not switched off was inserted since.  From that both        *)
(* DoubleCountNeedsOverlap and, next to it, ScoredTaskCounted follow.      *)
(*                                                                         *)
(* Served one at a time, a request finds at its write what it has read     *)
(* (Undisturbed), so its write is the whole handler of StationAttempt.     *)
(***************************************************************************)
EXTENDS ScoreRequests, StationVisits_proofs

\* The shape of a request between statements; scored and visited are the
\* numbers of rows in the two tables.
WellFormed(r, scored, visited) ==
    /\ r.op = "none" <=> r.pc = "idle"
    /\ r.pc = "idle" => r = Idle
    /\ r.op = "check_in" => r.pc \in {"latest", "active", "write"}
    /\ r.op = "check_out" => r.pc \in {"active", "write"}
    /\ r.op = "reset" => r.pc \in {"latest", "write"}
    /\ r.pc \in {"scores", "create"} => r.todo # <<>>
    /\ r.pc = "create" => Head(r.todo) \in Task /\ r.since <= scored
    /\ r.at \in 0..visited

\* Between its two statements, a submission has behind it no counted row of
\* its task but those inserted since.
Behind(c) ==
    req[c].pc = "create" =>
        \A i \in DOMAIN scores :
            scores[i].task = Head(req[c].todo) /\ Counted(i) => req[c].since < i

IInv ==
    /\ TypeOK
    /\ \A c \in Client : WellFormed(req[c], Len(scores), Len(visits)) /\ Behind(c)
    /\ DoubleCountNeedsOverlap
    /\ ScoredTaskCounted

-----------------------------------------------------------------------------
(* Requests.                                                               *)

LEMMA IdleTyped == Idle \in Request /\ WellFormed(Idle, 0, 0)
  <1>1. FirstArrival \in Visit
    BY DEF FirstArrival, Visit, Status
  <1>2. <<>> \in Seq(Entry) /\ {} \in PayloadTimes
    BY EmptySeq DEF PayloadTimes
  <1>3. QED
    BY <1>1, <1>2 DEF Idle, Request, Operation, Step, WellFormed

LEMMA IInvInit == Init => IInv
  <1> SUFFICES ASSUME Init PROVE IInv
    OBVIOUS
  <1>1. visits = <<>> /\ scores = <<>> /\ off = {} /\ req = [c \in Client |-> Idle]
    BY DEF Init
  <1>2. visits \in Seq(Visit) /\ scores \in Seq(Score) /\ Len(visits) = 0 /\ Len(scores) = 0
        /\ DOMAIN scores = {}
    BY <1>1, EmptySeq
  <1>3. TypeOK
    BY <1>1, <1>2, IdleTyped DEF TypeOK
  <1>4. \A c \in Client : WellFormed(req[c], Len(scores), Len(visits)) /\ Behind(c)
    BY <1>1, <1>2, IdleTyped DEF Behind
  <1>5. QED
    BY <1>1, <1>2, <1>3, <1>4 DEF IInv, DoubleCountNeedsOverlap, ScoredTaskCounted

\* One request moves on, the others stay where they are.
LEMMA RequestMoves ==
    ASSUME TypeOK, NEW c \in Client, NEW r \in Request, req' = [req EXCEPT ![c] = r]
    PROVE  /\ req' \in [Client -> Request] /\ req'[c] = r
           /\ \A d \in Client \ {c} : req'[d] = req[d]
  BY DEF TypeOK

\* Growing tables keep a request well-formed.
LEMMA StaysWellFormed ==
    ASSUME NEW r \in Request, NEW n \in Nat, NEW m \in Nat, NEW k \in Nat, NEW l \in Nat,
           WellFormed(r, n, m), n <= k, m <= l
    PROVE  WellFormed(r, k, l)
  BY DEF WellFormed, Request

LEMMA Tables ==
    ASSUME TypeOK
    PROVE  /\ Len(scores) \in Nat /\ DOMAIN scores = 1..Len(scores)
           /\ Len(visits) \in Nat /\ DOMAIN visits = 1..Len(visits)
           /\ \A i \in DOMAIN scores : scores[i] \in Score
           /\ \A i \in DOMAIN visits : visits[i] \in Visit
  BY LenProperties, ElementOfSeq DEF TypeOK

\* Steps that write no score.
LEMMA NoScoreWritten ==
    ASSUME IInv, NEW c \in Client, NEW r \in Request, req' = [req EXCEPT ![c] = r],
           UNCHANGED <<scores, off>>, req[c].pc # "create", r.pc # "create",
           visits' \in Seq(Visit), Len(visits) <= Len(visits'),
           WellFormed(r, Len(scores), Len(visits)) \/ WellFormed(r, Len(scores), Len(visits'))
    PROVE  IInv'
  <1> USE DEF IInv
  <1>1. /\ req' \in [Client -> Request] /\ req'[c] = r
        /\ \A d \in Client \ {c} : req'[d] = req[d]
    BY RequestMoves
  <1>2. scores' = scores /\ off' = off
    OBVIOUS
  <1>3. TypeOK'
    BY <1>1, <1>2 DEF TypeOK
  <1>4. Len(scores) \in Nat /\ Len(visits) \in Nat /\ Len(visits') \in Nat
    BY <1>3, Tables, LenProperties
  <1>5. \A d \in Client : WellFormed(req[d], Len(scores), Len(visits)) /\ req[d] \in Request
    BY DEF TypeOK
  <1>6. \A d \in Client : WellFormed(req'[d], Len(scores), Len(visits'))
    BY <1>1, <1>4, <1>5, StaysWellFormed
  <1>7. \A d \in Client : Behind(d)'
    BY <1>1, <1>2 DEF Behind, Counted
  <1>8. DoubleCountNeedsOverlap'
    BY <1>2 DEF DoubleCountNeedsOverlap, Counted
  <1>9. ScoredTaskCounted'
    BY <1>1, <1>2 DEF ScoredTaskCounted
  <1>10. QED
    BY <1>2, <1>3, <1>6, <1>7, <1>8, <1>9

LEMMA BeginStep ==
    ASSUME IInv, NEW c \in Client, Arrive(c)
    PROVE  IInv'
  <1>1. ASSUME NEW r \in Request, Begin(c, r), r.pc \notin {"idle", "create"},
               WellFormed(r, 0, 0)
        PROVE  IInv'
    <2>1. /\ req' = [req EXCEPT ![c] = r] /\ UNCHANGED <<scores, off>> /\ visits' = visits
          /\ req[c].pc # "create" /\ r.pc # "create" /\ visits \in Seq(Visit)
      BY <1>1 DEF Begin, MayBegin, IInv, TypeOK, Idle
    <2>2. WellFormed(r, Len(scores), Len(visits)) /\ Len(visits) <= Len(visits)
      BY <1>1, Tables, StaysWellFormed DEF IInv
    <2>3. QED
      BY <2>1, <2>2, NoScoreWritten
  <1>2. CASE BeginCheckIn(c)
    <2>1. LET r == [Idle EXCEPT !.op = "check_in", !.pc = "latest"]
          IN  r \in Request /\ r.pc = "latest" /\ WellFormed(r, 0, 0)
      BY IdleTyped DEF Request, Operation, Step, WellFormed, Idle
    <2>2. QED
      BY <1>1, <1>2, <2>1 DEF BeginCheckIn
  <1>3. CASE BeginCheckOut(c)
    <2>1. LET r == [Idle EXCEPT !.op = "check_out", !.pc = "active"]
          IN  r \in Request /\ r.pc = "active" /\ WellFormed(r, 0, 0)
      BY IdleTyped DEF Request, Operation, Step, WellFormed, Idle
    <2>2. QED
      BY <1>1, <1>3, <2>1 DEF BeginCheckOut
  <1>4. CASE BeginReset(c)
    <2>1. LET r == [Idle EXCEPT !.op = "reset", !.pc = "latest"]
          IN  r \in Request /\ r.pc = "latest" /\ WellFormed(r, 0, 0)
      BY IdleTyped DEF Request, Operation, Step, WellFormed, Idle
    <2>2. QED
      BY <1>1, <1>4, <2>1 DEF BeginReset
  <1>5. ASSUME NEW todo \in Submissions, NEW times \in PayloadTimes, BeginSubmit(c, todo, times)
        PROVE  IInv'
    <2> DEFINE r == [Idle EXCEPT !.op = "submit", !.pc = AfterEntries(todo),
                                 !.todo = todo, !.times = times]
    <2>1. todo \in Seq(Entry)
      BY ConstantsAssumption DEF Submissions
    <2>2. AfterEntries(todo) \in {"active", "scores"}
          /\ (AfterEntries(todo) = "scores" => todo # <<>>)
      BY DEF AfterEntries
    <2>3. r \in Request /\ r.pc = AfterEntries(todo)
      BY <2>1, <2>2, IdleTyped DEF Request, Operation, Step
    <2>4. WellFormed(r, 0, 0)
      BY <2>2 DEF WellFormed, Idle
    <2>5. Begin(c, r)
      BY <1>5 DEF BeginSubmit
    <2> HIDE DEF r
    <2>6. QED
      BY <1>1, <2>2, <2>3, <2>4, <2>5
  <1>6. QED
    BY <1>2, <1>3, <1>4, <1>5 DEF Arrive

\* A request that ends, by an answer or by a failure, without a score.
LEMMA FinishStep ==
    ASSUME IInv, NEW c \in Client, Finish(c), UNCHANGED <<scores, off>>,
           req[c].pc # "create", visits' \in Seq(Visit), Len(visits) <= Len(visits')
    PROVE  IInv'
  <1>1. WellFormed(Idle, Len(scores), Len(visits))
    BY IdleTyped, Tables, StaysWellFormed DEF IInv
  <1>2. QED
    BY <1>1, IdleTyped, NoScoreWritten DEF Finish, Idle

\* The statements that read.
LEMMA ReadStep ==
    ASSUME IInv, NEW c \in Client,
           \/ ReadLatestCheckIn(c) \/ ReadLatestReset(c) \/ ReadLatestSubmit(c)
           \/ ReadActive(c) \/ RejectEntry(c)
    PROVE  IInv'
  <1> USE DEF IInv
  <1>1. /\ visits' = visits /\ UNCHANGED <<scores, off>> /\ visits \in Seq(Visit)
        /\ req[c] \in Request /\ WellFormed(req[c], Len(scores), Len(visits))
        /\ req[c].pc \in {"latest", "active", "scores"}
        /\ Len(visits) \in Nat /\ Len(visits) <= Len(visits)
    BY Tables DEF ReadLatestCheckIn, ReadLatestReset, ReadLatestSubmit, ReadActive,
                  RejectEntry, TypeOK
  <1>2. CASE Finish(c)
    BY <1>1, <1>2, FinishStep
  <1>3. ASSUME NEW i \in 0..Len(visits), Hold(c, i), req[c].pc \in {"latest", "active"}
        PROVE  IInv'
    <2> DEFINE v == IF i = 0 THEN FirstArrival ELSE visits[i]
    <2> DEFINE r == [req[c] EXCEPT !.pc = "write", !.at = i, !.row = v]
    <2>1. v \in Visit
      BY Tables, RowTypes DEF FirstArrival, Visit, Status
    <2>2. req' = [req EXCEPT ![c].pc = "write", ![c].at = i, ![c].row = v]
      BY <1>3 DEF Hold
    <2> HIDE DEF v
    <2>3. r \in Request /\ r.pc = "write"
      <3>1. i \in Nat
        BY <1>1, <1>3
      <3>2. QED
        BY <1>1, <2>1, <3>1 DEF Request, Step
    <2>4. req' = [req EXCEPT ![c] = r]
      BY <1>1, <2>2 DEF TypeOK, Request
    <2>5. WellFormed(r, Len(scores), Len(visits))
      BY <1>1, <1>3 DEF WellFormed, Request
    <2> HIDE DEF r
    <2>6. QED
      BY <1>1, <1>3, <2>3, <2>4, <2>5, NoScoreWritten
  <1>4. ASSUME NEW pc \in {"active", "latest"}, req' = [req EXCEPT ![c].pc = pc],
               req[c].op # "check_out", req[c].op = "reset" => pc = "latest",
               req[c].op = "check_in" \/ req[c].op = "submit"
        PROVE  IInv'
    <2> DEFINE r == [req[c] EXCEPT !.pc = pc]
    <2>1. r \in Request /\ r.pc = pc
      BY <1>1 DEF Request, Step
    <2>2. req' = [req EXCEPT ![c] = r]
      BY <1>1, <1>4 DEF TypeOK, Request
    <2>3. WellFormed(r, Len(scores), Len(visits))
      BY <1>1, <1>4 DEF WellFormed, Request
    <2> HIDE DEF r
    <2>4. QED
      BY <1>1, <1>4, <2>1, <2>2, <2>3, NoScoreWritten
  <1>5. LatestRow(visits) \in 0..Len(visits) /\ ActiveRow(visits) \in 0..Len(visits)
    BY <1>1, ActiveRowInRange DEF LatestRow
  <1>6. QED
    BY <1>1, <1>2, <1>3, <1>4, <1>5 DEF ReadLatestCheckIn, ReadLatestReset,
       ReadLatestSubmit, ReadActive, RejectEntry

LEMMA WriteVisitStep ==
    ASSUME IInv, NEW c \in Client, WriteVisit(c)
    PROVE  IInv'
  <1>1. /\ UNCHANGED <<scores, off>> /\ Finish(c) /\ req[c].pc = "write" /\ req[c] \in Request
        /\ req[c].at \in 0..Len(visits) /\ visits \in Seq(Visit) /\ Len(visits) \in Nat
        /\ DOMAIN visits = 1..Len(visits)
    BY Tables DEF WriteVisit, IInv, TypeOK, WellFormed
  <1>2. Written(req[c]) \in Visit
    BY <1>1, RowTypes DEF Written, Request
  <1>3. visits' \in Seq(Visit) /\ Len(visits) <= Len(visits')
    <2>1. CASE req[c].at = 0
      BY <1>1, <1>2, <2>1, InsertRow DEF WriteVisit
    <2>2. CASE req[c].at # 0
      <3> DEFINE i == req[c].at
      <3> DEFINE v == Written(req[c])
      <3>1. visits' = [visits EXCEPT ![i] = v] /\ i \in DOMAIN visits
        BY <1>1, <2>2 DEF WriteVisit
      <3> HIDE DEF i, v
      <3>2. QED
        BY <1>1, <1>2, <3>1, UpdateRow DEF v
    <2>3. QED
      BY <2>1, <2>2
  <1>4. QED
    BY <1>1, <1>3, FinishStep

(* The statements that write scores.                                       *)

\* Switching off the rows of some tasks keeps the table, and counts no row
\* that was not counted.
LEMMA SwitchedOff ==
    ASSUME TypeOK, NEW S,
           scores' = [i \in DOMAIN scores |->
                         IF scores[i].task \in S THEN SwitchOff(scores[i]) ELSE scores[i]]
    PROVE  /\ scores' \in Seq(Score) /\ Len(scores') = Len(scores)
           /\ DOMAIN scores' = DOMAIN scores
           /\ \A i \in DOMAIN scores :
                 /\ scores'[i].task = scores[i].task /\ scores'[i].since = scores[i].since
                 /\ scores[i].task \in S => ~Counted(i)'
                 /\ scores[i].task \notin S => scores'[i] = scores[i]
                 /\ Counted(i)' => Counted(i)
  <1>1. /\ DOMAIN scores = 1..Len(scores) /\ Len(scores) \in Nat
        /\ \A i \in DOMAIN scores : scores[i] \in Score
    BY Tables
  <1>2. \A i \in DOMAIN scores :
           /\ scores'[i] \in Score
           /\ scores'[i].task = scores[i].task /\ scores'[i].since = scores[i].since
           /\ scores[i].task \in S => ~scores'[i].active
           /\ scores[i].task \notin S => scores'[i] = scores[i]
    BY <1>1 DEF SwitchOff, Score
  <1>3. DOMAIN scores' = 1..Len(scores) /\ scores' = [i \in 1..Len(scores) |-> scores'[i]]
    BY <1>1
  <1>4. scores' \in Seq(Score) /\ Len(scores') = Len(scores)
    BY <1>1, <1>2, <1>3, IsASeq
  <1>5. QED
    BY <1>1, <1>2, <1>3, <1>4 DEF Counted

\* Switching rows off disturbs neither the other requests nor the rule about
\* rows that are both counted.
LEMMA SwitchedOffKeeps ==
    ASSUME IInv, NEW S,
           scores' = [i \in DOMAIN scores |->
                         IF scores[i].task \in S THEN SwitchOff(scores[i]) ELSE scores[i]]
    PROVE  /\ DoubleCountNeedsOverlap'
           /\ \A d \in Client : req'[d] = req[d] => Behind(d)'
  <1>1. /\ DOMAIN scores' = DOMAIN scores
        /\ \A i \in DOMAIN scores :
              /\ scores'[i].task = scores[i].task /\ scores'[i].since = scores[i].since
              /\ Counted(i)' => Counted(i)
    BY SwitchedOff DEF IInv
  <1>2. DoubleCountNeedsOverlap'
    BY <1>1 DEF IInv, DoubleCountNeedsOverlap
  <1>3. ASSUME NEW d \in Client, req'[d] = req[d] PROVE Behind(d)'
    BY <1>1, <1>3 DEF IInv, Behind
  <1>4. QED
    BY <1>2, <1>3

LEMMA DeactivatePreviousStep ==
    ASSUME IInv, NEW c \in Client, DeactivatePrevious(c)
    PROVE  IInv'
  <1> DEFINE t == Head(req[c].todo)
  <1> DEFINE r == [req[c] EXCEPT !.pc = "create", !.since = Len(scores)]
  <1>1. /\ req[c].pc = "scores" /\ req[c].todo # <<>> /\ t \in Task
        /\ UNCHANGED <<visits, off>> /\ TypeOK /\ req[c] \in Request
        /\ WellFormed(req[c], Len(scores), Len(visits))
        /\ req' = [req EXCEPT ![c].pc = "create", ![c].since = Len(scores)]
        /\ scores' = [i \in DOMAIN scores |->
                         IF scores[i].task \in {t} THEN SwitchOff(scores[i]) ELSE scores[i]]
    BY DEF DeactivatePrevious, IInv, TypeOK
  <1>2. Len(scores) \in Nat /\ Len(visits) \in Nat
    BY <1>1, Tables
  <1>3. /\ r \in Request /\ r.pc = "create" /\ r.since = Len(scores)
        /\ r.todo = req[c].todo /\ r.op = req[c].op /\ r.at = req[c].at
    BY <1>1, <1>2 DEF Request, Step
  <1>4. req' = [req EXCEPT ![c] = r]
    BY <1>1 DEF TypeOK, Request
  <1>5. WellFormed(r, Len(scores), Len(visits))
    BY <1>1, <1>2, <1>3 DEF WellFormed
  <1> HIDE DEF r
  <1>6. /\ req' \in [Client -> Request] /\ req'[c] = r
        /\ \A d \in Client \ {c} : req'[d] = req[d]
    BY <1>1, <1>3, <1>4, RequestMoves
  <1>7. /\ scores' \in Seq(Score) /\ Len(scores') = Len(scores)
        /\ DOMAIN scores' = DOMAIN scores
        /\ \A i \in DOMAIN scores :
              /\ scores'[i].task = scores[i].task
              /\ scores[i].task = t => ~Counted(i)'
              /\ scores[i].task # t => scores'[i] = scores[i]
    BY <1>1, SwitchedOff
  <1>8. TypeOK'
    BY <1>1, <1>6, <1>7 DEF TypeOK
  <1>9. \A d \in Client : WellFormed(req'[d], Len(scores'), Len(visits'))
    BY <1>1, <1>5, <1>6, <1>7 DEF IInv
  <1>10. DoubleCountNeedsOverlap' /\ \A d \in Client : req'[d] = req[d] => Behind(d)'
    BY <1>1, SwitchedOffKeeps
  <1>11. Behind(c)'
    BY <1>3, <1>6, <1>7 DEF Behind
  <1>12. ScoredTaskCounted'
    <2> SUFFICES ASSUME NEW u \in Task \ off', NEW k \in DOMAIN scores', scores'[k].task = u
                 PROVE  \/ \E i \in DOMAIN scores' : scores'[i].task = u /\ scores'[i].active
                        \/ \E d \in Client : req'[d].pc = "create" /\ Head(req'[d].todo) = u
      BY DEF ScoredTaskCounted
    <2>0. u \in Task \ off /\ \E i \in DOMAIN scores : scores[i].task = u
      BY <1>1, <1>7
    <2>1. CASE u = t
      BY <2>1, <1>3, <1>6
    <2>2. CASE \E i \in DOMAIN scores : scores[i].task = u /\ scores[i].active /\ u # t
      BY <2>2, <1>7
    <2>3. CASE \E d \in Client : req[d].pc = "create" /\ Head(req[d].todo) = u
      BY <2>3, <1>1, <1>6
    <2>4. QED
      BY <2>0, <2>1, <2>2, <2>3 DEF IInv, ScoredTaskCounted
  <1>13. QED
    BY <1>6, <1>8, <1>9, <1>10, <1>11, <1>12 DEF IInv

LEMMA CreateScoreStep ==
    ASSUME IInv, NEW c \in Client, CreateScore(c)
    PROVE  IInv'
  <1> DEFINE t == Head(req[c].todo)
  <1> DEFINE n == Len(scores)
  <1> DEFINE rest == Tail(req[c].todo)
  <1> DEFINE r == [req[c] EXCEPT !.pc = AfterEntries(rest), !.todo = rest, !.since = 0]
  <1>1. /\ req[c].pc = "create" /\ visits' = visits /\ TypeOK /\ req[c] \in Request
        /\ WellFormed(req[c], n, Len(visits)) /\ Behind(c)
        /\ req' = [req EXCEPT ![c].pc = AfterEntries(rest), ![c].todo = rest, ![c].since = 0]
    BY DEF CreateScore, IInv, TypeOK
  <1>2. /\ n \in Nat /\ DOMAIN scores = 1..n /\ Len(visits) \in Nat
        /\ \A i \in DOMAIN scores : scores[i] \in Score
    BY <1>1, Tables
  <1>3. /\ req[c].todo \in Seq(Entry) /\ req[c].todo # <<>> /\ t \in Task
        /\ req[c].since \in Nat /\ req[c].since <= n /\ req[c].op = "submit"
    BY <1>1 DEF WellFormed, Request, Operation
  <1>4. rest \in Seq(Entry)
    BY <1>3, HeadTailProperties
  <1>5. AfterEntries(rest) \in {"active", "scores"} /\ (AfterEntries(rest) = "scores" => rest # <<>>)
    BY DEF AfterEntries
  <1>6. PICK on \in BOOLEAN :
           /\ scores' = Append(scores, [task |-> t, active |-> on, restored |-> FALSE,
                                        since |-> req[c].since])
           /\ off' = IF on THEN off \ {t} ELSE off \cup {t}
    BY DEF CreateScore
  <1> HIDE DEF rest
  <1>7. /\ r \in Request /\ r.pc = AfterEntries(rest) /\ r.todo = rest
        /\ r.op = "submit" /\ r.at = req[c].at
    BY <1>1, <1>3, <1>4, <1>5 DEF Request, Step
  <1>8. req' = [req EXCEPT ![c] = r]
    BY <1>1 DEF TypeOK, Request
  <1>9. WellFormed(r, n, Len(visits))
    BY <1>1, <1>5, <1>7 DEF WellFormed
  <1> HIDE DEF r
  <1>10. /\ req' \in [Client -> Request] /\ req'[c] = r
         /\ \A d \in Client \ {c} : req'[d] = req[d]
    BY <1>1, <1>7, <1>8, RequestMoves
  <1> DEFINE s == [task |-> t, active |-> on, restored |-> FALSE, since |-> req[c].since]
  <1>11. s \in Score /\ s.task = t /\ s.active = on /\ s.since = req[c].since
    BY <1>3 DEF Score
  <1>12. scores' = Append(scores, s) /\ scores \in Seq(Score)
    BY <1>1, <1>6 DEF TypeOK
  <1> HIDE DEF s
  <1>13. /\ scores' \in Seq(Score) /\ Len(scores') = n + 1 /\ DOMAIN scores' = 1..(n + 1)
         /\ scores'[n + 1] = s
         /\ \A i \in DOMAIN scores : scores'[i] = scores[i]
    <2>1. scores' \in Seq(Score) /\ Len(scores') = n + 1 /\ scores'[n + 1] = s
          /\ \A i \in 1..n : scores'[i] = scores[i]
      BY <1>11, <1>12, AppendProperties
    <2>2. QED
      BY <2>1, <1>2, LenProperties
  <1>14. TypeOK'
    <2>1. off' \subseteq Task
      BY <1>1, <1>3, <1>6 DEF TypeOK
    <2>2. QED
      BY <2>1, <1>1, <1>10, <1>13 DEF TypeOK
  <1>15. \A d \in Client : WellFormed(req'[d], Len(scores'), Len(visits'))
    <2>1. \A d \in Client : req'[d] \in Request /\ WellFormed(req'[d], n, Len(visits))
      BY <1>1, <1>7, <1>9, <1>10 DEF IInv
    <2>2. n \in Nat /\ n + 1 \in Nat /\ n <= n + 1
      BY <1>2
    <2>3. visits' = visits /\ Len(visits) \in Nat /\ Len(visits) <= Len(visits) /\ Len(scores') = n + 1
      BY <1>1, <1>2, <1>13
    <2> HIDE DEF n
    <2>4. QED
      BY <2>1, <2>2, <2>3, StaysWellFormed
  <1>16. ASSUME NEW d \in Client PROVE Behind(d)'
    <2>1. CASE d = c
      BY <2>1, <1>5, <1>7, <1>10 DEF Behind
    <2>2. CASE d # c /\ req[d].pc = "create"
      <3>1. req'[d] = req[d] /\ Behind(d) /\ req[d].since \in Nat /\ req[d].since <= n
        BY <2>2, <1>10 DEF IInv, TypeOK, Request, WellFormed
      <3>2. \A i \in DOMAIN scores :
               scores'[i].task = Head(req'[d].todo) /\ Counted(i)' => req'[d].since < i
        BY <3>1, <2>2, <1>13 DEF Behind, Counted
      <3>3. req'[d].since < n + 1
        BY <3>1, <1>2
      <3>4. QED
        BY <3>2, <3>3, <1>2, <1>13 DEF Behind
    <2>3. CASE d # c /\ req[d].pc # "create"
      BY <2>3, <1>10 DEF Behind
    <2>4. QED
      BY <2>1, <2>2, <2>3
  <1>17. DoubleCountNeedsOverlap'
    <2> SUFFICES ASSUME NEW i \in DOMAIN scores', NEW j \in DOMAIN scores', i < j,
                        Counted(i)', Counted(j)', scores'[i].task = scores'[j].task
                 PROVE  scores'[j].since < i
      BY DEF DoubleCountNeedsOverlap
    <2>1. i \in DOMAIN scores /\ scores'[i] = scores[i] /\ Counted(i)
      BY <1>2, <1>13 DEF Counted
    <2>2. CASE j \in DOMAIN scores
      <3>1. Counted(j) /\ scores'[j] = scores[j]
        BY <2>2, <1>13 DEF Counted
      <3>2. QED
        BY <2>1, <2>2, <3>1 DEF IInv, DoubleCountNeedsOverlap
    <2>3. CASE j = n + 1
      BY <2>1, <2>3, <1>1, <1>11, <1>13 DEF Behind
    <2>4. QED
      BY <2>2, <2>3, <1>2, <1>13
  <1>18. ScoredTaskCounted'
    <2> SUFFICES ASSUME NEW u \in Task \ off', NEW k \in DOMAIN scores', scores'[k].task = u
                 PROVE  \/ \E i \in DOMAIN scores' : scores'[i].task = u /\ scores'[i].active
                        \/ \E d \in Client : req'[d].pc = "create" /\ Head(req'[d].todo) = u
      BY DEF ScoredTaskCounted
    <2>1. CASE u = t
      <3>1. on = TRUE
        BY <2>1, <1>6
      <3>2. scores'[n + 1].task = u /\ scores'[n + 1].active
        BY <2>1, <3>1, <1>11, <1>13
      <3>3. n + 1 \in DOMAIN scores'
        BY <1>2, <1>13
      <3>4. QED
        BY <3>2, <3>3
    <2>2. CASE u # t
      <3>1. k \in DOMAIN scores /\ scores[k].task = u /\ u \notin off
        BY <2>2, <1>2, <1>6, <1>11, <1>13
      <3>2. CASE \E i \in DOMAIN scores : scores[i].task = u /\ scores[i].active
        BY <3>2, <1>2, <1>13
      <3>3. CASE \E d \in Client : req[d].pc = "create" /\ Head(req[d].todo) = u
        BY <2>2, <3>3, <1>10
      <3>4. QED
        BY <3>1, <3>2, <3>3 DEF IInv, ScoredTaskCounted
    <2>3. QED
      BY <2>1, <2>2
  <1>19. QED
    BY <1>14, <1>15, <1>16, <1>17, <1>18 DEF IInv

LEMMA SwitchesStep ==
    ASSUME IInv,
           DeactivateAll \/ \E i \in DOMAIN scores, on \in BOOLEAN : PatchActive(i, on)
    PROVE  IInv'
  <1>1. /\ req' = req /\ visits' = visits /\ TypeOK
        /\ \A d \in Client : req[d] \in Request /\ Behind(d)
                             /\ WellFormed(req[d], Len(scores), Len(visits))
    BY DEF DeactivateAll, PatchActive, IInv, TypeOK
  <1>2. /\ Len(scores) \in Nat /\ DOMAIN scores = 1..Len(scores)
        /\ \A i \in DOMAIN scores : scores[i] \in Score
    BY <1>1, Tables
  <1>3. CASE DeactivateAll
    <2>1. scores' = [i \in DOMAIN scores |->
                        IF scores[i].task \in Task THEN SwitchOff(scores[i]) ELSE scores[i]]
      BY <1>2, <1>3 DEF DeactivateAll, Score
    <2>2. /\ scores' \in Seq(Score) /\ Len(scores') = Len(scores)
          /\ DOMAIN scores' = DOMAIN scores
          /\ \A i \in DOMAIN scores : scores'[i].task = scores[i].task
      BY <1>1, <2>1, SwitchedOff
    <2>3. DoubleCountNeedsOverlap' /\ \A d \in Client : Behind(d)'
      BY <1>1, <2>1, SwitchedOffKeeps
    <2>4. TypeOK'
      BY <1>1, <1>2, <1>3, <2>2 DEF TypeOK, DeactivateAll, Score
    <2>5. ScoredTaskCounted'
      BY <1>3, <2>2 DEF DeactivateAll, ScoredTaskCounted
    <2>6. QED
      BY <1>1, <2>2, <2>3, <2>4, <2>5 DEF IInv
  <1>4. ASSUME NEW i \in DOMAIN scores, NEW on \in BOOLEAN, PatchActive(i, on)
        PROVE  IInv'
    <2> DEFINE s == [scores[i] EXCEPT !.active = on, !.restored = on]
    <2>1. s \in Score /\ s.task = scores[i].task /\ s.since = scores[i].since
          /\ s.active = on /\ s.restored = on
      BY <1>2 DEF Score
    <2>2. scores' = [scores EXCEPT ![i] = s]
      BY <1>4 DEF PatchActive
    <2> HIDE DEF s
    <2>3. /\ scores' \in Seq(Score) /\ Len(scores') = Len(scores)
          /\ DOMAIN scores' = DOMAIN scores
          /\ \A j \in DOMAIN scores : scores'[j] = IF j = i THEN s ELSE scores[j]
      BY <1>1, <1>2, <2>1, <2>2, ExceptSeq DEF TypeOK
    <2>4. \A j \in DOMAIN scores :
             /\ scores'[j].task = scores[j].task /\ scores'[j].since = scores[j].since
             /\ Counted(j)' => Counted(j)
      BY <2>1, <2>3 DEF Counted
    <2>5. TypeOK'
      BY <1>1, <1>2, <1>4, <2>3 DEF TypeOK, PatchActive, Score
    <2>6. \A d \in Client : Behind(d)'
      BY <1>1, <2>3, <2>4 DEF Behind
    <2>7. DoubleCountNeedsOverlap'
      BY <2>3, <2>4 DEF IInv, DoubleCountNeedsOverlap
    <2>8. ScoredTaskCounted'
      <3> SUFFICES ASSUME NEW u \in Task \ off', NEW k \in DOMAIN scores', scores'[k].task = u
                   PROVE  \/ \E j \in DOMAIN scores' : scores'[j].task = u /\ scores'[j].active
                          \/ \E d \in Client : req'[d].pc = "create" /\ Head(req'[d].todo) = u
        BY DEF ScoredTaskCounted
      <3>1. CASE u = scores[i].task
        BY <1>4, <2>1, <2>3, <3>1 DEF PatchActive
      <3>2. CASE u # scores[i].task
        <4>1. u \in Task \ off /\ k \in DOMAIN scores /\ scores[k].task = u
          BY <1>4, <2>3, <2>4, <3>2 DEF PatchActive
        <4>2. QED
          BY <1>1, <2>3, <3>2, <4>1 DEF IInv, ScoredTaskCounted
      <3>3. QED
        BY <3>1, <3>2
    <2>9. QED
      BY <1>1, <2>3, <2>5, <2>6, <2>7, <2>8 DEF IInv
  <1>5. QED
    BY <1>3, <1>4

LEMMA AbortStep ==
    ASSUME IInv, NEW c \in Client, Abort(c)
    PROVE  IInv'
  <1>1. /\ req' = [req EXCEPT ![c] = Idle] /\ visits' = visits /\ scores' = scores
        /\ TypeOK /\ WellFormed(req[c], Len(scores), Len(visits))
        /\ off' = IF req[c].pc = "create" THEN off \cup {Head(req[c].todo)} ELSE off
    BY DEF Abort, Finish, IInv
  <1>2. /\ req' \in [Client -> Request] /\ req'[c] = Idle
        /\ \A d \in Client \ {c} : req'[d] = req[d]
    BY <1>1, IdleTyped, RequestMoves
  <1>3. off' \subseteq Task /\ off \subseteq off'
    BY <1>1 DEF TypeOK, WellFormed
  <1>4. TypeOK'
    BY <1>1, <1>2, <1>3 DEF TypeOK
  <1>5. Len(scores) \in Nat /\ Len(visits) \in Nat
    BY <1>1, Tables
  <1>6. \A d \in Client : WellFormed(req'[d], Len(scores'), Len(visits'))
    BY <1>1, <1>2, <1>5, IdleTyped, StaysWellFormed DEF IInv
  <1>7. \A d \in Client : Behind(d)'
    BY <1>1, <1>2 DEF IInv, Behind, Counted, Idle
  <1>8. DoubleCountNeedsOverlap'
    BY <1>1 DEF IInv, DoubleCountNeedsOverlap, Counted
  <1>9. ScoredTaskCounted'
    <2> SUFFICES ASSUME NEW u \in Task \ off', NEW k \in DOMAIN scores', scores'[k].task = u
                 PROVE  \/ \E i \in DOMAIN scores' : scores'[i].task = u /\ scores'[i].active
                        \/ \E d \in Client : req'[d].pc = "create" /\ Head(req'[d].todo) = u
      BY DEF ScoredTaskCounted
    <2>1. u \in Task \ off /\ ~(req[c].pc = "create" /\ Head(req[c].todo) = u)
      BY <1>1, <1>3
    <2>2. QED
      BY <1>1, <1>2, <2>1 DEF IInv, ScoredTaskCounted
  <1>10. QED
    BY <1>4, <1>6, <1>7, <1>8, <1>9 DEF IInv

LEMMA IInvStep == IInv /\ [Next]_vars => IInv'
  <1> SUFFICES ASSUME IInv, [Next]_vars PROVE IInv'
    OBVIOUS
  <1>1. CASE UNCHANGED vars
    BY <1>1 DEF vars, IInv, TypeOK, Behind, Counted, DoubleCountNeedsOverlap, ScoredTaskCounted
  <1>2. ASSUME NEW c \in Client, Arrive(c) \/ Serve(c) \/ Abort(c) PROVE IInv'
    BY <1>2, BeginStep, ReadStep, WriteVisitStep, DeactivatePreviousStep, CreateScoreStep,
       AbortStep DEF Serve
  <1>3. QED
    BY <1>1, <1>2, SwitchesStep DEF Next, ServerNext

LEMMA Inductive == Spec => []IInv
  BY IInvInit, IInvStep, PTL DEF Spec

\* Types, for any number of requests in flight.
THEOREM TypeCorrect == Spec => []TypeOK
  <1>1. IInv => TypeOK
    BY DEF IInv
  <1>2. QED
    BY <1>1, Inductive, PTL

\* However requests interleave and wherever they break off, two score rows
\* of one task are both counted only if the two submissions overlapped.
THEOREM DoubleCountNeedsOverlapHolds == Spec => []DoubleCountNeedsOverlap
  <1>1. IInv => DoubleCountNeedsOverlap
    BY DEF IInv
  <1>2. QED
    BY <1>1, Inductive, PTL

\* A scored task is left without a counted row only by a correction that
\* stands between its two statements, or by somebody's doing.
THEOREM ScoredTaskCountedHolds == Spec => []ScoredTaskCounted
  <1>1. IInv => ScoredTaskCounted
    BY DEF IInv
  <1>2. QED
    BY <1>1, Inductive, PTL

-----------------------------------------------------------------------------
(* Served one at a time.                                                   *)

Alone == \A c, d \in Client : c # d => req[c] = Idle \/ req[d] = Idle

\* The row a handler is to write, read from the table as it is now.
Target(op) ==
    CASE op = "submit" -> IF ActiveRow(visits) # 0 THEN ActiveRow(visits) ELSE LatestRow(visits)
      [] op = "reset"  -> LatestRow(visits)
      [] OTHER         -> ActiveRow(visits)

\* What a request has read is still so.
Undisturbed(c) ==
    /\ req[c].op = "check_in" /\ req[c].pc # "latest" => ~CheckInBlocked(visits)
    /\ req[c].op = "submit" /\ req[c].pc = "latest" => ActiveRow(visits) = 0
    /\ req[c].op = "reset" /\ req[c].pc = "write" => visits # <<>>
    /\ req[c].pc = "write" => /\ req[c].at = Target(req[c].op)
                              /\ req[c].at # 0 => req[c].row = visits[req[c].at]

\* Nothing is inserted between the two statements of a submission.
Since ==
    /\ \A c \in Client : req[c].pc = "create" => req[c].since = Len(scores)
    /\ \A i \in DOMAIN scores : scores[i].since = i - 1

SerialInv ==
    /\ Alone
    /\ \A c \in Client : Undisturbed(c)
    /\ Since

LEMMA SerialInit == Init => SerialInv
  <1> SUFFICES ASSUME Init PROVE SerialInv
    OBVIOUS
  <1>1. scores = <<>> /\ \A c \in Client : req[c] = Idle
    BY DEF Init
  <1>2. Alone
    BY <1>1 DEF Alone
  <1>3. \A c \in Client : Undisturbed(c)
    BY <1>1 DEF Undisturbed, Idle
  <1>4. Since
    BY <1>1 DEF Since, Idle
  <1>5. QED
    BY <1>2, <1>3, <1>4 DEF SerialInv

\* A step of one request finds every other one idle and leaves it so.
LEMMA OthersIdle ==
    ASSUME ~Overlap, TypeOK, Alone, NEW c \in Client, Arrive(c) \/ Serve(c) \/ Abort(c)
    PROVE  /\ \A d \in Client \ {c} : req[d] = Idle /\ req'[d] = Idle
           /\ Alone'
  <1>1. \A d \in Client \ {c} : req[d] = Idle
    <2>1. CASE Arrive(c)
      BY <2>1 DEF Arrive, BeginCheckIn, BeginCheckOut, BeginReset, BeginSubmit, Begin, MayBegin
    <2>2. CASE Serve(c)
      <3>1. req[c] # Idle
        BY <2>2 DEF Serve, Idle, DeactivatePrevious, CreateScore, RejectEntry,
           ReadLatestCheckIn, ReadLatestReset, ReadLatestSubmit, ReadActive, WriteVisit
      <3>2. QED
        BY <3>1 DEF Alone
    <2>3. CASE Abort(c)
      BY <2>3 DEF Abort, Alone
    <2>4. QED
      BY <2>1, <2>2, <2>3
  <1>2. \A d \in Client \ {c} : req'[d] = req[d]
    <2>1. CASE Arrive(c)
      BY <2>1 DEF Arrive, BeginCheckIn, BeginCheckOut, BeginReset, BeginSubmit, Begin, TypeOK
    <2>2. CASE DeactivatePrevious(c) \/ CreateScore(c)
      BY <2>2 DEF DeactivatePrevious, CreateScore, TypeOK
    <2>3. CASE RejectEntry(c) \/ ReadLatestCheckIn(c) \/ ReadLatestReset(c)
               \/ ReadLatestSubmit(c) \/ ReadActive(c)
      BY <2>3 DEF RejectEntry, ReadLatestCheckIn, ReadLatestReset, ReadLatestSubmit,
         ReadActive, Hold, Finish, TypeOK
    <2>4. CASE WriteVisit(c) \/ Abort(c)
      BY <2>4 DEF WriteVisit, Abort, Finish, TypeOK
    <2>5. QED
      BY <2>1, <2>2, <2>3, <2>4 DEF Serve
  <1>3. QED
    BY <1>1, <1>2 DEF Alone

LEMMA UndisturbedIdle ==
    ASSUME NEW c \in Client, req[c] = Idle
    PROVE  Undisturbed(c)
  BY DEF Undisturbed, Idle

LEMMA UndisturbedStep ==
    ASSUME ~Overlap, IInv, IInv', SerialInv, NEW c \in Client,
           Arrive(c) \/ Serve(c) \/ Abort(c)
    PROVE  Undisturbed(c)'
  <1>1. TypeOK /\ req[c] \in Request /\ WellFormed(req[c], Len(scores), Len(visits))
        /\ Undisturbed(c)
    BY DEF IInv, TypeOK, SerialInv
  <1>2. CASE Finish(c)
    <2>1. req'[c] = Idle
      BY <1>1, <1>2 DEF Finish, TypeOK
    <2>2. QED
      BY <2>1 DEF Undisturbed, Idle
  <1>3. CASE Arrive(c)
    <2>1. ASSUME NEW r, Begin(c, r), r.pc # "write",
                 r.op = "check_in" => r.pc = "latest", r.op = "submit" => r.pc # "latest"
          PROVE  Undisturbed(c)'
      <3>1. req'[c] = r
        BY <1>1, <2>1 DEF Begin, TypeOK
      <3>2. QED
        BY <2>1, <3>1 DEF Undisturbed
    <2>2. CASE BeginCheckIn(c)
      BY <2>1, <2>2 DEF BeginCheckIn, Idle
    <2>3. CASE BeginCheckOut(c)
      BY <2>1, <2>3 DEF BeginCheckOut, Idle
    <2>4. CASE BeginReset(c)
      BY <2>1, <2>4 DEF BeginReset, Idle
    <2>5. ASSUME NEW todo \in Submissions, NEW times \in PayloadTimes, BeginSubmit(c, todo, times)
          PROVE  Undisturbed(c)'
      <3> DEFINE r == [Idle EXCEPT !.op = "submit", !.pc = AfterEntries(todo),
                                   !.todo = todo, !.times = times]
      <3>1. r.op = "submit" /\ r.pc \in {"active", "scores"}
        BY DEF AfterEntries, Idle
      <3>2. Begin(c, r)
        BY <2>5 DEF BeginSubmit
      <3> HIDE DEF r
      <3>3. QED
        BY <2>1, <3>1, <3>2
    <2>6. QED
      BY <1>3, <2>2, <2>3, <2>4, <2>5 DEF Arrive
  <1>4. CASE DeactivatePrevious(c)
    <2>1. req'[c].pc = "create" /\ req'[c].op = req[c].op /\ visits' = visits
      BY <1>1, <1>4 DEF DeactivatePrevious, TypeOK, Request
    <2>2. req[c].op = "submit"
      BY <1>1, <1>4 DEF DeactivatePrevious, WellFormed, Request, Operation
    <2>3. QED
      BY <2>1, <2>2 DEF Undisturbed
  <1>5. CASE CreateScore(c)
    <2>1. req'[c].pc \in {"active", "scores"} /\ req'[c].op = req[c].op
      BY <1>1, <1>5 DEF CreateScore, TypeOK, Request, AfterEntries
    <2>2. req[c].op = "submit"
      BY <1>1, <1>5 DEF CreateScore, WellFormed, Request, Operation
    <2>3. QED
      BY <2>1, <2>2 DEF Undisturbed
  <1>6. ASSUME NEW i, Hold(c, i), visits' = visits, i = Target(req[c].op),
               req[c].op = "reset" => visits # <<>>,
               req[c].op = "check_in" => ~CheckInBlocked(visits)
        PROVE  Undisturbed(c)'
    <2>1. /\ req'[c].pc = "write" /\ req'[c].op = req[c].op /\ req'[c].at = i
          /\ req'[c].row = IF i = 0 THEN FirstArrival ELSE visits[i]
      BY <1>1, <1>6 DEF Hold, TypeOK, Request
    <2>2. Target(req[c].op)' = Target(req[c].op)
      BY <1>6, <2>1 DEF Target
    <2>3. QED
      BY <1>6, <2>1, <2>2 DEF Undisturbed, Target
  <1>7. ASSUME NEW pc \in {"active", "latest"}, req' = [req EXCEPT ![c].pc = pc],
               visits' = visits, req[c].op = "check_in" => ~CheckInBlocked(visits),
               req[c].op = "submit" => ActiveRow(visits) = 0
        PROVE  Undisturbed(c)'
    <2>1. req'[c].pc = pc /\ req'[c].op = req[c].op
      BY <1>1, <1>7 DEF TypeOK, Request
    <2>2. QED
      BY <1>7, <2>1 DEF Undisturbed
  <1>8. CASE ReadLatestCheckIn(c)
    BY <1>2, <1>7, <1>8 DEF ReadLatestCheckIn
  <1>9. CASE ReadLatestReset(c)
    BY <1>2, <1>6, <1>9 DEF ReadLatestReset, Target
  <1>10. CASE ReadLatestSubmit(c)
    BY <1>1, <1>6, <1>10 DEF ReadLatestSubmit, Target, Undisturbed
  <1>11. CASE ReadActive(c)
    <2>1. /\ req[c].op \in {"check_in", "check_out", "submit"}
          /\ req[c].op = "check_in" => ~CheckInBlocked(visits)
          /\ visits' = visits
      BY <1>1, <1>11 DEF ReadActive, WellFormed, Undisturbed, Request, Operation
    <2>2. CASE req[c].op = "submit" /\ ActiveRow(visits) = 0
      BY <1>7, <1>11, <2>1, <2>2 DEF ReadActive
    <2>3. CASE ~(req[c].op = "submit" /\ ActiveRow(visits) = 0)
      BY <1>6, <1>11, <2>1, <2>3 DEF ReadActive, Target
    <2>4. QED
      BY <2>2, <2>3
  <1>12. CASE RejectEntry(c) \/ WriteVisit(c) \/ Abort(c)
    BY <1>2, <1>12 DEF RejectEntry, WriteVisit, Abort
  <1>13. QED
    BY <1>3, <1>4, <1>5, <1>8, <1>9, <1>10, <1>11, <1>12 DEF Serve

LEMMA SinceStep ==
    ASSUME ~Overlap, IInv, SerialInv, [Next]_vars,
           \A c \in Client : Arrive(c) \/ Serve(c) \/ Abort(c)
                                => \A d \in Client \ {c} : req'[d] = Idle
    PROVE  Since'
  <1>1. /\ TypeOK /\ Since /\ Len(scores) \in Nat /\ DOMAIN scores = 1..Len(scores)
        /\ \A i \in DOMAIN scores : scores[i] \in Score
    BY Tables DEF IInv, SerialInv
  <1>2. CASE UNCHANGED <<scores, req>>
    BY <1>1, <1>2 DEF Since
  <1>3. CASE DeactivateAll \/ \E i \in DOMAIN scores, on \in BOOLEAN : PatchActive(i, on)
    <2>1. req' = req
      BY <1>3 DEF DeactivateAll, PatchActive
    <2>2. /\ Len(scores') = Len(scores) /\ DOMAIN scores' = DOMAIN scores
          /\ \A i \in DOMAIN scores : scores'[i].since = scores[i].since
      <3>1. CASE DeactivateAll
        <4>1. scores' = [i \in DOMAIN scores |->
                            IF scores[i].task \in Task THEN SwitchOff(scores[i]) ELSE scores[i]]
          BY <1>1, <3>1 DEF DeactivateAll, Score
        <4>2. QED
          BY <1>1, <4>1, SwitchedOff
      <3>2. ASSUME NEW i \in DOMAIN scores, NEW on \in BOOLEAN, PatchActive(i, on)
            PROVE  /\ Len(scores') = Len(scores) /\ DOMAIN scores' = DOMAIN scores
                   /\ \A j \in DOMAIN scores : scores'[j].since = scores[j].since
        <4> DEFINE s == [scores[i] EXCEPT !.active = on, !.restored = on]
        <4>1. s \in Score /\ s.since = scores[i].since
          BY <1>1 DEF Score
        <4>2. scores' = [scores EXCEPT ![i] = s]
          BY <3>2 DEF PatchActive
        <4> HIDE DEF s
        <4>3. QED
          BY <1>1, <4>1, <4>2, ExceptSeq DEF TypeOK
      <3>3. QED
        BY <1>3, <3>1, <3>2
    <2>3. QED
      BY <1>1, <2>1, <2>2 DEF Since
  <1>4. ASSUME NEW c \in Client, Arrive(c) \/ Serve(c) \/ Abort(c) PROVE Since'
    <2>1. \A d \in Client \ {c} : req'[d].pc # "create"
      BY <1>4 DEF Idle
    <2>2. CASE scores' = scores /\ req'[c].pc # "create"
      BY <1>1, <2>1, <2>2 DEF Since
    <2>3. CASE DeactivatePrevious(c)
      <3>1. req'[c].since = Len(scores)
        BY <1>1, <2>3 DEF DeactivatePrevious, TypeOK, Request
      <3>2. scores' = [i \in DOMAIN scores |->
                          IF scores[i].task \in {Head(req[c].todo)} THEN SwitchOff(scores[i])
                                                                    ELSE scores[i]]
        BY <2>3 DEF DeactivatePrevious
      <3>3. /\ Len(scores') = Len(scores) /\ DOMAIN scores' = DOMAIN scores
            /\ \A i \in DOMAIN scores : scores'[i].since = scores[i].since
        BY <1>1, <3>2, SwitchedOff
      <3>4. QED
        BY <1>1, <2>1, <3>1, <3>3 DEF Since
    <2>4. CASE CreateScore(c)
      <3>1. req'[c].pc # "create"
        <4>1. TypeOK /\ req[c] \in Request
          BY <1>1 DEF TypeOK
        <4>2. req'[c].pc \in {"active", "scores"} /\ req'[c].op = req[c].op
          BY <2>4, <4>1 DEF CreateScore, TypeOK, Request, AfterEntries
        <4>3. QED
          BY <4>2
      <3>2. req[c].since = Len(scores) /\ Head(req[c].todo) \in Task
        BY <1>1, <2>4 DEF CreateScore, Since, IInv, WellFormed
      <3>3. PICK on \in BOOLEAN :
               scores' = Append(scores, [task |-> Head(req[c].todo), active |-> on,
                                         restored |-> FALSE, since |-> req[c].since])
        BY <2>4 DEF CreateScore
      <3> DEFINE s == [task |-> Head(req[c].todo), active |-> on, restored |-> FALSE,
                       since |-> req[c].since]
      <3>4. s \in Score /\ s.since = Len(scores)
        BY <1>1, <3>2 DEF Score
      <3>5. scores' = Append(scores, s) /\ scores \in Seq(Score)
        BY <1>1, <3>3 DEF TypeOK
      <3> HIDE DEF s
      <3>6. /\ scores' \in Seq(Score) /\ Len(scores') = Len(scores) + 1
            /\ \A i \in 1..Len(scores) : scores'[i] = scores[i]
            /\ scores'[Len(scores) + 1] = s
        BY <3>4, <3>5, AppendProperties
      <3>7. DOMAIN scores' = 1..(Len(scores) + 1)
        BY <3>6, LenProperties
      <3>8. ASSUME NEW i \in DOMAIN scores' PROVE scores'[i].since = i - 1
        <4>1. CASE i \in 1..Len(scores)
          BY <1>1, <3>6, <4>1 DEF Since
        <4>2. CASE i = Len(scores) + 1
          BY <1>1, <3>4, <3>6, <4>2
        <4>3. QED
          BY <1>1, <3>7, <4>1, <4>2
      <3>9. QED
        BY <2>1, <3>1, <3>8 DEF Since
    <2>5. CASE Arrive(c)
      <3>1. ASSUME NEW r, Begin(c, r), r.pc # "create"
            PROVE  scores' = scores /\ req'[c].pc # "create"
        BY <1>1, <3>1 DEF Begin, TypeOK
      <3>2. CASE BeginCheckIn(c) \/ BeginCheckOut(c) \/ BeginReset(c)
        <4>1. /\ [Idle EXCEPT !.op = "check_in", !.pc = "latest"].pc # "create"
              /\ [Idle EXCEPT !.op = "check_out", !.pc = "active"].pc # "create"
              /\ [Idle EXCEPT !.op = "reset", !.pc = "latest"].pc # "create"
          BY DEF Idle
        <4>2. QED
          BY <2>2, <3>1, <3>2, <4>1 DEF BeginCheckIn, BeginCheckOut, BeginReset
      <3>3. ASSUME NEW todo \in Submissions, NEW times \in PayloadTimes,
                   BeginSubmit(c, todo, times)
            PROVE  Since'
        <4> DEFINE r == [Idle EXCEPT !.op = "submit", !.pc = AfterEntries(todo),
                                     !.todo = todo, !.times = times]
        <4>1. r.pc # "create" /\ Begin(c, r)
          BY <3>3 DEF BeginSubmit, AfterEntries, Idle
        <4> HIDE DEF r
        <4>2. QED
          BY <2>2, <3>1, <4>1
      <3>4. QED
        BY <2>5, <3>2, <3>3 DEF Arrive
    <2>6. CASE \/ RejectEntry(c) \/ ReadLatestCheckIn(c) \/ ReadLatestReset(c)
               \/ ReadLatestSubmit(c) \/ ReadActive(c) \/ WriteVisit(c) \/ Abort(c)
      <3>1. scores' = scores /\ req'[c].pc # "create"
        BY <1>1, <2>6 DEF RejectEntry, ReadLatestCheckIn, ReadLatestReset, ReadLatestSubmit,
           ReadActive, WriteVisit, Abort, Hold, Finish, TypeOK, Request, Idle
      <3>2. QED
        BY <2>2, <3>1
    <2>7. QED
      BY <1>4, <2>3, <2>4, <2>5, <2>6 DEF Serve
  <1>5. QED
    BY <1>2, <1>3, <1>4 DEF Next, ServerNext, vars

LEMMA SerialStep ==
    ASSUME ~Overlap
    PROVE  IInv /\ IInv' /\ SerialInv /\ [Next]_vars => SerialInv'
  <1> SUFFICES ASSUME IInv, IInv', SerialInv, [Next]_vars PROVE SerialInv'
    OBVIOUS
  <1>1. TypeOK /\ Alone /\ \A c \in Client : Undisturbed(c)
    BY DEF IInv, SerialInv
  <1>2. ASSUME NEW c \in Client, Arrive(c) \/ Serve(c) \/ Abort(c)
        PROVE  Alone' /\ (\A d \in Client \ {c} : req'[d] = Idle)
               /\ \A d \in Client : Undisturbed(d)'
    <2>1. Alone' /\ \A d \in Client \ {c} : req'[d] = Idle
      BY <1>1, <1>2, OthersIdle
    <2>2. Undisturbed(c)'
      BY <1>2, UndisturbedStep
    <2>3. \A d \in Client \ {c} : Undisturbed(d)'
      BY <2>1 DEF Undisturbed, Idle
    <2>4. QED
      BY <2>1, <2>2, <2>3
  <1>3. ASSUME UNCHANGED <<req, visits>>
        PROVE  Alone' /\ \A d \in Client : Undisturbed(d)'
    BY <1>1, <1>3 DEF Alone, Undisturbed, Target
  <1>4. Alone' /\ \A d \in Client : Undisturbed(d)'
    BY <1>2, <1>3 DEF Next, ServerNext, DeactivateAll, PatchActive, vars
  <1>5. Since'
    BY <1>2, SinceStep
  <1>6. QED
    BY <1>4, <1>5 DEF SerialInv

LEMMA Serial ==
    ASSUME ~Overlap
    PROVE  Spec => []SerialInv
  BY SerialInit, SerialStep, Inductive, PTL DEF Spec

-----------------------------------------------------------------------------
(* The handlers are atomic in effect.                                      *)

LEMMA SameQueries ==
    /\ Attempt!ActiveRow(visits) = ActiveRow(visits)
    /\ Attempt!LatestRow(visits) = LatestRow(visits)
    /\ Attempt!CheckInBlocked(visits) = CheckInBlocked(visits)
    /\ Attempt!PayloadTimes = PayloadTimes
  BY DEF Attempt!ActiveRow, ActiveRow, Attempt!OpenRows, OpenRows, Attempt!LatestRow,
     LatestRow, Attempt!CheckInBlocked, CheckInBlocked, Attempt!PayloadTimes, PayloadTimes

LEMMA SameRows ==
    ASSUME NEW v, NEW times
    PROVE  /\ Attempt!Arrived(v) = Arrived(v) /\ Attempt!Departed(v) = Departed(v)
           /\ Attempt!Scored(v, times) = Scored(v, times)
           /\ Attempt!Reopened(v) = Reopened(v)
           /\ Attempt!FirstArrival = FirstArrival /\ Attempt!DepartureOnly = DepartureOnly
           /\ Attempt!ScoreOnly(times) = ScoreOnly(times)
  BY DEF Attempt!Arrived, Arrived, Attempt!Departed, Departed, Attempt!Scored, Scored,
     Attempt!Reopened, Reopened, Attempt!FirstArrival, FirstArrival,
     Attempt!DepartureOnly, DepartureOnly, Attempt!ScoreOnly, ScoreOnly

\* The write of an undisturbed request is its whole handler.
LEMMA WriteIsHandler ==
    ASSUME IInv, NEW c \in Client, WriteVisit(c), Undisturbed(c)
    PROVE  Attempt!Next
  <1> DEFINE r == req[c]
  <1>1. /\ r.pc = "write" /\ r.op \in {"check_in", "check_out", "reset", "submit"}
        /\ r.at = Target(r.op) /\ (r.at # 0 => r.row = visits[r.at])
        /\ r.times \in PayloadTimes
        /\ r.op = "check_in" => ~CheckInBlocked(visits)
        /\ r.op = "reset" => visits # <<>>
    BY DEF WriteVisit, Undisturbed, IInv, TypeOK, WellFormed, Request, Operation
  <1>2. IF r.at = 0 THEN /\ Len(visits) < MaxVisits
                         /\ visits' = Append(visits, Written(r))
                    ELSE visits' = [visits EXCEPT ![r.at] = Written(r)]
    BY DEF WriteVisit
  <1> HIDE DEF r
  <1> USE DEF Attempt!Insert, Attempt!Update
  <1>3. CASE r.op = "check_in"
    <2>1. r.at = ActiveRow(visits)
          /\ Written(r) = IF r.at = 0 THEN FirstArrival ELSE Arrived(r.row)
      BY <1>1, <1>3 DEF Target, Written
    <2>2. Attempt!CheckIn
      BY <1>1, <1>2, <1>3, <2>1, SameQueries, SameRows DEF Attempt!CheckIn
    <2>3. QED
      BY <2>2 DEF Attempt!Next
  <1>4. CASE r.op = "check_out"
    <2>1. r.at = ActiveRow(visits)
          /\ Written(r) = IF r.at = 0 THEN DepartureOnly ELSE Departed(r.row)
      BY <1>1, <1>4 DEF Target, Written
    <2>2. Attempt!CheckOut
      BY <1>1, <1>2, <2>1, SameQueries, SameRows DEF Attempt!CheckOut
    <2>3. QED
      BY <2>2 DEF Attempt!Next
  <1>5. CASE r.op = "reset"
    <2>1. r.at = LatestRow(visits) /\ Written(r) = Reopened(r.row) /\ visits # <<>>
      BY <1>1, <1>5 DEF Target, Written
    <2>2. r.at # 0
      BY <2>1, EmptySeq DEF LatestRow, IInv, TypeOK
    <2>3. Attempt!Reset
      BY <1>1, <1>2, <2>1, <2>2, SameQueries, SameRows DEF Attempt!Reset
    <2>4. QED
      BY <2>3 DEF Attempt!Next
  <1>6. CASE r.op = "submit"
    <2>1. /\ r.at = IF ActiveRow(visits) # 0 THEN ActiveRow(visits) ELSE LatestRow(visits)
          /\ Written(r) = IF r.at = 0 THEN ScoreOnly(r.times) ELSE Scored(r.row, r.times)
      BY <1>1, <1>6 DEF Target, Written
    <2>2. Attempt!Submit(r.times)
      BY <1>1, <1>2, <2>1, SameQueries, SameRows DEF Attempt!Submit
    <2>3. QED
      BY <1>1, <2>2, SameQueries DEF Attempt!Next
  <1>7. QED
    BY <1>1, <1>3, <1>4, <1>5, <1>6

LEMMA OnlyWritesWrite ==
    ASSUME [Next]_vars
    PROVE  visits' = visits \/ \E c \in Client : WriteVisit(c)
  BY DEF Next, ServerNext, Serve, Arrive, BeginCheckIn, BeginCheckOut, BeginReset,
     BeginSubmit, Begin, DeactivatePrevious, CreateScore, RejectEntry, ReadLatestCheckIn,
     ReadLatestReset, ReadLatestSubmit, ReadActive, DeactivateAll, PatchActive, Abort, vars

\* Served one at a time, the handlers implement the one-step contract, for
\* any number of requests and wherever one of them breaks off.
THEOREM AttemptContractHolds ==
    ASSUME ~Overlap
    PROVE  Spec => AttemptContract
  <1>1. Init => Attempt!Init
    BY DEF Init, Attempt!Init
  <1>2. IInv /\ SerialInv /\ [Next]_vars => [Attempt!Next]_visits
    BY OnlyWritesWrite, WriteIsHandler DEF SerialInv
  <1>3. QED
    BY <1>1, <1>2, Inductive, Serial, PTL DEF Spec, AttemptContract, Attempt!Spec

\* Served one at a time, a task has at most one counted score row: the two
\* counted rows the run double_count finds take an overlap.
THEOREM OneScorePerTaskWhenSerial ==
    ASSUME ~Overlap
    PROVE  Spec => []OneScorePerTask
  <1>1. IInv /\ SerialInv => OneScorePerTask
    <2> SUFFICES ASSUME IInv, SerialInv, NEW i \in DOMAIN scores, NEW j \in DOMAIN scores,
                        Counted(i), Counted(j), scores[i].task = scores[j].task
                 PROVE  i = j
      BY DEF OneScorePerTask
    <2>1. i \in Nat /\ j \in Nat
      BY Tables DEF IInv
    <2>2. i < j => scores[j].since < i
      BY DEF IInv, DoubleCountNeedsOverlap
    <2>3. j < i => scores[i].since < j
      BY DEF IInv, DoubleCountNeedsOverlap
    <2>4. scores[i].since = i - 1 /\ scores[j].since = j - 1
      BY DEF SerialInv, Since
    <2>5. QED
      BY <2>1, <2>2, <2>3, <2>4
  <1>2. QED
    BY <1>1, Inductive, Serial, PTL

\* Served one at a time, no check-out takes a visit out of "completed": the
\* walk back the run walk_back finds takes an overlap.
THEOREM CheckOutKeepsCompletedWhenSerial ==
    ASSUME ~Overlap
    PROVE  Spec => CheckOutKeepsCompleted
  <1>1. IInv /\ SerialInv =>
           \A i \in DOMAIN visits :
              visits[i].status = "completed" /\ visits'[i].status # "completed"
                 => ~\E c \in Client : req[c].op = "check_out" /\ WriteVisit(c)
    <2> SUFFICES ASSUME IInv, SerialInv, NEW i \in DOMAIN visits, NEW c \in Client,
                        visits[i].status = "completed", req[c].op = "check_out", WriteVisit(c)
                 PROVE  visits'[i].status = "completed"
      OBVIOUS
    <2>1. /\ visits \in Seq(Visit) /\ DOMAIN visits = 1..Len(visits)
          /\ visits[i] \in Visit /\ Written(req[c]) \in Visit
      BY Tables, RowTypes DEF IInv, TypeOK, Request, Written
    <2>2. req[c].at # 0 => req[c].row = visits[req[c].at] /\ Written(req[c]) = Departed(req[c].row)
      BY DEF SerialInv, Undisturbed, WriteVisit, Written
    <2>3. CASE req[c].at = 0
      BY <2>1, <2>3, InsertRow DEF WriteVisit
    <2>4. CASE req[c].at = i /\ i # 0
      BY <2>1, <2>2, <2>4 DEF WriteVisit, Departed, Visit
    <2>5. CASE req[c].at # 0 /\ req[c].at # i
      BY <2>1, <2>5 DEF WriteVisit
    <2>6. QED
      BY <2>1, <2>3, <2>4, <2>5
  <1>2. QED
    BY <1>1, Inductive, Serial, PTL DEF CheckOutKeepsCompleted

=============================================================================
