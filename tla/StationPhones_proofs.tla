------------------------ MODULE StationPhones_proofs -------------------------
(***************************************************************************)
(* Proofs about the one-step contract of the visit handlers and about the  *)
(* phones at a station, for any number of phones, lists and visits.        *)
(*                                                                         *)
(* OnlyLatestOpen is inductive together with TypeOK: a row is inserted     *)
(* only when no row is open, and the only row ever reopened is the latest. *)
(* It is what makes CompletedUntilReset and HistoryFrozen hold: check_in   *)
(* tests the latest row and writes the open one.                           *)
(*                                                                         *)
(* Whatever the phones show, they reach the visits through the handlers    *)
(* only, so the pages implement the contract StationAttempt and inherit    *)
(* what is proved about it.  ScoredStaysNewest needs the contract's own    *)
(* invariant: only the newest visit can be open, so a departure that was   *)
(* chosen from the newest visit finds that visit and inserts nothing.      *)
(***************************************************************************)
EXTENDS StationPhones, StationVisits_proofs

-----------------------------------------------------------------------------
(* The contract.                                                           *)

\* Every step writes at most one row, and it is the latest one: an insertion
\* when no row is open, an update of the latest row otherwise.
LEMMA StepShape ==
    ASSUME TypeOK, OnlyLatestOpen, Next
    PROVE  \E v \in Visit :
              \/ OpenRows(visits) = {} /\ visits' = Append(visits, v)
              \/ /\ LatestRow(visits) \in DOMAIN visits
                 /\ visits' = [visits EXCEPT ![LatestRow(visits)] = v]
  <1> USE DEF TypeOK, OnlyLatestOpen
  <1>1. DOMAIN visits = 1..Len(visits) /\ Len(visits) \in Nat
    BY LenProperties
  <1>2. \A i \in DOMAIN visits : visits[i] \in Visit
    BY <1>1, ElementOfSeq
  <1>3. {} \in PayloadTimes
    BY DEF PayloadTimes
  <1>4. CASE CheckIn
    <2>1. CASE ActiveRow(visits) # 0
      BY <1>2, <1>3, <1>4, <2>1, ActiveIsLatest, RowTypes DEF CheckIn, Update
    <2>2. CASE ActiveRow(visits) = 0
      BY <1>3, <1>4, <2>2, ActiveIsLatest, RowTypes, FirstArrival \in Visit
         DEF CheckIn, Insert, FirstArrival, Visit, Status
    <2>3. QED
      BY <2>1, <2>2
  <1>5. CASE CheckOut
    <2>1. CASE ActiveRow(visits) # 0
      BY <1>2, <1>3, <1>5, <2>1, ActiveIsLatest, RowTypes DEF CheckOut, Update
    <2>2. CASE ActiveRow(visits) = 0
      BY <1>3, <1>5, <2>2, ActiveIsLatest, RowTypes
         DEF CheckOut, Insert, DepartureOnly, Visit, Status
    <2>3. QED
      BY <2>1, <2>2
  <1>6. ASSUME NEW times \in PayloadTimes, Submit(times)
        PROVE  \E v \in Visit :
                  \/ OpenRows(visits) = {} /\ visits' = Append(visits, v)
                  \/ /\ LatestRow(visits) \in DOMAIN visits
                     /\ visits' = [visits EXCEPT ![LatestRow(visits)] = v]
    <2>1. ScoreOnly(times) \in Visit
      BY DEF ScoreOnly, Visit, Status
    <2>2. CASE ActiveRow(visits) # 0
      BY <1>2, <1>6, <2>2, ActiveIsLatest, RowTypes DEF Submit, Update
    <2>3. CASE ActiveRow(visits) = 0 /\ LatestRow(visits) # 0
      <3>1. LatestRow(visits) \in DOMAIN visits
        BY <1>1, <2>3 DEF LatestRow
      <3>2. visits' = [visits EXCEPT ![LatestRow(visits)] =
                         Scored(visits[LatestRow(visits)], times)]
        BY <1>6, <2>3 DEF Submit, Update
      <3>3. QED
        BY <1>2, <3>1, <3>2, RowTypes
    <2>4. CASE ActiveRow(visits) = 0 /\ LatestRow(visits) = 0
      BY <1>6, <2>1, <2>4, ActiveIsLatest DEF Submit, Insert
    <2>5. QED
      BY <2>2, <2>3, <2>4
  <1>7. CASE Reset
    <2>1. LatestRow(visits) \in DOMAIN visits
      BY <1>1, <1>7, EmptySeq DEF Reset, LatestRow
    <2>2. QED
      BY <1>2, <1>3, <1>7, <2>1, RowTypes DEF Reset, Update
  <1>8. QED
    BY <1>4, <1>5, <1>6, <1>7 DEF Next

-----------------------------------------------------------------------------

IInv == TypeOK /\ OnlyLatestOpen

LEMMA IInvInit == Init => IInv
  BY EmptySeq DEF Init, IInv, TypeOK, OnlyLatestOpen, OpenRows

LEMMA IInvStep == IInv /\ [Next]_visits => IInv'
  <1> SUFFICES ASSUME IInv, [Next]_visits
               PROVE  IInv'
    OBVIOUS
  <1> USE DEF IInv, TypeOK
  <1>1. CASE UNCHANGED visits
    BY <1>1 DEF OnlyLatestOpen, OpenRows, LatestRow
  <1>2. CASE Next
    <2>1. PICK v \in Visit :
              \/ OpenRows(visits) = {} /\ visits' = Append(visits, v)
              \/ /\ LatestRow(visits) \in DOMAIN visits
                 /\ visits' = [visits EXCEPT ![LatestRow(visits)] = v]
      BY <1>2, StepShape
    <2>2. DOMAIN visits = 1..Len(visits) /\ Len(visits) \in Nat
      BY LenProperties
    <2>3. CASE OpenRows(visits) = {} /\ visits' = Append(visits, v)
      <3>1. visits' \in Seq(Visit) /\ Len(visits') = Len(visits) + 1
        BY <2>3, InsertRow
      <3>2. DOMAIN visits' = 1..(Len(visits) + 1)
        BY <3>1, LenProperties
      <3>3. \A j \in 1..Len(visits) : ~(~visits'[j].left)
        <4>1. \A j \in 1..Len(visits) : ~(~visits[j].left)
          BY <2>2, <2>3 DEF OpenRows
        <4>2. \A j \in 1..Len(visits) : visits'[j] = visits[j]
          BY <2>2, <2>3, InsertRow
        <4>3. QED
          BY <4>1, <4>2, Zenon
      <3>4. QED
        BY <2>2, <3>1, <3>2, <3>3 DEF OnlyLatestOpen, OpenRows, LatestRow
    <2>4. CASE /\ LatestRow(visits) \in DOMAIN visits
               /\ visits' = [visits EXCEPT ![LatestRow(visits)] = v]
      <3>1. visits' \in Seq(Visit) /\ Len(visits') = Len(visits)
        BY <2>4, UpdateRow
      <3>2. DOMAIN visits' = DOMAIN visits
        BY <2>2, <3>1, LenProperties
      <3>3. \A j \in DOMAIN visits : j # LatestRow(visits) => visits'[j] = visits[j]
        BY <2>4, UpdateRow
      <3>4. QED
        BY <3>1, <3>2, <3>3 DEF OnlyLatestOpen, OpenRows, LatestRow
    <2>5. QED
      BY <2>1, <2>3, <2>4
  <1>3. QED
    BY <1>1, <1>2

\* Every reachable table holds well-formed visits.
THEOREM TypeCorrect == Spec => []TypeOK
  <1>1. IInv => TypeOK
    BY DEF IInv
  <1>2. QED
    BY IInvInit, IInvStep, <1>1, PTL DEF Spec

\* However many visits a patrol has made, only the newest can be open.
THEOREM OnlyLatestOpenHolds == Spec => []OnlyLatestOpen
  <1>1. IInv => OnlyLatestOpen
    BY DEF IInv
  <1>2. QED
    BY IInvInit, IInvStep, <1>1, PTL DEF Spec

\* No handler writes a visit that is not the newest.
THEOREM HistoryFrozenHolds == Spec => HistoryFrozen
  <1>1. ASSUME IInv, [Next]_visits, UNCHANGED visits \/ Next
        PROVE  \A i \in DOMAIN visits :
                  i < LatestRow(visits) => visits'[i] = visits[i]
    <2>1. CASE UNCHANGED visits
      BY <2>1
    <2>2. CASE Next
      <3>1. PICK v \in Visit :
                \/ OpenRows(visits) = {} /\ visits' = Append(visits, v)
                \/ /\ LatestRow(visits) \in DOMAIN visits
                   /\ visits' = [visits EXCEPT ![LatestRow(visits)] = v]
        BY <1>1, <2>2, StepShape DEF IInv
      <3>2. visits \in Seq(Visit) /\ Len(visits) \in Nat /\ DOMAIN visits = 1..Len(visits)
        BY <1>1, LenProperties DEF IInv, TypeOK
      <3>3. QED
        BY <3>1, <3>2, InsertRow, UpdateRow DEF LatestRow
    <2>3. QED
      BY <1>1, <2>1, <2>2
  <1>2. IInv /\ [Next]_visits =>
          [\A i \in DOMAIN visits : i < LatestRow(visits) => visits'[i] = visits[i]]_visits
    BY <1>1
  <1>3. QED
    BY IInvInit, IInvStep, <1>2, PTL DEF Spec, HistoryFrozen

\* Only a reset takes a visit out of "completed", by whatever check-ins and
\* check-outs come before.
THEOREM CompletedUntilResetHolds == Spec => CompletedUntilReset
  <1>1. ASSUME IInv, Next, NEW i \in DOMAIN visits,
               visits[i].status = "completed", visits'[i].status # "completed"
        PROVE  Reset
    <2> USE <1>1 DEF IInv, TypeOK
    <2>1. Len(visits) \in Nat /\ DOMAIN visits = 1..Len(visits)
      BY LenProperties
    <2>2. \A v \in Visit : visits' # Append(visits, v)
      BY InsertRow
    <2>3. visits[i] \in Visit
      BY <2>1, ElementOfSeq
    <2>4. \A j \in DOMAIN visits, v \in Visit :
             visits' = [visits EXCEPT ![j] = v] => i = j /\ v.status # "completed"
      BY UpdateRow
    <2>5. ~CheckIn
      <3>1. SUFFICES ASSUME CheckIn PROVE FALSE
        OBVIOUS
      <3>2. CASE ActiveRow(visits) # 0
        <4>1. ActiveRow(visits) = LatestRow(visits) /\ ActiveRow(visits) \in DOMAIN visits
          BY <3>2, ActiveIsLatest DEF OnlyLatestOpen
        <4>2. visits[ActiveRow(visits)] \in Visit
          BY <4>1, <2>1, ElementOfSeq
        <4>3. i = ActiveRow(visits)
          BY <3>1, <3>2, <4>1, <4>2, <2>4, RowTypes, {} \in PayloadTimes
             DEF CheckIn, Update, PayloadTimes
        <4>4. visits # <<>>
          BY <2>1, EmptySeq
        <4>5. QED
          BY <3>1, <4>1, <4>3, <4>4 DEF CheckIn, CheckInBlocked
      <3>3. CASE ActiveRow(visits) = 0
        BY <3>1, <3>3, <2>2 DEF CheckIn, Insert, FirstArrival, Visit, Status
      <3>4. QED
        BY <3>2, <3>3
    <2>6. ~CheckOut
      <3>1. SUFFICES ASSUME CheckOut PROVE FALSE
        OBVIOUS
      <3>2. CASE ActiveRow(visits) # 0
        <4>1. ActiveRow(visits) \in DOMAIN visits
          BY <3>2, ActiveIsLatest DEF OnlyLatestOpen
        <4>2. visits[ActiveRow(visits)] \in Visit
          BY <4>1, <2>1, ElementOfSeq
        <4>3. Departed(visits[ActiveRow(visits)]) \in Visit
          BY <4>2, RowTypes, {} \in PayloadTimes DEF PayloadTimes
        <4>4. visits' = [visits EXCEPT ![ActiveRow(visits)] =
                           Departed(visits[ActiveRow(visits)])]
          BY <3>1, <3>2 DEF CheckOut, Update
        <4>5. i = ActiveRow(visits) /\ Departed(visits[i]).status # "completed"
          BY <4>1, <4>3, <4>4, <2>4
        <4>6. QED
          BY <2>3, <4>5 DEF Departed, Visit
      <3>3. CASE ActiveRow(visits) = 0
        BY <3>1, <3>3, <2>2 DEF CheckOut, Insert, DepartureOnly, Visit, Status
      <3>4. QED
        BY <3>2, <3>3
    <2>7. ASSUME NEW times \in PayloadTimes, Submit(times)
          PROVE  FALSE
      <3> DEFINE k == IF ActiveRow(visits) # 0 THEN ActiveRow(visits)
                                               ELSE LatestRow(visits)
      <3>1. k # 0 => k \in DOMAIN visits
        BY <2>1, ActiveIsLatest DEF OnlyLatestOpen, LatestRow
      <3>2. CASE k # 0
        <4>1. visits[k] \in Visit
          BY <3>1, <3>2, <2>1, ElementOfSeq
        <4>2. Scored(visits[k], times) \in Visit /\ Scored(visits[k], times).status = "completed"
          <5>1. Scored(visits[k], times) \in Visit
            BY <4>1, RowTypes
          <5>2. DOMAIN visits[k] = {"status", "arrived", "left", "scored"}
            BY <4>1 DEF Visit
          <5>3. Scored(visits[k], times).status = "completed"
            BY <5>2, Zenon DEF Scored
          <5>4. QED
            BY <5>1, <5>3
        <4>3. visits' = [visits EXCEPT ![k] = Scored(visits[k], times)]
          BY <2>7, <3>2 DEF Submit, Update
        <4>4. QED
          BY <3>1, <3>2, <4>2, <4>3, <2>4
      <3>3. CASE k = 0
        BY <2>7, <3>3, <2>2 DEF Submit, Insert, ScoreOnly, Visit, Status
      <3>4. QED
        BY <3>2, <3>3
    <2>8. QED
      BY <2>5, <2>6, <2>7 DEF Next
  <1>2. IInv /\ [Next]_visits =>
          [\A i \in DOMAIN visits :
              visits[i].status = "completed" /\ visits'[i].status # "completed"
                 => Reset]_visits
    BY <1>1
  <1>3. QED
    BY IInvInit, IInvStep, <1>2, PTL DEF Spec, CompletedUntilReset

-----------------------------------------------------------------------------
(* The phones.                                                             *)

\* The steps of a phone that leave the visits alone.
LEMMA PageSteps ==
    ASSUME NEW p \in Phone,
           \/ Poll(p) \/ ReceiveList(p) \/ LoseList(p)
           \/ \E w \in Why : ReadList(p, w)
           \/ Choose(p) \/ Unchoose(p) \/ Ask(p) \/ Tap(p) \/ Cancel(p)
           \/ Confirm(p) \/ AskReset(p) \/ FailAction(p) \/ FailReset(p)
    PROVE  UNCHANGED <<visits, stale>>
  BY DEF Poll, ReceiveList, LoseList, ReadList, Choose, Unchoose, Ask, Tap, Cancel,
         Confirm, AskReset, FailAction, FailReset, OnPage

\* Every step of the phones writes the visits as one handler does, or not at
\* all; an action is taken from a view that is the newest visit's, or leaves
\* the history variable set.
LEMMA PhonesStep ==
    ASSUME [PhonesNext]_phoneVars
    PROVE  \/ UNCHANGED <<visits, stale>>
           \/ /\ Next
              /\ \/ UNCHANGED stale /\ (Reset \/ \E times \in PayloadTimes : Submit(times))
                 \/ /\ \E p \in Phone :
                          /\ stale' = (stale \/ page[p].basis # Latest)
                          /\ IF ActionFor(page[p].basis) = "check-in" THEN CheckIn ELSE CheckOut
  <1>1. CASE UNCHANGED phoneVars
    BY <1>1 DEF phoneVars
  <1>2. ASSUME NEW p \in Phone,
               \/ Poll(p) \/ ReceiveList(p) \/ LoseList(p)
               \/ \E w \in Why : ReadList(p, w)
               \/ Choose(p) \/ Unchoose(p) \/ Ask(p) \/ Tap(p) \/ Cancel(p)
               \/ Confirm(p) \/ AskReset(p) \/ FailAction(p) \/ FailReset(p)
        PROVE  UNCHANGED <<visits, stale>>
    BY <1>2, PageSteps
  <1>3. ASSUME NEW p \in Phone, TakeAction(p)
        PROVE  /\ Next
               /\ stale' = (stale \/ page[p].basis # Latest)
               /\ IF ActionFor(page[p].basis) = "check-in" THEN CheckIn ELSE CheckOut
    BY <1>3 DEF TakeAction, Next
  <1>4. ASSUME NEW p \in Phone, TakeReset(p)
        PROVE  Next /\ Reset /\ UNCHANGED stale
    BY <1>4 DEF TakeReset, Next
  <1>5. CASE ScoreSubmitted
    <2>1. {"startedAt", "completedAt"} \in PayloadTimes
      BY DEF PayloadTimes
    <2>2. QED
      BY <1>5, <2>1 DEF ScoreSubmitted, Next
  <1>6. CASE Revoke
    BY <1>6 DEF Revoke
  <1>7. QED
    BY <1>1, <1>2, <1>3, <1>4, <1>5, <1>6 DEF PhonesNext

-----------------------------------------------------------------------------
\* The pages implement the contract of the visits: whatever phones show, lose
\* and send, the table of visits changes by its handlers alone.
THEOREM PhonesKeepContract == PhonesSpec => Spec
  <1>1. PhonesInit => Init
    BY DEF PhonesInit
  <1>2. [PhonesNext]_phoneVars => [Next]_visits
    BY PhonesStep
  <1>3. QED
    BY <1>1, <1>2, PTL DEF PhonesSpec, Spec

\* A scored visit is the newest one, or some phone acted on an old list.
ScoredNewest(vs) ==
    \A i \in DOMAIN vs : i < LatestRow(vs) => vs[i].status # "completed"

\* A departure chosen from the newest visit finds it open and inserts nothing.
LEMMA DepartureFindsIt ==
    ASSUME TypeOK, OnlyLatestOpen, CheckOut, Latest = "here"
    PROVE  \E v \in Visit :
              /\ LatestRow(visits) \in DOMAIN visits
              /\ visits' = [visits EXCEPT ![LatestRow(visits)] = v]
  <1>1. Len(visits) \in Nat /\ DOMAIN visits = 1..Len(visits)
    BY LenProperties DEF TypeOK
  <1>2. visits # <<>> /\ ~visits[LatestRow(visits)].left
    BY DEF Latest, ViewOf
  <1>3. LatestRow(visits) \in DOMAIN visits
    BY <1>1, <1>2, EmptySeq DEF TypeOK, LatestRow
  <1>4. OpenRows(visits) # {}
    BY <1>2, <1>3 DEF OpenRows
  <1>5. ActiveRow(visits) = LatestRow(visits) /\ ActiveRow(visits) # 0
    <2>1. ActiveRow(visits) # 0
      BY <1>4, ActiveIsLatest DEF TypeOK, OnlyLatestOpen
    <2>2. QED
      BY <2>1, ActiveIsLatest DEF TypeOK, OnlyLatestOpen
  <1>6. visits' = [visits EXCEPT ![LatestRow(visits)] = Departed(visits[LatestRow(visits)])]
    BY <1>5 DEF CheckOut, Update
  <1>7. Departed(visits[LatestRow(visits)]) \in Visit
    <2>1. visits[LatestRow(visits)] \in Visit
      BY <1>1, <1>3, ElementOfSeq DEF TypeOK
    <2>2. QED
      BY <2>1, RowTypes, {} \in PayloadTimes DEF PayloadTimes
  <1>8. QED
    BY <1>3, <1>6, <1>7

\* Rows other than the newest keep their status when the newest is written.
LEMMA WriteKeeps ==
    ASSUME TypeOK, ScoredNewest(visits), NEW v \in Visit,
           LatestRow(visits) \in DOMAIN visits,
           visits' = [visits EXCEPT ![LatestRow(visits)] = v]
    PROVE  ScoredNewest(visits')
  <1>1. visits' \in Seq(Visit) /\ Len(visits') = Len(visits)
    BY UpdateRow DEF TypeOK
  <1>2. DOMAIN visits' = DOMAIN visits
    BY <1>1, LenProperties DEF TypeOK
  <1>3. \A i \in DOMAIN visits : i # LatestRow(visits) => visits'[i] = visits[i]
    BY UpdateRow DEF TypeOK
  <1>4. Len(visits) \in Nat /\ DOMAIN visits = 1..Len(visits)
    BY LenProperties DEF TypeOK
  <1>5. QED
    BY <1>1, <1>2, <1>3, <1>4 DEF ScoredNewest, LatestRow

\* A row is inserted over one that is not scored, or over none.
LEMMA InsertKeeps ==
    ASSUME TypeOK, ScoredNewest(visits), NEW v \in Visit,
           visits' = Append(visits, v),
           visits # <<>> => visits[LatestRow(visits)].status # "completed"
    PROVE  ScoredNewest(visits')
  <1>1. Len(visits) \in Nat /\ DOMAIN visits = 1..Len(visits)
    BY LenProperties DEF TypeOK
  <1>2. visits' \in Seq(Visit) /\ Len(visits') = Len(visits) + 1
    BY InsertRow DEF TypeOK
  <1>3. DOMAIN visits' = 1..(Len(visits) + 1)
    BY <1>2, LenProperties
  <1>4. \A i \in DOMAIN visits : visits'[i] = visits[i]
    BY InsertRow DEF TypeOK
  <1>5. ASSUME NEW i \in DOMAIN visits', i < LatestRow(visits')
        PROVE  visits'[i].status # "completed"
    <2>1. i \in DOMAIN visits /\ visits'[i] = visits[i]
      BY <1>1, <1>2, <1>3, <1>4, <1>5 DEF LatestRow
    <2>2. CASE i = LatestRow(visits)
      BY <1>1, <2>1, <2>2, EmptySeq
    <2>3. CASE i < LatestRow(visits)
      BY <2>1, <2>3 DEF ScoredNewest
    <2>4. QED
      BY <1>1, <2>1, <2>2, <2>3 DEF LatestRow
  <1>6. QED
    BY <1>5 DEF ScoredNewest

\* A handler that does not insert a departure keeps the scored visit newest.
LEMMA HandlerKeeps ==
    ASSUME TypeOK, OnlyLatestOpen, ScoredNewest(visits), Next,
           \/ Reset \/ CheckIn \/ \E times \in PayloadTimes : Submit(times)
           \/ CheckOut /\ Latest = "here"
    PROVE  ScoredNewest(visits')
  <1>1. PICK v \in Visit :
           \/ OpenRows(visits) = {} /\ visits' = Append(visits, v)
           \/ /\ LatestRow(visits) \in DOMAIN visits
              /\ visits' = [visits EXCEPT ![LatestRow(visits)] = v]
    BY StepShape
  <1>2. CASE /\ LatestRow(visits) \in DOMAIN visits
             /\ visits' = [visits EXCEPT ![LatestRow(visits)] = v]
    BY <1>2, WriteKeeps
  <1>3. CASE visits' = Append(visits, v)
    <2>1. Len(visits) \in Nat /\ DOMAIN visits = 1..Len(visits) /\ Len(visits') = Len(visits) + 1
      BY <1>3, LenProperties, InsertRow DEF TypeOK
    <2>2. ASSUME NEW i \in DOMAIN visits, NEW w \in Visit
          PROVE  visits' # [visits EXCEPT ![i] = w]
      <3> DEFINE written == [visits EXCEPT ![i] = w]
      <3>1. Len(written) = Len(visits)
        BY UpdateRow DEF TypeOK
      <3> HIDE DEF written
      <3>2. visits' # written
        BY <2>1, <3>1
      <3>3. QED
        BY <3>2 DEF written
    <2>3. \A i \in DOMAIN visits : visits[i] \in Visit
      BY <2>1, ElementOfSeq DEF TypeOK
    <2>4. visits # <<>> => visits[LatestRow(visits)].status # "completed"
      <3>1. CASE Reset
        <4>1. visits # <<>> => LatestRow(visits) \in DOMAIN visits
          BY <2>1, EmptySeq DEF LatestRow, TypeOK
        <4>2. LatestRow(visits) \in DOMAIN visits
          BY <3>1, <4>1 DEF Reset
        <4>3. Reopened(visits[LatestRow(visits)]) \in Visit
          BY <2>3, <4>2, RowTypes, {} \in PayloadTimes DEF PayloadTimes
        <4>4. QED
          BY <2>2, <3>1, <4>2, <4>3 DEF Reset, Update
      <3>2. CASE CheckIn
        BY <3>2 DEF CheckIn, CheckInBlocked
      <3>3. ASSUME NEW times \in PayloadTimes, Submit(times)
            PROVE  visits = <<>>
        <4> DEFINE k == IF ActiveRow(visits) # 0 THEN ActiveRow(visits)
                                                 ELSE LatestRow(visits)
        <4>1. k # 0 => k \in DOMAIN visits
          BY <2>1, ActiveIsLatest DEF TypeOK, OnlyLatestOpen, LatestRow
        <4>2. ASSUME k # 0 PROVE FALSE
          <5>1. Scored(visits[k], times) \in Visit
            BY <2>3, <4>1, <4>2, RowTypes
          <5>2. visits' = [visits EXCEPT ![k] = Scored(visits[k], times)]
            BY <3>3, <4>2 DEF Submit, Update
          <5>3. QED
            BY <2>2, <4>1, <4>2, <5>1, <5>2
        <4>3. Len(visits) = 0
          BY <2>1, <4>2 DEF LatestRow
        <4>4. QED
          BY <4>3, EmptySeq DEF TypeOK
      <3>4. CASE CheckOut /\ Latest = "here"
        BY <2>2, <3>4, DepartureFindsIt
      <3>5. QED
        BY <3>1, <3>2, <3>3, <3>4
    <2>5. QED
      BY <1>3, <2>4, InsertKeeps
  <1>4. QED
    BY <1>1, <1>2, <1>3

-----------------------------------------------------------------------------
PhonesInv == TypeOK /\ OnlyLatestOpen /\ (stale \/ ScoredNewest(visits))

LEMMA PhonesInvInit == PhonesInit => PhonesInv
  <1>1. PhonesInit => Init /\ visits = <<>>
    BY DEF PhonesInit, Init
  <1>2. visits = <<>> => ScoredNewest(visits)
    BY EmptySeq DEF ScoredNewest
  <1>3. QED
    BY <1>1, <1>2, IInvInit DEF PhonesInv, IInv

LEMMA PhonesInvStep == PhonesInv /\ [PhonesNext]_phoneVars => PhonesInv'
  <1> SUFFICES ASSUME PhonesInv, [PhonesNext]_phoneVars
               PROVE  PhonesInv'
    OBVIOUS
  <1>1. TypeOK' /\ OnlyLatestOpen'
    <2>1. [Next]_visits
      BY PhonesStep
    <2>2. QED
      BY <2>1, IInvStep DEF PhonesInv, IInv
  <1>2. (stale \/ ScoredNewest(visits))'
    <2>1. CASE UNCHANGED <<visits, stale>>
      BY <2>1 DEF PhonesInv
    <2>2. CASE /\ Next /\ UNCHANGED stale
               /\ Reset \/ \E times \in PayloadTimes : Submit(times)
      BY <2>2, HandlerKeeps DEF PhonesInv
    <2>3. ASSUME NEW p \in Phone, Next,
                 stale' = (stale \/ page[p].basis # Latest),
                 IF ActionFor(page[p].basis) = "check-in" THEN CheckIn ELSE CheckOut
          PROVE  (stale \/ ScoredNewest(visits))'
      <3>1. SUFFICES ASSUME ~stale'
                     PROVE  ScoredNewest(visits')
        OBVIOUS
      <3>2. ~stale /\ page[p].basis = Latest
        BY <2>3, <3>1
      <3>3. CheckIn \/ (CheckOut /\ Latest = "here")
        BY <2>3, <3>2 DEF ActionFor
      <3>4. QED
        BY <2>3, <3>2, <3>3, HandlerKeeps DEF PhonesInv
    <2>4. QED
      BY <2>1, <2>2, <2>3, PhonesStep
  <1>3. QED
    BY <1>1, <1>2 DEF PhonesInv

\* With any number of phones, lists and visits: a scored visit is buried under
\* a newer one only by a phone that acted on something else than the newest
\* visit.
THEOREM ScoredStaysNewestHolds == PhonesSpec => []ScoredStaysNewest
  <1>1. PhonesInv => ScoredStaysNewest
    BY DEF PhonesInv, ScoredStaysNewest, ScoredNewest
  <1>2. QED
    BY PhonesInvInit, PhonesInvStep, <1>1, PTL DEF PhonesSpec

\* Only the newest visit is open, whatever the phones do: a patrol is never
\* present twice at one station.
THEOREM PhonesOnlyLatestOpen == PhonesSpec => []OnlyLatestOpen
  <1>1. PhonesInv => OnlyLatestOpen
    BY DEF PhonesInv
  <1>2. QED
    BY PhonesInvInit, PhonesInvStep, <1>1, PTL DEF PhonesSpec

\* Only a reset takes a visit out of "completed", whichever page asked.
THEOREM PhonesCompletedUntilReset == PhonesSpec => CompletedUntilReset
  BY PhonesKeepContract, CompletedUntilResetHolds

=============================================================================
