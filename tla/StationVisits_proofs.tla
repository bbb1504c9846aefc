-------------------------- MODULE StationVisits_proofs -----------------------
(***************************************************************************)
(* What the queries and the writes of the visit handlers do to a table of  *)
(* visits of any length: facts that the proofs about StationAttempt,       *)
(* StationPhones and ScoreRequests share.                                  *)
(***************************************************************************)
EXTENDS StationVisits, SequenceTheorems, WellFoundedInduction, TLAPS

\* Overwriting one row of a table keeps its length and its other rows.
LEMMA UpdateRow ==
    ASSUME NEW vs \in Seq(Visit), NEW i \in DOMAIN vs, NEW v \in Visit
    PROVE  /\ [vs EXCEPT ![i] = v] \in Seq(Visit)
           /\ Len([vs EXCEPT ![i] = v]) = Len(vs)
           /\ \A j \in DOMAIN vs :
                 [vs EXCEPT ![i] = v][j] = IF j = i THEN v ELSE vs[j]
  <1>1. DOMAIN vs = 1..Len(vs)
    BY LenProperties
  <1>2. QED
    BY <1>1, ExceptSeq

\* Inserting a row makes it the latest and keeps the others.
LEMMA InsertRow ==
    ASSUME NEW vs \in Seq(Visit), NEW v \in Visit
    PROVE  /\ Append(vs, v) \in Seq(Visit)
           /\ Len(Append(vs, v)) = Len(vs) + 1
           /\ \A j \in DOMAIN vs : Append(vs, v)[j] = vs[j]
           /\ Append(vs, v)[Len(vs) + 1] = v
  BY LenProperties, AppendProperties

\* GET_ACTIVE_VISIT answers 0 exactly when no row is open, and when only the
\* latest row can be open it answers that row.
LEMMA ActiveIsLatest ==
    ASSUME NEW vs \in Seq(Visit), \A i \in OpenRows(vs) : i = LatestRow(vs)
    PROVE  /\ ActiveRow(vs) = 0 => OpenRows(vs) = {}
           /\ ActiveRow(vs) # 0 => /\ ActiveRow(vs) \in DOMAIN vs
                                   /\ ActiveRow(vs) = LatestRow(vs)
                                   /\ ~vs[ActiveRow(vs)].left
  <1>1. DOMAIN vs = 1..Len(vs) /\ Len(vs) \in Nat
    BY LenProperties
  <1>2. CASE OpenRows(vs) = {}
    BY <1>2 DEF ActiveRow
  <1>3. CASE OpenRows(vs) # {}
    <2>1. \E i \in OpenRows(vs) : \A j \in OpenRows(vs) : j <= i
      BY <1>1, <1>3 DEF LatestRow
    <2>2. ActiveRow(vs) \in OpenRows(vs)
      BY <1>3, <2>1 DEF ActiveRow
    <2>3. QED
      BY <1>1, <2>2 DEF OpenRows, LatestRow
  <1>4. QED
    BY <1>2, <1>3

\* In any table it answers a position or 0.
LEMMA ActiveRowInRange ==
    ASSUME NEW vs \in Seq(Visit)
    PROVE  /\ ActiveRow(vs) \in 0..Len(vs) /\ Len(vs) \in Nat
           /\ ActiveRow(vs) # 0 => ActiveRow(vs) \in OpenRows(vs)
  <1>1. DOMAIN vs = 1..Len(vs) /\ Len(vs) \in Nat
    BY LenProperties
  <1>2. CASE OpenRows(vs) = {}
    BY <1>1, <1>2 DEF ActiveRow
  <1>3. CASE OpenRows(vs) # {}
    <2> DEFINE n == Len(vs)
    <2> DEFINE Back == {n - i : i \in OpenRows(vs)}
    <2>1. OpenRows(vs) \subseteq 1..n /\ n \in Nat
      BY <1>1 DEF OpenRows
    <2>2. Back \subseteq Nat /\ Back # {}
      BY <1>3, <2>1
    <2>3. PICK x \in Back : \A y \in Back : ~(<<y, x>> \in OpToRel(<, Nat))
      BY <2>2, NatLessThanWellFounded, WFMin
    <2>4. ASSUME NEW y \in Back
          PROVE  x <= y
      <3>1. x \in Nat /\ y \in Nat
        BY <2>2
      <3>2. y < x => <<y, x>> \in OpToRel(<, Nat)
        BY <3>1 DEF OpToRel
      <3>3. ~(<<y, x>> \in OpToRel(<, Nat))
        BY <2>3
      <3> HIDE DEF Back, n
      <3>4. ~(y < x)
        BY <3>2, <3>3
      <3>5. QED
        BY <3>1, <3>4
    <2>5. PICK i \in OpenRows(vs) : x = n - i
      BY <2>3
    <2>6. ASSUME NEW j \in OpenRows(vs)
          PROVE  j <= i
      <3>1. n - j \in Back /\ i \in Nat /\ j \in Nat
        BY <2>1
      <3> HIDE DEF Back
      <3>2. n - i <= n - j
        BY <2>4, <2>5, <3>1
      <3>3. QED
        BY <2>1, <3>1, <3>2
    <2>7. ActiveRow(vs) \in OpenRows(vs)
      BY <1>3, <2>5, <2>6 DEF ActiveRow
    <2>8. QED
      BY <1>1, <2>1, <2>7
  <1>4. QED
    BY <1>2, <1>3

\* What the handlers write is a well-formed row.
LEMMA RowTypes ==
    ASSUME NEW v \in Visit, NEW times \in PayloadTimes
    PROVE  /\ Arrived(v) \in Visit /\ Departed(v) \in Visit
           /\ Scored(v, times) \in Visit /\ Reopened(v) \in Visit
           /\ FirstArrival \in Visit /\ DepartureOnly \in Visit
           /\ ScoreOnly(times) \in Visit
  <1> USE DEF Visit, Status
  <1>1. Arrived(v) \in Visit
    BY DEF Arrived
  <1>2. Departed(v) \in Visit
    BY DEF Departed
  <1>3. Scored(v, times) \in Visit
    BY Zenon DEF Scored
  <1>4. Reopened(v) \in Visit
    BY DEF Reopened
  <1>5. FirstArrival \in Visit /\ DepartureOnly \in Visit
    BY DEF FirstArrival, DepartureOnly
  <1>6. ScoreOnly(times) \in Visit
    BY DEF ScoreOnly
  <1>7. QED
    BY <1>1, <1>2, <1>3, <1>4, <1>5, <1>6

=============================================================================
