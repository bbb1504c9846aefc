-------------------------- MODULE RosterPages_proofs --------------------------
(***************************************************************************)
(* Proofs about the roster, for any operators, names, sheets, rows, loads  *)
(* and number of people.                                                   *)
(*                                                                         *)
(* The import: nobody is deleted and nobody's key or ordinal changes, so   *)
(* an ordinal that is taken stays taken (Grows).  A request about to       *)
(* insert knows that every lower ordinal is taken; a row that has created  *)
(* k people knows that the ordinals 1..k are, and its own as well unless   *)
(* one of them was numbered below it, so the lookup that precedes another  *)
(* creation has missed only in that case and while k is below the row's    *)
(* ordinal (SecondNeedsLow).                                               *)
(* A row its preview was sure of refers to somebody who is on the roster,  *)
(* and stays there (KnownRowsUpdate).                                      *)
(*                                                                         *)
(* The gate: once a batch is over, and unless a list that was read before  *)
(* it replaced the page's (misled), the page and every load that is not    *)
(* late hold everybody who was added at the gate, so nobody the form       *)
(* offers is on the roster (KnowsAdded); a batch waits for one load        *)
(* (OneBatch), and what a page shows is on the roster, where nobody is     *)
(* here who is not listed                                                  *)
(* (GateLists).                                                            *)
(***************************************************************************)
EXTENDS RosterPages, FiniteSetTheorems, SequenceTheorems, NaturalsInduction,
        WellFoundedInduction, TLAPS

\* What an approved row relies on.
RowInv(r) ==
    /\ r.rename \in 0..Len(people)
    /\ r.made <= r.ordinal /\ (r.made <= 1 \/ r.low)
    /\ r.made = 0 \/ r.low \/ Taken(r.name, r.ordinal)
    /\ \A k \in 1..r.made : Taken(r.name, k)
    /\ r.sure => r.made = 0 /\ (r.rename # 0 \/ Taken(r.name, r.ordinal))

PlanInv(c) == \A x \in 1..Len(plan[c]) : RowInv(plan[c][x])

\* What a request in flight relies on.
ReqInv(c) ==
    /\ req[c].pc \in {"find", "rename"} => req[c].at # 0
    /\ req[c].at # 0 => /\ req[c].at \in 1..Len(plan[c])
                        /\ req[c].name = plan[c][req[c].at].name
    /\ req[c].pc # "idle" => req[c].name \in Name
    /\ req[c].pc = "rename" => plan[c][req[c].at].rename # 0
    /\ req[c].pc = "write" => req[c].id \in Id
    /\ req[c].pc = "create" => \A o \in 1..(req[c].ordinal - 1) : Taken(req[c].name, o)
    /\ req[c].pc \in {"rename", "number", "create"} /\ req[c].at # 0
          => /\ plan[c][req[c].at].made < plan[c][req[c].at].ordinal
             /\ plan[c][req[c].at].made = 0 \/ plan[c][req[c].at].low
    /\ req[c].pc \in {"number", "create"} /\ req[c].at # 0 => ~plan[c][req[c].at].sure
    /\ req[c].pc = "write" /\ ~req[c].stale => req[c].status = people[req[c].id].status

IInv ==
    /\ TypeOK
    /\ OrdinalsContiguous
    /\ \A c \in Operator : PlanInv(c) /\ ReqInv(c)

\* People are only added, and keep their key and ordinal.
Grows ==
    /\ Len(people) <= Len(people')
    /\ \A i \in Id : /\ people'[i].key = people[i].key
                     /\ people'[i].ordinal = people[i].ordinal

\* The request is the same, except that its copy may have become stale.
SameRequest(c) ==
    /\ \A f \in {"pc", "at", "name", "ordinal", "id", "status"} : req'[c][f] = req[c][f]
    /\ req[c].stale => req'[c].stale
    /\ req[c].pc = "write" /\ ~req'[c].stale
          => people'[req[c].id].status = people[req[c].id].status

-----------------------------------------------------------------------------

LEMMA TypeFacts ==
    ASSUME TypeOK, NEW c \in Operator
    PROVE  /\ Len(people) \in Nat /\ Len(plan[c]) \in Nat
           /\ \A i \in Id : people[i] \in Person
           /\ \A x \in 1..Len(plan[c]) : plan[c][x] \in Row
           /\ DOMAIN plan[c] = 1..Len(plan[c])
           /\ req[c] \in Request
  <1>1. people \in Seq(Person) /\ plan[c] \in Seq(Row) /\ req[c] \in Request
    BY DEF TypeOK
  <1>2. QED
    BY <1>1, LenProperties, ElementOfSeq DEF Id

LEMMA TakenStays ==
    ASSUME TypeOK, Grows, NEW key, NEW o, Taken(key, o)
    PROVE  Taken(key, o)'
  <1>1. Len(people) \in Nat
    BY LenProperties DEF TypeOK
  <1>2. Len(people') \in Nat
    BY <1>1 DEF Grows
  <1>3. PICK i \in Id : people[i].key = key /\ people[i].ordinal = o
    BY DEF Taken
  <1>4. i \in Id' /\ people'[i].key = key /\ people'[i].ordinal = o
    BY <1>1, <1>2, <1>3 DEF Grows, Id
  <1>5. QED
    BY <1>4 DEF Taken

\* Approved rows stay good while the roster grows.
LEMMA RowStays ==
    ASSUME TypeOK, Grows, NEW r \in Row, RowInv(r)
    PROVE  RowInv(r)'
  <1>1. Len(people) \in Nat /\ Len(people') \in Nat
    BY LenProperties DEF TypeOK, Grows
  <1>2. r.rename \in 0..Len(people')
    BY <1>1 DEF RowInv, Grows
  <1>3. \A k \in 1..r.made : Taken(r.name, k)'
    BY TakenStays DEF RowInv
  <1>4. r.sure => r.made = 0 /\ (r.rename # 0 \/ Taken(r.name, r.ordinal)')
    BY TakenStays DEF RowInv
  <1>5. r.made = 0 \/ r.low \/ Taken(r.name, r.ordinal)'
    BY TakenStays DEF RowInv
  <1>6. QED
    BY <1>2, <1>3, <1>4, <1>5 DEF RowInv

\* What a step of somebody else leaves of an operator's invariant.
LEMMA OthersStay ==
    ASSUME TypeOK, Grows, NEW d \in Operator, PlanInv(d), ReqInv(d),
           plan'[d] = plan[d], SameRequest(d)
    PROVE  PlanInv(d)' /\ ReqInv(d)'
  <1>1. /\ Len(people) \in Nat /\ Len(people') \in Nat
        /\ \A x \in 1..Len(plan[d]) : plan[d][x] \in Row
        /\ req[d] \in Request
    BY TypeFacts DEF Grows
  <1>2. PlanInv(d)'
    BY <1>1, RowStays DEF PlanInv
  <1>3. /\ req'[d].pc = req[d].pc /\ req'[d].at = req[d].at
        /\ req'[d].name = req[d].name /\ req'[d].ordinal = req[d].ordinal
        /\ req'[d].id = req[d].id /\ req'[d].status = req[d].status
    BY DEF SameRequest
  <1>4. req[d].pc = "write" => req[d].id \in Id'
    BY <1>1 DEF ReqInv, Grows, Id
  <1>5. req[d].pc = "create" => \A o \in 1..(req[d].ordinal - 1) : Taken(req[d].name, o)'
    BY <1>3, TakenStays DEF ReqInv
  <1>6. req[d].pc = "write" /\ ~req'[d].stale
            => req[d].status = people'[req[d].id].status
    BY <1>1 DEF ReqInv, SameRequest, Request
  <1>7. QED
    BY <1>2, <1>3, <1>4, <1>5, <1>6 DEF ReqInv

\* A step that writes one operator's request, or somebody's status or name,
\* and neither adds people nor renumbers them, keeps the numbering.
LEMMA NumberingStays ==
    ASSUME TypeOK, OrdinalsContiguous, Grows, Len(people') = Len(people)
    PROVE  OrdinalsContiguous'
  <1>1. Id' = Id
    BY DEF Id
  <1>2. \A i \in Id : /\ people'[i].key = people[i].key
                       /\ people'[i].ordinal = people[i].ordinal
    BY DEF Grows
  <1>3. ASSUME NEW i \in Id, NEW o \in 1..people[i].ordinal
        PROVE  Taken(people[i].key, o)'
    <2>1. Taken(people[i].key, o)
      BY <1>3 DEF OrdinalsContiguous
    <2>2. QED
      BY <1>2, <1>3, <2>1, TakenStays
  <1>4. QED
    BY <1>1, <1>2, <1>3 DEF OrdinalsContiguous

\* The request that starts row x of a plan, or the answer after the last row.
LEMMA ApplyRowFacts ==
    ASSUME TypeOK, NEW c \in Operator, NEW x \in Nat \ {0}
    PROVE  LET r == ApplyRow(c, x)
           IN  /\ r \in Request
               /\ \/ r.pc = "idle" /\ r.at = 0
                  \/ /\ r.pc = "find" /\ r.at \in 1..Len(plan[c])
                     /\ r.name = plan[c][r.at].name /\ r.name \in Name
  <1>1. Len(plan[c]) \in Nat /\ \A y \in 1..Len(plan[c]) : plan[c][y] \in Row
    BY TypeFacts
  <1>2. Idle \in Request
    BY RosterAssumption DEF Idle, Request
  <1>3. CASE x > Len(plan[c])
    BY <1>2, <1>3 DEF ApplyRow, Idle
  <1>4. CASE ~(x > Len(plan[c]))
    <2>1. x \in 1..Len(plan[c]) /\ plan[c][x].name \in Name
      BY <1>1, <1>4 DEF Row
    <2>2. QED
      BY <1>2, <1>4, <2>1 DEF ApplyRow, Idle, Request
  <1>5. QED
    BY <1>3, <1>4

LEMMA ContinueFacts ==
    ASSUME TypeOK, NEW c \in Operator
    PROVE  LET r == Continue(c)
           IN  /\ r \in Request
               /\ \/ r.pc = "idle" /\ r.at = 0
                  \/ /\ r.pc = "find" /\ r.at \in 1..Len(plan[c])
                     /\ r.name = plan[c][r.at].name /\ r.name \in Name
  <1>1. req[c].at \in Nat
    BY TypeFacts DEF Request
  <1>2. CASE req[c].at = 0
    BY <1>2, RosterAssumption DEF Continue, Idle, Request
  <1>3. CASE req[c].at # 0
    <2>1. Continue(c) = ApplyRow(c, req[c].at + 1) /\ req[c].at + 1 \in Nat \ {0}
      BY <1>1, <1>3 DEF Continue
    <2>2. QED
      BY <2>1, ApplyRowFacts
  <1>4. QED
    BY <1>2, <1>3

-----------------------------------------------------------------------------
(* Steps that move one request and write nothing.                          *)

LEMMA OneRequest ==
    ASSUME IInv, NEW c \in Operator, NEW r \in Request,
           people' = people, plan' = plan, req' = [req EXCEPT ![c] = r], ReqInv(c)'
    PROVE  IInv'
  <1>1. /\ TypeOK /\ OrdinalsContiguous
        /\ \A d \in Operator : PlanInv(d) /\ ReqInv(d)
    BY DEF IInv
  <1>2. /\ req' \in [Operator -> Request] /\ req'[c] = r
        /\ \A d \in Operator \ {c} : req'[d] = req[d]
    BY <1>1 DEF TypeOK
  <1>3. TypeOK'
    BY <1>1, <1>2 DEF TypeOK
  <1>4. Grows
    BY <1>1, LenProperties DEF Grows, TypeOK
  <1>5. OrdinalsContiguous'
    BY <1>1, <1>4, NumberingStays
  <1>6. ASSUME NEW d \in Operator
        PROVE  PlanInv(d)' /\ ReqInv(d)'
    <2>1. CASE d # c
      <3>1. SameRequest(d)
        BY <1>1, <1>2, <2>1 DEF SameRequest, ReqInv
      <3>2. QED
        BY <1>1, <1>4, <3>1, OthersStay
    <2>2. CASE d = c
      BY <1>1, <2>2 DEF PlanInv, RowInv, Taken, Id
    <2>3. QED
      BY <2>1, <2>2
  <1>7. QED
    BY <1>3, <1>5, <1>6 DEF IInv

\* An idle request relies on nothing.
LEMMA IdleIsFree ==
    ASSUME NEW c \in Operator, req'[c].pc = "idle", req'[c].at = 0
    PROVE  ReqInv(c)'
  BY DEF ReqInv

LEMMA IdleRequest == Idle \in Request /\ Idle.pc = "idle" /\ Idle.at = 0
  BY RosterAssumption DEF Idle, Request

LEMMA AbortStep ==
    ASSUME IInv, NEW c \in Operator, Abort(c)
    PROVE  IInv'
  <1>1. req'[c] = Idle
    BY DEF Abort, IInv, TypeOK
  <1>2. QED
    BY <1>1, IdleRequest, IdleIsFree, OneRequest DEF Abort

LEMMA ApplyStep ==
    ASSUME IInv, NEW c \in Operator, Apply(c)
    PROVE  IInv'
  <1> DEFINE r == ApplyRow(c, 1)
  <1>1. TypeOK
    BY DEF IInv
  <1>2. /\ people' = people /\ plan' = plan
        /\ req' = [req EXCEPT ![c] = r] /\ req'[c] = r
    BY <1>1 DEF Apply, Begin, TypeOK
  <1>3. /\ r \in Request
        /\ \/ r.pc = "idle" /\ r.at = 0
           \/ /\ r.pc = "find" /\ r.at \in 1..Len(plan[c])
              /\ r.name = plan[c][r.at].name /\ r.name \in Name
    BY <1>1, ApplyRowFacts
  <1>4. ReqInv(c)'
    BY <1>1, <1>2, <1>3, TypeFacts DEF ReqInv
  <1>5. QED
    BY <1>2, <1>3, <1>4, OneRequest

\* A request that has just read person i.
LEMMA ReadPerson ==
    ASSUME IInv, NEW c \in Operator, NEW r \in Request, NEW i \in Id,
           r.name \in Name, r.at # 0 => r.at \in 1..Len(plan[c]) /\ r.name = plan[c][r.at].name,
           people' = people, plan' = plan, req' = [req EXCEPT ![c] = Copy(r, i)]
    PROVE  IInv'
  <1> DEFINE q == Copy(r, i)
  <1>1. TypeOK /\ people[i] \in Person /\ Len(people) \in Nat
    BY TypeFacts DEF IInv
  <1>2. /\ q \in Request /\ q.pc = "write" /\ q.at = r.at /\ q.name = r.name
        /\ q.id = i /\ q.status = people[i].status
    <2>1. i \in Nat /\ people[i].status \in Status
      BY <1>1 DEF Id, Person
    <2>2. QED
      BY <2>1 DEF Request, Copy
  <1>3. req'[c] = q
    BY <1>1 DEF TypeOK
  <1>4. ReqInv(c)'
    BY <1>2, <1>3 DEF ReqInv, Id
  <1>5. QED
    BY <1>2, <1>4, OneRequest

LEMMA FindByKeyStep ==
    ASSUME IInv, NEW c \in Operator, FindByKey(c)
    PROVE  IInv'
  <1> DEFINE row == plan[c][req[c].at]
             found == {i \in Id : people[i].key = req[c].name /\ people[i].ordinal = row.ordinal}
  <1>1. /\ TypeOK /\ PlanInv(c) /\ ReqInv(c) /\ req[c] \in Request
        /\ req[c].pc = "find"
    BY TypeFacts DEF IInv, FindByKey, Lookup
  <1>2. /\ req[c].at # 0 /\ req[c].at \in 1..Len(plan[c])
        /\ req[c].name = row.name /\ req[c].name \in Name
        /\ row \in Row /\ RowInv(row)
    BY <1>1, TypeFacts DEF ReqInv, PlanInv
  <1>3. people' = people /\ plan' = plan
    BY DEF FindByKey, Lookup
  <1>4. CASE \E i \in found : req' = [req EXCEPT ![c] = Copy(@, i)]
    <2>1. PICK i \in Id : req' = [req EXCEPT ![c] = Copy(req[c], i)]
      BY <1>1, <1>4 DEF TypeOK
    <2>2. QED
      BY <1>1, <1>2, <1>3, <2>1, ReadPerson
  <1>5. CASE /\ found = {}
             /\ req' = [req EXCEPT ![c].pc = IF row.rename # 0 THEN "rename" ELSE "number"]
    <2> DEFINE r == [req[c] EXCEPT !.pc = IF row.rename # 0 THEN "rename" ELSE "number"]
    <2>1. /\ r \in Request /\ req' = [req EXCEPT ![c] = r] /\ req'[c] = r
          /\ r.at = req[c].at /\ r.name = req[c].name
          /\ r.pc = IF row.rename # 0 THEN "rename" ELSE "number"
      BY <1>1, <1>5 DEF TypeOK, Request
    <2>2. ~Taken(row.name, row.ordinal)
      BY <1>2, <1>5 DEF Taken
    <2>3. row.made < row.ordinal /\ (row.made = 0 \/ row.low)
      <3>1. row.made \in Nat /\ row.ordinal \in Nat /\ row.ordinal >= 1
        BY <1>2 DEF Row
      <3>2. ~(row.ordinal \in 1..row.made)
        BY <1>2, <2>2 DEF RowInv
      <3>3. row.made = 0 \/ row.low
        BY <1>2, <2>2 DEF RowInv
      <3>4. QED
        BY <3>1, <3>2, <3>3
    <2> HIDE DEF r
    <2>4. /\ req'[c].pc \in {"rename", "number"}
          /\ req'[c].pc = "rename" => row.rename # 0
          /\ req'[c].pc = "number" => ~row.sure
          /\ req'[c].at = req[c].at /\ req'[c].name = row.name
          /\ plan'[c][req'[c].at] = row /\ plan'[c] = plan[c]
      <3>1. row.sure => row.rename # 0
        BY <1>2, <2>2 DEF RowInv
      <3>2. QED
        BY <1>2, <1>3, <2>1, <3>1
    <2>5. ReqInv(c)'
      BY <1>2, <2>3, <2>4 DEF ReqInv
    <2>6. QED
      BY <1>3, <2>1, <2>5, OneRequest
  <1>6. QED
    BY <1>4, <1>5 DEF FindByKey, Lookup

LEMMA ReadRenamedStep ==
    ASSUME IInv, NEW c \in Operator, ReadRenamed(c)
    PROVE  IInv'
  <1>1. /\ TypeOK /\ PlanInv(c) /\ ReqInv(c) /\ req[c] \in Request
        /\ req[c].pc = "rename"
    BY TypeFacts DEF IInv, ReadRenamed
  <1>2. /\ req[c].at \in 1..Len(plan[c]) /\ plan[c][req[c].at].rename \in Id
        /\ req[c].name = plan[c][req[c].at].name /\ req[c].name \in Name
    BY <1>1, TypeFacts DEF ReqInv, PlanInv, RowInv, Id
  <1>3. /\ people' = people /\ plan' = plan
        /\ req' = [req EXCEPT ![c] = Copy(req[c], plan[c][req[c].at].rename)]
    BY <1>1 DEF ReadRenamed, TypeOK
  <1>4. QED
    BY <1>1, <1>2, <1>3, ReadPerson

LEMMA EditByHandStep ==
    ASSUME IInv, NEW c \in Operator, NEW name \in Name, NEW i \in Id, EditByHand(c, i, name)
    PROVE  IInv'
  <1> DEFINE r == [Idle EXCEPT !.name = name]
  <1>1. r \in Request /\ r.name = name /\ r.at = 0
    BY IdleRequest DEF Request
  <1>2. people' = people /\ plan' = plan /\ req' = [req EXCEPT ![c] = Copy(r, i)]
    BY DEF EditByHand, Begin
  <1>3. QED
    BY <1>1, <1>2, ReadPerson

LEMMA AddByHandStep ==
    ASSUME IInv, NEW c \in Operator, NEW name \in Name, AddByHand(c, name)
    PROVE  IInv'
  <1> DEFINE r == [Idle EXCEPT !.pc = "number", !.name = name]
  <1>1. r \in Request /\ r.name = name /\ r.at = 0 /\ r.pc = "number"
    BY IdleRequest DEF Request, Idle
  <1>2. /\ people' = people /\ plan' = plan
        /\ req' = [req EXCEPT ![c] = r] /\ req'[c] = r
    BY DEF AddByHand, Begin, IInv, TypeOK
  <1>3. ReqInv(c)'
    BY <1>1, <1>2 DEF ReqInv
  <1>4. QED
    BY <1>1, <1>2, <1>3, OneRequest

LEMMA NextFreeOrdinalStep ==
    ASSUME IInv, NEW c \in Operator, NextFreeOrdinal(c)
    PROVE  IInv'
  <1>1. /\ TypeOK /\ ReqInv(c) /\ req[c] \in Request /\ req[c].pc = "number"
        /\ Len(people) \in Nat
    BY TypeFacts DEF IInv, NextFreeOrdinal
  <1>2. PICK o \in 1..(Len(people) + 1) :
          /\ \A p \in 1..(o - 1) : Taken(req[c].name, p)
          /\ req' = [req EXCEPT ![c] = Numbered(req[c], o)]
    BY <1>1 DEF NextFreeOrdinal, TypeOK
  <1> DEFINE r == Numbered(req[c], o)
  <1>3. /\ r \in Request /\ r.pc = "create" /\ r.at = req[c].at
        /\ r.name = req[c].name /\ r.ordinal = o
    <2>1. o \in Nat \ {0}
      BY <1>1
    <2>2. QED
      BY <1>1, <2>1 DEF Request, Numbered
  <1>4. /\ people' = people /\ plan' = plan
        /\ req' = [req EXCEPT ![c] = r] /\ req'[c] = r
    BY <1>1, <1>2 DEF NextFreeOrdinal, TypeOK
  <1>5. \A name : \A p \in 1..(o - 1) : Taken(name, p) => Taken(name, p)'
    BY <1>4 DEF Taken, Id
  <1>6. ReqInv(c)'
    BY <1>1, <1>2, <1>3, <1>4, <1>5 DEF ReqInv
  <1>7. QED
    BY <1>3, <1>4, <1>6, OneRequest

-----------------------------------------------------------------------------
(* Steps that write a person.                                              *)

LEMMA StaleUpdate ==
    ASSUME NEW q \in Request, NEW b \in BOOLEAN
    PROVE  LET s == [q EXCEPT !.stale = b]
           IN  /\ s \in Request /\ s.pc = q.pc /\ s.at = q.at /\ s.name = q.name
               /\ s.ordinal = q.ordinal /\ s.id = q.id /\ s.status = q.status
               /\ s.stale = b
  BY DEF Request

\* What an UPDATE of person i leaves: its name and status may change, and
\* every other request's copy of it becomes stale.
LEMMA WritePerson ==
    ASSUME IInv, NEW i \in Id, NEW p \in Person, NEW r,
           p.key = people[i].key, p.ordinal = people[i].ordinal,
           r \in [Operator -> Request],
           \A d \in Operator :
              \/ r[d] = req[d]
              \/ r[d].pc = "idle" /\ r[d].at = 0
              \/ /\ r[d].pc = "find" /\ r[d].at \in 1..Len(plan[d])
                 /\ r[d].name = plan[d][r[d].at].name /\ r[d].name \in Name,
           people' = [people EXCEPT ![i] = p], plan' = plan, req' = Outdated(r, i)
    PROVE  IInv'
  <1>1. /\ TypeOK /\ OrdinalsContiguous /\ people \in Seq(Person)
        /\ \A d \in Operator : PlanInv(d) /\ ReqInv(d)
    BY DEF IInv, TypeOK
  <1>2. /\ people' \in Seq(Person) /\ Len(people') = Len(people) /\ people'[i] = p
        /\ \A j \in Id : j # i => people'[j] = people[j]
    BY <1>1, ExceptSeq DEF Id
  <1>3. Grows
    BY <1>1, <1>2, LenProperties DEF Grows
  <1>4. OrdinalsContiguous'
    BY <1>1, <1>2, <1>3, NumberingStays
  <1>5. \A d \in Operator :
           /\ req'[d] = [r[d] EXCEPT !.stale = @ \/ (r[d].pc = "write" /\ r[d].id = i)]
           /\ r[d] \in Request
    BY DEF Outdated
  <1>6. ASSUME NEW d \in Operator
        PROVE
           /\ req'[d] \in Request
           /\ req'[d].pc = r[d].pc /\ req'[d].at = r[d].at /\ req'[d].name = r[d].name
           /\ req'[d].ordinal = r[d].ordinal /\ req'[d].id = r[d].id
           /\ req'[d].status = r[d].status
           /\ req'[d].stale = (r[d].stale \/ (r[d].pc = "write" /\ r[d].id = i))
    <2> DEFINE b == r[d].stale \/ (r[d].pc = "write" /\ r[d].id = i)
    <2>1. b \in BOOLEAN /\ r[d] \in Request
      BY <1>5 DEF Request
    <2>2. req'[d] = [r[d] EXCEPT !.stale = b]
      BY <1>5
    <2> HIDE DEF b
    <2>3. /\ req'[d] \in Request
          /\ req'[d].pc = r[d].pc /\ req'[d].at = r[d].at /\ req'[d].name = r[d].name
          /\ req'[d].ordinal = r[d].ordinal /\ req'[d].id = r[d].id
          /\ req'[d].status = r[d].status /\ req'[d].stale = b
      BY <2>1, <2>2, StaleUpdate
    <2>4. QED
      BY <2>3 DEF b
  <1>7. TypeOK'
    <2>1. req' \in [Operator -> Request]
      BY <1>6 DEF Outdated
    <2>2. QED
      BY <1>1, <1>2, <2>1 DEF TypeOK
  <1>8. ASSUME NEW d \in Operator
        PROVE  PlanInv(d)' /\ ReqInv(d)'
    <2>1. CASE r[d] = req[d]
      <3>1. r[d] = req[d] /\ req[d] \in Request /\ ReqInv(d)
        BY <1>1, <2>1, TypeFacts
      <3>2. ASSUME req[d].pc = "write", ~req'[d].stale
            PROVE  people'[req[d].id].status = people[req[d].id].status
        <4>1. req'[d].stale = (req[d].stale \/ (req[d].pc = "write" /\ req[d].id = i))
          BY <1>6, <3>1
        <4>2. req[d].id # i
          BY <3>2, <4>1
        <4>3. req[d].id \in Id /\ req[d].status = people[req[d].id].status
          BY <3>1, <3>2, <4>1 DEF ReqInv
        <4>4. QED
          BY <1>2, <4>2, <4>3
      <3>3. SameRequest(d)
        BY <1>6, <3>1, <3>2 DEF SameRequest
      <3>4. QED
        BY <1>1, <1>3, <3>3, OthersStay
    <2>2. CASE r[d] # req[d]
      <3>1. ReqInv(d)'
        BY <1>6, <2>2 DEF ReqInv
      <3>2. PlanInv(d)'
        BY <1>1, <1>3, RowStays, TypeFacts DEF PlanInv
      <3>3. QED
        BY <3>1, <3>2
    <2>3. QED
      BY <2>1, <2>2
  <1>9. QED
    BY <1>4, <1>7, <1>8 DEF IInv

LEMMA SetStatusStep ==
    ASSUME IInv, NEW i \in Id, NEW status \in Status, SetStatus(i, status)
    PROVE  IInv'
  <1> DEFINE p == [people[i] EXCEPT !.status = status]
  <1>1. TypeOK /\ people[i] \in Person /\ req \in [Operator -> Request]
    BY DEF IInv, TypeOK, Id
  <1>2. p \in Person /\ p.key = people[i].key /\ p.ordinal = people[i].ordinal
    BY <1>1 DEF Person
  <1>3. /\ people' = [people EXCEPT ![i] = p]
        /\ plan' = plan /\ req' = Outdated(req, i)
    BY <1>1 DEF SetStatus, Id, TypeOK
  <1> HIDE DEF p
  <1>4. QED
    BY <1>1, <1>2, <1>3, WritePerson

LEMMA UpdateAttendeeStep ==
    ASSUME IInv, NEW c \in Operator, UpdateAttendee(c)
    PROVE  IInv'
  <1> DEFINE i == req[c].id
             r == [req EXCEPT ![c] = Continue(c)]
  <1>1. /\ TypeOK /\ ReqInv(c) /\ req[c] \in Request /\ req[c].pc = "write"
        /\ req \in [Operator -> Request] /\ people \in Seq(Person)
    BY TypeFacts DEF IInv, UpdateAttendee, WriteBack, TypeOK
  <1>2. i \in Id /\ people[i] \in Person /\ req[c].name \in Name /\ req[c].status \in Status
    BY <1>1, TypeFacts DEF ReqInv, Request
  <1> DEFINE q == [key |-> people[i].key, ordinal |-> people[i].ordinal,
                   name |-> req[c].name, status |-> req[c].status]
  <1>3. people' = [people EXCEPT ![i] = q]
    BY <1>1, <1>2 DEF UpdateAttendee, WriteBack, Person, Id
  <1>4. q \in Person /\ q.key = people[i].key /\ q.ordinal = people[i].ordinal
    BY <1>2 DEF Person
  <1>5. plan' = plan /\ req' = Outdated(r, i)
    BY DEF UpdateAttendee, WriteBack
  <1>6. /\ r \in [Operator -> Request] /\ r[c] = Continue(c)
        /\ \A d \in Operator \ {c} : r[d] = req[d]
    BY <1>1, ContinueFacts
  <1>7. \A d \in Operator :
           \/ r[d] = req[d]
           \/ r[d].pc = "idle" /\ r[d].at = 0
           \/ /\ r[d].pc = "find" /\ r[d].at \in 1..Len(plan[d])
              /\ r[d].name = plan[d][r[d].at].name /\ r[d].name \in Name
    BY <1>1, <1>6, ContinueFacts
  <1> HIDE DEF q, r, i
  <1>8. QED
    BY <1>2, <1>3, <1>4, <1>5, <1>6, <1>7, WritePerson

-----------------------------------------------------------------------------
(* The INSERT.                                                             *)

\* A person whose key and ordinal were free, with every lower ordinal taken.
LEMMA InsertPerson ==
    ASSUME TypeOK, OrdinalsContiguous, NEW p \in Person, people' = Append(people, p),
           ~Taken(p.key, p.ordinal), \A o \in 1..(p.ordinal - 1) : Taken(p.key, o)
    PROVE  /\ people' \in Seq(Person) /\ Grows
           /\ Taken(p.key, p.ordinal)' /\ OrdinalsContiguous'
           /\ \A i \in Id : people'[i] = people[i]
  <1>1. Len(people) \in Nat /\ people \in Seq(Person)
    BY LenProperties DEF TypeOK
  <1>2. /\ people' \in Seq(Person) /\ Len(people') = Len(people) + 1
        /\ people'[Len(people) + 1] = p
        /\ \A i \in Id : people'[i] = people[i]
    BY <1>1, AppendProperties DEF Id
  <1>3. Grows
    <2>1. Len(people) <= Len(people')
      BY <1>1, <1>2
    <2>2. QED
      BY <1>2, <2>1 DEF Grows
  <1>4. Id' = Id \cup {Len(people) + 1} /\ Len(people) + 1 \notin Id
    BY <1>1, <1>2 DEF Id
  <1>5. \E i \in Id' : people'[i].key = p.key /\ people'[i].ordinal = p.ordinal
    BY <1>2, <1>4
  <1>6. \A o \in 1..p.ordinal : \E i \in Id' : people'[i].key = p.key /\ people'[i].ordinal = o
    <2>1. ASSUME NEW o \in 1..p.ordinal, o # p.ordinal
          PROVE  \E i \in Id' : people'[i].key = p.key /\ people'[i].ordinal = o
      <3>1. o \in 1..(p.ordinal - 1)
        BY <2>1 DEF Person
      <3>2. Taken(p.key, o)
        BY <3>1
      <3>3. PICK i \in Id : people[i].key = p.key /\ people[i].ordinal = o
        BY <3>2 DEF Taken
      <3>4. i \in Id' /\ people'[i] = people[i]
        BY <1>2, <1>4, <3>3
      <3>5. QED
        BY <3>3, <3>4
    <2>2. QED
      BY <1>5, <2>1
  <1>7. ASSUME NEW i \in Id', NEW o \in 1..people'[i].ordinal
        PROVE  \E j \in Id' : people'[j].key = people'[i].key /\ people'[j].ordinal = o
    <2>1. CASE i \in Id
      <3>1. Taken(people[i].key, o)
        BY <1>2, <1>7, <2>1 DEF OrdinalsContiguous
      <3>2. QED
        BY <1>2, <1>4, <2>1, <3>1 DEF Taken
    <2>2. CASE i \notin Id
      <3>1. people'[i] = p
        BY <1>2, <1>4, <2>2
      <3>2. QED
        BY <1>6, <1>7, <3>1
    <2>3. QED
      BY <2>1, <2>2
  <1>8. ASSUME NEW i \in Id', NEW j \in Id',
               people'[j].key = people'[i].key, people'[j].ordinal = people'[i].ordinal
        PROVE  j = i
    <2>1. CASE i \in Id /\ j \in Id
      BY <1>2, <1>8, <2>1 DEF OrdinalsContiguous
    <2>2. CASE i \notin Id \/ j \notin Id
      BY <1>2, <1>4, <1>8, <2>2 DEF Taken
    <2>3. QED
      BY <2>1, <2>2
  <1>9. OrdinalsContiguous'
    BY <1>7, <1>8 DEF OrdinalsContiguous, Taken
  <1>10. QED
    BY <1>2, <1>3, <1>5, <1>9 DEF Taken

LEMMA OneMoreFacts ==
    ASSUME NEW r \in Row, NEW o \in Nat \ {0}
    PROVE  LET q == OneMore(r, o)
           IN  /\ q \in Row /\ q.name = r.name /\ q.ordinal = r.ordinal
               /\ q.rename = r.rename /\ q.sure = r.sure /\ q.made = r.made + 1
               /\ r.low => q.low
               /\ q.low \/ r.ordinal <= o
  <1> DEFINE n == r.made + 1
             b == r.low \/ o < r.ordinal
             q == [r EXCEPT !.made = n, !.low = b]
  <1>1. n \in Nat /\ r.ordinal \in Nat
    BY DEF Row
  <1>2. b \in BOOLEAN
    OBVIOUS
  <1>3. (r.low => b) /\ (b \/ r.ordinal <= o)
    BY <1>1
  <1>4. OneMore(r, o) = q
    BY DEF OneMore
  <1> HIDE DEF n, b
  <1>5. /\ q \in Row /\ q.name = r.name /\ q.ordinal = r.ordinal
        /\ q.rename = r.rename /\ q.sure = r.sure /\ q.made = n /\ q.low = b
    BY <1>1, <1>2 DEF Row
  <1> HIDE DEF q
  <1>6. QED
    BY <1>3, <1>4, <1>5 DEF n

\* The row that created the person now counts one more: either its number
\* was the next of the key, or the numbers up to it were all taken.
LEMMA RowCreates ==
    ASSUME TypeOK, Grows, NEW r \in Row, RowInv(r), NEW o \in Nat \ {0}, NEW q,
           ~Taken(r.name, o), \A k \in 1..(o - 1) : Taken(r.name, k),
           \A key, k : key = r.name /\ k = o => Taken(key, k)',
           r.made < r.ordinal, q.made = r.made + 1, ~r.sure, q.sure = r.sure,
           r.made = 0 \/ r.low, r.low => q.low, q.low \/ r.ordinal <= o,
           q.name = r.name, q.ordinal = r.ordinal, q.rename = r.rename
    PROVE  RowInv(q)'
  <1>1. r.made \in Nat /\ r.ordinal \in Nat
    BY DEF Row
  <1>2. RowInv(r)'
    BY RowStays
  <1>3. o > r.made
    BY <1>1 DEF RowInv
  <1>4. Taken(r.name, r.made + 1)'
    <2>1. CASE o = r.made + 1
      BY <2>1
    <2>2. CASE o # r.made + 1
      <3>1. r.made + 1 \in 1..(o - 1)
        BY <1>1, <1>3, <2>2
      <3>2. QED
        BY <3>1, TakenStays
    <2>3. QED
      BY <2>1, <2>2
  <1>5. ASSUME NEW k \in 1..q.made
        PROVE  Taken(q.name, k)'
    BY <1>1, <1>2, <1>4, <1>5 DEF RowInv
  <1>6. q.low \/ Taken(q.name, q.ordinal)'
    <2>1. CASE r.ordinal = o
      BY <2>1
    <2>2. CASE r.ordinal < o
      <3>1. r.ordinal \in 1..(o - 1)
        BY <1>1, <2>2 DEF Row
      <3>2. QED
        BY <3>1, TakenStays
    <2>3. QED
      BY <1>1, <2>1, <2>2
  <1>7. QED
    BY <1>1, <1>2, <1>5, <1>6 DEF RowInv

LEMMA CreateAttendeeStep ==
    ASSUME IInv, NEW c \in Operator, CreateAttendee(c)
    PROVE  IInv'
  <1> DEFINE x == req[c].at
             p == [key |-> req[c].name, ordinal |-> req[c].ordinal,
                   name |-> req[c].name, status |-> NewStatus]
  <1>1. /\ TypeOK /\ OrdinalsContiguous
        /\ \A d \in Operator : PlanInv(d) /\ ReqInv(d)
        /\ req \in [Operator -> Request] /\ plan \in [Operator -> Seq(Row)]
        /\ req[c] \in Request /\ req[c].pc = "create"
    BY TypeFacts DEF IInv, TypeOK, CreateAttendee
  <1>2. CASE Taken(req[c].name, req[c].ordinal)
    <2>1. /\ people' = people /\ plan' = plan
          /\ req' = [req EXCEPT ![c] = Idle] /\ req'[c] = Idle
      BY <1>1, <1>2 DEF CreateAttendee
    <2>2. QED
      BY <2>1, IdleRequest, IdleIsFree, OneRequest
  <1>3. CASE ~Taken(req[c].name, req[c].ordinal)
    <2>1. /\ people' = Append(people, p)
          /\ req' = [req EXCEPT ![c] = Continue(c)]
          /\ IF x = 0 THEN plan' = plan
             ELSE plan' = [plan EXCEPT ![c][x] = OneMore(@, req[c].ordinal)]
      BY <1>3 DEF CreateAttendee, Insert, Created
    <2>2. /\ p \in Person
          /\ \A o \in 1..(p.ordinal - 1) : Taken(p.key, o)
      BY <1>1, RosterAssumption DEF ReqInv, Request, Person
    <2> HIDE DEF p
    <2>3. p.key = req[c].name /\ p.ordinal = req[c].ordinal
      BY DEF p
    <2>4. /\ people' \in Seq(Person) /\ Grows
          /\ OrdinalsContiguous' /\ \A i \in Id : people'[i] = people[i]
          /\ \A key, o : key = req[c].name /\ o = req[c].ordinal => Taken(key, o)'
      BY <1>1, <1>3, <2>1, <2>2, <2>3, InsertPerson
    <2>5. /\ req' \in [Operator -> Request] /\ req'[c] = Continue(c)
          /\ \A d \in Operator \ {c} : req'[d] = req[d]
      BY <1>1, <2>1, ContinueFacts
    <2>6. /\ plan' \in [Operator -> Seq(Row)] /\ PlanInv(c)'
          /\ \A d \in Operator \ {c} : plan'[d] = plan[d]
          /\ Len(plan'[c]) = Len(plan[c])
          /\ \A y \in 1..Len(plan[c]) : plan'[c][y].name = plan[c][y].name
      <3>1. CASE x = 0
        <4>1. plan' = plan
          BY <2>1, <3>1
        <4>2. PlanInv(c)'
          BY <1>1, <2>4, <4>1, RowStays, TypeFacts DEF PlanInv
        <4>3. QED
          BY <1>1, <4>1, <4>2
      <3>2. CASE x # 0
        <4> DEFINE row == plan[c][x]
                   new == OneMore(row, req[c].ordinal)
        <4>1. /\ x \in 1..Len(plan[c]) /\ row \in Row /\ RowInv(row)
              /\ req[c].name = row.name /\ row.made < row.ordinal /\ ~row.sure
              /\ row.made = 0 \/ row.low
          BY <1>1, <3>2, TypeFacts DEF ReqInv, PlanInv
        <4>2. /\ new \in Row /\ new.name = row.name /\ new.ordinal = row.ordinal
              /\ new.rename = row.rename /\ new.made = row.made + 1 /\ new.sure = row.sure
              /\ row.low => new.low
              /\ new.low \/ row.ordinal <= req[c].ordinal
          <5>1. req[c].ordinal \in Nat \ {0}
            BY <1>1 DEF Request
          <5>2. QED
            BY <4>1, <5>1, OneMoreFacts
        <4>3. plan' = [plan EXCEPT ![c] = [plan[c] EXCEPT ![x] = new]]
          BY <1>1, <2>1, <3>2, <4>1, Zenon
        <4> HIDE DEF new
        <4>4. /\ plan' \in [Operator -> Seq(Row)]
              /\ \A d \in Operator \ {c} : plan'[d] = plan[d]
              /\ Len(plan'[c]) = Len(plan[c]) /\ plan'[c][x] = new
              /\ \A y \in 1..Len(plan[c]) : y # x => plan'[c][y] = plan[c][y]
          <5>1. plan[c] \in Seq(Row)
            BY <1>1
          <5>2. /\ [plan[c] EXCEPT ![x] = new] \in Seq(Row)
                /\ Len([plan[c] EXCEPT ![x] = new]) = Len(plan[c])
                /\ \A y \in 1..Len(plan[c]) :
                      [plan[c] EXCEPT ![x] = new][y] = IF y = x THEN new ELSE plan[c][y]
            BY <4>1, <4>2, <5>1, ExceptSeq
          <5>3. QED
            BY <1>1, <4>1, <4>3, <5>2
        <4>5. \A y \in 1..Len(plan[c]) : plan'[c][y].name = plan[c][y].name
          BY <4>2, <4>4
        <4>6. \A q : q = new => RowInv(q)'
          <5>1. req[c].ordinal \in Nat \ {0}
            BY <1>1 DEF Request
          <5>2. \A k \in 1..(req[c].ordinal - 1) : Taken(row.name, k)
            BY <1>1, <4>1 DEF ReqInv
          <5>3. ~Taken(row.name, req[c].ordinal)
            BY <1>3, <4>1
          <5>4. \A key, k : key = row.name /\ k = req[c].ordinal => Taken(key, k)'
            BY <2>4, <4>1
          <5>5. QED
            BY <1>1, <2>4, <4>1, <4>2, <5>1, <5>2, <5>3, <5>4, RowCreates
        <4>7. \A y \in 1..Len(plan[c]) : \A q : q = plan'[c][y] => RowInv(q)'
          BY <1>1, <2>4, <4>4, <4>6, RowStays, TypeFacts DEF PlanInv
        <4>8. PlanInv(c)'
          BY <4>4, <4>7 DEF PlanInv
        <4>9. QED
          BY <4>4, <4>5, <4>8
      <3>3. QED
        BY <3>1, <3>2
    <2>7. TypeOK'
      BY <2>4, <2>5, <2>6 DEF TypeOK
    <2>8. ReqInv(c)'
      <3>1. \/ req'[c].pc = "idle" /\ req'[c].at = 0
            \/ /\ req'[c].pc = "find" /\ req'[c].at \in 1..Len(plan[c])
               /\ req'[c].name = plan[c][req'[c].at].name /\ req'[c].name \in Name
        BY <1>1, <2>5, ContinueFacts
      <3>2. CASE req'[c].pc = "idle" /\ req'[c].at = 0
        BY <3>2, IdleIsFree
      <3>3. CASE /\ req'[c].pc = "find" /\ req'[c].at \in 1..Len(plan[c])
                 /\ req'[c].name = plan[c][req'[c].at].name /\ req'[c].name \in Name
        <4>1. /\ req'[c].at \in 1..Len(plan'[c]) /\ req'[c].at # 0
              /\ req'[c].name = plan'[c][req'[c].at].name
          BY <1>1, <2>6, <3>3, TypeFacts
        <4>2. QED
          BY <3>3, <4>1 DEF ReqInv
      <3>4. QED
        BY <3>1, <3>2, <3>3
    <2>9. ASSUME NEW d \in Operator \ {c}
          PROVE  PlanInv(d)' /\ ReqInv(d)'
      <3>1. SameRequest(d)
        BY <1>1, <2>4, <2>5, <2>9 DEF SameRequest, ReqInv
      <3>2. QED
        BY <1>1, <2>4, <2>6, <3>1, OthersStay
    <2>10. QED
      BY <2>4, <2>6, <2>7, <2>8, <2>9 DEF IInv
  <1>4. QED
    BY <1>2, <1>3

-----------------------------------------------------------------------------
(* The preview, and the theorems.                                          *)

LEMMA CopiesPositive ==
    ASSUME NEW sheet, NEW n \in Nat, NEW y \in 1..n
    PROVE  Rank(sheet, y) \in Nat \ {0}
  <1> DEFINE S == {z \in 1..y : sheet[z] = sheet[y]}
  <1>1. IsFiniteSet(1..y) /\ S \in SUBSET (1..y) /\ y \in S
    BY FS_Interval
  <1>2. IsFiniteSet(S)
    BY <1>1, FS_Subset
  <1>3. Cardinality(S) \in Nat /\ Cardinality(S) # 0
    BY <1>1, <1>2, FS_CardinalityType, FS_EmptySet
  <1>4. QED
    BY <1>3 DEF Rank, Copies

\* The people of a name that nobody was renamed to or from have ordinals of
\* its key, and there is no gap below them.
LEMMA RankTaken ==
    ASSUME TypeOK, OrdinalsContiguous, NEW name \in Name, Unmoved(name),
           NEW k \in Nat \ {0}, k <= Cardinality(Named(name))
    PROVE  Taken(name, k)
  <1> SUFFICES ASSUME ~Taken(name, k) PROVE FALSE
    OBVIOUS
  <1> DEFINE f == [i \in Named(name) |-> people[i].ordinal]
  <1>1. /\ Len(people) \in Nat /\ \A i \in Id : people[i] \in Person
        /\ Named(name) \subseteq Id
    <2>1. people \in Seq(Person)
      BY DEF TypeOK
    <2>2. QED
      BY <2>1, LenProperties, ElementOfSeq DEF Id, Named
  <1>2. \A i \in Named(name) : people[i].key = name
    BY DEF Unmoved
  <1>3. \A i \in Named(name) : people[i].ordinal \in 1..(k - 1)
    <2> SUFFICES ASSUME NEW i \in Named(name) PROVE people[i].ordinal \in 1..(k - 1)
      OBVIOUS
    <2>1. people[i].ordinal \in Nat \ {0} /\ \A o \in 1..people[i].ordinal : Taken(name, o)
      BY <1>1, <1>2 DEF OrdinalsContiguous, Person
    <2>2. k \notin 1..people[i].ordinal
      BY <2>1
    <2>3. QED
      BY <2>1, <2>2
  <1>4. f \in Injection(Named(name), 1..(k - 1))
    <2>1. f \in [Named(name) -> 1..(k - 1)]
      BY <1>3
    <2>2. \A i, j \in Named(name) : f[i] = f[j] => i = j
      BY <1>1, <1>2 DEF OrdinalsContiguous
    <2> HIDE DEF f
    <2>3. QED
      BY <2>1, <2>2, Zenon DEF Injection, IsInjective
  <1>5. IsFiniteSet(1..(k - 1)) /\ Cardinality(1..(k - 1)) = k - 1
    <2>1. 1 \in Int /\ k - 1 \in Int
      OBVIOUS
    <2>2. /\ IsFiniteSet(1..(k - 1))
          /\ Cardinality(1..(k - 1)) = IF 1 > k - 1 THEN 0 ELSE (k - 1) - 1 + 1
      BY <2>1, FS_Interval
    <2>3. QED
      BY <2>2
  <1>6. Cardinality(Named(name)) <= k - 1 /\ Cardinality(Named(name)) \in Nat
    <2>1. /\ IsFiniteSet(Named(name))
          /\ Cardinality(Named(name)) <= Cardinality(1..(k - 1))
      BY <1>4, <1>5, FS_Injection
    <2>2. Cardinality(Named(name)) \in Nat
      BY <2>1, FS_CardinalityType
    <2>3. QED
      BY <1>5, <2>1, <2>2
  <1>7. QED
    BY <1>6

\* Whatever the preview offers is a row that has created nobody; one that is
\* sure names a person to rename or the key and ordinal of somebody.
LEMMA OffersGood ==
    ASSUME TypeOK, OrdinalsContiguous, NEW n \in Nat, NEW sheet \in [1..n -> Name],
           NEW y \in 1..n, NEW r \in Offers(sheet, y)
    PROVE  r \in Row /\ RowInv(r)
  <1> DEFINE name == sheet[y]
             Offer(o, m, b) ==
                [name |-> name, ordinal |-> o, rename |-> m, sure |-> b, made |-> 0,
                 low |-> FALSE]
  <1>1. /\ name \in Name /\ Rank(sheet, y) \in Nat \ {0} /\ Len(people) \in Nat
        /\ \A i \in Id : people[i] \in Person /\ i \in Nat
    <2>1. people \in Seq(Person) /\ name \in Name
      BY DEF TypeOK
    <2>2. Len(people) \in Nat /\ \A i \in Id : people[i] \in Person /\ i \in Nat
      BY <2>1, LenProperties, ElementOfSeq DEF Id
    <2>3. Rank(sheet, y) \in Nat \ {0}
      BY CopiesPositive
    <2>4. QED
      BY <2>1, <2>2, <2>3
  <1>2. ASSUME NEW o \in Nat \ {0}, NEW m \in {0} \cup Id, NEW b \in BOOLEAN,
               r = Offer(o, m, b), b => m # 0 \/ Taken(name, o)
        PROVE  r \in Row /\ RowInv(r)
    <2>1. m \in Nat /\ m \in 0..Len(people)
      BY <1>1 DEF Id
    <2>2. /\ r \in Row /\ r.name = name /\ r.ordinal = o /\ r.rename = m /\ r.sure = b
          /\ r.made = 0
      BY <1>1, <1>2, <2>1 DEF Row
    <2>3. r.sure => r.rename # 0 \/ Taken(r.name, r.ordinal)
      BY <1>2, <2>2
    <2> HIDE DEF name, Offer
    <2>4. QED
      BY <2>1, <2>2, <2>3 DEF RowInv
  <1>3. CASE Copies(sheet, Len(sheet), name) > 1
    <2> DEFINE o == Rank(sheet, y)
               b == Copies(sheet, y, name) <= Cardinality(Named(name)) /\ Unmoved(name)
    <2>1. r = Offer(o, 0, b)
      BY <1>3 DEF Offers
    <2>2. b \in BOOLEAN
      OBVIOUS
    <2>3. b => Taken(name, o)
      BY <1>1, RankTaken DEF Rank
    <2> HIDE DEF o, b, Offer
    <2>4. QED
      BY <1>1, <1>2, <2>1, <2>2, <2>3 DEF o
  <1>4. CASE ~(Copies(sheet, Len(sheet), name) > 1) /\ Named(name) # {}
    <2>1. PICK i \in Named(name) : r = Offer(people[i].ordinal, 0, Unmoved(name))
      BY <1>4 DEF Offers
    <2>2. i \in Id /\ people[i].ordinal \in Nat \ {0} /\ Unmoved(name) \in BOOLEAN
      BY <1>1, <2>1 DEF Named, Person, Unmoved
    <2>3. Unmoved(name) => Taken(name, people[i].ordinal)
      BY <2>1, <2>2 DEF Unmoved, Taken
    <2> HIDE DEF Offer, name
    <2>4. QED
      BY <1>2, <2>1, <2>2, <2>3
  <1>5. CASE /\ ~(Copies(sheet, Len(sheet), name) > 1) /\ Named(name) = {}
             /\ RenameCandidates(sheet, y) # {}
    <2>1. PICK i \in RenameCandidates(sheet, y) :
                  \E m \in {0, i} : r = Offer(people[i].ordinal, m, m # 0)
      BY <1>5 DEF Offers
    <2>2. i \in Id /\ people[i].ordinal \in Nat \ {0}
      BY <1>1, <2>1 DEF RenameCandidates, Person
    <2> HIDE DEF Offer, name
    <2>3. QED
      BY <1>2, <2>1, <2>2
  <1>6. CASE /\ ~(Copies(sheet, Len(sheet), name) > 1) /\ Named(name) = {}
             /\ RenameCandidates(sheet, y) = {}
    <2>1. r = Offer(1, 0, FALSE)
      BY <1>6 DEF Offers
    <2>2. 1 \in Nat \ {0} /\ 0 \in {0} \cup Id /\ FALSE \in BOOLEAN
      OBVIOUS
    <2> HIDE DEF Offer, name
    <2>3. QED
      BY <1>2, <2>1, <2>2, Zenon
  <1>7. QED
    BY <1>3, <1>4, <1>5, <1>6

LEMMA PreviewStep ==
    ASSUME IInv, NEW c \in Operator, Preview(c)
    PROVE  IInv'
  <1> DEFINE Chosen(offers, pick, rows) ==
                /\ \A x \in 1..Len(pick) : rows[x] \in offers[pick[x]]
                /\ plan' = [plan EXCEPT ![c] = rows]
             Picked(sheet, offers) ==
                \E pick \in Selections(Len(sheet)) :
                \E rows \in [1..Len(pick) -> UNION {offers[y] : y \in 1..Len(sheet)}] :
                   Chosen(offers, pick, rows)
  <1>1. /\ TypeOK /\ OrdinalsContiguous /\ req[c] = Idle
        /\ \A d \in Operator : PlanInv(d) /\ ReqInv(d)
        /\ people' = people /\ req' = req
    BY DEF IInv, Preview
  <1>2. PICK sheet \in Sheets(SheetRows[c]) :
          \E offers \in {[y \in 1..Len(sheet) |-> Offers(sheet, y)]} : Picked(sheet, offers)
    BY DEF Preview
  <1> DEFINE offers == [y \in 1..Len(sheet) |-> Offers(sheet, y)]
  <1>3. PICK n \in Nat : sheet \in [1..n -> Name] /\ Len(sheet) = n
    <2>1. PICK n \in 1..SheetRows[c] : sheet \in [1..n -> Name]
      BY DEF Sheets
    <2>2. n \in Nat /\ sheet \in Seq(Name)
      BY <2>1, RosterAssumption
    <2>3. QED
      BY <2>1, <2>2
  <1>4. PICK pick \in Selections(Len(sheet)) :
          \E rows \in [1..Len(pick) -> UNION {offers[y] : y \in 1..Len(sheet)}] :
             Chosen(offers, pick, rows)
    <2>1. \E o \in {offers} : Picked(sheet, o)
      BY <1>2, Zenon
    <2> HIDE DEF offers, Picked
    <2>2. Picked(sheet, offers)
      BY <2>1
    <2>3. QED
      BY <2>2 DEF Picked
  <1>5. PICK rows \in [1..Len(pick) -> UNION {offers[y] : y \in 1..Len(sheet)}] :
             Chosen(offers, pick, rows)
    BY <1>4
  <1>6. PICK m \in Nat : pick \in [1..m -> 1..n] /\ Len(pick) = m
    <2>1. PICK m \in 1..n : pick \in [1..m -> 1..n]
      BY <1>3 DEF Selections
    <2>2. m \in Nat /\ pick \in Seq(1..n)
      BY <1>3, <2>1
    <2>3. QED
      BY <2>1, <2>2
  <1>7. \A x \in 1..m : rows[x] \in Row /\ RowInv(rows[x])
    <2>1. ASSUME NEW x \in 1..m
          PROVE  rows[x] \in Row /\ RowInv(rows[x])
      <3>1. pick[x] \in 1..n /\ rows[x] \in Offers(sheet, pick[x])
        BY <1>3, <1>5, <1>6
      <3>2. QED
        BY <1>1, <1>3, <3>1, OffersGood
    <2>2. QED
      BY <2>1
  <1>8. rows \in [1..m -> Row] /\ rows \in Seq(Row) /\ Len(rows) = m
    <2>1. rows \in [1..m -> Row]
      BY <1>5, <1>6, <1>7
    <2>2. QED
      BY <2>1
  <1>9. /\ plan' \in [Operator -> Seq(Row)] /\ plan'[c] = rows
        /\ \A d \in Operator \ {c} : plan'[d] = plan[d]
    BY <1>1, <1>5, <1>8 DEF TypeOK
  <1>10. TypeOK'
    BY <1>1, <1>9 DEF TypeOK
  <1>11. Grows
    BY <1>1, LenProperties DEF Grows, TypeOK
  <1>12. OrdinalsContiguous'
    BY <1>1, <1>11, NumberingStays
  <1>13. PlanInv(c)' /\ ReqInv(c)'
    <2>1. ReqInv(c)'
      BY <1>1, IdleRequest, IdleIsFree
    <2>2. \A x \in 1..m : \A q : q = rows[x] => RowInv(q)'
      BY <1>1, <1>7, <1>11, RowStays
    <2>3. PlanInv(c)'
      BY <1>8, <1>9, <2>2 DEF PlanInv
    <2>4. QED
      BY <2>1, <2>3
  <1>14. ASSUME NEW d \in Operator \ {c}
         PROVE  PlanInv(d)' /\ ReqInv(d)'
    <2>1. SameRequest(d)
      BY <1>1 DEF SameRequest
    <2>2. QED
      BY <1>1, <1>9, <1>11, <2>1, OthersStay
  <1>15. QED
    BY <1>10, <1>12, <1>13, <1>14 DEF IInv

LEMMA IInvInit == Init => IInv
  <1> SUFFICES ASSUME Init PROVE IInv
    OBVIOUS
  <1>1. /\ people \in Seq(Person) /\ Len(people) = 0
        /\ plan \in [Operator -> Seq(Row)] /\ \A c \in Operator : Len(plan[c]) = 0
        /\ req \in [Operator -> Request] /\ \A c \in Operator : req[c] = Idle
    BY IdleRequest DEF Init
  <1>2. OrdinalsContiguous
    BY <1>1 DEF OrdinalsContiguous, Id
  <1>3. \A c \in Operator : PlanInv(c) /\ ReqInv(c)
    BY <1>1, IdleRequest DEF PlanInv, ReqInv
  <1>4. QED
    BY <1>1, <1>2, <1>3 DEF IInv, TypeOK

LEMMA IInvStep == IInv /\ [Next]_vars => IInv'
  <1> SUFFICES ASSUME IInv, [Next]_vars PROVE IInv'
    OBVIOUS
  <1>1. CASE UNCHANGED vars
    <2>1. people' = people /\ plan' = plan /\ req' = req
      BY <1>1 DEF vars
    <2>2. \A key, o : Taken(key, o)' <=> Taken(key, o)
      BY <2>1 DEF Taken, Id
    <2>3. TypeOK' /\ OrdinalsContiguous'
      BY <2>1, <2>2 DEF IInv, TypeOK, OrdinalsContiguous, Id
    <2>4. \A r : RowInv(r)' <=> RowInv(r)
      BY <2>1, <2>2 DEF RowInv
    <2>5. \A c \in Operator : PlanInv(c)' /\ ReqInv(c)'
      BY <2>1, <2>2, <2>4 DEF IInv, PlanInv, ReqInv, Id
    <2>6. QED
      BY <2>3, <2>5 DEF IInv
  <1>2. ASSUME NEW c \in Operator, Preview(c) PROVE IInv'
    BY <1>2, PreviewStep
  <1>3. ASSUME NEW c \in Operator, Apply(c) PROVE IInv'
    BY <1>3, ApplyStep
  <1>4. ASSUME NEW c \in Operator, FindByKey(c) PROVE IInv'
    BY <1>4, FindByKeyStep
  <1>5. ASSUME NEW c \in Operator, ReadRenamed(c) PROVE IInv'
    BY <1>5, ReadRenamedStep
  <1>6. ASSUME NEW c \in Operator, NextFreeOrdinal(c) PROVE IInv'
    BY <1>6, NextFreeOrdinalStep
  <1>7. ASSUME NEW c \in Operator, CreateAttendee(c) PROVE IInv'
    BY <1>7, CreateAttendeeStep
  <1>8. ASSUME NEW c \in Operator, UpdateAttendee(c) PROVE IInv'
    BY <1>8, UpdateAttendeeStep
  <1>9. ASSUME NEW c \in Operator, Abort(c) PROVE IInv'
    BY <1>9, AbortStep
  <1>10. ASSUME NEW c \in Clerk, NEW name \in Name, AddByHand(c, name) PROVE IInv'
    BY <1>10, RosterAssumption, AddByHandStep
  <1>11. ASSUME NEW c \in Clerk, NEW name \in Name, NEW i \in Id, EditByHand(c, i, name)
         PROVE  IInv'
    BY <1>11, RosterAssumption, EditByHandStep
  <1>12. ASSUME NEW i \in Id, NEW status \in Status, SetStatus(i, status) PROVE IInv'
    BY <1>12, SetStatusStep
  <1>13. QED
    BY <1>1, <1>2, <1>3, <1>4, <1>5, <1>6, <1>7, <1>8, <1>9, <1>10, <1>11, <1>12 DEF Next

LEMMA Invariance == Spec => []IInv
  BY IInvInit, IInvStep, PTL DEF Spec

\* People, approved rows and requests keep their type (drivers/store/roster.py
\* and transport/roster.py), whoever imports, adds and edits at once.
THEOREM TypeCorrect == Spec => []TypeOK
  <1>1. IInv => TypeOK
    BY DEF IInv
  <1>2. QED
    BY <1>1, Invariance, PTL

\* next_free_ordinal with the unique index: the people of a key are numbered
\* 1, 2, ... without gap or repeat, whatever creations overlap.
THEOREM OrdinalsContiguousHolds == Spec => []OrdinalsContiguous
  <1>1. IInv => OrdinalsContiguous
    BY DEF IInv
  <1>2. QED
    BY <1>1, Invariance, PTL

\* The apply handler, retried any number of times with anything in between,
\* creates a second person from a row only after it has numbered one below the
\* row's ordinal, and never more people than that ordinal.
THEOREM SecondNeedsLowHolds == Spec => []SecondNeedsLow
  <1>1. IInv => SecondNeedsLow
    BY TypeFacts DEF IInv, SecondNeedsLow, PlanInv, RowInv
  <1>2. QED
    BY <1>1, Invariance, PTL

\* Making copies stale moves no request.
LEMMA OutdatedKeepsStep ==
    ASSUME NEW r, NEW c \in Operator, NEW i, r[c] \in Request
    PROVE  Outdated(r, i)[c].pc = r[c].pc
  BY DEF Outdated, Request

\* UPDATE_ATTENDEE writes the status that the request read: it changes only
\* if somebody wrote the person after that read.
THEOREM StatusUndoneByStaleHolds == Spec => StatusUndoneByStale
  <1> DEFINE A == \A c \in Operator :
                     req[c].pc = "write" /\ req'[c].pc # "write" /\ ~req[c].stale
                        => people'[req[c].id].status = people[req[c].id].status
  <1>1. IInv /\ [Next]_vars => [A]_vars
    <2> SUFFICES ASSUME IInv, [Next]_vars, NEW c \in Operator,
                        req[c].pc = "write", req'[c].pc # "write", ~req[c].stale
                 PROVE  people'[req[c].id].status = people[req[c].id].status
      OBVIOUS
    <2>1. /\ req \in [Operator -> Request] /\ people \in Seq(Person)
          /\ ReqInv(c) /\ req[c] # Idle
      BY DEF IInv, TypeOK, Idle
    <2>2. CASE people' = people
      BY <2>2
    <2>3. ASSUME NEW d \in Operator, UpdateAttendee(d)
          PROVE  people'[req[c].id].status = people[req[c].id].status
      <3>1. CASE d = c
        <4>1. req[c].id \in 1..Len(people) /\ req[c].status = people[req[c].id].status
          BY <2>1 DEF ReqInv, Id
        <4>2. people' = [people EXCEPT ![req[c].id] =
                            [key |-> @.key, ordinal |-> @.ordinal,
                             name |-> req[c].name, status |-> req[c].status]]
          BY <2>3, <3>1 DEF UpdateAttendee, WriteBack
        <4>3. req[c].id \in DOMAIN people
          BY <2>1, <4>1
        <4>4. people'[req[c].id] =
                 [key |-> people[req[c].id].key, ordinal |-> people[req[c].id].ordinal,
                  name |-> req[c].name, status |-> req[c].status]
          BY <4>2, <4>3
        <4>5. QED
          BY <4>1, <4>4
      <3>2. CASE d # c
        <4> DEFINE written == [req EXCEPT ![d] = Continue(d)]
        <4>1. written[c] = req[c] /\ req[c] \in Request
          BY <2>1, <3>2
        <4>2. req' = Outdated(written, req[d].id)
          BY <2>3 DEF UpdateAttendee, WriteBack
        <4> HIDE DEF written
        <4>3. req'[c].pc = req[c].pc
          BY <4>1, <4>2, OutdatedKeepsStep
        <4>4. QED
          BY <4>3
      <3>3. QED
        BY <3>1, <3>2
    <2>4. ASSUME NEW i \in Id, NEW status \in Status, SetStatus(i, status)
          PROVE  people'[req[c].id].status = people[req[c].id].status
      BY <2>1, <2>4, OutdatedKeepsStep DEF SetStatus
    <2>5. ASSUME NEW d \in Operator, CreateAttendee(d)
          PROVE  people'[req[c].id].status = people[req[c].id].status
      BY <2>1, <2>5 DEF CreateAttendee, Created
    <2>6. QED
      BY <2>2, <2>3, <2>4, <2>5
         DEF Next, vars, Preview, Apply, Begin, FindByKey, Lookup, ReadRenamed,
             NextFreeOrdinal, AddByHand, EditByHand, Abort
  <1>2. QED
    BY <1>1, Invariance, PTL DEF Spec, StatusUndoneByStale
\* A row that the preview showed as somebody already known updates that person
\* and creates nobody, however often it is applied and whatever other requests
\* do between the preview and the apply: the key and ordinal it looks up is
\* taken for ever (find_by_key in apply).
THEOREM KnownRowsUpdateHolds == Spec => []KnownRowsUpdate
  <1>1. IInv => KnownRowsUpdate
    BY TypeFacts DEF IInv, PlanInv, RowInv, KnownRowsUpdate
  <1>2. QED
    BY <1>1, Invariance, PTL

-----------------------------------------------------------------------------
(* The gate.                                                               *)

BatchRead(read) == read.ends = For("batch")

\* Whoever was added at the gate is in a list.
Complete(listed) == \A r \in roster.listed : r[1] \in Walkin => r \in listed

NotListed(w) == \A r \in roster.listed : r[1] # w

\* Every row a page or a load holds is on the roster, where nobody is here who
\* is not listed; a load that no one was added behind has all of it.
GateLists ==
    /\ roster.here \subseteq roster.listed /\ Shown.listed \subseteq roster.listed
    /\ phone.detail \cup phone.troop \cup phone.created \subseteq roster.listed
    /\ \A k \in DOMAIN reads : /\ reads[k].listed \subseteq roster.listed
                               /\ ~reads[k].torn => reads[k].listed = roster.listed
    /\ HereAreListed

\* A batch has one load, when all of it has been added.
OneBatch ==
    /\ ~phone.busy => phone.adding = {} /\ phone.created = {}
    /\ \A k \in DOMAIN reads : BatchRead(reads[k]) =>
          /\ phone.busy /\ phone.adding = {} /\ phone.created = {}
          /\ \A j \in DOMAIN reads : BatchRead(reads[j]) => j = k

\* Unless it is misled, the page knows whom it has added: with no batch running
\* by its list and by every load that is not late, and behind a batch's load
\* by what was taken since.
KnowsAdded ==
    ~misled =>
        /\ \A q, r \in roster.listed : q[1] \in Walkin /\ q[1] = r[1] => q = r
        /\ \A w \in phone.adding : NotListed(w)
        /\ ~phone.busy /\ phone.open => \A w \in phone.form : NotListed(w)
        /\ ~phone.busy => /\ Complete(Shown.listed)
                          /\ \A k \in DOMAIN reads : ~reads[k].late => Complete(reads[k].listed)
        /\ \A j, k \in DOMAIN reads :
              BatchRead(reads[j]) /\ j <= k => Complete(reads[k].listed)

GateFits == GateTypeOK /\ phone.form \cup phone.adding \subseteq Walkin

GateInv == GateFits /\ GateLists /\ OneBatch /\ KnowsAdded

LEMMA GateBounds == MaxRows \in Nat \ {0} /\ MaxMarks \in Nat /\ MaxReads \in Nat
  BY GateAssumption

LEMMA MarksApart == For("nobody") # For("batch") /\ For("batch") \notin Attendee
  BY GateAssumption DEF For, Attendee

LEMMA ReadForFacts ==
    ASSUME GateInv, NEW e \in Attendee \cup {For("nobody"), For("batch")}
    PROVE  /\ ReadFor(e) \in Read
           /\ ReadFor(e).listed = roster.listed /\ ReadFor(e).ends = e
           /\ ~ReadFor(e).late /\ ~ReadFor(e).torn
  BY DEF GateInv, GateFits, GateTypeOK, RosterState, ReadFor, Read

LEMMA ReadsFacts ==
    ASSUME GateInv
    PROVE  /\ reads \in Seq(Read) /\ Len(reads) \in Nat /\ DOMAIN reads = 1..Len(reads)
           /\ \A k \in DOMAIN reads : reads[k] \in Read
  BY LenProperties, ElementOfSeq DEF GateInv, GateFits, GateTypeOK

\* A load is asked for behind the others.
LEMMA ReadAdded ==
    ASSUME GateInv, NEW x \in Read, reads' = Append(reads, x)
    PROVE  /\ reads' \in Seq(Read) /\ Len(reads') = Len(reads) + 1
           /\ DOMAIN reads' = DOMAIN reads \cup {Len(reads) + 1}
           /\ \A k \in DOMAIN reads : k <= Len(reads) /\ k # Len(reads) + 1 /\ reads'[k] = reads[k]
           /\ reads'[Len(reads) + 1] = x
  <1>1. reads \in Seq(Read) /\ Len(reads) \in Nat /\ DOMAIN reads = 1..Len(reads)
    BY ReadsFacts
  <1>2. /\ reads' \in Seq(Read) /\ Len(reads') = Len(reads) + 1
        /\ \A k \in 1..Len(reads) : reads'[k] = reads[k]
        /\ reads'[Len(reads) + 1] = x
    BY <1>1, AppendProperties
  <1>3. DOMAIN reads' = 1..(Len(reads) + 1)
    BY <1>2, LenProperties
  <1>4. QED
    BY <1>1, <1>2, <1>3

\* The loads are as they were, but for one that has the roster of now.
ReadsFollow ==
    /\ reads' \in Seq(Read) /\ Len(reads') <= MaxReads
    /\ DOMAIN reads \subseteq DOMAIN reads'
    /\ \A k \in DOMAIN reads : reads'[k] = reads[k]
    /\ \A k \in DOMAIN reads' \ DOMAIN reads :
          /\ reads'[k].listed = roster.listed /\ ~BatchRead(reads'[k])
          /\ \A j \in DOMAIN reads : j < k

LEMMA GateInitInv == GateInit => GateInv
  <1> SUFFICES ASSUME GateInit PROVE GateInv
    OBVIOUS
  <1>1. reads \in Seq(Read) /\ Len(reads) = 0 /\ DOMAIN reads = {}
    BY EmptySeq DEF GateInit
  <1>2. /\ roster = [listed |-> Expected \X {1}, here |-> {}]
        /\ roster \in RosterState
    <2>1. Expected \X {1} \subseteq Attendee
      BY GateAssumption DEF Attendee
    <2>2. roster = [listed |-> Expected \X {1}, here |-> {}]
      BY DEF GateInit, Nobody
    <2>3. QED
      BY <2>1, <2>2 DEF RosterState
  <1>3. phone \in PhoneState
    BY DEF GateInit, PhoneState, Summary, RosterState, Nobody
  <1>4. GateFits
    <2>1. phone.form \cup phone.adding = {}
      BY DEF GateInit
    <2>2. marks \in 0..MaxMarks /\ misled \in BOOLEAN /\ Len(reads) <= MaxReads
      <3>1. marks = 0 /\ misled = FALSE
        BY DEF GateInit
      <3>2. Len(reads) = 0
        BY <1>1
      <3>3. marks \in 0..MaxMarks
        BY <3>1, GateBounds
      <3>4. Len(reads) <= MaxReads
        BY <3>2, GateBounds
      <3>5. misled \in BOOLEAN
        BY <3>1
      <3>6. QED
        BY <3>3, <3>4, <3>5
    <2>3. QED
      BY <1>1, <1>2, <1>3, <2>1, <2>2 DEF GateFits, GateTypeOK
  <1>5. GateLists
    BY <1>1, <1>2 DEF GateLists, GateInit, Shown, HereAreListed, Nobody
  <1>6. OneBatch
    BY <1>1 DEF OneBatch, GateInit
  <1>7. \A r \in roster.listed : r[1] \notin Walkin
    BY <1>2 DEF Walkin
  <1>8. KnowsAdded
    BY <1>1, <1>7 DEF KnowsAdded, GateInit, Complete, NotListed
  <1>9. QED
    BY <1>4, <1>5, <1>6, <1>8 DEF GateInv

\* Steps that add nobody and leave the batch alone: the page's buttons, marks,
\* and loads asked for.
LEMMA PageKeeps ==
    ASSUME GateInv,
           roster' \in RosterState, roster'.listed = roster.listed,
           roster'.here \subseteq roster.listed,
           \/ reads' = reads
           \/ \E e \in Attendee \cup {For("nobody")} :
                 MayRead /\ reads' = Append(reads, ReadFor(e)),
           phone' \in PhoneState, phone'.list = phone.list, phone'.busy = phone.busy,
           phone'.adding = phone.adding, phone'.created \subseteq phone.created,
           phone'.detail \cup phone'.troop \subseteq roster.listed,
           phone'.form \subseteq Walkin,
           ~misled /\ ~phone.busy /\ phone'.open => \A w \in phone'.form : NotListed(w),
           marks' \in 0..MaxMarks, misled' = misled
    PROVE  GateInv'
  <1>0. /\ GateFits /\ GateLists /\ OneBatch /\ KnowsAdded
        /\ reads \in Seq(Read) /\ Len(reads) \in Nat /\ DOMAIN reads = 1..Len(reads)
    BY ReadsFacts DEF GateInv
  <1>1. ReadsFollow
    <2>1. CASE reads' = reads
      BY <1>0, <2>1 DEF GateFits, GateTypeOK, ReadsFollow
    <2>2. ASSUME NEW e \in Attendee \cup {For("nobody")},
                 MayRead, reads' = Append(reads, ReadFor(e))
          PROVE  ReadsFollow
      <3>1. /\ ReadFor(e) \in Read /\ ReadFor(e).listed = roster.listed
            /\ ~BatchRead(ReadFor(e))
        BY ReadForFacts, MarksApart DEF BatchRead
      <3>2. /\ reads' \in Seq(Read) /\ Len(reads') = Len(reads) + 1
            /\ DOMAIN reads' = DOMAIN reads \cup {Len(reads) + 1}
            /\ \A k \in DOMAIN reads : k <= Len(reads) /\ reads'[k] = reads[k]
            /\ reads'[Len(reads) + 1] = ReadFor(e)
        BY <2>2, <3>1, ReadAdded
      <3>3. Len(reads') <= MaxReads
        <4>1. Len(reads) < MaxReads
          BY <2>2 DEF MayRead
        <4>2. Len(reads') = Len(reads) + 1
          BY <3>2
        <4>3. QED
          BY <1>0, <4>1, <4>2, GateBounds
      <3>4. \A k \in DOMAIN reads' \ DOMAIN reads : k = Len(reads) + 1
        BY <3>2
      <3>5. \A j \in DOMAIN reads : j < Len(reads) + 1
        BY <1>0
      <3>6. QED
        BY <3>1, <3>2, <3>3, <3>4, <3>5 DEF ReadsFollow
    <2>3. QED
      BY <2>1, <2>2
  <1>2. GateFits'
    BY <1>0, <1>1 DEF GateFits, GateTypeOK, ReadsFollow
  <1>3. GateLists'
    <2>1. Shown' = Shown /\ HereAreListed'
      BY <1>0 DEF Shown, GateLists, HereAreListed
    <2>2. \A k \in DOMAIN reads' :
             /\ reads'[k].listed \subseteq roster.listed
             /\ ~reads'[k].torn => reads'[k].listed = roster.listed
      BY <1>0, <1>1 DEF GateLists, ReadsFollow
    <2>3. QED
      BY <1>0, <2>1, <2>2 DEF GateLists
  <1>4. OneBatch'
    BY <1>0, <1>1 DEF OneBatch, ReadsFollow
  <1>5. KnowsAdded'
    <2> SUFFICES ASSUME ~misled PROVE KnowsAdded'
      BY DEF KnowsAdded
    <2>1. Complete(roster.listed)
      BY DEF Complete
    <2>2. \A l : Complete(l)' <=> Complete(l)
      BY DEF Complete
    <2>3. \A w : NotListed(w)' <=> NotListed(w)
      BY DEF NotListed
    <2>4. Shown' = Shown
      BY DEF Shown
    <2>5. /\ \A q, r \in roster'.listed : q[1] \in Walkin /\ q[1] = r[1] => q = r
          /\ \A w \in phone'.adding : NotListed(w)'
          /\ ~phone'.busy /\ phone'.open => \A w \in phone'.form : NotListed(w)'
      BY <1>0, <2>3 DEF KnowsAdded
    <2>6. ~phone'.busy => /\ Complete(Shown.listed)
                          /\ \A k \in DOMAIN reads' : ~reads'[k].late => Complete(reads'[k].listed)
      BY <1>0, <1>1, <2>1 DEF KnowsAdded, ReadsFollow
    <2>7. ASSUME NEW j \in DOMAIN reads', NEW k \in DOMAIN reads',
                 BatchRead(reads'[j]), j <= k
          PROVE  Complete(reads'[k].listed)
      <3>1. j \in DOMAIN reads /\ BatchRead(reads[j])
        BY <1>1, <2>7 DEF ReadsFollow
      <3>2. CASE k \in DOMAIN reads
        BY <1>0, <1>1, <2>7, <3>1, <3>2 DEF KnowsAdded, ReadsFollow
      <3>3. CASE k \notin DOMAIN reads
        BY <1>1, <2>1, <3>3 DEF ReadsFollow
      <3>4. QED
        BY <3>2, <3>3
    <2>8. QED
      BY <2>2, <2>4, <2>5, <2>6, <2>7 DEF KnowsAdded
  <1>6. QED
    BY <1>2, <1>3, <1>4, <1>5 DEF GateInv

LEMMA PhoneFacts ==
    ASSUME GateInv
    PROVE  /\ roster \in RosterState /\ roster.here \subseteq roster.listed
           /\ roster.listed \subseteq Attendee
           /\ phone \in PhoneState /\ phone.form \subseteq Walkin
           /\ phone.detail \cup phone.troop \cup phone.created \subseteq roster.listed
           /\ Shown.listed \subseteq roster.listed
           /\ marks \in 0..MaxMarks
           /\ ~misled /\ ~phone.busy /\ phone.open => \A w \in phone.form : NotListed(w)
  BY DEF GateInv, GateFits, GateTypeOK, GateLists, KnowsAdded, RosterState

\* A button that only changes the page.
LEMMA OnPhoneKeeps ==
    ASSUME GateInv, NEW f, OnPhone(f),
           f \in PhoneState, f.list = phone.list, f.busy = phone.busy,
           f.adding = phone.adding, f.created = phone.created,
           f.detail \cup f.troop \subseteq roster.listed, f.form \subseteq Walkin,
           ~misled /\ ~phone.busy /\ f.open => \A w \in f.form : NotListed(w)
    PROVE  GateInv'
  <1>1. /\ phone' = f /\ roster' = roster /\ reads' = reads /\ marks' = marks /\ misled' = misled
    BY DEF OnPhone
  <1>2. QED
    BY <1>1, PhoneFacts, PageKeeps

LEMMA DetailSteps ==
    ASSUME GateInv,
           \/ \E r \in Attendee : SelectDetail(r) \/ InitiateCheckIn(r)
           \/ CancelDetail \/ DismissDetail \/ CloseAdd
    PROVE  GateInv'
  <1> DEFINE F(d, a) == [phone EXCEPT !.detail = d, !.asking = a]
             G == [phone EXCEPT !.open = FALSE]
  <1>0. /\ phone \in PhoneState /\ roster.listed \subseteq Attendee /\ Shown.listed \subseteq roster.listed
        /\ phone.detail \cup phone.troop \subseteq roster.listed /\ phone.form \subseteq Walkin
        /\ ~misled /\ ~phone.busy /\ phone.open => \A w \in phone.form : NotListed(w)
    BY PhoneFacts
  <1>1. ASSUME NEW d \in SUBSET roster.listed, NEW a \in BOOLEAN, OnPhone(F(d, a))
        PROVE  GateInv'
    <2>1. /\ F(d, a) \in PhoneState /\ F(d, a).list = phone.list /\ F(d, a).busy = phone.busy
          /\ F(d, a).adding = phone.adding /\ F(d, a).created = phone.created
          /\ F(d, a).detail = d /\ F(d, a).troop = phone.troop /\ F(d, a).form = phone.form
          /\ F(d, a).open = phone.open
      BY <1>0 DEF PhoneState
    <2> HIDE DEF F
    <2>2. QED
      BY <1>0, <1>1, <2>1, OnPhoneKeeps
  <1>2. ASSUME CloseAdd PROVE GateInv'
    <2>1. /\ G \in PhoneState /\ G.list = phone.list /\ G.busy = phone.busy
          /\ G.adding = phone.adding /\ G.created = phone.created
          /\ G.detail = phone.detail /\ G.troop = phone.troop /\ G.form = phone.form /\ ~G.open
      BY <1>0 DEF PhoneState
    <2>2. OnPhone(G)
      BY <1>2 DEF CloseAdd
    <2> HIDE DEF G
    <2>3. QED
      BY <1>0, <2>1, <2>2, OnPhoneKeeps
  <1>3. \A d : [phone EXCEPT !.detail = d] = F(d, phone.asking)
    BY <1>0 DEF PhoneState
  <1>4. phone.asking \in BOOLEAN
    BY <1>0 DEF PhoneState
  <1>5. ASSUME NEW r \in Attendee, SelectDetail(r) PROVE GateInv'
    <2>1. {r} \in SUBSET roster.listed /\ OnPhone(F({r}, phone.asking))
      BY <1>0, <1>3, <1>5 DEF SelectDetail
    <2>2. QED
      BY <1>1, <1>4, <2>1
  <1>6. ASSUME NEW r \in Attendee, InitiateCheckIn(r) PROVE GateInv'
    <2>1. {r} \in SUBSET roster.listed /\ OnPhone(F({r}, TRUE))
      BY <1>0, <1>6 DEF InitiateCheckIn
    <2>2. QED
      BY <1>1, <2>1
  <1>7. ASSUME CancelDetail PROVE GateInv'
    BY <1>1, <1>7 DEF CancelDetail
  <1>8. ASSUME DismissDetail PROVE GateInv'
    <2>1. {} \in SUBSET roster.listed /\ OnPhone(F({}, phone.asking))
      BY <1>3, <1>8 DEF DismissDetail
    <2>2. QED
      BY <1>1, <1>4, <2>1
  <1>9. QED
    BY <1>2, <1>5, <1>6, <1>7, <1>8

LEMMA CheckInTroopStep == ASSUME GateInv, CheckInTroop PROVE GateInv'
  <1>0. /\ phone \in PhoneState /\ roster.listed \subseteq Attendee /\ Shown.listed \subseteq roster.listed
        /\ phone.detail \cup phone.troop \subseteq roster.listed /\ phone.form \subseteq Walkin
        /\ ~misled /\ ~phone.busy /\ phone.open => \A w \in phone.form : NotListed(w)
    BY PhoneFacts
  <1>1. PICK outstanding \in SUBSET (Shown.listed \ Shown.here) :
           OnPhone([phone EXCEPT !.troop = @ \cup outstanding])
    BY DEF CheckInTroop
  <1> DEFINE f == [phone EXCEPT !.troop = phone.troop \cup outstanding]
  <1>2. /\ f \in PhoneState /\ f.list = phone.list /\ f.busy = phone.busy
        /\ f.adding = phone.adding /\ f.created = phone.created /\ f.form = phone.form
        /\ f.detail = phone.detail /\ f.troop = phone.troop \cup outstanding
        /\ f.open = phone.open
    BY <1>0 DEF PhoneState
  <1>3. OnPhone(f)
    BY <1>1
  <1> HIDE DEF f
  <1>4. QED
    BY <1>0, <1>2, <1>3, OnPhoneKeeps

\* A form that is filled between two batches has nobody who was added.
LEMMA FormSteps ==
    ASSUME GateInv, OpenAdd \/ \E w \in Walkin : TypeIn(w) \/ RemoveBatchRow(w)
    PROVE  GateInv'
  <1> DEFINE F(o, g) == [phone EXCEPT !.open = o, !.form = g]
  <1>0. /\ phone \in PhoneState /\ roster.listed \subseteq Attendee /\ Walkin \subseteq Guest
        /\ phone.detail \cup phone.troop \subseteq roster.listed /\ phone.form \subseteq Walkin
        /\ ~misled /\ ~phone.busy /\ phone.open => \A w \in phone.form : NotListed(w)
    BY PhoneFacts DEF Walkin
  <1>1. ASSUME NEW o \in BOOLEAN, NEW g \in SUBSET Walkin, OnPhone(F(o, g)),
               ~misled /\ ~phone.busy /\ o => \A w \in g : NotListed(w)
        PROVE  GateInv'
    <2>1. /\ F(o, g) \in PhoneState /\ F(o, g).list = phone.list /\ F(o, g).busy = phone.busy
          /\ F(o, g).adding = phone.adding /\ F(o, g).created = phone.created
          /\ F(o, g).detail = phone.detail /\ F(o, g).troop = phone.troop
          /\ F(o, g).form = g /\ F(o, g).open = o
      BY <1>0 DEF PhoneState
    <2> HIDE DEF F
    <2>2. QED
      BY <1>0, <1>1, <2>1, OnPhoneKeeps
  <1>2. \A g : [phone EXCEPT !.form = g] = F(phone.open, g)
    BY <1>0 DEF PhoneState
  <1>3. phone.open \in BOOLEAN
    BY <1>0 DEF PhoneState
  <1>4. ASSUME OpenAdd PROVE GateInv'
    <2>1. OnPhone(F(TRUE, {}))
      BY <1>4 DEF OpenAdd
    <2> HIDE DEF F
    <2>2. QED
      BY <1>1, <2>1
  <1>5. ASSUME NEW w \in Walkin, RemoveBatchRow(w) PROVE GateInv'
    <2>1. OnPhone(F(phone.open, phone.form \ {w}))
      BY <1>2, <1>5 DEF RemoveBatchRow
    <2>2. QED
      BY <1>0, <1>1, <1>3, <2>1
  <1>6. ASSUME NEW w \in Walkin, TypeIn(w) PROVE GateInv'
    <2>1. OnPhone(F(phone.open, phone.form \cup {w})) /\ \A r \in Shown.listed : r[1] # w
      BY <1>2, <1>6 DEF TypeIn
    <2>2. ~misled /\ ~phone.busy => NotListed(w)
      BY <2>1 DEF GateInv, KnowsAdded, Complete, NotListed
    <2>3. ~misled /\ ~phone.busy /\ phone.open =>
             \A x \in phone.form \cup {w} : NotListed(x)
      BY <1>0, <2>2
    <2>4. phone.form \cup {w} \in SUBSET Walkin
      BY <1>0
    <2> HIDE DEF F
    <2>5. QED
      BY <1>1, <1>3, <2>1, <2>3, <2>4
  <1>7. QED
    BY <1>4, <1>5, <1>6

-----------------------------------------------------------------------------
(* Marks, and loads asked for.                                             *)

\* Marking somebody as here or not keeps the list; who is marked is in it.
LEMMA RecordedFacts ==
    ASSUME GateInv, NEW r \in roster.listed, NEW what \in {"here", "undo", "status"}
    PROVE  /\ Recorded(r, what) \in RosterState
           /\ Recorded(r, what).listed = roster.listed
           /\ Recorded(r, what).here \subseteq roster.listed
  <1> DEFINE x == Recorded(r, what)
             h == IF what = "here" THEN roster.here \cup {r}
                  ELSE IF what = "undo" THEN roster.here \ {r} ELSE roster.here
  <1>1. /\ roster \in RosterState /\ roster.here \subseteq roster.listed
        /\ roster.listed \subseteq Attendee
    BY PhoneFacts
  <1>2. x = [roster EXCEPT !.here = h]
    BY DEF Recorded
  <1>3. h \subseteq roster.listed
    BY <1>1
  <1> HIDE DEF x, h
  <1>4. x \in RosterState /\ x.listed = roster.listed /\ x.here = h
    BY <1>1, <1>2, <1>3 DEF RosterState
  <1>5. QED
    BY <1>3, <1>4 DEF x

\* A page that only loses what it has open or has to do.
LEMMA MarkKeeps ==
    ASSUME GateInv,
           \/ roster' = roster
           \/ \E r \in roster.listed, what \in {"here", "undo", "status"} :
                 roster' = Recorded(r, what),
           \/ reads' = reads
           \/ \E e \in Attendee \cup {For("nobody")} :
                 MayRead /\ reads' = Append(reads, ReadFor(e)),
           phone' \in PhoneState, phone'.list = phone.list, phone'.busy = phone.busy,
           phone'.adding = phone.adding, phone'.created \subseteq phone.created,
           phone'.detail \subseteq phone.detail, phone'.troop \subseteq phone.troop,
           phone'.form = phone.form, phone'.open = phone.open,
           Marked \/ marks' = marks, misled' = misled
    PROVE  GateInv'
  <1>1. /\ roster' \in RosterState /\ roster'.listed = roster.listed
        /\ roster'.here \subseteq roster.listed
    BY PhoneFacts, RecordedFacts
  <1>2. marks' \in 0..MaxMarks
    BY PhoneFacts, GateBounds DEF Marked
  <1>3. /\ phone'.detail \cup phone'.troop \subseteq roster.listed /\ phone'.form \subseteq Walkin
        /\ ~misled /\ ~phone.busy /\ phone'.open => \A w \in phone'.form : NotListed(w)
    BY PhoneFacts
  <1>4. QED
    BY <1>1, <1>2, <1>3, PageKeeps

LEMMA RowSteps ==
    ASSUME GateInv, NEW r \in Attendee, Undo(r) \/ SetAttendeeStatus(r)
    PROVE  GateInv'
  <1>1. phone \in PhoneState /\ Shown.listed \subseteq roster.listed
    BY PhoneFacts
  <1>2. r \in roster.listed /\ phone' = phone /\ misled' = misled /\ (Marked \/ marks' = marks)
    BY <1>1 DEF Undo, SetAttendeeStatus
  <1>3. Asked(r, "undo") \/ Asked(r, "status")
    BY DEF Undo, SetAttendeeStatus
  <1>4. /\ \/ roster' = roster
           \/ \E what \in {"here", "undo", "status"} : roster' = Recorded(r, what)
        /\ \/ reads' = reads
           \/ MayRead /\ reads' = Append(reads, ReadFor(r))
    BY <1>3 DEF Asked
  <1>5. QED
    BY <1>1, <1>2, <1>4, MarkKeeps

LEMMA ConfirmStep ==
    ASSUME GateInv, NEW r \in Attendee, ConfirmCheckIn(r)
    PROVE  GateInv'
  <1> DEFINE f == [phone EXCEPT !.detail = {}, !.asking = FALSE]
  <1>1. phone \in PhoneState /\ phone.detail \subseteq roster.listed
    BY PhoneFacts
  <1>2. /\ phone.detail = {r} /\ Asked(r, "here") /\ Marked /\ phone' = f /\ misled' = misled
    BY DEF ConfirmCheckIn
  <1>3. /\ \/ roster' = roster \/ roster' = Recorded(r, "here")
        /\ \/ reads' = reads
           \/ MayRead /\ reads' = Append(reads, ReadFor(r))
    BY <1>2 DEF Asked
  <1>4. /\ f \in PhoneState /\ f.list = phone.list /\ f.busy = phone.busy
        /\ f.adding = phone.adding /\ f.created = phone.created /\ f.detail = {}
        /\ f.troop = phone.troop /\ f.form = phone.form /\ f.open = phone.open
    BY <1>1 DEF PhoneState
  <1> HIDE DEF f
  <1>5. r \in roster.listed
    BY <1>1, <1>2
  <1>6. QED
    BY <1>2, <1>3, <1>4, <1>5, MarkKeeps

LEMMA TroopSteps ==
    ASSUME GateInv, NEW r \in Attendee, TroopGoesOn(r) \/ TroopFails(r)
    PROVE  GateInv'
  <1> DEFINE F(t) == [phone EXCEPT !.troop = t]
  <1>1. phone \in PhoneState /\ phone.troop \subseteq roster.listed
    BY PhoneFacts
  <1>2. r \in phone.troop /\ Marked /\ misled' = misled
    BY DEF TroopGoesOn, TroopFails
  <1>3. roster' = roster \/ roster' = Recorded(r, "here")
    BY DEF TroopGoesOn, TroopFails
  <1>4. reads' = reads \/ (MayRead /\ reads' = Append(reads, ReadFor(For("nobody"))))
    BY DEF TroopGoesOn, TroopFails
  <1>5. PICK t \in SUBSET phone.troop : phone' = F(t)
    <2>1. phone' = F(phone.troop \ {r}) \/ phone' = F({})
      BY DEF TroopGoesOn, TroopFails
    <2>2. QED
      BY <2>1
  <1>6. /\ F(t) \in PhoneState /\ F(t).list = phone.list /\ F(t).busy = phone.busy
        /\ F(t).adding = phone.adding /\ F(t).created = phone.created
        /\ F(t).detail = phone.detail /\ F(t).troop = t /\ F(t).form = phone.form
        /\ F(t).open = phone.open
    BY <1>1 DEF PhoneState
  <1> HIDE DEF F
  <1>7. QED
    BY <1>1, <1>2, <1>3, <1>4, <1>5, <1>6, MarkKeeps

LEMMA CheckInAddedStep ==
    ASSUME GateInv, NEW r \in Attendee, CheckInAdded(r)
    PROVE  GateInv'
  <1> DEFINE f == [phone EXCEPT !.created = {}]
  <1>1. phone \in PhoneState /\ phone.created \subseteq roster.listed
    BY PhoneFacts
  <1>2. /\ r \in phone.created /\ roster' = Recorded(r, "here") /\ phone' = f
        /\ reads' = reads /\ marks' = marks /\ misled' = misled
    BY DEF CheckInAdded
  <1>3. /\ f \in PhoneState /\ f.list = phone.list /\ f.busy = phone.busy
        /\ f.adding = phone.adding /\ f.created = {} /\ f.detail = phone.detail
        /\ f.troop = phone.troop /\ f.form = phone.form /\ f.open = phone.open
    BY <1>1 DEF PhoneState
  <1> HIDE DEF f
  <1>4. QED
    BY <1>1, <1>2, <1>3, MarkKeeps

LEMMA OtherMarks ==
    ASSUME GateInv,
           \/ Poll \/ SaveEdit
           \/ \E r \in Attendee, what \in {"here", "undo"} : ColleagueMarks(r, what)
           \/ UNCHANGED gateVars
    PROVE  GateInv'
  <1>1. phone \in PhoneState /\ phone' = phone /\ misled' = misled
    BY PhoneFacts DEF Poll, SaveEdit, ColleagueMarks, gateVars
  <1>2. /\ \/ roster' = roster
           \/ \E r \in roster.listed, what \in {"here", "undo", "status"} :
                 roster' = Recorded(r, what)
        /\ Marked \/ marks' = marks
    BY DEF Poll, SaveEdit, ColleagueMarks, gateVars
  <1>3. reads' = reads \/ (MayRead /\ reads' = Append(reads, ReadFor(For("nobody"))))
    BY DEF Poll, SaveEdit, ColleagueMarks, gateVars
  <1>4. QED
    BY <1>1, <1>2, <1>3, MarkKeeps

-----------------------------------------------------------------------------
(* Adding people.                                                          *)

\* A person with room for another row has a lowest free ordinal.
LEMMA FreeOrdinalFacts ==
    ASSUME GateInv, NEW w \in Guest, HasRoom(w)
    PROVE  FreeOrdinal(w) \in 1..MaxRows /\ <<w, FreeOrdinal(w)>> \notin roster.listed
  <1> DEFINE Free == {k \in 1..MaxRows : <<w, k>> \notin roster.listed}
  <1>1. Free \subseteq Nat /\ Free # {}
    BY GateBounds DEF HasRoom
  <1>2. PICK k \in Free : \A j \in Free : ~(<<j, k>> \in OpToRel(<, Nat))
    BY <1>1, NatLessThanWellFounded, WFMin
  <1>3. ASSUME NEW j \in 1..(k - 1) PROVE <<w, j>> \in roster.listed
    <2>1. j \in Nat /\ k \in Nat /\ j < k /\ j \in 1..MaxRows
      <3>1. k \in 1..MaxRows
        BY <1>2
      <3>2. QED
        BY <3>1, GateBounds
    <2>2. <<j, k>> \in OpToRel(<, Nat)
      BY <2>1 DEF OpToRel
    <2>3. j \notin Free
      BY <1>2, <2>2
    <2>4. QED
      BY <2>1, <2>3
  <1>4. \E o \in 1..MaxRows : /\ <<w, o>> \notin roster.listed
                              /\ \A j \in 1..(o - 1) : <<w, j>> \in roster.listed
    BY <1>2, <1>3
  <1>5. QED
    BY <1>4 DEF FreeOrdinal

\* A new row is nobody's yet, and every load on its way is torn.
LEMMA EnlistedFacts ==
    ASSUME GateInv, NEW w \in Walkin, Enlisted(w)
    PROVE  /\ <<w, FreeOrdinal(w)>> \in Attendee \ roster.listed
           /\ roster' \in RosterState /\ roster'.here = roster.here
           /\ roster'.listed = roster.listed \cup {<<w, FreeOrdinal(w)>>}
           /\ reads' \in Seq(Read) /\ Len(reads') = Len(reads) /\ DOMAIN reads' = DOMAIN reads
           /\ \A k \in DOMAIN reads : /\ reads'[k].listed = reads[k].listed /\ reads'[k].torn
                                      /\ reads'[k].late = reads[k].late
                                      /\ reads'[k].ends = reads[k].ends
  <1>1. /\ HasRoom(w) /\ w \in Guest
        /\ roster' = [roster EXCEPT !.listed = @ \cup {<<w, FreeOrdinal(w)>>}]
        /\ reads' = [k \in DOMAIN reads |-> [reads[k] EXCEPT !.torn = TRUE]]
    BY DEF Enlisted, Walkin
  <1>2. FreeOrdinal(w) \in 1..MaxRows /\ <<w, FreeOrdinal(w)>> \notin roster.listed
    BY <1>1, FreeOrdinalFacts
  <1>3. <<w, FreeOrdinal(w)>> \in Attendee \ roster.listed
    BY <1>1, <1>2 DEF Attendee
  <1> DEFINE new == <<w, FreeOrdinal(w)>>
  <1> HIDE DEF new
  <1>4. /\ roster' \in RosterState /\ roster'.here = roster.here
        /\ roster'.listed = roster.listed \cup {new}
    <2>1. roster \in RosterState /\ new \in Attendee
      BY <1>3, PhoneFacts DEF new
    <2>2. roster' = [roster EXCEPT !.listed = roster.listed \cup {new}]
      BY <1>1 DEF new
    <2>3. QED
      BY <2>1, <2>2 DEF RosterState
  <1>5. /\ Len(reads) \in Nat /\ DOMAIN reads = 1..Len(reads)
        /\ \A k \in DOMAIN reads : reads[k] \in Read
    BY ReadsFacts
  <1> DEFINE torn(k) == [reads[k] EXCEPT !.torn = TRUE]
  <1>6. \A k \in DOMAIN reads : /\ torn(k) \in Read /\ torn(k).listed = reads[k].listed
                                /\ torn(k).torn /\ torn(k).late = reads[k].late
                                /\ torn(k).ends = reads[k].ends
    BY <1>5 DEF Read
  <1>7. reads' = [k \in 1..Len(reads) |-> torn(k)]
    BY <1>1, <1>5
  <1> HIDE DEF torn
  <1>8. reads' \in Seq(Read) /\ Len(reads') = Len(reads) /\ DOMAIN reads' = DOMAIN reads
    <2>1. reads' \in [1..Len(reads) -> Read]
      BY <1>5, <1>6, <1>7
    <2>2. reads' \in Seq(Read)
      BY <1>5, <2>1, SeqDef
    <2>3. DOMAIN reads' = 1..Len(reads')
      BY <2>2, LenProperties
    <2>4. DOMAIN reads' = 1..Len(reads) /\ Len(reads') \in Nat
      BY <2>1, <2>2, LenProperties
    <2>5. ASSUME NEW m \in Nat, NEW n \in Nat, 1..m = 1..n PROVE m = n
      <3>1. m \in 0..n /\ n \in 0..m
        BY <2>5
      <3>2. QED
        BY <3>1
    <2>6. Len(reads') = Len(reads)
      BY <1>5, <2>3, <2>4, <2>5
    <2>7. QED
      BY <1>5, <2>2, <2>4, <2>6
  <1>9. \A k \in DOMAIN reads : reads'[k] = torn(k)
    BY <1>5, <1>7
  <1>10. QED
    BY <1>3, <1>4, <1>6, <1>8, <1>9 DEF new

\* A step that enlists somebody keeps the lists in order.
LEMMA EnlistKeeps ==
    ASSUME GateInv, NEW w \in Walkin, Enlisted(w),
           phone' \in PhoneState, phone'.list = phone.list, phone'.detail = phone.detail,
           phone'.troop = phone.troop, phone'.created \subseteq roster'.listed,
           phone'.form = phone.form, phone'.adding \subseteq phone.adding,
           marks' = marks, misled' \in BOOLEAN
    PROVE  GateFits' /\ GateLists'
  <1>0. GateFits /\ GateLists
    BY DEF GateInv
  <1>1. /\ roster' \in RosterState /\ roster'.here = roster.here
        /\ roster.listed \subseteq roster'.listed
        /\ reads' \in Seq(Read) /\ Len(reads') = Len(reads) /\ DOMAIN reads' = DOMAIN reads
        /\ \A k \in DOMAIN reads : /\ reads'[k].listed = reads[k].listed /\ reads'[k].torn
    BY EnlistedFacts
  <1>2. GateFits'
    BY <1>0, <1>1 DEF GateFits, GateTypeOK
  <1>3. Shown' = Shown /\ HereAreListed'
    BY <1>0 DEF Shown, GateLists, HereAreListed
  <1>4. GateLists'
    BY <1>0, <1>1, <1>3 DEF GateLists
  <1>5. QED
    BY <1>2, <1>4

LEMMA ColleagueAddsStep ==
    ASSUME GateInv, NEW w \in Walkin, ColleagueAdds(w)
    PROVE  GateInv'
  <1>1. /\ Enlisted(w) /\ misled' = TRUE /\ phone' = phone /\ marks' = marks
        /\ phone \in PhoneState /\ phone.created \subseteq roster.listed
    BY PhoneFacts DEF ColleagueAdds
  <1>2. /\ roster.listed \subseteq roster'.listed /\ DOMAIN reads' = DOMAIN reads
        /\ \A k \in DOMAIN reads : reads'[k].ends = reads[k].ends
    BY <1>1, EnlistedFacts
  <1>3. GateFits' /\ GateLists'
    BY <1>1, <1>2, EnlistKeeps
  <1>4. OneBatch'
    BY <1>1, <1>2 DEF GateInv, OneBatch, BatchRead
  <1>5. KnowsAdded'
    BY <1>1 DEF KnowsAdded
  <1>6. QED
    BY <1>3, <1>4, <1>5 DEF GateInv

LEMMA AddNextStep ==
    ASSUME GateInv, NEW w \in Walkin, AddNext(w)
    PROVE  GateInv'
  <1> DEFINE new == <<w, FreeOrdinal(w)>>
  <1>1. /\ phone.busy /\ w \in phone.adding /\ Enlisted(w)
        /\ marks' = marks /\ misled' = misled
    BY DEF AddNext
  <1>2. PICK c \in {{new}, {}} :
           phone' = [phone EXCEPT !.adding = phone.adding \ {w}, !.created = c]
    BY DEF AddNext
  <1>3. phone \in PhoneState /\ misled \in BOOLEAN
    BY DEF GateInv, GateFits, GateTypeOK
  <1>4. /\ new \in Attendee \ roster.listed /\ new[1] = w
        /\ roster'.listed = roster.listed \cup {new} /\ DOMAIN reads' = DOMAIN reads
        /\ \A k \in DOMAIN reads : reads'[k].ends = reads[k].ends
    BY <1>1, EnlistedFacts
  <1> HIDE DEF new
  <1>5. /\ phone' \in PhoneState /\ phone'.list = phone.list /\ phone'.detail = phone.detail
        /\ phone'.troop = phone.troop /\ phone'.created = c /\ phone'.form = phone.form
        /\ phone'.adding = phone.adding \ {w} /\ phone'.busy /\ phone'.open = phone.open
    BY <1>1, <1>2, <1>3, <1>4 DEF PhoneState
  <1>6. GateFits' /\ GateLists'
    BY <1>1, <1>2, <1>3, <1>4, <1>5, EnlistKeeps
  <1>7. \A k \in DOMAIN reads : ~BatchRead(reads[k]) /\ ~BatchRead(reads'[k])
    BY <1>1, <1>4 DEF GateInv, OneBatch, BatchRead
  <1>8. OneBatch'
    BY <1>4, <1>5, <1>7 DEF OneBatch
  <1>9. KnowsAdded'
    <2> SUFFICES ASSUME ~misled PROVE KnowsAdded'
      BY <1>1 DEF KnowsAdded
    <2>1. NotListed(w) /\ \A q, r \in roster.listed : q[1] \in Walkin /\ q[1] = r[1] => q = r
      BY <1>1 DEF GateInv, KnowsAdded
    <2>2. \A q, r \in roster'.listed : q[1] \in Walkin /\ q[1] = r[1] => q = r
      BY <1>4, <2>1 DEF NotListed
    <2>3. \A x \in phone'.adding : NotListed(x)'
      BY <1>4, <1>5 DEF GateInv, KnowsAdded, NotListed
    <2>4. QED
      BY <1>4, <1>5, <1>7, <2>2, <2>3 DEF KnowsAdded
  <1>10. QED
    BY <1>6, <1>8, <1>9 DEF GateInv

LEMMA BatchFailsStep == ASSUME GateInv, BatchFails PROVE GateInv'
  <1>0. /\ phone \in PhoneState /\ phone.busy /\ misled' = TRUE /\ marks' = marks
        /\ phone.created \subseteq roster.listed /\ phone.adding \subseteq Walkin
        /\ GateFits /\ GateLists /\ OneBatch
    BY PhoneFacts DEF BatchFails, GateInv, GateFits
  <1>1. phone' = [phone EXCEPT !.busy = FALSE, !.adding = {}, !.created = {}]
    BY DEF BatchFails
  <1>2. /\ phone' \in PhoneState /\ phone'.list = phone.list /\ phone'.detail = phone.detail
        /\ phone'.troop = phone.troop /\ phone'.created = {} /\ phone'.form = phone.form
        /\ phone'.adding = {} /\ ~phone'.busy
    BY <1>0, <1>1 DEF PhoneState
  <1>3. \A k \in DOMAIN reads : ~BatchRead(reads[k])
    BY <1>0 DEF BatchFails, OneBatch
  <1>4. KnowsAdded'
    BY <1>0 DEF KnowsAdded
  <1>5. ASSUME NEW w \in phone.adding, Enlisted(w) PROVE GateInv'
    <2>1. GateFits' /\ GateLists'
      BY <1>0, <1>2, <1>5, EnlistKeeps
    <2>2. DOMAIN reads' = DOMAIN reads /\ \A k \in DOMAIN reads : reads'[k].ends = reads[k].ends
      BY <1>0, <1>5, EnlistedFacts
    <2>3. OneBatch'
      BY <1>2, <1>3, <2>2 DEF OneBatch, BatchRead
    <2>4. QED
      BY <1>4, <2>1, <2>3 DEF GateInv
  <1>6. ASSUME roster' \in RosterState, roster'.listed = roster.listed,
               roster'.here \subseteq roster.listed, reads' = reads
        PROVE  GateInv'
    <2>1. GateFits'
      BY <1>0, <1>2, <1>6 DEF GateFits, GateTypeOK
    <2>2. Shown' = Shown /\ HereAreListed'
      BY <1>0, <1>2 DEF Shown, GateLists, HereAreListed
    <2>3. GateLists'
      BY <1>0, <1>2, <1>6, <2>2 DEF GateLists
    <2>4. OneBatch'
      BY <1>2, <1>3, <1>6 DEF OneBatch
    <2>5. QED
      BY <1>4, <2>1, <2>3, <2>4 DEF GateInv
  <1>7. ASSUME NEW r \in phone.created, roster' = Recorded(r, "here"), reads' = reads
        PROVE  GateInv'
    BY <1>0, <1>6, <1>7, RecordedFacts
  <1>8. ASSUME roster' = roster, reads' = reads PROVE GateInv'
    BY <1>6, <1>8, PhoneFacts
  <1>9. QED
    BY <1>5, <1>7, <1>8 DEF BatchFails

LEMMA AddAttendeesStep == ASSUME GateInv, AddAttendees PROVE GateInv'
  <1> DEFINE f == [phone EXCEPT !.busy = TRUE, !.adding = phone.form]
  <1>0. /\ phone \in PhoneState /\ phone.open /\ ~phone.busy
        /\ GateFits /\ GateLists /\ OneBatch /\ KnowsAdded
    BY PhoneFacts DEF AddAttendees, GateInv
  <1>1. /\ phone' = f /\ roster' = roster /\ reads' = reads /\ marks' = marks /\ misled' = misled
    BY DEF AddAttendees, OnPhone
  <1>2. /\ f \in PhoneState /\ f.list = phone.list /\ f.detail = phone.detail
        /\ f.troop = phone.troop /\ f.created = phone.created /\ f.form = phone.form
        /\ f.adding = phone.form /\ f.busy /\ f.open = phone.open
    BY <1>0 DEF PhoneState
  <1> HIDE DEF f
  <1>3. GateFits'
    BY <1>0, <1>1, <1>2 DEF GateFits, GateTypeOK
  <1>4. Shown' = Shown /\ HereAreListed'
    BY <1>0, <1>1, <1>2 DEF Shown, GateLists, HereAreListed
  <1>5. GateLists'
    BY <1>0, <1>1, <1>2, <1>4 DEF GateLists
  <1>6. \A k \in DOMAIN reads : ~BatchRead(reads[k])
    BY <1>0 DEF OneBatch
  <1>7. OneBatch'
    BY <1>1, <1>2, <1>6 DEF OneBatch
  <1>8. KnowsAdded'
    <2>1. \A w : NotListed(w)' <=> NotListed(w)
      BY <1>1 DEF NotListed
    <2>2. QED
      BY <1>0, <1>1, <1>2, <1>6, <2>1 DEF KnowsAdded
  <1>9. QED
    BY <1>3, <1>5, <1>7, <1>8 DEF GateInv

\* A batch asks for its load when all of it is added, and for one only.
LEMMA BatchDoneStep == ASSUME GateInv, BatchDone PROVE GateInv'
  <1> DEFINE n == Len(reads) + 1
             x == ReadFor(For("batch"))
  <1>0. /\ GateFits /\ GateLists /\ OneBatch /\ KnowsAdded
        /\ Len(reads) \in Nat /\ DOMAIN reads = 1..Len(reads)
    BY ReadsFacts DEF GateInv
  <1>1. /\ phone.busy /\ phone.adding = {} /\ phone.created = {} /\ Len(reads) < MaxReads
        /\ \A k \in DOMAIN reads : ~BatchRead(reads[k])
        /\ reads' = Append(reads, x)
        /\ roster' = roster /\ phone' = phone /\ marks' = marks /\ misled' = misled
    BY DEF BatchDone, MayRead, BatchRead
  <1>2. x \in Read /\ x.listed = roster.listed /\ ~x.late /\ ~x.torn
    BY ReadForFacts
  <1> HIDE DEF x
  <1>3. /\ reads' \in Seq(Read) /\ Len(reads') = n /\ DOMAIN reads' = DOMAIN reads \cup {n}
        /\ \A k \in DOMAIN reads : k < n /\ k # n /\ reads'[k] = reads[k]
        /\ reads'[n] = x
    BY <1>0, <1>1, <1>2, ReadAdded
  <1>4. n <= MaxReads /\ n \in Nat
    BY <1>0, <1>1, GateBounds
  <1> HIDE DEF n
  <1>5. GateFits'
    BY <1>0, <1>1, <1>3, <1>4 DEF GateFits, GateTypeOK
  <1>6. Shown' = Shown /\ HereAreListed'
    BY <1>0, <1>1 DEF Shown, GateLists, HereAreListed
  <1>7. GateLists'
    BY <1>0, <1>1, <1>2, <1>3, <1>6 DEF GateLists
  <1>8. OneBatch'
    BY <1>1, <1>3 DEF OneBatch
  <1>9. KnowsAdded'
    <2>1. Complete(roster.listed)
      BY DEF Complete
    <2>2. \A l : Complete(l)' <=> Complete(l)
      BY <1>1 DEF Complete
    <2>3. \A w : NotListed(w)' <=> NotListed(w)
      BY <1>1 DEF NotListed
    <2>4. \A j, k \in DOMAIN reads' :
             BatchRead(reads'[j]) /\ j <= k => reads'[k].listed = roster.listed
      <3> SUFFICES ASSUME NEW j \in DOMAIN reads', NEW k \in DOMAIN reads',
                          BatchRead(reads'[j]), j <= k
                   PROVE  reads'[k].listed = roster.listed
        OBVIOUS
      <3>1. j = n
        BY <1>1, <1>3
      <3>2. k = n
        BY <1>0, <1>3, <1>4, <3>1
      <3>3. QED
        BY <1>2, <1>3, <3>2
    <2>5. QED
      BY <1>0, <1>1, <2>1, <2>2, <2>3, <2>4 DEF KnowsAdded
  <1>10. QED
    BY <1>5, <1>7, <1>8, <1>9 DEF GateInv

-----------------------------------------------------------------------------
(* Loads that arrive.                                                      *)

\* Where a load that is left was before the k-th arrived.
Before(k, j) == IF j < k THEN j ELSE j + 1

\* The loads that are left are as they were, but for being late now.
LoadsLeft(k) ==
    /\ reads' \in Seq(Read) /\ Len(reads') <= MaxReads
    /\ \A j \in DOMAIN reads' :
          /\ j \in Nat /\ Before(k, j) \in DOMAIN reads \ {k}
          /\ reads'[j].listed = reads[Before(k, j)].listed
          /\ reads'[j].torn = reads[Before(k, j)].torn
          /\ reads'[j].ends = reads[Before(k, j)].ends

LEMMA BeforeFacts ==
    ASSUME NEW n \in Nat, NEW k \in 1..n
    PROVE  /\ \A j \in 1..(n - 1) : j \in Nat /\ Before(k, j) \in 1..n \ {k}
           /\ \A i, j \in 1..(n - 1) : /\ Before(k, i) = Before(k, j) => i = j
                                       /\ i <= j => Before(k, i) <= Before(k, j)
  BY DEF Before

LEMMA OvertakenFacts ==
    ASSUME GateInv, NEW k \in DOMAIN reads, reads' = Overtaken(k)
    PROVE  /\ LoadsLeft(k) /\ DOMAIN reads' = 1..(Len(reads) - 1)
           /\ \A j \in DOMAIN reads' :
                 IF j < k THEN ~misled => reads'[j].late
                 ELSE reads'[j].late = reads[Before(k, j)].late
  <1> DEFINE n == Len(reads) - 1
             late(j) == [reads[j] EXCEPT !.late = ~misled]
             left(j) == IF j < k THEN late(j) ELSE reads[j + 1]
  <1>1. /\ Len(reads) \in Nat /\ DOMAIN reads = 1..Len(reads) /\ Len(reads) <= MaxReads
        /\ \A j \in DOMAIN reads : reads[j] \in Read
        /\ misled \in BOOLEAN
    BY ReadsFacts DEF GateInv, GateFits, GateTypeOK
  <1>2. n \in Nat
    BY <1>1
  <1>3. \A j \in 1..n : j \in Nat /\ Before(k, j) \in DOMAIN reads \ {k}
    BY <1>1, BeforeFacts
  <1>4. \A j \in 1..Len(reads) :
           /\ late(j) \in Read /\ late(j).listed = reads[j].listed
           /\ late(j).torn = reads[j].torn /\ late(j).ends = reads[j].ends
           /\ late(j).late = ~misled
    BY <1>1 DEF Read
  <1> HIDE DEF late
  <1>5. \A j \in 1..n :
           /\ left(j) \in Read /\ left(j).listed = reads[Before(k, j)].listed
           /\ left(j).torn = reads[Before(k, j)].torn
           /\ left(j).ends = reads[Before(k, j)].ends
           /\ IF j < k THEN ~misled => left(j).late
              ELSE left(j).late = reads[Before(k, j)].late
    <2> SUFFICES ASSUME NEW j \in 1..n
                 PROVE  /\ left(j) \in Read /\ left(j).listed = reads[Before(k, j)].listed
                        /\ left(j).torn = reads[Before(k, j)].torn
                        /\ left(j).ends = reads[Before(k, j)].ends
                        /\ IF j < k THEN ~misled => left(j).late
                           ELSE left(j).late = reads[Before(k, j)].late
      OBVIOUS
    <2>1. CASE j < k
      <3>1. Before(k, j) = j /\ left(j) = late(j) /\ j \in 1..Len(reads)
        BY <1>1, <2>1 DEF Before
      <3> HIDE DEF left
      <3>2. QED
        BY <1>4, <2>1, <3>1
    <2>2. CASE ~(j < k)
      <3>1. Before(k, j) = j + 1 /\ left(j) = reads[j + 1]
        BY <2>2 DEF Before
      <3>2. reads[Before(k, j)] \in Read
        BY <1>1, <1>3
      <3> HIDE DEF left
      <3>3. QED
        BY <2>2, <3>1, <3>2
    <2>3. QED
      BY <2>1, <2>2
  <1>6. reads' = [j \in 1..n |-> left(j)]
    BY DEF Overtaken, left, late, n
  <1> HIDE DEF left
  <1>7. reads' \in Seq(Read) /\ Len(reads') = n
    <2>1. reads' \in [1..n -> Read]
      BY <1>5, <1>6
    <2>2. reads' \in Seq(Read)
      BY <1>2, <2>1, SeqDef
    <2>3. Len(reads') \in Nat /\ 1..Len(reads') = 1..n
      BY <2>1, <2>2, LenProperties
    <2>4. ASSUME NEW a \in Nat, NEW b \in Nat, 1..a = 1..b PROVE a = b
      <3>1. a \in 0..b /\ b \in 0..a
        BY <2>4
      <3>2. QED
        BY <3>1
    <2>5. QED
      BY <1>2, <2>2, <2>3, <2>4
  <1>8. DOMAIN reads' = 1..n /\ \A j \in 1..n : reads'[j] = left(j)
    BY <1>6
  <1>9. Len(reads') <= MaxReads
    BY <1>1, <1>7, GateBounds
  <1> HIDE DEF n
  <1>10. LoadsLeft(k)
    BY <1>3, <1>5, <1>7, <1>8, <1>9 DEF LoadsLeft
  <1>11. \A j \in DOMAIN reads' :
            IF j < k THEN ~misled => reads'[j].late
            ELSE reads'[j].late = reads[Before(k, j)].late
    BY <1>5, <1>8
  <1>12. QED
    BY <1>8, <1>10, <1>11 DEF n

\* Taking one load out moves the later ones up.
LEMMA LoadTakenOut ==
    ASSUME NEW S, NEW l \in Seq(S), NEW i \in 1..Len(l)
    PROVE  /\ RemoveAt(l, i) \in Seq(S) /\ Len(RemoveAt(l, i)) = Len(l) - 1
           /\ \A j \in 1..(Len(l) - 1) : RemoveAt(l, i)[j] = IF j < i THEN l[j] ELSE l[j + 1]
  <1> DEFINE n == Len(l)
  <1> DEFINE a == SubSeq(l, 1, i - 1)
  <1> DEFINE b == SubSeq(l, i + 1, n)
  <1>1. n \in Nat /\ i \in 1..n /\ \A j \in 1..n : l[j] \in S
    BY LenProperties, ElementOfSeq
  <1> HIDE DEF n
  <1>2. i - 1 \in Int /\ i + 1 \in Int /\ n \in Int /\ i \in Int /\ 1 \in Int
    BY <1>1
  <1>3. a \in Seq(S) /\ Len(a) = i - 1 /\ \A j \in 1..(i - 1) : a[j] = l[j]
    <2>1. \A j \in 1..(i - 1) : l[j] \in S
      BY <1>1
    <2>2. a \in Seq(S) /\ Len(a) = (IF 1 <= i - 1 THEN (i - 1) - 1 + 1 ELSE 0)
          /\ \A j \in 1..((i - 1) - 1 + 1) : a[j] = l[1 + j - 1]
      BY <1>2, <2>1, SubSeqProperties
    <2>3. (i - 1) - 1 + 1 = i - 1 /\ \A j \in 1..(i - 1) : 1 + j - 1 = j
      BY <1>1
    <2>4. QED
      BY <1>1, <2>2, <2>3
  <1>4. b \in Seq(S) /\ Len(b) = n - i /\ \A j \in 1..(n - i) : b[j] = l[j + i]
    <2>1. \A j \in (i + 1)..n : l[j] \in S
      BY <1>1
    <2>2. b \in Seq(S) /\ Len(b) = (IF i + 1 <= n THEN n - (i + 1) + 1 ELSE 0)
          /\ \A j \in 1..(n - (i + 1) + 1) : b[j] = l[(i + 1) + j - 1]
      BY <1>2, <2>1, SubSeqProperties
    <2>3. n - (i + 1) + 1 = n - i /\ \A j \in 1..(n - i) : (i + 1) + j - 1 = j + i
      BY <1>1
    <2>4. QED
      BY <1>1, <2>2, <2>3
  <1>5. RemoveAt(l, i) = a \o b
    BY DEF RemoveAt, n
  <1> HIDE DEF a, b
  <1>6. /\ a \o b \in Seq(S) /\ Len(a \o b) = (i - 1) + (n - i)
        /\ \A j \in 1..((i - 1) + (n - i)) :
              (a \o b)[j] = IF j <= i - 1 THEN a[j] ELSE b[j - (i - 1)]
    <2>1. /\ a \o b \in Seq(S) /\ Len(a \o b) = Len(a) + Len(b)
          /\ \A j \in 1..(Len(a) + Len(b)) :
                (a \o b)[j] = IF j <= Len(a) THEN a[j] ELSE b[j - Len(a)]
      BY <1>3, <1>4, ConcatProperties
    <2>2. Len(a) = i - 1 /\ Len(b) = n - i
      BY <1>3, <1>4
    <2>3. QED
      BY <2>1, <2>2
  <1>7. (i - 1) + (n - i) = n - 1
    BY <1>1
  <1>8. ASSUME NEW j \in 1..(n - 1)
        PROVE  (a \o b)[j] = IF j < i THEN l[j] ELSE l[j + 1]
    <2>1. CASE j < i
      BY <1>1, <1>3, <1>6, <1>7, <2>1
    <2>2. CASE ~(j < i)
      <3>1. j - (i - 1) \in 1..(n - i) /\ (j - (i - 1)) + i = j + 1 /\ ~(j <= i - 1)
        BY <1>1, <2>2
      <3>2. (a \o b)[j] = b[j - (i - 1)]
        BY <1>6, <1>7, <3>1
      <3>3. b[j - (i - 1)] = l[j + 1]
        BY <1>4, <3>1
      <3>4. QED
        BY <2>2, <3>2, <3>3
    <2>3. QED
      BY <2>1, <2>2
  <1>9. QED
    BY <1>5, <1>6, <1>7, <1>8 DEF n

LEMMA FailedFacts ==
    ASSUME GateInv, NEW k \in DOMAIN reads, reads' = RemoveAt(reads, k)
    PROVE  /\ LoadsLeft(k) /\ DOMAIN reads' = 1..(Len(reads) - 1)
           /\ \A j \in DOMAIN reads' : reads'[j].late = reads[Before(k, j)].late
  <1>1. /\ Len(reads) \in Nat /\ DOMAIN reads = 1..Len(reads) /\ Len(reads) <= MaxReads
        /\ reads \in Seq(Read)
    BY ReadsFacts DEF GateInv, GateFits, GateTypeOK
  <1>2. /\ reads' \in Seq(Read) /\ Len(reads') = Len(reads) - 1
        /\ \A j \in 1..(Len(reads) - 1) :
              reads'[j] = IF j < k THEN reads[j] ELSE reads[j + 1]
    BY <1>1, LoadTakenOut
  <1>3. DOMAIN reads' = 1..(Len(reads) - 1)
    BY <1>2, LenProperties
  <1>4. \A j \in 1..(Len(reads) - 1) : reads'[j] = reads[Before(k, j)]
    BY <1>2 DEF Before
  <1>5. \A j \in 1..(Len(reads) - 1) : j \in Nat /\ Before(k, j) \in DOMAIN reads \ {k}
    BY <1>1, BeforeFacts
  <1>6. Len(reads') <= MaxReads
    BY <1>1, <1>2, GateBounds
  <1>7. QED
    BY <1>2, <1>3, <1>4, <1>5, <1>6 DEF LoadsLeft

\* What an answered load leaves in order, whatever the page now shows of it.
LEMMA LoadKeeps ==
    ASSUME GateInv, NEW k \in DOMAIN reads, LoadsLeft(k),
           DOMAIN reads' = 1..(Len(reads) - 1), roster' = roster, marks' = marks,
           NEW l \in Summary, l.roster.listed \subseteq roster.listed,
           l.torn \/ l.roster.here \subseteq l.roster.listed,
           phone' = [Released(phone, reads[k].ends) EXCEPT !.list = l],
           misled' \in BOOLEAN
    PROVE  /\ GateFits' /\ GateLists' /\ OneBatch'
           /\ phone'.list = l /\ phone'.adding = phone.adding /\ phone'.form = phone.form
           /\ phone'.busy = (phone.busy /\ ~BatchRead(reads[k]))
           /\ phone'.open = (phone.open /\ ~BatchRead(reads[k]))
  <1> DEFINE b == BatchRead(reads[k])
  <1>0. /\ GateFits /\ GateLists /\ OneBatch /\ phone \in PhoneState
        /\ Len(reads) \in Nat /\ DOMAIN reads = 1..Len(reads)
    BY ReadsFacts, PhoneFacts DEF GateInv
  <1>1. phone' = [phone EXCEPT !.busy = phone.busy /\ ~b, !.open = phone.open /\ ~b,
                               !.list = l]
    <2>1. Released(phone, reads[k].ends) =
             [phone EXCEPT !.busy = phone.busy /\ ~b, !.open = phone.open /\ ~b]
      BY <1>0 DEF Released, BatchRead
    <2>2. QED
      BY <2>1
  <1>2. b \in BOOLEAN
    BY DEF BatchRead
  <1> HIDE DEF b
  <1>3. /\ phone' \in PhoneState /\ phone'.list = l /\ phone'.detail = phone.detail
        /\ phone'.troop = phone.troop /\ phone'.created = phone.created
        /\ phone'.form = phone.form /\ phone'.adding = phone.adding
        /\ phone'.busy = (phone.busy /\ ~b) /\ phone'.open = (phone.open /\ ~b)
    BY <1>0, <1>1, <1>2 DEF PhoneState
  <1>4. GateFits'
    BY <1>0, <1>3 DEF GateFits, GateTypeOK, LoadsLeft
  <1>5. GateLists'
    <2>1. Shown' = l.roster /\ HereAreListed'
      BY <1>3 DEF Shown, HereAreListed
    <2>2. QED
      BY <1>0, <1>3, <2>1 DEF GateLists, LoadsLeft
  <1>6. OneBatch'
    <2>1. \A j \in DOMAIN reads' : BatchRead(reads'[j]) <=> BatchRead(reads[Before(k, j)])
      BY DEF LoadsLeft, BatchRead
    <2>2. \A i, j \in DOMAIN reads' : Before(k, i) = Before(k, j) => i = j
      BY <1>0, BeforeFacts
    <2>3. b => \A j \in DOMAIN reads' : ~BatchRead(reads'[j])
      BY <1>0, <2>1 DEF OneBatch, LoadsLeft, b
    <2>4. ASSUME NEW j \in DOMAIN reads', BatchRead(reads'[j])
          PROVE  /\ phone'.busy /\ phone'.adding = {} /\ phone'.created = {}
                 /\ \A i \in DOMAIN reads' : BatchRead(reads'[i]) => i = j
      BY <1>0, <1>3, <2>1, <2>2, <2>3, <2>4 DEF OneBatch, LoadsLeft
    <2>5. ~phone'.busy => phone'.adding = {} /\ phone'.created = {}
      BY <1>0, <1>2, <1>3 DEF OneBatch, b
    <2>6. QED
      BY <2>4, <2>5 DEF OneBatch
  <1>7. QED
    BY <1>3, <1>4, <1>5, <1>6 DEF b

LEMMA LoadFailsStep ==
    ASSUME GateInv, NEW k \in DOMAIN reads, LoadFails(k)
    PROVE  GateInv'
  <1> DEFINE l == phone.list
  <1>1. /\ phone' = Released(phone, reads[k].ends) /\ reads' = RemoveAt(reads, k)
        /\ misled' = (misled \/ BatchRead(reads[k])) /\ roster' = roster /\ marks' = marks
    BY DEF LoadFails, BatchRead
  <1>2. /\ GateInv /\ KnowsAdded /\ phone \in PhoneState /\ Shown.listed \subseteq roster.listed
        /\ HereAreListed /\ Len(reads) \in Nat /\ DOMAIN reads = 1..Len(reads)
        /\ misled \in BOOLEAN
    BY PhoneFacts, ReadsFacts DEF GateInv, GateLists, GateFits, GateTypeOK
  <1>3. phone' = [Released(phone, reads[k].ends) EXCEPT !.list = l]
    BY <1>1, <1>2 DEF Released, PhoneState
  <1>4. l \in Summary /\ l.roster.listed \subseteq roster.listed
        /\ (l.torn \/ l.roster.here \subseteq l.roster.listed)
    BY <1>2 DEF PhoneState, Shown, HereAreListed
  <1>5. /\ LoadsLeft(k) /\ DOMAIN reads' = 1..(Len(reads) - 1)
        /\ \A j \in DOMAIN reads' : reads'[j].late = reads[Before(k, j)].late
    BY <1>1, FailedFacts
  <1>6. misled' \in BOOLEAN
    BY <1>1 DEF BatchRead
  <1> HIDE DEF l
  <1>7. /\ GateFits' /\ GateLists' /\ OneBatch'
        /\ phone'.list = l /\ phone'.adding = phone.adding /\ phone'.form = phone.form
        /\ phone'.busy = (phone.busy /\ ~BatchRead(reads[k]))
        /\ phone'.open = (phone.open /\ ~BatchRead(reads[k]))
    BY <1>1, <1>3, <1>4, <1>5, <1>6, LoadKeeps
  <1>8. KnowsAdded'
    <2> SUFFICES ASSUME ~misled' PROVE KnowsAdded'
      BY DEF KnowsAdded
    <2>1. ~misled /\ ~BatchRead(reads[k])
      BY <1>1
    <2>2. \A x : Complete(x)' <=> Complete(x)
      BY <1>1 DEF Complete
    <2>3. \A w : NotListed(w)' <=> NotListed(w)
      BY <1>1 DEF NotListed
    <2>4. Shown' = Shown /\ (~phone'.busy => ~phone.busy) /\ (phone'.open => phone.open)
      BY <1>2, <1>7, <2>1 DEF Shown, l, PhoneState
    <2>5. \A j \in DOMAIN reads' : /\ Before(k, j) \in DOMAIN reads
                                   /\ reads'[j].listed = reads[Before(k, j)].listed
                                   /\ BatchRead(reads'[j]) => BatchRead(reads[Before(k, j)])
      BY <1>5 DEF LoadsLeft, BatchRead
    <2>6. \A i, j \in DOMAIN reads' : i <= j => Before(k, i) <= Before(k, j)
      BY <1>2, <1>5, BeforeFacts
    <2>7. \A j \in DOMAIN reads' : ~phone'.busy /\ ~reads'[j].late => Complete(reads'[j].listed)
      BY <1>2, <1>5, <2>1, <2>4, <2>5 DEF KnowsAdded
    <2>8. \A i, j \in DOMAIN reads' :
             BatchRead(reads'[i]) /\ i <= j => Complete(reads'[j].listed)
      BY <1>2, <2>1, <2>5, <2>6 DEF KnowsAdded
    <2>9. QED
      BY <1>1, <1>2, <1>7, <2>1, <2>2, <2>3, <2>4, <2>7, <2>8 DEF KnowsAdded
  <1>9. QED
    BY <1>7, <1>8 DEF GateInv

LEMMA LoadArrivesStep ==
    ASSUME GateInv, NEW k \in DOMAIN reads, LoadArrives(k)
    PROVE  GateInv'
  <1> DEFINE l == [roster |-> [listed |-> reads[k].listed, here |-> roster.here],
                   torn |-> reads[k].torn]
  <1>1. /\ phone' = [Released(phone, reads[k].ends) EXCEPT !.list = l]
        /\ reads' = Overtaken(k)
        /\ misled' = (misled \/ reads[k].late) /\ roster' = roster /\ marks' = marks
    BY DEF LoadArrives
  <1>2. /\ KnowsAdded /\ phone \in PhoneState /\ roster \in RosterState
        /\ roster.here \subseteq roster.listed /\ reads[k] \in Read
        /\ reads[k].listed \subseteq roster.listed
        /\ ~reads[k].torn => reads[k].listed = roster.listed
        /\ Len(reads) \in Nat /\ DOMAIN reads = 1..Len(reads) /\ misled \in BOOLEAN
    BY PhoneFacts, ReadsFacts DEF GateInv, GateLists, GateFits, GateTypeOK
  <1>3. /\ l \in Summary /\ l.roster.listed = reads[k].listed
        /\ (l.torn \/ l.roster.here \subseteq l.roster.listed)
    BY <1>2 DEF Summary, RosterState, Read
  <1>4. /\ LoadsLeft(k) /\ DOMAIN reads' = 1..(Len(reads) - 1)
        /\ \A j \in DOMAIN reads' :
              IF j < k THEN ~misled => reads'[j].late
              ELSE reads'[j].late = reads[Before(k, j)].late
    BY <1>1, OvertakenFacts
  <1>5. misled' \in BOOLEAN
    BY <1>1, <1>2 DEF Read
  <1> HIDE DEF l
  <1>6. /\ GateFits' /\ GateLists' /\ OneBatch'
        /\ phone'.list = l /\ phone'.adding = phone.adding /\ phone'.form = phone.form
        /\ phone'.busy = (phone.busy /\ ~BatchRead(reads[k]))
        /\ phone'.open = (phone.open /\ ~BatchRead(reads[k]))
    BY <1>1, <1>2, <1>3, <1>4, <1>5, LoadKeeps
  <1>7. KnowsAdded'
    <2> SUFFICES ASSUME ~misled' PROVE KnowsAdded'
      BY DEF KnowsAdded
    <2>1. ~misled /\ ~reads[k].late
      BY <1>1
    <2>2. \A x : Complete(x)' <=> Complete(x)
      BY <1>1 DEF Complete
    <2>3. \A w : NotListed(w)' <=> NotListed(w)
      BY <1>1 DEF NotListed
    <2>4. Shown'.listed = reads[k].listed
      BY <1>3, <1>6 DEF Shown
    <2>5. \A j \in DOMAIN reads' : /\ Before(k, j) \in DOMAIN reads
                                   /\ reads'[j].listed = reads[Before(k, j)].listed
                                   /\ BatchRead(reads'[j]) => BatchRead(reads[Before(k, j)])
      BY <1>4 DEF LoadsLeft, BatchRead
    <2>6. \A i, j \in DOMAIN reads' : i <= j => Before(k, i) <= Before(k, j)
      BY <1>2, <1>4, BeforeFacts
    <2>7. \A j \in DOMAIN reads' :
             ~reads'[j].late => ~(j < k) /\ ~reads[Before(k, j)].late /\ k <= Before(k, j)
      <3>1. \A j \in DOMAIN reads' : j \in Nat /\ k \in Nat
        BY <1>2, <1>4
      <3>2. \A j \in DOMAIN reads' : ~(j < k) => k <= Before(k, j)
        BY <3>1 DEF Before
      <3>3. QED
        BY <1>4, <2>1, <3>2
    <2>8. ~phone'.busy =>
             /\ Complete(reads[k].listed)
             /\ \A j \in DOMAIN reads' : ~reads'[j].late => Complete(reads'[j].listed)
      <3>1. CASE BatchRead(reads[k])
        <4>1. \A j \in DOMAIN reads : k <= j => Complete(reads[j].listed)
          BY <1>2, <2>1, <3>1 DEF KnowsAdded
        <4>2. k <= k
          BY <1>2
        <4>3. QED
          BY <2>5, <2>7, <4>1, <4>2
      <3>2. CASE ~BatchRead(reads[k])
        <4>1. ~phone'.busy => ~phone.busy
          BY <1>2, <1>6, <3>2 DEF PhoneState
        <4>2. QED
          BY <1>2, <2>1, <2>5, <2>7, <4>1 DEF KnowsAdded
      <3>3. QED
        BY <3>1, <3>2
    <2>9. \A i, j \in DOMAIN reads' :
             BatchRead(reads'[i]) /\ i <= j => Complete(reads'[j].listed)
      BY <1>2, <2>1, <2>5, <2>6 DEF KnowsAdded
    <2>10. ~phone'.busy /\ phone'.open => ~phone.busy /\ phone.open
      BY <1>2, <1>6 DEF PhoneState
    <2>11. QED
      BY <1>1, <1>2, <1>6, <2>1, <2>2, <2>3, <2>4, <2>8, <2>9, <2>10 DEF KnowsAdded
  <1>8. QED
    BY <1>6, <1>7 DEF GateInv

-----------------------------------------------------------------------------
(* Every step of the gate.                                                 *)

LEMMA GateInductive == GateInv /\ [GateNext]_gateVars => GateInv'
  BY DetailSteps, CheckInTroopStep, FormSteps, RowSteps, ConfirmStep, TroopSteps,
     CheckInAddedStep, OtherMarks, ColleagueAddsStep, AddNextStep, BatchFailsStep,
     AddAttendeesStep, BatchDoneStep, LoadFailsStep, LoadArrivesStep
  DEF GateNext, LoadFails, LoadArrives

\* The roster, the page and its loads are of their types.
THEOREM GateTypeCorrect == GateSpec => []GateTypeOK
  <1>1. GateInv => GateTypeOK
    BY DEF GateInv, GateFits
  <1>2. QED
    BY <1>1, GateInitInv, GateInductive, PTL DEF GateSpec

\* Nobody is added twice by a page whose loads and batches succeed, however
\* the loads are overtaken by batches and the modal is closed and opened while
\* handleAddAttendees runs: when its button comes back, the list has everybody.
THEOREM AddedOnceHolds == GateSpec => []AddedOnce
  <1>1. GateInv => AddedOnce
    <2> SUFFICES ASSUME GateInv, ~misled, NEW w \in Walkin
                 PROVE  Cardinality({r \in roster.listed : r[1] = w}) <= 1
      BY DEF AddedOnce
    <2> DEFINE Rows == {r \in roster.listed : r[1] = w}
    <2>1. \A q, r \in Rows : q = r
      BY DEF GateInv, KnowsAdded
    <2> HIDE DEF Rows
    <2>2. CASE Rows = {}
      <3>1. Cardinality(Rows) = 0
        BY <2>2, FS_EmptySet
      <3>2. QED
        BY <3>1 DEF Rows
    <2>3. CASE Rows # {}
      <3>1. PICK r \in Rows : Rows = {r}
        BY <2>1, <2>3
      <3>2. Cardinality(Rows) = 1
        BY <3>1, FS_Singleton
      <3>3. QED
        BY <3>2 DEF Rows
    <2>4. QED
      BY <2>2, <2>3
  <1>2. QED
    BY <1>1, GateInitInv, GateInductive, PTL DEF GateSpec

\* The arrivals of a summary are of people in its list, though the list is
\* read before the arrivals, unless a row was inserted between the two.
THEOREM HereAreListedHolds == GateSpec => []HereAreListed
  <1>1. GateInv => HereAreListed
    BY DEF GateInv, GateLists
  <1>2. QED
    BY <1>1, GateInitInv, GateInductive, PTL DEF GateSpec

-----------------------------------------------------------------------------
(* Both together.                                                          *)

\* What a step does to the roster is a step of the import or of the gate, and
\* leaves the other as it is.
LEMMA RosterSteps ==
    ASSUME [RosterPagesNext]_rosterVars
    PROVE  [Next]_vars /\ [GateNext]_gateVars /\ atGate' = atGate
  <1>1. CASE UNCHANGED rosterVars
    BY <1>1 DEF rosterVars
  <1>2. CASE RosterPagesNext
    BY <1>2 DEF RosterPagesNext
  <1>3. QED
    BY <1>1, <1>2

\* The roster's pages implement both specifications: before the event and at
\* the gate, every step is one that the import's or the gate's module has.
THEOREM RosterPagesImplement == RosterPagesSpec => Spec /\ GateSpec
  <1>1. RosterPagesInit => Init /\ GateInit
    BY DEF RosterPagesInit
  <1>2. [RosterPagesNext]_rosterVars => [Next]_vars /\ [GateNext]_gateVars
    BY RosterSteps
  <1>3. QED
    BY <1>1, <1>2, PTL DEF RosterPagesSpec, Spec, GateSpec

\* Before the event and at the gate, the attendees' rows, the plans and
\* requests that hold copies of them, and the page are of their types.
THEOREM RosterPagesTypeCorrect == RosterPagesSpec => []RosterPagesTypeOK
  <1>1. RosterPagesInit => atGate \in BOOLEAN
    BY DEF RosterPagesInit
  <1>2. atGate \in BOOLEAN /\ [RosterPagesNext]_rosterVars => (atGate \in BOOLEAN)'
    BY RosterSteps
  <1>3. atGate \in BOOLEAN /\ TypeOK /\ GateTypeOK => RosterPagesTypeOK
    BY DEF RosterPagesTypeOK
  <1>4. RosterPagesSpec => [](atGate \in BOOLEAN)
    BY <1>1, <1>2, PTL DEF RosterPagesSpec
  <1>5. RosterPagesSpec => []TypeOK /\ []GateTypeOK
    BY RosterPagesImplement, TypeCorrect, GateTypeCorrect
  <1>6. QED
    BY <1>3, <1>4, <1>5, PTL

\* What is proved of the import and of the gate holds of the roster throughout.
THEOREM RosterPagesSafe ==
    RosterPagesSpec =>
        /\ [](/\ OrdinalsContiguous /\ SecondNeedsLow /\ KnownRowsUpdate
              /\ AddedOnce /\ HereAreListed)
        /\ StatusUndoneByStale
  <1>1. RosterPagesSpec => /\ []OrdinalsContiguous /\ []SecondNeedsLow /\ []KnownRowsUpdate
                           /\ []AddedOnce /\ []HereAreListed /\ StatusUndoneByStale
    BY RosterPagesImplement, OrdinalsContiguousHolds, SecondNeedsLowHolds,
       KnownRowsUpdateHolds, AddedOnceHolds, HereAreListedHolds, StatusUndoneByStaleHolds
  <1>2. QED
    BY <1>1, PTL

=============================================================================
