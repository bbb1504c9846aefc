--------------------------- MODULE Finalizer_proofs ---------------------------
(***************************************************************************)
(* Proofs about the replacement of finalized results and about the page    *)
(* that saves them, for any number of organizers, result lines, settings,  *)
(* loads and saves.                                                        *)
(*                                                                         *)
(* AnsweredIsWhole and StaleNeedsOverlap are about the table; what makes   *)
(* them inductive is what the requests in flight still owe: the newest     *)
(* save has inserted every line it no longer has to insert, and a request  *)
(* in flight was seen by every DELETE after its own.                       *)
(*                                                                         *)
(* Whatever the page does, the table sees saves as FinalizedResults has    *)
(* them, so what is proved there holds here.  And as long as there was no  *)
(* trouble, a page that may save shows its own event, loaded whole.        *)
(*                                                                         *)
(* A report is of the screen (ReportOfScreen) because what a page or a     *)
(* load found stored remains stored while the newest save is the one it    *)
(* knew and did not begin over another: that save is then alone (Newest-   *)
(* Alone), and has nothing left to insert (CurrentIsDone).                 *)
(***************************************************************************)
EXTENDS Finalizer, SequenceTheorems, TLAPS

Busy(c) == saving[c].save # 0

\* A request in flight works on a save of its own that nobody was told of.
Owned ==
    \A c \in Saver :
        /\ ~Busy(c) => saving[c].left = {}
        /\ Busy(c) => /\ saving[c].save \in 1..Newest
                      /\ ~log[saving[c].save].answered
                      /\ \A d \in Saver \ {c} : saving[d].save # saving[c].save

\* Every row was written by a save that has begun.
Written == \A r \in rows : r.save \in 1..Newest

\* Every later DELETE saw the requests that are still in flight.
Seen ==
    \A c \in Saver : Busy(c) =>
        \A k \in (saving[c].save + 1)..Newest : saving[c].save \in log[k].flying

\* The newest save has inserted what it does not still have to insert.
Progress ==
    \A c \in Saver : saving[c].save = Newest /\ Busy(c) =>
        \A l \in log[Newest].lines \ saving[c].left : [line |-> l, save |-> Newest] \in rows

IInv ==
    TypeOK /\ Owned /\ Written /\ Seen /\ Progress /\ AnsweredIsWhole /\ StaleNeedsOverlap

-----------------------------------------------------------------------------

\* In flight is having a save: the idle record is the only one without.
LEMMA BusyIsNotIdle ==
    ASSUME TypeOK, Owned, NEW c \in Saver
    PROVE  saving[c] # Idle <=> Busy(c)
  BY DEF TypeOK, Owned, Busy, Idle, Request

LEMMA IInvInit == Init => IInv
  <1> SUFFICES ASSUME Init PROVE IInv
    OBVIOUS
  <1> USE DEF Init, Idle, Newest
  <1>1. Len(log) = 0 /\ log \in Seq(Save)
    BY EmptySeq
  <1>2. TypeOK
    BY <1>1 DEF TypeOK, Request
  <1>3. QED
    BY <1>1, <1>2
       DEF IInv, Owned, Busy, Written, Seen, Progress, AnsweredIsWhole, StaleNeedsOverlap

LEMMA StartStep ==
    ASSUME IInv, NEW c \in Saver, NEW lines \in SUBSET Line, Start(c, lines)
    PROVE  IInv'
  <1> DEFINE s == [lines |-> lines, flying |-> InFlight, answered |-> FALSE]
  <1>1. saving \in [Saver -> Request] /\ log \in Seq(Save) /\ Newest \in Nat
    BY LenProperties DEF IInv, TypeOK, Newest
  <1>2. /\ rows' = {} /\ log' = Append(log, s)
        /\ saving' = [saving EXCEPT ![c] = [save |-> Newest + 1, left |-> lines]]
        /\ ~Busy(c)
    BY BusyIsNotIdle DEF Start, Enter, IInv
  <1>3. InFlight \in SUBSET Nat
    BY <1>1 DEF InFlight, Request
  <1>4. s \in Save
    BY <1>3 DEF Save
  <1>5. /\ log' \in Seq(Save) /\ Newest' = Newest + 1
        /\ \A k \in 1..Newest : log'[k] = log[k]
        /\ log'[Newest + 1] = s
    BY <1>1, <1>2, <1>4, AppendProperties, LenProperties DEF Newest
  <1>6. /\ saving' \in [Saver -> Request]
        /\ saving'[c] = [save |-> Newest + 1, left |-> lines]
        /\ \A d \in Saver \ {c} : saving'[d] = saving[d]
    BY <1>1, <1>2 DEF Request
  <1>7. TypeOK'
    BY <1>2, <1>5, <1>6 DEF TypeOK
  <1>8. Owned'
    <2>1. \A d \in Saver \ {c} : saving[d].save # Newest + 1
      BY <1>1 DEF IInv, Owned, Busy
    <2>2. ASSUME NEW d \in Saver
          PROVE  /\ ~Busy(d)' => saving'[d].left = {}
                 /\ Busy(d)' => /\ saving'[d].save \in 1..Newest'
                               /\ ~log'[saving'[d].save].answered
                               /\ \A e \in Saver \ {d} : saving'[e].save # saving'[d].save
      <3>1. CASE d = c
        <4>1. saving'[d].save = Newest + 1 /\ Newest + 1 # 0 /\ Newest + 1 \in 1..Newest'
          BY <1>1, <1>5, <1>6, <3>1
        <4>2. log'[saving'[d].save] = s /\ ~s.answered
          BY <1>5, <4>1
        <4>3. \A e \in Saver \ {d} : saving'[e].save # saving'[d].save
          BY <1>6, <2>1, <3>1, <4>1
        <4>4. QED
          BY <4>1, <4>2, <4>3, Zenon DEF Busy
      <3>2. CASE d # c
        <4>1. saving'[d] = saving[d] /\ (Busy(d)' <=> Busy(d))
          BY <1>6, <3>2 DEF Busy
        <4>2. /\ ~Busy(d) => saving[d].left = {}
              /\ Busy(d) => /\ saving[d].save \in 1..Newest
                           /\ ~log[saving[d].save].answered
                           /\ \A e \in Saver \ {d} : saving[e].save # saving[d].save
          BY Zenon DEF IInv, Owned
        <4>3. saving[d].save \in 1..Newest =>
                 /\ saving[d].save \in 1..Newest'
                 /\ log'[saving[d].save] = log[saving[d].save]
          BY <1>1, <1>5
        <4>4. \A e \in Saver \ {d} :
                 saving[e].save # saving[d].save => saving'[e].save # saving[d].save
          BY <1>6, <2>1, <3>2
        <4>5. QED
          BY <4>1, <4>2, <4>3, <4>4, Zenon
      <3>3. QED
        BY <3>1, <3>2
    <2>3. QED
      BY <2>2, Zenon DEF Owned
  <1>9. Seen'
    <2>1. \A d \in Saver \ {c} : Busy(d) => saving[d].save \in InFlight
      BY BusyIsNotIdle DEF InFlight, IInv
    <2>2. ASSUME NEW d \in Saver, Busy(d)', NEW k \in (saving'[d].save + 1)..Newest'
          PROVE  saving'[d].save \in log'[k].flying
      <3>1. d # c
        BY <1>1, <1>5, <1>6, <2>2
      <3>2. saving'[d] = saving[d] /\ Busy(d)
        BY <1>6, <2>2, <3>1 DEF Busy
      <3>3. saving[d].save \in 1..Newest
        BY <3>2 DEF IInv, Owned
      <3>4. CASE k = Newest + 1
        BY <1>5, <2>1, <3>1, <3>2, <3>4
      <3>5. CASE k \in (saving[d].save + 1)..Newest
        BY <1>1, <1>5, <3>2, <3>3, <3>5 DEF IInv, Seen
      <3>6. QED
        BY <1>1, <1>5, <2>2, <3>2, <3>3, <3>4, <3>5
    <2>3. QED
      BY <2>2 DEF Seen
  <1>10. Progress'
    <2>1. \A d \in Saver \ {c} : saving[d].save # Newest + 1
      BY <1>1 DEF IInv, Owned, Busy
    <2>2. log'[Newest'].lines = lines /\ saving'[c].left = lines
      BY <1>5, <1>6
    <2>3. QED
      BY <1>5, <1>6, <2>1, <2>2 DEF Progress
  <1>11. AnsweredIsWhole'
    BY <1>5 DEF AnsweredIsWhole
  <1>12. Written' /\ StaleNeedsOverlap'
    BY <1>2 DEF Written, StaleNeedsOverlap
  <1>13. QED
    BY <1>7, <1>8, <1>9, <1>10, <1>11, <1>12 DEF IInv

LEMMA InsertStep ==
    ASSUME IInv, NEW c \in Saver, Insert(c)
    PROVE  IInv'
  <1>1. PICK l \in saving[c].left :
            /\ rows' = rows \cup {[line |-> l, save |-> saving[c].save]}
            /\ saving' = [saving EXCEPT ![c].left = @ \ {l}]
    BY DEF Insert
  <1>2. log' = log /\ Newest' = Newest
    BY DEF Insert, Newest
  <1>3. saving \in [Saver -> Request] /\ log \in Seq(Save) /\ Newest \in Nat
    BY LenProperties DEF IInv, TypeOK, Newest
  <1>4. Busy(c) /\ saving[c].save \in 1..Newest
    BY DEF IInv, Owned
  <1>5. l \in Line /\ saving[c].left \subseteq Line
    BY <1>1, <1>3 DEF Request
  <1>6. /\ saving' \in [Saver -> Request]
        /\ saving'[c] = [save |-> saving[c].save, left |-> saving[c].left \ {l}]
        /\ \A d \in Saver \ {c} : saving'[d] = saving[d]
    BY <1>1, <1>3, <1>5 DEF Request
  <1>7. [line |-> l, save |-> saving[c].save] \in Row
    BY <1>3, <1>4, <1>5 DEF Row
  <1>8. TypeOK'
    BY <1>1, <1>2, <1>6, <1>7 DEF IInv, TypeOK
  <1>9. Owned' /\ Seen'
    BY <1>2, <1>4, <1>6 DEF IInv, Owned, Seen, Busy
  <1>10. Written'
    BY <1>1, <1>2, <1>4 DEF IInv, Written
  <1>11. Progress'
    <2>1. ASSUME NEW d \in Saver, saving'[d].save = Newest', Busy(d)',
                 NEW k \in log'[Newest'].lines \ saving'[d].left
          PROVE  [line |-> k, save |-> Newest'] \in rows'
      <3>1. saving[d].save = Newest /\ Busy(d) /\ k \in log[Newest].lines
        BY <1>2, <1>6, <2>1 DEF Busy
      <3>2. CASE k \in saving[d].left
        <4>1. d = c /\ k = l
          BY <1>6, <2>1, <3>2
        <4>2. QED
          BY <1>1, <1>2, <3>1, <4>1
      <3>3. CASE k \notin saving[d].left
        <4>1. [line |-> k, save |-> Newest] \in rows
          BY <3>1, <3>3 DEF IInv, Progress
        <4>2. QED
          BY <1>1, <1>2, <4>1
      <3>4. QED
        BY <3>2, <3>3
    <2>2. QED
      BY <2>1 DEF Progress
  <1>12. AnsweredIsWhole'
    BY <1>1, <1>2 DEF IInv, AnsweredIsWhole
  <1>13. StaleNeedsOverlap'
    BY <1>1, <1>2, <1>4 DEF IInv, StaleNeedsOverlap, Seen
  <1>14. QED
    BY <1>8, <1>9, <1>10, <1>11, <1>12, <1>13 DEF IInv

LEMMA AnswerStep ==
    ASSUME IInv, NEW c \in Saver, Answer(c)
    PROVE  IInv'
  <1> DEFINE n == saving[c].save
  <1>1. /\ rows' = rows /\ saving' = [saving EXCEPT ![c] = Idle]
        /\ log' = [log EXCEPT ![n] = [log[n] EXCEPT !.answered = TRUE]]
        /\ Busy(c) /\ saving[c].left = {}
    BY BusyIsNotIdle DEF Answer, IInv
  <1>2. saving \in [Saver -> Request] /\ log \in Seq(Save) /\ Newest \in Nat
    BY LenProperties DEF IInv, TypeOK, Newest
  <1>3. n \in 1..Newest
    BY <1>1 DEF IInv, Owned
  <1>4. DOMAIN log = 1..Newest /\ log[n] \in Save
    BY <1>2, <1>3, LenProperties, ElementOfSeq DEF Newest
  <1>5. [log[n] EXCEPT !.answered = TRUE] \in Save
    BY <1>4 DEF Save
  <1>6. /\ log' \in Seq(Save) /\ Newest' = Newest
        /\ log'[n] = [log[n] EXCEPT !.answered = TRUE]
        /\ \A k \in 1..Newest : k # n => log'[k] = log[k]
    <2>1. n \in DOMAIN log
      BY <1>3, <1>4
    <2>2. [log EXCEPT ![n] = [log[n] EXCEPT !.answered = TRUE]] \in Seq(Save)
      BY <1>2, <1>5, <2>1, ExceptSeq
    <2>3. Len([log EXCEPT ![n] = [log[n] EXCEPT !.answered = TRUE]]) = Len(log)
      BY <1>2, <1>5, <2>1, ExceptSeq
    <2>4. log' \in Seq(Save) /\ Newest' = Newest
      BY <1>1, <2>2, <2>3 DEF Newest
    <2>5. QED
      BY <1>1, <1>4, <2>1, <2>4
  <1>7. \A k \in 1..Newest : log'[k].flying = log[k].flying /\ log'[k].lines = log[k].lines
    BY <1>4, <1>6 DEF Save
  <1>8. /\ saving' \in [Saver -> Request] /\ saving'[c] = Idle
        /\ \A d \in Saver \ {c} : saving'[d] = saving[d]
    BY <1>1, <1>2 DEF Request, Idle
  <1>9. TypeOK'
    BY <1>1, <1>6, <1>8 DEF IInv, TypeOK
  <1>10. Owned'
    <2>1. ASSUME NEW d \in Saver
          PROVE  /\ ~Busy(d)' => saving'[d].left = {}
                 /\ Busy(d)' => /\ saving'[d].save \in 1..Newest'
                               /\ ~log'[saving'[d].save].answered
                               /\ \A e \in Saver \ {d} : saving'[e].save # saving'[d].save
      <3>1. CASE d = c
        BY <1>8, <3>1 DEF Busy, Idle
      <3>2. CASE d # c
        <4>1. saving'[d] = saving[d] /\ (Busy(d)' <=> Busy(d))
          BY <1>8, <3>2 DEF Busy
        <4>2. /\ ~Busy(d) => saving[d].left = {}
              /\ Busy(d) => /\ saving[d].save \in 1..Newest
                           /\ ~log[saving[d].save].answered
                           /\ \A e \in Saver \ {d} : saving[e].save # saving[d].save
          BY Zenon DEF IInv, Owned
        <4>3. Busy(d) => saving[d].save # n
          BY <1>1, <3>2 DEF IInv, Owned
        <4>4. Busy(d) => log'[saving[d].save] = log[saving[d].save]
          BY <1>6, <4>2, <4>3
        <4>5. Busy(d) => \A e \in Saver \ {d} : saving'[e].save # saving[d].save
          BY <1>8, <4>2 DEF Busy, Idle
        <4>6. Newest' = Newest
          BY <1>6
        <4>7. QED
          BY <4>1, <4>2, <4>4, <4>5, <4>6, Zenon
      <3>3. QED
        BY <3>1, <3>2
    <2>2. QED
      BY <2>1, Zenon DEF Owned
  <1>11. Seen'
    <2>1. ASSUME NEW d \in Saver, Busy(d)', NEW k \in (saving'[d].save + 1)..Newest'
          PROVE  saving'[d].save \in log'[k].flying
      <3>1. d # c /\ saving'[d] = saving[d] /\ Busy(d)
        BY <1>8, <2>1 DEF Busy, Idle
      <3>2. saving[d].save \in Nat /\ k \in 1..Newest
        BY <1>2, <1>6, <2>1, <3>1 DEF Request
      <3>3. saving[d].save \in log[k].flying
        BY <1>6, <2>1, <3>1 DEF IInv, Seen
      <3>4. QED
        BY <1>7, <3>1, <3>2, <3>3
    <2>2. QED
      BY <2>1 DEF Seen
  <1>12. Written'
    BY <1>1, <1>6 DEF IInv, Written
  <1>13. StaleNeedsOverlap'
    BY <1>1, <1>2, <1>6, <1>7 DEF IInv, Written, StaleNeedsOverlap
  <1>14. Progress'
    BY <1>1, <1>3, <1>6, <1>7, <1>8 DEF IInv, Progress, Busy, Idle
  <1>15. AnsweredIsWhole'
    <2>1. CASE n = Newest
      BY <1>1, <1>3, <1>6, <1>7, <2>1 DEF IInv, AnsweredIsWhole, Progress
    <2>2. CASE n # Newest
      BY <1>1, <1>2, <1>3, <1>6, <1>7, <2>2 DEF IInv, AnsweredIsWhole
    <2>3. QED
      BY <2>1, <2>2
  <1>16. QED
    BY <1>9, <1>10, <1>11, <1>12, <1>13, <1>14, <1>15 DEF IInv

LEMMA AbortStep ==
    ASSUME IInv, NEW c \in Saver, Abort(c)
    PROVE  IInv'
  <1>1. rows' = rows /\ log' = log /\ Newest' = Newest
    BY DEF Abort, Newest
  <1>2. saving \in [Saver -> Request]
    BY DEF IInv, TypeOK
  <1>3. /\ saving' \in [Saver -> Request] /\ saving'[c] = Idle
        /\ \A d \in Saver \ {c} : saving'[d] = saving[d]
    BY <1>2 DEF Abort, Request, Idle
  <1>4. \A d \in Saver : Busy(d)' => Busy(d) /\ saving'[d] = saving[d]
    BY <1>3 DEF Busy, Idle
  <1>5. TypeOK' /\ Written' /\ AnsweredIsWhole' /\ StaleNeedsOverlap'
    BY <1>1, <1>3 DEF IInv, TypeOK, Written, AnsweredIsWhole, StaleNeedsOverlap
  <1>6. Owned'
    <2>1. ASSUME NEW d \in Saver
          PROVE  /\ ~Busy(d)' => saving'[d].left = {}
                 /\ Busy(d)' => /\ saving'[d].save \in 1..Newest'
                               /\ ~log'[saving'[d].save].answered
                               /\ \A e \in Saver \ {d} : saving'[e].save # saving'[d].save
      <3>1. CASE d = c
        BY <1>3, <3>1 DEF Busy, Idle
      <3>2. CASE d # c
        <4>1. saving'[d] = saving[d] /\ (Busy(d)' <=> Busy(d))
          BY <1>3, <3>2 DEF Busy
        <4>2. /\ ~Busy(d) => saving[d].left = {}
              /\ Busy(d) => /\ saving[d].save \in 1..Newest
                           /\ ~log[saving[d].save].answered
                           /\ \A e \in Saver \ {d} : saving[e].save # saving[d].save
          BY Zenon DEF IInv, Owned
        <4>3. Busy(d) => \A e \in Saver \ {d} : saving'[e].save # saving[d].save
          BY <1>3, <4>2 DEF Busy, Idle
        <4>4. QED
          BY <1>1, <4>1, <4>2, <4>3, Zenon
      <3>3. QED
        BY <3>1, <3>2
    <2>2. QED
      BY <2>1, Zenon DEF Owned
  <1>7. Seen'
    BY <1>1, <1>4 DEF IInv, Seen
  <1>8. Progress'
    BY <1>1, <1>4 DEF IInv, Progress
  <1>9. QED
    BY <1>5, <1>6, <1>7, <1>8 DEF IInv

LEMMA IInvStep == IInv /\ [Next]_vars => IInv'
  <1> SUFFICES ASSUME IInv, [Next]_vars
               PROVE  IInv'
    OBVIOUS
  <1>1. CASE UNCHANGED vars
    BY <1>1 DEF vars, IInv, TypeOK, Owned, Written, Seen, Progress, AnsweredIsWhole,
                StaleNeedsOverlap, Busy, Newest
  <1>2. ASSUME NEW c \in Saver,
               \/ \E lines \in SUBSET Line : Start(c, lines)
               \/ Insert(c) \/ Answer(c) \/ Abort(c)
        PROVE  IInv'
    BY <1>2, StartStep, InsertStep, AnswerStep, AbortStep
  <1>3. QED
    BY <1>1, <1>2 DEF Next

\* The state of the saves keeps its type.
THEOREM TypeCorrect == Spec => []TypeOK
  <1>1. IInv => TypeOK
    BY DEF IInv
  <1>2. QED
    BY IInvInit, IInvStep, <1>1, PTL DEF Spec

\* However many organizers save at once and wherever they fail, the newest
\* save that was answered "saved" is in the table completely.
THEOREM AnsweredIsWholeHolds == Spec => []AnsweredIsWhole
  <1>1. IInv => AnsweredIsWhole
    BY DEF IInv
  <1>2. QED
    BY IInvInit, IInvStep, <1>1, PTL DEF Spec

\* Results of two saves are mixed only if the saves overlapped.
THEOREM StaleNeedsOverlapHolds == Spec => []StaleNeedsOverlap
  <1>1. IInv => StaleNeedsOverlap
    BY DEF IInv
  <1>2. QED
    BY IInvInit, IInvStep, <1>1, PTL DEF Spec

-----------------------------------------------------------------------------
(* The page and its colleagues keep the contract of the table.             *)

LEMMA LinesAreLines == \A e : LinesOf(e) \in SUBSET Line
  BY PageAssumption DEF LinesOf

LEMMA FinalizerStep == FinalizerNext => [Next]_vars
  <1> SUFFICES ASSUME FinalizerNext PROVE [Next]_vars
    OBVIOUS
  <1> USE PageAssumption
  <1>1. CASE \/ (\E e \in Event : SwitchEvent(e)) \/ Refresh \/ LoadArrives \/ LoadFails \/ Edit
             \/ GenerateReport
    BY <1>1 DEF SwitchEvent, Refresh, LoadArrives, Loaded, LoadFails, Edit, GenerateReport,
                OnPage, vars
  <1>2. CASE PressSave \/ AskReport
    BY <1>2, LinesAreLines DEF PressSave, AskReport, Send, Next
  <1>3. CASE PageInsert \/ SaveAnswered \/ SaveFails
    BY <1>3 DEF PageInsert, SaveAnswered, SaveFails, Next
  <1>4. ASSUME NEW c \in Saver \ {Organizer}, OtherOrganizer(c) PROVE [Next]_vars
    BY <1>4 DEF OtherOrganizer, Next
  <1> QED  BY <1>1, <1>2, <1>3, <1>4 DEF FinalizerNext

(***************************************************************************)
(* The Finalizer page and any number of colleagues implement               *)
(* FinalizedResults: each of their steps is a step of a save's statements  *)
(* or leaves the table and the requests alone.                             *)
(***************************************************************************)
THEOREM FinalizerKeepsContract == FinalizerSpec => Spec
  <1>1. PageInit => Init
    BY DEF PageInit
  <1>2. [FinalizerNext]_pageVars => [Next]_vars
    BY FinalizerStep DEF pageVars, vars
  <1> QED  BY <1>1, <1>2, PTL DEF FinalizerSpec, Spec

(***************************************************************************)
(* A save that was answered "saved" and is the newest is in the table      *)
(* completely, whatever the pages do (POST /v1/scores/finalized).          *)
(***************************************************************************)
THEOREM FinalizerAnsweredIsWhole == FinalizerSpec => []AnsweredIsWhole
  BY FinalizerKeepsContract, AnsweredIsWholeHolds

-----------------------------------------------------------------------------
(* What a page that may save shows.                                        *)

\* The page is well-formed, and the sheet of each save is known.
PageTyped ==
    /\ page \in PageState
    /\ sheets \in Seq(Sheet \cup {"blind", "none"}) /\ Len(sheets) = Newest
    /\ trouble \in BOOLEAN

LEMMA PageLogTyped ==
    ASSUME IInv, PageTyped
    PROVE  /\ log \in Seq(Save) /\ Newest \in Nat
           /\ DOMAIN log = 1..Newest /\ DOMAIN sheets = 1..Newest
           /\ \A k \in 1..Newest : sheets[k] \in Sheet \cup {"blind", "none"}
  BY DEF IInv, TypeOK, PageTyped, Newest

LEMMA LoadTyped ==
    ASSUME IInv, PageTyped, NEW e \in Event
    PROVE  Load(e) \in [of : Event, stored : Found, known : Nat]
  <1>1. Stored \in Found
    <2>1. ASSUME NEW k \in DOMAIN log, rows = {[line |-> l, save |-> k] : l \in Own}, rows # {}
          PROVE  sheets[(CHOOSE r \in rows : TRUE).save] \in Found
      <3>1. (CHOOSE r \in rows : TRUE) \in rows
        BY <2>1
      <3>2. \A r \in rows : r.save = k
        BY <2>1
      <3>3. (CHOOSE r \in rows : TRUE).save = k
        BY <3>1, <3>2
      <3> QED  BY <2>1, <3>3, PageLogTyped DEF Found
    <2> QED  BY <2>1 DEF Stored, Found
  <1> QED  BY <1>1, PageLogTyped DEF Load, Found

LEMMA PageTypedStep ==
    ASSUME IInv, PageTyped, FinalizerNext
    PROVE  PageTyped'
  <1> USE DEF PageTyped
  <1>1. page \in PageState /\ Newest \in Nat
    BY PageLogTyped
  <1>2. ASSUME NEW e \in Event, NEW n \in Event,
               page' = [page EXCEPT !.event = n, !.loads = @ \cup {Load(e)}, !.loading = TRUE]
        PROVE  page' \in PageState
    BY <1>1, <1>2, LoadTyped DEF PageState
  <1>3. ASSUME NEW e \in Event, SwitchEvent(e) PROVE PageTyped'
    BY <1>2, <1>3 DEF SwitchEvent, OnPage, Newest
  <1>4. CASE Refresh
    <2>1. page.event \in Event
      BY <1>1 DEF PageState
    <2>2. page' = [page EXCEPT !.loads = @ \cup {Load(page.event)}, !.loading = TRUE]
      BY <1>4 DEF Refresh, OnPage
    <2>3. page' \in PageState
      BY <1>1, <2>1, <2>2, LoadTyped DEF PageState
    <2> QED  BY <1>4, <2>3 DEF Refresh, OnPage, Newest
  <1>5. CASE LoadArrives
    <2>0. PICK l \in page.loads, b \in BOOLEAN : Loaded(l, b) /\ trouble' = (trouble \/ b)
      BY <1>5 DEF LoadArrives
    <2>1. PICK s \in Sheet, f \in Gets(l) :
             /\ OnPage([page EXCEPT !.shown = l.of, !.sheet = s, !.blind = b,
                            !.stored = f, !.known = l.known,
                            !.loads = @ \ {l}, !.loading = FALSE,
                            !.edited = @ \/ PageBusy])
             /\ trouble' = (trouble \/ b)
      BY <2>0 DEF Loaded
    <2>2. l \in [of : Event, stored : Found, known : Nat] /\ f \in Found
      BY <1>1, <2>1 DEF PageState, Gets, Found
    <2>3. page' \in PageState
      BY <1>1, <2>1, <2>2 DEF OnPage, PageState
    <2> QED  BY <2>1, <2>3 DEF OnPage, Newest
  <1>6. CASE LoadFails
    <2>1. page' \in PageState
      BY <1>1, <1>6 DEF LoadFails, OnPage, PageState
    <2>2. trouble' = TRUE /\ UNCHANGED <<log, sheets>>
      BY <1>6 DEF LoadFails, OnPage
    <2> QED  BY <2>1, <2>2 DEF Newest
  <1>7. CASE Edit
    BY <1>1, <1>7 DEF Edit, Edited, OnPage, PageState, Newest
  <1>8. ASSUME NEW g \in BOOLEAN, Send(g) PROVE PageTyped'
    <2>1. page' \in PageState
      BY <1>1, <1>8 DEF Send, PageState
    <2>2. Screen \in Sheet \cup {"blind", "none"}
      BY <1>1 DEF Screen, PageState
    <2>3. Newest' = Newest + 1
      BY <1>8, PageLogTyped DEF Send, Start, Enter, Newest
    <2>4. sheets' = Append(sheets, Screen) /\ trouble' = trouble
      BY <1>8 DEF Send
    <2> QED  BY <2>1, <2>2, <2>3, <2>4
  <1>9. CASE GenerateReport \/ PageInsert
    BY <1>9 DEF GenerateReport, PageInsert, Insert, Newest
  <1>10. CASE SaveAnswered
    <2>1. saving[Organizer].save \in 1..Newest
      BY <1>10, PageAssumption, BusyIsNotIdle DEF SaveAnswered, Answer, IInv, Owned
    <2>2. OfSave(saving[Organizer].save) \in Found
      BY <2>1, PageLogTyped DEF OfSave, Found
    <2>3. page' \in PageState
      <3> DEFINE k == saving[Organizer].save
      <3> DEFINE o == OfSave(k)
      <3>1. page' = [page EXCEPT !.stored = o, !.known = k, !.goOn = FALSE, !.edited = FALSE]
        BY <1>10 DEF SaveAnswered
      <3>2. k \in Nat /\ o \in Found
        BY <1>1, <2>1, <2>2
      <3> HIDE DEF k, o
      <3> QED  BY <1>1, <3>1, <3>2 DEF PageState
    <2>4. Newest' = Newest
      BY <1>10, PageLogTyped DEF SaveAnswered, Answer, Newest
    <2> QED  BY <1>10, <2>3, <2>4 DEF SaveAnswered
  <1>11. CASE SaveFails
    BY <1>1, <1>11 DEF SaveFails, Abort, PageState, Newest
  <1>12. ASSUME NEW c \in Saver \ {Organizer}, OtherOrganizer(c) PROVE PageTyped'
    <2>1. CASE \E s \in Sheet : Start(c, Own) /\ sheets' = Append(sheets, s)
      <3>1. Newest' = Newest + 1
        BY <2>1, PageLogTyped DEF Start, Enter, Newest
      <3> QED  BY <1>12, <2>1, <3>1 DEF OtherOrganizer
    <2>2. CASE (Insert(c) \/ Answer(c) \/ Abort(c)) /\ UNCHANGED sheets
      <3>1. Newest' = Newest
        BY <2>2, PageLogTyped DEF Insert, Answer, Abort, Newest
      <3> QED  BY <1>12, <2>2, <3>1 DEF OtherOrganizer
    <2> QED  BY <1>12, <2>1, <2>2 DEF OtherOrganizer
  <1> QED
    BY <1>3, <1>4, <1>5, <1>6, <1>7, <1>8, <1>9, <1>10, <1>11, <1>12
       DEF FinalizerNext, PressSave, AskReport

-----------------------------------------------------------------------------
(* Without trouble.                                                        *)

\* At most one load is on its way, for the event selected now, and only then
\* are the buttons disabled.  Nothing shown was computed without a report, and
\* every save so far is of this event's lines and of a sheet.
Calm ==
    /\ \A l \in page.loads : l.of = page.event /\ \A m \in page.loads : m = l
    /\ ~page.loading => page.loads = {} /\ page.shown = page.event
    /\ ~page.blind
    /\ \A k \in 1..Newest : log[k].lines = Own /\ sheets[k] # "blind"

CalmInv == trouble \/ Calm

LEMMA CalmStep ==
    ASSUME IInv, PageTyped, CalmInv, FinalizerNext
    PROVE  CalmInv'
  <1>1. trouble => trouble'
    BY DEF FinalizerNext, SwitchEvent, Refresh, LoadArrives, LoadFails, Edit, PressSave,
           AskReport, Send, GenerateReport, PageInsert, SaveAnswered, SaveFails,
           OtherOrganizer, PageTyped
  <1> SUFFICES ASSUME ~trouble' PROVE Calm'
    BY DEF CalmInv
  <1>2. Calm /\ page \in PageState /\ ~trouble
    BY <1>1 DEF CalmInv, PageTyped
  <1>3. ASSUME page'.loads = page.loads, page'.event = page.event, page'.loading = page.loading,
               page'.shown = page.shown, page'.blind = page.blind,
               Newest' = Newest, sheets' = sheets,
               \A k \in 1..Newest : log'[k].lines = log[k].lines
        PROVE  Calm'
    BY <1>2, <1>3 DEF Calm
  <1>4. ASSUME NEW sheet \in Sheet \cup {"none"}, Newest' = Newest + 1, log'[Newest + 1].lines = Own,
               sheets' = Append(sheets, sheet),
               \A k \in 1..Newest : log'[k] = log[k],
               page'.loads = page.loads, page'.event = page.event, page'.loading = page.loading,
               page'.shown = page.shown, page'.blind = page.blind
        PROVE  Calm'
    <2>1. Newest \in Nat /\ Len(sheets) = Newest /\ sheets \in Seq(Sheet \cup {"blind", "none"})
      BY PageLogTyped DEF PageTyped
    <2>2. \A k \in 1..Newest' : sheets'[k] = IF k = Newest + 1 THEN sheet ELSE sheets[k]
      BY <1>4, <2>1
    <2>3. ASSUME NEW k \in 1..Newest' PROVE log'[k].lines = Own /\ sheets'[k] # "blind"
      <3>1. CASE k = Newest + 1
        BY <1>4, <2>2, <3>1, PageAssumption
      <3>2. CASE k # Newest + 1
        BY <1>2, <1>4, <2>1, <2>2, <3>2 DEF Calm
      <3> QED  BY <3>1, <3>2
    <2> QED  BY <1>2, <1>4, <2>3 DEF Calm
  <1>5. ASSUME NEW c \in Saver, NEW lines, Start(c, lines)
        PROVE  /\ Newest' = Newest + 1 /\ log'[Newest + 1].lines = lines
               /\ \A k \in 1..Newest : log'[k] = log[k]
    <2> DEFINE r == [lines |-> lines, flying |-> InFlight, answered |-> FALSE]
    <2>1. log' = Append(log, r) /\ r.lines = lines
      BY <1>5 DEF Start, Enter
    <2> HIDE DEF r
    <2> QED  BY <2>1, PageLogTyped DEF Newest
  <1>6. ASSUME NEW c \in Saver, Insert(c) \/ Answer(c) \/ Abort(c)
        PROVE  Newest' = Newest /\ \A k \in 1..Newest : log'[k].lines = log[k].lines
    <2>1. CASE Insert(c) \/ Abort(c)
      BY <2>1 DEF Insert, Abort, Newest
    <2>2. CASE Answer(c)
      <3>1. log' = [log EXCEPT ![saving[c].save].answered = TRUE] /\ log \in Seq(Save)
        BY <2>2, PageLogTyped DEF Answer
      <3>2. \A k \in 1..Len(log) : log[k] \in Save
        BY <3>1
      <3> QED  BY <3>1, <3>2 DEF Newest, Save
    <2> QED  BY <1>6, <2>1, <2>2
  <1>7. ASSUME NEW e \in Event, SwitchEvent(e) PROVE Calm'
    <2>1. page.loads = {} /\ page' = [page EXCEPT !.event = e, !.loads = @ \cup {Load(e)}, !.loading = TRUE]
          /\ UNCHANGED <<log, sheets>>
      BY <1>2, <1>7 DEF SwitchEvent, OnPage, PageTyped
    <2>2. page'.event = e /\ page'.loads = {Load(e)} /\ page'.loading /\ page'.blind = page.blind
      BY <1>2, <2>1 DEF PageState
    <2> QED  BY <1>2, <2>1, <2>2 DEF Calm, Load, Newest
  <1>8. CASE Refresh
    <2>1. page.loads = {} /\ page' = [page EXCEPT !.loads = @ \cup {Load(page.event)}, !.loading = TRUE]
          /\ UNCHANGED <<log, sheets>>
      BY <1>2, <1>8 DEF Refresh, OnPage, PageTyped
    <2>2. page'.event = page.event /\ page'.loads = {Load(page.event)} /\ page'.loading
          /\ page'.blind = page.blind
      BY <1>2, <2>1 DEF PageState
    <2> QED  BY <1>2, <2>1, <2>2 DEF Calm, Load, Newest
  <1>9. CASE LoadArrives
    <2>0. PICK l \in page.loads : Loaded(l, FALSE)
      BY <1>9 DEF LoadArrives
    <2>1. PICK s \in Sheet, f \in Gets(l) :
             /\ page' = [page EXCEPT !.shown = l.of, !.sheet = s, !.blind = FALSE,
                            !.stored = f, !.known = l.known,
                            !.loads = @ \ {l}, !.loading = FALSE,
                            !.edited = @ \/ PageBusy]
             /\ UNCHANGED <<log, sheets>>
      BY <2>0 DEF Loaded, OnPage
    <2>2. /\ page'.event = page.event /\ page'.loads = page.loads \ {l} /\ ~page'.loading
          /\ page'.shown = l.of /\ ~page'.blind
      BY <1>2, <2>1 DEF PageState
    <2> QED  BY <1>2, <2>1, <2>2 DEF Calm, Newest
  <1>10. ASSUME NEW g \in BOOLEAN, MayPress, Send(g) PROVE Calm'
    <2>1. page.shown = "own" /\ ~page.blind
      BY <1>2, <1>10 DEF MayPress, Calm
    <2>2. LinesOf(page.shown) = Own /\ Screen \in Sheet \cup {"none"}
      BY <1>2, <2>1 DEF LinesOf, Screen, PageState
    <2>3. Start(Organizer, Own) /\ sheets' = Append(sheets, Screen)
          /\ page' = [page EXCEPT !.goOn = g, !.edited = FALSE]
      BY <1>10, <2>2 DEF Send
    <2>4. /\ page'.loads = page.loads /\ page'.event = page.event /\ page'.loading = page.loading
          /\ page'.shown = page.shown /\ page'.blind = page.blind
      BY <1>2, <2>3 DEF PageState
    <2> QED  BY <1>4, <1>5, <2>2, <2>3, <2>4, PageAssumption
  <1>11. CASE Edit
    <2>1. /\ page'.loads = page.loads /\ page'.event = page.event /\ page'.loading = page.loading
          /\ page'.shown = page.shown /\ page'.blind = page.blind
      BY <1>2, <1>11 DEF Edit, Edited, OnPage, PageState
    <2> QED  BY <1>3, <1>11, <2>1 DEF Edit, OnPage, Newest
  <1>12. CASE GenerateReport
    BY <1>3, <1>12 DEF GenerateReport, Newest
  <1>13. CASE PageInsert \/ SaveAnswered \/ SaveFails
    <2>1. /\ page'.loads = page.loads /\ page'.event = page.event /\ page'.loading = page.loading
          /\ page'.shown = page.shown /\ page'.blind = page.blind /\ sheets' = sheets
      BY <1>2, <1>13 DEF PageInsert, SaveAnswered, SaveFails, PageState
    <2>2. Insert(Organizer) \/ Answer(Organizer) \/ Abort(Organizer)
      BY <1>13 DEF PageInsert, SaveAnswered, SaveFails
    <2> QED  BY <1>3, <1>6, <2>1, <2>2, PageAssumption
  <1>14. ASSUME NEW c \in Saver \ {Organizer}, OtherOrganizer(c) PROVE Calm'
    <2>1. CASE \E s \in Sheet : Start(c, Own) /\ sheets' = Append(sheets, s)
      BY <1>4, <1>5, <1>14, <2>1 DEF OtherOrganizer
    <2>2. CASE (Insert(c) \/ Answer(c) \/ Abort(c)) /\ UNCHANGED sheets
      BY <1>3, <1>6, <1>14, <2>2 DEF OtherOrganizer
    <2> QED  BY <1>14, <2>1, <2>2 DEF OtherOrganizer
  <1> QED
    BY <1>2, <1>7, <1>8, <1>9, <1>10, <1>11, <1>12, <1>13, <1>14
       DEF FinalizerNext, PressSave, AskReport, LoadFails

PageInv == IInv /\ PageTyped /\ CalmInv

LEMMA PageInvHolds == FinalizerSpec => []PageInv
  <1>1. PageInit => PageInv
    <2> SUFFICES ASSUME PageInit PROVE PageInv
      OBVIOUS
    <2>1. IInv
      BY IInvInit DEF PageInit
    <2>2. Newest = 0 /\ sheets = <<>> /\ ~trouble
      BY EmptySeq DEF PageInit, Init, Newest
    <2>3. PICK s \in Sheet :
            page = [event |-> "own", shown |-> "none", sheet |-> s, blind |-> FALSE,
                    stored |-> "none", known |-> 0,
                    loads |-> {[of |-> "own", stored |-> "none", known |-> 0]},
                    loading |-> TRUE, goOn |-> FALSE, edited |-> FALSE]
      BY DEF PageInit
    <2>4. page \in PageState
      BY <2>3 DEF PageState, Event, Found
    <2>5. trouble \in BOOLEAN
      BY DEF PageInit
    <2>6. PageTyped
      BY <2>2, <2>4, <2>5, EmptySeq DEF PageTyped
    <2>7. Calm
      BY <2>2, <2>3 DEF Calm
    <2> QED  BY <2>1, <2>6, <2>7 DEF PageInv, CalmInv
  <1>2. PageInv /\ [FinalizerNext]_pageVars => PageInv'
    <2> SUFFICES ASSUME PageInv, [FinalizerNext]_pageVars PROVE PageInv'
      OBVIOUS
    <2>1. CASE FinalizerNext
      BY <2>1, FinalizerStep, IInvStep, PageTypedStep, CalmStep DEF PageInv
    <2>2. CASE UNCHANGED pageVars
      <3>1. IInv'
        BY <2>2, IInvStep DEF PageInv, pageVars, vars
      <3> QED  BY <2>2, <3>1 DEF PageInv, pageVars, PageTyped, CalmInv, Calm, Newest
    <2> QED  BY <2>1, <2>2
  <1> QED  BY <1>1, <1>2, PTL DEF FinalizerSpec

(***************************************************************************)
(* Every save that was answered "saved" (saveFinalizedResults) holds this  *)
(* event's lines and no other's, computed from all the reports, unless a   *)
(* load failed, lost a report or was overtaken by a switch of the event.   *)
(***************************************************************************)
THEOREM WholeUnlessTroubleHolds == FinalizerSpec => []WholeUnlessTrouble
  <1>1. PageInv => WholeUnlessTrouble
    BY PageLogTyped DEF PageInv, CalmInv, Calm, WholeUnlessTrouble
  <1> QED  BY <1>1, PageInvHolds, PTL


-----------------------------------------------------------------------------
(* A report is of what the screen shows.                                   *)

\* A row was sent by its save, and a line a request has yet to insert was sent
\* by its save and is not in the table.
Owes ==
    /\ \A r \in rows : r.line \in log[r.save].lines
    /\ \A c \in Saver : \A l \in saving[c].left :
          /\ l \in log[saving[c].save].lines
          /\ [line |-> l, save |-> saving[c].save] \notin rows

\* A save is of one event's lines.
OneEvent == \A k \in 1..Newest : log[k].lines \in {Own, Line \ Own, {}}

\* The table is the newest save's results of this event, which has some.
Current == Newest # 0 /\ Own # {} /\ rows = {[line |-> l, save |-> Newest] : l \in Own}

\* What was found stored when the newest save had begun, and is the results of
\* one sheet, is what the table holds, unless that save began over another.
StillStored(stored, known) ==
    /\ known <= Newest
    /\ known = Newest /\ ~Overlapped /\ stored \notin {"none", "mixed"}
          => Current /\ stored = sheets[Newest]

\* So it is for the page and every load; and a page that was not edited since
\* it asked for a save shows what that save was computed from.
Truthful ==
    /\ StillStored(page.stored, page.known)
    /\ \A l \in page.loads : StillStored(l.stored, l.known)
    /\ PageBusy /\ ~page.edited =>
          /\ Screen = sheets[saving[Organizer].save]
          /\ LinesOf(page.shown) = log[saving[Organizer].save].lines
    /\ ~misled

ReportInv == PageInv /\ Owes /\ OneEvent /\ Truthful

\* Unless the newest save began over another, every row is its row, and it is
\* the only one in flight.
LEMMA NewestAlone ==
    ASSUME IInv, Newest # 0, ~Overlapped
    PROVE  /\ \A r \in rows : r.save = Newest
           /\ \A c \in Saver : Busy(c) => saving[c].save = Newest
  <1>1. log[Newest].flying = {} /\ Newest \in Nat
    BY DEF Overlapped, IInv, TypeOK, Newest
  <1>2. ASSUME NEW r \in rows PROVE r.save = Newest
    <2>1. r.save \in 1..Newest
      BY DEF IInv, Written
    <2>2. \A k \in (r.save + 1)..Newest : r.save \in log[k].flying
      BY DEF IInv, StaleNeedsOverlap
    <2>3. r.save < Newest => Newest \in (r.save + 1)..Newest
      BY <1>1, <2>1
    <2> QED  BY <1>1, <2>1, <2>2, <2>3
  <1>3. ASSUME NEW c \in Saver, Busy(c) PROVE saving[c].save = Newest
    <2>1. saving[c].save \in 1..Newest
      BY <1>3 DEF IInv, Owned
    <2>2. \A k \in (saving[c].save + 1)..Newest : saving[c].save \in log[k].flying
      BY <1>3 DEF IInv, Seen
    <2>3. saving[c].save < Newest => Newest \in (saving[c].save + 1)..Newest
      BY <1>1, <2>1
    <2> QED  BY <1>1, <2>1, <2>2, <2>3
  <1> QED  BY <1>2, <1>3

\* Then the table is a sheet's results exactly when the newest save is done.
LEMMA CurrentIsStored ==
    ASSUME IInv, PageTyped, Current
    PROVE  Stored = sheets[Newest]
  <1>1. Newest \in DOMAIN log
    BY PageLogTyped DEF Current
  <1> PICK o \in Own : TRUE
    BY DEF Current
  <1>6. [line |-> o, save |-> Newest] \in rows
    BY DEF Current
  <1>2. rows # {} /\ \A r \in rows : r.save = Newest
    BY <1>6 DEF Current
  <1>3. (CHOOSE r \in rows : TRUE) \in rows
    BY <1>2
  <1>4. (CHOOSE r \in rows : TRUE).save = Newest
    BY <1>2, <1>3
  <1>5. \E k \in DOMAIN log : rows = {[line |-> l, save |-> k] : l \in Own}
    BY <1>1 DEF Current
  <1> QED  BY <1>2, <1>4, <1>5 DEF Stored

LEMMA StoredIsCurrent ==
    ASSUME IInv, PageTyped, ~Overlapped, Stored \notin {"none", "mixed"}
    PROVE  Current /\ Stored = sheets[Newest]
  <1>1. rows # {} /\ \E k \in DOMAIN log : rows = {[line |-> l, save |-> k] : l \in Own}
    BY DEF Stored
  <1>2. PICK k \in DOMAIN log : rows = {[line |-> l, save |-> k] : l \in Own}
    BY <1>1
  <1>3. k \in 1..Newest /\ Newest \in Nat
    BY <1>2, PageLogTyped
  <1>4. k = Newest /\ Newest # 0
    BY <1>1, <1>2, <1>3, NewestAlone
  <1>6. Own # {}
    BY <1>1, <1>2
  <1>5. Current
    BY <1>2, <1>4, <1>6 DEF Current
  <1> QED  BY <1>5, CurrentIsStored

LEMMA SavedIsCurrent ==
    ASSUME IInv, Owes, ~Overlapped, NEW c \in Saver, Busy(c), saving[c].save = Newest,
           saving[c].left = {}, log[Newest].lines = Own, Own # {}
    PROVE  Current
  <1>1. Newest # 0
    BY DEF Busy
  <1>2. \A l \in Own : [line |-> l, save |-> Newest] \in rows
    BY DEF IInv, Progress
  <1>3. ASSUME NEW r \in rows PROVE r \in {[line |-> l, save |-> Newest] : l \in Own}
    <2>1. r.save = Newest /\ r.line \in Own
      BY <1>1, NewestAlone DEF Owes
    <2>2. r = [line |-> r.line, save |-> r.save]
      BY DEF IInv, TypeOK, Row
    <2> QED  BY <2>1, <2>2
  <1> QED  BY <1>1, <1>2, <1>3 DEF Current

\* Nothing is left to insert when the table is the newest save's results.
LEMMA CurrentIsDone ==
    ASSUME IInv, Owes, OneEvent, Current, ~Overlapped, NEW c \in Saver, Insert(c)
    PROVE  FALSE
  <1>1. PICK l \in saving[c].left : TRUE
    BY DEF Insert
  <1>2. Busy(c)
    BY <1>1 DEF IInv, Owned
  <1>3. saving[c].save = Newest /\ Newest \in 1..Newest
    BY <1>2, NewestAlone DEF Current, IInv, TypeOK, Newest
  <1>4. l \in log[Newest].lines /\ [line |-> l, save |-> Newest] \notin rows
    BY <1>1, <1>3 DEF Owes
  <1>5. PICK o \in Own : TRUE
    BY DEF Current
  <1>6. [line |-> o, save |-> Newest] \in rows
    BY DEF Current
  <1>7. o \in log[Newest].lines
    BY <1>6 DEF Owes
  <1>8. log[Newest].lines = Own
    BY <1>3, <1>7 DEF OneEvent
  <1> QED  BY <1>4, <1>8 DEF Current

-----------------------------------------------------------------------------

LEMMA OwesStep ==
    ASSUME IInv, Owes, Next
    PROVE  Owes'
  <1>1. /\ saving \in [Saver -> Request] /\ log \in Seq(Save) /\ Newest \in Nat
        /\ \A r \in rows : r.save \in 1..Newest
    BY DEF IInv, TypeOK, Written, Newest
  <1>2. ASSUME NEW c \in Saver, NEW lines \in SUBSET Line, Start(c, lines) PROVE Owes'
    <2> DEFINE s == [lines |-> lines, flying |-> InFlight, answered |-> FALSE]
    <2>1. /\ rows' = {} /\ log' = Append(log, s) /\ s.lines = lines
          /\ saving' = [saving EXCEPT ![c] = [save |-> Newest + 1, left |-> lines]]
      BY <1>2 DEF Start, Enter
    <2> HIDE DEF s
    <2>2. log'[Newest + 1] = s /\ \A k \in 1..Newest : log'[k] = log[k]
      BY <1>1, <2>1 DEF Newest
    <2>3. ASSUME NEW d \in Saver, NEW l \in saving'[d].left
          PROVE  l \in log'[saving'[d].save].lines
      <3>1. CASE d = c
        BY <1>1, <2>1, <2>2, <2>3, <3>1
      <3>2. CASE d # c
        <4>1. saving'[d] = saving[d]
          BY <1>1, <2>1, <3>2
        <4>2. Busy(d)
          BY <2>3, <4>1 DEF IInv, Owned
        <4>3. saving[d].save \in 1..Newest
          BY <4>2 DEF IInv, Owned
        <4> QED  BY <2>2, <2>3, <4>1, <4>3 DEF Owes
      <3> QED  BY <3>1, <3>2
    <2>4. \A d \in Saver : \A l \in saving'[d].left :
             /\ l \in log'[saving'[d].save].lines
             /\ [line |-> l, save |-> saving'[d].save] \notin rows'
      <3>1. rows' = {}
        BY <2>1
      <3> QED  BY <2>3, <3>1
    <2>5. \A r \in rows' : r.line \in log'[r.save].lines
      BY <2>1
    <2> QED  BY <2>4, <2>5 DEF Owes
  <1>3. ASSUME NEW c \in Saver, Insert(c) PROVE Owes'
    <2>1. PICK l \in saving[c].left :
             /\ rows' = rows \cup {[line |-> l, save |-> saving[c].save]}
             /\ saving' = [saving EXCEPT ![c].left = @ \ {l}] /\ log' = log
      BY <1>3 DEF Insert
    <2>2. \A r \in rows' : r.line \in log'[r.save].lines
      BY <2>1 DEF Owes
    <2>3. ASSUME NEW d \in Saver, NEW m \in saving'[d].left
          PROVE  /\ m \in log'[saving'[d].save].lines
                 /\ [line |-> m, save |-> saving'[d].save] \notin rows'
      <3>1. /\ saving'[d].save = saving[d].save /\ m \in saving[d].left
            /\ d = c => m # l
        BY <1>1, <2>1, <2>3 DEF Request
      <3>2. d # c => saving[d].save # saving[c].save
        BY <3>1 DEF IInv, Owned
      <3>3. [line |-> m, save |-> saving[d].save] # [line |-> l, save |-> saving[c].save]
        BY <3>1, <3>2
      <3> QED  BY <2>1, <3>1, <3>3 DEF Owes
    <2> QED  BY <2>2, <2>3 DEF Owes
  <1>4. ASSUME NEW c \in Saver, Answer(c) \/ Abort(c) PROVE Owes'
    <2>1. /\ rows' = rows /\ saving' = [saving EXCEPT ![c] = Idle]
          /\ log' = log \/ log' = [log EXCEPT ![saving[c].save].answered = TRUE]
      BY <1>4 DEF Answer, Abort
    <2>2. \A k \in 1..Newest : log[k] \in Save
      BY <1>1 DEF Newest
    <2>3. \A k \in 1..Newest : log'[k].lines = log[k].lines
      <3>1. CASE log' = log
        BY <3>1
      <3>2. CASE log' = [log EXCEPT ![saving[c].save].answered = TRUE]
        BY <1>1, <2>2, <3>2 DEF Newest, Save
      <3> QED  BY <2>1, <3>1, <3>2
    <2>4. \A d \in Saver : saving'[d] = IF d = c THEN Idle ELSE saving[d]
      BY <1>1, <2>1
    <2>5. ASSUME NEW d \in Saver, NEW l \in saving'[d].left
          PROVE  /\ l \in log'[saving'[d].save].lines
                 /\ [line |-> l, save |-> saving'[d].save] \notin rows'
      <3>1. saving'[d] = saving[d]
        BY <2>4, <2>5 DEF Idle
      <3>2. saving[d].save \in 1..Newest
        BY <2>5, <3>1 DEF IInv, Owned
      <3> QED  BY <2>1, <2>3, <2>5, <3>1, <3>2 DEF Owes
    <2>6. \A r \in rows' : r.line \in log'[r.save].lines
      BY <1>1, <2>1, <2>3 DEF Owes
    <2> QED  BY <2>5, <2>6 DEF Owes
  <1> QED  BY <1>2, <1>3, <1>4 DEF Next

\* What a step may do to the table, as far as the page is concerned: a save
\* begins, or the saves stay as they are and at most one of them inserts.
TableMoves ==
    \/ /\ Newest' = Newest + 1
       /\ \A k \in 1..Newest : log'[k] = log[k] /\ sheets'[k] = sheets[k]
       /\ log'[Newest + 1].lines \in {Own, Line \ Own, {}}
    \/ /\ Newest' = Newest /\ sheets' = sheets
       /\ \A k \in 1..Newest : log'[k].lines = log[k].lines /\ log'[k].flying = log[k].flying
       /\ rows' = rows \/ \E c \in Saver : Insert(c)

LEMMA StartMoves ==
    ASSUME IInv, PageTyped, NEW c \in Saver, NEW lines, NEW s,
           Start(c, lines), sheets' = Append(sheets, s)
    PROVE  /\ Newest' = Newest + 1 /\ log'[Newest + 1].lines = lines
           /\ \A k \in 1..Newest : log'[k] = log[k] /\ sheets'[k] = sheets[k]
           /\ sheets'[Newest + 1] = s
  <1> DEFINE r == [lines |-> lines, flying |-> InFlight, answered |-> FALSE]
  <1>1. log' = Append(log, r) /\ r.lines = lines
    BY DEF Start, Enter
  <1> HIDE DEF r
  <1>2. /\ log \in Seq(Save) /\ Newest = Len(log) /\ Newest \in Nat
        /\ sheets \in Seq(Sheet \cup {"blind", "none"}) /\ Len(sheets) = Newest
    BY PageLogTyped DEF PageTyped, Newest
  <1>3. Newest' = Newest + 1 /\ log'[Newest + 1] = r /\ \A k \in 1..Newest : log'[k] = log[k]
    BY <1>1, <1>2 DEF Newest
  <1>4. sheets'[Newest + 1] = s /\ \A k \in 1..Newest : sheets'[k] = sheets[k]
    BY <1>2
  <1> QED  BY <1>1, <1>3, <1>4

LEMMA RestMoves ==
    ASSUME IInv, PageTyped, NEW c \in Saver, Insert(c) \/ Answer(c) \/ Abort(c), sheets' = sheets
    PROVE  TableMoves
  <1>1. log \in Seq(Save) /\ Newest = Len(log) /\ \A k \in 1..Newest : log[k] \in Save
    BY PageLogTyped DEF Newest
  <1>2. CASE Insert(c) \/ Abort(c)
    BY <1>2 DEF Insert, Abort, Newest, TableMoves
  <1>3. CASE Answer(c)
    <2>1. log' = [log EXCEPT ![saving[c].save].answered = TRUE] /\ rows' = rows
      BY <1>3 DEF Answer
    <2>2. Newest' = Newest
      BY <1>1, <2>1 DEF Newest
    <2>3. \A k \in 1..Newest : log'[k].lines = log[k].lines /\ log'[k].flying = log[k].flying
      BY <1>1, <2>1 DEF Newest, Save
    <2> QED  BY <2>1, <2>2, <2>3 DEF TableMoves
  <1> QED  BY <1>2, <1>3

LEMMA FinalizerMoves ==
    ASSUME IInv, PageTyped, FinalizerNext
    PROVE  TableMoves
  <1>1. CASE \/ (\E e \in Event : SwitchEvent(e)) \/ Refresh \/ LoadArrives \/ LoadFails \/ Edit
             \/ GenerateReport
    BY <1>1 DEF SwitchEvent, Refresh, LoadArrives, Loaded, LoadFails, Edit, GenerateReport,
                OnPage, Newest, TableMoves
  <1>2. ASSUME NEW g \in BOOLEAN, Send(g) PROVE TableMoves
    <2>1. Start(Organizer, LinesOf(page.shown)) /\ sheets' = Append(sheets, Screen)
      BY <1>2 DEF Send
    <2>2. LinesOf(page.shown) \in {Own, Line \ Own, {}} /\ Organizer \in Saver
      BY PageAssumption DEF LinesOf
    <2> QED  BY <2>1, <2>2, StartMoves DEF TableMoves
  <1>3. CASE PageInsert \/ SaveAnswered \/ SaveFails
    BY <1>3, RestMoves, PageAssumption DEF PageInsert, SaveAnswered, SaveFails
  <1>4. ASSUME NEW c \in Saver \ {Organizer}, OtherOrganizer(c) PROVE TableMoves
    <2>1. CASE \E s \in Sheet : Start(c, Own) /\ sheets' = Append(sheets, s)
      BY <2>1, StartMoves DEF TableMoves
    <2>2. CASE (Insert(c) \/ Answer(c) \/ Abort(c)) /\ UNCHANGED sheets
      BY <2>2, RestMoves
    <2> QED  BY <1>4, <2>1, <2>2 DEF OtherOrganizer
  <1> QED
    BY <1>1, <1>2, <1>3, <1>4 DEF FinalizerNext, PressSave, AskReport

LEMMA OneEventStep ==
    ASSUME IInv, OneEvent, TableMoves
    PROVE  OneEvent'
  <1>1. Newest \in Nat
    BY DEF IInv, TypeOK, Newest
  <1> QED  BY <1>1 DEF OneEvent, TableMoves

\* What was found stored is still stored, or it is known to be outdated.
LEMMA StillStoredStays ==
    ASSUME ReportInv, TableMoves, NEW stored, NEW known \in Nat,
           StillStored(stored, known)
    PROVE  /\ known <= Newest'
           /\ known = Newest' /\ ~Overlapped' /\ stored \notin {"none", "mixed"}
                 => Current' /\ stored = sheets'[Newest']
  <1>1. Newest \in Nat /\ known <= Newest
    BY DEF ReportInv, PageInv, IInv, TypeOK, Newest, StillStored
  <1>2. CASE Newest' = Newest + 1
    BY <1>1, <1>2
  <1>3. CASE /\ Newest' = Newest /\ sheets' = sheets
             /\ \A k \in 1..Newest : log'[k].flying = log[k].flying
             /\ rows' = rows \/ \E c \in Saver : Insert(c)
    <2> SUFFICES ASSUME known = Newest, ~Overlapped', stored \notin {"none", "mixed"}
                 PROVE  Current' /\ stored = sheets[Newest]
      BY <1>1, <1>3
    <2>1. ~Overlapped
      BY <1>1, <1>3 DEF Overlapped
    <2>2. Current /\ stored = sheets[Newest]
      BY <2>1 DEF StillStored
    <2>3. rows' = rows
      BY <1>3, <2>1, <2>2, CurrentIsDone DEF ReportInv, PageInv
    <2> QED  BY <1>3, <2>2, <2>3 DEF Current
  <1> QED  BY <1>2, <1>3 DEF TableMoves

\* What a load finds is what is stored.
LEMMA LoadFinds ==
    ASSUME ReportInv, NEW e \in Event
    PROVE  StillStored(Load(e).stored, Load(e).known)
  <1>1. Newest \in Nat
    BY DEF ReportInv, PageInv, IInv, TypeOK, Newest
  <1>2. Load(e).known = Newest /\ Load(e).stored = IF e = "own" THEN Stored ELSE "mixed"
    BY DEF Load
  <1> QED  BY <1>1, <1>2, StoredIsCurrent DEF StillStored, ReportInv, PageInv

-----------------------------------------------------------------------------

\* The page keeps what it found, or takes it from a load.
LEMMA FoundStep ==
    ASSUME ReportInv, TableMoves,
           \A l \in page'.loads : l \in page.loads \/ \E e \in Event : l = Load(e),
           \/ page'.stored = page.stored /\ page'.known = page.known
           \/ \E l \in page.loads : page'.stored \in Gets(l) /\ page'.known = l.known
    PROVE  /\ StillStored(page.stored, page.known)'
           /\ (\A l \in page.loads : StillStored(l.stored, l.known))'
  <1>1. page \in PageState
    BY DEF ReportInv, PageInv, PageTyped
  <1>2. \A l \in page.loads : l.known \in Nat
    BY <1>1 DEF PageState
  <1>3. page.known \in Nat /\ \A e \in Event : Load(e).known \in Nat
    BY <1>1 DEF PageState, Load, ReportInv, PageInv, IInv, TypeOK, Newest
  <1>4. /\ StillStored(page.stored, page.known)
        /\ \A l \in page.loads : StillStored(l.stored, l.known)
    BY DEF ReportInv, Truthful
  <1>5. ASSUME NEW l, l \in page.loads \/ \E e \in Event : l = Load(e)
        PROVE  l.known \in Nat /\ StillStored(l.stored, l.known)
    BY <1>2, <1>3, <1>4, <1>5, LoadFinds
  <1>6. ASSUME NEW l \in page'.loads
        PROVE  /\ l.known <= Newest'
               /\ l.known = Newest' /\ ~Overlapped' /\ l.stored \notin {"none", "mixed"}
                     => Current' /\ l.stored = sheets'[Newest']
    BY <1>5, <1>6, StillStoredStays
  <1>7. /\ page'.known <= Newest'
        /\ page'.known = Newest' /\ ~Overlapped' /\ page'.stored \notin {"none", "mixed"}
              => Current' /\ page'.stored = sheets'[Newest']
    <2>1. CASE page'.stored = page.stored /\ page'.known = page.known
      BY <1>3, <1>4, <2>1, StillStoredStays
    <2>2. CASE \E l \in page.loads : page'.stored \in Gets(l) /\ page'.known = l.known
      <3>1. PICK l \in page.loads : page'.stored \in Gets(l) /\ page'.known = l.known
        BY <2>2
      <3>2. page'.known \in Nat /\ StillStored(page'.stored, page'.known)
        BY <1>5, <3>1 DEF Gets, StillStored
      <3> QED  BY <3>2, StillStoredStays
    <2> QED  BY <2>1, <2>2
  <1> QED  BY <1>6, <1>7 DEF StillStored

\* The organizer's own save stays as it is while others are at theirs.
LEMMA OwnSaveStays ==
    ASSUME ReportInv, TableMoves, PageBusy, ~page.edited,
           saving'[Organizer].save = saving[Organizer].save, Screen' = Screen,
           page'.shown = page.shown
    PROVE  /\ Screen' = sheets'[saving'[Organizer].save]
           /\ LinesOf(page'.shown) = log'[saving'[Organizer].save].lines
  <1>1. saving[Organizer].save \in 1..Newest
    BY BusyIsNotIdle, PageAssumption DEF PageBusy, ReportInv, PageInv, IInv, Owned
  <1> QED  BY <1>1 DEF TableMoves, ReportInv, Truthful

LEMMA TruthfulStep ==
    ASSUME ReportInv, FinalizerNext
    PROVE  Truthful'
  <1>1. IInv /\ PageTyped /\ TableMoves /\ page \in PageState
    BY FinalizerMoves DEF ReportInv, PageInv, PageTyped
  <1>2. /\ PageBusy /\ ~page.edited =>
              /\ Screen = sheets[saving[Organizer].save]
              /\ LinesOf(page.shown) = log[saving[Organizer].save].lines
        /\ ~misled
    BY DEF ReportInv, Truthful
  <1>3. ASSUME NEW e \in Event,
               SwitchEvent(e) \/ (Refresh /\ e = page.event)
        PROVE  Truthful'
    <2>1. /\ UNCHANGED <<rows, saving, log, sheets, misled>>
          /\ \/ page' = [page EXCEPT !.event = e, !.loads = @ \cup {Load(e)}, !.loading = TRUE]
             \/ page' = [page EXCEPT !.loads = @ \cup {Load(e)}, !.loading = TRUE]
      BY <1>3 DEF SwitchEvent, Refresh, OnPage
    <2>2. /\ page'.loads = page.loads \cup {Load(e)} /\ page'.edited = page.edited
          /\ page'.stored = page.stored /\ page'.known = page.known
          /\ page'.blind = page.blind /\ page'.sheet = page.sheet /\ page'.shown = page.shown
      BY <1>1, <2>1 DEF PageState
    <2>3. Screen' = Screen /\ PageBusy' = PageBusy
      BY <2>1, <2>2 DEF Screen, LinesOf, PageBusy
    <2>4. \A l \in page'.loads : l \in page.loads \/ \E n \in Event : l = Load(n)
      BY <2>2
    <2> QED  BY <1>1, <1>2, <2>1, <2>2, <2>3, <2>4, FoundStep DEF Truthful
  <1>4. CASE LoadArrives
    <2>0. PICK l \in page.loads, b \in BOOLEAN : Loaded(l, b)
      BY <1>4 DEF LoadArrives
    <2>1. PICK s \in Sheet, f \in Gets(l) :
             /\ page' = [page EXCEPT !.shown = l.of, !.sheet = s, !.blind = b,
                            !.stored = f, !.known = l.known,
                            !.loads = @ \ {l}, !.loading = FALSE,
                            !.edited = @ \/ PageBusy]
             /\ UNCHANGED <<rows, saving, log, sheets, misled>>
      BY <2>0 DEF Loaded, OnPage
    <2>2. /\ page'.loads = page.loads \ {l} /\ page'.edited = (page.edited \/ PageBusy)
          /\ page'.stored \in Gets(l) /\ page'.known = l.known
      BY <1>1, <2>1 DEF PageState
    <2>3. PageBusy' = PageBusy
      BY <2>1 DEF PageBusy
    <2> QED  BY <1>1, <1>2, <2>1, <2>2, <2>3, FoundStep DEF Truthful
  <1>5. CASE LoadFails \/ Edit
    <2>1. /\ page'.stored = page.stored /\ page'.known = page.known
          /\ page'.loads \subseteq page.loads
          /\ PageBusy /\ ~page'.edited =>
                ~page.edited /\ Screen' = Screen /\ page'.shown = page.shown
          /\ UNCHANGED <<rows, saving, log, sheets, misled>>
      <3>1. CASE LoadFails
        <4>1. PICK l \in page.loads : page' = [page EXCEPT !.loads = @ \ {l}, !.loading = FALSE]
          BY <3>1 DEF LoadFails, OnPage
        <4>2. /\ page'.stored = page.stored /\ page'.known = page.known
              /\ page'.loads = page.loads \ {l} /\ page'.edited = page.edited
              /\ page'.blind = page.blind /\ page'.sheet = page.sheet /\ page'.shown = page.shown
          BY <1>1, <4>1 DEF PageState
        <4>3. Screen' = Screen
          BY <4>2 DEF Screen, LinesOf
        <4> QED  BY <3>1, <4>2, <4>3 DEF LoadFails, OnPage
      <3>2. CASE Edit
        <4>1. PICK s \in Sheet :
                page' = [page EXCEPT !.sheet = s, !.edited = @ \/ (PageBusy /\ s # page.sheet)]
          BY <3>2 DEF Edit, Edited, OnPage
        <4>2. /\ page'.stored = page.stored /\ page'.known = page.known
              /\ page'.loads = page.loads /\ page'.blind = page.blind /\ page'.sheet = s
              /\ page'.shown = page.shown
              /\ page'.edited = (page.edited \/ (PageBusy /\ s # page.sheet))
          BY <1>1, <4>1 DEF PageState
        <4>3. PageBusy /\ ~page'.edited => ~page.edited /\ Screen' = Screen
          BY <4>2 DEF Screen, LinesOf
        <4> QED  BY <3>2, <4>2, <4>3 DEF Edit, OnPage
      <3> QED  BY <1>5, <3>1, <3>2
    <2>2. PageBusy' = PageBusy
      BY <2>1 DEF PageBusy
    <2> QED  BY <1>1, <1>2, <2>1, <2>2, FoundStep DEF Truthful
  <1>6. ASSUME NEW g \in BOOLEAN, Send(g) PROVE Truthful'
    <2>1. /\ Start(Organizer, LinesOf(page.shown)) /\ sheets' = Append(sheets, Screen)
          /\ page' = [page EXCEPT !.goOn = g, !.edited = FALSE] /\ misled' = misled
      BY <1>6 DEF Send
    <2>2. /\ page'.stored = page.stored /\ page'.known = page.known
          /\ page'.loads = page.loads
          /\ page'.blind = page.blind /\ page'.sheet = page.sheet /\ page'.shown = page.shown
      BY <1>1, <2>1 DEF PageState
    <2>3. saving'[Organizer].save = Newest + 1
      BY <1>1, <2>1, PageAssumption DEF Start, Enter, IInv, TypeOK
    <2>4. sheets'[Newest + 1] = Screen /\ log'[Newest + 1].lines = LinesOf(page.shown)
      BY <1>1, <2>1, StartMoves, PageAssumption
    <2>5. Screen' = Screen
      BY <2>2 DEF Screen, LinesOf
    <2> QED  BY <1>1, <1>2, <2>1, <2>2, <2>3, <2>4, <2>5, FoundStep DEF Truthful
  <1>7. CASE GenerateReport
    <2>1. /\ UNCHANGED <<rows, saving, log, page, sheets>>
          /\ misled' = (misled \/ (~(page.stored \in {"none", "mixed"} \/ page.known # Newest \/ Misplaced)
                                     /\ ~Overlapped /\ Screen # Stored))
          /\ Screen = "none" \/ page.stored \in {"none", "mixed", Screen}
          /\ ~page.loading /\ page.event = "own"
      BY <1>7 DEF GenerateReport, Queue, MayMatch, MayPress
    <2>2. ASSUME page.stored \notin {"none", "mixed"}, page.known = Newest, ~Overlapped,
                 ~Misplaced
          PROVE  Screen = Stored
      <3>1. Current /\ page.stored = sheets[Newest]
        BY <2>2 DEF ReportInv, Truthful, StillStored
      <3>2. page.shown = "own"
        BY <2>1, <2>2 DEF Misplaced, ReportInv, PageInv, CalmInv, Calm
      <3>3. Screen # "none"
        BY <1>1, <3>1, <3>2, PageAssumption DEF Screen, LinesOf, Current, PageState
      <3> QED  BY <1>1, <2>1, <2>2, <3>1, <3>3, CurrentIsStored
    <2>3. misled' = FALSE
      BY <1>2, <2>1, <2>2
    <2>4. Screen' = Screen /\ PageBusy' = PageBusy
      BY <2>1 DEF Screen, LinesOf, PageBusy
    <2> QED  BY <1>1, <1>2, <2>1, <2>3, <2>4, FoundStep DEF Truthful
  <1>8. CASE PageInsert
    <2>1. Insert(Organizer) /\ UNCHANGED <<page, sheets, misled>>
      BY <1>8 DEF PageInsert
    <2>2. saving'[Organizer].save = saving[Organizer].save
      BY <1>1, <2>1, PageAssumption DEF Insert, IInv, TypeOK, Request
    <2>3. PageBusy
      BY <1>1, <2>1, BusyIsNotIdle, PageAssumption DEF PageBusy, Insert, IInv, Owned
    <2>4. Screen' = Screen
      BY <2>1 DEF Screen, LinesOf
    <2>5. PageBusy' /\ ~page'.edited =>
              /\ Screen' = sheets'[saving'[Organizer].save]
              /\ LinesOf(page'.shown) = log'[saving'[Organizer].save].lines
      BY <1>1, <2>1, <2>2, <2>3, <2>4, OwnSaveStays
    <2> QED  BY <1>1, <1>2, <2>1, <2>5, FoundStep DEF Truthful
  <1>9. CASE SaveAnswered
    <2> DEFINE k == saving[Organizer].save
               o == OfSave(k)
    <2>1. /\ page' = [page EXCEPT !.stored = o, !.known = k, !.goOn = FALSE, !.edited = FALSE]
          /\ PageBusy /\ saving[Organizer].left = {}
          /\ misled' = (misled \/ (~(page.edited \/ k # Newest \/ Misplaced)
                                     /\ ~Overlapped /\ Screen # Stored))
          /\ UNCHANGED <<rows, sheets>> /\ saving' = [saving EXCEPT ![Organizer] = Idle]
      BY <1>9 DEF SaveAnswered, Answer, Queue, PageBusy
    <2>2. Busy(Organizer) /\ k \in 1..Newest /\ Newest \in Nat
      BY <1>1, <2>1, BusyIsNotIdle, PageAssumption, PageLogTyped DEF PageBusy, IInv, Owned
    <2>3. ASSUME k = Newest, log[k].lines = Own, ~Overlapped, Own # {}
          PROVE  Current /\ Stored = sheets[Newest]
      <3>1. Current
        BY <1>1, <2>1, <2>2, <2>3, SavedIsCurrent, PageAssumption DEF ReportInv
      <3> QED  BY <1>1, <3>1, CurrentIsStored
    <2>11. ASSUME ~page.edited, k = Newest, ~Misplaced, ~Overlapped
           PROVE  Screen = Stored
      <3>1. Screen = sheets[k] /\ LinesOf(page.shown) = log[k].lines
        BY <1>2, <2>1, <2>11
      <3>2. trouble => page.shown = "own"
        BY <2>11 DEF Misplaced
      <3>3. log[k].lines = Own
        BY <2>2, <3>1, <3>2 DEF LinesOf, ReportInv, PageInv, CalmInv, Calm
      <3>4. CASE Own = {}
        <4>1. Screen = "none"
          BY <3>1, <3>3, <3>4 DEF Screen
        <4>2. \A r \in rows : r.save = Newest
          BY <1>1, <2>2, <2>11, NewestAlone
        <4>3. rows = {}
          BY <2>11, <3>3, <3>4, <4>2 DEF ReportInv, Owes
        <4> QED  BY <4>1, <4>3 DEF Stored
      <3>5. CASE Own # {}
        BY <2>3, <2>11, <3>1, <3>3, <3>5
      <3> QED  BY <3>4, <3>5
    <2>4. o \notin {"none", "mixed"} => log[k].lines = Own /\ Own # {} /\ o = sheets[k]
      BY DEF OfSave
    <2>5. misled' = FALSE
      BY <1>2, <2>1, <2>11
    <2>6. StillStored(o, k)
      BY <2>2, <2>3, <2>4 DEF StillStored
    <2> HIDE DEF o, k
    <2>7. /\ page'.stored = o /\ page'.known = k /\ page'.loads = page.loads
      BY <1>1, <2>1 DEF PageState
    <2>8. ~PageBusy'
      BY <1>1, <2>1, PageAssumption DEF PageBusy, IInv, TypeOK
    <2>9. (\A l \in page.loads : StillStored(l.stored, l.known))'
      <3>1. \A l \in page.loads : l.known \in Nat /\ StillStored(l.stored, l.known)
        BY <1>1 DEF PageState, ReportInv, Truthful
      <3> QED  BY <1>1, <2>7, <3>1, StillStoredStays DEF StillStored
    <2>10. StillStored(page.stored, page.known)'
      <3>1. k \in Nat
        BY <2>2
      <3> QED  BY <1>1, <2>6, <2>7, <3>1, StillStoredStays DEF StillStored
    <2> QED  BY <2>5, <2>8, <2>9, <2>10 DEF Truthful
  <1>10. CASE SaveFails
    <2>1. /\ page' = [page EXCEPT !.goOn = FALSE, !.edited = FALSE]
          /\ ~misled'
          /\ saving' = [saving EXCEPT ![Organizer] = Idle]
      BY <1>2, <1>10 DEF SaveFails, Abort, Queue
    <2>2. page'.stored = page.stored /\ page'.known = page.known /\ page'.loads = page.loads
      BY <1>1, <2>1 DEF PageState
    <2>3. ~PageBusy'
      BY <1>1, <2>1, PageAssumption DEF PageBusy, IInv, TypeOK
    <2> QED  BY <1>1, <1>2, <2>1, <2>2, <2>3, FoundStep DEF Truthful
  <1>11. ASSUME NEW c \in Saver \ {Organizer}, OtherOrganizer(c) PROVE Truthful'
    <2>1. UNCHANGED <<page, misled>>
      BY <1>11 DEF OtherOrganizer
    <2>2. saving'[Organizer] = saving[Organizer]
      BY <1>1, <1>11, PageAssumption
         DEF OtherOrganizer, Start, Enter, Insert, Answer, Abort, IInv, TypeOK
    <2>3. Screen' = Screen /\ PageBusy' = PageBusy
      BY <2>1, <2>2 DEF Screen, LinesOf, PageBusy
    <2>4. PageBusy' /\ ~page'.edited =>
              /\ Screen' = sheets'[saving'[Organizer].save]
              /\ LinesOf(page'.shown) = log'[saving'[Organizer].save].lines
      BY <1>1, <2>1, <2>2, <2>3, OwnSaveStays
    <2> QED  BY <1>1, <1>2, <2>1, <2>4, FoundStep DEF Truthful
  <1>12. page.event \in Event
    BY <1>1 DEF PageState
  <1> QED
    BY <1>3, <1>4, <1>5, <1>6, <1>7, <1>8, <1>9, <1>10, <1>11, <1>12
       DEF FinalizerNext, PressSave, AskReport

(***************************************************************************)
(* What the Finalizer page queues a final report or a spreadsheet of       *)
(* (generateReportJob) is what its screen shows: the results stored are    *)
(* the screen's, but for the excuses ReportOfScreen names, the screen of   *)
(* another event among them only after a load failed or was overtaken.     *)
(***************************************************************************)
THEOREM ReportOfScreenHolds == FinalizerSpec => []ReportOfScreen
  <1>1. PageInit => Owes /\ OneEvent /\ Truthful
    <2> SUFFICES ASSUME PageInit PROVE Owes /\ OneEvent /\ Truthful
      OBVIOUS
    <2>1. /\ Newest = 0 /\ rows = {} /\ ~misled
          /\ saving[Organizer] = Idle /\ \A c \in Saver : saving[c] = Idle
      BY PageAssumption DEF PageInit, Init, Newest
    <2>2. /\ page.known = 0 /\ page.stored = "none"
          /\ \A l \in page.loads : l.known = 0 /\ l.stored = "none"
      BY DEF PageInit
    <2>3. Owes /\ OneEvent
      BY <2>1 DEF Owes, OneEvent, Idle
    <2> QED  BY <2>1, <2>2, <2>3 DEF Truthful, StillStored, PageBusy
  <1>2. PageInv /\ PageInv' /\ Owes /\ OneEvent /\ Truthful /\ [FinalizerNext]_pageVars
           => Owes' /\ OneEvent' /\ Truthful'
    <2> SUFFICES ASSUME PageInv, Owes, OneEvent, Truthful, [FinalizerNext]_pageVars
                 PROVE  Owes' /\ OneEvent' /\ Truthful'
      OBVIOUS
    <2>1. CASE FinalizerNext
      <3>1. ReportInv /\ IInv /\ PageTyped
        BY DEF ReportInv, PageInv
      <3>2. TableMoves
        BY <2>1, <3>1, FinalizerMoves
      <3>3. OneEvent' /\ Truthful'
        BY <2>1, <3>1, <3>2, OneEventStep, TruthfulStep
      <3>4. CASE Next
        BY <3>1, <3>3, <3>4, OwesStep
      <3>5. CASE UNCHANGED vars
        BY <3>3, <3>5 DEF vars, Owes
      <3> QED  BY <2>1, <3>4, <3>5, FinalizerStep
    <2>2. CASE UNCHANGED pageVars
      BY <2>2 DEF pageVars, Owes, OneEvent, Truthful, StillStored, Current, Overlapped,
                  Newest, PageBusy, Screen, LinesOf
    <2> QED  BY <2>1, <2>2
  <1>3. Truthful => ReportOfScreen
    BY DEF Truthful, ReportOfScreen
  <1> QED  BY <1>1, <1>2, <1>3, PageInvHolds, PTL DEF FinalizerSpec

=============================================================================
