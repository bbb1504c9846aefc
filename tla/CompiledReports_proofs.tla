------------------------ MODULE CompiledReports_proofs -----------------------
(***************************************************************************)
(* Proofs about the compiled reports, for any number of reports, processes *)
(* and DELETE requests, with and without a bucket and whatever fails.      *)
(*                                                                         *)
(* The database and the bucket meet nowhere but in the order of each       *)
(* actor's steps.  Past(r), "the task of r is behind its upload", carries  *)
(* that order: a row is named only then, so a DELETE that reads a name     *)
(* meets a file nobody will upload again, and a DELETE that reads none is  *)
(* the excuse.                                                             *)
(*                                                                         *)
(* What a task uploaded is kept where it was put (Kept), which says more   *)
(* than that a copy exists: with a bucket that took it, every process can  *)
(* serve it.                                                               *)
(*                                                                         *)
(* The page comes last: what holds for the reports holds with it, and its  *)
(* list is the one of its event because every load in flight is of that    *)
(* event, unless the history variable doubt says otherwise.                *)
(***************************************************************************)
EXTENDS ReportsPage, TLAPS

Past(r) == task[r].pc \in {"uploaded", "failing", "ended"}

\* The row is inserted once, and named only behind the upload.
RowInv(r) ==
    /\ task[r].pc = "none" => row[r].status = "none"
    /\ row[r].named => Past(r)
    /\ row[r].status = "ready" => row[r].named

\* What was uploaded stays where it was put until somebody removes it: in the
\* bucket, or with the process of its task if the bucket refused it.
Kept(r) == r \in bucket \/ (r \in refused /\ r \in memory[task[r].at]) \/ r \in removed

FileInv(r) ==
    /\ row[r].named \/ task[r].pc = "uploaded" => Kept(r)
    /\ (\E i \in Instance : r \in memory[i]) => r \in excused

\* Nothing is stored any more, and nothing will be.
Cleared(r) == Past(r) /\ ~Stored(r)

RemovalInv(r) == row[r].status = "deleted" => r \in excused \/ Cleared(r)

\* The same for a DELETE between its steps.
DeleteInv(d) ==
    /\ delete[d].pc = "file" => Past(delete[d].report)
    /\ delete[d].pc = "row" => delete[d].report \in excused \/ Cleared(delete[d].report)

IInv ==
    /\ ReportsTypeOK
    /\ \A r \in Report : RowInv(r) /\ FileInv(r) /\ RemovalInv(r)
    /\ \A d \in Deleter : DeleteInv(d)

-----------------------------------------------------------------------------

LEMMA IInvInit == ReportsInit => IInv
  <1> SUFFICES ASSUME ReportsInit PROVE IInv
    OBVIOUS
  <1>1. ReportsTypeOK
    BY DEF ReportsInit, ReportsTypeOK, Rows, Tasks, Deletes
  <1>2. QED
    BY <1>1 DEF ReportsInit, IInv, RowInv, FileInv, RemovalInv, DeleteInv

\* Steps that move one task forward and touch no file: what a step has to
\* show for its own report is enough for all of them.
LEMMA TaskMoves ==
    ASSUME IInv, NEW r \in Report, UNCHANGED <<files, delete, excused>>,
           NEW pc \in {"posted", "working", "uploaded", "failing", "ended"}, Goto(r, pc),
           NEW v \in Rows, row' = [row EXCEPT ![r] = v],
           Past(r) => pc \in {"failing", "ended"},
           pc = "uploaded" => Kept(r),
           v.named => Past(r) /\ (row[r].named \/ task[r].pc = "uploaded"),
           v.status = "ready" => v.named,
           v.status = "deleted" => row[r].status = "deleted"
    PROVE  IInv'
  <1>1. /\ task' \in [Report -> Tasks] /\ task'[r].pc = pc /\ task'[r].at = task[r].at
        /\ \A q \in Report \ {r} : task'[q] = task[q]
    BY DEF IInv, ReportsTypeOK, Goto, Tasks
  <1>2. /\ row' \in [Report -> Rows] /\ row'[r] = v
        /\ \A q \in Report \ {r} : row'[q] = row[q]
    BY DEF IInv, ReportsTypeOK
  <1>3. bucket' = bucket /\ memory' = memory /\ removed' = removed /\ excused' = excused
        /\ refused' = refused /\ delete' = delete
    BY DEF files
  <1>4. ReportsTypeOK'
    BY <1>1, <1>2, <1>3 DEF IInv, ReportsTypeOK
  <1>5. \A q \in Report : /\ Past(q) => Past(q)'
                          /\ (Stored(q)' <=> Stored(q)) /\ (Kept(q)' <=> Kept(q))
    BY <1>1, <1>3 DEF Past, Stored, Kept
  <1>6. ASSUME NEW q \in Report
        PROVE  (RowInv(q) /\ FileInv(q) /\ RemovalInv(q))'
    <2>1. CASE q = r
      <3>1. v.named => pc \in {"failing", "ended"}
        OBVIOUS
      <3>2. RowInv(q)'
        BY <1>1, <1>2, <2>1, <3>1 DEF RowInv, Past
      <3>3. FileInv(q)'
        BY <1>1, <1>2, <1>3, <1>5, <2>1 DEF IInv, FileInv
      <3>4. RemovalInv(q)'
        BY <1>2, <1>3, <1>5, <2>1 DEF IInv, RemovalInv, Cleared
      <3>5. QED
        BY <3>2, <3>3, <3>4
    <2>2. CASE q # r
      BY <1>1, <1>2, <1>3, <1>5, <2>2 DEF IInv, RowInv, FileInv, RemovalInv, Cleared, Past
    <2>3. QED
      BY <2>1, <2>2
  <1>7. \A d \in Deleter : delete[d].report \in Report
    BY DEF IInv, ReportsTypeOK, Deletes
  <1>8. \A d \in Deleter : DeleteInv(d)'
    BY <1>3, <1>5, <1>7 DEF IInv, DeleteInv, Cleared
  <1>9. QED
    BY <1>4, <1>6, <1>8 DEF IInv

\* An UPDATE writes a well-formed row, and never brings a deleted one back.
LEMMA StatusWritten ==
    ASSUME ReportsTypeOK, NEW r \in Report, NEW s \in {"ready", "failed"}, NEW n \in BOOLEAN,
           SetStatus(r, s, n)
    PROVE  \E v \in Rows :
              /\ row' = [row EXCEPT ![r] = v]
              /\ \/ v = row[r] /\ ~Listed(r)
                 \/ v.status = s /\ v.named = n
              /\ v.status = "deleted" => row[r].status = "deleted"
  <1>1. row[r] \in Rows /\ row = [row EXCEPT ![r] = row[r]]
    BY DEF ReportsTypeOK
  <1>2. CASE Listed(r)
    <2>1. [status |-> s, named |-> n] \in Rows
      BY DEF Rows
    <2>2. row' = [row EXCEPT ![r] = [status |-> s, named |-> n]]
      BY <1>2 DEF SetStatus
    <2>3. QED
      BY <2>1, <2>2
  <1>3. CASE ~Listed(r)
    BY <1>1, <1>3 DEF SetStatus
  <1>4. QED
    BY <1>2, <1>3

LEMMA InsertJobStep ==
    ASSUME IInv, NEW r \in Report, InsertJob(r)
    PROVE  IInv'
  <1> DEFINE v == [row[r] EXCEPT !.status = "generating"]
  <1>1. row[r] \in Rows /\ ~Past(r) /\ ~row[r].named
    BY DEF IInv, ReportsTypeOK, RowInv, InsertJob, Past
  <1>2. v \in Rows /\ v.status = "generating" /\ v.named = row[r].named
    BY <1>1 DEF Rows
  <1>3. row' = [row EXCEPT ![r] = v]
    BY DEF InsertJob
  <1>4. UNCHANGED <<files, delete, excused>> /\ Goto(r, "posted")
    BY DEF InsertJob
  <1> HIDE DEF v
  <1>5. QED
    BY <1>1, <1>2, <1>3, <1>4, TaskMoves

\* Steps of a task that leave its row alone.
LEMMA RowLeftAlone ==
    ASSUME IInv, NEW r \in Report, UNCHANGED <<row, files, delete, excused>>,
           NEW pc \in {"working", "failing", "ended"}, Goto(r, pc),
           Past(r) => pc \in {"failing", "ended"}
    PROVE  IInv'
  <1>1. row[r] \in Rows /\ row' = [row EXCEPT ![r] = row[r]]
    BY DEF IInv, ReportsTypeOK
  <1>2. /\ row[r].named => Past(r)
        /\ row[r].status = "ready" => row[r].named
    BY DEF IInv, RowInv
  <1>3. UNCHANGED <<files, delete, excused>>
    OBVIOUS
  <1>4. QED
    BY <1>1, <1>2, <1>3, TaskMoves

LEMMA MarkStep ==
    ASSUME IInv, NEW r \in Report, UNCHANGED <<files, delete, excused>>,
           NEW pc \in {"failing", "ended"}, Goto(r, pc),
           \/ task[r].pc = "uploaded" /\ SetStatus(r, "ready", TRUE)
           \/ task[r].pc = "failing" /\ SetStatus(r, "failed", row[r].named)
    PROVE  IInv'
  <1>1. ReportsTypeOK /\ row[r].named \in BOOLEAN
    BY DEF IInv, ReportsTypeOK, Rows
  <1>2. Past(r)
    BY DEF Past
  <1>3. row[r].status = "ready" => row[r].named
    BY DEF IInv, RowInv
  <1>4. CASE task[r].pc = "uploaded" /\ SetStatus(r, "ready", TRUE)
    <2>1. PICK v \in Rows :
              /\ row' = [row EXCEPT ![r] = v]
              /\ \/ v = row[r] /\ ~Listed(r)
                 \/ v.status = "ready" /\ v.named = TRUE
              /\ v.status = "deleted" => row[r].status = "deleted"
      BY <1>1, <1>4, StatusWritten
    <2>2. QED
      BY <1>2, <1>3, <1>4, <2>1, TaskMoves
  <1>5. CASE task[r].pc = "failing" /\ SetStatus(r, "failed", row[r].named)
    <2>1. PICK v \in Rows :
              /\ row' = [row EXCEPT ![r] = v]
              /\ \/ v = row[r] /\ ~Listed(r)
                 \/ v.status = "failed" /\ v.named = row[r].named
              /\ v.status = "deleted" => row[r].status = "deleted"
      BY <1>1, <1>5, StatusWritten
    <2>2. QED
      BY <1>2, <1>3, <1>5, <2>1, TaskMoves
  <1>6. QED
    BY <1>4, <1>5

LEMMA UploadStep ==
    ASSUME IInv, NEW r \in Report, Upload(r)
    PROVE  IInv'
  <1>1. /\ task' \in [Report -> Tasks] /\ task'[r].pc = "uploaded" /\ ~Past(r) /\ Past(r)'
        /\ \A q \in Report \ {r} : task'[q] = task[q]
        /\ task[r].pc # "none" /\ task[r].at \in Instance /\ task'[r].at = task[r].at
    BY DEF IInv, ReportsTypeOK, Upload, Goto, Tasks, Past
  <1>2. row' = row /\ delete' = delete /\ removed' = removed
    BY DEF Upload
  <1>3. \/ /\ bucket' = bucket \cup {r} /\ memory' = memory /\ excused' = excused
           /\ refused' = refused
        \/ /\ memory' = [memory EXCEPT ![task[r].at] = @ \cup {r}]
           /\ bucket' \in {bucket, bucket \cup {r}}
           /\ excused' = excused \cup {r} /\ refused' = refused \cup {r}
    BY DEF Upload
  <1>4. memory' \in [Instance -> SUBSET Report] /\ bucket' \subseteq Report
        /\ excused' \subseteq Report /\ refused' \subseteq Report
    BY <1>1, <1>3 DEF IInv, ReportsTypeOK
  <1>5. ReportsTypeOK'
    BY <1>1, <1>2, <1>4 DEF IInv, ReportsTypeOK
  <1>6. /\ Stored(r)'
        /\ \A q \in Report \ {r} : (Stored(q)' <=> Stored(q)) /\ (Past(q)' <=> Past(q))
        /\ excused \subseteq excused'
        /\ \A q \in Report, i \in Instance : q \in memory'[i] => q \in memory[i] \/ q \in excused'
    BY <1>1, <1>3 DEF IInv, ReportsTypeOK, Stored, Past
  <1>11. Kept(r)' /\ \A q \in Report : Kept(q) => Kept(q)'
    <2>1. \A q \in Report, i \in Instance : q \in memory[i] => q \in memory'[i]
      BY <1>1, <1>3 DEF IInv, ReportsTypeOK
    <2>2. r \in bucket' \/ (r \in refused' /\ r \in memory'[task'[r].at])
      BY <1>1, <1>3 DEF IInv, ReportsTypeOK
    <2>3. ASSUME NEW q \in Report, q # r, Kept(q) PROVE Kept(q)'
      <3>1. task'[q] = task[q] /\ task[q].at \in Instance
        BY <1>1, <2>3 DEF IInv, ReportsTypeOK, Tasks
      <3>2. bucket \subseteq bucket' /\ refused \subseteq refused' /\ removed' = removed
        BY <1>2, <1>3
      <3>3. QED
        BY <2>1, <2>3, <3>1, <3>2 DEF Kept
    <2>4. QED
      BY <2>2, <2>3 DEF Kept
  <1>7. ASSUME NEW q \in Report
        PROVE  (RowInv(q) /\ FileInv(q) /\ RemovalInv(q))'
    <2>1. RowInv(q)'
      BY <1>1, <1>2, <1>6 DEF IInv, RowInv
    <2>2. FileInv(q)'
      <3>1. task'[q].pc = "uploaded" => q = r \/ task[q].pc = "uploaded"
        BY <1>1
      <3>2. QED
        BY <1>2, <1>6, <1>11, <3>1 DEF IInv, FileInv
    <2>3. RemovalInv(q)'
      BY <1>1, <1>2, <1>6 DEF IInv, RemovalInv, Cleared
    <2>4. QED
      BY <2>1, <2>2, <2>3
  <1>8. \A d \in Deleter : delete[d].report \in Report
    BY DEF IInv, ReportsTypeOK, Deletes
  <1>9. \A d \in Deleter : DeleteInv(d)'
    BY <1>1, <1>2, <1>6, <1>8 DEF IInv, DeleteInv, Cleared
  <1>10. QED
    BY <1>5, <1>7, <1>9 DEF IInv

-----------------------------------------------------------------------------

\* The record of one DELETE after a step that only moves it on.
LEMMA Served ==
    ASSUME ReportsTypeOK, NEW d \in Deleter, NEW pc \in {"idle", "row"}, Advance(d, pc)
    PROVE  /\ delete' \in [Deleter -> Deletes]
           /\ delete'[d].pc = pc /\ delete'[d].report = delete[d].report
           /\ \A e \in Deleter \ {d} : delete'[e] = delete[e]
           /\ \A e \in Deleter : delete[e].report \in Report
  BY DEF ReportsTypeOK, Advance, Deletes

LEMMA ReadRowStep ==
    ASSUME IInv, NEW d \in Deleter, NEW r \in Report, NEW i \in Instance, ReadRow(d, r, i)
    PROVE  IInv'
  <1>1. row' = row /\ task' = task /\ bucket' = bucket /\ memory' = memory /\ removed' = removed
        /\ refused' = refused
    BY DEF ReadRow, files
  <1>2. excused' = IF row[r].named THEN excused ELSE excused \cup {r}
    BY DEF ReadRow
  <1>3. delete' = [delete EXCEPT ![d] =
                     [pc |-> IF row[r].named THEN "file" ELSE "row", report |-> r, at |-> i]]
    BY DEF ReadRow
  <1>4. [pc |-> IF row[r].named THEN "file" ELSE "row", report |-> r, at |-> i] \in Deletes
    BY DEF Deletes
  <1>5. /\ delete' \in [Deleter -> Deletes] /\ excused \subseteq excused'
        /\ excused' \subseteq Report
    BY <1>2, <1>3, <1>4 DEF IInv, ReportsTypeOK
  <1>6. ReportsTypeOK'
    BY <1>1, <1>5 DEF IInv, ReportsTypeOK
  <1>7. \A q \in Report : /\ Past(q)' <=> Past(q)
                          /\ (Stored(q)' <=> Stored(q)) /\ (Kept(q)' <=> Kept(q))
    BY <1>1 DEF Past, Stored, Kept
  <1>8. \A q \in Report : RowInv(q)' /\ FileInv(q)' /\ RemovalInv(q)'
    BY <1>1, <1>5, <1>7 DEF IInv, RowInv, FileInv, RemovalInv, Cleared
  <1>9. DeleteInv(d)'
    <2>1. delete'[d] = [pc |-> IF row[r].named THEN "file" ELSE "row", report |-> r, at |-> i]
      BY <1>3 DEF IInv, ReportsTypeOK
    <2>2. CASE row[r].named
      BY <1>7, <2>1, <2>2 DEF IInv, RowInv, DeleteInv
    <2>3. CASE ~row[r].named
      BY <1>2, <2>1, <2>3 DEF DeleteInv
    <2>4. QED
      BY <2>2, <2>3
  <1>10. ASSUME NEW e \in Deleter, e # d
         PROVE  DeleteInv(e)'
    <2>1. delete'[e] = delete[e] /\ delete[e].report \in Report
      BY <1>3, <1>10 DEF IInv, ReportsTypeOK, Deletes
    <2>2. QED
      BY <1>5, <1>7, <2>1 DEF IInv, DeleteInv, Cleared
  <1>11. QED
    BY <1>6, <1>8, <1>9, <1>10 DEF IInv

LEMMA DeleteFileStep ==
    ASSUME IInv, NEW d \in Deleter, DeleteFile(d)
    PROVE  IInv'
  <1>0. PICK r \in Report : r = delete[d].report
    BY DEF IInv, ReportsTypeOK, Deletes
  <1>1. /\ row' = row /\ task' = task /\ removed' = removed \cup {r} /\ refused' = refused
        /\ memory' = [memory EXCEPT ![delete[d].at] = @ \ {r}]
        /\ delete[d].pc = "file" /\ Advance(d, "row")
    BY <1>0 DEF DeleteFile
  <1>2. \/ bucket' = bucket \ {r} /\ excused' = excused
        \/ bucket' = bucket /\ excused' = excused \cup {r}
    BY <1>0 DEF DeleteFile
  <1>3. /\ delete' \in [Deleter -> Deletes]
        /\ delete'[d].pc = "row" /\ delete'[d].report = r
        /\ \A e \in Deleter \ {d} : delete'[e] = delete[e]
        /\ \A e \in Deleter : delete[e].report \in Report
    BY <1>0, <1>1, Served DEF IInv
  <1>4. ReportsTypeOK'
    BY <1>1, <1>2, <1>3 DEF IInv, ReportsTypeOK, Deletes
  <1>5. excused \subseteq excused' /\ \A i \in Instance : memory'[i] \subseteq memory[i]
    BY <1>1, <1>2 DEF IInv, ReportsTypeOK, Deletes
  <1>6. \A q \in Report : /\ Past(q)' <=> Past(q)
                          /\ Stored(q)' => Stored(q)
    BY <1>1, <1>2, <1>5 DEF Past, Stored
  <1>12. ASSUME NEW q \in Report, Kept(q) PROVE Kept(q)'
    <2>1. CASE q = r
      BY <1>1, <2>1 DEF Kept
    <2>2. CASE q # r
      <3>1. task[q].at \in Instance /\ \A i \in Instance : q \in memory[i] => q \in memory'[i]
        BY <1>1, <2>2 DEF IInv, ReportsTypeOK, Tasks
      <3>2. q \in bucket => q \in bucket'
        BY <1>2, <2>2
      <3>3. QED
        BY <1>1, <1>12, <3>1, <3>2 DEF Kept
    <2>3. QED
      BY <2>1, <2>2
  <1>7. \A q \in Report : RowInv(q)' /\ FileInv(q)' /\ RemovalInv(q)'
    BY <1>1, <1>5, <1>6, <1>12 DEF IInv, RowInv, FileInv, RemovalInv, Cleared
  <1>8. r \in excused' \/ Cleared(r)'
    <2>1. CASE bucket' = bucket /\ excused' = excused \cup {r}
      BY <2>1
    <2>2. CASE bucket' = bucket \ {r} /\ excused' = excused
      <3>1. Past(r)' /\ r \notin bucket'
        BY <1>0, <1>1, <1>6, <2>2 DEF IInv, DeleteInv
      <3>2. (\E i \in Instance : r \in memory[i]) => r \in excused
        BY DEF IInv, FileInv
      <3>3. QED
        BY <1>5, <2>2, <3>1, <3>2 DEF Cleared, Stored
    <2>3. QED
      BY <1>2, <2>1, <2>2
  <1>9. DeleteInv(d)'
    BY <1>3, <1>8 DEF DeleteInv
  <1>10. \A e \in Deleter \ {d} : DeleteInv(e)'
    BY <1>3, <1>5, <1>6 DEF IInv, DeleteInv, Cleared
  <1>11. QED
    BY <1>4, <1>7, <1>9, <1>10 DEF IInv

LEMMA DeleteRowStep ==
    ASSUME IInv, NEW d \in Deleter, DeleteRow(d)
    PROVE  IInv'
  <1> DEFINE r == delete[d].report
  <1>1. /\ row' = IF Listed(r) THEN [row EXCEPT ![r].status = "deleted"] ELSE row
        /\ delete[d].pc = "row" /\ Advance(d, "idle")
        /\ UNCHANGED <<task, files, excused>>
    BY DEF DeleteRow
  <1>2. task' = task /\ bucket' = bucket /\ memory' = memory /\ removed' = removed
        /\ excused' = excused /\ refused' = refused
    BY <1>1 DEF files
  <1>3. /\ delete' \in [Deleter -> Deletes]
        /\ delete'[d].pc = "idle"
        /\ \A e \in Deleter \ {d} : delete'[e] = delete[e]
        /\ \A e \in Deleter : delete[e].report \in Report
    BY <1>1, Served DEF IInv
  <1>4. /\ row' \in [Report -> Rows]
        /\ \A q \in Report : /\ row'[q].named = row[q].named
                             /\ \/ row'[q].status = row[q].status
                                \/ q = r /\ Listed(q) /\ row'[q].status = "deleted"
    BY <1>1, <1>3 DEF IInv, ReportsTypeOK, Rows
  <1>5. ReportsTypeOK'
    BY <1>2, <1>3, <1>4 DEF IInv, ReportsTypeOK
  <1>6. \A q \in Report : /\ Past(q)' <=> Past(q)
                          /\ (Stored(q)' <=> Stored(q)) /\ (Kept(q)' <=> Kept(q))
    BY <1>2 DEF Past, Stored, Kept
  <1>7. ASSUME NEW q \in Report
        PROVE  (RowInv(q) /\ FileInv(q) /\ RemovalInv(q))'
    <2>1. RowInv(q)'
      BY <1>2, <1>4, <1>6 DEF IInv, RowInv, Listed
    <2>2. FileInv(q)'
      BY <1>2, <1>4, <1>6 DEF IInv, FileInv
    <2>3. RemovalInv(q)'
      BY <1>1, <1>2, <1>4, <1>6 DEF IInv, RemovalInv, DeleteInv, Cleared
    <2>4. QED
      BY <2>1, <2>2, <2>3
  <1>8. \A e \in Deleter : DeleteInv(e)'
    BY <1>2, <1>3, <1>6 DEF IInv, DeleteInv, Cleared
  <1>9. QED
    BY <1>5, <1>7, <1>8 DEF IInv

LEMMA DeleteFailsStep ==
    ASSUME IInv, NEW d \in Deleter, DeleteFails(d)
    PROVE  IInv'
  <1>1. row' = row /\ task' = task /\ bucket' = bucket /\ memory' = memory
        /\ removed' = removed /\ excused' = excused /\ refused' = refused /\ Advance(d, "idle")
    BY DEF DeleteFails, files
  <1>2. /\ delete' \in [Deleter -> Deletes]
        /\ delete'[d].pc = "idle"
        /\ \A e \in Deleter \ {d} : delete'[e] = delete[e]
        /\ \A e \in Deleter : delete[e].report \in Report
    BY <1>1, Served DEF IInv
  <1>3. ReportsTypeOK'
    BY <1>1, <1>2 DEF IInv, ReportsTypeOK
  <1>4. \A q \in Report : /\ Past(q)' <=> Past(q)
                          /\ (Stored(q)' <=> Stored(q)) /\ (Kept(q)' <=> Kept(q))
    BY <1>1 DEF Past, Stored, Kept
  <1>5. \A q \in Report : RowInv(q)' /\ FileInv(q)' /\ RemovalInv(q)'
    BY <1>1, <1>4 DEF IInv, RowInv, FileInv, RemovalInv, Cleared
  <1>6. \A e \in Deleter : DeleteInv(e)'
    BY <1>1, <1>2, <1>4 DEF IInv, DeleteInv, Cleared
  <1>7. QED
    BY <1>3, <1>5, <1>6 DEF IInv

LEMMA StopStep ==
    ASSUME IInv, NEW i \in Instance, Stop(i)
    PROVE  IInv'
  <1>1. /\ row' = row /\ bucket' = bucket /\ excused' = excused /\ refused' = refused
        /\ memory' = [memory EXCEPT ![i] = {}] /\ removed' = removed \cup memory[i]
    BY DEF Stop
  <1>2. /\ task' \in [Report -> Tasks]
        /\ \A q \in Report : task'[q] = task[q] \/ (task[q].pc # "none" /\ task'[q].pc = "ended")
        /\ \A q \in Report : task'[q].at = task[q].at
    <2>1. ASSUME NEW q \in Report
          PROVE  /\ task'[q] \in Tasks
                 /\ task'[q] = task[q] \/ (task[q].pc # "none" /\ task'[q].pc = "ended")
                 /\ task'[q].at = task[q].at
      <3>1. task[q] \in Tasks
        BY DEF IInv, ReportsTypeOK
      <3>2. [task[q] EXCEPT !.pc = "ended"] \in Tasks
            /\ [task[q] EXCEPT !.pc = "ended"].pc = "ended"
            /\ [task[q] EXCEPT !.pc = "ended"].at = task[q].at
        BY <3>1 DEF Tasks
      <3>3. task'[q] = IF task[q].at = i /\ task[q].pc # "none"
                       THEN [task[q] EXCEPT !.pc = "ended"] ELSE task[q]
        BY DEF Stop
      <3>4. QED
        BY <3>1, <3>2, <3>3
    <2>2. QED
      BY <2>1 DEF Stop
  <1>3. /\ delete' \in [Deleter -> Deletes]
        /\ \A d \in Deleter : delete'[d] = delete[d] \/ delete'[d].pc = "idle"
        /\ \A d \in Deleter : delete[d].report \in Report
    BY DEF IInv, ReportsTypeOK, Stop, Deletes
  <1>4. ReportsTypeOK'
    BY <1>1, <1>2, <1>3 DEF IInv, ReportsTypeOK
  <1>5. \A q \in Report : /\ Past(q) => Past(q)'
                          /\ Past(q)' => Past(q) \/ task'[q].pc = "ended"
                          /\ Stored(q)' => Stored(q)
    BY <1>1, <1>2 DEF Past, Stored, IInv, ReportsTypeOK
  <1>6. ASSUME NEW q \in Report, Kept(q) PROVE Kept(q)'
    <2>1. task[q].at \in Instance /\ task'[q].at = task[q].at
      BY <1>2 DEF IInv, ReportsTypeOK, Tasks
    <2>2. q \in memory[task[q].at] => q \in memory'[task[q].at] \/ q \in removed'
      BY <1>1, <2>1 DEF IInv, ReportsTypeOK
    <2>3. QED
      BY <1>1, <1>6, <2>1, <2>2 DEF Kept
  <1>7. ASSUME NEW q \in Report
        PROVE  (RowInv(q) /\ FileInv(q) /\ RemovalInv(q))'
    <2>1. RowInv(q)'
      BY <1>1, <1>2, <1>5 DEF IInv, RowInv
    <2>2. FileInv(q)'
      <3>1. row[q].named \/ task[q].pc = "uploaded" => Kept(q)
        BY DEF IInv, FileInv
      <3>2. task'[q].pc = "uploaded" => task[q].pc = "uploaded"
        BY <1>2
      <3>3. (\E j \in Instance : q \in memory'[j]) => q \in excused'
        BY <1>1 DEF IInv, ReportsTypeOK, FileInv
      <3>4. QED
        BY <1>1, <1>6, <3>1, <3>2, <3>3 DEF FileInv
    <2>3. RemovalInv(q)'
      BY <1>1, <1>5 DEF IInv, RemovalInv, Cleared
    <2>4. QED
      BY <2>1, <2>2, <2>3
  <1>8. \A d \in Deleter : DeleteInv(d)'
    BY <1>1, <1>3, <1>5 DEF IInv, DeleteInv, Cleared
  <1>9. QED
    BY <1>4, <1>7, <1>8 DEF IInv

-----------------------------------------------------------------------------

LEMMA TaskStepStep ==
    ASSUME IInv, NEW r \in Report, PostFails(r) \/ TaskStep(r)
    PROVE  IInv'
  <1>1. CASE PostFails(r)
    BY <1>1, RowLeftAlone DEF PostFails
  <1>2. CASE StartTask(r)
    BY <1>2, RowLeftAlone DEF StartTask, Past
  <1>3. CASE Upload(r)
    BY <1>3, UploadStep
  <1>4. CASE GenerateFails(r)
    BY <1>4, RowLeftAlone DEF GenerateFails
  <1>5. CASE MarkReady(r)
    BY <1>5, MarkStep DEF MarkReady
  <1>6. CASE MarkReadyFails(r)
    <2>1. CASE SetStatus(r, "ready", TRUE)
      BY <1>6, <2>1, MarkStep DEF MarkReadyFails
    <2>2. CASE row' = row
      BY <1>6, <2>2, RowLeftAlone DEF MarkReadyFails
    <2>3. QED
      BY <1>6, <2>1, <2>2 DEF MarkReadyFails
  <1>7. CASE MarkFailed(r)
    BY <1>7, MarkStep DEF MarkFailed
  <1>8. CASE MarkFailedFails(r)
    BY <1>8, RowLeftAlone DEF MarkFailedFails
  <1>9. QED
    BY <1>1, <1>2, <1>3, <1>4, <1>5, <1>6, <1>7, <1>8 DEF TaskStep

LEMMA IInvStep == IInv /\ [ReportsNext]_reportsVars => IInv'
  <1> SUFFICES ASSUME IInv, [ReportsNext]_reportsVars
               PROVE  IInv'
    OBVIOUS
  <1>1. CASE UNCHANGED reportsVars
    BY <1>1 DEF reportsVars, IInv, ReportsTypeOK, RowInv, FileInv, RemovalInv, DeleteInv,
                Cleared, Past, Stored, Kept
  <1>2. ASSUME NEW r \in Report, InsertJob(r) \/ PostFails(r) \/ TaskStep(r)
        PROVE  IInv'
    BY <1>2, InsertJobStep, TaskStepStep
  <1>3. ASSUME NEW d \in Deleter,
               \/ \E r \in Report, i \in Instance : ReadRow(d, r, i)
               \/ DeleteFile(d) \/ DeleteRow(d) \/ DeleteFails(d)
        PROVE  IInv'
    BY <1>3, ReadRowStep, DeleteFileStep, DeleteRowStep, DeleteFailsStep
  <1>4. ASSUME NEW i \in Instance, Stop(i)
        PROVE  IInv'
    BY <1>4, StopStep
  <1>5. QED
    BY <1>1, <1>2, <1>3, <1>4 DEF ReportsNext

LEMMA Invariance == ReportsSpec => []IInv
  BY IInvInit, IInvStep, PTL DEF ReportsSpec

\* Rows, tasks and DELETE requests keep their type.
THEOREM TypeCorrect == ReportsSpec => []ReportsTypeOK
  <1>1. IInv => ReportsTypeOK
    BY DEF IInv
  <1>2. QED
    BY Invariance, <1>1, PTL

\* Whatever fails and whenever processes stop, a ready row names a file that
\* is there, unless a DELETE or a stopped process's memory took it away.
THEOREM ReadyHasFileHolds == ReportsSpec => []ReadyHasFile
  <1>1. ASSUME IInv, NEW r \in Report, Kept(r) PROVE Stored(r) \/ r \in removed
    <2>1. task[r].at \in Instance
      BY <1>1 DEF IInv, ReportsTypeOK, Tasks
    <2>2. QED
      BY <1>1, <2>1 DEF Kept, Stored
  <1>2. IInv => ReadyHasFile
    BY <1>1 DEF IInv, RowInv, FileInv, ReadyHasFile
  <1>3. QED
    BY Invariance, <1>2, PTL

\* Whatever fails, and whenever processes stop, a ready report is downloadable
\* from every process; or from the one of its task alone, if the bucket refused
\* the file; or a DELETE or a stop has taken the file away.
THEOREM ReadyIsDownloadableHolds == ReportsSpec => []ReadyIsDownloadable
  <1>1. IInv => ReadyIsDownloadable
    BY DEF IInv, RowInv, FileInv, Kept, ReadyIsDownloadable
  <1>2. QED
    BY Invariance, <1>1, PTL

\* A file outlives its row only for one of the three excuses.
THEOREM OrphanNeedsExcuseHolds == ReportsSpec => []OrphanNeedsExcuse
  <1>1. IInv => OrphanNeedsExcuse
    BY DEF IInv, RemovalInv, Cleared, OrphanNeedsExcuse
  <1>2. QED
    BY Invariance, <1>1, PTL

\* Tasks that are still running never bring a deleted report back.
THEOREM DeletedStaysDeletedHolds == ReportsSpec => DeletedStaysDeleted
  <1>1. ASSUME IInv, [ReportsNext]_reportsVars, NEW r \in Report, row[r].status = "deleted"
        PROVE  row'[r].status = "deleted"
    <2>1. row \in [Report -> Rows] /\ task[r].pc # "none"
      BY <1>1 DEF IInv, ReportsTypeOK, RowInv
    <2>2. ASSUME NEW q \in Report, NEW s, NEW n, SetStatus(q, s, n)
          PROVE  row'[r].status = "deleted"
      BY <1>1, <2>1, <2>2 DEF SetStatus, Listed
    <2>3. ASSUME NEW q \in Report, InsertJob(q) \/ PostFails(q) \/ TaskStep(q)
          PROVE  row'[r].status = "deleted"
      BY <1>1, <2>1, <2>2, <2>3
         DEF InsertJob, PostFails, TaskStep, StartTask, Upload, GenerateFails, MarkReady,
             MarkReadyFails, MarkFailed, MarkFailedFails
    <2>4. ASSUME NEW d \in Deleter,
                 \/ \E q \in Report, i \in Instance : ReadRow(d, q, i)
                 \/ DeleteFile(d) \/ DeleteRow(d) \/ DeleteFails(d)
          PROVE  row'[r].status = "deleted"
      BY <1>1, <2>1, <2>4 DEF ReadRow, DeleteFile, DeleteRow, DeleteFails, Listed
    <2>5. CASE UNCHANGED reportsVars \/ \E i \in Instance : Stop(i)
      BY <1>1, <2>5 DEF reportsVars, Stop
    <2>6. QED
      BY <1>1, <2>3, <2>4, <2>5 DEF ReportsNext
  <1>2. IInv /\ [ReportsNext]_reportsVars =>
            [\A r \in Report : row[r].status = "deleted" => row'[r].status = "deleted"]_reportsVars
    BY <1>1
  <1>3. QED
    BY Invariance, <1>2, PTL DEF ReportsSpec, DeletedStaysDeleted

LEMMA StillBeingGeneratedStep ==
    ASSUME Reliable, ReportsTypeOK, StillBeingGenerated, [ReportsNext]_reportsVars
    PROVE  StillBeingGenerated'
  <1> SUFFICES ASSUME NEW r \in Report, row'[r].status = "generating"
               PROVE  task'[r].pc \notin {"none", "ended"}
    BY DEF StillBeingGenerated
  <1>1. row[r] \in Rows /\ task[r] \in Tasks /\ task \in [Report -> Tasks]
        /\ row \in [Report -> Rows]
    BY DEF ReportsTypeOK
  <1>2. row[r].status = "generating" => task[r].pc \notin {"none", "ended"}
    BY DEF StillBeingGenerated
  <1>3. ASSUME NEW q \in Report, InsertJob(q) \/ PostFails(q) \/ TaskStep(q)
        PROVE  task'[r].pc \notin {"none", "ended"}
    <2>1. CASE InsertJob(q) \/ StartTask(q) \/ Upload(q) \/ GenerateFails(q)
      <3>1. PICK pc \in {"posted", "working", "uploaded", "failing"} : Goto(q, pc)
        BY <2>1 DEF InsertJob, StartTask, Upload, GenerateFails
      <3>2. CASE q = r
        BY <1>1, <3>1, <3>2 DEF Goto
      <3>3. CASE q # r
        <4>1. row'[r] = row[r]
          BY <1>1, <2>1, <3>3 DEF InsertJob, StartTask, Upload, GenerateFails
        <4>2. QED
          BY <1>1, <1>2, <3>1, <3>3, <4>1 DEF Goto
      <3>4. QED
        BY <3>2, <3>3
    <2>2. ASSUME NEW s \in {"ready", "failed"}, NEW n, SetStatus(q, s, n), Goto(q, "ended")
          PROVE  task'[r].pc \notin {"none", "ended"}
      <3>1. q # r
        BY <1>1, <2>2 DEF SetStatus, Listed
      <3>2. QED
        BY <1>1, <1>2, <2>2, <3>1 DEF SetStatus, Goto
    <2>3. CASE MarkReady(q) \/ MarkFailed(q)
      BY <2>2, <2>3 DEF MarkReady, MarkFailed
    <2>4. QED
      BY <1>3, <2>1, <2>3 DEF PostFails, TaskStep, MarkReadyFails, MarkFailedFails
  <1>4. ASSUME NEW d \in Deleter,
               \/ \E q \in Report, i \in Instance : ReadRow(d, q, i)
               \/ DeleteFile(d) \/ DeleteRow(d) \/ DeleteFails(d)
        PROVE  task'[r].pc \notin {"none", "ended"}
    <2>1. task' = task
      BY <1>4 DEF ReadRow, DeleteFile, DeleteRow, DeleteFails
    <2>2. CASE row' = row
      BY <1>2, <2>1, <2>2
    <2>3. CASE DeleteRow(d)
      BY <1>1, <1>2, <2>1, <2>3 DEF DeleteRow, Deletes, ReportsTypeOK
    <2>4. QED
      BY <1>4, <2>2, <2>3 DEF ReadRow, DeleteFile, DeleteFails
  <1>5. CASE UNCHANGED reportsVars
    BY <1>2, <1>5 DEF reportsVars
  <1>6. QED
    BY <1>3, <1>4, <1>5 DEF ReportsNext, Stop

\* As long as statements answer and processes stay, "still being generated"
\* is told only of a report that a request or a task is working on.
THEOREM StillBeingGeneratedHolds ==
    ASSUME Reliable
    PROVE  ReportsSpec => []StillBeingGenerated
  <1>1. ReportsInit => StillBeingGenerated
    BY DEF ReportsInit, StillBeingGenerated
  <1>2. ReportsTypeOK /\ StillBeingGenerated /\ [ReportsNext]_reportsVars => StillBeingGenerated'
    BY StillBeingGeneratedStep
  <1>3. QED
    BY TypeCorrect, <1>1, <1>2, PTL DEF ReportsSpec

-----------------------------------------------------------------------------
(* The page.                                                               *)

\* Every step of the page and of the others is one of the reports or none.
LEMMA PageStepIsStep ==
    ASSUME [ReportsPageNext]_reportsPageVars
    PROVE  [ReportsNext]_reportsVars
  <1>1. CASE \/ \E e \in Event : ChooseEvent(e)
             \/ ClearEvent
             \/ \E k \in Load : Poll(k) \/ Refresh(k)
             \/ \E k \in Request : ReadList(k) \/ ListArrives(k) \/ ListFails(k)
             \/ UNCHANGED reportsPageVars
    BY <1>1 DEF ChooseEvent, ClearEvent, Poll, Refresh, ReadList, ListArrives, ListFails,
                Loaded, reportsPageVars
  <1>2. CASE \E r \in Report : Generate(r) \/ PostAnswered(r)
    BY <1>2 DEF Generate, PostAnswered, ReportsNext, TaskStep
  <1>3. CASE \/ \E r \in Report, d \in Mine : PressDelete(d, r)
             \/ \E d \in Mine : DeleteAnswered(d)
    BY <1>3, ReportsPageAssumption DEF PressDelete, DeleteAnswered, ReportsNext
  <1>4. CASE OthersStep
    BY <1>4 DEF OthersStep, ReportsNext, TaskStep
  <1>5. QED
    BY <1>1, <1>2, <1>3, <1>4 DEF ReportsPageNext

\* The page that lists reports asks nothing of the backend that the handlers
\* modelled in CompiledReports do not allow.
THEOREM ReportsPageKeepsContract == ReportsPageSpec => ReportsSpec
  <1>1. ReportsPageInit => ReportsInit
    BY DEF ReportsPageInit
  <1>2. QED
    BY <1>1, PageStepIsStep, PTL DEF ReportsPageSpec, ReportsSpec

Screens == [event : Event \cup {"none"}, list : [Report -> Shown],
            about : Event \cup {"none"}, loading : BOOLEAN, posting : SUBSET Report]

Loads == [phase : {"idle", "call", "sent", "read"}, of : Event, rows : [Report -> Shown]]

\* A request of the page that is being served has not loaded anything yet.
CallInv ==
    /\ screen.posting # {} => lists[Post].phase = "call"
    /\ \A d \in Mine : delete[d].pc # "idle" => lists[d].phase = "call"

\* Nothing in flight is of another event than the page shows.
FlightInv ==
    ~doubt /\ screen.event # "none" =>
        /\ \A k \in Request : lists[k] # Idle => lists[k].of = screen.event
        /\ Resting => screen.about = screen.event

PageInv ==
    /\ ReportsPageTypeOK
    /\ CallInv
    /\ FlightInv

LEMMA IdleIsLoad == Idle \in Loads /\ Idle.phase = "idle"
  BY DEF Idle, Loads, Event, NoRows, Shown

LEMMA PageInvInit == ReportsPageInit => PageInv
  <1> SUFFICES ASSUME ReportsPageInit PROVE PageInv
    OBVIOUS
  <1>1. ReportsInit /\ ReportsTypeOK
    BY IInvInit DEF ReportsPageInit, IInv
  <1>2. PICK first \in Load :
          lists = [k \in Request |-> IF k = first THEN [Idle EXCEPT !.phase = "sent"] ELSE Idle]
    BY DEF ReportsPageInit
  <1>3. [Idle EXCEPT !.phase = "sent"] \in Loads /\ [Idle EXCEPT !.phase = "sent"].of = "own"
        /\ [Idle EXCEPT !.phase = "sent"].phase = "sent"
    BY DEF Idle, Loads, Event, NoRows, Shown
  <1>4. screen \in Screens /\ screen.event = "own" /\ screen.about = "own"
        /\ screen.posting = {} /\ doubt = FALSE
    BY DEF ReportsPageInit, Screens, Event, NoRows, Shown
  <1>5. lists \in [Request -> Loads] /\ \A k \in Request : lists[k] # Idle => lists[k].of = "own"
    BY <1>2, <1>3, IdleIsLoad
  <1>6. ReportsPageTypeOK
    BY <1>1, <1>4, <1>5 DEF ReportsPageTypeOK, Screens, Loads
  <1>7. CallInv
    BY <1>1, <1>4, ReportsPageAssumption DEF ReportsInit, CallInv
  <1>8. QED
    BY <1>4, <1>5, <1>6, <1>7 DEF PageInv, FlightInv

\* Steps that change one of the page's requests, what they have to show.
LEMMA RequestMoves ==
    ASSUME PageInv, ReportsTypeOK', NEW k \in Request, NEW l \in Loads,
           lists' = [lists EXCEPT ![k] = l], screen' \in Screens, doubt' \in BOOLEAN,
           screen'.posting # {} =>
              IF k = Post THEN l.phase = "call" ELSE screen.posting # {},
           \A d \in Mine : delete'[d].pc # "idle" =>
              IF d = k THEN l.phase = "call" ELSE delete[d].pc # "idle",
           ~doubt' /\ screen'.event # "none" =>
              /\ Resting \/ (~doubt /\ screen.event = screen'.event)
              /\ IF l = Idle THEN screen'.about = screen'.event ELSE l.of = screen'.event
    PROVE  PageInv'
  <1>1. /\ lists' \in [Request -> Loads] /\ lists'[k] = l
        /\ \A q \in Request \ {k} : lists'[q] = lists[q]
    BY DEF PageInv, ReportsPageTypeOK, Loads
  <1>2. ReportsPageTypeOK'
    BY <1>1 DEF ReportsPageTypeOK, Screens, Loads
  <1>3. Post \in Request /\ Mine \subseteq Request
    BY DEF Request, Call
  <1>4. CallInv'
    BY <1>1, <1>3 DEF PageInv, CallInv
  <1>5. ASSUME ~doubt', screen'.event # "none"
        PROVE  /\ \A q \in Request : lists'[q] # Idle => lists'[q].of = screen'.event
               /\ Resting' => screen'.about = screen'.event
    <2>1. ASSUME NEW q \in Request, q # k, lists[q] # Idle
          PROVE  lists[q].of = screen'.event
      BY <1>5, <2>1 DEF PageInv, FlightInv, Resting
    <2>2. l # Idle => l.of = screen'.event
      BY <1>5
    <2>3. Resting' => l = Idle
      BY <1>1 DEF Resting, Idle, NoRows
    <2>4. QED
      BY <1>1, <1>5, <2>1, <2>2, <2>3
  <1>6. FlightInv'
    BY <1>5 DEF FlightInv, Idle, NoRows
  <1>7. QED
    BY <1>2, <1>4, <1>6 DEF PageInv

\* A load that is sent.
LEMMA SentIsLoad ==
    ASSUME NEW e \in Event
    PROVE  LET l == [Idle EXCEPT !.phase = "sent", !.of = e]
           IN  l \in Loads /\ l.phase = "sent" /\ l.of = e /\ l # Idle
  BY DEF Idle, Loads, NoRows, Shown

LEMMA PageFacts ==
    ASSUME PageInv
    PROVE  /\ screen \in Screens /\ lists \in [Request -> Loads] /\ doubt \in BOOLEAN
           /\ Post \in Request /\ Load \subseteq Request /\ Mine \subseteq Request
           /\ Mine \subseteq Deleter /\ Post \notin Load /\ Post \notin Mine
  BY ReportsPageAssumption DEF PageInv, ReportsPageTypeOK, Screens, Loads, Request, Call

LEMMA ChooseEventStep ==
    ASSUME PageInv, ReportsTypeOK', NEW e \in Event, ChooseEvent(e)
    PROVE  PageInv'
  <1> DEFINE l == [Idle EXCEPT !.phase = "sent", !.of = e]
  <1>1. PICK k \in Load : lists[k] = Idle /\ lists' = [lists EXCEPT ![k] = l]
    BY DEF ChooseEvent, Sent
  <1>2. l \in Loads /\ l.of = e /\ l # Idle
    BY SentIsLoad
  <1>3. /\ screen' \in Screens /\ screen'.event = e /\ screen'.posting = screen.posting
        /\ doubt' = ~Resting /\ delete' = delete
    BY PageFacts DEF ChooseEvent, Screens, reportsVars
  <1>4. \A d \in Mine : delete[d].pc # "idle" => d # k
    BY <1>1, IdleIsLoad DEF PageInv, CallInv
  <1> HIDE DEF l
  <1>5. QED
    BY <1>1, <1>2, <1>3, <1>4, PageFacts, RequestMoves

\* The interval and the button send a load of the event that is shown.
LEMMA LoadSentStep ==
    ASSUME PageInv, ReportsTypeOK', NEW k \in Load, Poll(k) \/ Refresh(k)
    PROVE  PageInv'
  <1> DEFINE l == [Idle EXCEPT !.phase = "sent", !.of = screen.event]
  <1>1. /\ lists[k] = Idle /\ lists' = [lists EXCEPT ![k] = l]
        /\ screen' = screen /\ doubt' = doubt /\ delete' = delete /\ screen.event # "none"
    BY DEF Poll, Refresh, Polling, Sent, reportsVars
  <1>2. screen.event \in Event
    BY <1>1, PageFacts DEF Screens
  <1>3. l \in Loads /\ l.of = screen.event /\ l # Idle
    BY <1>2, SentIsLoad
  <1>4. \A d \in Mine : delete[d].pc # "idle" => d # k
    BY <1>1, IdleIsLoad DEF PageInv, CallInv
  <1> HIDE DEF l
  <1>5. QED
    BY <1>1, <1>3, <1>4, PageFacts, RequestMoves

\* RowsOf is what list_reports answers, of rows of the right type.
LEMMA RowsShown ==
    ASSUME ReportsTypeOK, NEW e
    PROVE  RowsOf(e) \in [Report -> Shown]
  BY DEF ReportsTypeOK, Rows, RowsOf, Shown, Listed

\* A load of the page that was sent belongs to no request being served.
LEMMA NotServed ==
    ASSUME PageInv, NEW k \in Request, lists[k].phase # "call"
    PROVE  /\ \A d \in Mine : delete[d].pc # "idle" => d # k
           /\ screen.posting # {} => k # Post
  BY DEF PageInv, CallInv

LEMMA ReadListStep ==
    ASSUME PageInv, ReportsTypeOK', NEW k \in Request, ReadList(k)
    PROVE  PageInv'
  <1> DEFINE l == [lists[k] EXCEPT !.phase = "read", !.rows = RowsOf(lists[k].of)]
  <1>1. /\ lists[k].phase = "sent" /\ lists[k] # Idle /\ lists[k] \in Loads
        /\ screen' = screen /\ doubt' = doubt /\ delete' = delete
    BY PageFacts, IdleIsLoad DEF ReadList, reportsVars
  <1>2. lists' = [lists EXCEPT ![k].phase = "read", ![k].rows = RowsOf(lists[k].of)]
    BY DEF ReadList
  <1>3. l \in Loads /\ l.of = lists[k].of /\ l.phase = "read"
    BY <1>1, RowsShown DEF PageInv, ReportsPageTypeOK, Loads
  <1>4. lists' = [lists EXCEPT ![k] = l]
    BY <1>1, <1>2, PageFacts DEF Loads
  <1>5. l # Idle
    BY <1>3, IdleIsLoad
  <1> HIDE DEF l
  <1>6. ~doubt /\ screen.event # "none" => l.of = screen.event
    BY <1>1, <1>3 DEF PageInv, FlightInv
  <1>7. QED
    BY <1>1, <1>3, <1>4, <1>5, <1>6, PageFacts, NotServed, RequestMoves

LEMMA ListArrivesStep ==
    ASSUME PageInv, ReportsTypeOK', NEW k \in Request, ListArrives(k)
    PROVE  PageInv'
  <1>1. /\ lists[k].phase = "read" /\ lists[k] # Idle /\ lists[k] \in Loads
        /\ doubt' = doubt /\ delete' = delete
        /\ lists' = [lists EXCEPT ![k] = Idle]
    BY PageFacts, IdleIsLoad DEF ListArrives, Loaded, reportsVars
  <1>2. screen' = [[screen EXCEPT !.list = lists[k].rows, !.about = lists[k].of]
                      EXCEPT !.loading = FALSE]
    BY DEF ListArrives, Loaded
  <1>3. /\ screen' \in Screens /\ screen'.event = screen.event
        /\ screen'.about = lists[k].of /\ screen'.posting = screen.posting
    BY <1>1, <1>2, PageFacts DEF Screens, Loads
  <1>4. ~doubt /\ screen.event # "none" => screen'.about = screen.event
    BY <1>1, <1>3 DEF PageInv, FlightInv
  <1>5. QED
    BY <1>1, <1>3, <1>4, PageFacts, IdleIsLoad, NotServed, RequestMoves

LEMMA ListFailsStep ==
    ASSUME PageInv, ReportsTypeOK', NEW k \in Request, ListFails(k)
    PROVE  PageInv'
  <1>1. /\ lists[k].phase # "call" /\ lists' = [lists EXCEPT ![k] = Idle]
        /\ doubt' = TRUE /\ delete' = delete
        /\ screen' \in Screens /\ screen'.posting = screen.posting
    BY PageFacts DEF ListFails, Loaded, reportsVars, Screens
  <1>2. QED
    BY <1>1, PageFacts, IdleIsLoad, NotServed, RequestMoves

\* A request of the page that a button starts.
LEMMA CallsStarts ==
    ASSUME PageInv, NEW k \in Request, Calls(k)
    PROVE  \E l \in Loads :
              /\ l.phase = "call" /\ l.of = screen.event /\ l # Idle
              /\ lists' = [lists EXCEPT ![k] = l]
              /\ lists[k].phase = "idle" /\ screen.event # "none"
  <1> DEFINE l == [lists[k] EXCEPT !.phase = "call", !.of = screen.event]
  <1>1. lists[k] \in Loads /\ lists[k].phase = "idle" /\ screen.event \in Event
    BY PageFacts, IdleIsLoad DEF Calls, Screens
  <1>2. l \in Loads /\ l.phase = "call" /\ l.of = screen.event
    BY <1>1 DEF Loads
  <1>3. l # Idle
    BY <1>2, IdleIsLoad
  <1>4. lists' = [lists EXCEPT ![k].phase = "call", ![k].of = screen.event]
    BY DEF Calls
  <1>5. lists' = [lists EXCEPT ![k] = l]
    BY <1>1, <1>4, PageFacts DEF Loads
  <1>6. QED
    BY <1>1, <1>2, <1>3, <1>5 DEF Calls

LEMMA GenerateStep ==
    ASSUME PageInv, ReportsTypeOK', NEW r \in Report, Generate(r)
    PROVE  PageInv'
  <1>1. PICK l \in Loads :
              /\ l.phase = "call" /\ l.of = screen.event /\ l # Idle
              /\ lists' = [lists EXCEPT ![Post] = l]
    BY PageFacts, CallsStarts DEF Generate
  <1>2. /\ screen' \in Screens /\ screen'.event = screen.event
        /\ doubt' = doubt /\ delete' = delete
    BY PageFacts DEF Generate, InsertJob, Screens
  <1>3. QED
    BY <1>1, <1>2, PageFacts, RequestMoves

LEMMA PressDeleteStep ==
    ASSUME PageInv, ReportsTypeOK', NEW d \in Mine, NEW r \in Report, PressDelete(d, r)
    PROVE  PageInv'
  <1>1. PICK l \in Loads :
              /\ l.phase = "call" /\ l.of = screen.event /\ l # Idle
              /\ lists' = [lists EXCEPT ![d] = l]
              /\ lists[d].phase = "idle"
    BY PageFacts, CallsStarts DEF PressDelete
  <1>2. screen' = screen /\ doubt' = doubt
    BY DEF PressDelete
  <1>3. \A q \in Mine : q # d => delete'[q] = delete[q]
    BY PageFacts DEF PressDelete, ReadRow, PageInv, ReportsPageTypeOK, ReportsTypeOK
  <1>4. d \in Request /\ d # Post
    BY PageFacts
  <1>5. QED
    BY <1>1, <1>2, <1>3, <1>4, PageFacts, RequestMoves

\* A request that is answered becomes a load of the event it was made for.
LEMMA AnswerSends ==
    ASSUME PageInv, NEW k \in Request, Sent(k, lists[k].of), lists[k].phase = "call"
    PROVE  \E l \in Loads :
              /\ l # Idle /\ lists' = [lists EXCEPT ![k] = l]
              /\ ~doubt /\ screen.event # "none" => l.of = screen.event
  <1> DEFINE l == [Idle EXCEPT !.phase = "sent", !.of = lists[k].of]
  <1>1. lists[k] \in Loads /\ lists[k].of \in Event /\ lists[k] # Idle
    BY PageFacts, IdleIsLoad DEF Loads
  <1>2. l \in Loads /\ l.of = lists[k].of /\ l # Idle
    BY <1>1, SentIsLoad
  <1>3. lists' = [lists EXCEPT ![k] = l]
    BY DEF Sent
  <1> HIDE DEF l
  <1>4. ~doubt /\ screen.event # "none" => l.of = screen.event
    BY <1>1, <1>2 DEF PageInv, FlightInv
  <1>5. QED
    BY <1>2, <1>3, <1>4

LEMMA PostAnsweredStep ==
    ASSUME PageInv, ReportsTypeOK', NEW r \in Report, PostAnswered(r)
    PROVE  PageInv'
  <1>1. /\ lists[Post].phase = "call" /\ Sent(Post, lists[Post].of)
        /\ doubt' = doubt /\ delete' = delete
    BY DEF PostAnswered, StartTask, PageInv, CallInv
  <1>2. PICK l \in Loads :
              /\ l # Idle /\ lists' = [lists EXCEPT ![Post] = l]
              /\ ~doubt /\ screen.event # "none" => l.of = screen.event
    BY <1>1, PageFacts, AnswerSends
  <1>3. screen' \in Screens /\ screen'.event = screen.event /\ screen'.posting = {}
    BY PageFacts DEF PostAnswered, Screens
  <1>4. QED
    BY <1>1, <1>2, <1>3, PageFacts, RequestMoves

LEMMA DeleteAnsweredStep ==
    ASSUME PageInv, ReportsTypeOK', NEW d \in Mine, DeleteAnswered(d)
    PROVE  PageInv'
  <1>1. /\ delete[d].pc = "row" /\ Advance(d, "idle") /\ Sent(d, lists[d].of)
        /\ screen' = screen /\ doubt' = doubt
    BY DEF DeleteAnswered, DeleteRow
  <1>2. lists[d].phase = "call" /\ d \in Request /\ d # Post
    BY <1>1, PageFacts DEF PageInv, CallInv
  <1>3. PICK l \in Loads :
              /\ l # Idle /\ lists' = [lists EXCEPT ![d] = l]
              /\ ~doubt /\ screen.event # "none" => l.of = screen.event
    BY <1>1, <1>2, AnswerSends
  <1>4. \A q \in Mine : delete'[q].pc # "idle" => q # d /\ delete[q].pc # "idle"
    BY <1>1, PageFacts, Served DEF PageInv, ReportsPageTypeOK
  <1>5. QED
    BY <1>1, <1>2, <1>3, <1>4, PageFacts, RequestMoves

LEMMA ClearEventStep ==
    ASSUME PageInv, ReportsTypeOK', ClearEvent
    PROVE  PageInv'
  <1>1. /\ screen' \in Screens /\ screen'.event = "none" /\ screen'.posting = screen.posting
        /\ lists' = lists /\ doubt' = doubt /\ delete' = delete
    BY PageFacts DEF ClearEvent, Screens, NoRows, Shown, reportsVars
  <1>2. ReportsPageTypeOK'
    BY <1>1 DEF PageInv, ReportsPageTypeOK, Screens
  <1>3. CallInv'
    BY <1>1 DEF PageInv, CallInv
  <1>4. FlightInv'
    BY <1>1 DEF FlightInv
  <1>5. QED
    BY <1>2, <1>3, <1>4 DEF PageInv

\* Colleagues and tasks leave the page alone, and its DELETEs where they are.
LEMMA OthersLeaveThePage ==
    ASSUME PageInv, ReportsTypeOK', UNCHANGED screenVars,
           \A d \in Mine : delete'[d].pc # "idle" => delete[d].pc # "idle"
    PROVE  PageInv'
  <1>1. screen' = screen /\ lists' = lists /\ doubt' = doubt
    BY DEF screenVars
  <1>2. ReportsPageTypeOK'
    BY <1>1 DEF PageInv, ReportsPageTypeOK
  <1>3. CallInv'
    BY <1>1 DEF PageInv, CallInv
  <1>4. FlightInv'
    BY <1>1 DEF PageInv, FlightInv, Resting, Idle, NoRows
  <1>5. QED
    BY <1>2, <1>3, <1>4 DEF PageInv

LEMMA OthersStepStep ==
    ASSUME PageInv, ReportsTypeOK', OthersStep
    PROVE  PageInv'
  <1>1. UNCHANGED screenVars
    BY DEF OthersStep
  <1>2. ASSUME NEW q \in Mine, delete'[q].pc # "idle"
        PROVE  delete[q].pc # "idle"
    <2>1. q \in Deleter
      BY PageFacts
    <2>2. CASE delete' = delete
      BY <1>2, <2>2
    <2>3. ASSUME NEW d \in Deleter, DeleteFile(d)
          PROVE  delete[q].pc # "idle"
      BY <1>2, <2>1, <2>3 DEF DeleteFile, Advance, PageInv, ReportsPageTypeOK, ReportsTypeOK
    <2>4. ASSUME NEW d \in Deleter \ Mine,
                 DeleteRow(d) \/ \E r \in Report, i \in Instance : ReadRow(d, r, i)
          PROVE  delete[q].pc # "idle"
      BY <1>2, <2>1, <2>4 DEF DeleteRow, ReadRow, Advance, PageInv, ReportsPageTypeOK, ReportsTypeOK
    <2>5. QED
      BY <2>2, <2>3, <2>4 DEF OthersStep, InsertJob, StartTask, Upload, GenerateFails,
                              MarkReady, MarkFailed
  <1>3. QED
    BY <1>1, <1>2, OthersLeaveThePage

LEMMA PageInvStep == PageInv /\ ReportsTypeOK' /\ [ReportsPageNext]_reportsPageVars => PageInv'
  <1> SUFFICES ASSUME PageInv, ReportsTypeOK', [ReportsPageNext]_reportsPageVars PROVE PageInv'
    OBVIOUS
  <1>1. CASE UNCHANGED reportsPageVars
    BY <1>1, OthersLeaveThePage DEF reportsPageVars, reportsVars
  <1>2. CASE \/ \E e \in Event : ChooseEvent(e)
             \/ ClearEvent
             \/ \E k \in Load : Poll(k) \/ Refresh(k)
    BY <1>2, ChooseEventStep, ClearEventStep, LoadSentStep
  <1>3. CASE \E k \in Request : ReadList(k) \/ ListArrives(k) \/ ListFails(k)
    BY <1>3, ReadListStep, ListArrivesStep, ListFailsStep
  <1>4. CASE \/ \E r \in Report :
                   Generate(r) \/ PostAnswered(r) \/ (\E d \in Mine : PressDelete(d, r))
             \/ \E d \in Mine : DeleteAnswered(d)
    BY <1>4, GenerateStep, PostAnsweredStep, PressDeleteStep, DeleteAnsweredStep
  <1>5. CASE OthersStep
    BY <1>5, OthersStepStep
  <1>6. QED
    BY <1>1, <1>2, <1>3, <1>4, <1>5 DEF ReportsPageNext

LEMMA PageInvariance == ReportsPageSpec => []PageInv
  BY PageInvInit, PageInvStep, ReportsPageKeepsContract, TypeCorrect, PTL DEF ReportsPageSpec

\* What the page shows and waits for, and the reports behind it, keep their
\* types.
THEOREM ReportsPageTypeCorrect == ReportsPageSpec => []ReportsPageTypeOK
  <1>1. PageInv => ReportsPageTypeOK
    BY DEF PageInv
  <1>2. QED
    BY <1>1, PageInvariance, PTL

\* What is told of reports that are being generated or ready holds with the
\* page and its colleagues at work; of the former, as long as nothing fails.
THEOREM ReportsPageSafe ==
    /\ ReportsPageSpec => []ReadyIsDownloadable /\ DeletedStaysDeleted
    /\ Reliable => (ReportsPageSpec => []StillBeingGenerated)
  <1>1. ReportsSpec => []ReadyIsDownloadable /\ DeletedStaysDeleted
    BY ReadyIsDownloadableHolds, DeletedStaysDeletedHolds
  <1>2. Reliable => (ReportsSpec => []StillBeingGenerated)
    BY StillBeingGeneratedHolds
  <1>3. ReportsPageSpec => []ReadyIsDownloadable /\ DeletedStaysDeleted
    BY <1>1, ReportsPageKeepsContract, PTL
  <1>4. Reliable => (ReportsPageSpec => []StillBeingGenerated)
    BY <1>2, ReportsPageKeepsContract, PTL
  <1>5. QED
    BY <1>3, <1>4, PTL DEF DeletedStaysDeleted

\* A page at rest lists the reports of the event it shows, for any number of
\* reports, loads and requests, unless the event was chosen with requests in
\* flight or a load has failed since.
THEOREM ListIsOfEventHolds == ReportsPageSpec => []ListIsOfEvent
  <1>1. PageInv => ListIsOfEvent
    BY PageFacts DEF PageInv, FlightInv, ListIsOfEvent
  <1>2. QED
    BY <1>1, PageInvariance, PTL

=============================================================================
