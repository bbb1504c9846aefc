--------------------------- MODULE CompiledReports ---------------------------
(***************************************************************************)
(* The compiled reports of an event: a request inserts a row with status   *)
(* "generating" and starts a task in its own process; the task uploads the *)
(* file and then names it in the row; a DELETE removes the file the row    *)
(* names and then the row.  Database, bucket, processes and requests fail  *)
(* independently, and the database and the bucket share no transaction.    *)
(*                                                                         *)
(* A report stands for its id, its row and its file: ids are not reused,   *)
(* and a report's file key is a function of its id.  What is printed is    *)
(* left out.  The batch of troop results is as many requests as troops.    *)
(***************************************************************************)
EXTENDS Naturals

CONSTANTS
    Report,        \* report ids
    Instance,      \* processes of the backend (Cloud Run runs up to two)
    Deleter,       \* DELETE requests that can be in flight at once
    Bucket,        \* TRUE: GCS_REPORTS_BUCKET is configured
    Reliable       \* TRUE: statements and the bucket answer, processes stay

ASSUME ReportsAssumption == Bucket \in BOOLEAN /\ Reliable \in BOOLEAN

VARIABLES
    row,       \* compiled_reports, one row per report id
    task,      \* the POST request and the generating task of each report
    bucket,    \* reports whose file is in the bucket
    memory,    \* _LOCAL_STORAGE of each process
    delete,    \* the DELETE requests in flight
    excused,   \* history: reports whose file was uploaded or deleted badly
    removed,   \* history: reports of which a copy of the file was removed
    refused    \* history: reports whose upload the bucket did not confirm

reportsVars == <<row, task, bucket, memory, delete, excused, removed, refused>>

Rows == [status : {"none", "generating", "ready", "failed", "deleted"}, named : BOOLEAN]

\* posted: row inserted, task not started yet.  uploaded: before
\* mark_report_ready.  failing: before mark_report_failed.
Tasks == [pc : {"none", "posted", "working", "uploaded", "failing", "ended"}, at : Instance]

Deletes == [pc : {"idle", "file", "row"}, report : Report, at : Instance]

\* A file exists as long as one copy does.
Stored(r) == r \in bucket \/ \E i \in Instance : r \in memory[i]

Listed(r) == row[r].status \notin {"none", "deleted"}

ReportsInit ==
    /\ row = [r \in Report |-> [status |-> "none", named |-> FALSE]]
    /\ task \in [Report -> [pc : {"none"}, at : Instance]]
    /\ bucket = {}
    /\ memory = [i \in Instance |-> {}]
    /\ delete \in [Deleter -> [pc : {"idle"}, report : Report, at : Instance]]
    /\ excused = {} /\ removed = {} /\ refused = {}

files == <<bucket, memory, removed, refused>>

Goto(r, pc) == task' = [task EXCEPT ![r].pc = pc]

SetStatusUpsert(r, status, named) ==
    row' = [row EXCEPT ![r] = [status |-> status, named |-> named]]

\* UPDATE compiled_reports ... WHERE id: without effect once the row is gone.
SetStatus(r, status, named) ==
    row' = IF Listed(r) THEN [row EXCEPT ![r] = [status |-> status, named |-> named]] ELSE row

-----------------------------------------------------------------------------
(* POST: the row, then the task.                                           *)

InsertJob(r) ==
    /\ task[r].pc = "none"
    /\ row' = [row EXCEPT ![r].status = "generating"]
    /\ Goto(r, "posted")
    /\ UNCHANGED <<files, delete, excused>>

StartTask(r) ==
    /\ task[r].pc = "posted"
    /\ Goto(r, "working")
    /\ UNCHANGED <<row, files, delete, excused>>

\* get_report of the new row raises: nobody starts the task.
PostFails(r) ==
    /\ ~Reliable
    /\ task[r].pc = "posted"
    /\ Goto(r, "ended")
    /\ UNCHANGED <<row, files, delete, excused>>

-----------------------------------------------------------------------------
(* The generating task.                                                    *)

UploadSwallowed(r) ==
    /\ task[r].pc = "working"
    /\ Goto(r, "uploaded")
    /\ UNCHANGED <<row, files, delete, excused>>

UploadLocal(r) ==
    /\ task[r].pc = "working"
    /\ Goto(r, "uploaded")
    /\ memory' = [memory EXCEPT ![task[r].at] = @ \cup {r}]
    /\ UNCHANGED <<row, bucket, delete, excused, removed, refused>>

\* upload_report_bytes: the bucket, or this process's memory when there is no
\* bucket or it raises (and an upload that raises may have been stored).
Upload(r) ==
    /\ task[r].pc = "working"
    /\ Goto(r, "uploaded")
    /\ \/ /\ Bucket
          /\ bucket' = bucket \cup {r}
          /\ UNCHANGED <<memory, excused, refused>>
       \/ /\ ~Bucket \/ ~Reliable
          /\ memory' = [memory EXCEPT ![task[r].at] = @ \cup {r}]
          /\ bucket' \in {bucket} \cup (IF Bucket THEN {bucket \cup {r}} ELSE {})
          /\ excused' = excused \cup {r} /\ refused' = refused \cup {r}
    /\ UNCHANGED <<row, delete, removed>>

\* Reading the event or writing the document raises.
GenerateFails(r) ==
    /\ task[r].pc = "working"
    /\ Goto(r, "failing")
    /\ UNCHANGED <<row, files, delete, excused>>

\* mark_report_ready.
MarkReady(r) ==
    /\ task[r].pc = "uploaded"
    /\ SetStatus(r, "ready", TRUE)
    /\ Goto(r, "ended")
    /\ UNCHANGED <<files, delete, excused>>

\* mark_report_ready raises, before or after its UPDATE is committed.
MarkReadyFails(r) ==
    /\ ~Reliable
    /\ task[r].pc = "uploaded"
    /\ SetStatus(r, "ready", TRUE) \/ row' = row
    /\ Goto(r, "failing")
    /\ UNCHANGED <<files, delete, excused>>

MarkFailedUnknown(r) ==
    /\ task[r].pc = "failing"
    /\ SetStatus(r, "error", row[r].named)
    /\ Goto(r, "ended")
    /\ UNCHANGED <<files, delete, excused>>

MarkFailedLogged(r) ==
    /\ task[r].pc = "failing"
    /\ Goto(r, "ended")
    /\ UNCHANGED <<row, files, delete, excused>>

\* mark_report_failed leaves file_key as it is.
MarkFailed(r) ==
    /\ task[r].pc = "failing"
    /\ SetStatus(r, "failed", row[r].named)
    /\ Goto(r, "ended")
    /\ UNCHANGED <<files, delete, excused>>

\* It raises as well, and nothing catches it.
MarkFailedFails(r) ==
    /\ ~Reliable
    /\ task[r].pc = "failing"
    /\ Goto(r, "ended")
    /\ UNCHANGED <<row, files, delete, excused>>

-----------------------------------------------------------------------------
(* DELETE: the row is read, the file it names removed, the row deleted.    *)

Advance(d, pc) == delete' = [delete EXCEPT ![d].pc = pc]

ReadRow(d, r, i) ==
    /\ delete[d].pc = "idle" /\ Listed(r)
    /\ delete' = [delete EXCEPT ![d] =
                    [pc |-> IF row[r].named THEN "file" ELSE "row", report |-> r, at |-> i]]
    /\ excused' = IF row[r].named THEN excused ELSE excused \cup {r}
    /\ UNCHANGED <<row, task, files>>

DeleteFileSkipped(d) ==
    /\ delete[d].pc = "file"
    /\ Advance(d, "row")
    /\ UNCHANGED <<row, task, files, excused>>

\* delete_report_bytes: a bucket that raises keeps its copy, and the memory
\* of the other processes is out of reach.
DeleteFile(d) ==
    LET r == delete[d].report
        i == delete[d].at
    IN  /\ delete[d].pc = "file"
        /\ memory' = [memory EXCEPT ![i] = @ \ {r}]
        /\ \/ /\ bucket' = bucket \ {r}
              /\ UNCHANGED excused
           \/ /\ Bucket /\ ~Reliable
              /\ UNCHANGED bucket
              /\ excused' = excused \cup {r}
        /\ removed' = removed \cup {r}
        /\ Advance(d, "row")
        /\ UNCHANGED <<row, task, refused>>

DeleteRow(d) ==
    LET r == delete[d].report
    IN  /\ delete[d].pc = "row"
        /\ row' = IF Listed(r) THEN [row EXCEPT ![r].status = "deleted"] ELSE row
        /\ Advance(d, "idle")
        /\ UNCHANGED <<task, files, excused>>

DeleteFails(d) ==
    /\ ~Reliable
    /\ delete[d].pc # "idle"
    /\ Advance(d, "idle")
    /\ UNCHANGED <<row, task, files, excused>>

-----------------------------------------------------------------------------

\* A process stops (scaled to zero, redeployed, out of memory): its requests,
\* tasks and memory are gone.
Stop(i) ==
    /\ ~Reliable
    /\ task' = [r \in Report |->
                  IF task[r].at = i /\ task[r].pc # "none"
                  THEN [task[r] EXCEPT !.pc = "ended"] ELSE task[r]]
    /\ delete' = [d \in Deleter |->
                    IF delete[d].at = i THEN [delete[d] EXCEPT !.pc = "idle"] ELSE delete[d]]
    /\ memory' = [memory EXCEPT ![i] = {}]
    /\ removed' = removed \cup memory[i]
    /\ UNCHANGED <<row, bucket, excused, refused>>

TaskStep(r) ==
    \/ StartTask(r)
    \/ Upload(r)
    \/ GenerateFails(r)
    \/ MarkReady(r)
    \/ MarkReadyFails(r)
    \/ MarkFailed(r)
    \/ MarkFailedFails(r)

ReportsNext ==
    \/ \E r \in Report : InsertJob(r) \/ PostFails(r) \/ TaskStep(r)
    \/ \E d \in Deleter :
          \/ \E r \in Report, i \in Instance : ReadRow(d, r, i)
          \/ DeleteFile(d)
          \/ DeleteRow(d)
          \/ DeleteFails(d)
    \/ \E i \in Instance : Stop(i)

ReportsSpec == ReportsInit /\ [][ReportsNext]_reportsVars

-----------------------------------------------------------------------------
(* Type invariant.                                                         *)
ReportsTypeOK ==
    /\ row \in [Report -> Rows]
    /\ task \in [Report -> Tasks]
    /\ bucket \subseteq Report
    /\ memory \in [Instance -> SUBSET Report]
    /\ delete \in [Deleter -> Deletes]
    /\ excused \subseteq Report /\ removed \subseteq Report /\ refused \subseteq Report

\* A ready row names its file, and the file is there unless a DELETE that got
\* no further, or a stopped process that held it in memory, took it away.
ReadyHasFile ==
    \A r \in Report : row[r].status = "ready" => row[r].named /\ (Stored(r) \/ r \in removed)

\* A file without a row is left over only by a DELETE that found no name to
\* delete by, a bucket that refused, or a copy in some process's memory.
OrphanNeedsExcuse ==
    \A r \in Report : row[r].status = "deleted" /\ Stored(r) => r \in excused

\* A deleted report never comes back, although its task may still be running.
DeletedStaysDeleted ==
    [][\A r \in Report : row[r].status = "deleted" => row'[r].status = "deleted"]_reportsVars

\* "Report is still being generated. Please wait." (compiled_reports.py):
\* what the download answers while the status is generating is true.
StillBeingGenerated ==
    \A r \in Report : row[r].status = "generating" => task[r].pc \notin {"none", "ended"}

\* A report that was asked for is ready, failed or deleted in the end.
GenerationEnds ==
    \A r \in Report :
        row[r].status = "generating" ~> row[r].status \in {"ready", "failed", "deleted"}

\* A ready report can be downloaded from whichever process serves the request,
\* whatever stops or fails and whatever else is deleted.  If the bucket did not
\* take the file, only the process that generated the report has it; and it is
\* gone once a DELETE of the report has got as far as its file, or that process
\* has stopped.
ReadyIsDownloadable ==
    \A r \in Report :
        row[r].status = "ready" =>
            \/ \A i \in Instance : r \in bucket \cup memory[i]
            \/ r \in refused /\ r \in memory[task[r].at]
            \/ r \in removed

=============================================================================
