------------------------------ MODULE ReportReader ------------------------------
(***************************************************************************)
(* GET /api/scans/{id}/export (internal/api/export.go, pdf.go) while the   *)
(* service goes on: the handler reads the job's row and its findings in    *)
(* two store calls, and anything may happen to the job between them.       *)
(* Readers do not disturb each other, so one at a time is enough.          *)
(***************************************************************************)
EXTENDS ScanService

VARIABLES
  rpc,    \* the reader: "idle", "listing" (row read), "answered" (200 sent)
  rid,    \* the job it asked for
  row,    \* what GetJob returned
  body    \* what ListFindings returned

readerVars == <<rpc, rid, row, body>>

RowOf(id) == [status |-> status[id], summary |-> summary[id]]

ReaderBlank == rpc' = "idle" /\ rid' = NoJob /\ row' = <<>> /\ body' = {}

ReaderInit == rpc = "idle" /\ rid = NoJob /\ row = <<>> /\ body = {}

(* A job that is not there is a 404, a read that fails a 500: no report *)
ExportJob(id) ==
  /\ rpc = "idle" /\ Known(id)
  /\ RowExists(id)
  /\ rpc' = "listing" /\ rid' = id /\ row' = RowOf(id)
  /\ UNCHANGED <<body, vars>>

ExportFindings ==
  /\ rpc = "listing" /\ proc # "down"
  /\ \/ rpc' = "answered" /\ body' = findings[rid] /\ UNCHANGED <<rid, row, faults>>
     \/ CallFails /\ ReaderBlank
  /\ UNCHANGED <<rowVars, proc, queue, secrets, dirs, workerVars, serviceVars>>

ReportRead == rpc = "answered" /\ ReaderBlank /\ UNCHANGED vars

(* What buildPDF tells the reader when it lists nothing: "The scanned source  *)
(* is clean."                                                                *)
PDFSaysClean == rpc = "answered" /\ body = {}

(* A handler ends with the process *)
ServiceStep ==
  /\ Next
  /\ IF proc' = "down" THEN ReaderBlank ELSE UNCHANGED readerVars

ReaderNext ==
  \/ ServiceStep
  \/ \E id \in Ids : ExportJob(id)
  \/ ExportFindings \/ ReportRead

ReaderVars == <<vars, readerVars>>

ReaderSpec == Init /\ ReaderInit /\ [][ReaderNext]_ReaderVars
-------------------------------------------------------------------------------
(* The two reads never tear the report of a done job: the findings listed are *)
(* the ones its summary counts, or the job was deleted while it was read.     *)
ExportWhole ==
  rpc = "answered" /\ row.status = "done" =>
    body = row.summary.counts \/ ~RowExists(rid)

(* pdf.go:139: a report that calls the scanned source clean is one of a scan  *)
(* every engine of which has looked at it.                                   *)
CleanMeansScanned == PDFSaysClean => row.summary.engines = Engine
===============================================================================
