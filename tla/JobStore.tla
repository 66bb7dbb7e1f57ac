------------------------------- MODULE JobStore -------------------------------
(***************************************************************************)
(* The SQLite job store (internal/store/jobs.go).  The pool is capped at   *)
(* one connection (store.go:31), so every statement and every transaction  *)
(* of the package is one indivisible step here.  An operator below is the  *)
(* effect of one store call on the rows, WHERE clause included; whether    *)
(* the call is reached, and what its caller does with the error, belongs   *)
(* to the modules that extend this one.                                    *)
(*                                                                         *)
(* A findings table is abstracted to the set of engines whose report is    *)
(* stored, a summary to what it counts and covers, an error message to     *)
(* the reason it gives.                                                    *)
(***************************************************************************)
EXTENDS Naturals

CONSTANTS
  Ids,        \* the job ids newID() may hand out; each is used once
  NEngines,   \* number of engines installed in the runner (two in main.go)
  MaxFaults   \* bound on the calls that fail for a reason of their own or are cut off

ASSUME StoreAssumption == NEngines \in Nat /\ MaxFaults \in Nat

VARIABLES
  status,     \* jobs.status, "absent" when there is no row
  started,    \* jobs.started_at is set
  errmsg,     \* jobs.error
  summary,    \* jobs.summary
  findings,   \* engines whose findings are rows of the findings table
  enforced,   \* the pool's connection has foreign_keys on
  faults      \* number of store calls that have failed or been cut off so far

rowVars == <<status, started, errmsg, summary, findings>>
dbVars  == <<status, started, errmsg, summary, findings, faults>>

Engine   == 1 .. NEngines
Active   == {"queued", "fetching", "scanning"}
Terminal == {"done", "failed", "canceled"}

Warning  == "some scanners did not complete"
Reasons  == {"queue full", "timed out", "scan error", "internal error",
             "interrupted by restart"}

SummaryType == [written : BOOLEAN, counts : SUBSET Engine, engines : SUBSET Engine,
                complete : BOOLEAN]

NoSummary == [written |-> FALSE, counts |-> {}, engines |-> {}, complete |-> FALSE]

RowTypeOK ==
  /\ status   \in [Ids -> Active \cup Terminal \cup {"absent"}]
  /\ started  \in [Ids -> BOOLEAN]
  /\ errmsg   \in [Ids -> Reasons \cup {Warning, ""}]
  /\ summary  \in [Ids -> SummaryType]
  /\ findings \in [Ids -> SUBSET Engine]

DBTypeOK == RowTypeOK /\ enforced \in BOOLEAN /\ faults \in 0 .. MaxFaults

DBInit ==
  /\ status   = [id \in Ids |-> "absent"]
  /\ started  = [id \in Ids |-> FALSE]
  /\ errmsg   = [id \in Ids |-> ""]
  /\ summary  = [id \in Ids |-> NoSummary]
  /\ findings = [id \in Ids |-> {}]
  /\ enforced = TRUE
  /\ faults   = 0

-------------------------------------------------------------------------------
(* Rows a statement touches: WHERE id = ?, and the same with a status test.  *)

RowExists(id)   == status[id] # "absent"
NotTerminal(id) == status[id] \in Active

(* Seeded bug: the foreign key is never checked, with the pragma or without *)
Referenced_off(id) == TRUE

(* The foreign key findings.job_id -> jobs.id, on a connection that checks it *)
Referenced(id) == enforced => RowExists(id)

(* A store call fails by itself: a disk error, or, for a call made on a      *)
(* request's context, a client that has gone away.                           *)
Fault ==
  /\ faults < MaxFaults
  /\ faults' = faults + 1

(* Open sets the pragma once, on the connection the pool has then *)
Enforce == enforced' = TRUE

(* A statement is cut off by its context: the driver gives the connection up  *)
(* and the pool opens another, on which nobody sets the pragma.              *)
Reconnect == Fault /\ enforced /\ enforced' = FALSE

-------------------------------------------------------------------------------
CreateJob(id) ==
  /\ status' = [status EXCEPT ![id] = "queued"]
  /\ UNCHANGED <<started, errmsg, summary, findings>>

(* UPDATE ... WHERE id = ? AND status NOT IN (done, failed, canceled) *)
SetStatus(id, new) ==
  /\ NotTerminal(id)
  /\ status'  = [status EXCEPT ![id] = new]
  /\ started' = [started EXCEPT ![id] = @ \/ new = "fetching"]
  /\ UNCHANGED <<errmsg, summary, findings>>

(* UPDATE ... WHERE id = ?: the one status write with no test of the old one *)
Fail(id, reason) ==
  /\ RowExists(id)
  /\ status' = [status EXCEPT ![id] = "failed"]
  /\ errmsg' = [errmsg EXCEPT ![id] = reason]
  /\ UNCHANGED <<started, summary, findings>>

SetError(id, msg) ==
  /\ RowExists(id)
  /\ errmsg' = [errmsg EXCEPT ![id] = msg]
  /\ UNCHANGED <<status, started, summary, findings>>

SetSummary(id, sum) ==
  /\ RowExists(id)
  /\ summary' = [summary EXCEPT ![id] = sum]
  /\ UNCHANGED <<status, started, errmsg, findings>>

(* One transaction for the whole report *)
InsertFindings(id, engines) ==
  /\ Referenced(id)
  /\ findings' = [findings EXCEPT ![id] = engines]
  /\ UNCHANGED <<status, started, errmsg, summary>>

Cancel(id) ==
  /\ NotTerminal(id)
  /\ status' = [status EXCEPT ![id] = "canceled"]
  /\ UNCHANGED <<started, errmsg, summary, findings>>

(* Seeded bug: no transaction, so the row may outlive its findings *)
DeleteJob_halfway(id) ==
  /\ status[id] \in Terminal
  /\ findings' = [findings EXCEPT ![id] = {}]
  /\ \/ UNCHANGED <<status, started, errmsg, summary>>
     \/ /\ status'  = [status  EXCEPT ![id] = "absent"]
        /\ started' = [started EXCEPT ![id] = FALSE]
        /\ errmsg'  = [errmsg  EXCEPT ![id] = ""]
        /\ summary' = [summary EXCEPT ![id] = NoSummary]

(* One transaction: the status gate, the findings, then the row *)
DeleteJob(id) ==
  /\ status[id] \in Terminal
  /\ status'   = [status   EXCEPT ![id] = "absent"]
  /\ started'  = [started  EXCEPT ![id] = FALSE]
  /\ errmsg'   = [errmsg   EXCEPT ![id] = ""]
  /\ summary'  = [summary  EXCEPT ![id] = NoSummary]
  /\ findings' = [findings EXCEPT ![id] = {}]

(* Seeded bug: only the statuses of a started job are recovered *)
RecoverOrphans_started ==
  LET Hit(id) == status[id] \in {"fetching", "scanning"} IN
  /\ status' = [id \in Ids |-> IF Hit(id) THEN "failed" ELSE status[id]]
  /\ errmsg' = [id \in Ids |-> IF Hit(id) THEN "interrupted by restart" ELSE errmsg[id]]
  /\ UNCHANGED <<started, summary, findings>>

RecoverOrphans ==
  /\ status' = [id \in Ids |-> IF NotTerminal(id) THEN "failed" ELSE status[id]]
  /\ errmsg' = [id \in Ids |-> IF NotTerminal(id) THEN "interrupted by restart"
                                                  ELSE errmsg[id]]
  /\ UNCHANGED <<started, summary, findings>>

IsCanceled(id) == status[id] = "canceled"
===============================================================================
