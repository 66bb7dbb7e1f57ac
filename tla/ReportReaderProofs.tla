---------------------------- MODULE ReportReaderProofs ----------------------------
(***************************************************************************)
(* What an export may rely on, for any set of jobs and engines and any     *)
(* number of faults and restarts: its two reads are not one transaction,   *)
(* yet they never tear the report of a done job.                           *)
(***************************************************************************)
EXTENDS ReportReader, ScanReportProofs

(* A read that fails is counted, and is no step of the service *)
ReadFails == Fault /\ UNCHANGED <<rowVars, proc, queue, secrets, dirs, workerVars, serviceVars>>

LEMMA ReaderSteps == ReaderNext => [Next]_vars \/ ReadFails
BY DEF ReaderNext, ServiceStep, ExportJob, ExportFindings, ReportRead, ReadFails, CallFails,
       vars, dbVars, rowVars

(* The service's invariants hold beside readers too *)
LEMMA ReaderKeeps ==
  ASSUME IInv, Reports, [ReaderNext]_ReaderVars
  PROVE  IInv' /\ Reports'
<1>1. CASE [Next]_vars
  BY <1>1, NextIInv, NextReports
<1>2. CASE ReadFails
  <2>1. /\ UNCHANGED <<rowVars, proc, queue, secrets, dirs, workerVars, serviceVars>>
        /\ faults' \in 0 .. MaxFaults
    BY <1>2, StoreAssumption
       DEF StoreAssumption, ReadFails, Fault, IInv, TypeOK, DBTypeOK
  <2>2. TypeOK'
    BY <2>1 DEF IInv, TypeOK, DBTypeOK, RowTypeOK, WorkerTypeOK, rowVars, workerVars, serviceVars
  <2>3. Owners'
    BY <2>1 DEF IInv, Owners, AtMostOnce, workerVars, serviceVars
  <2>4. Rows'
    BY <2>1 DEF IInv, Rows, HandlerRows, WaitingRows, RunningRows, Waiting, rowVars,
       workerVars, serviceVars
  <2>5. Reports'
    BY <2>1 DEF Reports, RunTally, FreshRow, OwnReport, Published, Unreported, Waiting, Report,
       Rowless, rowVars, workerVars, serviceVars
  <2>6. QED BY <2>2, <2>3, <2>4, <2>5 DEF IInv
<1>3. QED BY <1>1, <1>2, ReaderSteps DEF ReaderVars

(* A row that was deleted does not come back: its id was given out before *)
LEMMA GoneStays ==
  ASSUME IInv, [Next]_vars, NEW id \in Ids, req[id] = "accepted", status[id] = "absent"
  PROVE  status'[id] = "absent"
<1>1. CASE ServiceNext
  BY <1>1, HandledRows DEF HandledRow, SameRow, Active
<1>2. CASE WorkerNext
  <2>1. CASE Dequeue \/ StopWorker \/ Cleanup
    BY <2>1, TurnStep DEF SameRow
  <2>2. CASE ~(Dequeue \/ StopWorker \/ Cleanup) /\ id # wjob
    BY <1>2, <2>2, OwnStep DEF WorkerNext, SameRow
  <2>3. CASE ~(Dequeue \/ StopWorker \/ Cleanup) /\ id = wjob
    BY <1>2, <2>3, WorkerMoves DEF WorkerNext, Moves, Active
  <2>4. QED BY <2>1, <2>2, <2>3
<1>3. CASE Quiet \/ UNCHANGED vars
  BY <1>3 DEF Quiet, vars, dbVars
<1>4. QED BY <1>1, <1>2, <1>3, NextCases

LEMMA AcceptedStays ==
  ASSUME IInv, [Next]_vars, NEW id \in Ids, req[id] = "accepted"
  PROVE  req'[id] = "accepted"
<1>1. req \in [Ids -> Phases]
  BY DEF IInv, TypeOK
<1>2. CASE WorkerNext \/ Quiet \/ UNCHANGED vars
  BY <1>2 DEF WorkerNext, Quiet, vars, serviceVars
<1>3. ASSUME NEW job \in Ids,
             \/ PostGit(job) \/ PostZip(job) \/ HandlerStep(job)
             \/ CancelScan(job) \/ DeleteScan(job)
      PROVE  req'[id] = "accepted"
  BY <1>1, <1>3 DEF PostGit, PostZip, HandlerStep, CreateRow, Register, Submit, Unregister,
     Reject, RemoveDir, CancelScan, DeleteScan, Phase, serviceVars
<1>4. CASE Stop \/ Exit \/ Crash \/ Boot \/ CutOff
  BY <1>1, <1>4 DEF Stop, Exit, Crash, Boot, CutOff, Halt, InFlight
<1>5. QED BY <1>2, <1>3, <1>4, NextCases DEF ServiceNext

-------------------------------------------------------------------------------
(* Between the two reads of a done job its row is as it was read, or gone *)
AsRead ==
  /\ rpc \in {"listing", "answered"} => rid \in Ids /\ req[rid] = "accepted"
  /\ rpc = "listing" /\ row.status = "done" =>
       status[rid] = "absent" \/ (status[rid] = "done" /\ summary[rid] = row.summary)
  /\ ExportWhole

LEMMA InitRead == ReaderInit => AsRead
BY DEF ReaderInit, AsRead, ExportWhole

LEMMA NextRead == IInv /\ Reports /\ AsRead /\ [ReaderNext]_ReaderVars => AsRead'
<1> SUFFICES ASSUME IInv, Reports, AsRead, [ReaderNext]_ReaderVars PROVE AsRead'
  OBVIOUS
<1>1. ASSUME ReaderBlank PROVE AsRead'
  BY <1>1 DEF ReaderBlank, AsRead, ExportWhole
<1>2. ASSUME [Next]_vars, UNCHANGED readerVars PROVE AsRead'
  <2>1. CASE rpc \notin {"listing", "answered"}
    BY <1>2, <2>1 DEF readerVars, AsRead, ExportWhole
  <2>2. CASE rpc \in {"listing", "answered"}
    <3>1. rid \in Ids /\ req[rid] = "accepted"
      BY <2>2 DEF AsRead
    <3>2. PICK id \in Ids : id = rid
      BY <3>1
    <3>3. req'[id] = "accepted" /\ (status[id] = "absent" => status'[id] = "absent")
      BY <1>2, <3>1, <3>2, AcceptedStays, GoneStays
    <3>4. status[id] = "done" =>
            status'[id] = "absent" \/ (status'[id] = "done" /\ summary'[id] = summary[id])
      BY <1>2, <3>2, OutcomeStays DEF SameRow, SameReport
    <3>5. QED
      BY <1>2, <3>2, <3>3, <3>4 DEF readerVars, AsRead, ExportWhole, RowExists
  <2>3. QED BY <2>1, <2>2
<1>3. ASSUME NEW id \in Ids, ExportJob(id) PROVE AsRead'
  BY <1>3 DEF ExportJob, Known, RowOf, vars, dbVars, serviceVars, AsRead, ExportWhole
<1>4. CASE ExportFindings
  <2>1. CASE rpc' = "answered" /\ body' = findings[rid] /\ UNCHANGED <<rid, row>>
    <3>1. /\ rpc = "listing" /\ UNCHANGED <<status, summary, req>>
          /\ rid \in Ids /\ req[rid] = "accepted"
      BY <1>4 DEF ExportFindings, rowVars, serviceVars, AsRead
    <3>2. status[rid] = "done" => findings[rid] = summary[rid].counts
      BY <3>1 DEF Reports, Published
    <3>3. QED BY <2>1, <3>1, <3>2 DEF AsRead, ExportWhole, RowExists
  <2>2. QED BY <1>1, <1>4, <2>1 DEF ExportFindings
<1>5. CASE UNCHANGED ReaderVars
  <2>1. [Next]_vars /\ UNCHANGED readerVars
    BY <1>5 DEF ReaderVars
  <2>2. QED BY <1>2, <2>1
<1>6. QED
  BY <1>1, <1>2, <1>3, <1>4, <1>5 DEF ReaderNext, ServiceStep, ReportRead

(* The findings an export lists for a done job are the ones its summary counts, *)
(* or the job was deleted while it was read.                                  *)
THEOREM ExportWholeHolds == ReaderSpec => []ExportWhole
<1>1. Init /\ ReaderInit => IInv /\ Reports /\ AsRead
  BY InitTypes, InitOwners, InitRows, InitReports, InitRead DEF IInv
<1>2. IInv /\ Reports /\ AsRead /\ [ReaderNext]_ReaderVars => (IInv /\ Reports /\ AsRead)'
  BY ReaderKeeps, NextRead
<1>3. AsRead => ExportWhole
  BY DEF AsRead
<1>4. QED BY <1>1, <1>2, <1>3, PTL DEF ReaderSpec
===============================================================================
