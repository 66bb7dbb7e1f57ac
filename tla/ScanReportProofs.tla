---------------------------- MODULE ScanReportProofs ----------------------------
(***************************************************************************)
(* What readers of the table may rely on, for any set of jobs, any number  *)
(* of engines, and any number of faults and restarts: a report is whole    *)
(* when its job is done, it stays what it is, and it goes with its row as  *)
(* long as the foreign key is checked.                                     *)
(*                                                                         *)
(* The report is published in four store calls, so the invariant Reports   *)
(* says what the worker's row holds after each of them, and that no row    *)
(* holds anything before the first.  A row that was deleted may: its id is *)
(* that of an accepted job, which is never inserted again.                 *)
(***************************************************************************)
EXTENDS ScanServiceProofs

-------------------------------------------------------------------------------
(* What a step does to one row                                               *)

SameReport(id) ==
  /\ errmsg'[id] = errmsg[id] /\ summary'[id] = summary[id] /\ findings'[id] = findings[id]

SameRow(id) == SameReport(id) /\ status'[id] = status[id] /\ started'[id] = started[id]

Accepting(id) == Waiting(id) \/ wjob = id

(* A step of a handler, a user or the process: it leaves the row alone,       *)
(* inserts it, cancels it, deletes it, or fails it with no worker in sight.   *)
HandledRow(id) ==
  \/ SameRow(id)
  \/ /\ req[id] = "staged" /\ status[id] = "absent" /\ status'[id] = "queued"
     /\ SameReport(id)
  \/ status[id] \in Active /\ status'[id] = "canceled" /\ SameReport(id)
     /\ started'[id] = started[id]
  \/ /\ status[id] \in Terminal /\ status'[id] = "absent"
     /\ errmsg'[id] = "" /\ findings'[id] = {} /\ summary'[id] = NoSummary
  \/ /\ ~Accepting(id) /\ ~Accepting(id)'
     /\ status[id] \in Active /\ status'[id] = "failed"
     /\ summary'[id] = summary[id] /\ findings'[id] = findings[id]

ServiceNext ==
  \/ \E id \in Ids : \/ PostGit(id) \/ PostZip(id) \/ HandlerStep(id)
                     \/ CancelScan(id) \/ DeleteScan(id)
  \/ Stop \/ Exit \/ Crash \/ Boot \/ CutOff

WorkerNext == (Worker \/ Watch \/ Expire) /\ UNCHANGED serviceVars

(* A store operation on one job leaves every column of the others alone *)
LEMMA RowFrame ==
  ASSUME RowTypeOK, NEW id \in Ids, StoreStep(id), NEW other \in Ids, other # id
  PROVE  SameRow(other)
BY DEF SameRow, SameReport, StoreStep, AnyFail, AnyInsert, AnySummary, CreateJob, Cancel,
       DeleteJob, SetStatus, Fail, SetError, InsertFindings, SetSummary, rowVars, RowTypeOK

LEMMA NobodysRow ==
  ASSUME IInv, NEW id \in Ids, req[id] # "accepted"
  PROVE  ~Accepting(id)
BY DEF IInv, Owners, AtMostOnce, Accepting, Waiting

LEMMA HandledRows ==
  ASSUME IInv, ServiceNext, NEW id \in Ids
  PROVE  HandledRow(id)
<1>1. RowTypeOK /\ HandlerRows(id)
  BY DEF IInv, TypeOK, DBTypeOK, Rows
<1>2. ASSUME UNCHANGED rowVars PROVE HandledRow(id)
  BY <1>2 DEF rowVars, HandledRow, SameRow, SameReport
<1>3. ASSUME NEW job \in Ids,
             \/ PostGit(job) \/ PostZip(job) \/ HandlerStep(job)
             \/ CancelScan(job) \/ DeleteScan(job)
      PROVE  HandledRow(id)
  <2>1. CASE \/ PostGit(job) \/ PostZip(job) \/ Register(job) \/ Submit(job)
             \/ Unregister(job) \/ RemoveDir(job)
    BY <1>2, <2>1 DEF PostGit, PostZip, Register, Submit, Unregister, RemoveDir,
       dbVars, rowVars
  <2>2. CASE CreateRow(job)
    <3>1. CASE job = id /\ CreateJob(id)
      <4>1. req[id] = "staged" /\ status[id] = "absent"
        BY <1>1, <2>2, <3>1 DEF CreateRow, Phase, HandlerRows
      <4>2. QED BY <1>1, <3>1, <4>1 DEF CreateJob, HandledRow, SameReport, RowTypeOK
    <3>2. CASE job # id /\ CreateJob(job)
      BY <1>1, <3>2 DEF CreateJob, HandledRow, SameRow, SameReport, RowTypeOK
    <3>3. QED BY <1>2, <2>2, <3>1, <3>2 DEF CreateRow
  <2>3. CASE Reject(job)
    <3>1. req[job] = "unregistered" /\ UNCHANGED <<queue, wjob>>
      BY <2>3 DEF Reject, Phase, workerVars
    <3>2. ~Accepting(job) /\ ~Accepting(job)'
      BY <3>1, NobodysRow DEF Accepting, Waiting
    <3>3. CASE job = id /\ Fail(id, "queue full")
      <4>1. status[id] = "queued"
        BY <1>1, <3>1, <3>3 DEF HandlerRows
      <4>2. QED BY <1>1, <3>2, <3>3, <4>1 DEF Fail, HandledRow, Active, RowTypeOK
    <3>4. CASE job # id /\ Fail(job, "queue full")
      BY <1>1, <3>4 DEF Fail, HandledRow, SameRow, SameReport, RowTypeOK
    <3>5. QED BY <1>2, <2>3, <3>3, <3>4 DEF Reject
  <2>4. CASE CancelScan(job)
    BY <1>1, <2>4 DEF CancelScan, Cancel, NotTerminal, HandledRow, SameRow, SameReport, RowTypeOK
  <2>5. CASE DeleteScan(job)
    BY <1>1, <2>5 DEF DeleteScan, DeleteJob, HandledRow, SameRow, SameReport, RowTypeOK
  <2>6. QED BY <1>3, <2>1, <2>2, <2>3, <2>4, <2>5 DEF HandlerStep
<1>4. CASE Stop \/ Exit \/ Crash \/ CutOff
  BY <1>2, <1>4 DEF Stop, Exit, Crash, Halt, CutOff, dbVars, rowVars
<1>5. CASE Boot /\ RecoverOrphans
  <2>1. queue = <<>> /\ wjob = NoJob /\ NoJob \notin Ids /\ UNCHANGED <<queue, wjob>>
    BY <1>5, WorkerAssumption DEF WorkerAssumption, Boot, IInv, Owners, workerVars
  <2>2. ~Accepting(id) /\ ~Accepting(id)'
    BY <2>1 DEF Accepting, Waiting
  <2>3. QED
    BY <1>1, <1>5, <2>2 DEF RecoverOrphans, NotTerminal, HandledRow, SameRow, SameReport, RowTypeOK
<1>6. QED BY <1>2, <1>3, <1>4, <1>5 DEF ServiceNext, Boot

(* A POST that has not come to its row yet *)
Rowless(id) == req[id] \in {"new", "staged"}

(* What such a step does to the worker: nothing, but for its context; or the  *)
(* process ends and holds no job.  A job is accepted by Submit alone, and no  *)
(* request goes back to where it had no row yet.                             *)
LEMMA HandledWorker ==
  ASSUME IInv, ServiceNext
  PROVE  /\ \/ UNCHANGED <<wpc, wjob, locals, result>>
            \/ Blank
         /\ \A id \in Ids : Waiting(id)' => Waiting(id) \/ req[id] = "registered"
         /\ \A id \in Ids : Rowless(id)' => Rowless(id)
<1>0. req \in [Ids -> Phases] BY DEF IInv, TypeOK
<1>1. ASSUME NEW job \in Ids,
             \/ PostGit(job) \/ PostZip(job) \/ HandlerStep(job)
             \/ CancelScan(job) \/ DeleteScan(job)
      PROVE  /\ UNCHANGED <<wpc, wjob, locals, result>>
             /\ \A id \in Ids : Waiting(id)' => Waiting(id) \/ req[id] = "registered"
             /\ \A id \in Ids : Rowless(id)' => Rowless(id)
  <2>0. \A id \in Ids : Rowless(id)' => Rowless(id)
    BY <1>0, <1>1 DEF PostGit, PostZip, HandlerStep, CreateRow, Register, Submit, Unregister,
       Reject, RemoveDir, CancelScan, DeleteScan, Phase, serviceVars, Rowless
  <2>1. UNCHANGED <<wpc, wjob, locals, result>>
    BY <1>1 DEF PostGit, PostZip, HandlerStep, CreateRow, Register, Submit, Unregister,
       Reject, RemoveDir, CancelScan, DeleteScan, workerVars, locals
  <2>2. queue' = queue \/ (queue' = Append(queue, job) /\ req[job] = "registered")
    BY <1>1 DEF PostGit, PostZip, HandlerStep, CreateRow, Register, Submit, Unregister,
       Reject, RemoveDir, CancelScan, DeleteScan, Phase
  <2>3. CASE queue' = queue
    BY <2>0, <2>1, <2>3 DEF Waiting
  <2>4. CASE queue' = Append(queue, job) /\ req[job] = "registered"
    <3>1. queue \in Seq(Ids)
      BY DEF IInv, TypeOK, WorkerTypeOK
    <3>2. \A i \in 1 .. Len(queue') : (i \in 1 .. Len(queue) /\ queue'[i] = queue[i])
                                      \/ queue'[i] = job
      BY <2>4, <3>1
    <3>3. QED BY <2>0, <2>1, <2>4, <3>2 DEF Waiting
  <2>5. QED BY <2>2, <2>3, <2>4
<1>2. CASE Exit \/ Crash
  BY <1>0, <1>2 DEF Exit, Crash, Halt, Waiting, Rowless
<1>3. CASE Stop \/ Boot \/ CutOff
  BY <1>3 DEF Stop, Boot, CutOff, workerVars, locals, Waiting, Rowless
<1>4. QED BY <1>1, <1>2, <1>3 DEF ServiceNext

-------------------------------------------------------------------------------
(* The inductive invariant                                                   *)

Unreported(id) == findings[id] = {} /\ errmsg[id] = ""

(* The engines behind the one at work have each completed, failed or been     *)
(* skipped, and Run has an error only when it returns one.                    *)
RunTally ==
  /\ found \subseteq ran /\ ran \cap bad = {}
  /\ \A e \in ran \cup bad : e < eng
  /\ wpc \notin {"check", "conclude", "recover", "cleanup"} => result = "ok"

(* A row has no report before its run *)
FreshRow(id) ==
  \/ Rowless(id) \/ status[id] = "queued"
  \/ Waiting(id)
  \/ wjob = id /\ wpc \in {"take", "load", "start"}
  => Unreported(id)

(* Run publishes the findings, then the summary, then the warning *)
OwnReport(id) ==
  wjob = id /\ status[id] # "absent" =>
    /\ wpc \in Running \ {"summary", "wrapup"} => Unreported(id)
    /\ wpc \in {"summary", "wrapup"} => findings[id] = found /\ errmsg[id] = ""
    /\ wpc = "wrapup" => summary[id] = Report
    /\ wpc \in {"check", "conclude"} /\ result = "ok" =>
         /\ findings[id] = found /\ summary[id] = Report
         /\ errmsg[id] = IF bad = {} THEN "" ELSE Warning
         /\ ran = {} => bad = {}

Published(id) ==
  status[id] = "done" =>
    /\ summary[id].written /\ findings[id] = summary[id].counts
    /\ summary[id].counts \subseteq summary[id].engines
    /\ summary[id].complete => summary[id].engines = Engine /\ errmsg[id] = ""

Reports == RunTally /\ \A id \in Ids : FreshRow(id) /\ OwnReport(id) /\ Published(id)

LEMMA InitReports == Init => Reports
<1> SUFFICES ASSUME Init PROVE Reports
  OBVIOUS
<1>1. RunTally
  BY DEF Init, WorkerInit, RunTally
<1>2. ASSUME NEW id \in Ids PROVE FreshRow(id) /\ OwnReport(id) /\ Published(id)
  BY DEF Init, WorkerInit, DBInit, FreshRow, OwnReport, Published, Unreported, Running
<1>3. QED BY <1>1, <1>2 DEF Reports

LEMMA BlankTally == Blank => RunTally'
BY DEF Blank, RunTally

LEMMA ReportsHandled ==
  ASSUME IInv, Reports, ServiceNext
  PROVE  Reports'
<1>1. RunTally'
  BY HandledWorker, BlankTally DEF Reports, RunTally, locals
<1>2. ASSUME NEW id \in Ids PROVE FreshRow(id)' /\ OwnReport(id)' /\ Published(id)'
  <2>1. HandledRow(id) /\ FreshRow(id) /\ OwnReport(id) /\ Published(id)
    BY HandledRows DEF Reports
  <2>2. /\ UNCHANGED <<wpc, wjob, ran, bad, found, result>> \/ wjob' \notin Ids
        /\ Waiting(id)' => Waiting(id) \/ req[id] = "registered"
        /\ Rowless(id)' => Rowless(id)
    BY HandledWorker, WorkerAssumption DEF WorkerAssumption, Blank, locals
  <2>3. /\ req[id] = "registered" => status[id] = "queued"
        /\ req[id] = "staged" => Rowless(id)
        /\ Rowless(id) => status[id] = "absent"
        /\ req[id] = "staged" => wjob # id /\ ~Waiting(id)
    BY NobodysRow DEF IInv, Rows, HandlerRows, Accepting, Rowless
  <2>4. Report' = Report \/ wjob' # id
    BY <2>2 DEF Report
  <2>5. CASE SameRow(id)
    BY <2>1, <2>2, <2>3, <2>4, <2>5
       DEF SameRow, SameReport, FreshRow, OwnReport, Published, Unreported
  <2>6. CASE /\ req[id] = "staged" /\ status[id] = "absent" /\ status'[id] = "queued"
             /\ SameReport(id)
    BY <2>1, <2>2, <2>3, <2>6 DEF SameReport, FreshRow, OwnReport, Published, Unreported
  <2>7. CASE status[id] \in Active /\ status'[id] = "canceled" /\ SameReport(id)
    BY <2>1, <2>2, <2>3, <2>4, <2>7
       DEF Active, SameReport, FreshRow, OwnReport, Published, Unreported
  <2>8. CASE status'[id] = "absent" /\ errmsg'[id] = "" /\ findings'[id] = {}
    BY <2>8 DEF FreshRow, OwnReport, Published, Unreported
  <2>9. CASE ~Accepting(id)' /\ status[id] \in Active /\ status'[id] = "failed"
    BY <2>2, <2>3, <2>9 DEF Active, Accepting, FreshRow, OwnReport, Published
  <2>10. QED BY <2>1, <2>5, <2>6, <2>7, <2>8, <2>9 DEF HandledRow
<1>3. QED BY <1>1, <1>2 DEF Reports

(* The engine loop keeps count, ... *)
LEMMA EngineTally ==
  ASSUME TypeOK, RunTally, EngineBegin \/ EngineEnd
  PROVE  /\ (ran \cap bad = {})' /\ (found \subseteq ran)'
         /\ (\A e \in ran \cup bad : e < eng)'
<1>1. eng \in Nat /\ \A e \in ran \cup bad : e \in Nat /\ e < eng
  BY StoreAssumption DEF StoreAssumption, TypeOK, WorkerTypeOK, Engine, RunTally
<1>2. CASE EngineBegin
  BY <1>1, <1>2 DEF EngineBegin, RunTally
<1>3. CASE EngineEnd
  BY <1>1, <1>3 DEF EngineEnd, RunTally, locals
<1>4. QED BY <1>2, <1>3

(* ... so that none has failed when all have completed *)
LEMMA CompleteTally ==
  ASSUME TypeOK, RunTally
  PROVE  Report.complete => bad = {}
BY DEF Report, RunTally, TypeOK, WorkerTypeOK

(* The worker's steps between Dequeue and Cleanup: its own row *)
LEMMA OwnReportStep ==
  ASSUME TypeOK, wjob \in Ids, RunTally, FreshRow(wjob), OwnReport(wjob), Published(wjob),
         RunningRows(wjob), WaitingRows(wjob), ~Waiting(wjob), ~Rowless(wjob)',
         Worker \/ Watch \/ Expire, ~Dequeue, ~StopWorker, ~Cleanup
  PROVE  /\ RunTally' /\ wjob' = wjob /\ queue' = queue
         /\ FreshRow(wjob)' /\ OwnReport(wjob)' /\ Published(wjob)'
<1> USE DEF FreshRow, OwnReport, Published, Unreported, RunTally, RunningRows, WaitingRows,
            Waiting, Engaged, Running, TypeOK, DBTypeOK, RowTypeOK, rowVars,
            NotTerminal, Active, RowExists, IsCanceled, Referenced, locals, Report
<1>1. CASE TakeSecret
  BY <1>1 DEF TakeSecret, dbVars
<1>2. CASE LoadJob
  BY <1>2 DEF LoadJob
<1>3. CASE StartJob
  BY <1>3 DEF StartJob, SetStatus
<1>4. CASE RunFetching
  BY <1>4 DEF RunFetching, CtxCall, Return, CtxErr, SetStatus
<1>5. CASE Fetch
  BY <1>5 DEF Fetch, FetchGit, FetchZip, FetchFails, Return, CtxErr, dbVars
<1>6. CASE SetBranch
  BY <1>6 DEF SetBranch, CtxCall, Return, CtxErr
<1>7. CASE RunScanning
  BY <1>7 DEF RunScanning, CtxCall, Return, CtxErr, SetStatus
<1>8. CASE EngineBegin
  BY <1>8, EngineTally DEF EngineBegin, Return, CtxErr, SetStatus
<1>9. CASE EngineEnd
  BY <1>9, EngineTally DEF EngineEnd, Return, CtxErr, dbVars
<1>10. CASE Persist
  BY <1>10 DEF Persist, CtxCall, Return, CtxErr, InsertFindings, dbVars
<1>11. CASE PutSummary
  BY <1>11 DEF PutSummary, CtxCall, Return, CtxErr, SetSummary
<1>12. CASE Wrapup
  BY <1>12 DEF Wrapup, CtxCall, Return, CtxErr, SetError, dbVars
<1>13. CASE Panic
  BY <1>13 DEF Panic
<1>14. CASE RecoverPanic
  BY <1>14 DEF RecoverPanic, BackgroundCall, Fail
<1>15. CASE CheckCanceled
  BY <1>15 DEF CheckCanceled
<1>16. CASE Conclude
  <2>2. CASE result = "ok" /\ SetStatus(wjob, "done")
    <3>1. /\ wpc = "conclude" /\ status[wjob] # "absent" /\ wpc' = "cleanup" /\ wjob' = wjob
          /\ queue' = queue
      BY <1>16, <2>2 DEF Conclude, SetStatus, BackgroundCall
    <3>2. /\ findings[wjob] = found /\ summary[wjob] = Report
          /\ errmsg[wjob] = IF bad = {} THEN "" ELSE Warning
      BY <2>2, <3>1
    <3>3. /\ Report.written /\ Report.counts = found /\ Report.engines = ran
          /\ Report.complete => ran = Engine /\ bad = {}
      BY CompleteTally
    <3>4. Published(wjob)'
      BY <2>2, <3>1, <3>2, <3>3 DEF SetStatus
    <3>5. FreshRow(wjob)' /\ OwnReport(wjob)' /\ RunTally'
      BY <1>16, <2>2, <3>1 DEF Conclude, SetStatus
    <3>6. QED BY <3>1, <3>4, <3>5
  <2>3. CASE ~(result = "ok" /\ SetStatus(wjob, "done"))
    BY <1>16, <2>3 DEF Conclude, BackgroundCall, Fail
  <2>4. QED BY <2>2, <2>3
<1>17. CASE Watch
  BY <1>17 DEF Watch, dbVars
<1>18. CASE Expire
  BY <1>18 DEF Expire, dbVars
<1>19. QED
  BY <1>1, <1>2, <1>3, <1>4, <1>5, <1>6, <1>7, <1>8, <1>9, <1>10, <1>11, <1>12, <1>13, <1>14, <1>15, <1>16, <1>17, <1>18 DEF Worker, WorkerStep

(* The steps that change no row: a job is taken from the queue, or put down *)
LEMMA TurnStep ==
  ASSUME IInv, Dequeue \/ StopWorker \/ Cleanup, NEW id \in Ids
  PROVE  /\ SameRow(id)
         /\ Waiting(id)' => Waiting(id)
         /\ wjob' = id => wpc' = "take" /\ Waiting(id)
<1>1. SameRow(id)
  BY DEF Dequeue, StopWorker, Cleanup, SameRow, SameReport, dbVars, rowVars
<1>2. NoJob \notin Ids /\ queue \in Seq(Ids) /\ (wpc = "idle" => wjob = NoJob)
  BY WorkerAssumption DEF WorkerAssumption, IInv, TypeOK, WorkerTypeOK
<1>3. CASE Dequeue
  <2>1. queue # <<>> /\ wjob' = queue[1] /\ queue' = Tail(queue) /\ wpc' = "take"
    BY <1>3 DEF Dequeue
  <2>2. /\ 1 \in 1 .. Len(queue)
        /\ \A i \in 1 .. Len(queue') : queue'[i] = queue[i + 1] /\ i + 1 \in 1 .. Len(queue)
    BY <1>2, <2>1
  <2>3. QED BY <1>1, <2>1, <2>2 DEF Waiting
<1>4. CASE StopWorker \/ Cleanup
  BY <1>1, <1>2, <1>4 DEF StopWorker, Cleanup, Blank, Waiting
<1>5. QED BY <1>3, <1>4

(* Any other step of the worker is one of its own job, and its alone *)
LEMMA OwnStep ==
  ASSUME IInv, Worker \/ Watch \/ Expire, ~(Dequeue \/ StopWorker \/ Cleanup)
  PROVE  /\ wjob \in Ids /\ wjob' = wjob /\ queue' = queue
         /\ RunningRows(wjob) /\ WaitingRows(wjob) /\ ~Waiting(wjob)
         /\ \A id \in Ids : id # wjob => SameRow(id)
<1>1. wpc \notin {"idle", "stopped"} /\ wjob' = wjob /\ queue' = queue
  BY DEF Worker, WorkerStep, TakeSecret, LoadJob, StartJob, RunFetching, Fetch,
     SetBranch, RunScanning, EngineBegin, EngineEnd, Persist, PutSummary, Wrapup, Panic,
     RecoverPanic, CheckCanceled, Conclude, Watch, Expire, Running
<1>2. wjob \in Ids /\ TypeOK /\ RowTypeOK
  BY <1>1 DEF IInv, TypeOK, WorkerTypeOK, DBTypeOK
<1>3. \A id \in Ids : id # wjob => SameRow(id)
  BY <1>2, WorkerRows, RowFrame DEF rowVars, SameRow, SameReport
<1>4. RunningRows(wjob) /\ WaitingRows(wjob)
  BY <1>2 DEF IInv, Rows
<1>5. ~Waiting(wjob)
  BY DEF IInv, Owners, AtMostOnce, Waiting
<1>6. QED BY <1>1, <1>2, <1>3, <1>4, <1>5

LEMMA ReportsWorker ==
  ASSUME IInv, Reports, WorkerNext
  PROVE  Reports'
<1>0. \A id \in Ids : Rowless(id)' <=> Rowless(id)
  BY DEF WorkerNext, serviceVars, Rowless
<1>1. CASE Dequeue \/ StopWorker \/ Cleanup
  <2>1. RunTally'
    BY <1>1, BlankTally DEF Dequeue, StopWorker, Cleanup, Reports, RunTally, locals
  <2>2. ASSUME NEW id \in Ids PROVE FreshRow(id)' /\ OwnReport(id)' /\ Published(id)'
    BY <1>0, <1>1, TurnStep DEF Reports, SameRow, SameReport, FreshRow, OwnReport, Published,
       Unreported, Running
  <2>3. QED BY <2>1, <2>2 DEF Reports
<1>2. CASE ~(Dequeue \/ StopWorker \/ Cleanup)
  <2>1. /\ wjob \in Ids /\ wjob' = wjob /\ queue' = queue
        /\ RunningRows(wjob) /\ WaitingRows(wjob) /\ ~Waiting(wjob)
        /\ \A id \in Ids : id # wjob => SameRow(id)
    BY <1>2, OwnStep DEF WorkerNext
  <2>2. RunTally' /\ FreshRow(wjob)' /\ OwnReport(wjob)' /\ Published(wjob)'
    <3>1. ~Rowless(wjob)'
      BY <1>0, <2>1 DEF IInv, Owners, Rowless
    <3>2. QED BY <1>2, <2>1, <3>1, OwnReportStep DEF IInv, Reports, WorkerNext
  <2>3. ASSUME NEW id \in Ids, id # wjob
        PROVE  FreshRow(id)' /\ OwnReport(id)' /\ Published(id)'
    BY <1>0, <2>1, <2>3 DEF Reports, SameRow, SameReport, FreshRow, OwnReport, Published,
       Unreported, Waiting
  <2>4. ASSUME NEW id \in Ids, id = wjob
        PROVE  FreshRow(id)' /\ OwnReport(id)' /\ Published(id)'
    BY <2>1, <2>2, <2>4 DEF FreshRow, OwnReport, Published, Unreported, Waiting, Rowless
  <2>5. QED BY <2>2, <2>3, <2>4 DEF Reports
<1>3. QED BY <1>1, <1>2

LEMMA NextCases == Next <=> WorkerNext \/ ServiceNext \/ Quiet
BY DEF Next, WorkerNext, ServiceNext

LEMMA NextReports == IInv /\ Reports /\ [Next]_vars => Reports'
<1>1. ASSUME IInv, Reports, Quiet \/ UNCHANGED vars PROVE Reports'
  <2>1. UNCHANGED <<rowVars, queue, wpc, wjob, locals, result, req>>
    BY <1>1 DEF Quiet, vars, dbVars, rowVars, workerVars, serviceVars, locals
  <2>2. QED
    BY <1>1, <2>1 DEF rowVars, locals, Reports, RunTally, FreshRow, OwnReport, Published,
       Unreported, Waiting, Report, Rowless
<1>2. QED BY <1>1, ReportsWorker, ReportsHandled, NextCases

LEMMA ReportInvariance == Machine => [](IInv /\ Reports)
<1>1. Init => Reports
  BY InitReports
<1>2. QED BY <1>1, NextReports, Invariance, PTL DEF Machine

LEMMA SpecIsMachine == Spec => Machine
BY DEF Spec, PatientSpec

(* A job that is done shows its reader a summary and the very findings the     *)
(* summary counts, and calls itself complete only if every engine was.        *)
THEOREM DoneIsPublishedHolds == Spec => []DoneIsPublished
<1>1. Reports => DoneIsPublished
  BY DEF Reports, Published, DoneIsPublished
<1>2. QED BY <1>1, ReportInvariance, SpecIsMachine, PTL

(* Findings come into the table by InsertFindings alone, which leaves the row  *)
(* what it was and has the foreign key checked                               *)
LEMMA OwnFindings ==
  ASSUME IInv, Worker \/ Watch \/ Expire, ~(Dequeue \/ StopWorker \/ Cleanup)
  PROVE  \/ findings'[wjob] = findings[wjob]
         \/ Referenced(wjob) /\ status' = status
BY DEF Worker, WorkerStep, TakeSecret, LoadJob, StartJob, RunFetching, Fetch, SetBranch,
   RunScanning, EngineBegin, EngineEnd, Persist, PutSummary, Wrapup, Panic, RecoverPanic,
   CheckCanceled, Conclude, Watch, Expire, CtxCall, BackgroundCall, SetStatus, Fail, SetError,
   SetSummary, InsertFindings, dbVars, rowVars

(* Findings are left without their row by the worker alone, when it stores     *)
(* them for a job that was deleted meanwhile on a connection on which the      *)
(* pragma is not set; a delete itself never leaves any.                       *)
THEOREM OrphansOnlyUncheckedHolds == Spec => OrphansOnlyUnchecked
<1>1. IInv /\ [Next]_vars =>
        [\A id \in Ids : Orphaned(id)' /\ ~Orphaned(id) => ~enforced /\ wjob = id]_vars
  <2> SUFFICES ASSUME IInv, Next, NEW id \in Ids, Orphaned(id)', ~Orphaned(id)
               PROVE  ~enforced /\ wjob = id
    OBVIOUS
  <2>1. ~SameRow(id)
    BY DEF SameRow, SameReport, Orphaned, RowExists
  <2>2. WorkerNext
    <3>1. ~ServiceNext
      BY <2>1, HandledRows DEF HandledRow, Orphaned, RowExists
    <3>2. ~Quiet
      BY <2>1 DEF Quiet, vars, dbVars, SameRow, SameReport
    <3>3. QED BY <3>1, <3>2, NextCases
  <2>3. ~(Dequeue \/ StopWorker \/ Cleanup)
    BY <2>1, TurnStep
  <2>4. id = wjob /\ wjob \in Ids
    BY <2>1, <2>2, <2>3, OwnStep DEF WorkerNext
  <2>5. status[id] = "absent"
    <3>1. Moves(id)
      BY <2>2, <2>4, WorkerMoves DEF WorkerNext
    <3>2. QED BY <3>1 DEF Moves, Orphaned, RowExists
  <2>6. Referenced(id)
    BY <2>2, <2>3, <2>4, <2>5, OwnFindings DEF WorkerNext, Orphaned, RowExists
  <2>7. QED BY <2>4, <2>5, <2>6 DEF Referenced, RowExists
<1>2. QED BY <1>1, Invariance, SpecIsMachine, PTL DEF Machine, OrphansOnlyUnchecked

(* The worker leaves the row of a job that is done or failed alone *)
LEMMA OwnRowActive ==
  ASSUME IInv, Worker \/ Watch \/ Expire, ~(Dequeue \/ StopWorker \/ Cleanup),
         status[wjob] \in {"done", "failed"}
  PROVE  SameRow(wjob)
<1>1. RunningRows(wjob) /\ WaitingRows(wjob) /\ wjob \in Ids /\ TypeOK
  BY OwnStep DEF IInv
<1>2. wpc \notin Engaged \cup {"take", "load", "start"}
  BY <1>1 DEF RunningRows, WaitingRows
<1>3. QED
  BY <1>2 DEF Engaged, Running, Worker, WorkerStep, TakeSecret, LoadJob, StartJob, RunFetching,
     Fetch, SetBranch, RunScanning, EngineBegin, EngineEnd, Persist, PutSummary, Wrapup, Panic,
     RecoverPanic, CheckCanceled, Conclude, Watch, Expire

(* No step touches the row of a job that is done or failed, but a delete *)
LEMMA OutcomeStays ==
  ASSUME IInv, [Next]_vars, NEW id \in Ids, status[id] \in {"done", "failed"}
  PROVE  status'[id] = "absent" \/ SameRow(id)
<1>1. CASE ServiceNext
  BY <1>1, HandledRows DEF HandledRow, Active
<1>2. CASE WorkerNext
  BY <1>2, TurnStep, OwnStep, OwnRowActive DEF WorkerNext
<1>3. CASE Quiet \/ UNCHANGED vars
  BY <1>3 DEF Quiet, vars, dbVars, SameRow, SameReport
<1>4. QED BY <1>1, <1>2, <1>3, NextCases

(* Once a job is done or failed, what readers see of it is fixed until it is   *)
(* deleted, whatever the worker that ran it still does.                       *)
THEOREM ResultsFrozenHolds == Spec => ResultsFrozen
<1>1. IInv /\ [Next]_vars =>
        [\A id \in Ids : status[id] \in {"done", "failed"} =>
           \/ status'[id] = "absent"
           \/ <<errmsg'[id], summary'[id], findings'[id]>>
                 = <<errmsg[id], summary[id], findings[id]>>]_vars
  BY OutcomeStays DEF SameRow, SameReport
<1>2. QED BY <1>1, Invariance, SpecIsMachine, PTL DEF Machine, ResultsFrozen

(* A row leaves a terminal status only with its job, or from canceled to       *)
(* failed.                                                                    *)
THEOREM TerminalStickyHolds == Spec => TerminalSticky
<1>1. IInv /\ [Next]_vars =>
        [\A id \in Ids : status[id] \in Terminal /\ status'[id] # status[id] =>
           \/ status'[id] = "absent"
           \/ status[id] = "canceled" /\ status'[id] = "failed"]_vars
  <2> SUFFICES ASSUME IInv, Next, NEW id \in Ids, status[id] \in Terminal,
                      status'[id] # status[id], status'[id] # "absent"
               PROVE  status[id] = "canceled" /\ status'[id] = "failed"
    OBVIOUS
  <2>1. status[id] = "canceled"
    BY OutcomeStays DEF Terminal, SameRow
  <2>2. status'[id] = "failed"
    <3>1. CASE ServiceNext
      BY <2>1, <3>1, HandledRows DEF HandledRow, SameRow, Active
    <3>2. CASE WorkerNext
      <4>1. ~(Dequeue \/ StopWorker \/ Cleanup)
        BY TurnStep DEF SameRow
      <4>2. id = wjob /\ wjob \in Ids
        BY <3>2, <4>1, OwnStep DEF WorkerNext, SameRow
      <4>3. Moves(wjob)
        BY <3>2, <4>2, WorkerMoves DEF WorkerNext
      <4>4. QED BY <2>1, <4>2, <4>3 DEF Moves, Active
    <3>3. CASE Quiet
      BY <3>3 DEF Quiet, vars, dbVars
    <3>4. QED BY <3>1, <3>2, <3>3, NextCases
  <2>3. QED BY <2>1, <2>2
<1>2. QED BY <1>1, Invariance, SpecIsMachine, PTL DEF Machine, TerminalSticky

(* The step to done is the worker's, publishes what this run found, and warns  *)
(* iff an engine failed; a run whose engines all failed is never done.        *)
THEOREM PublishHonestHolds == Spec => PublishHonest
<1>1. IInv /\ Reports /\ [Next]_vars =>
        [\A id \in Ids : status'[id] = "done" /\ status[id] # "done" =>
           /\ wjob = id /\ findings[id] = found
           /\ (errmsg[id] = Warning) <=> bad # {}
           /\ ran = {} => bad = {}]_vars
  <2> SUFFICES ASSUME IInv, Reports, Next, NEW id \in Ids,
                      status'[id] = "done", status[id] # "done"
               PROVE  /\ wjob = id /\ findings[id] = found
                      /\ (errmsg[id] = Warning) <=> bad # {}
                      /\ ran = {} => bad = {}
    OBVIOUS
  <2>1. WorkerNext
    <3>1. ~ServiceNext
      BY HandledRows DEF HandledRow, SameRow
    <3>2. ~Quiet
      BY DEF Quiet, vars, dbVars
    <3>3. QED BY <3>1, <3>2, NextCases
  <2>2. ~(Dequeue \/ StopWorker \/ Cleanup)
    BY TurnStep DEF SameRow
  <2>3. id = wjob /\ wjob \in Ids
    BY <2>1, <2>2, OwnStep DEF WorkerNext, SameRow
  <2>4. Conclude /\ result = "ok" /\ NotTerminal(wjob)
    <3>1. RowTypeOK
      BY DEF IInv, TypeOK, DBTypeOK
    <3>2. QED
      BY <2>1, <2>2, <2>3, <3>1 DEF WorkerNext, Worker, WorkerStep, TakeSecret, LoadJob, StartJob,
         RunFetching, Fetch, SetBranch, RunScanning, EngineBegin, EngineEnd, Persist, PutSummary,
         Wrapup, Panic, RecoverPanic, CheckCanceled, Conclude, Watch, Expire, CtxCall,
         BackgroundCall, SetStatus, Fail, SetError, SetSummary, InsertFindings, dbVars, rowVars,
         RowTypeOK
  <2>5. wpc = "conclude" /\ status[wjob] # "absent"
    BY <2>4 DEF Conclude, NotTerminal, Active
  <2>6. QED BY <2>3, <2>4, <2>5 DEF Reports, OwnReport, Warning
<1>2. QED BY <1>1, ReportInvariance, SpecIsMachine, PTL DEF Machine, PublishHonest
===============================================================================
