--------------------------- MODULE ScanServiceProofs ---------------------------
(***************************************************************************)
(* Theorems about ScanService, for any set of jobs, any number of engines, *)
(* any queue size and any number of faults and restarts.                   *)
(***************************************************************************)
EXTENDS ScanService, TLAPS

-------------------------------------------------------------------------------
(* Types                                                                     *)

LEMMA NoSummaryType == NoSummary \in SummaryType
  BY DEF NoSummary, SummaryType

LEMMA InitTypes == Init => TypeOK
<1> SUFFICES ASSUME Init PROVE TypeOK
  OBVIOUS
<1>1. RowTypeOK
  <2>1. status \in [Ids -> Active \cup Terminal \cup {"absent"}]
    BY DEF Init, DBInit
  <2>2. errmsg \in [Ids -> Reasons \cup {Warning, ""}]
    BY DEF Init, DBInit
  <2>3. QED BY <2>1, <2>2, NoSummaryType DEF Init, DBInit, RowTypeOK
<1>2. DBTypeOK
  <2>1. faults = 0 /\ enforced = TRUE
    BY DEF Init, DBInit
  <2>2. QED BY <1>1, <2>1, StoreAssumption DEF StoreAssumption, DBTypeOK
<1>3. WorkerTypeOK
  <2>1. queue \in Seq(Ids) /\ eng \in 1 .. NEngines + 1
    BY StoreAssumption DEF StoreAssumption, Init, WorkerInit
  <2>2. QED BY <2>1 DEF Init, WorkerInit, WorkerTypeOK, Places
<1>4. QED
  BY <1>2, <1>3, ServiceAssumption DEF ServiceAssumption, Init, TypeOK, Phases

(* What a step may do to the rows: one store operation, or nothing *)
AnyFail(id)    == \E r \in Reasons : Fail(id, r)
AnyInsert(id)  == \E e \in SUBSET Engine : InsertFindings(id, e)
AnySummary(id) == \E s \in SummaryType : SetSummary(id, s)

StoreStep(id) ==
  \/ CreateJob(id) \/ Cancel(id) \/ DeleteJob(id)
  \/ SetStatus(id, "fetching") \/ SetStatus(id, "scanning") \/ SetStatus(id, "done")
  \/ AnyFail(id) \/ SetError(id, Warning) \/ AnyInsert(id) \/ AnySummary(id)
  \/ UNCHANGED rowVars

LEMMA StoreTypes ==
  ASSUME RowTypeOK, NEW id \in Ids, StoreStep(id)
  PROVE  RowTypeOK'
<1> USE DEF RowTypeOK
<1>1. CASE CreateJob(id) \/ Cancel(id)
  BY <1>1 DEF CreateJob, Cancel, Active, Terminal
<1>2. CASE DeleteJob(id)
  BY <1>2, NoSummaryType DEF DeleteJob
<1>3. CASE SetStatus(id, "fetching") \/ SetStatus(id, "scanning") \/ SetStatus(id, "done")
  BY <1>3 DEF SetStatus, Active, Terminal
<1>4. CASE AnyFail(id)
  BY <1>4 DEF AnyFail, Fail, Active, Terminal
<1>5. CASE SetError(id, Warning)
  BY <1>5 DEF SetError
<1>6. CASE AnyInsert(id)
  BY <1>6 DEF AnyInsert, InsertFindings
<1>7. CASE AnySummary(id)
  BY <1>7 DEF AnySummary, SetSummary
<1>8. CASE UNCHANGED rowVars
  BY <1>8 DEF rowVars
<1>9. QED
  BY <1>1, <1>2, <1>3, <1>4, <1>5, <1>6, <1>7, <1>8 DEF StoreStep

LEMMA RecoverTypes == RowTypeOK /\ RecoverOrphans => RowTypeOK'
BY DEF RecoverOrphans, RowTypeOK, Active, Terminal, Reasons, NotTerminal

LEMMA IdleTypes == RowTypeOK /\ UNCHANGED rowVars => RowTypeOK'
BY DEF RowTypeOK, rowVars

LEMMA BlankTypes ==
  ASSUME Blank
  PROVE  /\ (wpc = "idle" /\ wjob = NoJob /\ ctx = "none" /\ result = "ok")'
         /\ wsec' \in BOOLEAN /\ eng' \in 1 .. NEngines + 1
         /\ ran' \in SUBSET Engine /\ bad' \in SUBSET Engine /\ found' \in SUBSET Engine
<1>1. eng' \in 1 .. NEngines + 1
  BY StoreAssumption DEF StoreAssumption, Blank
<1>2. QED BY <1>1 DEF Blank

LEMMA WorkerTypes ==
  ASSUME TypeOK, Worker \/ Watch \/ Expire
  PROVE  WorkerTypeOK'
<1> USE StoreAssumption, WorkerAssumption
    DEF StoreAssumption, WorkerAssumption, TypeOK, WorkerTypeOK, Places, Running, locals
<1>1. CASE Dequeue
  BY <1>1 DEF Dequeue
<1>2. CASE StopWorker
  BY <1>2 DEF StopWorker
<1>3. CASE TakeSecret
  BY <1>3 DEF TakeSecret
<1>4. CASE LoadJob
  BY <1>4 DEF LoadJob, CallFails, Fault
<1>5. CASE StartJob
  BY <1>5 DEF StartJob, CallFails, Fault
<1>6. CASE RunFetching
  BY <1>6 DEF RunFetching, CtxCall, Return, CtxErr
<1>7. CASE Fetch
  BY <1>7 DEF Fetch, FetchGit, FetchZip, FetchFails, Return, CtxErr
<1>8. CASE SetBranch
  BY <1>8 DEF SetBranch, CtxCall, Return, CtxErr
<1>9. CASE RunScanning
  BY <1>9 DEF RunScanning, CtxCall, Return, CtxErr
<1>10. CASE EngineBegin
  BY <1>10 DEF EngineBegin, Return, CtxErr, Engine
<1>11. CASE EngineEnd
  <2>1. CASE UNCHANGED locals
    BY <1>11, <2>1 DEF EngineEnd, Return, CtxErr
  <2>2. CASE ~(UNCHANGED locals)
    <3>1. eng \in Engine /\ eng' = eng + 1 /\ wpc' = "engines"
      BY <1>11, <2>2 DEF EngineEnd
    <3>2. eng' \in 1 .. NEngines + 1
      BY <3>1 DEF Engine
    <3>3. ran' \in SUBSET Engine /\ bad' \in SUBSET Engine /\ found' \in SUBSET Engine
      BY <1>11, <2>2, <3>1 DEF EngineEnd
    <3>4. QED BY <1>11, <2>2, <3>1, <3>2, <3>3 DEF EngineEnd
  <2>3. QED BY <2>1, <2>2
<1>12. CASE Persist
  BY <1>12 DEF Persist, CtxCall, Return, CtxErr
<1>13. CASE PutSummary
  BY <1>13 DEF PutSummary, CtxCall, Return, CtxErr
<1>14. CASE Wrapup
  BY <1>14 DEF Wrapup, CtxCall, Return, CtxErr
<1>15. CASE Panic
  BY <1>15 DEF Panic, Fault
<1>16. CASE RecoverPanic
  BY <1>16 DEF RecoverPanic, BackgroundCall
<1>17. CASE CheckCanceled
  BY <1>17 DEF CheckCanceled
<1>18. CASE Conclude
  BY <1>18 DEF Conclude, BackgroundCall
<1>19. CASE Cleanup
  BY <1>19, BlankTypes DEF Cleanup
<1>20. CASE Watch
  BY <1>20 DEF Watch
<1>21. CASE Expire
  BY <1>21 DEF Expire
<1>22. QED
  BY <1>1, <1>2, <1>3, <1>4, <1>5, <1>6, <1>7, <1>8, <1>9, <1>10, <1>11, <1>12, <1>13, <1>14, <1>15, <1>16, <1>17, <1>18, <1>19, <1>20, <1>21 DEF Worker, WorkerStep
LEMMA InsertsFound ==
  ASSUME TypeOK, InsertFindings(wjob, found) PROVE AnyInsert(wjob)
BY DEF TypeOK, WorkerTypeOK, AnyInsert

LEMMA PutsReport ==
  ASSUME TypeOK, SetSummary(wjob, Report) PROVE AnySummary(wjob)
<1>1. Report \in SummaryType
  BY DEF Report, SummaryType, TypeOK, WorkerTypeOK
<1>2. QED BY <1>1 DEF AnySummary

(* What any step may do to the count of failed calls *)
FaultStep == UNCHANGED faults \/ Fault

(* A step of the worker or of its context, seen from the table: one store     *)
(* operation on the worker's own job, or nothing.                            *)
LEMMA WorkerRows ==
  ASSUME TypeOK, Worker \/ Watch \/ Expire
  PROVE  /\ UNCHANGED rowVars \/ (wjob \in Ids /\ StoreStep(wjob))
         /\ FaultStep
<1>1. wpc \notin {"idle", "stopped"} => wjob \in Ids
  BY DEF TypeOK, WorkerTypeOK
<1> USE <1>1 DEF StoreStep, FaultStep
<1>2. CASE Dequeue
  BY <1>2 DEF Dequeue, dbVars, rowVars
<1>3. CASE StopWorker
  BY <1>3 DEF StopWorker, dbVars, rowVars
<1>4. CASE TakeSecret
  BY <1>4 DEF TakeSecret, dbVars, rowVars
<1>5. CASE LoadJob
  BY <1>5 DEF LoadJob, CallFails
<1>6. CASE StartJob
  BY <1>6 DEF StartJob, CallFails
<1>7. CASE RunFetching
  BY <1>7 DEF RunFetching, CtxCall, CallFails, Return
<1>8. CASE Fetch
  BY <1>8 DEF Fetch, dbVars, rowVars
<1>9. CASE SetBranch
  BY <1>9 DEF SetBranch, CtxCall, CallFails, Return
<1>10. CASE RunScanning
  BY <1>10 DEF RunScanning, CtxCall, CallFails, Return
<1>11. CASE EngineBegin
  BY <1>11 DEF EngineBegin
<1>12. CASE EngineEnd
  BY <1>12 DEF EngineEnd, dbVars, rowVars
<1>13. CASE Persist
  BY <1>13, InsertsFound DEF Persist, CtxCall, CallFails, Return, dbVars, rowVars
<1>14. CASE PutSummary
  BY <1>14, PutsReport DEF PutSummary, CtxCall, CallFails, Return
<1>15. CASE Wrapup
  BY <1>15 DEF Wrapup, CtxCall, CallFails, Return, dbVars, rowVars
<1>16. CASE Panic
  BY <1>16 DEF Panic
<1>17. CASE RecoverPanic
  BY <1>17 DEF RecoverPanic, BackgroundCall, CallFails, AnyFail, Reasons
<1>18. CASE CheckCanceled
  BY <1>18 DEF CheckCanceled, CallFails
<1>19. CASE Conclude
  BY <1>19 DEF Conclude, BackgroundCall, CallFails, AnyFail, Reasons
<1>20. CASE Cleanup
  BY <1>20 DEF Cleanup
<1>21. CASE Watch
  BY <1>21 DEF Watch, dbVars, rowVars
<1>22. CASE Expire
  BY <1>22 DEF Expire, dbVars, rowVars
<1>23. QED
  BY <1>2, <1>3, <1>4, <1>5, <1>6, <1>7, <1>8, <1>9, <1>10, <1>11, <1>12, <1>13, <1>14, <1>15, <1>16, <1>17, <1>18, <1>19, <1>20, <1>21, <1>22 DEF Worker, WorkerStep
(* ... and of a handler, a user or the process *)
LEMMA ServiceRows ==
  ASSUME TypeOK,
         \/ \E id \in Ids : \/ PostGit(id) \/ PostZip(id) \/ HandlerStep(id)
                            \/ CancelScan(id) \/ DeleteScan(id)
         \/ Stop \/ Exit \/ Crash \/ Boot \/ CutOff
  PROVE  /\ \/ UNCHANGED rowVars \/ RecoverOrphans
            \/ \E id \in Ids : StoreStep(id)
         /\ FaultStep
<1>1. ASSUME NEW id \in Ids,
             \/ PostGit(id) \/ PostZip(id) \/ HandlerStep(id)
             \/ CancelScan(id) \/ DeleteScan(id)
      PROVE  StoreStep(id) /\ FaultStep
  <2> USE DEF StoreStep, FaultStep, dbVars, rowVars, CallFails
  <2>1. CASE PostGit(id) \/ PostZip(id)
    BY <2>1 DEF PostGit, PostZip
  <2>2. CASE CreateRow(id)
    BY <2>2 DEF CreateRow
  <2>3. CASE Register(id) \/ Submit(id) \/ Unregister(id)
    BY <2>3 DEF Register, Submit, Unregister
  <2>4. CASE Reject(id)
    BY <2>4 DEF Reject, AnyFail, Reasons
  <2>5. CASE RemoveDir(id)
    BY <2>5 DEF RemoveDir
  <2>6. CASE CancelScan(id) \/ DeleteScan(id)
    BY <2>6 DEF CancelScan, DeleteScan
  <2>7. QED BY <1>1, <2>1, <2>2, <2>3, <2>4, <2>5, <2>6 DEF HandlerStep
<1>2. CASE Stop \/ Exit \/ Crash
  BY <1>2 DEF Stop, Exit, Crash, Halt, dbVars, rowVars, FaultStep
<1>3. CASE Boot
  BY <1>3 DEF Boot, FaultStep
<1>4. CASE CutOff
  BY <1>4 DEF CutOff, Reconnect, FaultStep
<1>5. QED BY <1>1, <1>2, <1>3, <1>4

LEMMA ServiceTypes ==
  ASSUME TypeOK,
         \/ \E id \in Ids : \/ PostGit(id) \/ PostZip(id) \/ HandlerStep(id)
                            \/ CancelScan(id) \/ DeleteScan(id)
         \/ Stop \/ Exit \/ Crash \/ Boot \/ CutOff
  PROVE  /\ WorkerTypeOK' /\ enforced' \in BOOLEAN
         /\ req' \in [Ids -> Phases] /\ deleting' \in SUBSET Ids
         /\ crashes' \in 0 .. MaxCrashes
<1> USE ServiceAssumption DEF ServiceAssumption, TypeOK, DBTypeOK, serviceVars, Phase
<1>1. ASSUME NEW id \in Ids,
             \/ PostGit(id) \/ PostZip(id) \/ HandlerStep(id)
             \/ CancelScan(id) \/ DeleteScan(id)
      PROVE  /\ WorkerTypeOK' /\ enforced' \in BOOLEAN
             /\ req' \in [Ids -> Phases] /\ deleting' \in SUBSET Ids
             /\ crashes' \in 0 .. MaxCrashes
  <2>1. UNCHANGED workerVars /\ proc' = proc /\ crashes' = crashes /\ enforced' = enforced
    BY <1>1 DEF PostGit, PostZip, HandlerStep, CreateRow, Register, Submit, Unregister,
                Reject, RemoveDir, CancelScan, DeleteScan
  <2>2. queue' \in Seq(Ids)
    <3>1. queue' = queue \/ queue' = Append(queue, id)
      BY <1>1 DEF PostGit, PostZip, HandlerStep, CreateRow, Register, Submit, Unregister,
                  Reject, RemoveDir, CancelScan, DeleteScan
    <3>2. QED BY <3>1 DEF WorkerTypeOK
  <2>3. secrets' \in SUBSET Ids /\ dirs' \in SUBSET Ids /\ deleting' \in SUBSET Ids
    BY <1>1 DEF WorkerTypeOK, PostGit, PostZip, HandlerStep, CreateRow, Register, Submit,
                Unregister, Reject, RemoveDir, CancelScan, DeleteScan
  <2>4. req' \in [Ids -> Phases]
    BY <1>1 DEF Phases, InFlight, Answered, PostGit, PostZip, HandlerStep, CreateRow,
                Register, Submit, Unregister, Reject, RemoveDir, CancelScan, DeleteScan
  <2>5. QED
    BY <2>1, <2>2, <2>3, <2>4 DEF WorkerTypeOK, workerVars
<1>2. CASE Exit \/ Crash
  <2>1. Halt /\ crashes' \in 0 .. MaxCrashes
    BY <1>2 DEF Exit, Crash
  <2>2. req' \in [Ids -> Phases]
    BY <2>1 DEF Halt, Phases, InFlight, Answered
  <2>3. queue' \in Seq(Ids) /\ proc' = "down" /\ secrets' \in SUBSET Ids
        /\ dirs' \in SUBSET Ids /\ deleting' \in SUBSET Ids
    BY <2>1 DEF Halt, WorkerTypeOK
  <2>4. QED
    BY <2>1, <2>2, <2>3, BlankTypes DEF Halt, WorkerTypeOK, Places
<1>3. CASE Stop \/ Boot \/ CutOff
  <2>1. enforced' \in BOOLEAN
    BY <1>3 DEF Stop, Boot, CutOff, Enforce, Reconnect
  <2>2. CASE Stop
    BY <2>1, <2>2 DEF Stop, WorkerTypeOK, locals
  <2>3. CASE Boot \/ CutOff
    BY <2>1, <2>3 DEF Boot, CutOff, WorkerTypeOK, workerVars
  <2>4. QED BY <1>3, <2>2, <2>3
<1>4. QED BY <1>1, <1>2, <1>3

LEMMA NextTypes == TypeOK /\ [Next]_vars => TypeOK'
<1> SUFFICES ASSUME TypeOK, [Next]_vars PROVE TypeOK'
  OBVIOUS
<1>1. ASSUME FaultStep PROVE faults' \in 0 .. MaxFaults
  BY <1>1, StoreAssumption DEF StoreAssumption, FaultStep, Fault, TypeOK, DBTypeOK
<1>2. CASE (Worker \/ Watch \/ Expire) /\ UNCHANGED serviceVars
  <2>1. RowTypeOK'
    BY <1>2, WorkerRows, StoreTypes, IdleTypes DEF TypeOK, DBTypeOK
  <2>2. QED BY <1>1, <1>2, <2>1, WorkerRows, WorkerTypes DEF TypeOK, DBTypeOK, serviceVars
<1>3. CASE \/ \E id \in Ids : \/ PostGit(id) \/ PostZip(id) \/ HandlerStep(id)
                              \/ CancelScan(id) \/ DeleteScan(id)
           \/ Stop \/ Exit \/ Crash \/ Boot \/ CutOff
  <2>1. RowTypeOK'
    <3>1. RowTypeOK
      BY DEF TypeOK, DBTypeOK
    <3>2. \/ UNCHANGED rowVars \/ RecoverOrphans \/ \E id \in Ids : StoreStep(id)
      BY <1>3, ServiceRows
    <3>3. ASSUME NEW id \in Ids, StoreStep(id) PROVE RowTypeOK'
      BY <3>1, <3>3, StoreTypes
    <3>4. QED BY <3>1, <3>2, <3>3, RecoverTypes, IdleTypes
  <2>2. QED BY <1>1, <1>3, <2>1, ServiceRows, ServiceTypes DEF TypeOK, DBTypeOK
<1>4. CASE Quiet \/ UNCHANGED vars
  BY <1>4 DEF Quiet, vars, dbVars, rowVars, workerVars, serviceVars,
              TypeOK, DBTypeOK, RowTypeOK, WorkerTypeOK
<1>5. QED BY <1>2, <1>3, <1>4 DEF Next

(* Every variable keeps its type, whatever the handlers, the worker and the   *)
(* process do.                                                               *)
THEOREM Typing == Spec => []TypeOK
<1>1. Spec => Machine
  BY DEF Spec, PatientSpec
<1>2. QED BY <1>1, InitTypes, NextTypes, PTL DEF Machine
-------------------------------------------------------------------------------
(* The inductive invariant behind the refinement and the safety theorems     *)

Engaged == Running \cup {"check", "conclude", "recover"}

(* Who may have a job in hand: the queue and the worker only ever hold jobs   *)
(* whose handler is through, each of them once; a process that is down holds  *)
(* none.                                                                     *)
Owners ==
  /\ AtMostOnce
  /\ wjob \in Ids => req[wjob] = "accepted"
  /\ proc = "down" => /\ queue = <<>> /\ wjob = NoJob
                      /\ \A id \in Ids : req[id] \notin InFlight

(* The row of a job at each stage of its handler ... *)
HandlerRows(id) ==
  /\ req[id] \in {"new", "staged", "aborted"} => status[id] = "absent"
  /\ req[id] \in {"created", "registered", "full", "unregistered"} => status[id] = "queued"
  /\ req[id] \in {"rejected", "lost"} => status[id] # "absent"
  /\ status[id] \in {"absent", "queued"} => ~summary[id].written

(* ... while it waits, and before the worker has made it running ... *)
WaitingRows(id) ==
  Waiting(id) \/ (wjob = id /\ wpc \in {"take", "load", "start"}) =>
    status[id] \in {"queued", "canceled", "absent"} /\ ~summary[id].written

(* ... and while Run has it: the summary is written last, and exactly once *)
RunningRows(id) ==
  wjob = id /\ wpc \in Engaged =>
    /\ status[id] \in {"fetching", "scanning", "canceled", "absent"}
    /\ wpc \in Running \ {"wrapup"} => ~summary[id].written
    /\ (wpc = "wrapup" \/ (wpc \in {"check", "conclude"} /\ result = "ok"))
         /\ status[id] # "absent" => summary[id].written

Rows == \A id \in Ids : HandlerRows(id) /\ WaitingRows(id) /\ RunningRows(id)

IInv == TypeOK /\ Owners /\ Rows
-------------------------------------------------------------------------------
(* Owners                                                                    *)

LEMMA InitOwners == Init => Owners
BY WorkerAssumption
   DEF WorkerAssumption, Init, WorkerInit, Owners, AtMostOnce

(* The queue's entries are jobs, and each is different from the rest *)
LEMMA QueueFacts ==
  ASSUME TypeOK, Owners
  PROVE  /\ queue \in Seq(Ids) /\ Len(queue) \in Nat
         /\ \A i \in 1 .. Len(queue) : queue[i] \in Ids
         /\ NoJob \notin Ids
BY WorkerAssumption DEF WorkerAssumption, TypeOK, WorkerTypeOK

LEMMA OwnersWorker ==
  ASSUME TypeOK, Owners, Worker \/ Watch \/ Expire, UNCHANGED serviceVars
  PROVE  Owners'
<1> USE QueueFacts DEF Owners, AtMostOnce, serviceVars
<1>1. CASE Dequeue
  <2>1. queue # <<>> /\ wjob' = queue[1] /\ queue' = Tail(queue) /\ proc' # "down"
    BY <1>1 DEF Dequeue
  <2>2. /\ Len(queue') = Len(queue) - 1 /\ 1 \in 1 .. Len(queue)
        /\ \A i \in 1 .. Len(queue') : queue'[i] = queue[i + 1] /\ i + 1 \in 1 .. Len(queue)
    BY <2>1
  <2>3. QED BY <2>1, <2>2
<1>2. CASE Cleanup
  BY <1>2 DEF Cleanup, Blank
<1>3. CASE /\ ~Dequeue /\ ~Cleanup
  <2>1. UNCHANGED <<proc, queue, wjob>>
    BY <1>3 DEF Worker, WorkerStep, StopWorker, TakeSecret, LoadJob, StartJob, RunFetching,
       Fetch, SetBranch, RunScanning, EngineBegin, EngineEnd, Persist, PutSummary, Wrapup,
       Panic, RecoverPanic, CheckCanceled, Conclude, Watch, Expire
  <2>2. QED BY <2>1
<1>4. QED BY <1>1, <1>2, <1>3

LEMMA OwnersService ==
  ASSUME TypeOK, Owners,
         \/ \E id \in Ids : \/ PostGit(id) \/ PostZip(id) \/ HandlerStep(id)
                            \/ CancelScan(id) \/ DeleteScan(id)
         \/ Stop \/ Exit \/ Crash \/ Boot \/ CutOff
  PROVE  Owners'
<1> USE QueueFacts DEF Owners, AtMostOnce
<1>1. ASSUME NEW id \in Ids, Submit(id) PROVE Owners'
  <2>1. /\ req[id] = "registered" /\ req' \in {[req EXCEPT ![id] = "accepted"], [req EXCEPT ![id] = "full"]}
        /\ wjob' = wjob /\ proc' # "down"
    BY <1>1 DEF Submit, Phase, workerVars
  <2>2. CASE queue' = queue
    BY <2>1, <2>2 DEF TypeOK
  <2>3. CASE queue' = Append(queue, id) /\ req' = [req EXCEPT ![id] = "accepted"]
    <3>1. /\ Len(queue') = Len(queue) + 1 /\ queue'[Len(queue')] = id
          /\ \A i \in 1 .. Len(queue) : queue'[i] = queue[i] /\ queue[i] # id
      BY <2>1, <2>3
    <3>2. \A i \in 1 .. Len(queue') : i \in 1 .. Len(queue) \/ i = Len(queue')
      BY <3>1
    <3>3. wjob # id
      BY <2>1
    <3>4. \A i \in 1 .. Len(queue') : queue'[i] # wjob /\ req'[queue'[i]] = "accepted"
      BY <2>1, <2>3, <3>1, <3>2, <3>3 DEF TypeOK
    <3>5. QED BY <2>1, <2>3, <3>1, <3>2, <3>4 DEF TypeOK
  <2>4. QED BY <1>1, <2>2, <2>3 DEF Submit, Phase
<1>2. ASSUME NEW id \in Ids,
             \/ PostGit(id) \/ PostZip(id) \/ (HandlerStep(id) /\ ~Submit(id))
             \/ CancelScan(id) \/ DeleteScan(id)
      PROVE  Owners'
  <2>1. UNCHANGED <<proc, queue, wjob>> /\ proc' # "down"
    BY <1>2 DEF PostGit, PostZip, HandlerStep, CreateRow, Register, Unregister, Reject,
       RemoveDir, CancelScan, DeleteScan, Known, workerVars
  <2>2. \/ req' = req
        \/ req[id] # "accepted" /\ \E to \in {"staged", "aborted", "created", "registered",
                                             "unregistered", "rejected"} :
                                     req' = [req EXCEPT ![id] = to]
    BY <1>2 DEF PostGit, PostZip, HandlerStep, CreateRow, Register, Unregister, Reject,
       RemoveDir, CancelScan, DeleteScan, Phase, serviceVars
  <2>3. QED BY <2>1, <2>2 DEF TypeOK
<1>3. CASE Exit \/ Crash
  BY <1>3 DEF Exit, Crash, Halt, Blank, TypeOK, InFlight
<1>4. CASE Stop \/ Boot \/ CutOff
  BY <1>4 DEF Stop, Boot, CutOff, workerVars
<1>5. QED BY <1>1, <1>2, <1>3, <1>4

LEMMA NextOwners == TypeOK /\ Owners /\ [Next]_vars => Owners'
<1>1. ASSUME Owners, Quiet \/ UNCHANGED vars PROVE Owners'
  BY <1>1 DEF Quiet, vars, workerVars, serviceVars, Owners, AtMostOnce
<1>2. QED BY <1>1, OwnersWorker, OwnersService DEF Next

(* Manager runs each job at most once, and only after its handler is through. *)
THEOREM AtMostOnceHolds == Spec => []AtMostOnce
<1>1. Init => TypeOK /\ Owners
  BY InitTypes, InitOwners
<1>2. TypeOK /\ Owners /\ [Next]_vars => (TypeOK /\ Owners)'
  BY NextTypes, NextOwners
<1>3. Owners => AtMostOnce
  BY DEF Owners
<1>4. Spec => Machine
  BY DEF Spec, PatientSpec
<1>5. QED BY <1>1, <1>2, <1>3, <1>4, PTL DEF Machine
-------------------------------------------------------------------------------
(* Rows                                                                      *)

LEMMA InitRows == Init => Rows
<1> SUFFICES ASSUME Init, NEW id \in Ids
             PROVE  HandlerRows(id) /\ WaitingRows(id) /\ RunningRows(id)
  BY DEF Rows
<1>1. status[id] = "absent" /\ req[id] = "new" /\ ~summary[id].written
  BY DEF Init, DBInit, NoSummary
<1>2. wpc = "idle" /\ wjob = NoJob
  BY DEF Init, WorkerInit
<1>3. QED
  BY <1>1, <1>2 DEF HandlerRows, WaitingRows, RunningRows, Engaged, Running

(* A store operation on one job leaves the rows of the others alone *)
LEMMA StoreFrame ==
  ASSUME RowTypeOK, NEW id \in Ids, StoreStep(id), NEW other \in Ids, other # id
  PROVE  status'[other] = status[other] /\ summary'[other] = summary[other]
BY DEF StoreStep, AnyFail, AnyInsert, AnySummary, CreateJob, Cancel, DeleteJob, SetStatus,
       Fail, SetError, InsertFindings, SetSummary, rowVars, RowTypeOK

(* What is left of Rows for the worker's own job: it is accepted, and it is   *)
(* not in the queue any more.                                                *)
OwnRow ==
  /\ status[wjob] \in {"absent", "queued"} => ~summary[wjob].written
  /\ wpc \in {"take", "load", "start"} =>
       status[wjob] \in {"queued", "canceled", "absent"} /\ ~summary[wjob].written
  /\ RunningRows(wjob)

LEMMA ReportWritten == Report.written
BY DEF Report

LEMMA OwnRowStep ==
  ASSUME TypeOK, wjob \in Ids, OwnRow,
         Worker \/ Watch \/ Expire, ~Dequeue, ~StopWorker, ~Cleanup
  PROVE  OwnRow' /\ wjob' = wjob
<1> USE DEF OwnRow, RunningRows, Engaged, Running, TypeOK, DBTypeOK, RowTypeOK, rowVars,
            NotTerminal, Active, RowExists, IsCanceled, Referenced, locals
<1>1. CASE TakeSecret
  BY <1>1 DEF TakeSecret, dbVars
<1>2. CASE LoadJob
  BY <1>2 DEF LoadJob
<1>3. CASE StartJob
  BY <1>3 DEF StartJob, SetStatus
<1>4. CASE RunFetching
  BY <1>4 DEF RunFetching, CtxCall, Return, CtxErr, SetStatus
<1>5. CASE Fetch
  BY <1>5 DEF Fetch, FetchGit, FetchZip, FetchFails, Return, CtxErr, dbVars
<1>6. CASE SetBranch
  BY <1>6 DEF SetBranch, CtxCall, Return, CtxErr
<1>7. CASE RunScanning
  BY <1>7 DEF RunScanning, CtxCall, Return, CtxErr, SetStatus
<1>8. CASE EngineBegin
  BY <1>8 DEF EngineBegin, Return, CtxErr, SetStatus
<1>9. CASE EngineEnd
  BY <1>9 DEF EngineEnd, Return, CtxErr, dbVars
<1>10. CASE Persist
  BY <1>10 DEF Persist, CtxCall, Return, CtxErr, InsertFindings, dbVars
<1>11. CASE PutSummary
  BY <1>11, ReportWritten DEF PutSummary, CtxCall, Return, CtxErr, SetSummary
<1>12. CASE Wrapup
  BY <1>12 DEF Wrapup, CtxCall, Return, CtxErr, SetError, dbVars
<1>13. CASE Panic
  BY <1>13 DEF Panic
<1>14. CASE RecoverPanic
  BY <1>14 DEF RecoverPanic, BackgroundCall, Fail
<1>15. CASE CheckCanceled
  BY <1>15 DEF CheckCanceled
<1>16. CASE Conclude
  BY <1>16 DEF Conclude, BackgroundCall, Fail, SetStatus
<1>17. CASE Watch
  BY <1>17 DEF Watch, dbVars
<1>18. CASE Expire
  BY <1>18 DEF Expire, dbVars
<1>19. QED
  BY <1>1, <1>2, <1>3, <1>4, <1>5, <1>6, <1>7, <1>8, <1>9, <1>10, <1>11, <1>12, <1>13, <1>14, <1>15, <1>16, <1>17, <1>18 DEF Worker, WorkerStep

LEMMA RowsWorker ==
  ASSUME IInv, Worker \/ Watch \/ Expire, UNCHANGED serviceVars
  PROVE  Rows'
<1> USE DEF IInv, serviceVars
<1>1. wjob \in Ids => req[wjob] = "accepted" /\ ~Waiting(wjob)
  BY DEF Owners, AtMostOnce, Waiting
<1>2. \A id \in Ids : HandlerRows(id) /\ WaitingRows(id) /\ RunningRows(id)
  BY DEF Rows
<1>3. TypeOK /\ RowTypeOK /\ NoJob \notin Ids
  BY WorkerAssumption DEF WorkerAssumption, TypeOK, DBTypeOK
<1>4. CASE Dequeue
  <2>1. queue # <<>> /\ wjob' = queue[1] /\ queue' = Tail(queue) /\ wpc' = "take"
        /\ wpc = "idle" /\ status' = status /\ summary' = summary
    BY <1>4 DEF Dequeue, dbVars
  <2>2. /\ queue \in Seq(Ids) /\ Len(queue') = Len(queue) - 1 /\ 1 \in 1 .. Len(queue)
        /\ \A i \in 1 .. Len(queue') : queue'[i] = queue[i + 1] /\ i + 1 \in 1 .. Len(queue)
    BY <2>1, <1>3 DEF TypeOK, WorkerTypeOK
  <2>3. \A id \in Ids : Waiting(id)' \/ wjob' = id => Waiting(id)
    BY <2>1, <2>2 DEF Waiting
  <2>4. QED
    BY <1>2, <2>1, <2>3 DEF Rows, HandlerRows, WaitingRows, RunningRows, Engaged, Running
<1>5. CASE StopWorker \/ Cleanup
  <2>1. /\ UNCHANGED <<status, summary, queue>> /\ wpc' \in {"idle", "stopped"}
    BY <1>5 DEF StopWorker, Cleanup, Blank, dbVars, rowVars
  <2>2. \A id \in Ids : Waiting(id)' => Waiting(id)
    BY <2>1 DEF Waiting
  <2>3. QED
    BY <1>2, <2>1, <2>2 DEF Rows, HandlerRows, WaitingRows, RunningRows, Engaged, Running
<1>6. CASE ~Dequeue /\ ~StopWorker /\ ~Cleanup
  <2>1. wpc \notin {"idle", "stopped"} /\ queue' = queue
    BY <1>6 DEF Worker, WorkerStep, TakeSecret, LoadJob, StartJob, RunFetching, Fetch,
       SetBranch, RunScanning, EngineBegin, EngineEnd, Persist, PutSummary, Wrapup, Panic,
       RecoverPanic, CheckCanceled, Conclude, Watch, Expire, Running
  <2>2. wjob \in Ids
    BY <2>1 DEF TypeOK, WorkerTypeOK
  <2>3. OwnRow
    BY <1>2, <2>2 DEF OwnRow, HandlerRows, WaitingRows
  <2>4. OwnRow' /\ wjob' = wjob
    BY <1>3, <1>6, <2>2, <2>3, OwnRowStep
  <2>5. \A id \in Ids : Waiting(id)' <=> Waiting(id)
    BY <2>1 DEF Waiting
  <2>6. HandlerRows(wjob)' /\ WaitingRows(wjob)' /\ RunningRows(wjob)'
    BY <1>1, <2>2, <2>4, <2>5 DEF OwnRow, HandlerRows, WaitingRows, RunningRows
  <2>7. ASSUME NEW id \in Ids, id # wjob
        PROVE  HandlerRows(id)' /\ WaitingRows(id)' /\ RunningRows(id)'
    <3>1. status'[id] = status[id] /\ summary'[id] = summary[id]
      BY <1>3, <2>2, <2>7, WorkerRows, StoreFrame DEF rowVars
    <3>2. QED
      BY <1>2, <2>4, <2>5, <2>7, <3>1 DEF HandlerRows, WaitingRows, RunningRows
  <2>8. QED BY <2>4, <2>6, <2>7 DEF Rows
<1>7. QED BY <1>4, <1>5, <1>6

LEMMA RowsService ==
  ASSUME IInv,
         \/ \E id \in Ids : \/ PostGit(id) \/ PostZip(id) \/ HandlerStep(id)
                            \/ CancelScan(id) \/ DeleteScan(id)
         \/ Stop \/ Exit \/ Crash \/ Boot \/ CutOff
  PROVE  Rows'
<1> USE DEF IInv
<1>1. /\ wjob \in Ids => req[wjob] = "accepted"
      /\ \A id \in Ids : Waiting(id) => req[id] = "accepted"
  BY DEF Owners, AtMostOnce, Waiting
<1>2. \A id \in Ids : HandlerRows(id) /\ WaitingRows(id) /\ RunningRows(id)
  BY DEF Rows
<1>3. RowTypeOK /\ NoJob \notin Ids /\ req \in [Ids -> Phases]
  BY WorkerAssumption DEF WorkerAssumption, TypeOK, DBTypeOK
<1>4. ASSUME NEW id \in Ids,
             \/ PostGit(id) \/ PostZip(id) \/ HandlerStep(id)
             \/ CancelScan(id) \/ DeleteScan(id)
      PROVE  Rows'
  <2>1. UNCHANGED <<wjob, wpc, result>>
    BY <1>4 DEF PostGit, PostZip, HandlerStep, CreateRow, Register, Submit, Unregister,
       Reject, RemoveDir, CancelScan, DeleteScan, workerVars
  <2>2. \A other \in Ids : other # id =>
           req'[other] = req[other] /\ status'[other] = status[other]
                                   /\ summary'[other] = summary[other]
    BY <1>3, <1>4 DEF PostGit, PostZip, HandlerStep, CreateRow, Register, Submit, Unregister,
       Reject, RemoveDir, CancelScan, DeleteScan, Phase, dbVars, rowVars, serviceVars,
       CreateJob, Fail, Cancel, DeleteJob, RowTypeOK
  <2>3. \A other \in Ids : other # id => (Waiting(other)' <=> Waiting(other))
    <3>1. queue' = queue \/ queue' = Append(queue, id)
      BY <1>4 DEF PostGit, PostZip, HandlerStep, CreateRow, Register, Submit, Unregister,
         Reject, RemoveDir, CancelScan, DeleteScan
    <3>2. CASE queue' = queue
      BY <3>2 DEF Waiting
    <3>3. CASE queue' = Append(queue, id)
      <4>1. /\ queue \in Seq(Ids) /\ Len(queue') = Len(queue) + 1
            /\ queue'[Len(queue')] = id /\ Len(queue) \in Nat
            /\ \A i \in 1 .. Len(queue) : queue'[i] = queue[i] /\ i \in 1 .. Len(queue')
            /\ \A i \in 1 .. Len(queue') : i \in 1 .. Len(queue) \/ i = Len(queue')
        BY <3>3 DEF TypeOK, WorkerTypeOK
      <4>2. QED BY <4>1 DEF Waiting
    <3>4. QED BY <3>1, <3>2, <3>3
  <2>4. HandlerRows(id)' /\ WaitingRows(id)' /\ RunningRows(id)'
    <3> USE <1>1, <1>3, <2>1 DEF HandlerRows, WaitingRows, RunningRows, RowTypeOK
    <3>1. HandlerRows(id) /\ WaitingRows(id) /\ RunningRows(id)
      BY <1>2
    <3>2. CASE PostGit(id) \/ PostZip(id) \/ Register(id) \/ Unregister(id) \/ Reject(id)
      <4>1. queue' = queue /\ summary' = summary /\ req[id] # "accepted"
            /\ req'[id] # "accepted"
        BY <3>2 DEF PostGit, PostZip, Register, Unregister, Reject, Phase, dbVars, rowVars, Fail
      <4>2. CASE Reject(id)
        <5>1. req[id] = "unregistered" /\ req'[id] = "rejected"
              /\ status'[id] \in {status[id], "failed"}
          BY <4>2 DEF Reject, Phase, rowVars, Fail
        <5>2. QED BY <3>1, <4>1, <5>1 DEF Waiting
      <4>3. CASE ~Reject(id)
        <5>1. status' = status
          BY <3>2, <4>3 DEF PostGit, PostZip, Register, Unregister, dbVars, rowVars
        <5>2. \/ req[id] = "new" /\ req'[id] \in {"staged", "aborted"}
              \/ req[id] = "created" /\ req'[id] = "registered"
              \/ req[id] = "full" /\ req'[id] = "unregistered"
          BY <3>2, <4>3 DEF PostGit, PostZip, Register, Unregister, Phase
        <5>3. QED BY <3>1, <4>1, <5>1, <5>2 DEF Waiting
      <4>4. QED BY <4>2, <4>3
    <3>3. CASE CreateRow(id)
      <4>1. queue' = queue /\ summary' = summary /\ req[id] = "staged"
            /\ status'[id] \in {"queued", "absent"}
        BY <3>1, <3>3 DEF CreateRow, Phase, CreateJob, rowVars
      <4>2. HandlerRows(id)'
        BY <3>1, <3>3 DEF CreateRow, Phase, CreateJob, rowVars
      <4>3. QED BY <4>1, <4>2 DEF Waiting
    <3>4. CASE Submit(id)
      <4>1. status' = status /\ summary' = summary /\ req[id] = "registered"
            /\ req'[id] \in {"accepted", "full"}
        BY <3>4 DEF Submit, Phase, dbVars, rowVars
      <4>2. QED BY <3>1, <4>1
    <3>5. CASE RemoveDir(id)
      BY <3>1, <3>5 DEF RemoveDir, rowVars, Waiting
    <3>6. CASE CancelScan(id)
      BY <3>1, <3>6 DEF CancelScan, Known, Cancel, serviceVars, NotTerminal, Active, Waiting
    <3>7. CASE DeleteScan(id)
      <4>1. summary'[id] = NoSummary /\ ~NoSummary.written /\ status'[id] = "absent"
            /\ req' = req /\ req[id] = "accepted" /\ queue' = queue
        BY <3>7 DEF DeleteScan, DeleteJob, Known, NoSummary
      <4>2. QED BY <3>1, <4>1 DEF Waiting
    <3>8. QED BY <1>4, <3>2, <3>3, <3>4, <3>5, <3>6, <3>7 DEF HandlerStep
  <2>5. ASSUME NEW other \in Ids, other # id
        PROVE  HandlerRows(other)' /\ WaitingRows(other)' /\ RunningRows(other)'
    BY <1>2, <2>1, <2>2, <2>3, <2>5 DEF HandlerRows, WaitingRows, RunningRows
  <2>6. QED BY <2>4, <2>5 DEF Rows
<1>5. CASE Stop \/ CutOff
  BY <1>2, <1>5 DEF Stop, CutOff, dbVars, rowVars, workerVars, locals, Rows, HandlerRows,
     WaitingRows, RunningRows, Waiting
<1>6. CASE Exit \/ Crash
  <2>1. Halt
    BY <1>6 DEF Exit, Crash
  <2>2. queue' = <<>> /\ wjob' = NoJob /\ status' = status /\ summary' = summary
    BY <2>1 DEF Halt, Blank, dbVars
  <2>3. \A id \in Ids : ~Waiting(id)' /\ wjob' # id
    BY <1>3, <2>2 DEF Waiting
  <2>4. \A id \in Ids : HandlerRows(id)'
    BY <1>2, <1>3, <2>1, <2>2 DEF Halt, HandlerRows, InFlight
  <2>5. QED BY <2>3, <2>4 DEF Rows, WaitingRows, RunningRows
<1>7. CASE Boot
  <2>1. /\ queue' = <<>> /\ wjob' = NoJob /\ req' = req /\ summary' = summary
        /\ \A id \in Ids : req[id] \notin InFlight
    BY <1>7 DEF Boot, Owners, workerVars, rowVars, RecoverOrphans
  <2>2. \A id \in Ids : ~Waiting(id)' /\ wjob' # id
    BY <1>3, <2>1 DEF Waiting
  <2>3. \A id \in Ids : status'[id] = status[id]
                      \/ (status[id] \in Active /\ status'[id] = "failed")
    BY <1>3, <1>7 DEF Boot, RecoverOrphans, rowVars, NotTerminal, RowTypeOK
  <2>4. \A id \in Ids : HandlerRows(id)'
    BY <1>2, <2>1, <2>3 DEF HandlerRows, Active, InFlight
  <2>5. QED BY <2>2, <2>4 DEF Rows, WaitingRows, RunningRows
<1>8. QED BY <1>4, <1>5, <1>6, <1>7

LEMMA NextIInv == IInv /\ [Next]_vars => IInv'
<1>1. ASSUME IInv, Quiet \/ UNCHANGED vars PROVE Rows'
  BY <1>1 DEF Quiet, vars, dbVars, workerVars, serviceVars, IInv, Rows, HandlerRows,
     WaitingRows, RunningRows, Waiting
<1>2. IInv /\ [Next]_vars => Rows'
  BY <1>1, RowsWorker, RowsService DEF Next
<1>3. QED BY <1>2, NextTypes, NextOwners DEF IInv

LEMMA Invariance == Machine => []IInv
<1>1. Init => IInv
  BY InitTypes, InitOwners, InitRows DEF IInv
<1>2. QED BY <1>1, NextIInv, PTL DEF Machine
-------------------------------------------------------------------------------
(* Refinement                                                                *)

LEMMA InitRefines == Init => Lifecycle!Init
<1> SUFFICES ASSUME Init PROVE Lifecycle!Init
  OBVIOUS
<1>1. ASSUME NEW id \in Ids PROVE LifeState(id) = "none"
  BY DEF Init, DBInit, LifeState, RowExists
<1>2. ASSUME NEW id \in Ids PROVE summary[id].written = FALSE
  BY DEF Init, DBInit, NoSummary
<1>3. [id \in Ids |-> LifeState(id)] = [id \in Ids |-> "none"]
  BY <1>1, Zenon
<1>4. [id \in Ids |-> summary[id].written] = [id \in Ids |-> FALSE]
  BY <1>2, Zenon
<1>5. QED BY <1>3, <1>4, Zenon DEF Lifecycle!Init

(* What one step of the worker may do to the life of its job *)
Moves(id) ==
  \/ status'[id] = status[id] /\ summary'[id].written = summary[id].written
  \/ /\ status[id] \in Active /\ status'[id] \in {"fetching", "scanning"}
     /\ summary'[id].written = summary[id].written
  \/ /\ status[id] \in {"fetching", "scanning", "canceled"} /\ status'[id] = status[id]
     /\ ~summary[id].written /\ summary'[id].written
  \/ /\ status[id] \in {"fetching", "scanning"} /\ status'[id] = "done"
     /\ summary[id].written /\ summary'[id].written
  \/ /\ status[id] \in {"fetching", "scanning", "canceled"} /\ status'[id] = "failed"
     /\ summary'[id].written = summary[id].written

LEMMA WorkerMoves ==
  ASSUME IInv, wjob \in Ids, Worker \/ Watch \/ Expire
  PROVE  Moves(wjob)
<1>1. RowTypeOK
  BY DEF IInv, TypeOK, DBTypeOK
<1>2. RunningRows(wjob)
  BY DEF IInv, Rows
<1> USE <1>1, <1>2 DEF Moves, RunningRows, Engaged, Running, RowTypeOK, RowExists, NotTerminal,
    Active, Referenced, dbVars, rowVars
<1>3. CASE StartJob
  BY <1>3 DEF StartJob, SetStatus
<1>4. CASE RunFetching
  BY <1>4 DEF RunFetching, CtxCall, SetStatus
<1>5. CASE SetBranch
  BY <1>5 DEF SetBranch, CtxCall
<1>6. CASE RunScanning
  BY <1>6 DEF RunScanning, CtxCall, SetStatus
<1>7. CASE EngineBegin
  BY <1>7 DEF EngineBegin, SetStatus
<1>8. CASE Persist
  BY <1>8 DEF Persist, CtxCall, InsertFindings
<1>9. CASE PutSummary
  BY <1>9, ReportWritten DEF PutSummary, CtxCall, SetSummary
<1>10. CASE Wrapup
  BY <1>10 DEF Wrapup, CtxCall, SetError
<1>11. CASE RecoverPanic
  BY <1>11 DEF RecoverPanic, BackgroundCall, Fail
<1>12. CASE Conclude
  BY <1>12 DEF Conclude, BackgroundCall, Fail, SetStatus
<1>13. CASE \/ Dequeue \/ StopWorker \/ TakeSecret \/ LoadJob \/ Fetch \/ EngineEnd
           \/ Panic \/ CheckCanceled \/ Cleanup \/ Watch \/ Expire
  BY <1>13 DEF Dequeue, StopWorker, TakeSecret, LoadJob, Fetch, EngineEnd, Panic,
     CheckCanceled, Cleanup, Watch, Expire
<1>14. QED
  BY <1>3, <1>4, <1>5, <1>6, <1>7, <1>8, <1>9, <1>10, <1>11, <1>12, <1>13 DEF Worker, WorkerStep

(* The same for any step: the abstract step it stands for *)
LifeStays(id) == LifeState(id)' = LifeState(id) /\ summary'[id].written = summary[id].written

LifeMoves(id, from, to) ==
  LifeState(id) \in from /\ LifeState(id)' = to /\ summary'[id].written = summary[id].written

LifeStep(id) ==
  \/ LifeStays(id)
  \/ LifeMoves(id, {"none"}, "queued")
  \/ LifeMoves(id, {"queued"}, "running")
  \/ /\ LifeState(id) \in {"running", "canceled"} /\ LifeState(id)' = LifeState(id)
     /\ ~summary[id].written /\ summary'[id].written
  \/ LifeMoves(id, {"running"}, "done") /\ summary[id].written
  \/ LifeMoves(id, {"queued", "running", "canceled"}, "failed")
  \/ LifeMoves(id, {"queued", "running"}, "canceled")
  \/ /\ LifeState(id) \in {"done", "failed", "canceled"} /\ LifeState(id)' = "deleted"
     /\ ~summary'[id].written

(* A step that touches one job is an abstract step as soon as its job's is *)
LEMMA Lift ==
  ASSUME RowTypeOK, RowTypeOK', NEW job \in Ids, LifeStep(job),
         \A id \in Ids : id # job => LifeStays(id)
  PROVE  [Lifecycle!Next]_(Lifecycle!vars)
<1> DEFINE S == [id \in Ids |-> LifeState(id)]
           W == [id \in Ids |-> summary[id].written]
<1>1. /\ S[job] = LifeState(job) /\ S' = [S EXCEPT ![job] = LifeState(job)']
      /\ W[job] = summary[job].written /\ W' = [W EXCEPT ![job] = summary'[job].written]
  BY DEF LifeStays
<1>2. summary[job].written \in BOOLEAN /\ summary'[job].written \in BOOLEAN
  BY DEF RowTypeOK, SummaryType
<1>3. /\ LifeState(job)' = LifeState(job) => S' = S
      /\ summary'[job].written = summary[job].written => W' = W
  BY DEF LifeStays
<1>4. CASE LifeStays(job)
  BY <1>3, <1>4 DEF LifeStays, Lifecycle!vars
<1>5. ASSUME NEW from, NEW to, LifeMoves(job, from, to)
      PROVE  Lifecycle!Move(job, from, to)
  BY <1>1, <1>3, <1>5 DEF LifeMoves, Lifecycle!Move
<1>6. CASE LifeMoves(job, {"none"}, "queued")
  BY <1>5, <1>6 DEF Lifecycle!Create, Lifecycle!Next
<1>7. CASE LifeMoves(job, {"queued"}, "running")
  BY <1>5, <1>7 DEF Lifecycle!Begin, Lifecycle!Next
<1>8. CASE LifeMoves(job, {"running"}, "done") /\ summary[job].written
  BY <1>1, <1>5, <1>8 DEF Lifecycle!Finish, Lifecycle!Next
<1>9. CASE LifeMoves(job, {"queued", "running", "canceled"}, "failed")
  BY <1>5, <1>9 DEF Lifecycle!Abort, Lifecycle!Next
<1>10. CASE LifeMoves(job, {"queued", "running"}, "canceled")
  BY <1>5, <1>10 DEF Lifecycle!Cancel, Lifecycle!Next
<1>11. CASE /\ LifeState(job) \in {"running", "canceled"} /\ LifeState(job)' = LifeState(job)
            /\ ~summary[job].written /\ summary'[job].written
  BY <1>1, <1>2, <1>3, <1>11 DEF Lifecycle!Publish, Lifecycle!Next
<1>12. CASE /\ LifeState(job) \in {"done", "failed", "canceled"} /\ LifeState(job)' = "deleted"
            /\ ~summary'[job].written
  BY <1>1, <1>2, <1>12 DEF Lifecycle!Delete, Lifecycle!Ended, Lifecycle!Next
<1>13. QED
  BY <1>4, <1>6, <1>7, <1>8, <1>9, <1>10, <1>11, <1>12 DEF LifeStep

LEMMA Stutter ==
  ASSUME \A id \in Ids : LifeStays(id)
  PROVE  UNCHANGED Lifecycle!vars
BY DEF LifeStays, Lifecycle!vars

LEMMA WorkerRefines ==
  ASSUME IInv, RowTypeOK', Worker \/ Watch \/ Expire, UNCHANGED serviceVars
  PROVE  [Lifecycle!Next]_(Lifecycle!vars)
<1>1. TypeOK /\ RowTypeOK /\ req' = req
  BY DEF IInv, TypeOK, DBTypeOK, serviceVars
<1>2. CASE UNCHANGED rowVars
  <2>1. \A id \in Ids : LifeStays(id)
    BY <1>1, <1>2 DEF LifeStays, LifeState, RowExists, rowVars
  <2>2. QED BY <2>1, Stutter
<1>3. ASSUME NEW job \in Ids, job = wjob, StoreStep(wjob)
      PROVE  [Lifecycle!Next]_(Lifecycle!vars)
  <2>1. \A id \in Ids : id # job => LifeStays(id)
    BY <1>1, <1>3, StoreFrame DEF LifeStays, LifeState, RowExists
  <2>2. LifeStep(job)
    <3>1. Moves(job) /\ req[job] = "accepted"
      BY <1>3, WorkerMoves DEF IInv, Owners
    <3>2. CASE status'[job] = status[job]
      <4>1. LifeState(job)' = LifeState(job)
        BY <1>1, <3>2 DEF LifeState, RowExists
      <4>2. status[job] \in {"fetching", "scanning"} => LifeState(job) = "running"
        BY DEF LifeState
      <4>3. status[job] = "canceled" => LifeState(job) = "canceled"
        BY DEF LifeState, RowExists
      <4>4. QED BY <3>1, <3>2, <4>1, <4>2, <4>3 DEF Moves, LifeStep, LifeStays
    <3>3. CASE status'[job] # status[job] /\ status'[job] \in {"fetching", "scanning"}
      <4>1. /\ status[job] \in Active /\ LifeState(job)' = "running"
            /\ summary'[job].written = summary[job].written
        BY <3>1, <3>3 DEF Moves, LifeState
      <4>2. LifeState(job) \in {"queued", "running"}
        BY <4>1 DEF Active, LifeState, RowExists
      <4>3. QED BY <4>1, <4>2 DEF LifeStep, LifeStays, LifeMoves
    <3>4. CASE status'[job] # status[job] /\ status'[job] = "done"
      <4>1. /\ LifeState(job) = "running" /\ LifeState(job)' = "done" /\ summary[job].written
            /\ summary'[job].written = summary[job].written
        <5>1. status[job] \in {"fetching", "scanning"} /\ summary[job].written
              /\ summary'[job].written = summary[job].written
          BY <1>1, <3>1, <3>4 DEF Moves, RowTypeOK, SummaryType
        <5>2. QED BY <3>4, <5>1 DEF LifeState, RowExists
      <4>2. QED BY <4>1 DEF LifeStep, LifeMoves
    <3>5. CASE status'[job] # status[job] /\ status'[job] = "failed"
      <4>1. /\ LifeState(job) \in {"running", "canceled"} /\ LifeState(job)' = "failed"
            /\ summary'[job].written = summary[job].written
        BY <3>1, <3>5 DEF Moves, LifeState, RowExists
      <4>2. QED BY <4>1 DEF LifeStep, LifeMoves
    <3>6. QED BY <3>1, <3>2, <3>3, <3>4, <3>5 DEF Moves
  <2>3. QED BY <1>1, <2>1, <2>2, Lift
<1>4. QED BY <1>1, <1>2, <1>3, WorkerRows

LEMMA HandlerRefines ==
  ASSUME IInv, RowTypeOK', NEW id \in Ids,
         \/ PostGit(id) \/ PostZip(id) \/ HandlerStep(id)
         \/ CancelScan(id) \/ DeleteScan(id)
  PROVE  [Lifecycle!Next]_(Lifecycle!vars)
<1>1. RowTypeOK /\ req \in [Ids -> Phases] /\ HandlerRows(id)
  BY DEF IInv, TypeOK, DBTypeOK, Rows
<1>2. \A other \in Ids : other # id => LifeStays(other)
  <2>1. ASSUME NEW other \in Ids, other # id
        PROVE  /\ req'[other] = req[other] /\ status'[other] = status[other]
               /\ summary'[other] = summary[other]
    BY <1>1, <2>1 DEF PostGit, PostZip, HandlerStep, CreateRow, Register, Submit, Unregister,
       Reject, RemoveDir, CancelScan, DeleteScan, Phase, dbVars, rowVars, serviceVars,
       CreateJob, Fail, Cancel, DeleteJob, RowTypeOK
  <2>2. QED BY <2>1 DEF LifeStays, LifeState, RowExists
<1>3. LifeStep(id)
  <2> USE <1>1 DEF LifeStep, LifeStays, LifeMoves, LifeState, RowExists, HandlerRows, RowTypeOK
  <2>1. CASE PostGit(id) \/ PostZip(id) \/ Register(id) \/ Unregister(id)
    BY <2>1 DEF PostGit, PostZip, Register, Unregister, Phase, dbVars, rowVars
  <2>2. CASE CreateRow(id)
    BY <2>2 DEF CreateRow, Phase, CreateJob, rowVars
  <2>3. CASE Submit(id)
    BY <2>3 DEF Submit, Phase, dbVars, rowVars
  <2>4. CASE Reject(id)
    BY <2>4 DEF Reject, Phase, Fail, rowVars
  <2>5. CASE RemoveDir(id)
    BY <2>5 DEF RemoveDir, rowVars
  <2>6. CASE CancelScan(id)
    BY <2>6 DEF CancelScan, Cancel, NotTerminal, Active, serviceVars
  <2>7. CASE DeleteScan(id)
    <3>1. summary'[id] = NoSummary /\ ~NoSummary.written /\ status'[id] = "absent"
          /\ req' = req /\ req[id] = "accepted" /\ status[id] \in Terminal
      BY <2>7 DEF DeleteScan, DeleteJob, Known, NoSummary
    <3>2. QED BY <3>1 DEF Terminal
  <2>8. QED BY <2>1, <2>2, <2>3, <2>4, <2>5, <2>6, <2>7 DEF HandlerStep
<1>4. QED BY <1>1, <1>2, <1>3, Lift

LEMMA ProcessRefines ==
  ASSUME IInv, Stop \/ Exit \/ Crash \/ Boot \/ CutOff
  PROVE  [Lifecycle!Next]_(Lifecycle!vars)
<1>1. RowTypeOK /\ req \in [Ids -> Phases]
  BY DEF IInv, TypeOK, DBTypeOK
<1>2. CASE Stop \/ Exit \/ Crash \/ (Boot /\ UNCHANGED rowVars) \/ CutOff
  <2>1. status' = status /\ summary' = summary
    BY <1>2 DEF Stop, Exit, Crash, Halt, CutOff, dbVars, rowVars
  <2>2. \A id \in Ids : req'[id] = "accepted" <=> req[id] = "accepted"
    BY <1>1, <1>2 DEF Stop, Exit, Crash, Halt, Boot, CutOff, InFlight
  <2>3. \A id \in Ids : LifeStays(id)
    BY <2>1, <2>2 DEF LifeStays, LifeState, RowExists
  <2>4. QED BY <2>3, Stutter
<1>3. CASE Boot /\ RecoverOrphans
  <2>1. ASSUME NEW id \in Ids
        PROVE  /\ LifeState(id)' = IF LifeState(id) \in {"queued", "running"} THEN "failed"
                                                                           ELSE LifeState(id)
               /\ summary'[id].written = summary[id].written
    <3>1. /\ req' = req /\ summary' = summary
          /\ status'[id] = IF status[id] \in Active THEN "failed" ELSE status[id]
      BY <1>3 DEF Boot, RecoverOrphans, NotTerminal
    <3>2. CASE status[id] \in Active
      BY <3>1, <3>2 DEF Active, LifeState, RowExists
    <3>3. CASE status[id] \notin Active
      <4>1. LifeState(id)' = LifeState(id)
        BY <3>1, <3>3 DEF Active, LifeState, RowExists
      <4>2. LifeState(id) \notin {"queued", "running"}
        <5>1. status[id] \in {"done", "failed", "canceled", "absent"}
          BY <1>1, <3>3 DEF RowTypeOK, Active, Terminal
        <5>2. QED BY <5>1 DEF LifeState, RowExists
      <4>3. QED BY <3>1, <4>1, <4>2
    <3>4. QED BY <3>2, <3>3
  <2>2. Lifecycle!Recover
    BY <2>1 DEF Lifecycle!Recover
  <2>3. QED BY <2>2 DEF Lifecycle!Next
<1>4. QED BY <1>2, <1>3 DEF Boot

LEMMA StepRefines == IInv /\ [Next]_vars => [Lifecycle!Next]_(Lifecycle!vars)
<1> SUFFICES ASSUME IInv, [Next]_vars PROVE [Lifecycle!Next]_(Lifecycle!vars)
  OBVIOUS
<1>1. RowTypeOK'
  BY NextTypes DEF IInv, TypeOK, DBTypeOK
<1>2. CASE Quiet \/ UNCHANGED vars
  <2>1. \A id \in Ids : LifeStays(id)
    BY <1>2 DEF Quiet, vars, dbVars, serviceVars, LifeStays, LifeState, RowExists
  <2>2. QED BY <2>1, Stutter
<1>3. QED BY <1>1, <1>2, WorkerRefines, HandlerRefines, ProcessRefines DEF Next

(* Every row only ever takes the steps of JobLifecycle, for any number of     *)
(* jobs, engines, failing calls and restarts.                                *)
THEOREM Refinement == Spec => LifecycleSpec
<1>1. Spec => Machine
  BY DEF Spec, PatientSpec
<1>2. QED
  BY <1>1, Invariance, InitRefines, StepRefines, PTL DEF Machine, LifecycleSpec, Lifecycle!Spec
===============================================================================
