--------------------------- MODULE ScanOwnershipProofs ---------------------------
(***************************************************************************)
(* What a job holds outside the table, for any set of jobs, any queue size *)
(* and any number of faults and restarts: its secret, its working          *)
(* directory, and somebody who will end it.  Each belongs to the handler,  *)
(* then to the queue, then to the worker, and the hand-over is where one   *)
(* could be dropped.                                                       *)
(***************************************************************************)
EXTENDS ScanReportProofs

-------------------------------------------------------------------------------
(* The two hand-overs                                                        *)

(* The worker takes a job from the queue: it was there, and all others stay *)
LEMMA TakenOver ==
  ASSUME IInv, Dequeue, NEW id \in Ids
  PROVE  Waiting(id) <=> Waiting(id)' \/ wjob' = id
<1>1. queue \in Seq(Ids) /\ queue # <<>> /\ wjob' = queue[1] /\ queue' = Tail(queue)
  BY DEF IInv, TypeOK, WorkerTypeOK, Dequeue
<1>2. /\ 1 \in 1 .. Len(queue) /\ Len(queue) \in Nat
      /\ \A i \in 1 .. Len(queue') : queue'[i] = queue[i + 1] /\ i + 1 \in 1 .. Len(queue)
      /\ \A i \in 1 .. Len(queue) : i = 1 \/ (i - 1 \in 1 .. Len(queue') /\ queue'[i - 1] = queue[i])
  BY <1>1
<1>3. Waiting(id)' \/ wjob' = id => Waiting(id)
  BY <1>1, <1>2 DEF Waiting
<1>4. Waiting(id) => Waiting(id)' \/ wjob' = id
  BY <1>1, <1>2 DEF Waiting
<1>5. QED BY <1>3, <1>4

(* The handler sends a job to the queue: it is there, and all others stay *)
LEMMA HandedIn ==
  ASSUME IInv, NEW job \in Ids, queue' = Append(queue, job), NEW id \in Ids
  PROVE  Waiting(id)' <=> Waiting(id) \/ id = job
<1>1. queue \in Seq(Ids)
  BY DEF IInv, TypeOK, WorkerTypeOK
<1>2. /\ Len(queue) \in Nat /\ Len(queue') = Len(queue) + 1 /\ queue'[Len(queue')] = job
      /\ Len(queue') \in 1 .. Len(queue')
      /\ \A i \in 1 .. Len(queue) : queue'[i] = queue[i] /\ i \in 1 .. Len(queue')
      /\ \A i \in 1 .. Len(queue') : i \in 1 .. Len(queue) \/ i = Len(queue')
  BY <1>1
<1>3. Waiting(id)' => Waiting(id) \/ id = job
  BY <1>2 DEF Waiting
<1>4. Waiting(id) \/ id = job => Waiting(id)'
  BY <1>2 DEF Waiting
<1>5. QED BY <1>3, <1>4

LEMMA QueueStays == ASSUME queue' = queue, NEW id PROVE Waiting(id)' <=> Waiting(id)
BY DEF Waiting

-------------------------------------------------------------------------------
(* Secrets                                                                   *)

Entrusted(id) == \/ req[id] \in {"registered", "full"}
                 \/ Waiting(id)
                 \/ wjob = id /\ wpc = "take"

(* A secret is in memory exactly as long as somebody is to hand it on, and the *)
(* worker has it from then on.                                               *)
Secrets ==
  /\ \A id \in Ids : id \in secrets <=> Entrusted(id)
  /\ Busy \/ wpc = "load" => wsec

LEMMA InitSecrets == Init => Secrets
BY WorkerAssumption
   DEF WorkerAssumption, Init, WorkerInit, Secrets, Entrusted, Waiting, Busy, Running

LEMMA SecretsWorker ==
  ASSUME IInv, Secrets, WorkerNext
  PROVE  Secrets'
<1>1. req' = req
  BY DEF WorkerNext, serviceVars
<1>2. wjob \in Ids => ~Waiting(wjob) /\ req[wjob] = "accepted"
  BY DEF IInv, Owners, AtMostOnce, Waiting
<1>3. CASE Dequeue
  <2>1. /\ secrets' = secrets /\ wpc = "idle" /\ wpc' = "take"
    BY <1>3 DEF Dequeue
  <2>2. ASSUME NEW id \in Ids PROVE id \in secrets' <=> Entrusted(id)'
    BY <1>1, <1>3, <2>1, TakenOver DEF Secrets, Entrusted
  <2>3. QED BY <2>1, <2>2 DEF Secrets, Busy, Running
<1>4. CASE TakeSecret
  <2>1. /\ wpc = "take" /\ wpc' = "load" /\ wjob' = wjob /\ queue' = queue
        /\ secrets' = secrets \ {wjob} /\ wsec' = (wjob \in secrets)
    BY <1>4 DEF TakeSecret
  <2>2. wjob \in Ids
    BY <2>1 DEF IInv, TypeOK, WorkerTypeOK
  <2>3. wsec'
    BY <2>1, <2>2 DEF Secrets, Entrusted
  <2>4. ASSUME NEW id \in Ids PROVE id \in secrets' <=> Entrusted(id)'
    BY <1>1, <1>2, <2>1, <2>2, QueueStays DEF Secrets, Entrusted
  <2>5. QED BY <2>3, <2>4 DEF Secrets
<1>5. CASE ~Dequeue /\ ~TakeSecret
  <2>1. /\ secrets' = secrets /\ queue' = queue /\ wpc # "take" /\ wpc' # "take"
        /\ (Busy \/ wpc = "load")' => (Busy \/ wpc = "load") /\ wsec' = wsec
    <3>1. CASE Watch \/ Expire
      BY <3>1 DEF Watch, Expire, Busy, Running
    <3>2. CASE StopWorker \/ Cleanup
      BY <3>2 DEF StopWorker, Cleanup, Blank, Busy, Running
    <3>3. CASE Fetch \/ EngineEnd \/ Panic
      BY <3>3 DEF Fetch, FetchGit, FetchZip, FetchFails, EngineEnd, Panic, Return, Busy, Running
    <3>4. CASE LoadJob \/ StartJob \/ RunFetching \/ SetBranch \/ RunScanning \/ EngineBegin
      BY <3>4 DEF LoadJob, StartJob, RunFetching, SetBranch, RunScanning, EngineBegin, CtxCall,
         Return, Busy, Running
    <3>5. CASE Persist \/ PutSummary \/ Wrapup
      BY <3>5 DEF Persist, PutSummary, Wrapup, CtxCall, Return, Busy, Running
    <3>6. CASE RecoverPanic \/ CheckCanceled \/ Conclude
      BY <3>6 DEF RecoverPanic, CheckCanceled, Conclude, BackgroundCall, Busy, Running
    <3>7. QED
      BY <1>5, <3>1, <3>2, <3>3, <3>4, <3>5, <3>6 DEF WorkerNext, Worker, WorkerStep
  <2>2. ASSUME NEW id \in Ids PROVE id \in secrets' <=> Entrusted(id)'
    BY <1>1, <2>1, QueueStays DEF Secrets, Entrusted
  <2>3. QED BY <2>1, <2>2 DEF Secrets
<1>6. QED BY <1>3, <1>4, <1>5

Handling(job) == \/ PostGit(job) \/ PostZip(job) \/ HandlerStep(job)
                 \/ CancelScan(job) \/ DeleteScan(job)

(* A handler touches what its own job holds, and leaves the worker alone *)
LEMMA HandlingFrame ==
  ASSUME IInv, NEW job \in Ids, Handling(job)
  PROVE  /\ UNCHANGED <<workerVars, proc, crashes>> /\ proc # "down"
         /\ \A id \in Ids : id # job =>
              /\ req'[id] = req[id] /\ (Waiting(id)' <=> Waiting(id))
              /\ id \in secrets' <=> id \in secrets
              /\ id \in dirs' <=> id \in dirs
<1>1. UNCHANGED <<workerVars, proc, crashes>> /\ proc # "down"
  BY DEF Handling, PostGit, PostZip, HandlerStep, CreateRow, Register, Submit, Unregister,
     Reject, RemoveDir, CancelScan, DeleteScan, Known, serviceVars
<1>2. queue' = queue \/ queue' = Append(queue, job)
  BY DEF Handling, PostGit, PostZip, HandlerStep, CreateRow, Register, Submit, Unregister,
     Reject, RemoveDir, CancelScan, DeleteScan
<1>3. ASSUME NEW id \in Ids, id # job
      PROVE  /\ req'[id] = req[id]
             /\ id \in secrets' <=> id \in secrets
             /\ id \in dirs' <=> id \in dirs
  <2>1. req \in [Ids -> Phases]
    BY DEF IInv, TypeOK
  <2>2. QED
    BY <1>3, <2>1 DEF Handling, PostGit, PostZip, HandlerStep, CreateRow, Register, Submit,
       Unregister, Reject, RemoveDir, CancelScan, DeleteScan, Phase, serviceVars
<1>4. ASSUME NEW id \in Ids, id # job PROVE Waiting(id)' <=> Waiting(id)
  BY <1>2, <1>4, HandedIn, QueueStays
<1>5. QED BY <1>1, <1>3, <1>4

(* What it does to its own job: the secret and the place in the queue go with  *)
(* how far it has come.                                                      *)
LEMMA HandlingOwn ==
  ASSUME IInv, NEW job \in Ids, Handling(job)
  PROVE  \/ /\ req'[job] = req[job] \/ req[job] \in {"new", "staged", "unregistered"}
            /\ req'[job] = req[job] \/ req'[job] \in {"staged", "created", "aborted", "rejected"}
            /\ queue' = queue /\ secrets' = secrets
         \/ Register(job) /\ req'[job] = "registered"
         \/ Submit(job) /\ req[job] = "registered" /\ req'[job] = "full" /\ queue' = queue
         \/ Submit(job) /\ req[job] = "registered" /\ req'[job] = "accepted"
              /\ queue' = Append(queue, job)
         \/ Unregister(job) /\ req[job] = "full" /\ req'[job] = "unregistered"
<1>1. req \in [Ids -> Phases]
  BY DEF IInv, TypeOK
<1>2. CASE Submit(job)
  BY <1>1, <1>2 DEF Submit, Phase
<1>3. CASE Register(job) \/ Unregister(job)
  BY <1>1, <1>3 DEF Register, Unregister, Phase
<1>4. CASE PostGit(job) \/ PostZip(job) \/ CreateRow(job) \/ Reject(job)
  BY <1>1, <1>4 DEF PostGit, PostZip, CreateRow, Reject, Phase
<1>5. CASE RemoveDir(job) \/ CancelScan(job) \/ DeleteScan(job)
  BY <1>5 DEF RemoveDir, CancelScan, DeleteScan, serviceVars
<1>6. QED BY <1>2, <1>3, <1>4, <1>5 DEF Handling, HandlerStep

LEMMA SecretsHandling ==
  ASSUME IInv, Secrets, NEW job \in Ids, Handling(job)
  PROVE  Secrets'
<1>1. UNCHANGED <<wpc, wjob, wsec>>
  BY HandlingFrame DEF workerVars
<1>2. ASSUME NEW id \in Ids, id # job PROVE id \in secrets' <=> Entrusted(id)'
  BY <1>1, <1>2, HandlingFrame DEF Secrets, Entrusted
<1>3. job \in secrets' <=> Entrusted(job)'
  <2>1. job \in secrets <=> Entrusted(job)
    BY DEF Secrets
  <2>2. req[job] # "accepted" => ~Waiting(job) /\ wjob # job
    BY NobodysRow DEF Accepting
  <2>3. CASE /\ req'[job] = req[job] \/ req[job] \in {"new", "staged", "unregistered"}
             /\ req'[job] = req[job] \/ req'[job] \in {"staged", "created", "aborted", "rejected"}
             /\ queue' = queue /\ secrets' = secrets
    BY <1>1, <2>1, <2>3, QueueStays DEF Entrusted
  <2>4. CASE Register(job) /\ req'[job] = "registered"
    BY <2>4 DEF Register, Entrusted
  <2>5. CASE Submit(job) /\ req[job] = "registered" /\ req'[job] = "full" /\ queue' = queue
    BY <2>1, <2>5 DEF Submit, Entrusted
  <2>6. CASE Submit(job) /\ req[job] = "registered" /\ req'[job] = "accepted"
               /\ queue' = Append(queue, job)
    BY <2>1, <2>6, HandedIn DEF Submit, Entrusted
  <2>7. CASE Unregister(job) /\ req[job] = "full" /\ req'[job] = "unregistered"
    BY <1>1, <2>2, <2>7, QueueStays DEF Unregister, Entrusted
  <2>8. QED BY <2>3, <2>4, <2>5, <2>6, <2>7, HandlingOwn
<1>4. (Busy \/ wpc = "load" => wsec)'
  BY <1>1 DEF Secrets, Busy
<1>5. QED BY <1>2, <1>3, <1>4 DEF Secrets

(* The process ends: nothing is in memory any more *)
LEMMA Halted ==
  ASSUME IInv, Exit \/ Crash
  PROVE  /\ proc' = "down" /\ secrets' = {} /\ wpc' = "idle" /\ wjob' = NoJob /\ NoJob \notin Ids
         /\ \A id \in Ids : ~Waiting(id)' /\ req'[id] \notin InFlight
         /\ \A id \in Ids : req'[id] = "accepted" <=> req[id] = "accepted"
         /\ UNCHANGED <<dbVars, dirs>>
<1>1. Halt /\ req \in [Ids -> Phases]
  BY DEF Exit, Crash, IInv, TypeOK
<1>2. QED
  BY <1>1, WorkerAssumption DEF WorkerAssumption, Halt, Blank, Waiting, InFlight

LEMMA NextSecrets == IInv /\ Secrets /\ [Next]_vars => Secrets'
<1> SUFFICES ASSUME IInv, Secrets, [Next]_vars PROVE Secrets'
  OBVIOUS
<1>1. CASE Exit \/ Crash
  BY <1>1, Halted DEF Secrets, Entrusted, Busy, Running, InFlight
<1>2. CASE Stop \/ Boot \/ CutOff \/ Quiet \/ UNCHANGED vars
  <2>1. UNCHANGED <<secrets, req, queue, wpc, wjob, wsec>>
    BY <1>2 DEF Stop, Boot, CutOff, Quiet, vars, workerVars, serviceVars
  <2>2. QED BY <2>1 DEF Secrets, Entrusted, Waiting, Busy
<1>3. QED
  BY <1>1, <1>2, SecretsWorker, SecretsHandling, NextCases DEF ServiceNext, Handling

LEMMA SecretInvariance == Machine => [](IInv /\ Secrets)
<1>1. Init => Secrets
  BY InitSecrets
<1>2. QED BY <1>1, NextSecrets, Invariance, PTL DEF Machine

(* A secret is in memory only from Enqueue until the worker picks its job up: *)
(* no path through the handlers or the worker leaves one behind.              *)
THEOREM SecretLifetimeHolds == Spec => []SecretLifetime
<1>1. IInv /\ Secrets => SecretLifetime
  BY DEF IInv, TypeOK, WorkerTypeOK, Secrets, Entrusted, SecretLifetime
<1>2. QED BY <1>1, SecretInvariance, SpecIsMachine, PTL

(* The worker never finds a job's token or upload path missing.               *)
THEOREM SecretDeliveredHolds == Spec => []SecretDelivered
<1>1. IInv /\ Secrets => SecretDelivered
  BY QueueFacts DEF IInv, Secrets, Entrusted, Waiting, SecretDelivered
<1>2. QED BY <1>1, SecretInvariance, SpecIsMachine, PTL
-------------------------------------------------------------------------------
(* Started jobs                                                              *)

(* A job the worker is inside Run for has been marked as started *)
StartedRow(id) == wjob = id /\ wpc \in Running => started[id] \/ status[id] = "absent"

StartedRows == \A id \in Ids : StartedRow(id)

LEMMA InitStarted == Init => StartedRows
BY DEF Init, WorkerInit, StartedRows, StartedRow, Running

(* StartJob sets the mark, no other step of the worker takes it back *)
LEMMA OwnStarted ==
  ASSUME TypeOK, wjob \in Ids, StartedRow(wjob),
         Worker \/ Watch \/ Expire, ~Dequeue, ~StopWorker, ~Cleanup
  PROVE  StartedRow(wjob)'
<1> USE DEF StartedRow, Running, TypeOK, DBTypeOK, RowTypeOK, rowVars, dbVars, SetStatus,
            NotTerminal, Active
<1>1. CASE TakeSecret \/ LoadJob \/ StartJob
  BY <1>1 DEF TakeSecret, LoadJob, StartJob
<1>2. CASE RunFetching \/ SetBranch \/ RunScanning
  BY <1>2 DEF RunFetching, SetBranch, RunScanning, CtxCall, Return
<1>3. CASE Fetch \/ EngineBegin \/ EngineEnd \/ Panic
  BY <1>3 DEF Fetch, FetchGit, FetchZip, FetchFails, EngineBegin, EngineEnd, Panic, Return
<1>4. CASE Persist \/ PutSummary \/ Wrapup
  BY <1>4 DEF Persist, PutSummary, Wrapup, CtxCall, Return, InsertFindings, SetSummary, SetError
<1>5. CASE RecoverPanic \/ CheckCanceled \/ Conclude
  BY <1>5 DEF RecoverPanic, CheckCanceled, Conclude, BackgroundCall
<1>6. CASE Watch \/ Expire
  BY <1>6 DEF Watch, Expire
<1>7. QED
  BY <1>1, <1>2, <1>3, <1>4, <1>5, <1>6 DEF Worker, WorkerStep

LEMMA NextStarted == IInv /\ StartedRows /\ [Next]_vars => StartedRows'
<1> SUFFICES ASSUME IInv, StartedRows, [Next]_vars, NEW id \in Ids PROVE StartedRow(id)'
  BY DEF StartedRows
<1>1. StartedRow(id)
  BY DEF StartedRows
<1>2. CASE ServiceNext
  <2>1. wjob' = id => UNCHANGED <<wpc, wjob>>
    BY <1>2, HandledWorker, WorkerAssumption DEF WorkerAssumption, Blank
  <2>2. HandledRow(id) /\ (wjob = id => req[id] # "staged" /\ Accepting(id))
    BY <1>2, HandledRows, NobodysRow DEF Accepting
  <2>3. QED BY <1>1, <2>1, <2>2 DEF HandledRow, SameRow, StartedRow, Active
<1>3. CASE WorkerNext
  <2>1. CASE Dequeue \/ StopWorker \/ Cleanup
    BY <2>1, TurnStep DEF StartedRow, Running
  <2>2. CASE ~(Dequeue \/ StopWorker \/ Cleanup) /\ id # wjob
    BY <1>3, <2>2, OwnStep DEF WorkerNext, StartedRow
  <2>3. CASE ~(Dequeue \/ StopWorker \/ Cleanup) /\ id = wjob
    <3>1. StartedRow(wjob)' /\ wjob' = wjob
      BY <1>1, <1>3, <2>3, OwnStep, OwnStarted DEF WorkerNext, IInv
    <3>2. QED BY <2>3, <3>1 DEF StartedRow
  <2>4. QED BY <2>1, <2>2, <2>3
<1>4. CASE Quiet \/ UNCHANGED vars
  BY <1>1, <1>4 DEF Quiet, vars, dbVars, workerVars, StartedRow
<1>5. QED BY <1>2, <1>3, <1>4, NextCases

(* A job canceled before it ever started is never fetched or scanned.         *)
THEOREM CanceledNeverStartsHolds == Spec => []CanceledNeverStarts
<1>1. Init => StartedRows
  BY InitStarted
<1>2. StartedRows => CanceledNeverStarts
  BY DEF StartedRows, StartedRow, CanceledNeverStarts, IsCanceled
<1>3. QED BY <1>1, <1>2, NextStarted, Invariance, SpecIsMachine, PTL DEF Machine

-------------------------------------------------------------------------------
(* Directories                                                               *)

(* A call that fails by itself is counted *)
LEMMA FaultCounts == ASSUME IInv, Fault PROVE faults' > faults
BY StoreAssumption DEF StoreAssumption, IInv, TypeOK, DBTypeOK, Fault

(* The worker puts a job down in Cleanup alone, its directory gone *)
LEMMA DirsWorker ==
  ASSUME IInv, WorkerNext, ~Fault, NEW id \in Ids, Abandoned(id)'
  PROVE  Abandoned(id)
<1>1. req' = req /\ dirs \in SUBSET Ids
  BY DEF WorkerNext, serviceVars, IInv, TypeOK, WorkerTypeOK
<1>2. CASE Dequeue
  <2>1. Accepting(id) => Accepting(id)'
    BY <1>2, TakenOver, WorkerAssumption
       DEF WorkerAssumption, Dequeue, IInv, TypeOK, WorkerTypeOK, Accepting
  <2>2. dirs' = dirs
    BY <1>2 DEF Dequeue
  <2>3. QED BY <1>1, <2>1, <2>2 DEF Abandoned, Accepting
<1>3. CASE Cleanup
  <2>1. queue' = queue /\ dirs' = dirs \ {wjob}
    BY <1>3 DEF Cleanup
  <2>2. QED BY <1>1, <2>1 DEF Abandoned, Waiting
<1>4. CASE ~Dequeue /\ ~Cleanup
  <2>1. UNCHANGED <<queue, wjob>>
    BY <1>4 DEF WorkerNext, Worker, WorkerStep, StopWorker, TakeSecret, LoadJob, StartJob,
       RunFetching, Fetch, SetBranch, RunScanning, EngineBegin, EngineEnd, Persist, PutSummary,
       Wrapup, Panic, RecoverPanic, CheckCanceled, Conclude, Watch, Expire
  <2>2. dirs' = dirs \/ dirs' = dirs \cup {wjob}
    BY <1>4 DEF WorkerNext, Worker, WorkerStep, StopWorker, TakeSecret, LoadJob, StartJob,
       RunFetching, Fetch, FetchGit, FetchZip, FetchFails, SetBranch, RunScanning, EngineBegin,
       EngineEnd, Persist, PutSummary, Wrapup, Panic, RecoverPanic, CheckCanceled, Conclude,
       Watch, Expire
  <2>3. QED BY <1>1, <2>1, <2>2 DEF Abandoned, Waiting
<1>5. QED BY <1>2, <1>3, <1>4

(* A directory made by a handler is the handler's until its job is in the queue *)
LEMMA DirsHandling ==
  ASSUME IInv, NEW job \in Ids, Handling(job), NEW id \in Ids, Abandoned(id)'
  PROVE  Abandoned(id)
<1>1. wjob' = wjob
  BY HandlingFrame DEF workerVars
<1>2. CASE id # job
  BY <1>1, <1>2, HandlingFrame DEF Abandoned
<1>3. CASE id = job /\ req[job] = "accepted"
  <2>1. queue' = queue /\ dirs' \subseteq dirs
    BY <1>3 DEF Handling, PostGit, PostZip, HandlerStep, CreateRow, Register, Submit,
       Unregister, Reject, RemoveDir, CancelScan, DeleteScan, Phase
  <2>2. QED BY <1>1, <1>3, <2>1, QueueStays DEF Abandoned
<1>4. CASE id = job /\ req[job] # "accepted"
  BY <1>4, HandlingOwn, HandedIn DEF Abandoned
<1>5. QED BY <1>2, <1>3, <1>4

(* What is on disk of an accepted job belongs to one that waits or is worked   *)
(* on: no path out of process() forgets it, and only a removal that fails or   *)
(* the end of the process leaves it behind.                                  *)
THEOREM DirOwnedHolds == Spec => DirOwned
<1>1. IInv /\ [Next]_vars =>
        [\A id \in Ids :
           Abandoned(id)' /\ ~Abandoned(id) => faults' > faults \/ proc' = "down"]_vars
  <2> SUFFICES ASSUME IInv, Next, NEW id \in Ids, Abandoned(id)', ~Abandoned(id),
                      ~(faults' > faults), proc' # "down"
               PROVE  FALSE
    OBVIOUS
  <2>1. ~Fault
    BY FaultCounts
  <2>2. CASE Stop \/ Exit \/ Crash \/ Boot \/ CutOff \/ Quiet
    <3>1. UNCHANGED <<req, dirs, queue, wjob>>
      BY <2>2 DEF Stop, Exit, Crash, Halt, Boot, CutOff, Quiet, vars, workerVars, serviceVars
    <3>2. QED BY <3>1 DEF Abandoned, Waiting
  <2>3. QED
    BY <2>1, <2>2, DirsWorker, DirsHandling, NextCases DEF ServiceNext, Handling
<1>2. QED BY <1>1, Invariance, SpecIsMachine, PTL DEF Machine, DirOwned
-------------------------------------------------------------------------------
(* Jobs that are not over                                                    *)

(* The first SetStatus finds its context alive, unless main is closing *)
StartsLive == wpc = "start" /\ proc = "up" => ctx = "live"

LEMMA ProcStays == WorkerNext => proc' = proc
BY DEF WorkerNext, Worker, WorkerStep, Dequeue, StopWorker, TakeSecret, LoadJob,
   StartJob, RunFetching, Fetch, SetBranch, RunScanning, EngineBegin, EngineEnd, Persist,
   PutSummary, Wrapup, Panic, RecoverPanic, CheckCanceled, Conclude, Cleanup, Watch, Expire

LEMMA NextStartsLive == IInv /\ StartsLive /\ [Next]_vars => StartsLive'
<1> SUFFICES ASSUME IInv, StartsLive, [Next]_vars, wpc' = "start", proc' = "up"
             PROVE  ctx' = "live"
  BY DEF StartsLive
<1>1. CASE WorkerNext
  <2>1. LoadJob \/ StartJob
    BY <1>1 DEF WorkerNext, Worker, WorkerStep, Dequeue, StopWorker, TakeSecret, RunFetching,
       Fetch, FetchGit, FetchZip, FetchFails, SetBranch, RunScanning, EngineBegin, EngineEnd,
       Persist, PutSummary, Wrapup, Panic, RecoverPanic, CheckCanceled, Conclude, Cleanup,
       Blank, Watch, Expire, CtxCall, BackgroundCall, Return, Running
  <2>2. QED
    BY <1>1, <2>1, ProcStays DEF LoadJob, StartJob, StartsLive
<1>2. CASE \E job \in Ids : Handling(job)
  BY <1>2, HandlingFrame DEF workerVars, StartsLive
<1>3. CASE Stop \/ Exit \/ Crash
  BY <1>3 DEF Stop, Exit, Crash, Halt
<1>4. CASE Boot
  BY <1>4 DEF Boot, workerVars, IInv, Owners, TypeOK, WorkerTypeOK
<1>5. CASE CutOff \/ Quiet \/ UNCHANGED vars
  BY <1>5 DEF CutOff, Quiet, vars, workerVars, StartsLive
<1>6. QED BY <1>1, <1>2, <1>3, <1>4, <1>5, NextCases DEF ServiceNext, Handling

(* Every way to Cleanup is one that has ended the row, or found it ended *)
LEMMA OwnEnds ==
  ASSUME TypeOK, wjob \in Ids, StartsLive, proc = "up", ~Fault,
         Worker \/ Watch \/ Expire, ~Dequeue, ~StopWorker, ~Cleanup, wpc' = "cleanup"
  PROVE  status'[wjob] \notin Active
<1> USE DEF StartsLive, Running, TypeOK, DBTypeOK, RowTypeOK, rowVars, dbVars, CallFails,
            RowExists, NotTerminal, IsCanceled, Active
<1>1. CASE TakeSecret \/ LoadJob
  BY <1>1 DEF TakeSecret, LoadJob
<1>2. CASE StartJob
  BY <1>2 DEF StartJob, SetStatus
<1>3. CASE RunFetching \/ SetBranch \/ RunScanning
  BY <1>3 DEF RunFetching, SetBranch, RunScanning, CtxCall, Return
<1>4. CASE Fetch \/ EngineBegin \/ EngineEnd \/ Panic
  BY <1>4 DEF Fetch, FetchGit, FetchZip, FetchFails, EngineBegin, EngineEnd, Panic, Return
<1>5. CASE Persist \/ PutSummary \/ Wrapup
  BY <1>5 DEF Persist, PutSummary, Wrapup, CtxCall, Return
<1>6. CASE RecoverPanic
  BY <1>6 DEF RecoverPanic, BackgroundCall, Fail
<1>7. CASE CheckCanceled
  BY <1>7 DEF CheckCanceled
<1>8. CASE Conclude
  BY <1>8 DEF Conclude, BackgroundCall, Fail, SetStatus
<1>9. CASE Watch \/ Expire
  BY <1>9 DEF Watch, Expire
<1>10. QED
  BY <1>1, <1>2, <1>3, <1>4, <1>5, <1>6, <1>7, <1>8, <1>9 DEF Worker, WorkerStep

(* The queue, the worker's hands and its cleanup: a step of the worker drops no *)
(* job that is not over.                                                     *)
LEMMA StrandedWorker ==
  ASSUME IInv, StartsLive, WorkerNext, ~Fault, NEW id \in Ids, Unattended(id)'
  PROVE  Unattended(id)
<1>1. /\ req' = req /\ proc = "up" /\ proc' = "up" /\ NoJob \notin Ids
      /\ wpc \in {"idle", "stopped"} <=> wjob = NoJob
  BY ProcStays, WorkerAssumption
     DEF WorkerAssumption, WorkerNext, serviceVars, IInv, TypeOK, WorkerTypeOK, Unattended
<1>2. CASE Dequeue
  <2>1. status' = status /\ wpc = "idle" /\ wpc' = "take"
    BY <1>2 DEF Dequeue, dbVars
  <2>2. Waiting(id) => Waiting(id)' \/ HasWorker(id)'
    BY <1>2, <2>1, TakenOver DEF HasWorker
  <2>3. QED BY <1>1, <2>1, <2>2 DEF Unattended, HasWorker
<1>3. CASE StopWorker \/ Cleanup
  <2>1. status' = status /\ queue' = queue /\ wpc = "cleanup"
    BY <1>1, <1>3 DEF StopWorker, Cleanup, rowVars
  <2>2. QED BY <1>1, <2>1, QueueStays DEF Unattended, HasWorker
<1>4. CASE ~(Dequeue \/ StopWorker \/ Cleanup)
  <2>1. /\ wjob \in Ids /\ wjob' = wjob /\ queue' = queue
        /\ \A other \in Ids : other # wjob => SameRow(other)
    BY <1>4, OwnStep DEF WorkerNext
  <2>2. CASE id # wjob
    BY <1>1, <2>1, <2>2, QueueStays DEF Unattended, HasWorker, SameRow
  <2>3. CASE id = wjob
    <3>1. wpc' = "cleanup" /\ status'[id] \in Active
      BY <2>1, <2>3 DEF Unattended, HasWorker, Active
    <3>2. QED BY <1>1, <1>4, <2>1, <2>3, <3>1, OwnEnds DEF WorkerNext, IInv
  <2>4. QED BY <2>2, <2>3
<1>5. QED BY <1>2, <1>3, <1>4

(* A handler lets its row go by handing it to the queue or by failing it *)
LEMMA HandlingEnds ==
  ASSUME IInv, proc = "up", ~Fault, NEW job \in Ids, Handling(job)
  PROVE  /\ req[job] \in InFlight => \/ req'[job] \in InFlight
                                     \/ Waiting(job)'
                                     \/ status'[job] = "failed"
         /\ req[job] = "staged" /\ status'[job] = "queued" => req'[job] \in InFlight
<1>1. RowTypeOK /\ req \in [Ids -> Phases] /\ HandlerRows(job)
  BY DEF IInv, TypeOK, DBTypeOK, Rows
<1>2. CASE CreateRow(job)
  BY <1>1, <1>2 DEF CreateRow, CallFails, Phase, InFlight
<1>3. CASE Reject(job)
  BY <1>1, <1>3 DEF Reject, CallFails, Phase, Fail, InFlight, RowTypeOK
<1>4. CASE Register(job) \/ Unregister(job)
  BY <1>1, <1>4 DEF Register, Unregister, Phase, InFlight
<1>5. CASE Submit(job)
  BY <1>1, <1>5, HandlingOwn, HandedIn DEF Submit, Phase, InFlight
<1>6. CASE PostGit(job) \/ PostZip(job) \/ RemoveDir(job) \/ CancelScan(job) \/ DeleteScan(job)
  <2>1. req[job] \notin InFlight \/ req' = req
    BY <1>6 DEF PostGit, PostZip, RemoveDir, CancelScan, DeleteScan, Phase, InFlight, serviceVars
  <2>2. QED BY <2>1 DEF InFlight
<1>7. QED BY <1>2, <1>3, <1>4, <1>5, <1>6 DEF Handling, HandlerStep

LEMMA StrandedHandling ==
  ASSUME IInv, ~Fault, NEW job \in Ids, Handling(job), NEW id \in Ids, Unattended(id)'
  PROVE  Unattended(id)
<1>1. UNCHANGED <<wpc, wjob, proc>> /\ ServiceNext /\ proc = "up"
  BY HandlingFrame DEF workerVars, ServiceNext, Handling, Unattended
<1>2. HandledRow(id)
  BY <1>1, HandledRows
<1>3. Waiting(id) => Waiting(id)'
  <2>1. queue' = queue \/ queue' = Append(queue, job)
    BY HandlingOwn DEF Register, Unregister
  <2>2. QED BY <2>1, HandedIn, QueueStays
<1>4. /\ req[id] \in InFlight => \/ req'[id] \in InFlight
                                 \/ Waiting(id)'
                                 \/ status'[id] = "failed"
      /\ req[id] = "staged" /\ status'[id] = "queued" => req'[id] \in InFlight
  <2>1. CASE id = job
    BY <1>1, <2>1, HandlingEnds
  <2>2. CASE id # job
    BY <2>2, HandlingFrame DEF InFlight
  <2>3. QED BY <2>1, <2>2
<1>5. QED BY <1>1, <1>2, <1>3, <1>4 DEF Unattended, HasWorker, HandledRow, SameRow

(* A row comes to say queued, fetching or scanning with nobody to end it only  *)
(* at a step at which a call of the store fails, whatever has failed before.  *)
THEOREM NoStrandedHolds == Spec => NoStranded
<1>1. Init => StartsLive
  BY DEF Init, WorkerInit, StartsLive
<1>2. IInv /\ StartsLive /\ [Next]_vars =>
        [\A id \in Ids : Unattended(id)' /\ ~Unattended(id) => faults' > faults]_vars
  <2> SUFFICES ASSUME IInv, StartsLive, Next, NEW id \in Ids, Unattended(id)', ~Unattended(id),
                      ~(faults' > faults)
               PROVE  FALSE
    OBVIOUS
  <2>1. ~Fault
    BY FaultCounts
  <2>2. CASE Stop \/ Exit \/ Crash
    BY <2>2 DEF Stop, Exit, Crash, Halt, Unattended
  <2>3. CASE Boot \/ CutOff
    <3>1. Boot /\ RecoverOrphans
      BY <2>1, <2>3 DEF Boot, CutOff, Reconnect
    <3>2. status'[id] \notin Active
      BY <3>1 DEF RecoverOrphans, NotTerminal, Active
    <3>3. QED BY <3>2 DEF Unattended, Active
  <2>4. CASE Quiet
    <3>1. UNCHANGED <<dbVars, proc, queue, workerVars, serviceVars>>
      BY <2>4 DEF Quiet, vars
    <3>2. QED
      BY <3>1 DEF dbVars, workerVars, serviceVars, Unattended, HasWorker, Waiting
  <2>5. QED
    BY <2>1, <2>2, <2>3, <2>4, StrandedWorker, StrandedHandling, NextCases
       DEF ServiceNext, Handling
<1>3. QED
  BY <1>1, <1>2, NextStartsLive, Invariance, SpecIsMachine, PTL DEF Machine, NoStranded
===============================================================================
