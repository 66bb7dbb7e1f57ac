------------------------------ MODULE ScanService ------------------------------
(***************************************************************************)
(* The whole server: the HTTP handlers that create, cancel and delete      *)
(* scans (internal/api/scans.go) run beside the worker over the same store *)
(* and the same working directories, and the process itself (cmd/codescan) *)
(* is stopped, killed and started again.  A handler is cut at every store  *)
(* call, file operation and queue operation it makes.                      *)
(***************************************************************************)
EXTENDS ScanWorker

CONSTANT MaxCrashes   \* bound on the times the process is stopped or killed

ASSUME ServiceAssumption == MaxCrashes \in Nat

VARIABLES
  req,        \* how far the POST that creates each job has come
  deleting,   \* DELETE handlers between the row and the directory
  crashes     \* number of stops and kills so far

serviceVars == <<req, deleting, crashes, enforced>>
vars == <<dbVars, proc, queue, secrets, dirs, workerVars, serviceVars>>

(* A POST in flight: validated (an upload is on disk); row inserted; secret   *)
(* registered; queue found full; secret taken back.                          *)
InFlight == {"staged", "created", "registered", "full", "unregistered"}

(* Answered: 202; 503; an error before there was a row; or cut off by the end *)
(* of the process with the row already there.                                *)
Answered == {"accepted", "rejected", "aborted", "lost"}

Phases == {"new"} \cup InFlight \cup Answered

TypeOK ==
  /\ DBTypeOK
  /\ WorkerTypeOK
  /\ req      \in [Ids -> Phases]
  /\ deleting \in SUBSET Ids
  /\ crashes  \in 0 .. MaxCrashes

Init ==
  /\ DBInit
  /\ WorkerInit
  /\ req = [id \in Ids |-> "new"] /\ deleting = {} /\ crashes = 0

-------------------------------------------------------------------------------
(* POST /api/scans                                                           *)

Phase(id, from, to) == req[id] = from /\ req' = [req EXCEPT ![id] = to]

(* A git request is validated; nothing is stored yet *)
PostGit(id) ==
  /\ proc = "up" /\ id \notin Zips
  /\ Phase(id, "new", "staged")
  /\ UNCHANGED <<dbVars, proc, queue, secrets, dirs, workerVars, deleting, crashes, enforced>>

(* An upload is saved under the job's directory, or saving fails and the      *)
(* directory is removed again.  Nobody else knows the id yet, so making the   *)
(* directory and filling it are one step.                                    *)
PostZip(id) ==
  /\ proc = "up" /\ id \in Zips
  /\ \/ Phase(id, "new", "staged") /\ dirs' = dirs \cup {id} /\ UNCHANGED faults
     \/ Phase(id, "new", "aborted") /\ Fault /\ UNCHANGED dirs
  /\ UNCHANGED <<rowVars, proc, queue, secrets, workerVars, deleting, crashes, enforced>>

CreateRow(id) ==
  /\ proc # "down"
  /\ \/ Phase(id, "staged", "created") /\ CreateJob(id) /\ UNCHANGED faults
     \/ Phase(id, "staged", "aborted") /\ CallFails /\ UNCHANGED rowVars
  /\ UNCHANGED <<proc, queue, secrets, dirs, workerVars, deleting, crashes, enforced>>

(* Manager.Enqueue: the secret first, under the mutex *)
Register(id) ==
  /\ proc # "down"
  /\ Phase(id, "created", "registered")
  /\ secrets' = secrets \cup {id}
  /\ UNCHANGED <<dbVars, proc, queue, dirs, workerVars, deleting, crashes, enforced>>

(* Seeded bug: the id is sent before the secret is registered *)
Submit_first(id) ==
  /\ proc # "down"
  /\ \/ Len(queue) < QueueSize /\ queue' = Append(queue, id) /\ Phase(id, "created", "accepted")
     \/ Len(queue) >= QueueSize /\ UNCHANGED queue /\ Phase(id, "created", "full")
  /\ UNCHANGED <<dbVars, proc, secrets, dirs, workerVars, deleting, crashes, enforced>>

(* ... then the non-blocking send *)
Submit(id) ==
  /\ proc # "down"
  /\ \/ /\ Len(queue) < QueueSize /\ queue' = Append(queue, id)
        /\ Phase(id, "registered", "accepted")
     \/ /\ Len(queue) >= QueueSize /\ UNCHANGED queue
        /\ Phase(id, "registered", "full")
  /\ UNCHANGED <<dbVars, proc, secrets, dirs, workerVars, deleting, crashes, enforced>>

(* Seeded bug: the secret of a job that found the queue full is kept *)
Unregister_keeps(id) ==
  /\ proc # "down"
  /\ Phase(id, "full", "unregistered")
  /\ UNCHANGED <<dbVars, proc, queue, secrets, dirs, workerVars, deleting, crashes, enforced>>

(* ... which takes the secret back when the queue is full *)
Unregister(id) ==
  /\ proc # "down"
  /\ Phase(id, "full", "unregistered")
  /\ secrets' = secrets \ {id}
  /\ UNCHANGED <<dbVars, proc, queue, dirs, workerVars, deleting, crashes, enforced>>

(* Queue full: fail the row, on the request's context, and answer 503 *)
Reject(id) ==
  /\ proc # "down"
  /\ Phase(id, "unregistered", "rejected")
  /\ \/ Fail(id, "queue full") /\ UNCHANGED faults
     \/ CallFails /\ UNCHANGED rowVars
  /\ UNCHANGED <<proc, queue, secrets, dirs, workerVars, deleting, crashes, enforced>>

-------------------------------------------------------------------------------
(* POST /api/scans/{id}/cancel and DELETE /api/scans/{id}.  A call that is    *)
(* refused (404, 409) or fails changes nothing.  The 202 is the only answer   *)
(* that tells a client the id: the list route is off (router.go:80).         *)

Known(id) == proc # "down" /\ req[id] = "accepted"

CancelScan(id) ==
  /\ Known(id)
  /\ Cancel(id)
  /\ UNCHANGED <<faults, proc, queue, secrets, dirs, workerVars, serviceVars>>

DeleteScan(id) ==
  /\ Known(id)
  /\ DeleteJob(id)
  /\ deleting' = deleting \cup {id}
  /\ UNCHANGED <<faults, proc, queue, secrets, dirs, workerVars, req, crashes, enforced>>

(* Best effort, like the worker's *)
RemoveDir(id) ==
  /\ proc # "down" /\ id \in deleting
  /\ deleting' = deleting \ {id}
  /\ \/ dirs' = dirs \ {id} /\ UNCHANGED faults
     \/ Fault /\ UNCHANGED dirs
  /\ UNCHANGED <<rowVars, proc, queue, secrets, workerVars, req, crashes, enforced>>

-------------------------------------------------------------------------------
(* The process                                                               *)

(* SIGTERM: the listener closes, main returns at once and its deferred calls  *)
(* cancel the worker's context and close the store.                          *)
Stop ==
  /\ proc = "up" /\ crashes < MaxCrashes
  /\ proc' = "stopping" /\ crashes' = crashes + 1
  /\ ctx' = IF ctx = "live" THEN "canceled" ELSE ctx
  /\ UNCHANGED <<dbVars, queue, secrets, dirs, wpc, wjob, wsec, locals, result,
                 req, deleting, enforced>>

(* Everything in memory goes; rows and directories stay *)
Halt ==
  /\ proc' = "down" /\ queue' = <<>> /\ secrets' = {} /\ deleting' = {}
  /\ Blank
  /\ req' = [id \in Ids |-> IF req[id] = "staged" THEN "aborted"
                            ELSE IF req[id] \in InFlight THEN "lost" ELSE req[id]]
  /\ UNCHANGED <<dbVars, dirs, enforced>>

Exit  == proc = "stopping" /\ Halt /\ UNCHANGED crashes

Crash == proc = "up" /\ crashes < MaxCrashes /\ crashes' = crashes + 1 /\ Halt

(* main() opens the store, and runs RecoverOrphans before it serves; an error  *)
(* of the latter is only logged.                                             *)
Boot ==
  /\ proc = "down" /\ proc' = "up" /\ Enforce
  /\ \/ RecoverOrphans /\ UNCHANGED faults
     \/ Fault /\ UNCHANGED rowVars
  /\ UNCHANGED <<queue, secrets, dirs, workerVars, req, deleting, crashes>>

(* A statement of any reader, handler, watcher or worker whose context is done *)
(* while it runs: a client that goes away, a cancel, the deadline.            *)
CutOff ==
  /\ proc # "down" /\ Reconnect
  /\ UNCHANGED <<rowVars, proc, queue, secrets, dirs, workerVars, req, deleting, crashes>>

-------------------------------------------------------------------------------
Worker == WorkerStep \/ Fetch \/ EngineEnd \/ Panic

(* The rest of a handler that has begun, which runs on by itself *)
HandlerStep(id) ==
  \/ CreateRow(id) \/ Register(id) \/ Submit(id) \/ Unregister(id) \/ Reject(id)
  \/ RemoveDir(id)

(* Nothing is under way: no request, no job, and the bounds on ids used up *)
Quiet ==
  /\ proc = "up" /\ wpc = "idle" /\ queue = <<>> /\ deleting = {}
  /\ \A id \in Ids : req[id] \in Answered
  /\ UNCHANGED vars

Next ==
  \/ (Worker \/ Watch \/ Expire) /\ UNCHANGED serviceVars
  \/ \E id \in Ids : \/ PostGit(id) \/ PostZip(id) \/ HandlerStep(id)
                     \/ CancelScan(id) \/ DeleteScan(id)
  \/ Stop \/ Exit \/ Crash \/ Boot \/ CutOff
  \/ Quiet

(* Goroutines run, the poll ticks, a stopped process ends and the platform    *)
(* starts it again.                                                          *)
Goroutines ==
  /\ WF_vars(WorkerStep /\ UNCHANGED serviceVars)
  /\ WF_vars(Watch /\ UNCHANGED serviceVars)
  /\ \A id \in Ids : WF_vars(HandlerStep(id))
  /\ WF_vars(Exit) /\ WF_vars(Boot)

(* git, the extraction and the engines need not return by themselves, only    *)
(* after their context is done: the job's deadline or a cancel frees the       *)
(* worker of them.  Subprocess shows what that rests on.                      *)
CallsReturn == WF_vars(ctx # "live" /\ (Fetch \/ EngineEnd) /\ UNCHANGED serviceVars)

Progress == Goroutines /\ CallsReturn

Deadline == WF_vars(wpc \in Running /\ Expire /\ UNCHANGED serviceVars)

Machine     == Init /\ [][Next]_vars
PatientSpec == Machine /\ Progress   \* as if the deadline were never to come
Spec        == PatientSpec /\ Deadline

-------------------------------------------------------------------------------
(* Safety                                                                    *)

Busy == wpc \in Running \cup {"start", "check", "conclude", "recover"}

Waiting(id) == \E i \in 1 .. Len(queue) : queue[i] = id

(* A job waits in the queue at most once, never while the worker has it, and  *)
(* only after its handler put it there: Manager runs each job at most once.   *)
AtMostOnce ==
  /\ \A i, j \in 1 .. Len(queue) : queue[i] = queue[j] => i = j
  /\ \A i \in 1 .. Len(queue) : queue[i] # wjob /\ req[queue[i]] = "accepted"

(* manager.go:23-25: a secret lives in memory only from Enqueue until the     *)
(* worker picks the job up.  No path leaves one behind ...                   *)
SecretLifetime ==
  \A id \in secrets : \/ req[id] \in {"registered", "full"}
                      \/ Waiting(id)
                      \/ wjob = id /\ wpc = "take"

(* ... and the worker never finds a job's token or upload path missing.       *)
SecretDelivered ==
  /\ \A i \in 1 .. Len(queue) : queue[i] \in secrets
  /\ Busy => wsec

(* DeleteJob's promise (jobs.go:289-290): a delete never leaves findings      *)
(* without their row behind, even when the worker is still persisting.       *)
Orphaned(id) == findings[id] # {} /\ ~RowExists(id)

NoOrphanFindings == \A id \in Ids : ~Orphaned(id)

(* What a reader of a done job sees: a summary, the very findings it counts,  *)
(* and "complete" never beside the warning that a scanner did not finish.     *)
DoneIsPublished ==
  \A id \in Ids : status[id] = "done" =>
    /\ summary[id].written /\ findings[id] = summary[id].counts
    /\ summary[id].counts \subseteq summary[id].engines
    /\ summary[id].complete => summary[id].engines = Engine /\ errmsg[id] = ""

(* A job canceled before it ever started is never fetched or scanned.         *)
CanceledNeverStarts ==
  \A id \in Ids :
    IsCanceled(id) /\ ~started[id] => ~(wjob = id /\ wpc \in Running)

(* The worker's directory is there as long as it works in it (jobs.go:286-288 *)
(* refuses a delete because the directory "may be in use by the worker").     *)
DirInUse == wpc \in {"branch", "setscanning", "engines", "scanning"} => wjob \in dirs

-------------------------------------------------------------------------------
(* What no step may do                                                       *)

(* A row that says queued, fetching or scanning while the process is up, with *)
(* no handler, no place in the queue and no worker to end it.  A worker that  *)
(* has come to its cleanup writes no status any more.                        *)
HasWorker(id) == wjob = id /\ wpc # "cleanup"

Unattended(id) ==
  /\ proc = "up" /\ ~HasWorker(id)
  /\ \/ status[id] = "queued" /\ req[id] \notin InFlight /\ ~Waiting(id)
     \/ status[id] \in {"fetching", "scanning"}

(* Only a store call that fails at that very step strands a row, in whatever  *)
(* has failed, panicked, been stopped or killed before: the Fail of a full    *)
(* queue, GetJob, the first SetStatus, the write of the outcome, or           *)
(* RecoverOrphans.                                                           *)
NoStranded ==
  [][\A id \in Ids : Unattended(id)' /\ ~Unattended(id) => faults' > faults]_vars

(* The working directory of an accepted job that neither waits nor is worked  *)
(* on.                                                                       *)
Abandoned(id) == id \in dirs /\ req[id] = "accepted" /\ ~Waiting(id) /\ wjob # id

(* Every path out of process() takes the directory along, a panic's and a     *)
(* failing call's too: only a removal that fails, or the end of the process,  *)
(* leaves one behind.                                                        *)
DirOwned ==
  [][\A id \in Ids :
       Abandoned(id)' /\ ~Abandoned(id) => faults' > faults \/ proc' = "down"]_vars

(* As long as the pool has the connection Open prepared, the foreign key      *)
(* keeps the findings of a deleted job from coming back.                     *)
OrphansOnlyUnchecked ==
  [][\A id \in Ids : Orphaned(id)' /\ ~Orphaned(id) => ~enforced /\ wjob = id]_vars

(* A job leaves a terminal status only by being deleted, except that a worker *)
(* that had already decided to fail it may still turn canceled into failed.   *)
TerminalSticky ==
  [][\A id \in Ids : status[id] \in Terminal /\ status'[id] # status[id] =>
       \/ status'[id] = "absent"
       \/ status[id] = "canceled" /\ status'[id] = "failed"]_vars

(* manager.go:177 and jobs.go:214-215: a cancel is honored over any error.    *)
CancelHonored ==
  [][\A id \in Ids : status[id] = "canceled" => status'[id] \in {"canceled", "absent"}]_vars

(* Once a job is done or failed, what readers see of it is fixed until it is  *)
(* deleted, whatever the worker that ran it still does.                      *)
ResultsFrozen ==
  [][\A id \in Ids : status[id] \in {"done", "failed"} =>
       \/ status'[id] = "absent"
       \/ <<errmsg'[id], summary'[id], findings'[id]>>
             = <<errmsg[id], summary[id], findings[id]>>]_vars

(* The step to done publishes exactly this run's report, with a warning iff   *)
(* an engine failed and never when all of them failed.                       *)
PublishHonest ==
  [][\A id \in Ids : status'[id] = "done" /\ status[id] # "done" =>
       /\ wjob = id /\ findings[id] = found
       /\ (errmsg[id] = Warning) <=> bad # {}
       /\ ran = {} => bad = {}]_vars

-------------------------------------------------------------------------------
(* Liveness                                                                  *)

(* Every job that was accepted into the table leaves it or gets an outcome.   *)
EveryJobSettles == \A id \in Ids : status[id] = "queued" ~> status[id] \notin Active

(* Canceling frees the worker without waiting for the deadline (manager.go:   *)
(* 159), as long as the row is there to be polled.                           *)
CancelFreesWorker ==
  \A id \in Ids : (IsCanceled(id) /\ wjob = id) ~> (wjob # id \/ ~RowExists(id))

(* ... which is what a caller who cancels may expect, row or no row.          *)
CancelStopsWork == \A id \in Ids : (IsCanceled(id) /\ wjob = id) ~> wjob # id

(* The plan, step 5: jobs/<id>/ is temporary and removed after the scan.      *)
DirsReclaimed == \A id \in Ids : id \in dirs ~> id \notin dirs

(* ... and it is, for every job that was accepted, unless the process is       *)
(* stopped or killed meanwhile: no start sweeps what the last run left.       *)
AcceptedDirsReclaimed ==
  \A id \in Ids : (id \in dirs /\ req[id] = "accepted") ~> (id \notin dirs \/ crashes > 0)
-------------------------------------------------------------------------------
(* Refinement                                                                *)

(* A row that has been there and is gone was deleted *)
LifeState(id) ==
  IF status[id] \in {"fetching", "scanning"} THEN "running"
  ELSE IF RowExists(id) THEN status[id]
  ELSE IF req[id] = "accepted" THEN "deleted" ELSE "none"

Lifecycle == INSTANCE JobLifecycle WITH
  state    <- [id \in Ids |-> LifeState(id)],
  reported <- [id \in Ids |-> summary[id].written]

(* The service implements the abstract life of a job: whatever handlers, the  *)
(* worker, its watcher and restarts do between them, each row only ever takes *)
(* the steps JobLifecycle lists, done only after its report is written.      *)
LifecycleSpec == Lifecycle!Spec
===============================================================================
