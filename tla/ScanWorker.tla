------------------------------ MODULE ScanWorker ------------------------------
(***************************************************************************)
(* The scan manager (internal/scan/manager.go) and the production runner   *)
(* (internal/scan/runner.go): a bounded queue of job ids, the in-memory    *)
(* secrets that travel beside it, and one worker goroutine that takes an   *)
(* id, loads its row, fetches the source, runs the engines, persists the   *)
(* report and writes the outcome.  Each store call, each subprocess and    *)
(* each engine is a step of its own, so anything the API does can fall     *)
(* between two of them.                                                    *)
(*                                                                         *)
(* wpc is the worker's place in process() and Run(); the watcher goroutine *)
(* that polls for a cancel is the action Watch, the job deadline Expire.   *)
(***************************************************************************)
EXTENDS JobStore, Sequences

CONSTANTS
  Zips,       \* the jobs whose source is an uploaded archive; the rest are git
  QueueSize,  \* capacity of the queue channel
  NoJob       \* the worker has no job

ASSUME WorkerAssumption ==
  Zips \subseteq Ids /\ QueueSize \in Nat \ {0} /\ NoJob \notin Ids

VARIABLES
  proc,       \* the server process: "up", "stopping" (stopWorker ran), "down"
  queue,      \* Manager.queue
  secrets,    \* keys of Manager.secrets
  dirs,       \* the jobs whose <JobsDir>/<id> exists on disk
  wpc,        \* what the worker does next
  wjob,       \* the id it works on
  wsec,       \* it found a secret for that id
  ctx,        \* the job's context
  eng,        \* Run: index of the next engine
  ran,        \* Run: engines that completed
  bad,        \* Run: engines that returned an error
  found,      \* Run: engines whose report had findings
  result      \* what Run returned: "ok", "deadline" or "other" (an error)

locals     == <<eng, ran, bad, found>>
workerVars == <<wpc, wjob, wsec, ctx, eng, ran, bad, found, result>>

(* The places inside Runner.Run, where the watcher is alive *)
Running == {"setfetching", "fetch", "branch", "setscanning", "engines",
            "scanning", "summary", "wrapup"}
Places  == Running \cup {"idle", "take", "load", "start", "check", "conclude",
                         "recover", "cleanup", "stopped"}

WorkerTypeOK ==
  /\ proc    \in {"up", "stopping", "down"}
  /\ queue   \in Seq(Ids)
  /\ secrets \in SUBSET Ids
  /\ dirs    \in SUBSET Ids
  /\ wpc     \in Places
  /\ wjob    \in Ids \cup {NoJob}
  /\ wjob = NoJob <=> wpc \in {"idle", "stopped"}
  /\ wsec    \in BOOLEAN
  /\ ctx     \in {"none", "live", "canceled", "expired"}
  /\ eng     \in 1 .. NEngines + 1
  /\ wpc = "scanning" => eng \in Engine
  /\ ran \in SUBSET Engine /\ bad \in SUBSET Engine /\ found \in SUBSET Engine
  /\ result  \in {"ok", "deadline", "other"}

(* process() has no state of its own between two jobs *)
Blank ==
  /\ wpc' = "idle" /\ wjob' = NoJob /\ wsec' = FALSE /\ ctx' = "none"
  /\ eng' = 1 /\ ran' = {} /\ bad' = {} /\ found' = {} /\ result' = "ok"

WorkerInit ==
  /\ proc = "up" /\ queue = <<>> /\ secrets = {} /\ dirs = {}
  /\ wpc = "idle" /\ wjob = NoJob /\ wsec = FALSE /\ ctx = "none"
  /\ eng = 1 /\ ran = {} /\ bad = {} /\ found = {} /\ result = "ok"

-------------------------------------------------------------------------------
(* Store calls and how their callers go on                                   *)

(* A call fails by itself, or because main is closing the store (main.go:43). *)
CallFails == Fault \/ (proc = "stopping" /\ UNCHANGED faults)

Return(r) == wpc' = "check" /\ result' = r

CtxErr == IF ctx = "expired" THEN "deadline" ELSE "other"

(* if err := store.Op(ctx, ...); err != nil { return err }, then go to next  *)
CtxCall(hits, write, next) ==
  \/ ctx = "live" /\ hits /\ write /\ wpc' = next /\ UNCHANGED <<result, faults>>
  \/ ctx = "live" /\ ~hits /\ Return("other") /\ UNCHANGED <<rowVars, faults>>
  \/ ctx = "live" /\ CallFails /\ Return("other") /\ UNCHANGED rowVars
  \/ ctx # "live" /\ Return(CtxErr) /\ UNCHANGED <<rowVars, faults>>

(* store.Op(context.Background(), ...), its error ignored or only logged     *)
BackgroundCall(hits, write, next) ==
  /\ wpc' = next
  /\ \/ hits /\ write /\ UNCHANGED faults
     \/ ~hits /\ UNCHANGED <<rowVars, faults>>
     \/ CallFails /\ UNCHANGED rowVars

-------------------------------------------------------------------------------
(* Manager.loop and Manager.process, up to the call of Run                   *)

Dequeue ==
  /\ wpc = "idle" /\ queue # <<>> /\ proc # "down"
  /\ wjob' = Head(queue) /\ queue' = Tail(queue) /\ wpc' = "take"
  /\ UNCHANGED <<dbVars, proc, secrets, dirs, wsec, ctx, locals, result>>

StopWorker ==
  /\ wpc = "idle" /\ proc = "stopping"
  /\ wpc' = "stopped"
  /\ UNCHANGED <<dbVars, proc, queue, secrets, dirs, wjob, wsec, ctx, locals, result>>

TakeSecret ==
  /\ wpc = "take"
  /\ wsec' = (wjob \in secrets) /\ secrets' = secrets \ {wjob} /\ wpc' = "load"
  /\ UNCHANGED <<dbVars, proc, queue, dirs, wjob, ctx, locals, result>>

(* Seeded bug: the cleanup is deferred only after the row has been loaded *)
LoadJob_early ==
  /\ wpc = "load"
  /\ \/ /\ proc = "up" /\ RowExists(wjob) /\ ~IsCanceled(wjob)
        /\ wpc' = "start" /\ ctx' = "live"
        /\ UNCHANGED <<wjob, wsec, locals, result>>
     \/ (~RowExists(wjob) \/ IsCanceled(wjob)) /\ Blank
  /\ UNCHANGED <<dbVars, proc, queue, secrets, dirs>>

LoadJob ==
  /\ wpc = "load"
  /\ \/ /\ proc = "up" /\ RowExists(wjob) /\ ~IsCanceled(wjob)
        /\ wpc' = "start" /\ ctx' = "live" /\ UNCHANGED faults
     \/ /\ \/ ~RowExists(wjob) /\ UNCHANGED faults
           \/ IsCanceled(wjob) /\ UNCHANGED faults
           \/ CallFails
        /\ wpc' = "cleanup" /\ UNCHANGED ctx
  /\ UNCHANGED <<rowVars, proc, queue, secrets, dirs, wjob, wsec, locals, result>>

(* Seeded bug: a job whose first SetStatus failed goes back to the queue *)
StartJob_requeue ==
  /\ wpc = "start"
  /\ \/ /\ ctx = "live" /\ SetStatus(wjob, "fetching")
        /\ wpc' = "setfetching" /\ UNCHANGED <<queue, faults>>
     \/ /\ \/ (ctx # "live" \/ ~NotTerminal(wjob)) /\ UNCHANGED faults
           \/ CallFails
        /\ queue' = Append(queue, wjob)
        /\ wpc' = "cleanup" /\ UNCHANGED rowVars
  /\ UNCHANGED <<proc, secrets, dirs, wjob, wsec, ctx, locals, result>>

(* Seeded bug: the error of the first SetStatus is logged and forgotten *)
StartJob_goesOn ==
  /\ wpc = "start"
  /\ SetStatus(wjob, "fetching") \/ (~NotTerminal(wjob) /\ UNCHANGED rowVars)
  /\ wpc' = "setfetching"
  /\ UNCHANGED <<faults, proc, queue, secrets, dirs, wjob, wsec, ctx, locals, result>>

(* The first SetStatus; an error here only logs and returns *)
StartJob ==
  /\ wpc = "start"
  /\ \/ /\ ctx = "live" /\ SetStatus(wjob, "fetching")
        /\ wpc' = "setfetching" /\ UNCHANGED faults
     \/ /\ \/ (ctx # "live" \/ ~NotTerminal(wjob)) /\ UNCHANGED faults
           \/ CallFails
        /\ wpc' = "cleanup" /\ UNCHANGED rowVars
  /\ UNCHANGED <<proc, queue, secrets, dirs, wjob, wsec, ctx, locals, result>>

-------------------------------------------------------------------------------
(* realRunner.Run                                                            *)

RunFetching ==
  /\ wpc = "setfetching"
  /\ CtxCall(NotTerminal(wjob), SetStatus(wjob, "fetching"), "fetch")
  /\ UNCHANGED <<proc, queue, secrets, dirs, wjob, wsec, ctx, locals>>

(* A fetch that fails may have made its directory already.  The context's own *)
(* error comes back only where the code returns it as it is.                 *)
FetchFails ==
  /\ dirs' \in {dirs, dirs \cup {wjob}}
  /\ \E r \in {"other", CtxErr} : Return(r)

(* git clone under the context, the branch it resolved, HEAD, .git stripped,  *)
(* the size cap.  What git itself reports is flattened to text, so a deadline *)
(* hit during a clone is just an error.                                      *)
FetchGit ==
  /\ wjob \notin Zips
  /\ \/ /\ dirs' = dirs \cup {wjob}
        /\ wpc' \in {"branch", "setscanning"} /\ UNCHANGED result
     \/ FetchFails

(* The upload is unpacked beside itself; without a secret its path is unknown *)
FetchZip ==
  /\ wjob \in Zips
  /\ \/ /\ wsec /\ wjob \in dirs
        /\ wpc' = "setscanning" /\ UNCHANGED <<dirs, result>>
     \/ FetchFails

Fetch ==
  /\ wpc = "fetch"
  /\ FetchGit \/ FetchZip
  /\ UNCHANGED <<dbVars, proc, queue, secrets, wjob, wsec, ctx, locals>>

(* SetBranch does not ask whether it hit a row *)
SetBranch ==
  /\ wpc = "branch"
  /\ CtxCall(TRUE, UNCHANGED rowVars, "setscanning")
  /\ UNCHANGED <<proc, queue, secrets, dirs, wjob, wsec, ctx, locals>>

RunScanning ==
  /\ wpc = "setscanning"
  /\ CtxCall(NotTerminal(wjob), SetStatus(wjob, "scanning"), "engines")
  /\ UNCHANGED <<proc, queue, secrets, dirs, wjob, wsec, ctx, locals>>

(* Seeded bug: the loop runs once too often *)
EngineBegin_tooFar ==
  /\ wpc = "engines" /\ eng <= NEngines + 1
  /\ \/ ctx # "live" /\ Return(CtxErr) /\ UNCHANGED eng
     \/ ctx = "live" /\ eng' = eng + 1 /\ wpc' \in {"engines", "scanning"} /\ UNCHANGED result
  /\ UNCHANGED <<dbVars, proc, queue, secrets, dirs, wjob, wsec, ctx, ran, bad, found>>

(* Head of the engine loop; the progress update's error is ignored *)
EngineBegin ==
  /\ wpc = "engines" /\ eng <= NEngines
  /\ \/ ctx # "live" /\ Return(CtxErr) /\ UNCHANGED <<rowVars, eng>>
     \/ ctx = "live" /\ eng' = eng + 1 /\ UNCHANGED <<rowVars, wpc, result>>
     \/ /\ ctx = "live" /\ wpc' = "scanning" /\ UNCHANGED <<eng, result>>
        /\ SetStatus(wjob, "scanning") \/ (~NotTerminal(wjob) /\ UNCHANGED rowVars)
  /\ UNCHANGED <<faults, proc, queue, secrets, dirs, wjob, wsec, ctx, ran, bad, found>>

(* Seeded bug: an engine's error is recorded with Fail, and the run goes on *)
EngineEnd_failsRow ==
  /\ wpc = "scanning"
  /\ \/ ctx # "live" /\ Return(CtxErr) /\ UNCHANGED <<rowVars, locals>>
     \/ /\ ctx = "live" /\ eng' = eng + 1 /\ wpc' = "engines" /\ UNCHANGED result
        /\ \/ ran' = ran \cup {eng} /\ found' = found \cup {eng} /\ UNCHANGED <<rowVars, bad>>
           \/ Fail(wjob, "scan error") /\ bad' = bad \cup {eng} /\ UNCHANGED <<ran, found>>
  /\ UNCHANGED <<faults, proc, queue, secrets, dirs, wjob, wsec, ctx>>

(* Engine.Scan returns; it may have completed before its context was done *)
EngineEnd ==
  /\ wpc = "scanning"
  /\ \/ /\ ran' = ran \cup {eng} /\ found' \in {found, found \cup {eng}}
        /\ eng' = eng + 1 /\ wpc' = "engines" /\ UNCHANGED <<bad, result>>
     \/ /\ ctx = "live" /\ bad' = bad \cup {eng}
        /\ eng' = eng + 1 /\ wpc' = "engines" /\ UNCHANGED <<ran, found, result>>
     \/ ctx # "live" /\ Return(CtxErr) /\ UNCHANGED locals
  /\ UNCHANGED <<dbVars, proc, queue, secrets, dirs, wjob, wsec, ctx>>

(* Seeded bug: the error of InsertFindings is not returned *)
Persist_goesOn ==
  /\ wpc = "engines" /\ eng > NEngines
  /\ wpc' = "summary"
  /\ \/ InsertFindings(wjob, found) /\ UNCHANGED faults
     \/ CallFails /\ UNCHANGED rowVars
  /\ UNCHANGED <<proc, queue, secrets, dirs, wjob, wsec, ctx, locals, result>>

(* InsertFindings does nothing, and cannot fail, on an empty report *)
Persist ==
  /\ wpc = "engines" /\ eng > NEngines
  /\ \/ found = {} /\ wpc' = "summary" /\ UNCHANGED <<dbVars, result>>
     \/ /\ found # {}
        /\ CtxCall(Referenced(wjob), InsertFindings(wjob, found), "summary")
  /\ UNCHANGED <<proc, queue, secrets, dirs, wjob, wsec, ctx, locals>>

Report == [written |-> TRUE, counts |-> found, engines |-> ran,
           complete |-> ran = Engine /\ ran # {}]

(* Seeded bug: the error of SetSummary is not returned *)
PutSummary_goesOn ==
  /\ wpc = "summary"
  /\ BackgroundCall(RowExists(wjob), SetSummary(wjob, Report), "wrapup")
  /\ UNCHANGED <<proc, queue, secrets, dirs, wjob, wsec, ctx, locals, result>>

PutSummary ==
  /\ wpc = "summary"
  /\ CtxCall(RowExists(wjob), SetSummary(wjob, Report), "wrapup")
  /\ UNCHANGED <<proc, queue, secrets, dirs, wjob, wsec, ctx, locals>>

(* Seeded bug: a partial success is reported like a full one *)
Wrapup_silent ==
  /\ wpc = "wrapup"
  /\ \/ ran = {} /\ bad # {} /\ Return("other")
     \/ (ran # {} \/ bad = {}) /\ Return("ok")
  /\ UNCHANGED <<dbVars, proc, queue, secrets, dirs, wjob, wsec, ctx, locals>>

(* The closing switch of Run *)
Wrapup ==
  /\ wpc = "wrapup"
  /\ \/ ran = {} /\ bad # {} /\ Return("other") /\ UNCHANGED dbVars
     \/ ran # {} /\ bad # {} /\ CtxCall(RowExists(wjob), SetError(wjob, Warning), "check")
     \/ bad = {} /\ Return("ok") /\ UNCHANGED dbVars
  /\ UNCHANGED <<proc, queue, secrets, dirs, wjob, wsec, ctx, locals>>

(* A panic anywhere in Run is caught by process and fails the job *)
Panic ==
  /\ wpc \in {"fetch", "engines", "scanning"} /\ Fault
  /\ wpc' = "recover"
  /\ UNCHANGED <<rowVars, proc, queue, secrets, dirs, wjob, wsec, ctx, locals, result>>

RecoverPanic ==
  /\ wpc = "recover"
  /\ BackgroundCall(RowExists(wjob), Fail(wjob, "internal error"), "cleanup")
  /\ UNCHANGED <<proc, queue, secrets, dirs, wjob, wsec, ctx, locals, result>>

-------------------------------------------------------------------------------
(* Manager.process after Run has returned, and its deferred cleanup          *)

(* An error of this read counts as "not canceled" *)
CheckCanceled ==
  /\ wpc = "check"
  /\ \/ IsCanceled(wjob) /\ wpc' = "cleanup" /\ UNCHANGED faults
     \/ ~IsCanceled(wjob) /\ wpc' = "conclude" /\ UNCHANGED faults
     \/ CallFails /\ wpc' = "conclude"
  /\ UNCHANGED <<rowVars, proc, queue, secrets, dirs, wjob, wsec, ctx, locals, result>>

(* Seeded bug: a timeout is taken for a cancel, and nothing is written *)
Conclude_forgetsTimeout ==
  /\ wpc = "conclude"
  /\ \/ result = "deadline" /\ wpc' = "cleanup" /\ UNCHANGED dbVars
     \/ /\ result = "other"
        /\ BackgroundCall(RowExists(wjob), Fail(wjob, "scan error"), "cleanup")
     \/ /\ result = "ok"
        /\ BackgroundCall(NotTerminal(wjob), SetStatus(wjob, "done"), "cleanup")
  /\ UNCHANGED <<proc, queue, secrets, dirs, wjob, wsec, ctx, locals, result>>

(* Seeded bug: done is written with no test of the status *)
Conclude_forcesDone ==
  /\ wpc = "conclude"
  /\ \/ /\ result # "ok"
        /\ BackgroundCall(RowExists(wjob), Fail(wjob, "scan error"), "cleanup")
     \/ /\ result = "ok" /\ wpc' = "cleanup"
        /\ status' = [status EXCEPT ![wjob] = IF RowExists(wjob) THEN "done" ELSE @]
        /\ UNCHANGED <<started, errmsg, summary, findings, faults>>
  /\ UNCHANGED <<proc, queue, secrets, dirs, wjob, wsec, ctx, locals, result>>

Conclude ==
  /\ wpc = "conclude"
  /\ \/ /\ result = "deadline"
        /\ BackgroundCall(RowExists(wjob), Fail(wjob, "timed out"), "cleanup")
     \/ /\ result = "other"
        /\ BackgroundCall(RowExists(wjob), Fail(wjob, "scan error"), "cleanup")
     \/ /\ result = "ok"
        /\ BackgroundCall(NotTerminal(wjob), SetStatus(wjob, "done"), "cleanup")
  /\ UNCHANGED <<proc, queue, secrets, dirs, wjob, wsec, ctx, locals, result>>

(* os.RemoveAll, best effort, then back to the loop *)
Cleanup ==
  /\ wpc = "cleanup"
  /\ \/ dirs' = dirs \ {wjob} /\ UNCHANGED faults
     \/ Fault /\ UNCHANGED dirs
  /\ Blank
  /\ UNCHANGED <<rowVars, proc, queue, secrets>>

-------------------------------------------------------------------------------
(* What happens to the job's context meanwhile                               *)

(* Seeded bug: the poll ends when the fetch phase does *)
Watch_fetchOnly ==
  /\ wpc \in {"setfetching", "fetch"} /\ ctx = "live" /\ IsCanceled(wjob)
  /\ ctx' = "canceled"
  /\ UNCHANGED <<dbVars, proc, queue, secrets, dirs, wpc, wjob, wsec, locals, result>>

(* A tick of the 250 ms poll that reads "canceled"; any other tick, a read    *)
(* of a row that is gone included, changes nothing.                           *)
Watch ==
  /\ wpc \in Running /\ ctx = "live" /\ IsCanceled(wjob)
  /\ ctx' = "canceled"
  /\ UNCHANGED <<dbVars, proc, queue, secrets, dirs, wpc, wjob, wsec, locals, result>>

(* The deadline passes.  If it does so before the first SetStatus, which takes *)
(* a store that is stuck or a deadline of nearly zero, that call fails:       *)
(* StartJob's CallFails.                                                     *)
Expire ==
  /\ wpc \in Running /\ ctx = "live" /\ ctx' = "expired"
  /\ UNCHANGED <<dbVars, proc, queue, secrets, dirs, wpc, wjob, wsec, locals, result>>

(* The worker's own steps, which a scheduled goroutine takes when it can *)
WorkerStep ==
  \/ Dequeue \/ StopWorker \/ TakeSecret \/ LoadJob \/ StartJob
  \/ RunFetching \/ SetBranch \/ RunScanning \/ EngineBegin
  \/ Persist \/ PutSummary \/ Wrapup
  \/ RecoverPanic \/ CheckCanceled \/ Conclude \/ Cleanup
===============================================================================
