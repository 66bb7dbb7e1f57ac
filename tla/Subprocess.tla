------------------------------- MODULE Subprocess -------------------------------
(***************************************************************************)
(* The subprocesses of a scan: git (internal/source/git.go:117-145) and    *)
(* the engines (internal/engine/engine.go:29-43) run under the job's       *)
(* context, which kills them when it is done.  The call that waits for one *)
(* also waits until its output is closed, which a helper it has started    *)
(* may hold open for longer: no WaitDelay is set.  ScanService takes it as *)
(* given that calls return once their context is done (CallsReturn); this  *)
(* module, the same service with its subprocesses, shows what that takes.  *)
(***************************************************************************)
EXTENDS ScanService

CONSTANT GitRuns   \* subprocesses of one clone: clone, symbolic-ref, rev-parse

ASSUME SubprocessAssumption == GitRuns \in Nat \ {0}

VARIABLES
  child,     \* the subprocess: "none", "running", or "held", gone but for its output
  spawned    \* subprocesses the call under way has started

childVars == <<child, spawned>>
subVars   == <<vars, childVars>>

SubInit == Init /\ child = "none" /\ spawned = 0

(* The worker is in cloneGit or in an engine's Scan *)
InGit    == wpc = "fetch" /\ wjob \notin Zips
InEngine == wpc = "scanning"

(* exec.Cmd does not start under a context that is done *)
Spawn ==
  /\ child = "none" /\ ctx = "live"
  /\ \/ InGit /\ spawned < GitRuns
     \/ InEngine /\ spawned = 0
  /\ child' = "running" /\ spawned' = spawned + 1

Gone == child' \in {"none", "held"} /\ UNCHANGED spawned

Ends == child = "running" /\ Gone

(* Seeded bug: the subprocess is under a context with the deadline only *)
Kill_deadlineOnly == child = "running" /\ ctx = "expired" /\ Gone

(* exec.CommandContext *)
Kill == child = "running" /\ ctx # "live" /\ Gone

(* Whoever still held the output of the subprocess closes it *)
LetGo == child = "held" /\ child' = "none" /\ UNCHANGED spawned

ChildStep == Spawn \/ Ends \/ Kill \/ LetGo

(* The call succeeds, which it cannot without having started anything *)
Succeeds == wpc' \in {"branch", "setscanning"} \/ ran' # ran

(* A step of the service.  The worker does not leave a call while there is a  *)
(* subprocess or an open output to wait for; the end of the process takes all *)
(* of them along.                                                            *)
ServiceStep ==
  /\ Next
  /\ (wpc' # wpc /\ proc' # "down") => child = "none"
  /\ ((InGit \/ InEngine) /\ Succeeds) => spawned > 0
  /\ IF wpc' # wpc \/ proc' = "down" THEN child' = "none" /\ spawned' = 0
                                     ELSE UNCHANGED childVars

SubNext == ServiceStep \/ (ChildStep /\ UNCHANGED vars)

(* What runs in the process itself goes on: an archive ends, a call whose     *)
(* subprocess is over returns, and a context that is done kills it ...        *)
Returns == WF_subVars((Fetch \/ EngineEnd) /\ ServiceStep)
Killed  == WF_subVars(Kill /\ UNCHANGED vars)

(* ... but that helpers let go of the output is up to them: nothing in the    *)
(* code sees to it.  A subprocess need not end by itself.                    *)
HelpersLetGo == WF_subVars(LetGo /\ UNCHANGED vars)

SubSpec ==
  SubInit /\ [][SubNext]_subVars /\ Goroutines /\ Returns /\ Killed /\ HelpersLetGo
-------------------------------------------------------------------------------
(* What ScanService assumes of its calls, CallsReturn, holds here: a call      *)
(* whose context is done returns, whatever its subprocesses would rather do,  *)
(* once the helpers have let go of their output.                             *)

(* With the deadline counted on, every job that was accepted settles, and the *)
(* directory of every one is reclaimed ...                                   *)
SettlesByDeadline  == Deadline => EveryJobSettles
ReclaimsByDeadline == Deadline => AcceptedDirsReclaimed
===============================================================================
