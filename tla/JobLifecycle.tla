------------------------------ MODULE JobLifecycle ------------------------------
(***************************************************************************)
(* What the job table promises to those who only look at it (the UI, the   *)
(* API's readers, the export): the life of one row, whoever writes it.     *)
(* ScanService implements this module; see its Lifecycle instance.         *)
(***************************************************************************)
CONSTANT Ids

VARIABLES
  state,     \* the job's status; fetching and scanning are both "running"
  reported   \* the job's summary has been written

vars == <<state, reported>>

Ended == {"done", "failed", "canceled"}

TypeOK ==
  /\ state    \in [Ids -> {"none", "queued", "running", "deleted"} \cup Ended]
  /\ reported \in [Ids -> BOOLEAN]

Init == state = [id \in Ids |-> "none"] /\ reported = [id \in Ids |-> FALSE]

Move(id, from, to) ==
  /\ state[id] \in from
  /\ state' = [state EXCEPT ![id] = to]
  /\ UNCHANGED reported

Create(id) == Move(id, {"none"}, "queued")

Begin(id) == Move(id, {"queued"}, "running")

(* A report is published once; a cancel may have come before it *)
Publish(id) ==
  /\ state[id] \in {"running", "canceled"} /\ ~reported[id]
  /\ reported' = [reported EXCEPT ![id] = TRUE]
  /\ UNCHANGED state

(* No job is done before its report is there *)
Finish(id) == reported[id] /\ Move(id, {"running"}, "done")

(* A job is failed from any status but done; a canceled one too *)
Abort(id) == Move(id, {"queued", "running", "canceled"}, "failed")

Cancel(id) == Move(id, {"queued", "running"}, "canceled")

Delete(id) ==
  /\ state[id] \in Ended
  /\ state'    = [state EXCEPT ![id] = "deleted"]
  /\ reported' = [reported EXCEPT ![id] = FALSE]

(* A restart fails whatever was queued or running, all at once *)
Recover ==
  /\ state' = [id \in Ids |-> IF state[id] \in {"queued", "running"} THEN "failed"
                                                                     ELSE state[id]]
  /\ UNCHANGED reported

Next ==
  \/ \E id \in Ids : \/ Create(id) \/ Begin(id) \/ Publish(id) \/ Finish(id)
                     \/ Abort(id) \/ Cancel(id) \/ Delete(id)
  \/ Recover

Spec == Init /\ [][Next]_vars
===============================================================================
