------------------------------ MODULE SourceTree ------------------------------
(***************************************************************************)
(* How the tree a job scans gets on disk (internal/source): an uploaded    *)
(* archive unpacked entry by entry under a cap on the bytes written        *)
(* (archive.go), or a shallow clone that is stripped of .git and then      *)
(* measured against the same cap (git.go, source.go).  A file is           *)
(* abstracted to its size; zip and tar differ in their headers only.       *)
(* Directories, links and devices of an archive leave no file.             *)
(***************************************************************************)
EXTENDS Integers, FiniteSetsExt

CONSTANTS
  Names,      \* paths inside the tree
  Sizes,      \* the sizes a file can have
  MaxBytes,   \* Guards.MaxBytes; 0 is no cap
  Absent      \* no regular file at a path

ASSUME TreeAssumption ==
  IsFiniteSet(Names) /\ Sizes \subseteq Nat /\ MaxBytes \in Nat /\ Absent \notin Nat

Files == Nat \cup {Absent}

VARIABLES
  kind,     \* what is fetched: "archive" or "clone"
  pc,       \* where the fetch is
  disk,     \* size of the regular file at each path
  links,    \* paths that are symbolic links
  meta,     \* .git is on disk: of a clone with its credentials, or an archive's own
  written,  \* writeFileCapped: the running total
  held,     \* the last regular entry the archive has held for each path
  sent      \* bytes of all the regular entries met so far

treeVars == <<kind, pc, disk, links, meta, written, held, sent>>

Ended == {"done", "toolarge", "failed"}

TreeTypeOK ==
  /\ kind \in {"archive", "clone"}
  /\ pc \in {"start", "entries", "cloned", "stripped"} \cup Ended
  /\ disk \in [Names -> Files] /\ held \in [Names -> Files]
  /\ links \in SUBSET Names /\ meta \in BOOLEAN
  /\ written \in Nat /\ sent \in Nat

Empty == [n \in Names |-> Absent]

(* ensureEmptyDir: nothing is there before *)
TreeInit ==
  /\ kind \in {"archive", "clone"}
  /\ pc = "start" /\ disk = Empty /\ links = {} /\ meta = FALSE
  /\ written = 0 /\ held = Empty /\ sent = 0

Capped == MaxBytes > 0

(* dirSize: the bytes of the regular files *)
TreeBytes(tree) ==
  MapThenSumSet(LAMBDA n : IF tree[n] = Absent THEN 0 ELSE tree[n], Names)

-------------------------------------------------------------------------------
(* ExtractArchive                                                            *)

(* Seeded bug: the reader is limited to what is left of the cap, so an entry  *)
(* that passes it is cut short in silence                                    *)
Limit_exact(size) ==
  IF Capped /\ size > MaxBytes - written THEN MaxBytes - written ELSE size

(* Seeded bug: each entry is limited by the whole cap *)
Limit_each(size) ==
  IF Capped /\ size > MaxBytes + 1 THEN MaxBytes + 1 ELSE size

(* io.LimitReader, one byte past what is left: the bytes copied of an entry *)
Limit(size) ==
  IF Capped /\ size > MaxBytes - written + 1 THEN MaxBytes - written + 1 ELSE size

(* Seeded bug: an archive that meets the cap exactly is refused *)
Over_atCap(total) == Capped /\ total >= MaxBytes

Over(total) == Capped /\ total > MaxBytes

OpenArchive ==
  /\ kind = "archive" /\ pc = "start" /\ pc' = "entries"
  /\ UNCHANGED <<kind, disk, links, meta, written, held, sent>>

(* writeFileCapped; a second entry of a name truncates the first.  A path      *)
(* below .git is one like any other.                                         *)
FileEntry(name, size) ==
  /\ pc = "entries"
  /\ disk' = [disk EXCEPT ![name] = Limit(size)]
  /\ written' = written + Limit(size)
  /\ pc' = IF Over(written') THEN "toolarge" ELSE "entries"
  /\ held' = [held EXCEPT ![name] = size] /\ sent' = sent + size
  /\ meta' \in {meta, TRUE}
  /\ UNCHANGED <<kind, links>>

(* The copy fails part of the way: the running total is returned as it was *)
BrokenEntry(name, size) ==
  /\ pc = "entries" /\ pc' = "failed"
  /\ \E n \in 0 .. Limit(size) : disk' = [disk EXCEPT ![name] = n]
  /\ held' = [held EXCEPT ![name] = size] /\ sent' = sent + size
  /\ meta' \in {meta, TRUE}
  /\ UNCHANGED <<kind, links, written>>

(* A bad header, a name outside the tree, a directory that cannot be made, a  *)
(* context that is done; or the end of the archive                           *)
EndArchive ==
  /\ pc = "entries" /\ pc' \in {"done", "failed"}
  /\ UNCHANGED <<kind, disk, links, meta, written, held, sent>>

-------------------------------------------------------------------------------
(* cloneGit                                                                  *)

(* git writes the whole tree, links and .git, or fails somewhere; then HEAD    *)
(* and its branch are read                                                   *)
Clone ==
  /\ kind = "clone" /\ pc = "start" /\ pc' \in {"cloned", "failed"}
  /\ \E regular \in SUBSET Names :
       /\ disk' \in {[n \in Names |-> IF n \in regular THEN size[n] ELSE Absent] :
                       size \in [regular -> Sizes]}
       /\ links' \in SUBSET (Names \ regular)
  /\ meta' = TRUE
  /\ UNCHANGED <<kind, written, held, sent>>

(* Seeded bug: an error of RemoveAll is ignored *)
Strip_goesOn ==
  /\ pc = "cloned" /\ pc' = "stripped" /\ meta' \in BOOLEAN
  /\ UNCHANGED <<kind, disk, links, written, held, sent>>

Strip ==
  /\ pc = "cloned"
  /\ \/ pc' = "stripped" /\ meta' = FALSE
     \/ pc' = "failed" /\ UNCHANGED meta
  /\ UNCHANGED <<kind, disk, links, written, held, sent>>

(* Seeded bug: the sizes of the files are compared one by one *)
Measure_each ==
  /\ pc = "stripped"
  /\ pc' = IF \E n \in Names : disk[n] # Absent /\ Over(disk[n]) THEN "toolarge" ELSE "done"
  /\ UNCHANGED <<kind, disk, links, meta, written, held, sent>>

(* enforceSize; the walk may meet an error *)
Measure ==
  /\ pc = "stripped"
  /\ \/ pc' = IF Over(TreeBytes(disk)) THEN "toolarge" ELSE "done"
     \/ Capped /\ pc' = "failed"
  /\ UNCHANGED <<kind, disk, links, meta, written, held, sent>>

Archive == OpenArchive \/ EndArchive
           \/ \E n \in Names, size \in Sizes : FileEntry(n, size) \/ BrokenEntry(n, size)

FetchTree == Archive \/ Clone \/ Strip \/ Measure

TreeSpec == TreeInit /\ [][FetchTree]_treeVars
-------------------------------------------------------------------------------
(* An archive is unpacked whole or refused: the cap never leaves an entry cut  *)
(* short in a tree that goes on to be scanned (archive.go:163-167).           *)
DoneIsWhole == kind = "archive" /\ pc \in {"entries", "done"} => disk = held

(* ... and is refused for its size only when it is over it: one that meets the *)
(* cap exactly is fine (archive.go:165), and so is such a clone.              *)
RefusedRightly ==
  pc = "toolarge" => (IF kind = "archive" THEN sent ELSE TreeBytes(disk)) > MaxBytes

(* ExtractArchive's promise (archive.go:20-21): whatever the archive holds and *)
(* however the extraction ends, no more than the cap and a byte is on disk.   *)
DiskBounded == Capped /\ kind = "archive" => TreeBytes(disk) <= MaxBytes + 1

(* What is handed to the engines meets the cap however it was fetched          *)
(* (source.go:3-5), and nothing of a clone's .git is left for them to read     *)
(* (git.go:149-155); an archive's is scanned with the rest of it.             *)
ScannedTreeMeets ==
  pc = "done" => /\ Capped => TreeBytes(disk) <= MaxBytes
                 /\ kind = "clone" => ~meta
===============================================================================
