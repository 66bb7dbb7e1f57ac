-------------------------------- MODULE JobReport --------------------------------
(***************************************************************************)
(* The report of one job, from the engines to its readers: the loop over   *)
(* the engines and the persisting of internal/scan/runner.go:55-99 with    *)
(* the findings themselves, which ScanWorker abstracts to the engines that *)
(* reported any.  Store calls succeed here and nobody cancels; ScanWorker  *)
(* has the other ways.                                                     *)
(***************************************************************************)
EXTENDS ReportViews

CONSTANTS
  SemgrepReports,   \* the reports the engines may give
  TrivyReports,
  Sources,          \* the sets of source files a job may scan
  None              \* no summary yet

(* The name of an npm package: one part, or a scope and one *)
IsName(pkg) ==
  /\ pkg \in Seq(ToSet(pkg))
  /\ \/ Len(pkg) = 1 /\ pkg[1] \notin Scopes \cup Local
     \/ Len(pkg) = 2 /\ pkg[1] \in Scopes

(* Reports are lists of what lies at a line of a file; a vulnerable package has *)
(* a name, and that of an npm manifest a valid one; what is imported is not    *)
(* empty.                                                                    *)
ASSUME ReportAssumption ==
  /\ \A report \in SemgrepReports : report \in Seq(ToSet(report)) /\ \A r \in ToSet(report) :
       r.path \in DOMAIN Paths /\ r.line \in Nat
  /\ \A report \in TrivyReports : report \in Seq(ToSet(report)) /\ \A res \in ToSet(report) :
       /\ res.target \in DOMAIN Paths
       /\ \A list \in {res.vulns, res.secrets, res.misconfs} : list \in Seq(ToSet(list))
       /\ \A v \in ToSet(res.vulns) :
            v.name # <<>> /\ (Paths[res.target].lock => IsName(v.name))
       /\ \A x \in ToSet(res.secrets) \cup ToSet(res.misconfs) : x.line \in Nat
  /\ \A source \in Sources : \A file \in source : \A spec \in file.imports :
       spec # <<>> /\ spec \in Seq(ToSet(spec))

Engines == <<"semgrep", "trivy">>

VARIABLES
  files,       \* the source files fetched
  next,        \* the next engine
  all,         \* findings of the engines so far
  completed,   \* completedEngines
  errs,        \* engines that failed
  rows,        \* the rows of the findings table, in the order of their ids
  summary,     \* the row's summary and coverage, None before it is set
  reported     \* engines whose report had findings: ScanWorker's found

vars == <<files, next, all, completed, errs, rows, summary, reported>>

Init ==
  /\ files \in Sources
  /\ next = 1 /\ all = <<>> /\ completed = <<>> /\ errs = {} /\ rows = <<>>
  /\ summary = None /\ reported = {}

(* e.Available() is false: the engine is passed over *)
SkipEngine ==
  /\ next <= Len(Engines) /\ next' = next + 1
  /\ UNCHANGED <<files, all, completed, errs, rows, summary, reported>>

(* The engine exits with an error, or its output is too large or no JSON *)
EngineFails ==
  /\ next <= Len(Engines) /\ next' = next + 1
  /\ errs' = errs \cup {Engines[next]}
  /\ UNCHANGED <<files, all, completed, rows, summary, reported>>

EngineCompletes(found) ==
  /\ all' = all \o found
  /\ completed' = Append(completed, Engines[next])
  /\ reported' = IF found = <<>> THEN reported ELSE reported \cup {Engines[next]}
  /\ next' = next + 1
  /\ UNCHANGED <<files, errs, rows, summary>>

RunSemgrep ==
  /\ next <= Len(Engines) /\ Engines[next] = "semgrep"
  /\ \E report \in SemgrepReports : EngineCompletes(ParseSemgrep(report))

RunTrivy ==
  /\ next <= Len(Engines) /\ Engines[next] = "trivy"
  /\ \E report \in TrivyReports : EngineCompletes(ParseTrivy(report))

(* Seeded bug: what is summarized is not what was stored *)
Persist_countsAll ==
  /\ next > Len(Engines) /\ summary = None
  /\ rows' = Dedupe(TagReachability(all, files))
  /\ summary' = [counts |-> Summarize(all), engines |-> completed,
                 complete |-> Len(completed) = Len(Engines) /\ completed # <<>>]
  /\ UNCHANGED <<files, next, all, completed, errs, reported>>

(* Seeded bug: what failing engines are left with is dropped *)
Persist_onlyComplete ==
  /\ next > Len(Engines) /\ summary = None
  /\ rows' = IF errs = {} THEN Dedupe(TagReachability(all, files)) ELSE <<>>
  /\ summary' = [counts |-> Summarize(rows'), engines |-> completed,
                 complete |-> Len(completed) = Len(Engines) /\ completed # <<>>]
  /\ UNCHANGED <<files, next, all, completed, errs, reported>>

(* Tag, dedupe, insert, summarize *)
Persist ==
  /\ next > Len(Engines) /\ summary = None
  /\ rows' = Dedupe(TagReachability(all, files))
  /\ summary' = [counts |-> Summarize(rows'), engines |-> completed,
                 complete |-> Len(completed) = Len(Engines) /\ completed # <<>>]
  /\ UNCHANGED <<files, next, all, completed, errs, reported>>

Next == SkipEngine \/ EngineFails \/ RunSemgrep \/ RunTrivy \/ Persist

Spec == Init /\ [][Next]_vars
-------------------------------------------------------------------------------
Stored == summary # None

Everything(f) == TRUE

Listed == ListFindings(rows, Everything)

(* Two findings are one: the same advisory for the same version of a package   *)
(* in lockfiles side by side, or the same rule at the same place              *)
(* (runner.go:177-184).                                                      *)
SamePlace(f, g) == IF f.pkg # <<>> THEN Paths[f.path].dir = Paths[g.path].dir
                                   ELSE f.path = g.path /\ f.line = g.line
Same(f, g) ==
  /\ <<f.cat, f.rule, f.pkg, f.ver>> = <<g.cat, g.rule, g.pkg, g.ver>>
  /\ SamePlace(f, g)

(* Nothing any engine reported is lost, nothing is stored twice, and of equal  *)
(* findings the first one stands.                                            *)
DedupeExact ==
  Stored =>
    /\ \A i \in DOMAIN all : \E n \in DOMAIN rows : Same(rows[n], all[i])
    /\ \A m, n \in DOMAIN rows : Same(rows[m], rows[n]) => m = n
    /\ \A n \in DOMAIN rows : \E i \in DOMAIN all :
         /\ rows[n] = [all[i] EXCEPT !.usage = rows[n].usage]
         /\ \A j \in 1 .. i - 1 : ~Same(all[j], all[i])

(* The badges count the rows that are stored, and the tables and tiers of both *)
(* reports count the same: no finding is left out of any of them.             *)
RowTotal(r) == SumFunction(r.counts)

CountsAgree ==
  Stored =>
    /\ \A sev \in DOMAIN summary.counts :
         summary.counts[sev] = Len(ListFindings(rows, LAMBDA f : f.sev = sev))
    /\ SumFunction(summary.counts) = Len(rows)
    /\ FoldLeft(LAMBDA sum, r : sum + RowTotal(r), 0, Stats(Listed)) = Len(rows)

(* reportview.go:10-12, the web page and the PDF "tell the same story": the    *)
(* same sections with the same findings in the same order ...                *)
SameStory == Stored => WebTiers(Listed) = PdfTiers(Listed)

(* ... and the tiers tell all of it: each finding stands in one, and in a tier *)
(* the most severe come first and, of these, the direct dependencies that are  *)
(* used before those that seem not to be.                                    *)
TiersTell ==
  Stored =>
    LET shown == Each(PdfTiers(Listed), LAMBDA g : g.findings) IN
    /\ \A f \in ToSet(rows) : Cardinality({t \in DOMAIN shown : Contains(shown[t], f)}) = 1
    /\ \A t \in DOMAIN shown : \A i, j \in DOMAIN shown[t] :
         i < j => \/ Rank(shown[t][i].sev) < Rank(shown[t][j].sev)
                  \/ /\ shown[t][i].sev = shown[t][j].sev
                     /\ Closeness(shown[t][i]) <= Closeness(shown[t][j])

(* A SARIF log has every row once, in the run of its tool, and each result     *)
(* refers to a rule that its own run declares, once.                         *)
SarifComplete ==
  Stored =>
    LET runs == ToSARIF(Listed) IN
    /\ \A f \in ToSet(rows) : \E r \in ToSet(runs) :
         r.tool = f.tool /\ \E x \in ToSet(r.results) : x.of = f
    /\ FoldLeft(LAMBDA sum, r : sum + Len(r.results), 0, runs) = Len(rows)
    /\ \A r \in ToSet(runs) :
         /\ {x.rule : x \in ToSet(r.results)} = ToSet(r.rules)
         /\ Cardinality(ToSet(r.rules)) = Len(r.rules)

(* A dependency is called used exactly when a file of the project imports it   *)
(* or something below it, and only direct ones are called anything.           *)
Imported(pkg) ==
  \E f \in files : Scanned(f) /\ \E spec \in f.imports : IsPrefix(pkg, spec)

UsageHonest ==
  Stored => \A f \in ToSet(rows) :
    /\ f.usage = "used" => Imported(f.pkg)
    /\ f.usage = "unused_suspected" => ~Imported(f.pkg)
    /\ f.usage # "" <=> (f.rel = "direct" /\ Paths[f.path].lock)

(* One engine's failure discards nothing of the other's (runner.go:70), and    *)
(* dedupe never merges across engines: the tools of the stored rows are the    *)
(* engines that reported any, which is what ScanWorker keeps of them.         *)
EnginesRepresented ==
  Stored => {f.tool : f \in ToSet(rows)} = reported
===============================================================================
