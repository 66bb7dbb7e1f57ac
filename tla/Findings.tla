-------------------------------- MODULE Findings --------------------------------
(***************************************************************************)
(* What is computed from the reports of the engines before a job's         *)
(* findings are stored, and in which order they are read back: the parsing *)
(* of internal/engine, the reachability tags of internal/reach and the     *)
(* functions of internal/scan/runner.go, as operators on findings.         *)
(*                                                                         *)
(* A path is its number in Paths, which is sorted as the database sorts    *)
(* names.  A package name is the sequence of its parts ("@scope", "name"), *)
(* an import specifier the sequence of what stands between its slashes;    *)
(* <<>> is the empty string.  Titles, messages and CWEs are left out, and  *)
(* so are licenses, a scanner that is off (trivy.go:27).                   *)
(***************************************************************************)
EXTENDS Naturals, SequencesExt, FiniteSetsExt

CONSTANTS
  Paths,        \* sequence of [dir, lock]: the directory; is it an npm manifest
  Scopes,       \* first parts of scoped packages, "@nuxt"
  Local,        \* first parts of local imports, "." and the like
  CustomRules   \* rules whose id starts with "rules.custom."

ASSUME FindingsAssumption == Scopes \cap Local = {} /\ Paths \in Seq(ToSet(Paths))

Severities == <<"critical", "high", "medium", "low", "info">>

(* Seeded bug: a token that is not known is passed on as it is *)
NormSeverity_passes(token) ==
  CASE token = "CRITICAL" -> "critical"
    [] token \in {"HIGH", "ERROR"} -> "high"
    [] token \in {"MEDIUM", "WARNING"} -> "medium"
    [] token = "LOW" -> "low"
    [] OTHER -> token

NormSeverity(token) ==
  CASE token = "CRITICAL" -> "critical"
    [] token \in {"HIGH", "ERROR"} -> "high"
    [] token \in {"MEDIUM", "WARNING"} -> "medium"
    [] token = "LOW" -> "low"
    [] OTHER -> "info"

NormRelationship(token) ==
  CASE token \in {"direct", "root", "workspace"} -> "direct"
    [] token = "indirect" -> "indirect"
    [] OTHER -> ""

-------------------------------------------------------------------------------
(* parseSemgrep and parseTrivy                                               *)

Finding(tool, cat, sev, rule, path, line) ==
  [tool |-> tool, cat |-> cat, sev |-> NormSeverity(sev), rule |-> rule,
   path |-> path, line |-> line, pkg |-> <<>>, ver |-> "", rel |-> "", usage |-> ""]

Each(seq, Op(_)) == [i \in DOMAIN seq |-> Op(seq[i])]

ParseSemgrep(report) ==
  Each(report, LAMBDA r : Finding("semgrep", "sast", r.sev, r.rule, r.path, r.line))

(* The map from a package, by its id or its name@version, to how the project   *)
(* depends on it; a later package of the list overwrites an earlier one.      *)
RelOf(packages, ref) ==
  LET named == SelectSeq(packages, LAMBDA p :
                 /\ NormRelationship(p.rel) # ""
                 /\ ref # <<>> /\ ref \in {p.id, <<p.name, p.ver>>})
  IN  IF named = <<>> THEN "" ELSE NormRelationship(named[Len(named)].rel)

Relationship(packages, v) ==
  LET byId == RelOf(packages, v.pkgid)
  IN  IF byId # "" THEN byId ELSE RelOf(packages, <<v.name, v.ver>>)

ParseTrivyResult(res) ==
  Each(res.vulns, LAMBDA v :
         [Finding("trivy", "sca", v.sev, v.rule, res.target, 0) EXCEPT
            !.pkg = v.name, !.ver = v.ver, !.rel = Relationship(res.packages, v)])
  \o Each(res.secrets, LAMBDA s : Finding("trivy", "secret", s.sev, s.rule, res.target, s.line))
  \o Each(res.misconfs, LAMBDA m : Finding("trivy", "iac", m.sev, m.rule, res.target, m.line))

ParseTrivy(report) == FlattenSeq(Each(report, ParseTrivyResult))

-------------------------------------------------------------------------------
(* reach.go, tagReachability                                                 *)

(* Seeded bug: the scope is not part of the name *)
PackageOf_unscoped(spec) == IF spec[1] \in Local THEN <<>> ELSE <<spec[1]>>

(* The package an import specifier names, <<>> for a local import *)
PackageOf(spec) ==
  IF spec[1] \in Local THEN <<>>
  ELSE IF spec[1] \notin Scopes THEN <<spec[1]>>
  ELSE IF Len(spec) >= 2 THEN SubSeq(spec, 1, 2) ELSE <<>>

(* The project's own source files: neither installed nor built, a JavaScript   *)
(* extension, no larger than maxFileBytes, and readable.                     *)
Scanned(file) == ~file.installed /\ file.js /\ ~file.large

UsedNPMPackages(files) ==
  {PackageOf(spec) : spec \in UNION {f.imports : f \in {f \in files : Scanned(f)}}} \ {<<>>}

IsDirectNPM(f) == f.rel = "direct" /\ f.pkg # <<>> /\ Paths[f.path].lock

(* The walk skips what it cannot read and so never fails *)
TagReachability(fs, files) ==
  Each(fs, LAMBDA f :
    IF ~IsDirectNPM(f) THEN f
    ELSE [f EXCEPT !.usage = IF f.pkg \in UsedNPMPackages(files) THEN "used"
                                                                 ELSE "unused_suspected"])

-------------------------------------------------------------------------------
(* dedupe, summarize                                                         *)

(* Seeded bug: the directory of the lockfile is not part of the key *)
Key_noDir(f) ==
  IF f.pkg # <<>> THEN <<"pkg", f.cat, f.rule, f.pkg, f.ver>>
                  ELSE <<"code", f.cat, f.rule, f.path, f.line, "">>

Key(f) ==
  IF f.pkg # <<>> THEN <<"pkg", f.cat, f.rule, f.pkg, f.ver, Paths[f.path].dir>>
                  ELSE <<"code", f.cat, f.rule, f.path, f.line>>

Dedupe(fs) ==
  FoldLeft(LAMBDA out, f : IF \E g \in ToSet(out) : Key(g) = Key(f) THEN out ELSE Append(out, f),
           <<>>, fs)

Count(fs, Test(_)) == Cardinality({i \in DOMAIN fs : Test(fs[i])})

Summarize(fs) ==
  [critical |-> Count(fs, LAMBDA f : f.sev = "critical"),
   high     |-> Count(fs, LAMBDA f : f.sev = "high"),
   medium   |-> Count(fs, LAMBDA f : f.sev = "medium"),
   low      |-> Count(fs, LAMBDA f : f.sev = "low"),
   info     |-> Count(fs, LAMBDA f : f.sev \notin {"critical", "high", "medium", "low"})]

-------------------------------------------------------------------------------
(* ListFindings: the rows come back in an order, narrowed by a filter        *)

Rank(sev) == CHOOSE n \in 1 .. 5 : Severities[n] = sev \/ (n = 5 /\ sev \notin ToSet(Severities))

Closeness(f) ==
  IF f.rel = "direct" /\ f.usage # "unused_suspected" THEN 0
  ELSE IF f.rel = "direct" THEN 1 ELSE 2

(* Lexicographic order of two sequences of numbers of one length *)
Precedes(s, t) ==
  \E n \in DOMAIN s : s[n] < t[n] /\ \A m \in 1 .. n - 1 : s[m] = t[m]

(* What fs holds at the places of S, in an order given by its pairs: the one  *)
(* with n others before it comes after n others.                             *)
Arrange(fs, S, before) ==
  LET At(n) == CHOOSE i \in S : Cardinality({j \in S : <<j, i>> \in before}) = n - 1
  IN  [n \in 1 .. Cardinality(S) |-> fs[At(n)]]

(* Those that pass the test, in the order they come in *)
Where(fs, Test(_)) ==
  LET S == {i \in DOMAIN fs : Test(fs[i])}
  IN  Arrange(fs, S, {p \in S \X S : p[1] < p[2]})

(* fs in the order of what By says of each finding; By ends in its number *)
SortedBy(fs, By(_)) ==
  Arrange(fs, DOMAIN fs, {p \in (DOMAIN fs) \X (DOMAIN fs) : Precedes(By(p[1]), By(p[2]))})

ByRank(rows) ==
  SortedBy(rows, LAMBDA i : <<Rank(rows[i].sev), Closeness(rows[i]),
                              rows[i].path, rows[i].line, i>>)

ListFindings(rows, Filter(_)) == Where(ByRank(rows), Filter)
===============================================================================
