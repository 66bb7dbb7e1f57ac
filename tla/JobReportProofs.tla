----------------------------- MODULE JobReportProofs -----------------------------
(***************************************************************************)
(* Theorems about JobReport, for any reports of any length, any paths,     *)
(* scopes and source trees: what dedupe stores (Deduped, by induction on   *)
(* the list), what the parsers can give it (Good), and what the tags of    *)
(* reach.go say of it (Tagged).  The invariant, Stays, says that what has  *)
(* been found is good, that the rows are what dedupe makes of it, and that *)
(* the summary counts them.  The rest is about what readers are shown:     *)
(* the list is a rearrangement of the rows (ListedPlaces), a tier one of   *)
(* what is in it (SectionTells), the page's loop builds the sections the   *)
(* PDF has (Shown), the counts are sums over disjoint sets (RowTotals),    *)
(* and each step of the SARIF loop files one finding (ToldFiled).          *)
(***************************************************************************)
EXTENDS JobReport, FoldTheorems, SequenceTheorems

(* One more finding for the rows *)
Kept(out, f) == IF \E g \in ToSet(out) : Key(g) = Key(f) THEN out ELSE Append(out, f)

LEMMA DedupeUnfolds ==
  ASSUME NEW fs
  PROVE  \E f : /\ Dedupe(fs) = f[DOMAIN fs]
                /\ f = CHOOSE g : g = [s \in SUBSET DOMAIN fs |->
                         IF s = {} THEN <<>> ELSE Kept(g[s \ {Top(s)}], fs[Top(s)])]
BY Zenon DEF Dedupe, FoldLeft, MapThenFoldSet, Max, Top, Kept

LEMMA DedupeSteps ==
  ASSUME NEW S, NEW fs \in Seq(S), NEW n \in Nat, n = Len(fs)
  PROVE  \E r : /\ r[0] = <<>> /\ r[n] = Dedupe(fs)
                /\ \A k \in Nat : k < n => r[k + 1] = Kept(r[k], fs[k + 1])
<1> DEFINE A == Seq(S)
           G == [p \in (1 .. n) \X A |-> Kept(p[2], fs[p[1]])]
           E(g) == [s \in SUBSET DOMAIN fs |->
                      IF s = {} THEN <<>> ELSE Kept(g[s \ {Top(s)}], fs[Top(s)])]
<1>0. DOMAIN fs = 1 .. n /\ \A i \in 1 .. n : fs[i] \in S
  OBVIOUS
<1>1. PICK f : Dedupe(fs) = f[DOMAIN fs] /\ f = CHOOSE g : g = E(g)
  BY DedupeUnfolds
<1>2. <<>> \in A
  OBVIOUS
<1>3. G \in [(1 .. n) \X A -> A]
      /\ \A i \in 1 .. n, a \in A : G[<<i, a>>] = Kept(a, fs[i])
  <2>1. \A p \in (1 .. n) \X A : Kept(p[2], fs[p[1]]) \in A
    BY <1>0 DEF Kept
  <2> HIDE DEF A
  <2>2. QED BY <2>1
<1>4. PICK h \in [SUBSET (1 .. n) -> A] : LeftFold(h, n, <<>>, G)
  <2> HIDE DEF G, A
  <2>1. QED BY <1>2, <1>3, LeftFoldExists
<1>5. h = E(h)
  <2>1. ASSUME NEW s \in SUBSET (1 .. n), s # {}
        PROVE  h[s] = Kept(h[s \ {Top(s)}], fs[Top(s)])
    <3>1. Top(s) \in 1 .. n
      BY <2>1, TopIn
    <3>2. h[s] = G[<<Top(s), h[s \ {Top(s)}]>>]
      BY <1>4, <2>1 DEF LeftFold
    <3> HIDE DEF G, A
    <3>3. h[s \ {Top(s)}] \in A
      OBVIOUS
    <3>4. QED BY <1>3, <3>1, <3>2, <3>3
  <2>2. h[{}] = <<>>
    BY <1>4 DEF LeftFold
  <2> HIDE DEF G, A
  <2>3. QED BY <1>0, <2>1, <2>2
<1>6. f = E(f)
  <2> HIDE DEF E
  <2>1. QED BY <1>1, <1>5
<1> DEFINE r == [k \in Nat |-> f[1 .. k]]
<1>7. r[0] = <<>> /\ r[n] = Dedupe(fs)
  <2>1. 1 .. 0 = {} /\ {} \in SUBSET (1 .. n)
    OBVIOUS
  <2>2. f[1 .. 0] = <<>>
    BY <1>0, <1>6, <2>1
  <2>3. QED BY <1>0, <1>1, <2>2
<1>8. ASSUME NEW k \in Nat, k < n PROVE r[k + 1] = Kept(r[k], fs[k + 1])
  <2>1. 1 .. k + 1 \in SUBSET (1 .. n) /\ 1 .. k + 1 # {} /\ (1 .. k + 1) \ {k + 1} = 1 .. k
    BY <1>8, IntervalLess
  <2>2. Top(1 .. k + 1) = k + 1
    BY TopOfInterval
  <2>3. f[1 .. k + 1] = Kept(f[1 .. k], fs[k + 1])
    BY <1>0, <1>6, <2>1, <2>2
  <2>4. QED BY <2>3
<1>9. QED BY <1>7, <1>8

(* The rows out hold, of the first k findings, one of each key: the first *)
Reduced(out, fs, k) ==
  /\ \A i \in 1 .. k : \E n \in 1 .. Len(out) : Key(out[n]) = Key(fs[i])
  /\ \A m, n \in 1 .. Len(out) : Key(out[m]) = Key(out[n]) => m = n
  /\ \A n \in 1 .. Len(out) : \E i \in 1 .. k :
       out[n] = fs[i] /\ \A j \in 1 .. i - 1 : Key(fs[j]) # Key(fs[i])

LEMMA KeepsOne ==
  ASSUME NEW S, NEW out \in Seq(S), NEW fs \in Seq(S), NEW k \in Nat, k < Len(fs),
         Reduced(out, fs, k)
  PROVE  Kept(out, fs[k + 1]) \in Seq(S) /\ Reduced(Kept(out, fs[k + 1]), fs, k + 1)
<1> DEFINE f == fs[k + 1]
<1>1. f \in S /\ Len(out) \in Nat /\ ToSet(out) = {out[n] : n \in 1 .. Len(out)}
  BY DEF ToSet
<1>2. \A i \in 1 .. k + 1 : i \in 1 .. k \/ i = k + 1
  OBVIOUS
<1>3. 1 .. k \subseteq 1 .. k + 1 /\ k + 1 \in 1 .. k + 1 /\ 1 .. (k + 1) - 1 = 1 .. k
  OBVIOUS
<1>4. CASE \E g \in ToSet(out) : Key(g) = Key(f)
  <2>1. Kept(out, f) = out
    BY <1>4 DEF Kept
  <2>2. \E n \in 1 .. Len(out) : Key(out[n]) = Key(f)
    BY <1>1, <1>4
  <2>3. QED BY <1>2, <1>3, <2>1, <2>2 DEF Reduced
<1>5. CASE ~ \E g \in ToSet(out) : Key(g) = Key(f)
  <2> DEFINE new == Append(out, f)
             l == Len(out)
  <2>1. Kept(out, f) = new
    BY <1>5 DEF Kept
  <2>2. /\ new \in Seq(S) /\ Len(new) = l + 1
        /\ \A n \in 1 .. l : new[n] = out[n]
        /\ new[l + 1] = f
    BY <1>1, AppendProperties
  <2>3. \A n \in 1 .. l : Key(out[n]) # Key(f)
    BY <1>1, <1>5
  <2>4. \A n \in 1 .. l + 1 : n \in 1 .. l \/ n = l + 1
    BY <1>1
  <2>5. 1 .. l \subseteq 1 .. l + 1 /\ l + 1 \in 1 .. l + 1
    BY <1>1
  <2> HIDE DEF new, l, f
  <2>6. \A i \in 1 .. k + 1 : \E n \in 1 .. l + 1 : Key(new[n]) = Key(fs[i])
    BY <1>2, <2>2, <2>5 DEF Reduced, f, l
  <2>7. \A m, n \in 1 .. l + 1 : Key(new[m]) = Key(new[n]) => m = n
    BY <2>2, <2>3, <2>4 DEF Reduced, l
  <2>8. \A j \in 1 .. k : Key(fs[j]) # Key(f)
    BY <2>3 DEF Reduced, l
  <2>9. \A n \in 1 .. l + 1 : \E i \in 1 .. k + 1 :
          new[n] = fs[i] /\ \A j \in 1 .. i - 1 : Key(fs[j]) # Key(fs[i])
    <3>1. ASSUME NEW n \in 1 .. l
          PROVE  \E i \in 1 .. k + 1 :
                   new[n] = fs[i] /\ \A j \in 1 .. i - 1 : Key(fs[j]) # Key(fs[i])
      BY <1>3, <2>2 DEF Reduced, l
    <3>2. new[l + 1] = fs[k + 1] /\ \A j \in 1 .. (k + 1) - 1 : Key(fs[j]) # Key(fs[k + 1])
      BY <1>3, <2>2, <2>8 DEF f
    <3>3. QED BY <1>3, <2>4, <3>1, <3>2
  <2>10. QED BY <2>1, <2>2, <2>6, <2>7, <2>9 DEF Reduced, f
<1>6. QED BY <1>4, <1>5

(* dedupe keeps the first finding of each key, and nothing else *)
THEOREM Deduped ==
  ASSUME NEW S, NEW fs \in Seq(S)
  PROVE  Dedupe(fs) \in Seq(S) /\ Reduced(Dedupe(fs), fs, Len(fs))
<1> DEFINE n == Len(fs)
<1>1. n \in Nat
  OBVIOUS
<1> HIDE DEF n
<1>2. PICK r : /\ r[0] = <<>> /\ r[n] = Dedupe(fs)
               /\ \A k \in Nat : k < n => r[k + 1] = Kept(r[k], fs[k + 1])
  BY <1>1, DedupeSteps DEF n
<1> DEFINE P == {k \in Nat : r[k] \in Seq(S) /\ Reduced(r[k], fs, k)}
<1>3. 0 \in P
  <2>1. <<>> \in Seq(S) /\ Len(<<>>) = 0 /\ 1 .. 0 = {}
    OBVIOUS
  <2>2. Reduced(<<>>, fs, 0)
    BY <2>1 DEF Reduced
  <2>3. QED BY <1>2, <2>1, <2>2
<1>4. ASSUME NEW k \in Nat, k < n, k \in P PROVE k + 1 \in P
  BY <1>2, <1>4, KeepsOne DEF n
<1>5. n \in P
  <2> HIDE DEF P
  <2>1. QED BY <1>1, <1>3, <1>4, InductionUpTo
<1>6. QED BY <1>2, <1>5 DEF n

-------------------------------------------------------------------------------
(* What the parsers give                                                     *)

IsList(s) == s \in Seq(ToSet(s))

(* A finding as an engine's parser makes it, its usage aside *)
Shape(f) ==
  /\ f = [tool |-> f.tool, cat |-> f.cat, sev |-> f.sev, rule |-> f.rule, path |-> f.path,
          line |-> f.line, pkg |-> f.pkg, ver |-> f.ver, rel |-> f.rel, usage |-> f.usage]
  /\ f.sev \in ToSet(Severities) /\ f.cat \in ToSet(Categories)
  /\ f.path \in Nat /\ f.line \in Nat
  /\ f.tool \in {"semgrep", "trivy"} /\ (f.cat = "sast" <=> f.tool = "semgrep")
  /\ f.pkg = <<>> => f.ver = "" /\ f.rel = ""
  /\ f.pkg # <<>> /\ Paths[f.path].lock => IsName(f.pkg)

Good(f) == Shape(f) /\ f.usage = ""

(* The findings of one engine *)
From(tool, fs) == IsList(fs) /\ \A f \in ToSet(fs) : Good(f) /\ f.tool = tool

LEMMA ListType ==
  ASSUME NEW S, NEW s \in Seq(S)
  PROVE  IsList(s) /\ Len(s) \in Nat /\ DOMAIN s = 1 .. Len(s)
         /\ ToSet(s) = {s[i] : i \in 1 .. Len(s)}
<1>1. Len(s) \in Nat /\ DOMAIN s = 1 .. Len(s) /\ s = [i \in 1 .. Len(s) |-> s[i]]
  OBVIOUS
<1>2. ToSet(s) = {s[i] : i \in 1 .. Len(s)}
  BY <1>1 DEF ToSet
<1>3. s \in [1 .. Len(s) -> ToSet(s)]
  BY <1>1, <1>2
<1>4. s \in Seq(ToSet(s))
  BY <1>1, <1>3
<1>5. QED BY <1>1, <1>2, <1>4 DEF IsList

LEMMA EachFrom ==
  ASSUME NEW tool, NEW n \in Nat, NEW e, e = [i \in 1 .. n |-> e[i]],
         \A i \in 1 .. n : Good(e[i]) /\ e[i].tool = tool
  PROVE  From(tool, e)
<1> DEFINE S == {e[i] : i \in 1 .. n}
<1>1. e \in [1 .. n -> S]
  OBVIOUS
<1>2. e \in Seq(S) /\ Len(e) = n
  <2> HIDE DEF S
  <2>1. QED BY <1>1
<1>3. IsList(e) /\ ToSet(e) = S
  BY <1>2, ListType
<1>4. QED BY <1>3 DEF From

LEMMA Concatenated ==
  ASSUME NEW s, IsList(s), NEW t, IsList(t)
  PROVE  IsList(s \o t) /\ ToSet(s \o t) = ToSet(s) \cup ToSet(t)
<1> DEFINE S == ToSet(s) \cup ToSet(t)
           st == s \o t
<1>1. s \in Seq(S) /\ t \in Seq(S)
  BY DEF IsList
<1>2. /\ Len(s) \in Nat /\ ToSet(s) = {s[i] : i \in 1 .. Len(s)}
      /\ Len(t) \in Nat /\ ToSet(t) = {t[i] : i \in 1 .. Len(t)}
  BY <1>1, ListType
<1> HIDE DEF S
<1>3. /\ st \in Seq(S) /\ Len(st) = Len(s) + Len(t)
      /\ \A i \in 1 .. Len(s) : st[i] = s[i]
      /\ \A i \in 1 .. Len(t) : st[Len(s) + i] = t[i]
  BY <1>1, <1>2
<1>4. IsList(st) /\ ToSet(st) = {st[i] : i \in 1 .. Len(st)}
  BY <1>3, ListType
<1> HIDE DEF st
<1>5. /\ \A i \in 1 .. Len(st) : i \in 1 .. Len(s) \/ i - Len(s) \in 1 .. Len(t)
      /\ \A i \in 1 .. Len(s) : i \in 1 .. Len(st)
      /\ \A i \in 1 .. Len(t) : Len(s) + i \in 1 .. Len(st)
      /\ \A i \in 1 .. Len(st) : Len(s) + (i - Len(s)) = i
  BY <1>2, <1>3
<1>6. ToSet(st) \subseteq ToSet(s) \cup ToSet(t)
  <2> SUFFICES ASSUME NEW i \in 1 .. Len(st) PROVE st[i] \in ToSet(s) \cup ToSet(t)
    BY <1>4
  <2>1. CASE i \in 1 .. Len(s)
    BY <1>2, <1>3, <2>1
  <2>2. CASE i - Len(s) \in 1 .. Len(t)
    <3>1. st[Len(s) + (i - Len(s))] = t[i - Len(s)]
      BY <1>3, <2>2
    <3>2. st[i] = t[i - Len(s)]
      BY <1>5, <3>1
    <3>3. QED BY <1>2, <2>2, <3>2
  <2>3. QED BY <1>5, <2>1, <2>2
<1>7. ToSet(s) \cup ToSet(t) \subseteq ToSet(st)
  BY <1>2, <1>3, <1>4, <1>5
<1>8. QED BY <1>4, <1>6, <1>7 DEF st

LEMMA Tokens ==
  /\ ToSet(Severities) = {"critical", "high", "medium", "low", "info"}
  /\ ToSet(Categories) = {"sca", "sast", "iac", "secret"}
  /\ \A token : NormSeverity(token) \in ToSet(Severities)
  /\ DOMAIN Paths \subseteq Nat
<1>1. ToSet(Severities) = {"critical", "high", "medium", "low", "info"}
  BY DEF ToSet, Severities
<1>2. ToSet(Categories) = {"sca", "sast", "iac", "secret"}
  BY DEF ToSet, Categories
<1>3. \A token : NormSeverity(token) \in ToSet(Severities)
  BY <1>1 DEF NormSeverity
<1>4. DOMAIN Paths \subseteq Nat
  <2>1. Paths \in Seq(ToSet(Paths))
    BY FindingsAssumption DEF FindingsAssumption
  <2>2. QED BY <2>1
<1>5. QED BY <1>1, <1>2, <1>3, <1>4

LEMMA SemgrepFrom ==
  ASSUME NEW report \in SemgrepReports
  PROVE  From("semgrep", ParseSemgrep(report))
<1>1. report \in Seq(ToSet(report))
      /\ \A r \in ToSet(report) : r.path \in DOMAIN Paths /\ r.line \in Nat
  BY ReportAssumption DEF ReportAssumption
<1> DEFINE e == ParseSemgrep(report)
           n == Len(report)
<1>2. n \in Nat /\ DOMAIN report = 1 .. n
  BY <1>1
<1>3. e = [i \in 1 .. n |-> Finding("semgrep", "sast", report[i].sev, report[i].rule,
                                    report[i].path, report[i].line)]
  BY <1>2 DEF ParseSemgrep, Each
<1>4. e = [i \in 1 .. n |-> e[i]]
  BY <1>3
<1> HIDE DEF e, n
<1>5. ASSUME NEW i \in 1 .. n PROVE Good(e[i]) /\ e[i].tool = "semgrep"
  <2>1. report[i].path \in Nat /\ report[i].line \in Nat
    BY <1>1, <1>2, Tokens DEF ToSet
  <2>2. NormSeverity(report[i].sev) \in ToSet(Severities) /\ "sast" \in ToSet(Categories)
    BY Tokens
  <2>3. QED BY <1>3, <2>1, <2>2 DEF Good, Shape, Finding
<1>6. QED BY <1>2, <1>4, <1>5, EachFrom DEF e

LEMMA TrivyResultFrom ==
  ASSUME NEW report \in TrivyReports, NEW res \in ToSet(report)
  PROVE  From("trivy", ParseTrivyResult(res))
<1> DEFINE vulns == [i \in 1 .. Len(res.vulns) |->
                       [Finding("trivy", "sca", res.vulns[i].sev, res.vulns[i].rule, res.target, 0)
                          EXCEPT !.pkg = res.vulns[i].name, !.ver = res.vulns[i].ver,
                                 !.rel = Relationship(res.packages, res.vulns[i])]]
           secrets == [i \in 1 .. Len(res.secrets) |->
                         Finding("trivy", "secret", res.secrets[i].sev, res.secrets[i].rule,
                                 res.target, res.secrets[i].line)]
           misconfs == [i \in 1 .. Len(res.misconfs) |->
                          Finding("trivy", "iac", res.misconfs[i].sev, res.misconfs[i].rule,
                                  res.target, res.misconfs[i].line)]
<1>1. /\ res.vulns \in Seq(ToSet(res.vulns)) /\ res.secrets \in Seq(ToSet(res.secrets))
      /\ res.misconfs \in Seq(ToSet(res.misconfs))
      /\ \A v \in ToSet(res.vulns) : v.name # <<>> /\ (Paths[res.target].lock => IsName(v.name))
      /\ \A x \in ToSet(res.secrets) \cup ToSet(res.misconfs) : x.line \in Nat
      /\ res.target \in DOMAIN Paths
  BY ReportAssumption DEF ReportAssumption
<1>2. /\ Len(res.vulns) \in Nat /\ DOMAIN res.vulns = 1 .. Len(res.vulns)
      /\ Len(res.secrets) \in Nat /\ DOMAIN res.secrets = 1 .. Len(res.secrets)
      /\ Len(res.misconfs) \in Nat /\ DOMAIN res.misconfs = 1 .. Len(res.misconfs)
  BY <1>1
<1>3. ParseTrivyResult(res) = vulns \o secrets \o misconfs
  BY <1>2 DEF ParseTrivyResult, Each
<1>0. /\ \A token : NormSeverity(token) \in ToSet(Severities)
      /\ "sca" \in ToSet(Categories) /\ "secret" \in ToSet(Categories) /\ "iac" \in ToSet(Categories)
      /\ res.target \in Nat /\ 0 \in Nat
  BY <1>1, Tokens
<1>4. From("trivy", vulns)
  <2>1. vulns = [i \in 1 .. Len(res.vulns) |-> vulns[i]]
    OBVIOUS
  <2>2. ASSUME NEW i \in 1 .. Len(res.vulns) PROVE Good(vulns[i]) /\ vulns[i].tool = "trivy"
    <3>1. res.vulns[i] \in ToSet(res.vulns)
      BY <1>2 DEF ToSet
    <3>2. res.vulns[i].name # <<>> /\ (Paths[res.target].lock => IsName(res.vulns[i].name))
      BY <1>1, <3>1
    <3>3. PICK f : f = vulns[i]
      OBVIOUS
    <3>4. f = [tool |-> "trivy", cat |-> "sca", sev |-> NormSeverity(res.vulns[i].sev),
               rule |-> res.vulns[i].rule, path |-> res.target, line |-> 0,
               pkg |-> res.vulns[i].name, ver |-> res.vulns[i].ver,
               rel |-> Relationship(res.packages, res.vulns[i]), usage |-> ""]
      BY <3>3 DEF Finding
    <3> HIDE DEF vulns
    <3>5. Shape(f)
      BY <1>0, <3>2, <3>4 DEF Shape
    <3>6. Good(f) /\ f.tool = "trivy"
      BY <3>4, <3>5 DEF Good
    <3>7. QED BY <3>3, <3>6
  <2> HIDE DEF vulns
  <2>3. QED BY <1>2, <2>1, <2>2, EachFrom
<1>5. From("trivy", secrets)
  <2>1. secrets = [i \in 1 .. Len(res.secrets) |-> secrets[i]]
    OBVIOUS
  <2>2. ASSUME NEW i \in 1 .. Len(res.secrets)
        PROVE  Good(secrets[i]) /\ secrets[i].tool = "trivy"
    <3>1. res.secrets[i].line \in Nat
      BY <1>1, <1>2 DEF ToSet
    <3>2. QED BY <1>0, <3>1 DEF Good, Shape, Finding
  <2> HIDE DEF secrets
  <2>3. QED BY <1>2, <2>1, <2>2, EachFrom
<1>6. From("trivy", misconfs)
  <2>1. misconfs = [i \in 1 .. Len(res.misconfs) |-> misconfs[i]]
    OBVIOUS
  <2>2. ASSUME NEW i \in 1 .. Len(res.misconfs)
        PROVE  Good(misconfs[i]) /\ misconfs[i].tool = "trivy"
    <3>1. res.misconfs[i].line \in Nat
      BY <1>1, <1>2 DEF ToSet
    <3>2. QED BY <1>0, <3>1 DEF Good, Shape, Finding
  <2> HIDE DEF misconfs
  <2>3. QED BY <1>2, <2>1, <2>2, EachFrom
<1> HIDE DEF vulns, secrets, misconfs
<1>7. From("trivy", vulns \o secrets)
  BY <1>4, <1>5, Concatenated DEF From
<1>8. From("trivy", (vulns \o secrets) \o misconfs)
  BY <1>6, <1>7, Concatenated DEF From
<1>9. QED BY <1>3, <1>8

LEMMA TrivyFrom ==
  ASSUME NEW report \in TrivyReports
  PROVE  From("trivy", ParseTrivy(report))
<1>1. report \in Seq(ToSet(report))
  BY ReportAssumption DEF ReportAssumption
<1> DEFINE n == Len(report)
           l == [i \in 1 .. n |-> ParseTrivyResult(report[i])]
           S == UNION {ToSet(l[i]) : i \in 1 .. n}
<1>2. n \in Nat /\ DOMAIN report = 1 .. n /\ \A i \in 1 .. n : report[i] \in ToSet(report)
  BY <1>1
<1>3. ParseTrivy(report) = FlattenSeq(l)
  BY <1>2 DEF ParseTrivy, Each
<1>4. \A i \in 1 .. n : From("trivy", l[i])
  BY <1>2, TrivyResultFrom
<1>5. l \in [1 .. n -> Seq(S)]
  <2>1. l = [i \in 1 .. n |-> l[i]]
    OBVIOUS
  <2> HIDE DEF l
  <2>2. \A i \in 1 .. n : l[i] \in Seq(ToSet(l[i])) /\ ToSet(l[i]) \subseteq S
    BY <1>4 DEF From, IsList
  <2> HIDE DEF S
  <2>3. \A i \in 1 .. n : l[i] \in Seq(S)
    BY <2>2
  <2>4. QED BY <2>1, <2>3
<1>6. \A f \in S : Good(f) /\ f.tool = "trivy"
  <2> HIDE DEF l
  <2>1. QED BY <1>4 DEF From
<1> HIDE DEF l, S, n
<1>7. l \in Seq(Seq(S))
  BY <1>2, <1>5
<1>8. FlattenSeq(l) \in Seq(S)
  BY <1>7, FlattenType
<1>9. ToSet(FlattenSeq(l)) \subseteq S /\ IsList(FlattenSeq(l))
  BY <1>8, ListType
<1>10. QED BY <1>3, <1>6, <1>9 DEF From

-------------------------------------------------------------------------------
(* What dedupe takes for one finding, and what reach.go tags                 *)

(* Two findings have one key exactly when they are the same *)
LEMMA SameKey ==
  ASSUME NEW f, Shape(f), NEW g, Shape(g)
  PROVE  Key(f) = Key(g) <=> Same(f, g)
<1>1. CASE f.pkg # <<>> /\ g.pkg # <<>>
  BY <1>1 DEF Key, Same, SamePlace
<1>2. CASE f.pkg = <<>> /\ g.pkg = <<>>
  BY <1>2 DEF Key, Same, SamePlace, Shape
<1>3. CASE (f.pkg = <<>>) # (g.pkg = <<>>)
  <2>1. Key(f)[1] # Key(g)[1]
    BY <1>3 DEF Key
  <2>2. f.pkg # g.pkg
    BY <1>3
  <2>3. QED BY <2>1, <2>2 DEF Same
<1>4. QED BY <1>1, <1>2, <1>3

(* The finding f with another usage *)
Retagged(f, g) == Shape(g) /\ g = [f EXCEPT !.usage = g.usage]

LEMMA RetaggedSame ==
  ASSUME NEW f, Shape(f), NEW g, Retagged(f, g)
  PROVE  /\ <<g.tool, g.cat, g.rule, g.path, g.line, g.pkg, g.ver, g.rel>>
              = <<f.tool, f.cat, f.rule, f.path, f.line, f.pkg, f.ver, f.rel>>
         /\ Key(g) = Key(f)
<1>1. <<g.tool, g.cat, g.rule, g.path, g.line, g.pkg, g.ver, g.rel>>
        = <<f.tool, f.cat, f.rule, f.path, f.line, f.pkg, f.ver, f.rel>>
  BY DEF Shape, Retagged
<1>2. QED BY <1>1 DEF Key

(* The usage a finding is stored with *)
UsageOf(f) ==
  IF ~IsDirectNPM(f) THEN ""
  ELSE IF f.pkg \in UsedNPMPackages(files) THEN "used" ELSE "unused_suspected"

LEMMA Tagged ==
  ASSUME NEW list, IsList(list), \A f \in ToSet(list) : Good(f)
  PROVE  LET fs == TagReachability(list, files) IN
         /\ fs \in Seq(ToSet(fs)) /\ Len(fs) = Len(list)
         /\ \A i \in 1 .. Len(list) : Retagged(list[i], fs[i]) /\ fs[i].usage = UsageOf(list[i])
<1> DEFINE n == Len(list)
           fs == TagReachability(list, files)
<1>1. n \in Nat /\ DOMAIN list = 1 .. n /\ \A i \in 1 .. n : Good(list[i])
  <2>1. list \in Seq(ToSet(list))
    BY DEF IsList
  <2>2. n \in Nat /\ DOMAIN list = 1 .. n /\ ToSet(list) = {list[i] : i \in 1 .. n}
    BY <2>1, ListType
  <2>3. QED BY <2>2
<1>2. fs = [i \in 1 .. n |->
              IF ~IsDirectNPM(list[i]) THEN list[i]
              ELSE [list[i] EXCEPT !.usage = IF list[i].pkg \in UsedNPMPackages(files)
                                               THEN "used" ELSE "unused_suspected"]]
  BY <1>1 DEF TagReachability, Each
<1>3. fs = [i \in 1 .. n |-> fs[i]]
  BY <1>2
<1> HIDE DEF fs, n
<1>4. ASSUME NEW i \in 1 .. n
      PROVE  Retagged(list[i], fs[i]) /\ fs[i].usage = UsageOf(list[i])
  <2>1. fs[i] = IF ~IsDirectNPM(list[i]) THEN list[i]
                ELSE [list[i] EXCEPT !.usage = IF list[i].pkg \in UsedNPMPackages(files)
                                                 THEN "used" ELSE "unused_suspected"]
    BY <1>2
  <2>2. Good(list[i])
    BY <1>1
  <2>3. fs[i].usage = UsageOf(list[i])
    BY <2>1, <2>2 DEF Good, Shape, UsageOf
  <2>4. fs[i] = [list[i] EXCEPT !.usage = fs[i].usage]
    BY <2>1, <2>2 DEF Good, Shape
  <2>5. Shape(fs[i])
    BY <2>2, <2>4 DEF Good, Shape
  <2>6. QED BY <2>3, <2>4, <2>5 DEF Retagged
<1>5. fs \in [1 .. n -> {fs[i] : i \in 1 .. n}]
  BY <1>3
<1>6. fs \in Seq({fs[i] : i \in 1 .. n}) /\ Len(fs) = n
  BY <1>1, <1>5
<1>7. IsList(fs)
  BY <1>6, ListType
<1>8. QED BY <1>4, <1>6, <1>7 DEF fs, n, IsList

-------------------------------------------------------------------------------
(* An import names a package exactly when the package's name begins it *)
LEMMA Named ==
  ASSUME NEW pkg, IsName(pkg), NEW spec, spec # <<>>, spec \in Seq(ToSet(spec))
  PROVE  pkg # <<>> /\ (PackageOf(spec) = pkg <=> IsPrefix(pkg, spec))
<1> DEFINE S == ToSet(pkg) \cup ToSet(spec)
<1>1. pkg \in Seq(S) /\ spec \in Seq(S)
  BY DEF IsName
<1> HIDE DEF S
<1>2. Len(pkg) \in Nat /\ Len(spec) \in Nat /\ Len(spec) >= 1
  BY <1>1
<1>3. Scopes \cap Local = {}
  BY FindingsAssumption DEF FindingsAssumption
<1>4. CASE Len(pkg) = 1 /\ pkg[1] \notin Scopes \cup Local
  <2>1. pkg = <<pkg[1]>>
    BY <1>1, <1>4
  <2>2. IsPrefix(pkg, spec) <=> spec[1] = pkg[1]
    <3>1. /\ SubSeq(pkg, 1, 1) \in Seq(S) /\ Len(SubSeq(pkg, 1, 1)) = 1
          /\ SubSeq(pkg, 1, 1)[1] = pkg[1]
      BY <1>1, <1>4
    <3>2. /\ SubSeq(spec, 1, 1) \in Seq(S) /\ Len(SubSeq(spec, 1, 1)) = 1
          /\ SubSeq(spec, 1, 1)[1] = spec[1]
      BY <1>1, <1>2
    <3>3. SubSeq(pkg, 1, 1) = SubSeq(spec, 1, 1) <=> pkg[1] = spec[1]
      BY <3>1, <3>2
    <3>4. QED BY <1>2, <1>4, <3>3 DEF IsPrefix
  <2>3. PackageOf(spec) = pkg <=> spec[1] = pkg[1]
    <3>1. CASE spec[1] \in Local
      BY <1>4, <2>1, <3>1 DEF PackageOf
    <3>2. CASE spec[1] \notin Local /\ spec[1] \notin Scopes
      BY <2>1, <3>2 DEF PackageOf
    <3>3. CASE spec[1] \notin Local /\ spec[1] \in Scopes
      <4>1. Len(spec) >= 2 => Len(SubSeq(spec, 1, 2)) = 2
        BY <1>1, <1>2
      <4>2. PackageOf(spec) # pkg
        BY <1>4, <3>3, <4>1 DEF PackageOf
      <4>3. QED BY <1>4, <3>3, <4>2
    <3>4. QED BY <3>1, <3>2, <3>3
  <2>4. QED BY <1>4, <2>2, <2>3
<1>5. CASE Len(pkg) = 2 /\ pkg[1] \in Scopes
  <2>1. SubSeq(pkg, 1, 2) = pkg
    BY <1>1, <1>5
  <2>2. Len(spec) >= 2 => /\ SubSeq(spec, 1, 2) \in Seq(S) /\ Len(SubSeq(spec, 1, 2)) = 2
                          /\ SubSeq(spec, 1, 2)[1] = spec[1]
    BY <1>1, <1>2
  <2>3. IsPrefix(pkg, spec) <=> Len(spec) >= 2 /\ pkg = SubSeq(spec, 1, 2)
    BY <1>2, <1>5, <2>1 DEF IsPrefix
  <2>4. PackageOf(spec) = pkg <=> Len(spec) >= 2 /\ pkg = SubSeq(spec, 1, 2)
    <3>1. CASE Len(spec) >= 2 /\ pkg = SubSeq(spec, 1, 2)
      BY <1>3, <1>5, <2>2, <3>1 DEF PackageOf
    <3>2. CASE ~(Len(spec) >= 2 /\ pkg = SubSeq(spec, 1, 2))
      <4>1. Len(<<>>) = 0 /\ Len(<<spec[1]>>) = 1
        OBVIOUS
      <4>2. \/ PackageOf(spec) = <<>> \/ PackageOf(spec) = <<spec[1]>>
            \/ Len(spec) >= 2 /\ PackageOf(spec) = SubSeq(spec, 1, 2)
        BY DEF PackageOf
      <4>3. QED BY <1>5, <3>2, <4>1, <4>2
    <3>3. QED BY <3>1, <3>2
  <2>5. QED BY <1>5, <2>3, <2>4
<1>6. QED BY <1>4, <1>5 DEF IsName

LEMMA UsedIsImported ==
  ASSUME files \in Sources, NEW pkg, IsName(pkg)
  PROVE  pkg \in UsedNPMPackages(files) <=> Imported(pkg)
<1>1. \A file \in files : \A spec \in file.imports : spec # <<>> /\ spec \in Seq(ToSet(spec))
  BY ReportAssumption DEF ReportAssumption
<1>2. \A file \in files : \A spec \in file.imports : PackageOf(spec) = pkg <=> IsPrefix(pkg, spec)
  BY <1>1, Named
<1>3. pkg \in UsedNPMPackages(files) <=>
        pkg # <<>> /\ \E file \in files : Scanned(file) /\ \E spec \in file.imports : PackageOf(spec) = pkg
  BY DEF UsedNPMPackages
<1>4. pkg # <<>>
  BY DEF IsName
<1>5. QED BY <1>2, <1>3, <1>4 DEF Imported

-------------------------------------------------------------------------------
(* What has been found is good, its tools are those that found anything, and   *)
(* what is stored is what dedupe makes of it.                                *)
Stays ==
  /\ files \in Sources
  /\ next \in Nat
  /\ IsList(all) /\ \A f \in ToSet(all) : Good(f)
  /\ reported = {f.tool : f \in ToSet(all)}
  /\ Stored => /\ next > Len(Engines) /\ rows = Dedupe(TagReachability(all, files))
               /\ summary.counts = Summarize(rows)

LEMMA StaysInit == Init => Stays
<1>1. IsList(<<>>) /\ ToSet(<<>>) = {}
  BY DEF IsList, ToSet
<1>2. QED BY <1>1 DEF Init, Stays, Stored

LEMMA StaysCompletes ==
  ASSUME Stays, next <= Len(Engines), NEW found, From(Engines[next], found),
         EngineCompletes(found)
  PROVE  Stays'
<1>1. IsList(all \o found) /\ ToSet(all \o found) = ToSet(all) \cup ToSet(found)
  BY Concatenated DEF Stays, From
<1>2. IsList(all') /\ ToSet(all') = ToSet(all) \cup ToSet(found)
  BY <1>1 DEF EngineCompletes
<1>3. \A f \in ToSet(all') : Good(f)
  BY <1>2 DEF Stays, From
<1>4. reported' = {f.tool : f \in ToSet(all')}
  <2>1. CASE found = <<>>
    <3>1. ToSet(found) = {}
      BY <2>1 DEF ToSet
    <3>2. QED BY <1>2, <2>1, <3>1 DEF Stays, EngineCompletes
  <2>2. CASE found # <<>>
    <3>1. ToSet(found) # {}
      <4>1. found \in Seq(ToSet(found))
        BY DEF From, IsList
      <4>2. QED BY <2>2, <4>1
    <3>2. {f.tool : f \in ToSet(found)} = {Engines[next]}
      BY <3>1 DEF From
    <3>3. {f.tool : f \in ToSet(all')} = reported \cup {Engines[next]}
      BY <1>2, <3>2 DEF Stays
    <3>4. QED BY <2>2, <3>3 DEF EngineCompletes
  <2>3. QED BY <2>1, <2>2
<1>5. files' = files /\ next' \in Nat /\ summary' = summary /\ ~Stored
  BY DEF EngineCompletes, Stays, Engines
<1>6. QED BY <1>2, <1>3, <1>4, <1>5 DEF Stays, Stored

LEMMA StaysNext == Stays /\ [Next]_vars => Stays'
<1> SUFFICES ASSUME Stays, [Next]_vars PROVE Stays'
  OBVIOUS
<1>1. CASE SkipEngine
  BY <1>1 DEF SkipEngine, Stays, Stored, IsList, Engines
<1>2. CASE EngineFails
  BY <1>2 DEF EngineFails, Stays, Stored, IsList, Engines
<1>3. CASE RunSemgrep
  <2>1. PICK report \in SemgrepReports : EngineCompletes(ParseSemgrep(report))
    BY <1>3 DEF RunSemgrep
  <2>2. next <= Len(Engines) /\ Engines[next] = "semgrep"
    BY <1>3 DEF RunSemgrep
  <2>3. QED BY <2>1, <2>2, SemgrepFrom, StaysCompletes
<1>4. CASE RunTrivy
  <2>1. PICK report \in TrivyReports : EngineCompletes(ParseTrivy(report))
    BY <1>4 DEF RunTrivy
  <2>2. next <= Len(Engines) /\ Engines[next] = "trivy"
    BY <1>4 DEF RunTrivy
  <2>3. QED BY <2>1, <2>2, TrivyFrom, StaysCompletes
<1>5. CASE Persist
  <2>1. summary'.counts = Summarize(rows')
    BY <1>5 DEF Persist
  <2>2. UNCHANGED <<files, next, all, reported>> /\ next' > Len(Engines)
    BY <1>5 DEF Persist
  <2>3. rows' = Dedupe(TagReachability(all', files'))
    BY <1>5 DEF Persist
  <2>4. QED BY <2>1, <2>2, <2>3 DEF Stays, IsList
<1>6. CASE UNCHANGED vars
  BY <1>6 DEF vars, Stays, Stored, IsList
<1>7. QED BY <1>1, <1>2, <1>3, <1>4, <1>5, <1>6 DEF Next

LEMMA StaysInvariance == Spec => []Stays
BY StaysInit, StaysNext, PTL DEF Spec

(* What the rows are, once they are stored *)
LEMMA Rows ==
  ASSUME Stays, Stored
  PROVE  /\ Len(all) \in Nat /\ DOMAIN all = 1 .. Len(all)
         /\ ToSet(all) = {all[i] : i \in 1 .. Len(all)} /\ \A i \in 1 .. Len(all) : Good(all[i])
         /\ IsList(rows) /\ DOMAIN rows = 1 .. Len(rows)
         /\ ToSet(rows) = {rows[n] : n \in 1 .. Len(rows)}
         /\ \A i \in 1 .. Len(all) : \E n \in 1 .. Len(rows) : Key(rows[n]) = Key(all[i])
         /\ \A m, n \in 1 .. Len(rows) : Key(rows[m]) = Key(rows[n]) => m = n
         /\ \A n \in 1 .. Len(rows) : \E i \in 1 .. Len(all) :
              /\ Retagged(all[i], rows[n]) /\ rows[n].usage = UsageOf(all[i])
              /\ \A j \in 1 .. i - 1 : Key(all[j]) # Key(all[i])
<1> DEFINE fs == TagReachability(all, files)
<1>1. IsList(all) /\ (\A f \in ToSet(all) : Good(f)) /\ rows = Dedupe(fs)
  BY DEF Stays
<1>2. /\ Len(all) \in Nat /\ DOMAIN all = 1 .. Len(all)
      /\ ToSet(all) = {all[i] : i \in 1 .. Len(all)}
  BY <1>1, ListType DEF IsList
<1>3. \A i \in 1 .. Len(all) : Good(all[i])
  BY <1>1, <1>2
<1>4. /\ fs \in Seq(ToSet(fs)) /\ Len(fs) = Len(all)
      /\ \A i \in 1 .. Len(all) : Retagged(all[i], fs[i]) /\ fs[i].usage = UsageOf(all[i])
  BY <1>1, Tagged
<1> HIDE DEF fs
<1>5. rows \in Seq(ToSet(fs)) /\ Reduced(rows, fs, Len(all))
  BY <1>1, <1>4, Deduped
<1>6. /\ IsList(rows) /\ DOMAIN rows = 1 .. Len(rows)
      /\ ToSet(rows) = {rows[n] : n \in 1 .. Len(rows)}
  BY <1>5, ListType
<1>7. \A i \in 1 .. Len(all) : Key(fs[i]) = Key(all[i])
  BY <1>3, <1>4, RetaggedSame DEF Good
<1>8. \A n \in 1 .. Len(rows) : \E i \in 1 .. Len(all) :
        /\ Retagged(all[i], rows[n]) /\ rows[n].usage = UsageOf(all[i])
        /\ \A j \in 1 .. i - 1 : Key(all[j]) # Key(all[i])
  <2> SUFFICES ASSUME NEW n \in 1 .. Len(rows)
               PROVE  \E i \in 1 .. Len(all) :
                        /\ Retagged(all[i], rows[n]) /\ rows[n].usage = UsageOf(all[i])
                        /\ \A j \in 1 .. i - 1 : Key(all[j]) # Key(all[i])
    OBVIOUS
  <2>1. PICK i \in 1 .. Len(all) :
          rows[n] = fs[i] /\ \A j \in 1 .. i - 1 : Key(fs[j]) # Key(fs[i])
    BY <1>5 DEF Reduced
  <2>2. \A j \in 1 .. i - 1 : j \in 1 .. Len(all)
    BY <1>2
  <2>3. QED BY <1>4, <1>7, <2>1, <2>2
<1>9. QED BY <1>2, <1>3, <1>5, <1>6, <1>7, <1>8 DEF Reduced

(* Nothing an engine reported is lost or stored twice; of equal findings the   *)
(* first one stands (dedupe, runner.go:177-184).                             *)
THEOREM DedupeExactHolds == Spec => []DedupeExact
<1>1. Stays => DedupeExact
  <2> SUFFICES ASSUME Stays, Stored
               PROVE  /\ \A i \in DOMAIN all : \E n \in DOMAIN rows : Same(rows[n], all[i])
                      /\ \A m, n \in DOMAIN rows : Same(rows[m], rows[n]) => m = n
                      /\ \A n \in DOMAIN rows : \E i \in DOMAIN all :
                           /\ rows[n] = [all[i] EXCEPT !.usage = rows[n].usage]
                           /\ \A j \in 1 .. i - 1 : ~Same(all[j], all[i])
    BY DEF DedupeExact
  <2>1. /\ \A i \in 1 .. Len(all) : Shape(all[i])
        /\ \A n \in 1 .. Len(rows) : Shape(rows[n])
    BY Rows DEF Good, Retagged
  <2>2. \A i \in DOMAIN all : \E n \in DOMAIN rows : Same(rows[n], all[i])
    BY <2>1, Rows, SameKey
  <2>3. \A m, n \in DOMAIN rows : Same(rows[m], rows[n]) => m = n
    BY <2>1, Rows, SameKey
  <2>4. ASSUME NEW n \in DOMAIN rows
        PROVE  \E i \in DOMAIN all :
                 /\ rows[n] = [all[i] EXCEPT !.usage = rows[n].usage]
                 /\ \A j \in 1 .. i - 1 : ~Same(all[j], all[i])
    <3>1. PICK i \in 1 .. Len(all) :
            Retagged(all[i], rows[n]) /\ \A j \in 1 .. i - 1 : Key(all[j]) # Key(all[i])
      BY Rows
    <3>2. \A j \in 1 .. i - 1 : j \in 1 .. Len(all)
      BY Rows
    <3>3. \A j \in 1 .. i - 1 : ~Same(all[j], all[i])
      BY <2>1, <3>1, <3>2, SameKey
    <3>4. rows[n] = [all[i] EXCEPT !.usage = rows[n].usage]
      BY <3>1 DEF Retagged
    <3>5. QED BY <3>1, <3>3, <3>4, Rows
  <2>5. QED BY <2>2, <2>3, <2>4
<1>2. QED BY <1>1, StaysInvariance, PTL

(* Dedupe merges no findings of two engines, and a failing engine takes away   *)
(* nothing of the other's: the stored rows are from the engines that reported  *)
(* any (runner.go:70).                                                       *)
THEOREM EnginesRepresentedHolds == Spec => []EnginesRepresented
<1>1. Stays => EnginesRepresented
  <2> SUFFICES ASSUME Stays, Stored PROVE {f.tool : f \in ToSet(rows)} = reported
    BY DEF EnginesRepresented
  <2>1. reported = {f.tool : f \in ToSet(all)}
    BY DEF Stays
  <2>2. ASSUME NEW n \in 1 .. Len(rows) PROVE rows[n].tool \in reported
    <3>1. PICK i \in 1 .. Len(all) : Retagged(all[i], rows[n])
      BY Rows
    <3>2. Shape(all[i]) /\ all[i] \in ToSet(all)
      BY Rows DEF Good
    <3>3. rows[n].tool = all[i].tool
      BY <3>1, <3>2, RetaggedSame
    <3>4. QED BY <2>1, <3>2, <3>3
  <2>3. ASSUME NEW i \in 1 .. Len(all)
        PROVE  \E n \in 1 .. Len(rows) : rows[n].tool = all[i].tool
    <3>1. PICK n \in 1 .. Len(rows) : Key(rows[n]) = Key(all[i])
      BY Rows
    <3>2. Shape(rows[n]) /\ Shape(all[i])
      BY Rows DEF Good, Retagged
    <3>3. rows[n].cat = all[i].cat
      BY <3>1, <3>2, SameKey DEF Same
    <3>4. rows[n].tool = all[i].tool
      BY <3>2, <3>3 DEF Shape
    <3>5. QED BY <3>4
  <2>4. /\ ToSet(rows) = {rows[n] : n \in 1 .. Len(rows)}
        /\ ToSet(all) = {all[i] : i \in 1 .. Len(all)}
    BY Rows
  <2>5. {f.tool : f \in ToSet(rows)} \subseteq reported
    BY <2>2, <2>4
  <2>6. reported \subseteq {f.tool : f \in ToSet(rows)}
    <3> SUFFICES ASSUME NEW i \in 1 .. Len(all)
                 PROVE  all[i].tool \in {f.tool : f \in ToSet(rows)}
      BY <2>1, <2>4
    <3>1. PICK n \in 1 .. Len(rows) : rows[n].tool = all[i].tool
      BY <2>3
    <3>2. rows[n] \in ToSet(rows)
      BY <2>4
    <3>3. QED BY <3>1, <3>2
  <2>7. QED BY <2>5, <2>6
<1>2. QED BY <1>1, StaysInvariance, PTL

(* A dependency is called used exactly when a source file imports it, and only *)
(* direct ones of an npm manifest are called anything (tagReachability).      *)
THEOREM UsageHonestHolds == Spec => []UsageHonest
<1>1. Stays => UsageHonest
  <2> SUFFICES ASSUME Stays, Stored, NEW f \in ToSet(rows)
               PROVE  /\ f.usage = "used" => Imported(f.pkg)
                      /\ f.usage = "unused_suspected" => ~Imported(f.pkg)
                      /\ f.usage # "" <=> (f.rel = "direct" /\ Paths[f.path].lock)
    BY DEF UsageHonest
  <2>1. PICK i \in 1 .. Len(all) : Retagged(all[i], f) /\ f.usage = UsageOf(all[i])
    <3>1. PICK n \in 1 .. Len(rows) : f = rows[n]
      BY Rows
    <3>2. QED BY <3>1, Rows
  <2>2. Shape(all[i])
    BY Rows DEF Good
  <2>3. f.pkg = all[i].pkg /\ f.rel = all[i].rel /\ f.path = all[i].path
    BY <2>1, <2>2, RetaggedSame
  <2>4. CASE IsDirectNPM(all[i])
    <3>1. IsName(all[i].pkg)
      BY <2>2, <2>4 DEF IsDirectNPM, Shape
    <3>2. all[i].pkg \in UsedNPMPackages(files) <=> Imported(all[i].pkg)
      BY <3>1, UsedIsImported DEF Stays
    <3>3. QED BY <2>1, <2>3, <2>4, <3>2 DEF UsageOf, IsDirectNPM
  <2>5. CASE ~IsDirectNPM(all[i])
    <3>1. f.usage = ""
      BY <2>1, <2>5 DEF UsageOf
    <3>2. ~(all[i].rel = "direct" /\ Paths[all[i].path].lock)
      BY <2>2, <2>5 DEF IsDirectNPM, Shape
    <3>3. QED BY <2>3, <3>1, <3>2
  <2>6. QED BY <2>4, <2>5
<1>2. QED BY <1>1, StaysInvariance, PTL

-------------------------------------------------------------------------------
(* Orders                                                                    *)

LEMMA Lexicographic ==
  ASSUME NEW k \in Nat, NEW s \in [1 .. k -> Nat], NEW t \in [1 .. k -> Nat],
         NEW u \in [1 .. k -> Nat]
  PROVE  /\ ~Precedes(s, s)
         /\ Precedes(s, t) /\ Precedes(t, u) => Precedes(s, u)
         /\ s = t \/ Precedes(s, t) \/ Precedes(t, s)
<1>1. ~Precedes(s, s)
  BY DEF Precedes
<1>2. ASSUME Precedes(s, t), Precedes(t, u) PROVE Precedes(s, u)
  <2>1. PICK m \in 1 .. k : s[m] < t[m] /\ \A i \in 1 .. m - 1 : s[i] = t[i]
    BY <1>2 DEF Precedes
  <2>2. PICK n \in 1 .. k : t[n] < u[n] /\ \A i \in 1 .. n - 1 : t[i] = u[i]
    BY <1>2 DEF Precedes
  <2>3. CASE m < n
    <3>1. s[m] < u[m]
      BY <2>1, <2>2, <2>3
    <3>2. \A i \in 1 .. m - 1 : s[i] = u[i]
      BY <2>1, <2>2, <2>3
    <3>3. QED BY <3>1, <3>2 DEF Precedes
  <2>4. CASE n < m
    <3>1. s[n] < u[n]
      BY <2>1, <2>2, <2>4
    <3>2. \A i \in 1 .. n - 1 : s[i] = u[i]
      BY <2>1, <2>2, <2>4
    <3>3. QED BY <3>1, <3>2 DEF Precedes
  <2>5. CASE m = n
    <3>1. s[m] < u[m]
      BY <2>1, <2>2, <2>5
    <3>2. \A i \in 1 .. m - 1 : s[i] = u[i]
      BY <2>1, <2>2, <2>5
    <3>3. QED BY <3>1, <3>2 DEF Precedes
  <2>6. QED BY <2>3, <2>4, <2>5
<1>3. ASSUME s # t PROVE Precedes(s, t) \/ Precedes(t, s)
  <2> DEFINE D == {n \in 1 .. k : s[n] # t[n]}
  <2>1. D \in SUBSET Nat /\ D # {}
    <3>1. s = [n \in 1 .. k |-> s[n]] /\ t = [n \in 1 .. k |-> t[n]]
      OBVIOUS
    <3>2. \E n \in 1 .. k : s[n] # t[n]
      BY Zenon, <1>3, <3>1
    <3>3. \A n \in 1 .. k : n \in Nat
      OBVIOUS
    <3>4. QED BY Zenon, <3>2, <3>3
  <2>2. PICK n \in D : \A m \in D : n <= m
    <3> HIDE DEF D
    <3>1. QED BY <2>1, Smallest
  <2>3. n \in 1 .. k /\ s[n] # t[n] /\ \A i \in 1 .. n - 1 : s[i] = t[i]
    <3>1. \A i \in 1 .. n - 1 : i \in 1 .. k /\ ~(n <= i)
      OBVIOUS
    <3>2. QED BY <2>2, <3>1
  <2>4. s[n] < t[n] \/ t[n] < s[n]
    BY <2>3
  <2>5. QED BY <2>3, <2>4 DEF Precedes
<1>4. QED BY <1>1, <1>2, <1>3

(* A key for each member of D, no two the same, puts D in order *)
Keyed(D, key) == {p \in D \X D : Precedes(key[p[1]], key[p[2]])}

LEMMA KeyedOrder ==
  ASSUME NEW k \in Nat, NEW D, NEW key \in [D -> [1 .. k -> Nat]],
         \A i, j \in D : key[i] = key[j] => i = j
  PROVE  StrictOrder(Keyed(D, key), D)
<1>1. \A i, j \in D : <<i, j>> \in Keyed(D, key) <=> Precedes(key[i], key[j])
  BY DEF Keyed
<1>2. \A i \in D : ~Precedes(key[i], key[i])
  BY Lexicographic
<1>3. \A i, j, l \in D : Precedes(key[i], key[j]) /\ Precedes(key[j], key[l]) => Precedes(key[i], key[l])
  BY Lexicographic
<1>4. \A i, j \in D : key[i] = key[j] \/ Precedes(key[i], key[j]) \/ Precedes(key[j], key[i])
  BY Lexicographic
<1>5. QED BY <1>1, <1>2, <1>3, <1>4 DEF StrictOrder

Up(S) == {p \in S \X S : p[1] < p[2]}

LEMMA UpOrder ==
  ASSUME NEW n \in Nat, NEW S \in SUBSET (1 .. n)
  PROVE  IsFiniteSet(S) /\ StrictOrder(Up(S), S)
<1>1. IsFiniteSet(1 .. n)
  BY FS_Interval
<1>2. IsFiniteSet(S)
  BY <1>1, FS_Subset
<1>3. \A i \in S : i \in Nat
  OBVIOUS
<1>4. StrictOrder(Up(S), S)
  BY <1>3 DEF Up, StrictOrder
<1>5. QED BY <1>2, <1>4

(* s holds what fs has at the places at, which are those of S, in order *)
Places(s, fs, S, R, at) ==
  /\ Len(s) \in Nat /\ Len(s) = Cardinality(S)
  /\ at \in [1 .. Len(s) -> S] /\ s = [n \in 1 .. Len(s) |-> fs[at[n]]]
  /\ \A m, n \in 1 .. Len(s) : m < n => <<at[m], at[n]>> \in R
  /\ \A m, n \in 1 .. Len(s) : at[m] = at[n] => m = n
  /\ \A i \in S : \E n \in 1 .. Len(s) : at[n] = i

LEMMA Arranged ==
  ASSUME NEW fs, NEW S, IsFiniteSet(S), NEW R, StrictOrder(R, S)
  PROVE  \E at : Places(Arrange(fs, S, R), fs, S, R, at)
<1> DEFINE s == Arrange(fs, S, R)
<1>1. Cardinality(S) \in Nat
  BY FS_CardinalityType
<1>2. PICK at : at = InTurn(S, R)
  OBVIOUS
<1>3. s = [n \in 1 .. Cardinality(S) |-> fs[at[n]]]
  BY <1>2 DEF Arrange, InTurn
<1>4. /\ at \in [1 .. Cardinality(S) -> S]
      /\ \A m, n \in 1 .. Cardinality(S) : m < n => <<at[m], at[n]>> \in R
      /\ \A m, n \in 1 .. Cardinality(S) : at[m] = at[n] => m = n
      /\ \A i \in S : \E n \in 1 .. Cardinality(S) : at[n] = i
  BY <1>2, InOrder
<1> HIDE DEF s
<1>5. Len(s) = Cardinality(S)
  BY <1>1, <1>3
<1>6. Places(s, fs, S, R, at)
  BY <1>1, <1>3, <1>4, <1>5 DEF Places
<1>7. QED BY <1>6 DEF s

(* As many places of s as there are in T *)
LEMMA Counted ==
  ASSUME NEW s, NEW fs, NEW S, IsFiniteSet(S), NEW R, NEW at, Places(s, fs, S, R, at),
         NEW T \in SUBSET S
  PROVE  Cardinality({n \in 1 .. Len(s) : at[n] \in T}) = Cardinality(T)
<1> DEFINE D == {n \in 1 .. Len(s) : at[n] \in T}
           f == [n \in D |-> at[n]]
<1>1. f \in Injection(D, T)
  BY DEF Places, Injection, IsInjective
<1>2. f \in Surjection(D, T)
  BY DEF Places, Surjection
<1>3. ExistsBijection(D, T)
  BY <1>1, <1>2 DEF ExistsBijection, Bijection
<1>4. IsFiniteSet(D)
  <2>1. IsFiniteSet(1 .. Len(s)) /\ D \subseteq 1 .. Len(s)
    BY FS_Interval DEF Places
  <2>2. QED BY <2>1, FS_Subset
<1>5. QED BY <1>3, <1>4, FS_Bijection

-------------------------------------------------------------------------------
(* What ListFindings gives                                                   *)

Shaped(q) == IsList(q) /\ \A f \in ToSet(q) : Shape(f)

LEMMA ShapedList ==
  ASSUME NEW q, Shaped(q)
  PROVE  /\ Len(q) \in Nat /\ DOMAIN q = 1 .. Len(q) /\ IsFiniteSet(1 .. Len(q))
         /\ ToSet(q) = {q[i] : i \in 1 .. Len(q)} /\ \A i \in 1 .. Len(q) : Shape(q[i])
<1>1. q \in Seq(ToSet(q))
  BY DEF Shaped, IsList
<1>2. Len(q) \in Nat /\ DOMAIN q = 1 .. Len(q) /\ ToSet(q) = {q[i] : i \in 1 .. Len(q)}
  BY <1>1, ListType
<1>3. QED BY <1>2, FS_Interval DEF Shaped

LEMMA Ranks ==
  /\ \A sev \in ToSet(Severities) : Rank(sev) \in Nat
  /\ \A a, b \in ToSet(Severities) : Rank(a) = Rank(b) => a = b
<1>1. ASSUME NEW sev \in ToSet(Severities)
      PROVE  Rank(sev) \in 1 .. 5 /\ Severities[Rank(sev)] = sev
  <2>1. \E n \in 1 .. 5 : Severities[n] = sev
    BY DEF ToSet, Severities
  <2>2. \A n \in 1 .. 5 : (Severities[n] = sev \/ (n = 5 /\ sev \notin ToSet(Severities)))
                            <=> Severities[n] = sev
    BY <1>1
  <2>3. QED BY <2>1, <2>2 DEF Rank
<1>2. QED BY <1>1

LEMMA Close == \A f : Closeness(f) \in Nat
BY DEF Closeness

RankKey(q) ==
  [i \in DOMAIN q |-> <<Rank(q[i].sev), Closeness(q[i]), q[i].path, q[i].line, i>>]

LEMMA Quintuple ==
  ASSUME NEW a \in Nat, NEW b \in Nat, NEW c \in Nat, NEW d \in Nat, NEW e \in Nat
  PROVE  <<a, b, c, d, e>> \in [1 .. 5 -> Nat]
OBVIOUS

LEMMA ByRankPlaces ==
  ASSUME NEW q, Shaped(q)
  PROVE  \E at : Places(ByRank(q), q, 1 .. Len(q), Keyed(1 .. Len(q), RankKey(q)), at)
<1> DEFINE D == 1 .. Len(q)
           key == RankKey(q)
<1>1. Len(q) \in Nat /\ DOMAIN q = D /\ IsFiniteSet(D) /\ \A i \in D : Shape(q[i])
  BY ShapedList
<1>2. ASSUME NEW i \in D PROVE key[i] \in [1 .. 5 -> Nat] /\ key[i][5] = i
  <2>1. key[i] = <<Rank(q[i].sev), Closeness(q[i]), q[i].path, q[i].line, i>>
    BY <1>1 DEF RankKey
  <2>2. Rank(q[i].sev) \in Nat /\ q[i].path \in Nat /\ q[i].line \in Nat /\ i \in Nat
    <3>1. Shape(q[i])
      BY <1>1
    <3>2. q[i].sev \in ToSet(Severities) /\ q[i].path \in Nat /\ q[i].line \in Nat
      BY Zenon, <3>1 DEF Shape
    <3>3. i \in Nat
      OBVIOUS
    <3>4. QED BY Zenon, <3>2, <3>3, Ranks
  <2>3. Closeness(q[i]) \in Nat
    BY Close
  <2> DEFINE k == <<Rank(q[i].sev), Closeness(q[i]), q[i].path, q[i].line, i>>
  <2>4. k \in [1 .. 5 -> Nat]
    BY <2>2, <2>3, Quintuple
  <2>5. k[5] = i
    OBVIOUS
  <2> HIDE DEF key, D, k
  <2>6. key[i] = k
    BY Zenon, <2>1 DEF k
  <2>7. QED BY <2>4, <2>5, <2>6
<1>3. key = [i \in D |-> key[i]]
  <2>1. key = [i \in D |-> <<Rank(q[i].sev), Closeness(q[i]), q[i].path, q[i].line, i>>]
    BY <1>1 DEF RankKey
  <2> HIDE DEF key, D
  <2>2. QED BY Zenon, <2>1
<1> HIDE DEF key, D
<1>4. StrictOrder(Keyed(D, key), D)
  <2>1. key \in [D -> [1 .. 5 -> Nat]]
    BY <1>2, <1>3
  <2>2. \A i, j \in D : key[i] = key[j] => i = j
    BY <1>2
  <2>3. 5 \in Nat
    OBVIOUS
  <2>4. QED BY <2>1, <2>2, <2>3, KeyedOrder
<1>5. ByRank(q) = Arrange(q, D, Keyed(D, key))
  <2>1. ByRank(q) = Arrange(q, D, {p \in D \X D : Precedes(
           <<Rank(q[p[1]].sev), Closeness(q[p[1]]), q[p[1]].path, q[p[1]].line, p[1]>>,
           <<Rank(q[p[2]].sev), Closeness(q[p[2]]), q[p[2]].path, q[p[2]].line, p[2]>>)})
    BY <1>1 DEF ByRank, SortedBy
  <2>2. \A p \in D \X D :
          /\ key[p[1]] = <<Rank(q[p[1]].sev), Closeness(q[p[1]]), q[p[1]].path, q[p[1]].line, p[1]>>
          /\ key[p[2]] = <<Rank(q[p[2]].sev), Closeness(q[p[2]]), q[p[2]].path, q[p[2]].line, p[2]>>
    BY <1>1 DEF RankKey, key
  <2>3. Keyed(D, key) = {p \in D \X D : Precedes(
           <<Rank(q[p[1]].sev), Closeness(q[p[1]]), q[p[1]].path, q[p[1]].line, p[1]>>,
           <<Rank(q[p[2]].sev), Closeness(q[p[2]]), q[p[2]].path, q[p[2]].line, p[2]>>)}
    BY <2>2 DEF Keyed
  <2>4. QED BY <2>1, <2>3
<1>6. QED BY <1>1, <1>4, <1>5, Arranged DEF D, key

(* The findings of q that are at the places of S, in their order *)
LEMMA Picked ==
  ASSUME NEW q, NEW n \in Nat, DOMAIN q = 1 .. n, NEW S \in SUBSET (1 .. n)
  PROVE  \E at : Places(Arrange(q, S, Up(S)), q, S, Up(S), at)
BY UpOrder, Arranged

(* One comes no later than the other in a list *)
NoLater(f, g) ==
  \/ Rank(f.sev) < Rank(g.sev)
  \/ f.sev = g.sev /\ Closeness(f) <= Closeness(g)

(* L holds what q holds, each place of it once *)
Shuffles(L, q, at) ==
  /\ at \in [1 .. Len(q) -> 1 .. Len(q)] /\ L = [n \in 1 .. Len(q) |-> q[at[n]]]
  /\ \A m, n \in 1 .. Len(q) : at[m] = at[n] => m = n
  /\ \A i \in 1 .. Len(q) : \E n \in 1 .. Len(q) : at[n] = i

LEMMA ListedPlaces ==
  ASSUME NEW q, Shaped(q), NEW L, L = ListFindings(q, Everything)
  PROVE  \E at : Shuffles(L, q, at) /\ \A m, n \in 1 .. Len(q) : m < n => NoLater(L[m], L[n])
<1> DEFINE N == Len(q)
           D == 1 .. N
           B == ByRank(q)
<1>1. N \in Nat /\ DOMAIN q = D /\ IsFiniteSet(D) /\ Cardinality(D) = N /\ \A i \in D : Shape(q[i])
  <2>1. N \in Nat /\ DOMAIN q = D /\ IsFiniteSet(D) /\ \A i \in D : Shape(q[i])
    BY ShapedList
  <2>2. QED BY <2>1, FS_Interval
<1>2. PICK at : Places(B, q, D, Keyed(D, RankKey(q)), at)
  BY ByRankPlaces
<1> HIDE DEF N, B
<1>3. Len(B) = N /\ DOMAIN B = D /\ B = [n \in D |-> q[at[n]]]
  BY <1>1, <1>2 DEF Places
<1>4. L = Arrange(B, D, Up(D))
  <2>1. {i \in DOMAIN B : Everything(B[i])} = D
    BY <1>3 DEF Everything
  <2>2. ListFindings(q, Everything)
          = LET S == {i \in DOMAIN B : Everything(B[i])}
            IN  Arrange(B, S, {p \in S \X S : p[1] < p[2]})
    BY DEF ListFindings, Where, B
  <2> HIDE DEF D
  <2>3. QED BY <2>1, <2>2 DEF Up
<1>5. PICK up : Places(L, B, D, Up(D), up)
  <2>1. D \in SUBSET (1 .. N) /\ N \in Nat /\ DOMAIN B = 1 .. N
    BY <1>1, <1>3
  <2>2. \E up : Places(Arrange(B, D, Up(D)), B, D, Up(D), up)
    <3> HIDE DEF D
    <3>1. QED BY Zenon, <2>1, Picked
  <2>3. QED BY Zenon, <1>4, <2>2
<1>6. Len(L) = N /\ up \in [D -> D] /\ at \in [D -> D]
  BY <1>1, <1>2, <1>3, <1>5 DEF Places
<1> DEFINE to == [n \in D |-> at[up[n]]]
<1>7. L = [n \in D |-> q[to[n]]]
  <2>1. L = [n \in D |-> B[up[n]]]
    BY <1>5, <1>6 DEF Places
  <2>2. \A n \in D : B[up[n]] = q[to[n]]
    BY <1>3, <1>6
  <2> HIDE DEF to
  <2>3. QED BY <2>1, <2>2
<1>8. Shuffles(L, q, to)
  <2>1. to \in [D -> D]
    BY <1>6
  <2>2. \A m, n \in D : to[m] = to[n] => m = n
    BY <1>2, <1>3, <1>5, <1>6 DEF Places
  <2>3. \A i \in D : \E n \in D : to[n] = i
    <3> SUFFICES ASSUME NEW i \in D PROVE \E n \in D : to[n] = i
      OBVIOUS
    <3>1. PICK m \in D : at[m] = i
      BY <1>2, <1>3 DEF Places
    <3>2. PICK n \in D : up[n] = m
      BY <1>5, <1>6 DEF Places
    <3>3. QED BY <3>1, <3>2
  <2> HIDE DEF to
  <2>4. QED BY <1>7, <2>1, <2>2, <2>3 DEF Shuffles, N
<1>9. ASSUME NEW m \in D, NEW n \in D, m < n PROVE NoLater(L[m], L[n])
  <2>1. up[m] \in D /\ up[n] \in D /\ up[m] < up[n]
    BY <1>5, <1>6, <1>9 DEF Places, Up
  <2>2. <<to[m], to[n]>> \in Keyed(D, RankKey(q))
    BY <1>2, <1>3, <2>1 DEF Places
  <2>3. to[m] \in D /\ to[n] \in D
    BY <1>6, <2>1
  <2> DEFINE f == q[to[m]]
             g == q[to[n]]
             s == <<Rank(f.sev), Closeness(f), f.path, f.line, to[m]>>
             t == <<Rank(g.sev), Closeness(g), g.path, g.line, to[n]>>
  <2>4. L[m] = f /\ L[n] = g
    BY <1>7
  <2> HIDE DEF to
  <2>5. Precedes(s, t)
    BY <1>1, <2>2, <2>3 DEF Keyed, RankKey
  <2>6. Shape(f) /\ Shape(g)
    BY <1>1, <2>3
  <2> HIDE DEF f, g
  <2>7. Rank(f.sev) < Rank(g.sev) \/ (Rank(f.sev) = Rank(g.sev) /\ Closeness(f) <= Closeness(g))
    <3>1. PICK i \in 1 .. 5 : s[i] < t[i] /\ \A j \in 1 .. i - 1 : s[j] = t[j]
      BY <2>5 DEF Precedes
    <3>2. CASE i = 1
      BY <3>1, <3>2
    <3>3. CASE i = 2
      BY <3>1, <3>3, Close
    <3>4. CASE i \in 3 .. 5
      <4>1. s[1] = t[1] /\ s[2] = t[2]
        BY <3>1, <3>4
      <4>2. QED BY <4>1, Close
    <3>5. QED BY <3>2, <3>3, <3>4
  <2>8. Rank(f.sev) = Rank(g.sev) => f.sev = g.sev
    BY <2>6, Ranks DEF Shape
  <2>9. QED BY <2>4, <2>7, <2>8 DEF NoLater
<1>10. QED BY <1>8, <1>9 DEF N

-------------------------------------------------------------------------------
(* The tiers                                                                 *)

(* at lists the numbers of S upwards *)
Upwards(at, S) ==
  /\ at \in [1 .. Cardinality(S) -> S]
  /\ \A m \in 1 .. Cardinality(S), i \in S : at[m] = i <=> Cardinality({j \in S : j < i}) = m - 1

LEMMA Turn ==
  ASSUME NEW n \in Nat, NEW S \in SUBSET (1 .. n), NEW at, at = InTurn(S, Up(S))
  PROVE  IsFiniteSet(S) /\ Upwards(at, S)
<1>1. IsFiniteSet(S) /\ StrictOrder(Up(S), S)
  BY UpOrder
<1>2. \A i \in S : {j \in S : <<j, i>> \in Up(S)} = {j \in S : j < i}
  BY DEF Up
<1>3. /\ at \in [1 .. Cardinality(S) -> S]
      /\ \A m \in 1 .. Cardinality(S), i \in S :
           at[m] = i <=> Cardinality({j \in S : <<j, i>> \in Up(S)}) = m - 1
  BY <1>1, InOrder
<1>4. QED BY <1>1, <1>2, <1>3 DEF Upwards

(* One more place, after the others *)
LEMMA Extended ==
  ASSUME NEW fs, NEW k \in Nat, NEW K \in SUBSET (1 .. k), NEW T, T = K \cup {k + 1}
  PROVE  Arrange(fs, T, Up(T)) = Append(Arrange(fs, K, Up(K)), fs[k + 1])
<1> DEFINE N == Cardinality(K)
           s == Arrange(fs, K, Up(K))
           t == Arrange(fs, T, Up(T))
<1>0. PICK at, to : at = InTurn(K, Up(K)) /\ to = InTurn(T, Up(T))
  OBVIOUS
<1>1. Upwards(at, K) /\ s = [n \in 1 .. N |-> fs[at[n]]]
  <2>1. Upwards(at, K)
    BY Zenon, <1>0, Turn
  <2>2. QED BY <1>0, <2>1 DEF Arrange, InTurn
<1>2. Upwards(to, T) /\ t = [n \in 1 .. Cardinality(T) |-> fs[to[n]]]
  <2>1. T \in SUBSET (1 .. k + 1) /\ k + 1 \in Nat
    OBVIOUS
  <2>2. Upwards(to, T)
    BY Zenon, <1>0, <2>1, Turn
  <2>3. QED BY <1>0, <2>2 DEF Arrange, InTurn
<1>3. N \in Nat /\ Cardinality(T) = N + 1
  <2>1. k + 1 \notin K
    OBVIOUS
  <2>2. IsFiniteSet(K)
    BY Turn
  <2>3. QED BY <2>1, <2>2, FS_AddElement, FS_CardinalityType
<1> HIDE DEF s, t
<1>4. /\ \A n \in 1 .. N : at[n] \in K
      /\ \A n \in 1 .. N : Cardinality({j \in K : j < at[n]}) = n - 1
  <2> HIDE DEF N
  <2>1. QED BY <1>1 DEF Upwards, N
<1>5. \A n \in 1 .. N + 1, i \in T : Cardinality({j \in T : j < i}) = n - 1 => to[n] = i
  <2>1. \A n \in 1 .. Cardinality(T), i \in T : to[n] = i <=> Cardinality({j \in T : j < i}) = n - 1
    BY Zenon, <1>2 DEF Upwards
  <2>2. QED BY Zenon, <1>3, <2>1
<1>6. ASSUME NEW n \in 1 .. N PROVE to[n] = at[n]
  <2>1. at[n] \in K
    BY <1>4
  <2>2. {j \in T : j < at[n]} = {j \in K : j < at[n]}
    <3>1. \A i \in K, j \in T : j < i => j \in K
      OBVIOUS
    <3>2. \A j \in K : j \in T
      OBVIOUS
    <3>3. QED BY Zenon, <2>1, <3>1, <3>2
  <2>3. n \in 1 .. N + 1 /\ at[n] \in T
    BY <1>3, <1>4
  <2> HIDE DEF N
  <2>4. QED BY Zenon, <1>4, <1>5, <2>2, <2>3
<1>7. to[N + 1] = k + 1
  <2>1. {j \in T : j < k + 1} = K
    <3>1. \A j \in T : j < k + 1 <=> j \in K
      OBVIOUS
    <3>2. \A j \in K : j \in T
      OBVIOUS
    <3>3. QED BY Zenon, <3>1, <3>2
  <2>2. N + 1 \in 1 .. N + 1 /\ k + 1 \in T /\ Cardinality(K) = (N + 1) - 1
    BY <1>3
  <2> HIDE DEF N
  <2>3. QED BY Zenon, <1>5, <2>1, <2>2
<1>8. t = [n \in 1 .. N + 1 |-> fs[to[n]]]
  BY <1>2, <1>3
<1> HIDE DEF N
<1>9. Len(s) = N
  BY <1>1, <1>3
<1>10. Append(s, fs[k + 1]) = [n \in 1 .. N + 1 |-> IF n = N + 1 THEN fs[k + 1] ELSE s[n]]
  <2> DEFINE S == {s[n] : n \in 1 .. N} \cup {fs[k + 1]}
             a == Append(s, fs[k + 1])
  <2>1. s = [n \in 1 .. N |-> s[n]]
    BY <1>1
  <2>2. s \in [1 .. N -> S] /\ fs[k + 1] \in S
    BY <2>1
  <2>3. s \in Seq(S)
    <3> HIDE DEF S
    <3>1. QED BY <1>3, <2>2
  <2> HIDE DEF S
  <2>4. /\ a \in Seq(S) /\ Len(a) = N + 1 /\ a[N + 1] = fs[k + 1]
        /\ \A n \in 1 .. N : a[n] = s[n]
    BY <1>9, <2>2, <2>3, AppendProperties
  <2> HIDE DEF a
  <2>5. a = [n \in 1 .. N + 1 |-> a[n]]
    BY <2>4
  <2>6. \A n \in 1 .. N + 1 : a[n] = IF n = N + 1 THEN fs[k + 1] ELSE s[n]
    BY <1>3, <2>4
  <2>7. a = [n \in 1 .. N + 1 |-> IF n = N + 1 THEN fs[k + 1] ELSE s[n]]
    BY Zenon, <2>5, <2>6
  <2>8. QED BY <2>7 DEF a
<1>11. \A n \in 1 .. N + 1 : fs[to[n]] = IF n = N + 1 THEN fs[k + 1] ELSE s[n]
  <2> SUFFICES ASSUME NEW n \in 1 .. N + 1
               PROVE  fs[to[n]] = IF n = N + 1 THEN fs[k + 1] ELSE s[n]
    OBVIOUS
  <2>1. n = N + 1 \/ n \in 1 .. N
    BY <1>3
  <2>2. n \in 1 .. N => n # N + 1
    BY <1>3
  <2>3. QED BY <1>1, <1>6, <1>7, <2>1, <2>2
<1>12. t = Append(s, fs[k + 1])
  BY Zenon, <1>8, <1>10, <1>11
<1>13. QED BY <1>12 DEF s, t

-------------------------------------------------------------------------------
(* Sections of the report                                                    *)

LEMMA UpTo == \A n \in Nat : Cardinality(1 .. n) = n
BY FS_Interval

SevKey(q) == [i \in DOMAIN q |-> <<Rank(q[i].sev), i>>]

LEMMA SevPlaces ==
  ASSUME NEW q, NEW n \in Nat, DOMAIN q = 1 .. n, \A i \in 1 .. n : Shape(q[i])
  PROVE  \E at : Places(BySeverity(q), q, 1 .. n, Keyed(1 .. n, SevKey(q)), at)
<1> DEFINE D == 1 .. n
           key == SevKey(q)
<1>1. IsFiniteSet(D)
  BY FS_Interval
<1>2. ASSUME NEW i \in D PROVE key[i] \in [1 .. 2 -> Nat] /\ key[i][2] = i
  <2>1. key[i] = <<Rank(q[i].sev), i>>
    BY DEF SevKey
  <2>2. Rank(q[i].sev) \in Nat
    <3>1. q[i].sev \in ToSet(Severities)
      BY Zenon DEF Shape
    <3>2. QED BY Zenon, <3>1, Ranks
  <2> HIDE DEF key
  <2>3. QED BY <2>1, <2>2
<1>3. key = [i \in D |-> key[i]]
  BY DEF SevKey
<1> HIDE DEF key, D
<1>4. StrictOrder(Keyed(D, key), D)
  <2>1. key \in [D -> [1 .. 2 -> Nat]]
    BY <1>2, <1>3
  <2>2. \A i, j \in D : key[i] = key[j] => i = j
    BY <1>2
  <2>3. 2 \in Nat
    OBVIOUS
  <2>4. QED BY <2>1, <2>2, <2>3, KeyedOrder
<1>5. BySeverity(q) = Arrange(q, D, Keyed(D, key))
  <2>1. BySeverity(q) = Arrange(q, D, {p \in D \X D : Precedes(
           <<Rank(q[p[1]].sev), p[1]>>, <<Rank(q[p[2]].sev), p[2]>>)})
    BY DEF BySeverity, SortedBy, D
  <2>2. \A p \in D \X D :
          /\ key[p[1]] = <<Rank(q[p[1]].sev), p[1]>>
          /\ key[p[2]] = <<Rank(q[p[2]].sev), p[2]>>
    BY DEF SevKey, key, D
  <2>3. Keyed(D, key) = {p \in D \X D : Precedes(
           <<Rank(q[p[1]].sev), p[1]>>, <<Rank(q[p[2]].sev), p[2]>>)}
    BY <2>2 DEF Keyed
  <2>4. QED BY <2>1, <2>3
<1>6. QED BY <1>1, <1>4, <1>5, Arranged DEF D, key

(* The places of a tier's findings *)
OfTier(L, t) == {i \in DOMAIN L : TierOf(L[i]) = t}

LEMMA TierPlaces ==
  ASSUME NEW L, NEW N \in Nat, DOMAIN L = 1 .. N, NEW t
  PROVE  /\ InTier(L, t) = Arrange(L, OfTier(L, t), Up(OfTier(L, t)))
         /\ OfTier(L, t) \in SUBSET (1 .. N)
         /\ \E at : Places(InTier(L, t), L, OfTier(L, t), Up(OfTier(L, t)), at)
<1>1. OfTier(L, t) \in SUBSET (1 .. N)
  BY DEF OfTier
<1>2. InTier(L, t) = Arrange(L, OfTier(L, t), Up(OfTier(L, t)))
  BY DEF InTier, Where, OfTier, Up
<1>3. QED BY <1>1, <1>2, Picked

(* A sequence that is placed is one of its length *)
LEMMA PlacedLength ==
  ASSUME NEW s, NEW fs, NEW S, NEW R, NEW at, Places(s, fs, S, R, at)
  PROVE  Len(s) \in Nat /\ DOMAIN s = 1 .. Len(s) /\ (s = <<>> <=> Len(s) = 0)
<1>1. Len(s) \in Nat /\ s = [n \in 1 .. Len(s) |-> fs[at[n]]]
  BY DEF Places
<1>2. DOMAIN s = 1 .. Len(s)
  BY <1>1
<1>3. Len(s) = 0 => s = <<>>
  BY <1>1
<1>4. s = <<>> => Len(s) = 0
  OBVIOUS
<1>5. QED BY <1>1, <1>2, <1>3, <1>4

(* A list of findings, in the order NoLater asks for *)
InRank(L, N) ==
  /\ N \in Nat /\ DOMAIN L = 1 .. N /\ \A i \in 1 .. N : Shape(L[i])
  /\ \A i, j \in 1 .. N : i < j => NoLater(L[i], L[j])

(* s has the findings of tier t, and keeps the order of L as far as the        *)
(* severities allow                                                          *)
Tells(s, L, N, t) ==
  /\ Len(s) \in Nat /\ DOMAIN s = 1 .. Len(s) /\ (s = <<>> <=> InTier(L, t) = <<>>)
  /\ \A m \in 1 .. Len(s) : TierOf(s[m]) = t
  /\ \A i \in 1 .. N : TierOf(L[i]) = t => \E m \in 1 .. Len(s) : s[m] = L[i]
  /\ \A m, n \in 1 .. Len(s) : m < n => NoLater(s[m], s[n])

LEMMA SectionTells ==
  ASSUME NEW L, NEW N, InRank(L, N), NEW t
  PROVE  Tells(BySeverity(InTier(L, t)), L, N, t)
<1> DEFINE s == BySeverity(InTier(L, t))
<1>0. /\ N \in Nat /\ DOMAIN L = 1 .. N /\ \A i \in 1 .. N : Shape(L[i])
      /\ \A i, j \in 1 .. N : i < j => NoLater(L[i], L[j])
  BY DEF InRank
<1> DEFINE q == InTier(L, t)
           S == OfTier(L, t)
           K == Len(q)
<1>1. PICK up : Places(q, L, S, Up(S), up)
  BY <1>0, TierPlaces
<1>2. K \in Nat /\ DOMAIN q = 1 .. K /\ (q = <<>> <=> K = 0)
  BY <1>1, PlacedLength
<1>3. S \in SUBSET (1 .. N) /\ \A i \in S : TierOf(L[i]) = t
  BY <1>0 DEF OfTier
<1>4. \A i \in 1 .. N : TierOf(L[i]) = t => i \in S
  BY <1>0 DEF OfTier
<1> HIDE DEF q, S
<1>5. /\ \A m \in 1 .. K : up[m] \in S /\ q[m] = L[up[m]]
      /\ \A m, n \in 1 .. K : m < n => up[m] < up[n]
      /\ \A i \in S : \E m \in 1 .. K : up[m] = i
  BY <1>1, <1>2 DEF Places, Up
<1>6. \A m \in 1 .. K : Shape(q[m])
  BY <1>0, <1>3, <1>5
<1>7. PICK at : Places(s, q, 1 .. K, Keyed(1 .. K, SevKey(q)), at)
  BY <1>2, <1>6, SevPlaces DEF q
<1> HIDE DEF s
<1>8. Len(s) \in Nat /\ DOMAIN s = 1 .. Len(s) /\ (s = <<>> <=> Len(s) = 0)
  BY <1>7, PlacedLength
<1>9. Len(s) = K
  <2>1. Cardinality(1 .. K) = K
    BY <1>2, UpTo
  <2>2. Len(s) = Cardinality(1 .. K)
    BY <1>7 DEF Places
  <2>3. QED BY <2>1, <2>2
<1>10. /\ \A m \in 1 .. Len(s) : at[m] \in 1 .. K /\ s[m] = q[at[m]]
       /\ \A m, n \in 1 .. Len(s) : m < n => <<at[m], at[n]>> \in Keyed(1 .. K, SevKey(q))
       /\ \A i \in 1 .. K : \E m \in 1 .. Len(s) : at[m] = i
  BY <1>7 DEF Places
<1>11. ASSUME NEW m \in 1 .. Len(s) PROVE s[m] = L[up[at[m]]] /\ up[at[m]] \in S
  BY <1>5, <1>10
<1>12. ASSUME NEW m \in 1 .. Len(s) PROVE TierOf(s[m]) = t
  BY <1>3, <1>11
<1>13. ASSUME NEW i \in 1 .. N, TierOf(L[i]) = t PROVE \E m \in 1 .. Len(s) : s[m] = L[i]
  BY <1>4, <1>5, <1>10, <1>11, <1>13
<1>14. ASSUME NEW m \in 1 .. Len(s), NEW n \in 1 .. Len(s), m < n PROVE NoLater(s[m], s[n])
  <2> DEFINE a == at[m]
             b == at[n]
             f == L[up[a]]
             g == L[up[b]]
  <2>1. a \in 1 .. K /\ b \in 1 .. K /\ <<a, b>> \in Keyed(1 .. K, SevKey(q))
    BY <1>10, <1>14
  <2>2. s[m] = f /\ s[n] = g /\ up[a] \in 1 .. N /\ up[b] \in 1 .. N
    BY <1>3, <1>11
  <2>3. q[a] = f /\ q[b] = g
    BY <1>5, <2>1
  <2> HIDE DEF a, b
  <2>4. Precedes(<<Rank(f.sev), a>>, <<Rank(g.sev), b>>)
    BY <1>2, <2>1, <2>3 DEF Keyed, SevKey
  <2>5. up[a] < up[b] => NoLater(f, g)
    BY <1>0, <2>2
  <2>6. a < b => up[a] < up[b]
    BY <1>5, <2>1
  <2> HIDE DEF f, g
  <2>7. Rank(f.sev) < Rank(g.sev) \/ (Rank(f.sev) = Rank(g.sev) /\ a < b)
    BY <2>4 DEF Precedes
  <2>8. CASE Rank(f.sev) < Rank(g.sev)
    BY <2>2, <2>8 DEF NoLater
  <2>9. CASE Rank(f.sev) = Rank(g.sev) /\ a < b
    BY <2>2, <2>5, <2>6, <2>9
  <2>10. QED BY <2>7, <2>8, <2>9
<1>15. QED BY <1>2, <1>8, <1>9, <1>12, <1>13, <1>14 DEF q, s, Tells

(* The tiers that have findings *)
Section(L, t) == [num |-> t, findings |-> BySeverity(InTier(L, t))]
Sections(L) == [t \in 1 .. 5 |-> Section(L, t)]
Has(L, k) == {t \in 1 .. k : InTier(L, t) # <<>>}

LEMMA Printed ==
  ASSUME NEW L, NEW N \in Nat, DOMAIN L = 1 .. N, \A i \in 1 .. N : Shape(L[i])
  PROVE  PdfTiers(L) = Arrange(Sections(L), Has(L, 5), Up(Has(L, 5)))
<1>1. ASSUME NEW t \in 1 .. 5 PROVE BySeverity(InTier(L, t)) = <<>> <=> InTier(L, t) = <<>>
  <2> DEFINE q == InTier(L, t)
             s == BySeverity(q)
  <2>1. PICK up : Places(q, L, OfTier(L, t), Up(OfTier(L, t)), up)
    BY TierPlaces
  <2>2. Len(q) \in Nat /\ DOMAIN q = 1 .. Len(q) /\ (q = <<>> <=> Len(q) = 0)
    BY <2>1, PlacedLength
  <2>3. \A m \in 1 .. Len(q) : Shape(q[m])
    <3>1. OfTier(L, t) \in SUBSET (1 .. N)
      BY TierPlaces
    <3> HIDE DEF q
    <3>2. QED BY <2>1, <3>1 DEF Places
  <2> HIDE DEF q
  <2>4. PICK at : Places(s, q, 1 .. Len(q), Keyed(1 .. Len(q), SevKey(q)), at)
    BY <2>2, <2>3, SevPlaces
  <2> HIDE DEF s
  <2>5. Len(s) = Len(q) /\ (s = <<>> <=> Len(s) = 0)
    <3>1. Cardinality(1 .. Len(q)) = Len(q)
      BY <2>2, UpTo
    <3>2. Len(s) = Cardinality(1 .. Len(q))
      BY <2>4 DEF Places
    <3>3. s = <<>> <=> Len(s) = 0
      BY <2>4, PlacedLength
    <3>4. QED BY <3>1, <3>2, <3>3
  <2>6. QED BY <2>2, <2>5 DEF q, s
<1> DEFINE T == [t \in 1 .. 5 |-> [num |-> t, findings |-> [u \in 1 .. 5 |-> BySeverity(InTier(L, u))][t]]]
<1>2. T = Sections(L)
  BY DEF Sections, Section
<1>3. {i \in DOMAIN Sections(L) : Sections(L)[i].findings # <<>>} = Has(L, 5)
  <2>1. \A i \in 1 .. 5 : Sections(L)[i].findings = BySeverity(InTier(L, i))
    BY DEF Sections, Section
  <2>2. DOMAIN Sections(L) = 1 .. 5
    BY DEF Sections
  <2>3. QED BY <1>1, <2>1, <2>2 DEF Has
<1>4. PdfTiers(L) = LET S == {i \in DOMAIN T : T[i].findings # <<>>}
                    IN  Arrange(T, S, {p \in S \X S : p[1] < p[2]})
  BY DEF PdfTiers, Where
<1> HIDE DEF T
<1>5. QED BY <1>2, <1>3, <1>4 DEF Up

(* One more section for the web page *)
WithTier(out, L, t) == IF InTier(L, t) = <<>> THEN out ELSE Append(out, Section(L, t))

LEMMA WebUnfolds ==
  ASSUME NEW L
  PROVE  \E f : /\ WebTiers(L) = f[DOMAIN <<1, 2, 3, 4, 5>>]
                /\ f = CHOOSE g : g = [s \in SUBSET DOMAIN <<1, 2, 3, 4, 5>> |->
                         IF s = {} THEN <<>> ELSE WithTier(g[s \ {Top(s)}], L, <<1, 2, 3, 4, 5>>[Top(s)])]
BY Zenon DEF WebTiers, FoldLeft, MapThenFoldSet, Max, Top, WithTier, Section

LEMMA WebSteps ==
  ASSUME NEW L
  PROVE  \E r : /\ r[0] = <<>> /\ r[5] = WebTiers(L)
                /\ \A k \in 0 .. 4 : r[k + 1] = WithTier(r[k], L, k + 1)
<1> DEFINE Z == <<1, 2, 3, 4, 5>>
           A == Seq({Section(L, t) : t \in 1 .. 5})
           G == [p \in (1 .. 5) \X A |-> WithTier(p[2], L, p[1])]
           E(g) == [s \in SUBSET DOMAIN Z |->
                      IF s = {} THEN <<>> ELSE WithTier(g[s \ {Top(s)}], L, Z[Top(s)])]
<1>0. DOMAIN Z = 1 .. 5 /\ \A i \in 1 .. 5 : Z[i] = i
  OBVIOUS
<1>1. PICK f : WebTiers(L) = f[DOMAIN Z] /\ f = CHOOSE g : g = E(g)
  BY WebUnfolds
<1>2. <<>> \in A
  OBVIOUS
<1> HIDE DEF Z
<1>3. G \in [(1 .. 5) \X A -> A]
      /\ \A i \in 1 .. 5, a \in A : G[<<i, a>>] = WithTier(a, L, i)
  <2>1. \A p \in (1 .. 5) \X A : WithTier(p[2], L, p[1]) \in A
    BY DEF WithTier
  <2> HIDE DEF A
  <2>2. QED BY <2>1
<1>4. PICK h \in [SUBSET (1 .. 5) -> A] : LeftFold(h, 5, <<>>, G)
  <2>1. 5 \in Nat
    OBVIOUS
  <2> HIDE DEF G, A
  <2>2. QED BY <1>2, <1>3, <2>1, LeftFoldExists
<1>5. h = E(h)
  <2>1. ASSUME NEW s \in SUBSET (1 .. 5), s # {}
        PROVE  h[s] = WithTier(h[s \ {Top(s)}], L, Z[Top(s)])
    <3>1. Top(s) \in 1 .. 5 /\ Z[Top(s)] = Top(s)
      BY <1>0, <2>1, TopIn
    <3>2. h[s] = G[<<Top(s), h[s \ {Top(s)}]>>]
      BY <1>4, <2>1 DEF LeftFold
    <3> HIDE DEF G, A
    <3>3. h[s \ {Top(s)}] \in A
      OBVIOUS
    <3>4. QED BY <1>3, <3>1, <3>2, <3>3
  <2>2. h[{}] = <<>>
    BY <1>4 DEF LeftFold
  <2> HIDE DEF G, A
  <2>3. QED BY <1>0, <2>1, <2>2
<1>6. f = E(f)
  <2> HIDE DEF E
  <2>1. QED BY <1>1, <1>5
<1> DEFINE r == [k \in 0 .. 5 |-> f[1 .. k]]
<1>7. r[0] = <<>> /\ r[5] = WebTiers(L)
  <2>1. 1 .. 0 = {} /\ {} \in SUBSET (1 .. 5)
    OBVIOUS
  <2>2. f[1 .. 0] = <<>>
    BY <1>0, <1>6, <2>1
  <2>3. QED BY <1>0, <1>1, <2>2
<1>8. ASSUME NEW k \in 0 .. 4 PROVE r[k + 1] = WithTier(r[k], L, k + 1)
  <2>1. 1 .. k + 1 \in SUBSET (1 .. 5) /\ 1 .. k + 1 # {} /\ (1 .. k + 1) \ {k + 1} = 1 .. k
    BY <1>8, IntervalLess
  <2>2. Top(1 .. k + 1) = k + 1 /\ Z[k + 1] = k + 1
    BY <1>0, TopOfInterval
  <2>3. f[1 .. k + 1] = WithTier(f[1 .. k], L, k + 1)
    <3>1. \A s \in SUBSET (1 .. 5) : s # {} => f[s] = WithTier(f[s \ {Top(s)}], L, Z[Top(s)])
      BY <1>0, <1>6
    <3>2. QED BY Zenon, <2>1, <2>2, <3>1
  <2>4. QED BY <2>3
<1>9. QED BY <1>7, <1>8

LEMMA Shown ==
  ASSUME NEW L, NEW N \in Nat, DOMAIN L = 1 .. N, \A i \in 1 .. N : Shape(L[i])
  PROVE  WebTiers(L) = PdfTiers(L)
<1> DEFINE T == Sections(L)
           Upto(k) == Arrange(T, Has(L, k), Up(Has(L, k)))
<1>1. PICK r : /\ r[0] = <<>> /\ r[5] = WebTiers(L)
               /\ \A k \in 0 .. 4 : r[k + 1] = WithTier(r[k], L, k + 1)
  BY WebSteps
<1>2. r[0] = Upto(0)
  <2>1. Has(L, 0) = {}
    BY DEF Has
  <2>2. Cardinality({}) = 0
    BY FS_EmptySet
  <2>3. Arrange(T, {}, Up({})) = <<>>
    BY <2>2 DEF Arrange
  <2>4. QED BY <1>1, <2>1, <2>3
<1>3. ASSUME NEW k \in 0 .. 4, r[k] = Upto(k) PROVE r[k + 1] = Upto(k + 1)
  <2>1. r[k + 1] = WithTier(Upto(k), L, k + 1)
    BY <1>1, <1>3
  <2>2. CASE InTier(L, k + 1) = <<>>
    <3>1. Has(L, k + 1) = Has(L, k)
      BY <2>2 DEF Has
    <3>2. QED BY <2>1, <2>2, <3>1 DEF WithTier
  <2>3. CASE InTier(L, k + 1) # <<>>
    <3>1. Has(L, k + 1) = Has(L, k) \cup {k + 1} /\ Has(L, k) \in SUBSET (1 .. k) /\ k \in Nat
      BY <2>3 DEF Has
    <3> HIDE DEF T
    <3>2. Upto(k + 1) = Append(Upto(k), T[k + 1])
      BY <3>1, Extended
    <3>3. T[k + 1] = Section(L, k + 1)
      BY DEF T, Sections
    <3>4. QED BY <2>1, <2>3, <3>2, <3>3 DEF WithTier
  <2>4. QED BY <2>2, <2>3
<1> HIDE DEF Upto
<1>4. r[5] = Upto(5)
  <2>1. r[1] = Upto(1)
    BY <1>2, <1>3
  <2>2. r[2] = Upto(2)
    BY <1>3, <2>1
  <2>3. r[3] = Upto(3)
    BY <1>3, <2>2
  <2>4. r[4] = Upto(4)
    BY <1>3, <2>3
  <2>5. QED BY <1>3, <2>4
<1>5. QED BY <1>1, <1>4, Printed DEF Upto

(* What is listed is what is stored *)
LEMMA ListedTells ==
  ASSUME Stays, Stored
  PROVE  /\ Shaped(rows) /\ Len(rows) \in Nat
         /\ DOMAIN Listed = 1 .. Len(rows) /\ Len(Listed) = Len(rows)
         /\ \A i \in 1 .. Len(rows) : Shape(Listed[i])
         /\ \E at : Shuffles(Listed, rows, at)
         /\ \A m, n \in 1 .. Len(rows) : m < n => NoLater(Listed[m], Listed[n])
<1>1. Shaped(rows)
  <2>1. IsList(rows)
    BY Rows
  <2>2. \A n \in 1 .. Len(rows) : Shape(rows[n])
    BY Rows DEF Retagged
  <2>3. QED BY <2>1, <2>2, Rows DEF Shaped
<1>2. /\ Len(rows) \in Nat /\ \A i \in 1 .. Len(rows) : Shape(rows[i])
  BY <1>1, ShapedList
<1>3. PICK at : /\ Shuffles(Listed, rows, at)
                /\ \A m, n \in 1 .. Len(rows) : m < n => NoLater(Listed[m], Listed[n])
  BY <1>1, ListedPlaces DEF Listed
<1>4. /\ at \in [1 .. Len(rows) -> 1 .. Len(rows)]
      /\ Listed = [n \in 1 .. Len(rows) |-> rows[at[n]]]
  BY <1>3 DEF Shuffles
<1> HIDE DEF Listed
<1>5. /\ DOMAIN Listed = 1 .. Len(rows) /\ Len(Listed) = Len(rows)
      /\ \A i \in 1 .. Len(rows) : Shape(Listed[i])
  BY <1>2, <1>4
<1>6. QED BY <1>1, <1>2, <1>3, <1>5

(* The web page and the PDF have the same sections, of the same findings in    *)
(* the same order (reportview.go:10-12).                                     *)
THEOREM SameStoryHolds == Spec => []SameStory
<1>1. Stays => SameStory
  <2> SUFFICES ASSUME Stays, Stored PROVE WebTiers(Listed) = PdfTiers(Listed)
    BY DEF SameStory
  <2>1. /\ Len(rows) \in Nat /\ DOMAIN Listed = 1 .. Len(rows)
        /\ \A i \in 1 .. Len(rows) : Shape(Listed[i])
    BY ListedTells
  <2> HIDE DEF Listed
  <2>2. QED BY <2>1, Shown
<1>2. QED BY <1>1, StaysInvariance, PTL

(* A finding stands in one tier, and in a tier no finding comes before one it  *)
(* should come after (the header of reportview.go; ListFindings' ORDER BY).   *)
THEOREM TiersTellHolds == Spec => []TiersTell
<1>1. ASSUME Stays, Stored PROVE TiersTell
  <2> DEFINE L == Listed
             N == Len(rows)
             P == PdfTiers(L)
             shown == Each(P, LAMBDA g : g.findings)
             M == Len(P)
             S(t) == BySeverity(InTier(L, t))
  <2>1. /\ N \in Nat /\ DOMAIN L = 1 .. N /\ \A i \in 1 .. N : Shape(L[i])
        /\ \A m, n \in 1 .. N : m < n => NoLater(L[m], L[n])
        /\ DOMAIN rows = 1 .. N /\ ToSet(rows) = {rows[n] : n \in 1 .. N}
    BY <1>1, ListedTells, Rows
  <2>2. \A f \in ToSet(rows) : \E i \in 1 .. N : L[i] = f
    <3>1. PICK at : Shuffles(L, rows, at)
      BY <1>1, ListedTells
    <3> HIDE DEF L
    <3>2. QED BY <2>1, <3>1 DEF Shuffles
  <2> HIDE DEF L, N
  <2>3. PICK at : Places(P, Sections(L), Has(L, 5), Up(Has(L, 5)), at)
    <3>1. P = Arrange(Sections(L), Has(L, 5), Up(Has(L, 5)))
      BY <2>1, Printed
    <3>2. Has(L, 5) \in SUBSET (1 .. 5) /\ DOMAIN Sections(L) = 1 .. 5 /\ 5 \in Nat
      BY DEF Has, Sections
    <3> HIDE DEF P
    <3>3. QED BY <3>1, <3>2, Picked
  <2>4. M \in Nat /\ DOMAIN P = 1 .. M
    BY <2>3, PlacedLength
  <2> HIDE DEF P
  <2>5. /\ \A m \in 1 .. M : at[m] \in Has(L, 5) /\ P[m] = Sections(L)[at[m]]
        /\ \A m, n \in 1 .. M : at[m] = at[n] => m = n
        /\ \A t \in Has(L, 5) : \E m \in 1 .. M : at[m] = t
    BY <2>3 DEF Places
  <2>6. DOMAIN shown = 1 .. M /\ \A m \in 1 .. M : shown[m] = P[m].findings
    BY <2>4 DEF Each
  <2>7. ASSUME NEW m \in 1 .. M PROVE at[m] \in 1 .. 5 /\ shown[m] = S(at[m])
    <3>1. at[m] \in 1 .. 5 /\ P[m] = Sections(L)[at[m]]
      BY <2>5 DEF Has
    <3>2. Sections(L)[at[m]] = Section(L, at[m])
      BY <3>1 DEF Sections
    <3>3. P[m] = Section(L, at[m])
      BY <3>1, <3>2
    <3>4. P[m].findings = S(at[m])
      BY <3>3 DEF Section
    <3> HIDE DEF shown, S
    <3>5. QED BY <2>6, <3>1, <3>4
  <2> HIDE DEF shown, M
  <2>8. ASSUME NEW t
        PROVE  /\ Len(S(t)) \in Nat /\ DOMAIN S(t) = 1 .. Len(S(t))
               /\ (S(t) = <<>> <=> InTier(L, t) = <<>>)
               /\ \A m \in 1 .. Len(S(t)) : TierOf(S(t)[m]) = t
               /\ \A i \in 1 .. N : TierOf(L[i]) = t => \E m \in 1 .. Len(S(t)) : S(t)[m] = L[i]
               /\ \A m, n \in 1 .. Len(S(t)) : m < n => NoLater(S(t)[m], S(t)[n])
    <3>1. InRank(L, N)
      BY <2>1 DEF InRank
    <3>2. Tells(S(t), L, N, t)
      BY <3>1, SectionTells
    <3> HIDE DEF S
    <3>3. QED BY Zenon, <3>2 DEF Tells
  <2> HIDE DEF S
  <2>9. ASSUME NEW f \in ToSet(rows) PROVE Cardinality({t \in DOMAIN shown : Contains(shown[t], f)}) = 1
    <3> DEFINE C == {t \in 1 .. M : Contains(shown[t], f)}
    <3>1. PICK i \in 1 .. N : L[i] = f
      BY <2>2
    <3>2. PICK j \in 1 .. Len(S(TierOf(f))) : S(TierOf(f))[j] = f
      BY <2>8, <3>1
    <3>3. TierOf(f) \in Has(L, 5)
      <4>1. TierOf(f) \in 1 .. 5
        BY DEF TierOf
      <4>2. S(TierOf(f)) # <<>>
        BY <3>2
      <4>3. QED BY <2>8, <4>1, <4>2 DEF Has
    <3>4. PICK m \in 1 .. M : at[m] = TierOf(f)
      BY <2>5, <3>3
    <3>5. m \in C
      BY <2>7, <3>2, <3>4 DEF Contains
    <3>6. ASSUME NEW n \in C PROVE n = m
      <4>1. n \in 1 .. M /\ Contains(S(at[n]), f)
        BY <2>7, <3>6
      <4>2. TierOf(f) = at[n]
        BY <2>8, <4>1 DEF Contains
      <4>3. QED BY <2>5, <3>4, <4>1, <4>2
    <3>7. {t \in DOMAIN shown : Contains(shown[t], f)} = C
      BY <2>6
    <3> HIDE DEF C
    <3>8. C = {m}
      BY <3>5, <3>6
    <3>9. QED BY <3>7, <3>8, FS_Singleton
  <2>10. ASSUME NEW t \in DOMAIN shown, NEW i \in DOMAIN shown[t], NEW j \in DOMAIN shown[t], i < j
         PROVE  NoLater(shown[t][i], shown[t][j])
    BY <2>6, <2>7, <2>8, <2>10
  <2>11. QED BY <2>9, <2>10 DEF TiersTell, shown, P, L, NoLater
<1>2. QED BY <1>1, StaysInvariance, PTL DEF TiersTell

-------------------------------------------------------------------------------
(* Counts                                                                    *)

OfSev(q, sev) == {i \in 1 .. Len(q) : q[i].sev = sev}
OfCat(q, cat) == {i \in 1 .. Len(q) : q[i].cat = cat}

Levels == ToSet(Severities)

LEMMA FiveLevels ==
  Levels = {"critical", "high", "medium", "low", "info"} /\ IsFiniteSet(Levels)
<1>1. Levels = {"critical", "high", "medium", "low", "info"}
  BY DEF Levels, ToSet, Severities
<1>2. IsFiniteSet(Levels)
  <2>1. IsFiniteSet({"critical"} \cup {"high"})
    BY FS_Singleton, FS_AddElement
  <2>2. IsFiniteSet(({"critical"} \cup {"high"}) \cup {"medium"})
    BY <2>1, FS_AddElement
  <2>3. IsFiniteSet((({"critical"} \cup {"high"}) \cup {"medium"}) \cup {"low"})
    BY <2>2, FS_AddElement
  <2>4. IsFiniteSet(((({"critical"} \cup {"high"}) \cup {"medium"}) \cup {"low"}) \cup {"info"})
    BY <2>3, FS_AddElement
  <2>5. Levels = ((({"critical"} \cup {"high"}) \cup {"medium"}) \cup {"low"}) \cup {"info"}
    BY <1>1
  <2>6. QED BY <2>4, <2>5
<1>3. QED BY <1>1, <1>2

LEMMA CountsOf ==
  ASSUME NEW q, Shaped(q)
  PROVE  Summarize(q) = [sev \in Levels |-> Cardinality(OfSev(q, sev))]
<1>1. /\ Len(q) \in Nat /\ DOMAIN q = 1 .. Len(q)
      /\ \A i \in 1 .. Len(q) : q[i].sev \in Levels
  BY ShapedList DEF Shape, Levels
<1>2. {i \in DOMAIN q : q[i].sev \notin {"critical", "high", "medium", "low"}} = OfSev(q, "info")
  BY <1>1, FiveLevels DEF OfSev
<1>3. \A sev : {i \in DOMAIN q : q[i].sev = sev} = OfSev(q, sev)
  BY <1>1 DEF OfSev
<1>4. Summarize(q) = [critical |-> Cardinality(OfSev(q, "critical")),
                      high     |-> Cardinality(OfSev(q, "high")),
                      medium   |-> Cardinality(OfSev(q, "medium")),
                      low      |-> Cardinality(OfSev(q, "low")),
                      info     |-> Cardinality(OfSev(q, "info"))]
  BY Zenon, <1>2, <1>3 DEF Summarize, Count
<1>5. QED BY <1>4, FiveLevels

(* As many are listed under a severity as there are *)
LEMMA ListedUnder ==
  ASSUME NEW q, Shaped(q), NEW sev
  PROVE  Len(ListFindings(q, LAMBDA f : f.sev = sev)) = Cardinality(OfSev(q, sev))
<1> DEFINE B == ByRank(q)
           D == 1 .. Len(q)
           S == {i \in DOMAIN B : B[i].sev = sev}
           T == OfSev(q, sev)
<1>1. Len(q) \in Nat /\ Cardinality(D) = Len(q) /\ IsFiniteSet(D)
  BY ShapedList, UpTo
<1>2. PICK at : Places(B, q, D, Keyed(D, RankKey(q)), at)
  BY ByRankPlaces
<1>3. ListFindings(q, LAMBDA f : f.sev = sev) = Arrange(B, S, {p \in S \X S : p[1] < p[2]})
  BY DEF ListFindings, Where
<1> HIDE DEF B
<1>4. Len(B) = Len(q) /\ DOMAIN B = D
  BY <1>1, <1>2, PlacedLength DEF Places
<1>5. S \in SUBSET (1 .. Len(B))
  BY <1>4
<1>6. PICK up : Places(Arrange(B, S, Up(S)), B, S, Up(S), up)
  <2>1. DOMAIN B = 1 .. Len(B) /\ Len(B) \in Nat
    BY <1>1, <1>4
  <2> HIDE DEF S
  <2>2. QED BY <1>5, <2>1, Picked
<1>7. Len(Arrange(B, S, Up(S))) = Cardinality(S)
  BY <1>6 DEF Places
<1>8. S = {n \in 1 .. Len(B) : at[n] \in T}
  <2>1. \A n \in D : at[n] \in D /\ B[n] = q[at[n]]
    BY <1>2, <1>4 DEF Places
  <2>2. \A n \in D : B[n].sev = sev <=> at[n] \in T
    BY <2>1 DEF OfSev
  <2>3. QED BY <1>4, <2>2
<1>9. T \in SUBSET D
  BY DEF OfSev
<1> HIDE DEF S, T
<1>10. Cardinality(S) = Cardinality(T)
  <2>1. IsFiniteSet(D)
    BY <1>1
  <2> HIDE DEF D
  <2>2. Cardinality({n \in 1 .. Len(B) : at[n] \in T}) = Cardinality(T)
    BY <1>2, <1>9, <2>1, Counted
  <2>3. QED BY Zenon, <1>8, <2>2
<1>11. QED BY <1>3, <1>7, <1>10 DEF Up, T

LEMMA RowTotalOf ==
  ASSUME NEW L, NEW N \in Nat, DOMAIN L = 1 .. N, Len(L) = N,
         \A i \in 1 .. N : Shape(L[i]), NEW cat
  PROVE  RowTotal(StatsRow(L, cat)) = Cardinality(OfCat(L, cat))
<1> DEFINE D == [sev \in Levels |-> {i \in 1 .. N : L[i].cat = cat /\ L[i].sev = sev}]
<1>1. StatsRow(L, cat).counts
        = [sev \in Levels |-> Cardinality({i \in 1 .. N : L[i].cat = cat /\ L[i].sev = sev})]
  BY DEF StatsRow, Count, Levels
<1>2. StatsRow(L, cat).counts = PartSizes(D, Levels)
  BY <1>1 DEF PartSizes
<1>3. Parts(D, Levels, 1 .. N)
  BY DEF Parts
<1>4. Joined(D, Levels, 1 .. N) = OfCat(L, cat)
  <2>1. \A i \in 1 .. N : L[i].sev \in Levels
    BY DEF Shape, Levels
  <2>2. QED BY <2>1 DEF OfCat, Joined
<1> HIDE DEF D
<1>5. SumFunction(PartSizes(D, Levels)) = Cardinality(Joined(D, Levels, 1 .. N))
  <2>1. IsFiniteSet(1 .. N)
    BY FS_Interval
  <2>2. QED BY <1>3, <2>1, FiveLevels, SumOfParts
<1>6. QED BY <1>2, <1>4, <1>5 DEF RowTotal

(* The totals of rows that count disjoint sets *)
RowSum(l) == FoldLeft(LAMBDA sum, r : sum + RowTotal(r), 0, l)

LEMMA TotalUnfolds ==
  ASSUME NEW l
  PROVE  \E f : /\ RowSum(l) = f[DOMAIN l]
                /\ f = CHOOSE g : g = [s \in SUBSET DOMAIN l |->
                         IF s = {} THEN 0 ELSE g[s \ {Top(s)}] + RowTotal(l[Top(s)])]
BY Zenon DEF RowSum, FoldLeft, MapThenFoldSet, Max, Top

LEMMA RowTotals ==
  ASSUME NEW l, NEW n \in Nat, DOMAIN l = 1 .. n, NEW U, IsFiniteSet(U),
         NEW D, Parts(D, 1 .. n, U), \A i \in 1 .. n : RowTotal(l[i]) = Cardinality(D[i])
  PROVE  RowSum(l) = Cardinality(Joined(D, 1 .. n, U))
<1> DEFINE E(g) == [s \in SUBSET DOMAIN l |->
                      IF s = {} THEN 0 ELSE g[s \ {Top(s)}] + RowTotal(l[Top(s)])]
<1>1. PICK f : /\ RowSum(l) = f[DOMAIN l]
               /\ f = CHOOSE g : g = E(g)
  BY TotalUnfolds
<1>2. PICK C, w : C = Tops(n) /\ w = PartSizes(D, 1 .. n)
  OBVIOUS
<1>3. /\ Takes(C, 1 .. n) /\ IsFiniteSet(1 .. n)
      /\ \A s \in SUBSET (1 .. n) : s # {} => C[s] = Top(s) /\ Top(s) \in s
  BY <1>2, TopsIn
<1>4. w \in [1 .. n -> Nat] /\ \A i \in 1 .. n : RowTotal(l[i]) = w[i]
  <2>1. w \in [1 .. n -> Nat]
    BY <1>2, PartSizesType
  <2>2. \A i \in 1 .. n : w[i] = Cardinality(D[i])
    BY <1>2 DEF PartSizes
  <2>3. QED BY <2>1, <2>2
<1>5. ASSUME NEW g PROVE g = E(g) <=> Adds(g, 1 .. n, C, w)
  <2> DEFINE F == [s \in SUBSET (1 .. n) |-> IF s = {} THEN 0 ELSE g[s \ {C[s]}] + w[C[s]]]
  <2>1. \A s \in SUBSET (1 .. n) : s # {} => C[s] = Top(s) /\ RowTotal(l[Top(s)]) = w[C[s]]
    BY <1>3, <1>4
  <2>2. E(g) = F
    BY <2>1
  <2> HIDE DEF E, F
  <2>3. g = E(g) <=> g = F
    BY <2>2
  <2>4. QED BY <2>3 DEF F, Adds
<1> HIDE DEF E
<1>6. PICK h : Adds(h, 1 .. n, C, w)
  BY <1>3, <1>4, AddsExist
<1>7. f = E(f)
  BY Zenon, <1>1, <1>5, <1>6
<1>8. Totals(f, 1 .. n, C, w)
  BY <1>3, <1>4, <1>5, <1>7, TotalOfAdds
<1>9. f[1 .. n] = Cardinality(Joined(D, 1 .. n, U))
  BY <1>2, <1>3, <1>8, TotalOfParts
<1>10. QED BY <1>1, <1>9

(* What the tables of the reports count is all that is listed *)
LEMMA StatsTotal ==
  ASSUME NEW L, NEW N \in Nat, DOMAIN L = 1 .. N, Len(L) = N, \A i \in 1 .. N : Shape(L[i])
  PROVE  RowSum(Stats(L)) = N
<1> DEFINE T == Each(Categories, LAMBDA c : StatsRow(L, c))
           K == {i \in DOMAIN T : \E f \in ToSet(L) : f.cat = T[i].label}
           l == Stats(L)
           n == Len(l)
<1>1. DOMAIN T = 1 .. 4 /\ \A i \in 1 .. 4 : T[i] = StatsRow(L, Categories[i])
  BY DEF Each, Categories
<1>2. /\ \A i, j \in 1 .. 4 : Categories[i] = Categories[j] => i = j
      /\ \A c \in ToSet(Categories) : \E i \in 1 .. 4 : Categories[i] = c
  BY DEF Categories, ToSet
<1>3. l = Arrange(T, K, {p \in K \X K : p[1] < p[2]})
  BY DEF Stats, Where
<1> HIDE DEF T
<1>4. K \in SUBSET (1 .. 4)
  BY <1>1
<1>5. \A i \in 1 .. N : \E k \in K : Categories[k] = L[i].cat
  <2> SUFFICES ASSUME NEW i \in 1 .. N PROVE \E k \in K : Categories[k] = L[i].cat
    OBVIOUS
  <2>1. L[i].cat \in ToSet(Categories)
    BY Zenon DEF Shape
  <2>2. PICK k \in 1 .. 4 : Categories[k] = L[i].cat
    BY <1>2, <2>1
  <2>3. T[k].label = L[i].cat
    BY <1>1, <2>2 DEF StatsRow
  <2>4. L[i] \in ToSet(L)
    BY DEF ToSet
  <2>5. k \in K
    BY <1>1, <2>3, <2>4
  <2>6. QED BY <2>2, <2>5
<1> HIDE DEF K, l
<1>6. PICK at : Places(l, T, K, Up(K), at)
  <2>1. 4 \in Nat
    OBVIOUS
  <2>2. QED BY <1>1, <1>3, <1>4, <2>1, Picked DEF Up
<1>7. n \in Nat /\ DOMAIN l = 1 .. n
  BY <1>6, PlacedLength
<1>8. /\ \A m \in 1 .. n : at[m] \in K /\ l[m] = T[at[m]]
      /\ \A i, j \in 1 .. n : at[i] = at[j] => i = j
      /\ \A k \in K : \E m \in 1 .. n : at[m] = k
  BY <1>6 DEF Places
<1> DEFINE D == [m \in 1 .. n |-> OfCat(L, Categories[at[m]])]
<1>9. Parts(D, 1 .. n, 1 .. N)
  <2>1. \A m \in 1 .. n : D[m] = {i \in 1 .. N : L[i].cat = Categories[at[m]]}
    BY DEF OfCat
  <2>2. \A m \in 1 .. n : D[m] \in SUBSET (1 .. N)
    BY <2>1
  <2>3. \A i, j \in 1 .. n : i # j => Categories[at[i]] # Categories[at[j]]
    BY <1>2, <1>4, <1>8
  <2>4. D = [m \in 1 .. n |-> D[m]]
    OBVIOUS
  <2> HIDE DEF D
  <2>5. \A i, j \in 1 .. n : i # j => D[i] \cap D[j] = {}
    BY <2>1, <2>3
  <2>6. D \in [1 .. n -> SUBSET (1 .. N)]
    BY <2>2, <2>4
  <2>7. QED BY <2>5, <2>6 DEF Parts
<1>10. ASSUME NEW m \in 1 .. n PROVE RowTotal(l[m]) = Cardinality(D[m])
  <2>1. l[m] = StatsRow(L, Categories[at[m]])
    BY <1>1, <1>4, <1>8
  <2>2. QED BY <2>1, RowTotalOf
<1>11. Joined(D, 1 .. n, 1 .. N) = 1 .. N
  <2>1. ASSUME NEW i \in 1 .. N PROVE \E m \in 1 .. n : i \in D[m]
    <3>1. PICK m \in 1 .. n : Categories[at[m]] = L[i].cat
      BY <1>5, <1>8
    <3>2. i \in D[m]
      BY <3>1 DEF OfCat
    <3>3. QED BY <3>2
  <2> HIDE DEF D
  <2>2. QED BY <2>1 DEF Joined
<1> HIDE DEF D
<1>12. RowSum(l) = Cardinality(Joined(D, 1 .. n, 1 .. N))
  <2>1. IsFiniteSet(1 .. N)
    BY FS_Interval
  <2>2. \A m \in 1 .. n : RowTotal(l[m]) = Cardinality(D[m])
    BY <1>10
  <2> HIDE DEF n
  <2>3. QED BY <1>7, <1>9, <2>1, <2>2, RowTotals
<1>13. QED BY <1>11, <1>12, UpTo DEF l

(* The badges count the rows stored, and both reports count them all (the      *)
(* summary of SetJobSummary, the tables of pdf.go and reportview.go).         *)
THEOREM CountsAgreeHolds == Spec => []CountsAgree
<1>1. ASSUME Stays, Stored PROVE CountsAgree
  <2> DEFINE N == Len(rows)
             counts == summary.counts
             D == [sev \in Levels |-> OfSev(rows, sev)]
  <2>1. /\ Shaped(rows) /\ N \in Nat /\ DOMAIN Listed = 1 .. N
        /\ \A i \in 1 .. N : Shape(Listed[i])
    BY <1>1, ListedTells
  <2>2. counts = [sev \in Levels |-> Cardinality(OfSev(rows, sev))]
    BY <1>1, <2>1, CountsOf DEF Stays
  <2> HIDE DEF counts
  <2>3. \A sev \in DOMAIN counts : counts[sev] = Len(ListFindings(rows, LAMBDA f : f.sev = sev))
    BY <2>1, <2>2, ListedUnder
  <2>4. SumFunction(counts) = N
    <3>1. Parts(D, Levels, 1 .. N)
      BY DEF OfSev, Parts
    <3>2. counts = PartSizes(D, Levels)
      BY <2>2 DEF PartSizes
    <3>3. Joined(D, Levels, 1 .. N) = 1 .. N
      <4>1. \A i \in 1 .. N : rows[i].sev \in Levels
        BY <2>1, ShapedList DEF Shape, Levels
      <4>2. QED BY <4>1 DEF OfSev, Joined
    <3> HIDE DEF D
    <3>4. SumFunction(PartSizes(D, Levels)) = Cardinality(Joined(D, Levels, 1 .. N))
      <4>1. IsFiniteSet(1 .. N)
        BY <2>1, FS_Interval
      <4>2. QED BY <3>1, <4>1, FiveLevels, SumOfParts
    <3>5. QED BY <2>1, <3>2, <3>3, <3>4, UpTo
  <2>5. RowSum(Stats(Listed)) = N
    <3>1. Len(Listed) = N
      BY <1>1, ListedTells
    <3> HIDE DEF Listed, N
    <3>2. QED BY <2>1, <3>1, StatsTotal
  <2>6. QED BY <2>3, <2>4, <2>5 DEF CountsAgree, RowSum, counts
<1>2. QED BY <1>1, StaysInvariance, PTL DEF CountsAgree

-------------------------------------------------------------------------------
(* The SARIF log                                                             *)

Result(f) == [rule |-> RuleRef(f), level |-> SarifLevel(f.sev), of |-> f]

(* What the log of the findings L is made of *)
RunsOf(L) == [tool : {"semgrep", "trivy"}, rules : Seq({RuleRef(f) : f \in ToSet(L)}),
              results : Seq({Result(f) : f \in ToSet(L)})]

NewRun(tool) == [tool |-> tool, rules |-> <<>>, results |-> <<>>]

FiledRun(r, f) ==
  [tool    |-> r.tool,
   rules   |-> IF Contains(r.rules, RuleRef(f)) THEN r.rules ELSE Append(r.rules, RuleRef(f)),
   results |-> Append(r.results, Result(f))]

Opened(a, f) == IF \E r \in ToSet(a) : r.tool = f.tool THEN a ELSE Append(a, NewRun(f.tool))

Refills(p, r) == p = [r EXCEPT !.rules = p.rules, !.results = p.results]

LEMMA FiledRunType ==
  ASSUME NEW L, NEW r \in RunsOf(L), NEW f \in ToSet(L)
  PROVE  /\ FiledRun(r, f) \in RunsOf(L)
         /\ Refills(FiledRun(r, f), r)
<1>1. RuleRef(f) \in {RuleRef(x) : x \in ToSet(L)} /\ Result(f) \in {Result(x) : x \in ToSet(L)}
  OBVIOUS
<1>2. r.rules \in Seq({RuleRef(x) : x \in ToSet(L)}) /\ r.results \in Seq({Result(x) : x \in ToSet(L)})
  BY DEF RunsOf
<1>3. /\ Append(r.rules, RuleRef(f)) \in Seq({RuleRef(x) : x \in ToSet(L)})
      /\ Append(r.results, Result(f)) \in Seq({Result(x) : x \in ToSet(L)})
  BY <1>1, <1>2, AppendProperties
<1>4. FiledRun(r, f) \in RunsOf(L)
  BY <1>2, <1>3 DEF FiledRun, RunsOf
<1>5. FiledRun(r, f) = [r EXCEPT !.rules = FiledRun(r, f).rules, !.results = FiledRun(r, f).results]
  <2>1. \A p \in RunsOf(L) :
          p.tool = r.tool => p = [r EXCEPT !.rules = p.rules, !.results = p.results]
    BY DEF RunsOf
  <2>2. FiledRun(r, f).tool = r.tool
    BY DEF FiledRun
  <2>3. QED BY <1>4, <2>1, <2>2
<1>6. QED BY <1>4, <1>5 DEF Refills

(* A finding is filed in the one run of its tool *)
LEMMA Filing ==
  ASSUME NEW L, NEW a \in Seq(RunsOf(L)), NEW f \in ToSet(L), f.tool \in {"semgrep", "trivy"}
  PROVE  \E n \in 1 .. Len(Opened(a, f)) :
           /\ Opened(a, f) \in Seq(RunsOf(L)) /\ Opened(a, f)[n].tool = f.tool
           /\ AddResult(a, f) = [Opened(a, f) EXCEPT ![n] = FiledRun(Opened(a, f)[n], f)]
           /\ AddResult(a, f) \in Seq(RunsOf(L))
<1> DEFINE b == Opened(a, f)
           n == CHOOSE i \in DOMAIN b : b[i].tool = f.tool
<1>2. NewRun(f.tool) \in RunsOf(L)
  BY DEF NewRun, RunsOf
<1>3. b \in Seq(RunsOf(L)) /\ \E m \in 1 .. Len(b) : b[m].tool = f.tool
  <2>1. CASE \E r \in ToSet(a) : r.tool = f.tool
    BY <2>1 DEF Opened, ToSet
  <2>2. CASE ~\E r \in ToSet(a) : r.tool = f.tool
    <3>1. b = Append(a, NewRun(f.tool))
      BY <2>2 DEF Opened
    <3>2. b \in Seq(RunsOf(L)) /\ Len(b) = Len(a) + 1 /\ b[Len(b)] = NewRun(f.tool)
      BY <1>2, <3>1, AppendProperties
    <3>3. NewRun(f.tool).tool = f.tool
      BY DEF NewRun
    <3>4. Len(b) \in 1 .. Len(b)
      BY <3>2
    <3>5. QED BY <3>2, <3>3, <3>4
  <2>3. QED BY <2>1, <2>2
<1>4. DOMAIN b = 1 .. Len(b) /\ Len(b) \in Nat
  BY <1>3
<1>6. n \in 1 .. Len(b) /\ b[n].tool = f.tool
  BY <1>3, <1>4 DEF n
<1>7. AddResult(a, f) =
        [b EXCEPT ![n].rules = IF Contains(@, RuleRef(f)) THEN @ ELSE Append(@, RuleRef(f)),
                  ![n].results = Append(@, Result(f))]
  BY Zenon DEF AddResult, Opened, NewRun, Result
<1> HIDE DEF b, n
<1>8. b[n] \in RunsOf(L)
  BY <1>3, <1>6
<1>9. AddResult(a, f) = [b EXCEPT ![n] = FiledRun(b[n], f)]
  <2>1. PICK r : r = b[n]
    OBVIOUS
  <2>2. FiledRun(r, f) = [r EXCEPT !.rules = FiledRun(r, f).rules, !.results = FiledRun(r, f).results]
    <3>1. r \in RunsOf(L)
      BY <1>8, <2>1
    <3>2. Refills(FiledRun(r, f), r)
      BY <3>1, FiledRunType
    <3>3. QED BY <3>2 DEF Refills
  <2>3. PICK x, y : /\ x = IF Contains(r.rules, RuleRef(f)) THEN r.rules
                             ELSE Append(r.rules, RuleRef(f))
                    /\ y = Append(r.results, Result(f))
    OBVIOUS
  <2>4. FiledRun(r, f).rules = x /\ FiledRun(r, f).results = y
    BY <2>3 DEF FiledRun
  <2>5. AddResult(a, f) = [b EXCEPT ![n].rules = x, ![n].results = y]
    <3>1. b[n] = r /\ n \in DOMAIN b
      BY <1>4, <1>6, <2>1
    <3>2. [b EXCEPT ![n].rules = x][n].results = r.results
      BY <1>8, <3>1 DEF RunsOf
    <3>3. QED BY <1>7, <2>1, <2>3, <3>1, <3>2
  <2>6. [b EXCEPT ![n].rules = x, ![n].results = y]
          = [b EXCEPT ![n] = [r EXCEPT !.rules = x, !.results = y]]
    BY <1>3, <1>6, <1>8, <2>1 DEF RunsOf
  <2>7. QED BY <2>1, <2>2, <2>4, <2>5, <2>6
<1>10. AddResult(a, f) \in Seq(RunsOf(L))
  <2>1. FiledRun(b[n], f) \in RunsOf(L)
    BY <1>8, FiledRunType
  <2>2. QED BY <1>3, <1>6, <1>9, <2>1
<1>11. QED BY <1>3, <1>6, <1>9, <1>10 DEF b

(* What the first k findings leave in a run: each one of its tool, as many      *)
(* results as those are, and the rules of the results, each once.             *)
Of(L, k, tool) == {i \in 1 .. k : L[i].tool = tool}

Holds(rules, results, own, L) ==
  /\ \A i \in own : \E j \in 1 .. Len(results) : results[j].of = L[i]
  /\ Len(results) = Cardinality(own)
  /\ {results[j].rule : j \in 1 .. Len(results)} = {rules[j] : j \in 1 .. Len(rules)}
  /\ \A i, j \in 1 .. Len(rules) : rules[i] = rules[j] => i = j

Whole(r, L, k) == Holds(r.rules, r.results, Of(L, k, r.tool), L)

LEMMA WholeNew ==
  ASSUME NEW L, NEW k \in Nat, NEW tool, Of(L, k, tool) = {}
  PROVE  Whole(NewRun(tool), L, k)
<1>1. Cardinality({}) = 0 /\ Len(<<>>) = 0
  BY FS_EmptySet
<1>2. NewRun(tool).results = <<>> /\ NewRun(tool).rules = <<>> /\ NewRun(tool).tool = tool
  BY DEF NewRun
<1>3. Holds(<<>>, <<>>, {}, L)
  BY <1>1 DEF Holds
<1>4. QED BY <1>2, <1>3 DEF Whole

LEMMA WholeOther ==
  ASSUME NEW L, NEW k \in Nat, NEW r, Whole(r, L, k), L[k + 1].tool # r.tool
  PROVE  Whole(r, L, k + 1)
<1>1. Of(L, k + 1, r.tool) = Of(L, k, r.tool)
  BY DEF Of
<1>2. QED BY <1>1 DEF Whole

LEMMA WholeFiled ==
  ASSUME NEW L, NEW k \in Nat, NEW r \in RunsOf(L), Whole(r, L, k),
         L[k + 1].tool = r.tool, L[k + 1] \in ToSet(L)
  PROVE  Whole(FiledRun(r, L[k + 1]), L, k + 1)
<1>1. PICK f, x, p : f = L[k + 1] /\ x = Result(f) /\ p = FiledRun(r, f)
  OBVIOUS
<1>2. /\ r.results \in Seq({Result(y) : y \in ToSet(L)})
      /\ r.rules \in Seq({RuleRef(y) : y \in ToSet(L)})
  BY DEF RunsOf
<1>3. p.tool = r.tool /\ p.results = Append(r.results, x)
  BY <1>1 DEF FiledRun
<1>4. PICK q, v : q = r.results /\ v = p.results
  OBVIOUS
<1>5. /\ Len(q) \in Nat /\ Len(v) = Len(q) + 1 /\ v[Len(q) + 1] = x
      /\ \A j \in 1 .. Len(q) : v[j] = q[j]
  BY <1>1, <1>2, <1>3, <1>4, AppendProperties
<1>6. PICK ref : ref = RuleRef(f)
  OBVIOUS
<1>7. PICK s, u : s = r.rules /\ u = p.rules
  OBVIOUS
<1>8. Len(s) \in Nat /\ u = IF Contains(s, ref) THEN s ELSE Append(s, ref)
  BY <1>1, <1>2, <1>6, <1>7 DEF FiledRun
<1>9. x.of = f /\ x.rule = ref
  BY <1>1, <1>6 DEF Result
<1>10. /\ \A i \in Of(L, k, r.tool) : \E j \in 1 .. Len(q) : q[j].of = L[i]
       /\ Len(q) = Cardinality(Of(L, k, r.tool))
       /\ {q[j].rule : j \in 1 .. Len(q)} = {s[j] : j \in 1 .. Len(s)}
       /\ \A i, j \in 1 .. Len(s) : s[i] = s[j] => i = j
  <2>1. Holds(s, q, Of(L, k, r.tool), L)
    BY <1>4, <1>7 DEF Whole
  <2>2. QED BY <2>1 DEF Holds
<1>11. Of(L, k + 1, r.tool) = Of(L, k, r.tool) \cup {k + 1} /\ k + 1 \notin Of(L, k, r.tool)
  BY DEF Of
<1>12. \A i \in Of(L, k + 1, r.tool) : \E j \in 1 .. Len(v) : v[j].of = L[i]
  <2>1. Len(q) + 1 \in 1 .. Len(v) /\ \A j \in 1 .. Len(q) : j \in 1 .. Len(v)
    BY <1>5
  <2>2. v[Len(q) + 1].of = L[k + 1]
    BY <1>1, <1>5, <1>9
  <2>3. \A i \in Of(L, k, r.tool) : \E j \in 1 .. Len(v) : v[j].of = L[i]
    BY <1>5, <1>10, <2>1
  <2>4. QED BY <1>11, <2>1, <2>2, <2>3
<1>13. Len(v) = Cardinality(Of(L, k + 1, r.tool))
  <2>1. IsFiniteSet(Of(L, k, r.tool))
    <3>1. Of(L, k, r.tool) \in SUBSET (1 .. k)
      BY DEF Of
    <3>2. IsFiniteSet(1 .. k)
      BY FS_Interval
    <3>3. QED BY <3>1, <3>2, FS_Subset
  <2>2. Cardinality(Of(L, k, r.tool) \cup {k + 1}) = Cardinality(Of(L, k, r.tool)) + 1
    BY <1>11, <2>1, FS_AddElement
  <2>3. QED BY <1>5, <1>10, <1>11, <2>2
<1>14. {v[j].rule : j \in 1 .. Len(v)} = {q[j].rule : j \in 1 .. Len(q)} \cup {ref}
  <2>1. 1 .. Len(v) = (1 .. Len(q)) \cup {Len(q) + 1}
    BY <1>5
  <2>2. v[Len(q) + 1].rule = ref
    BY <1>5, <1>9
  <2>3. QED BY <1>5, <2>1, <2>2
<1>15. /\ {u[j] : j \in 1 .. Len(u)} = {s[j] : j \in 1 .. Len(s)} \cup {ref}
       /\ \A i, j \in 1 .. Len(u) : u[i] = u[j] => i = j
  <2>1. CASE Contains(s, ref)
    BY <1>8, <1>10, <2>1 DEF Contains
  <2>2. CASE ~Contains(s, ref)
    <3>1. s \in Seq({RuleRef(y) : y \in ToSet(L)}) /\ u = Append(s, ref)
      BY <1>2, <1>7, <1>8, <2>2
    <3>2. ref \in {RuleRef(y) : y \in ToSet(L)}
      BY <1>1, <1>6
    <3>3. /\ Len(u) = Len(s) + 1 /\ u[Len(s) + 1] = ref
          /\ \A j \in 1 .. Len(s) : u[j] = s[j]
      BY <3>1, <3>2, AppendProperties
    <3>4. 1 .. Len(u) = (1 .. Len(s)) \cup {Len(s) + 1}
      BY <1>8, <3>3
    <3>5. \A j \in 1 .. Len(s) : s[j] # ref
      BY <2>2 DEF Contains
    <3>6. QED BY <1>10, <3>3, <3>4, <3>5
  <2>3. QED BY <2>1, <2>2
<1>16. {v[j].rule : j \in 1 .. Len(v)} = {u[j] : j \in 1 .. Len(u)}
  BY <1>10, <1>14, <1>15
<1>17. Whole(p, L, k + 1)
  <2>1. Holds(u, v, Of(L, k + 1, r.tool), L)
    BY Zenon, <1>12, <1>13, <1>15, <1>16 DEF Holds
  <2>2. QED BY <1>3, <1>4, <1>7, <2>1 DEF Whole
<1>18. QED BY <1>1, <1>17

(* Each tool has one run, and what the first k findings leave in it            *)
Told(a, L, k) ==
  /\ a \in Seq(RunsOf(L))
  /\ \A m, n \in 1 .. Len(a) : a[m].tool = a[n].tool => m = n
  /\ \A i \in 1 .. k : \E m \in 1 .. Len(a) : a[m].tool = L[i].tool
  /\ \A m \in 1 .. Len(a) : Whole(a[m], L, k)

LEMMA ToldOpened ==
  ASSUME NEW L, NEW k \in Nat, NEW a, Told(a, L, k),
         NEW f, f.tool \in {"semgrep", "trivy"}
  PROVE  Told(Opened(a, f), L, k)
<1>1. CASE \E r \in ToSet(a) : r.tool = f.tool
  BY <1>1 DEF Opened
<1>2. CASE ~\E r \in ToSet(a) : r.tool = f.tool
  <2>1. PICK b, x : b = Opened(a, f) /\ x = NewRun(f.tool)
    OBVIOUS
  <2>2. x \in RunsOf(L) /\ x.tool = f.tool
    BY <2>1 DEF NewRun, RunsOf
  <2>3. a \in Seq(RunsOf(L)) /\ Len(a) \in Nat
    BY DEF Told
  <2>4. b = Append(a, x)
    BY <1>2, <2>1 DEF Opened
  <2>5. /\ b \in Seq(RunsOf(L)) /\ Len(b) = Len(a) + 1 /\ b[Len(a) + 1] = x
        /\ \A m \in 1 .. Len(a) : b[m] = a[m]
    BY <2>2, <2>3, <2>4, AppendProperties
  <2>6. 1 .. Len(b) = (1 .. Len(a)) \cup {Len(a) + 1}
    BY <2>3, <2>5
  <2>7. \A m \in 1 .. Len(a) : a[m].tool # f.tool
    BY <1>2, <2>3 DEF ToSet
  <2>8. Of(L, k, f.tool) = {}
    BY <2>7 DEF Told, Of
  <2>9. Whole(x, L, k)
    BY <2>1, <2>8, WholeNew
  <2>10. \A m \in 1 .. Len(b) : Whole(b[m], L, k)
    BY <2>5, <2>6, <2>9 DEF Told
  <2>11. \A m, n \in 1 .. Len(b) : b[m].tool = b[n].tool => m = n
    BY <2>2, <2>5, <2>6, <2>7 DEF Told
  <2>12. \A i \in 1 .. k : \E m \in 1 .. Len(b) : b[m].tool = L[i].tool
    BY <2>5, <2>6 DEF Told
  <2>13. QED BY <2>1, <2>5, <2>10, <2>11, <2>12 DEF Told
<1>3. QED BY <1>1, <1>2

LEMMA ToldFiled ==
  ASSUME NEW L, NEW k \in Nat, NEW a, Told(a, L, k),
         L[k + 1] \in ToSet(L), L[k + 1].tool \in {"semgrep", "trivy"}
  PROVE  Told(AddResult(a, L[k + 1]), L, k + 1)
<1>1. PICK f, b, c : f = L[k + 1] /\ b = Opened(a, f) /\ c = AddResult(a, f)
  OBVIOUS
<1>2. Told(b, L, k)
  BY <1>1, ToldOpened
<1>3. PICK n \in 1 .. Len(b) : /\ b[n].tool = f.tool /\ c = [b EXCEPT ![n] = FiledRun(b[n], f)]
                               /\ c \in Seq(RunsOf(L))
  <2>1. a \in Seq(RunsOf(L))
    BY DEF Told
  <2>2. f \in ToSet(L) /\ f.tool \in {"semgrep", "trivy"}
    BY <1>1
  <2>3. QED BY <1>1, <2>1, <2>2, Filing
<1>4. /\ b \in Seq(RunsOf(L)) /\ Len(b) \in Nat
      /\ \A m \in 1 .. Len(b) : b[m] \in RunsOf(L) /\ Whole(b[m], L, k)
      /\ \A m, j \in 1 .. Len(b) : b[m].tool = b[j].tool => m = j
      /\ \A i \in 1 .. k : \E m \in 1 .. Len(b) : b[m].tool = L[i].tool
  BY <1>2 DEF Told
<1>5. Len(c) = Len(b) /\ c[n] = FiledRun(b[n], f) /\ \A m \in 1 .. Len(b) : m # n => c[m] = b[m]
  BY <1>3, <1>4
<1>6. \A m \in 1 .. Len(b) : c[m].tool = b[m].tool
  <2>1. FiledRun(b[n], f).tool = b[n].tool
    BY DEF FiledRun
  <2>2. QED BY <1>5, <2>1
<1>7. Whole(c[n], L, k + 1)
  <2>1. PICK r : r = b[n]
    OBVIOUS
  <2>2. r \in RunsOf(L) /\ Whole(r, L, k) /\ L[k + 1].tool = r.tool
    BY <1>1, <1>3, <1>4, <2>1
  <2>3. Whole(FiledRun(r, L[k + 1]), L, k + 1)
    BY <2>2, WholeFiled
  <2>4. QED BY <1>1, <1>5, <2>1, <2>3
<1>8. ASSUME NEW m \in 1 .. Len(b), m # n PROVE Whole(c[m], L, k + 1)
  <2>1. PICK r : r = b[m]
    OBVIOUS
  <2>2. Whole(r, L, k) /\ L[k + 1].tool # r.tool
    BY <1>1, <1>3, <1>4, <1>8, <2>1
  <2>3. Whole(r, L, k + 1)
    BY <2>2, WholeOther
  <2>4. QED BY <1>5, <1>8, <2>1, <2>3
<1>9. \A i \in 1 .. k + 1 : \E m \in 1 .. Len(c) : c[m].tool = L[i].tool
  <2>1. \A i \in 1 .. k + 1 : i \in 1 .. k \/ i = k + 1
    OBVIOUS
  <2>2. c[n].tool = L[k + 1].tool
    BY <1>1, <1>3, <1>6
  <2>3. \A i \in 1 .. k : \E m \in 1 .. Len(c) : c[m].tool = L[i].tool
    BY <1>4, <1>5, <1>6
  <2>4. QED BY <1>5, <2>1, <2>2, <2>3
<1>10. \A m, j \in 1 .. Len(c) : c[m].tool = c[j].tool => m = j
  BY <1>4, <1>5, <1>6
<1>11. \A m \in 1 .. Len(c) : Whole(c[m], L, k + 1)
  BY <1>5, <1>7, <1>8
<1>12. QED BY <1>1, <1>3, <1>9, <1>10, <1>11 DEF Told

LEMMA SarifUnfolds ==
  ASSUME NEW L, L # <<>>
  PROVE  \E f : /\ ToSARIF(L) = f[DOMAIN L]
                /\ f = CHOOSE g : g = [s \in SUBSET DOMAIN L |->
                         IF s = {} THEN <<>> ELSE AddResult(g[s \ {Top(s)}], L[Top(s)])]
BY Zenon DEF ToSARIF, FoldLeft, MapThenFoldSet, Max, Top

LEMMA SarifTold ==
  ASSUME NEW L, NEW N \in Nat, DOMAIN L = 1 .. N, N # 0, \A i \in 1 .. N : Shape(L[i])
  PROVE  Told(ToSARIF(L), L, N)
<1> DEFINE A == Seq(RunsOf(L))
           G == [p \in (1 .. N) \X A |-> AddResult(p[2], L[p[1]])]
           E(g) == [s \in SUBSET DOMAIN L |->
                      IF s = {} THEN <<>> ELSE AddResult(g[s \ {Top(s)}], L[Top(s)])]
<1>1. PICK f : ToSARIF(L) = f[DOMAIN L] /\ f = CHOOSE g : g = E(g)
  <2>1. L # <<>>
    OBVIOUS
  <2>2. QED BY <2>1, SarifUnfolds
<1>2. \A i \in 1 .. N : L[i] \in ToSet(L) /\ L[i].tool \in {"semgrep", "trivy"}
  <2>1. \A i \in 1 .. N : L[i] \in ToSet(L)
    BY DEF ToSet
  <2>2. \A i \in 1 .. N : L[i].tool \in {"semgrep", "trivy"}
    BY Zenon DEF Shape
  <2>3. QED BY <2>1, <2>2
<1>3. <<>> \in A
  OBVIOUS
<1>4. \A i \in 1 .. N, a \in A : AddResult(a, L[i]) \in A
  BY <1>2, Filing
<1> HIDE DEF A
<1>5. G \in [(1 .. N) \X A -> A] /\ \A i \in 1 .. N, a \in A : G[<<i, a>>] = AddResult(a, L[i])
  BY <1>4
<1>6. PICK h \in [SUBSET (1 .. N) -> A] : LeftFold(h, N, <<>>, G)
  <2> HIDE DEF G
  <2>1. QED BY <1>3, <1>5, LeftFoldExists
<1>7. h = E(h)
  <2>1. ASSUME NEW s \in SUBSET (1 .. N), s # {}
        PROVE  h[s] = AddResult(h[s \ {Top(s)}], L[Top(s)])
    <3>1. Top(s) \in 1 .. N
      BY <2>1, TopIn
    <3>2. h[s] = G[<<Top(s), h[s \ {Top(s)}]>>]
      BY <1>6, <2>1 DEF LeftFold
    <3> HIDE DEF G
    <3>3. h[s \ {Top(s)}] \in A
      OBVIOUS
    <3>4. QED BY <1>5, <3>1, <3>2, <3>3
  <2>2. h[{}] = <<>>
    BY <1>6 DEF LeftFold
  <2> HIDE DEF G
  <2>3. QED BY <2>1, <2>2
<1>8. f = E(f)
  <2> HIDE DEF E
  <2>1. QED BY <1>1, <1>7
<1> DEFINE P == {k \in Nat : k <= N => Told(f[1 .. k], L, k)}
<1>9. 0 \in P
  <2>1. 1 .. 0 = {} /\ {} \in SUBSET (1 .. N)
    OBVIOUS
  <2>2. f[1 .. 0] = <<>>
    BY <1>8, <2>1
  <2>3. <<>> \in Seq(RunsOf(L)) /\ Len(<<>>) = 0
    OBVIOUS
  <2>4. Told(<<>>, L, 0)
    BY <2>3 DEF Told
  <2>5. QED BY <2>2, <2>4
<1>10. ASSUME NEW k \in Nat, k < N, k \in P PROVE k + 1 \in P
  <2>1. 1 .. k + 1 \in SUBSET (1 .. N) /\ 1 .. k + 1 # {} /\ (1 .. k + 1) \ {k + 1} = 1 .. k
    BY <1>10, IntervalLess
  <2>2. Top(1 .. k + 1) = k + 1
    BY TopOfInterval
  <2>3. f[1 .. k + 1] = AddResult(f[1 .. k], L[k + 1])
    <3>1. \A s \in SUBSET (1 .. N) : s # {} => f[s] = AddResult(f[s \ {Top(s)}], L[Top(s)])
      BY <1>8
    <3>2. QED BY Zenon, <2>1, <2>2, <3>1
  <2>4. Told(f[1 .. k], L, k)
    BY <1>10
  <2>5. L[k + 1] \in ToSet(L) /\ L[k + 1].tool \in {"semgrep", "trivy"}
    <3>1. k + 1 \in 1 .. N
      BY <1>10
    <3>2. QED BY <1>2, <3>1
  <2>6. Told(AddResult(f[1 .. k], L[k + 1]), L, k + 1)
    BY <2>4, <2>5, ToldFiled
  <2>7. QED BY <2>3, <2>6
<1>11. N \in P
  <2> HIDE DEF P
  <2>1. QED BY <1>9, <1>10, InductionUpTo
<1>12. QED BY <1>1, <1>11

(* The lengths of lists that hold disjoint sets *)
ResultSum(l) == FoldLeft(LAMBDA sum, r : sum + Len(r.results), 0, l)

LEMMA ResultsUnfold ==
  ASSUME NEW l
  PROVE  \E f : /\ ResultSum(l) = f[DOMAIN l]
                /\ f = CHOOSE g : g = [s \in SUBSET DOMAIN l |->
                         IF s = {} THEN 0 ELSE g[s \ {Top(s)}] + Len(l[Top(s)].results)]
BY Zenon DEF ResultSum, FoldLeft, MapThenFoldSet, Max, Top

LEMMA ResultTotals ==
  ASSUME NEW l, NEW n \in Nat, DOMAIN l = 1 .. n, NEW U, IsFiniteSet(U),
         NEW D, Parts(D, 1 .. n, U), \A i \in 1 .. n : Len(l[i].results) = Cardinality(D[i])
  PROVE  ResultSum(l) = Cardinality(Joined(D, 1 .. n, U))
<1> DEFINE E(g) == [s \in SUBSET DOMAIN l |->
                      IF s = {} THEN 0 ELSE g[s \ {Top(s)}] + Len(l[Top(s)].results)]
<1>1. PICK f : ResultSum(l) = f[DOMAIN l] /\ f = CHOOSE g : g = E(g)
  BY ResultsUnfold
<1>2. PICK C, w : C = Tops(n) /\ w = PartSizes(D, 1 .. n)
  OBVIOUS
<1>3. /\ Takes(C, 1 .. n) /\ IsFiniteSet(1 .. n)
      /\ \A s \in SUBSET (1 .. n) : s # {} => C[s] = Top(s) /\ Top(s) \in s
  BY <1>2, TopsIn
<1>4. w \in [1 .. n -> Nat] /\ \A i \in 1 .. n : Len(l[i].results) = w[i]
  <2>1. w \in [1 .. n -> Nat]
    BY <1>2, PartSizesType
  <2>2. \A i \in 1 .. n : w[i] = Cardinality(D[i])
    BY <1>2 DEF PartSizes
  <2>3. QED BY <2>1, <2>2
<1>5. ASSUME NEW g PROVE g = E(g) <=> Adds(g, 1 .. n, C, w)
  <2> DEFINE F == [s \in SUBSET (1 .. n) |-> IF s = {} THEN 0 ELSE g[s \ {C[s]}] + w[C[s]]]
  <2>1. \A s \in SUBSET (1 .. n) :
          s # {} => C[s] = Top(s) /\ Len(l[Top(s)].results) = w[C[s]]
    BY <1>3, <1>4
  <2>2. E(g) = F
    BY <2>1
  <2> HIDE DEF E, F
  <2>3. g = E(g) <=> g = F
    BY <2>2
  <2>4. QED BY <2>3 DEF F, Adds
<1> HIDE DEF E
<1>6. PICK h : Adds(h, 1 .. n, C, w)
  BY <1>3, <1>4, AddsExist
<1>7. f = E(f)
  BY Zenon, <1>1, <1>5, <1>6
<1>8. Totals(f, 1 .. n, C, w)
  BY <1>3, <1>4, <1>5, <1>7, TotalOfAdds
<1>9. f[1 .. n] = Cardinality(Joined(D, 1 .. n, U))
  BY <1>2, <1>3, <1>8, TotalOfParts
<1>10. QED BY <1>1, <1>9

LEMMA NoneTwice ==
  ASSUME NEW S, NEW q \in Seq(S), \A i, j \in 1 .. Len(q) : q[i] = q[j] => i = j
  PROVE  Cardinality(ToSet(q)) = Len(q)
<1>1. Len(q) \in Nat /\ ToSet(q) = {q[i] : i \in 1 .. Len(q)} /\ q \in [1 .. Len(q) -> ToSet(q)]
  BY DEF ToSet
<1>2. q \in Bijection(1 .. Len(q), ToSet(q))
  BY <1>1 DEF Bijection, Injection, IsInjective, Surjection
<1>3. ExistsBijection(1 .. Len(q), ToSet(q))
  BY <1>2 DEF ExistsBijection
<1>4. QED BY <1>1, <1>3, FS_CountingElements

(* The rules a run declares are those of its results, each once *)
Declares(r) ==
  /\ {x.rule : x \in ToSet(r.results)} = ToSet(r.rules)
  /\ Cardinality(ToSet(r.rules)) = Len(r.rules)

LEMMA WholeDeclares ==
  ASSUME NEW L, NEW k, NEW r \in RunsOf(L), Whole(r, L, k)
  PROVE  Declares(r)
<1>1. PICK s, q : s = r.rules /\ q = r.results
  OBVIOUS
<1>2. /\ q \in Seq({Result(f) : f \in ToSet(L)})
      /\ s \in Seq({RuleRef(f) : f \in ToSet(L)})
  BY <1>1 DEF RunsOf
<1>3. Holds(s, q, Of(L, k, r.tool), L)
  BY <1>1 DEF Whole
<1>4. /\ {q[j].rule : j \in 1 .. Len(q)} = {s[j] : j \in 1 .. Len(s)}
      /\ \A i, j \in 1 .. Len(s) : s[i] = s[j] => i = j
  BY <1>3 DEF Holds
<1>5. ToSet(q) = {q[j] : j \in 1 .. Len(q)} /\ ToSet(s) = {s[j] : j \in 1 .. Len(s)}
  BY <1>2 DEF ToSet
<1>6. {x.rule : x \in ToSet(q)} = ToSet(s)
  BY <1>4, <1>5
<1>7. Cardinality(ToSet(s)) = Len(s)
  BY <1>2, <1>4, NoneTwice
<1>8. QED BY <1>1, <1>6, <1>7 DEF Declares

(* A log that tells all of N findings has N results *)
LEMMA ToldResults ==
  ASSUME NEW L, NEW N \in Nat, NEW a, Told(a, L, N)
  PROVE  ResultSum(a) = N
<1> DEFINE n == Len(a)
           D == [m \in 1 .. n |-> Of(L, N, a[m].tool)]
<1>1. n \in Nat /\ DOMAIN a = 1 .. n
  BY DEF Told
<1> HIDE DEF n
<1>2. Parts(D, 1 .. n, 1 .. N)
  <2>1. \A m, j \in 1 .. n : a[m].tool = a[j].tool => m = j
    BY DEF Told, n
  <2>2. QED BY <2>1 DEF Of, Parts
<1>3. \A m \in 1 .. n : Len(a[m].results) = Cardinality(D[m])
  <2>1. \A m \in 1 .. n : Len(a[m].results) = Cardinality(Of(L, N, a[m].tool))
    BY Zenon DEF Told, Whole, Holds, n
  <2>2. QED BY <2>1
<1>4. Joined(D, 1 .. n, 1 .. N) = 1 .. N
  <2>1. \A i \in 1 .. N : \E m \in 1 .. n : a[m].tool = L[i].tool
    BY DEF Told, n
  <2>2. QED BY <2>1 DEF Of, Joined
<1> HIDE DEF D
<1>5. ResultSum(a) = Cardinality(Joined(D, 1 .. n, 1 .. N))
  <2>1. IsFiniteSet(1 .. N)
    BY FS_Interval
  <2>2. QED BY <1>1, <1>2, <1>3, <2>1, ResultTotals
<1>6. QED BY <1>4, <1>5, UpTo

(* The log of no finding has one run, of no tool, with no results *)
LEMMA EmptyLog ==
  ASSUME NEW a, a = <<NewRun("codescan")>>
  PROVE  ResultSum(a) = 0 /\ \A r \in ToSet(a) : Declares(r)
<1>1. /\ DOMAIN a = 1 .. 1 /\ a[1] = NewRun("codescan") /\ 1 \in Nat
      /\ ToSet(a) = {NewRun("codescan")}
  BY DEF ToSet
<1>2. NewRun("codescan").rules = <<>> /\ NewRun("codescan").results = <<>>
  BY DEF NewRun
<1>3. Cardinality({}) = 0 /\ IsFiniteSet({})
  BY FS_EmptySet
<1>4. Declares(NewRun("codescan"))
  <2>1. ToSet(<<>>) = {} /\ Len(<<>>) = 0
    BY DEF ToSet
  <2>2. QED BY <1>2, <1>3, <2>1 DEF Declares
<1>5. ResultSum(a) = 0
  <2>1. PICK n, U : n = 1 /\ U = {}
    OBVIOUS
  <2>2. PICK D : D = [i \in 1 .. n |-> U]
    OBVIOUS
  <2>3. Parts(D, 1 .. n, U) /\ Joined(D, 1 .. n, U) = {} /\ IsFiniteSet(U)
    BY <1>3, <2>1, <2>2 DEF Parts, Joined
  <2>4. n \in Nat /\ DOMAIN a = 1 .. n
    BY <1>1, <2>1
  <2>5. \A i \in 1 .. n : Len(a[i].results) = Cardinality(D[i])
    BY <1>1, <1>2, <1>3, <2>1, <2>2
  <2>6. ResultSum(a) = Cardinality(Joined(D, 1 .. n, U))
    BY <2>3, <2>4, <2>5, ResultTotals
  <2>7. QED BY <1>3, <2>3, <2>6
<1>6. QED BY <1>1, <1>4, <1>5

(* The SARIF log has a result for each finding stored, in the run of its tool, *)
(* and each run declares the rules of its results, once (ToSARIF).            *)
THEOREM SarifCompleteHolds == Spec => []SarifComplete
<1>1. ASSUME Stays, Stored PROVE SarifComplete
  <2> DEFINE L == Listed
             N == Len(rows)
             runs == ToSARIF(L)
  <2>1. /\ N \in Nat /\ DOMAIN L = 1 .. N /\ \A i \in 1 .. N : Shape(L[i])
        /\ ToSet(rows) = {rows[n] : n \in 1 .. N}
    BY <1>1, ListedTells, Rows
  <2>2. \A f \in ToSet(rows) : \E i \in 1 .. N : L[i] = f
    <3>1. PICK at : Shuffles(L, rows, at)
      BY <1>1, ListedTells
    <3> HIDE DEF L
    <3>2. QED BY <2>1, <3>1 DEF Shuffles
  <2> HIDE DEF L, N
  <2>3. CASE N = 0
    <3>1. L = <<>>
      <4>1. DOMAIN Listed = 1 .. Len(rows) /\ Len(Listed) = Len(rows) /\ Len(rows) = 0
        BY <1>1, <2>3, ListedTells DEF N
      <4>2. PICK at : Shuffles(Listed, rows, at)
        BY <1>1, ListedTells
      <4>3. L = [n \in 1 .. Len(rows) |-> rows[at[n]]]
        BY <4>2 DEF Shuffles, L
      <4>4. QED BY <4>1, <4>3
    <3>2. runs = <<NewRun("codescan")>>
      BY <3>1 DEF ToSARIF, NewRun
    <3> HIDE DEF runs
    <3>3. ResultSum(runs) = 0 /\ \A r \in ToSet(runs) : Declares(r)
      BY <3>2, EmptyLog
    <3>4. ToSet(rows) = {}
      BY <2>1, <2>3
    <3>5. QED BY <2>3, <3>3, <3>4 DEF SarifComplete, ResultSum, Declares, runs, L, N
  <2>4. CASE N # 0
    <3>1. Told(runs, L, N)
      BY <2>1, <2>4, SarifTold
    <3> HIDE DEF runs
    <3>2. ResultSum(runs) = N
      BY <2>1, <3>1, ToldResults
    <3>3. /\ runs \in Seq(RunsOf(L)) /\ ToSet(runs) = {runs[m] : m \in 1 .. Len(runs)}
          /\ \A m \in 1 .. Len(runs) : runs[m] \in RunsOf(L) /\ Whole(runs[m], L, N)
      BY <3>1 DEF Told, ToSet
    <3>4. \A r \in ToSet(runs) : Declares(r)
      BY <3>3, WholeDeclares
    <3>5. ASSUME NEW f \in ToSet(rows)
          PROVE  \E r \in ToSet(runs) : r.tool = f.tool /\ \E x \in ToSet(r.results) : x.of = f
      <4>1. PICK i \in 1 .. N : L[i] = f
        BY <2>2
      <4>2. PICK m \in 1 .. Len(runs) : runs[m].tool = f.tool
        BY <3>1, <4>1 DEF Told
      <4>3. PICK r, q : r = runs[m] /\ q = r.results
        OBVIOUS
      <4>4. r \in RunsOf(L) /\ r \in ToSet(runs) /\ r.tool = f.tool
        BY <3>3, <4>2, <4>3
      <4>5. i \in Of(L, N, r.tool)
        BY <4>1, <4>4 DEF Of
      <4>6. Holds(r.rules, q, Of(L, N, r.tool), L)
        BY <3>3, <4>3 DEF Whole
      <4>7. PICK j \in 1 .. Len(q) : q[j].of = f
        BY <4>1, <4>5, <4>6 DEF Holds
      <4>8. q[j] \in ToSet(q)
        <5>1. q \in Seq({Result(x) : x \in ToSet(L)})
          BY <4>3, <4>4 DEF RunsOf
        <5>2. QED BY <5>1 DEF ToSet
      <4>9. QED BY <4>3, <4>4, <4>7, <4>8
    <3>6. QED BY <3>2, <3>4, <3>5 DEF SarifComplete, ResultSum, Declares, runs, L, N
  <2>5. QED BY <2>3, <2>4
<1>2. QED BY <1>1, StaysInvariance, PTL DEF SarifComplete
===============================================================================
