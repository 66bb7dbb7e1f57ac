------------------------------- MODULE ReportViews -------------------------------
(***************************************************************************)
(* What readers are shown of a job's findings, as operators on the rows    *)
(* ListFindings returns: the SARIF log (internal/api/export.go), and the   *)
(* statistics and priority tiers of the PDF (pdf.go) and of the web page   *)
(* (reportview.go), which are written twice and meant to "tell the same    *)
(* story".                                                                 *)
(***************************************************************************)
EXTENDS Findings

RuleRef(f) == IF f.rule = "" THEN f.cat ELSE f.rule

SarifLevel(sev) ==
  CASE sev \in {"critical", "high"} -> "error"
    [] sev = "medium" -> "warning"
    [] sev \in {"low", "info"} -> "note"
    [] OTHER -> "warning"

(* Seeded bug: a rule is declared under its own name, empty or not *)
AddResult_bare(runs, f) ==
  LET all == IF \E r \in ToSet(runs) : r.tool = f.tool THEN runs
             ELSE Append(runs, [tool |-> f.tool, rules |-> <<>>, results |-> <<>>])
      n == CHOOSE n \in DOMAIN all : all[n].tool = f.tool
  IN  [all EXCEPT ![n].rules = IF Contains(@, f.rule) THEN @ ELSE Append(@, f.rule),
                  ![n].results = Append(@, [rule |-> RuleRef(f), level |-> SarifLevel(f.sev),
                                            of |-> f])]

(* A result goes to the run of its tool, made when the tool is first met, and  *)
(* its rule is declared there once.                                          *)
AddResult(runs, f) ==
  LET all == IF \E r \in ToSet(runs) : r.tool = f.tool THEN runs
             ELSE Append(runs, [tool |-> f.tool, rules |-> <<>>, results |-> <<>>])
      n == CHOOSE n \in DOMAIN all : all[n].tool = f.tool
  IN  [all EXCEPT ![n].rules = IF Contains(@, RuleRef(f)) THEN @ ELSE Append(@, RuleRef(f)),
                  ![n].results = Append(@, [rule |-> RuleRef(f), level |-> SarifLevel(f.sev),
                                            of |-> f])]

ToSARIF(rows) ==
  IF rows = <<>> THEN <<[tool |-> "codescan", rules |-> <<>>, results |-> <<>>]>>
                 ELSE FoldLeft(AddResult, <<>>, rows)

-------------------------------------------------------------------------------
(* Seeded bug: only dependencies that are said to be indirect are in the last  *)
(* tier                                                                      *)
TierOf_indirect(f) ==
  CASE f.cat = "sast" -> IF f.rule \in CustomRules THEN 1 ELSE 2
    [] f.cat = "sca" /\ f.rel = "direct" -> 3
    [] f.cat \in {"secret", "iac"} -> 4
    [] f.rel = "indirect" -> 5
    [] OTHER -> 6

TierOf(f) ==
  CASE f.cat = "sast" -> IF f.rule \in CustomRules THEN 1 ELSE 2
    [] f.cat = "sca" /\ f.rel = "direct" -> 3
    [] f.cat \in {"secret", "iac"} -> 4
    [] OTHER -> 5

InTier(rows, tier) == Where(rows, LAMBDA f : TierOf(f) = tier)

(* Seeded bug: a sort that does not keep the order of equals *)
BySeverity_unstable(fs) == SortedBy(fs, LAMBDA i : <<Rank(fs[i].sev), Len(fs) - i>>)

(* sort.SliceStable by sevRank *)
BySeverity(fs) == SortedBy(fs, LAMBDA i : <<Rank(fs[i].sev), i>>)

(* buildPDF: every tier that has findings, in order *)
PdfTiers(rows) ==
  LET tiers == [t \in 1 .. 5 |-> BySeverity(InTier(rows, t))]
  IN  Where([t \in 1 .. 5 |-> [num |-> t, findings |-> tiers[t]]],
            LAMBDA g : g.findings # <<>>)

(* Seeded bug: the page names four tiers, as the comment of buildTiers does *)
WebTiers_four(rows) ==
  FoldLeft(LAMBDA out, t : IF InTier(rows, t) = <<>> THEN out
                           ELSE Append(out, [num |-> t, findings |-> BySeverity(InTier(rows, t))]),
           <<>>, <<1, 2, 3, 4>>)

(* buildTiers *)
WebTiers(rows) ==
  FoldLeft(LAMBDA out, t : IF InTier(rows, t) = <<>> THEN out
                           ELSE Append(out, [num |-> t, findings |-> BySeverity(InTier(rows, t))]),
           <<>>, <<1, 2, 3, 4, 5>>)

Categories == <<"sca", "sast", "iac", "secret">>

(* One row of counts per category that has findings, as both reports show it  *)
StatsRow(rows, cat) ==
  [label |-> cat,
   counts |-> [sev \in ToSet(Severities) |->
                 Count(rows, LAMBDA f : f.cat = cat /\ f.sev = sev)]]

Stats(rows) ==
  Where(Each(Categories, LAMBDA c : StatsRow(rows, c)),
        LAMBDA r : \E f \in ToSet(rows) : f.cat = r.label)
===============================================================================
