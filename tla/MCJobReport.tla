------------------------------- MODULE MCJobReport -------------------------------
(* A small instance of JobReport for TLC: every report of at most two results  *)
(* from a handful that meet each other in dedupe, in the order and in the      *)
(* tiers: one package in lockfiles side by side and in another project, direct *)
(* and not, two rules at one line, one rule at two.                           *)
EXTENDS JobReport

(* api/package-lock.json, package-lock.json, src/a.js, yarn.lock *)
FourPaths == <<[dir |-> "api", lock |-> TRUE], [dir |-> "", lock |-> TRUE],
               [dir |-> "src", lock |-> FALSE], [dir |-> "", lock |-> TRUE]>>

NuxtScope  == {"@nuxt"}
LocalParts == {"."}
OneCustom  == {"rules.custom.idor"}

Code(rule, line, sev) == [rule |-> rule, path |-> 3, line |-> line, sev |-> sev]

SemgrepResults ==
  {Code("rules.custom.idor", 1, "ERROR"), Code("weak-hash", 1, "WARNING"),
   Code("weak-hash", 2, "WARNING"), Code("todo", 1, "INFO")}

AtMostTwo(S) == {<<>>} \cup {<<x>> : x \in S} \cup {<<x, y>> : x, y \in S}

SomeSemgrep == AtMostTwo(SemgrepResults)

tar == <<"tar">>
kit == <<"@nuxt", "kit">>

Package(name, ver, rel) == [id |-> <<name, ver>>, name |-> name, ver |-> ver, rel |-> rel]

Vuln(rule, name, ver, sev) ==
  [rule |-> rule, pkgid |-> <<name, ver>>, name |-> name, ver |-> ver, sev |-> sev]

(* One without a package id, matched by name and version *)
VulnByName(rule, name, ver, sev) ==
  [rule |-> rule, pkgid |-> <<>>, name |-> name, ver |-> ver, sev |-> sev]

Vulns(target, packages, vulns) ==
  [target |-> target, packages |-> packages, vulns |-> vulns,
   secrets |-> <<>>, misconfs |-> <<>>]

Others(secrets, misconfs) ==
  [target |-> 3, packages |-> <<>>, vulns |-> <<>>, secrets |-> secrets, misconfs |-> misconfs]

TarHigh == Vuln("CVE-1", tar, "6", "HIGH")
KitHigh == VulnByName("CVE-2", kit, "3", "HIGH")
Key1    == [rule |-> "aws-key", line |-> 1, sev |-> "CRITICAL"]

TrivyResults ==
  {Vulns(2, <<Package(tar, "6", "direct")>>, <<TarHigh>>),
   Vulns(4, <<>>, <<TarHigh>>),
   Vulns(1, <<Package(tar, "6", "indirect")>>, <<TarHigh>>),
   Vulns(2, <<Package(kit, "3", "root"), Package(tar, "6", "workspace")>>, <<TarHigh, KitHigh>>),
   Vulns(4, <<Package(kit, "3", "indirect"), Package(kit, "3", "direct")>>, <<KitHigh>>),
   Others(<<Key1, Key1>>, <<>>),
   Others(<<>>, <<[rule |-> "", line |-> 1, sev |-> "UNKNOWN"],
                  [rule |-> "DS002", line |-> 1, sev |-> "LOW"]>>)}

SomeTrivy == AtMostTwo(TrivyResults)

File(imports) == [js |-> TRUE, installed |-> FALSE, large |-> FALSE, imports |-> imports]

SomeSources ==
  {{}, {File({<<"tar", "lib">>, <<".", "kit">>})},
   {File({<<"@nuxt", "kit", "x">>}), [File({tar}) EXCEPT !.installed = TRUE]},
   {File({<<"@nuxt", "ui">>, <<"@nuxt">>}), [File({tar, kit}) EXCEPT !.large = TRUE],
    [File({tar}) EXCEPT !.js = FALSE]}}
===============================================================================
