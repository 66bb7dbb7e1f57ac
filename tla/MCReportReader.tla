----------------------------- MODULE MCReportReader -----------------------------
(* Small instances of ReportReader for TLC. *)
EXTENDS ReportReader, TLC

CONSTANTS g1, z1   \* a git job, an upload

OneGit == {g1}
OneZip == {z1}
NoZip  == {}
===============================================================================
