----------------------------- MODULE MCScanService -----------------------------
(* Small instances of ScanService for TLC. *)
EXTENDS ScanService, TLC

CONSTANTS g1, g2, z1, z2   \* two git jobs, two uploads

OneEach == {g1, z1}
TwoGit  == {g1, g2}
TwoZip  == {z1, z2}
OneZip  == {z1}
NoZip   == {}
===============================================================================
