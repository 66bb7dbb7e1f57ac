--------------------------- MODULE MCSourceSnapshot ---------------------------
(* Small instances of SourceSnapshot, and of the SourceTree it reads, for TLC. *)
EXTENDS SourceSnapshot, TLC

CONSTANTS a, b   \* two paths

TwoNames == {a, b}
Small    == 0 .. 3
===============================================================================
