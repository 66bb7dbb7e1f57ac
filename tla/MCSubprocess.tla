------------------------------ MODULE MCSubprocess ------------------------------
(* A small instance of Subprocess for TLC: a clone and an upload. *)
EXTENDS Subprocess

CONSTANTS g1, z1

OneEach == {g1, z1}
OneZip  == {z1}
===============================================================================
