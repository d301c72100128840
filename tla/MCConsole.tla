------------------------------ MODULE MCConsole ------------------------------
(* An instance of Console for TLC.                                         *)
EXTENDS Console
CONSTANTS s1, s2, last, c1, j1
=============================================================================
