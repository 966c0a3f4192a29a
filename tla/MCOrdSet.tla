----------------------------- MODULE MCOrdSet -----------------------------
(* OrdSet for TLC.  Keys below, between and above those in the set occur.  *)
EXTENDS OrdSet

MCKeys == 1 .. 5
=============================================================================
