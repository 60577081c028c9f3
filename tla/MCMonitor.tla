----------------------------- MODULE MCMonitor -----------------------------
(* Monitor for TLC.  Workers are interchangeable: the model only compares  *)
(* them, so permuting them is a symmetry of a safety run.                  *)
EXTENDS Monitor, TLC

Symmetry == Permutations(Hosts) \cup Permutations(Workers)
=============================================================================
