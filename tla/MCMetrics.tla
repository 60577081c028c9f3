----------------------------- MODULE MCMetrics -----------------------------
(* Model values for Metrics.                                               *)
EXTENDS Metrics, TLC

CONSTANTS h1, h2

HostSymmetry == Permutations(Hosts)
=============================================================================
