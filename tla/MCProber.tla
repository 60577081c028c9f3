------------------------------ MODULE MCProber ------------------------------
(* Prober for TLC: callers are interchangeable.              *)
EXTENDS Prober, TLC

Symmetry == Permutations(Probes)
=============================================================================
