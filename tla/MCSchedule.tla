---------------------------- MODULE MCSchedule ----------------------------
(***************************************************************************)
(* Schedule for TLC.  Two hosts share a phase, the third is a quarter of   *)
(* its interval later.  Workers, and the two hosts, are interchangeable.   *)
(***************************************************************************)
EXTENDS Schedule, TLC

CONSTANTS h1, h2, h3

MCPhase == [h \in Hosts |-> IF h = h3 THEN 1 ELSE 0]

Symmetry == Permutations(Workers) \cup Permutations(Hosts \cap {h1, h2})
=============================================================================
