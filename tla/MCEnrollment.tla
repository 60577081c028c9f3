---------------------------- MODULE MCEnrollment ----------------------------
(***************************************************************************)
(* Enrollment for TLC: a single-IP target of host a, and a range of both.  *)
(***************************************************************************)
EXTENDS Enrollment, TLC

CONSTANTS a, b, single, range

MCCovers == [c \in Cidrs |-> IF c = single THEN {a} ELSE {a, b}]

MCFiles == [Cidrs -> States]

Symmetry == Permutations(Handlers)
=============================================================================
