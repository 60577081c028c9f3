------------------------------- MODULE Slots -------------------------------
(***************************************************************************)
(* The arithmetic of the probe schedule (pkg/pinger/schedule.go): the slot *)
(* grid of a host and the share of the workers that failing hosts may use. *)
(* Times are integers, as time.Duration is.                                *)
(***************************************************************************)
EXTENDS Integers

\* Go's integer division truncates toward zero.
Quotient(a, b) == IF a >= 0 THEN a \div b ELSE -((-a) \div b)

FloorDiv(a, b) ==
  LET q == Quotient(a, b) IN IF a # q * b /\ a < 0 THEN q - 1 ELSE q

\* The first slot after `after` of a host with offset off in interval iv.
NextSlot(off, iv, after) == off + (FloorDiv(after - off, iv) + 1) * iv

\* The fixed position of a host within its interval: phase is phaseNum/den < 1.
Offset(phaseNum, den, iv) == (phaseNum * iv) \div den

\* How many of n workers the probes of failing hosts may hold.
SuspectCapAll(n) == n  \* mutant: nothing is kept for the hosts that answer

SuspectCap(n) ==
  LET reserved == IF n \div 4 < 1 THEN 1 ELSE n \div 4 IN
  IF n - reserved > 1 THEN n - reserved ELSE 1
=============================================================================
