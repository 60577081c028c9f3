----------------------------- MODULE LossyQueue -----------------------------
(***************************************************************************)
(* What the InfluxDB export promises for the probe results, with nothing   *)
(* said about buffers, requests and retries: results are numbered in the   *)
(* order they were recorded, they wait in that order until the database    *)
(* confirms them, and a result that leaves unconfirmed is counted.         *)
(***************************************************************************)
EXTENDS Naturals, Sequences, SequencesExt

VARIABLES
  recorded,   \* results recorded so far: they are numbered 1 .. recorded
  waiting,    \* the results that wait, oldest first
  stored,     \* the results the database has
  dropped     \* results counted as not written

queueVars == <<recorded, waiting, stored, dropped>>

First(n) == {waiting[i] : i \in 1 .. n}
After(n) == SubSeq(waiting, n + 1, Len(waiting))

Init ==
  /\ recorded = 0 /\ waiting = <<>>
  /\ stored = {} /\ dropped = 0

\* A probe ends: its result waits behind the others, or it is refused.
Record ==
  /\ recorded' = recorded + 1
  /\ \/ waiting' = Append(waiting, recorded') /\ dropped' = dropped
     \/ waiting' = waiting /\ dropped' = dropped + 1
  /\ UNCHANGED stored

\* The database confirms the oldest n.
Confirm(n) ==
  /\ waiting' = After(n)
  /\ stored' = stored \cup First(n)
  /\ UNCHANGED <<recorded, dropped>>

\* An attempt fails. The database may have stored the oldest k all the same, and
\* the oldest n are given up, counted.
Fail(k, n) ==
  /\ waiting' = After(n)
  /\ stored' = stored \cup First(k)
  /\ dropped' = dropped + n
  /\ UNCHANGED recorded

Next ==
  \/ Record
  \/ \E n \in 1 .. Len(waiting) : Confirm(n)
  \/ \E k, n \in 0 .. Len(waiting) : Fail(k, n)

Spec == Init /\ [][Next]_queueVars
=============================================================================
