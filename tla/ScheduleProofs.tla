--------------------------- MODULE ScheduleProofs ---------------------------
(***************************************************************************)
(* Proofs about the scheduler for every set of hosts and workers, every    *)
(* interval and every timeout.                                             *)
(***************************************************************************)
EXTENDS Schedule, FiniteSetTheorems, TLAPS

---------------------------------------------------------------------------
(* The arithmetic of the slots                                             *)

\* floorDiv rounds down for times before the slot offset too.
LEMMA FloorDivIsFloor ==
  ASSUME NEW a \in Int, NEW b \in Nat \ {0}
  PROVE  FloorDiv(a, b) \in Int /\ FloorDiv(a, b) * b <= a /\ a < (FloorDiv(a, b) + 1) * b
<1> DEFINE q == Quotient(a, b)
<1>1. CASE a >= 0
  <2>1. q = a \div b /\ q \in Int
    BY <1>1 DEF Quotient
  <2>2. a = b * (a \div b) + (a % b) /\ a % b \in 0 .. b - 1
    OBVIOUS
  <2>3. q * b <= a /\ a < (q + 1) * b
    BY <2>1, <2>2
  <2> QED BY <1>1, <2>1, <2>3 DEF FloorDiv
<1>2. CASE a < 0
  <2> DEFINE m == (-a) \div b
  <2>1. q = -m /\ m \in Int
    BY <1>2 DEF Quotient
  <2>2. -a = b * m + ((-a) % b) /\ (-a) % b \in 0 .. b - 1
    OBVIOUS
  <2>3. CASE a = q * b
    <3>1. FloorDiv(a, b) = q
      BY <2>3 DEF FloorDiv
    <3>2. a < (q + 1) * b
      BY <2>3, <2>1
    <3> QED BY <3>1, <3>2, <2>1, <2>3
  <2>4. CASE a # q * b
    <3>1. FloorDiv(a, b) = q - 1
      BY <1>2, <2>4 DEF FloorDiv
    <3>2. q * b = -(b * m)
      BY <2>1
    <3>3. a < q * b
      BY <2>2, <2>4, <3>2, <2>1
    <3>4. (q - 1) * b = q * b - b
      BY <2>1
    <3>5. (q - 1) * b <= a
      BY <2>2, <3>2, <3>4, <2>1
    <3> QED BY <3>1, <3>3, <3>5, <2>1
  <2> QED BY <2>3, <2>4
<1> QED BY <1>1, <1>2

\* The next slot is after the given time, at most one interval later, and on
\* the grid of the host: this is what makes the probe rate constant.
THEOREM NextSlotOnGrid ==
  ASSUME NEW off \in Int, NEW iv \in Nat \ {0}, NEW after \in Int
  PROVE  /\ after < NextSlot(off, iv, after)
         /\ NextSlot(off, iv, after) <= after + iv
         /\ \E k \in Int : NextSlot(off, iv, after) = off + k * iv
<1> DEFINE d == FloorDiv(after - off, iv)
<1>1. d \in Int /\ d * iv <= after - off /\ after - off < (d + 1) * iv
  BY FloorDivIsFloor
<1>2. (d + 1) * iv = d * iv + iv
  BY <1>1
<1>3. NextSlot(off, iv, after) = off + (d + 1) * iv
  BY DEF NextSlot
<1>4. NextSlot(off, iv, after) = off + (d + 1) * iv /\ d + 1 \in Int
  BY <1>1, <1>3
<1>5. \E k \in Int : NextSlot(off, iv, after) = off + k * iv
  <2> HIDE DEF d
  <2> QED BY <1>4
<1>6. after < NextSlot(off, iv, after) /\ NextSlot(off, iv, after) <= after + iv
  <2>1. d * iv \in Int
    BY <1>1
  <2> HIDE DEF d
  <2> QED BY <2>1, <1>1, <1>2, <1>3
<1> QED BY <1>5, <1>6

\* No slot between the given time and the next slot is skipped.
THEOREM NextSlotIsFirst ==
  ASSUME NEW off \in Int, NEW iv \in Nat \ {0}, NEW after \in Int, NEW k \in Int,
         after < off + k * iv
  PROVE  NextSlot(off, iv, after) <= off + k * iv
<1> DEFINE d == FloorDiv(after - off, iv)
<1>1. d \in Int /\ d * iv <= after - off
  BY FloorDivIsFloor
<1>2. d * iv < k * iv
  BY <1>1
<1>3. d < k
  BY <1>1, <1>2
<1>4. (d + 1) * iv <= k * iv
  BY <1>1, <1>3
<1> QED BY <1>1, <1>4 DEF NextSlot

\* With two workers or more, failing hosts leave at least a quarter of the
\* workers, and at least one, to the hosts that answer; they always get one.
THEOREM SuspectCapReserves ==
  ASSUME NEW n \in Nat \ {0}
  PROVE  /\ SuspectCap(n) \in 1 .. n
         /\ n >= 2 => n - SuspectCap(n) >= 1 /\ n - SuspectCap(n) >= n \div 4
BY DEF SuspectCap

---------------------------------------------------------------------------
(* The shape of the state                                                  *)

Entries == [on : BOOLEAN, iv : Int, due : Int, age : Int,
            probed : BOOLEAN, suspect : BOOLEAN, inFlight : BOOLEAN]

\* The part of TypeOK that the proofs need: which values, not which ranges.
ShapeOK ==
  /\ clock \in Int
  /\ target \in SUBSET Hosts
  /\ base \in [Hosts -> Intervals]
  /\ health \in [Hosts -> Healths]
  /\ entry \in [Hosts -> Entries]
  /\ dispatcher \in [pc : {"look", "offer", "sleep", "done"}, job : Jobs, timer : Int]
  /\ token \in BOOLEAN
  /\ worker \in [Workers -> [pc : {"gone", "idle", "busy"}, job : Jobs, left : Int]]
  /\ pool \in SUBSET Workers
  /\ suspectInFlight \in Int
  /\ inFlight \in Int
  /\ engine \in {"running", "stopping", "closed", "stopped"}

---------------------------------------------------------------------------
(* The entries that the operators build                                    *)

LEMMA IntervalPositive ==
  ASSUME NEW normal \in Intervals, NEW hl
  PROVE  ProbeInterval(normal, hl) \in Nat \ {0}
BY ScheduleAssumption DEF ScheduleAssumption, ProbeInterval

LEMMA NextSlotInt ==
  ASSUME NEW off \in Int, NEW iv \in Nat \ {0}, NEW after \in Int
  PROVE  NextSlot(off, iv, after) \in Int
<1>1. PICK k \in Int : NextSlot(off, iv, after) = off + k * iv
  BY NextSlotOnGrid
<1>2. k * iv \in Int
  OBVIOUS
<1> QED BY <1>1, <1>2

LEMMA SlotInInt ==
  ASSUME NEW h \in Hosts, NEW iv \in Nat \ {0}, NEW after \in Int, clock \in Int
  PROVE  SlotIn(h, iv, after) \in Int
<1> DEFINE off == Offset(Phase[h], PhaseDen, iv)
<1>1. Phase[h] \in Int /\ PhaseDen \in Nat \ {0}
  BY ScheduleAssumption DEF ScheduleAssumption
<1>2. Phase[h] * iv \in Int
  BY <1>1
<1>3. off \in Int
  BY <1>1, <1>2 DEF Offset
<1>4. NextSlot(off, iv, clock + after) \in Int
  <2> HIDE DEF off
  <2> QED BY <1>3, NextSlotInt
<1> QED BY <1>4 DEF SlotIn

LEMMA AddedShape ==
  ASSUME NEW h \in Hosts, NEW normal \in Intervals, NEW hl \in Healths, NEW due \in Int
  PROVE  /\ Added(h, normal, hl, due) \in Entries
         /\ Added(h, normal, hl, due).on
         /\ ~Added(h, normal, hl, due).inFlight
         /\ Added(h, normal, hl, due).due = due
<1>1. ProbeInterval(normal, hl) \in Int /\ IsSuspect(hl) \in BOOLEAN
  BY IntervalPositive DEF IsSuspect
<1> QED BY <1>1 DEF Added, NoEntry, Entries

LEMMA FirstSoonInt ==
  ASSUME NEW h \in Hosts, NEW normal \in Intervals
  PROVE  FirstSoon(h, normal) \in Int
<1>1. Phase[h] \in Int /\ PhaseDen \in Nat \ {0} /\ normal \in Int /\ Spread \in Int
  BY ScheduleAssumption DEF ScheduleAssumption
<1>2. Phase[h] * AtMost(normal, Spread) \in Int
  BY <1>1 DEF AtMost
<1> QED BY <1>1, <1>2 DEF FirstSoon

LEMMA RequeuedShape ==
  ASSUME ShapeOK, NEW h \in Hosts, NEW hl \in Healths
  PROVE  /\ Requeued(h, hl) \in Entries
         /\ Requeued(h, hl).on = entry[h].on
         /\ ~Requeued(h, hl).inFlight
         /\ Requeued(h, hl).suspect = IsSuspect(hl)
<1> DEFINE iv == ProbeInterval(base[h], hl)
<1>1. entry[h] \in Entries /\ base[h] \in Intervals /\ clock \in Int
  BY DEF ShapeOK
<1>2. iv \in Nat \ {0}
  BY <1>1, IntervalPositive
<1>3. iv \div 2 \in Int
  BY <1>2
<1>4. SlotIn(h, iv, iv \div 2) \in Int
  <2> HIDE DEF iv
  <2> QED BY <1>1, <1>2, <1>3, SlotInInt
<1>5. NextDue(h, iv, hl) \in Int
  BY <1>4, ScheduleAssumption DEF NextDue, ScheduleAssumption
<1>6. IsSuspect(hl) \in BOOLEAN
  BY DEF IsSuspect
<1> QED BY <1>1, <1>2, <1>5, <1>6 DEF Requeued, Entries

LEMMA RescheduledShape ==
  ASSUME ShapeOK, NEW h \in Hosts, NEW iv \in Nat \ {0}
  PROVE  /\ Rescheduled(h, iv) \in Entries
         /\ Rescheduled(h, iv).on = entry[h].on
         /\ Rescheduled(h, iv).inFlight = entry[h].inFlight
<1> DEFINE after == AtLeast((iv \div 2) - entry[h].age, 0)
<1>1. entry[h] \in Entries /\ clock \in Int
  BY DEF ShapeOK
<1>2. after \in Int
  BY <1>1 DEF AtLeast, Entries
<1>3. SlotIn(h, iv, after) \in Int /\ SlotIn(h, iv, 0) \in Int
  <2> HIDE DEF after
  <2> QED BY <1>1, <1>2, SlotInInt
<1>4. AtMost(entry[h].due, SlotIn(h, iv, 0)) \in Int
  BY <1>1, <1>3 DEF AtMost, Entries
<1> HIDE DEF after
<1> QED BY <1>1, <1>3, <1>4 DEF Rescheduled, Moved, Entries, after

LEMMA TakenShape ==
  ASSUME NEW h \in Hosts, entry[h] \in Entries
  PROVE  /\ Taken(h) \in Entries
         /\ Taken(h).on = entry[h].on
         /\ Taken(h).inFlight
BY DEF Taken, Entries

LEMMA AgedShape ==
  ASSUME NEW ent \in Entries
  PROVE  /\ Aged(ent) \in Entries
         /\ Aged(ent).on = ent.on
         /\ Aged(ent).inFlight = ent.inFlight
         /\ Aged(ent).suspect = ent.suspect
         /\ Aged(ent).due >= ent.due - 1
<1>1. MaxLate \in Int /\ Cycle \in Int
  BY ScheduleAssumption DEF ScheduleAssumption
<1> QED BY <1>1 DEF Aged, Entries, AtLeast, AtMost

LEMMA SyncShape ==
  ASSUME ShapeOK, NEW h \in Hosts, NEW t, NEW b \in [Hosts -> Intervals],
         NEW hl \in [Hosts -> Healths]
  PROVE  /\ Sync(h, t, b, hl) \in Entries
         /\ Sync(h, t, b, hl).on <=> h \in t
         /\ Sync(h, t, b, hl).inFlight => entry[h].on /\ entry[h].inFlight
<1> DEFINE iv == ProbeInterval(b[h], hl[h])
<1>1. entry[h] \in Entries /\ b[h] \in Intervals /\ hl[h] \in Healths
  BY DEF ShapeOK
<1>2. iv \in Nat \ {0}
  BY <1>1, IntervalPositive
<1>3. NoEntry \in Entries /\ ~NoEntry.on /\ ~NoEntry.inFlight
  BY DEF NoEntry, Entries
<1>4. CASE h \notin t
  BY <1>3, <1>4 DEF Sync
<1>5. CASE h \in t /\ ~entry[h].on
  <2>1. Sync(h, t, b, hl) = Added(h, b[h], hl[h], FirstSoon(h, b[h]))
    BY <1>5 DEF Sync
  <2> QED BY <1>1, <1>5, <2>1, FirstSoonInt, AddedShape
<1>6. CASE h \in t /\ Queued(h) /\ iv # entry[h].iv
  <2>1. Sync(h, t, b, hl) = Rescheduled(h, iv)
    BY <1>6 DEF Sync, Queued
  <2>2. entry[h].on /\ ~entry[h].inFlight
    BY <1>6 DEF Queued
  <2> HIDE DEF iv
  <2> QED BY <1>1, <1>2, <1>6, <2>1, <2>2, RescheduledShape DEF Entries
<1>7. CASE h \in t /\ entry[h].on /\ ~(Queued(h) /\ iv # entry[h].iv)
  <2>1. Sync(h, t, b, hl) = entry[h]
    BY <1>7 DEF Sync
  <2> QED BY <1>1, <1>7, <2>1
<1> QED BY <1>4, <1>5, <1>6, <1>7

---------------------------------------------------------------------------
(* Shape                                                                   *)

\* Who holds a job, and who is gone: dispatcher and idle workers carry none.
JobInv ==
  /\ \A w \in Workers : worker[w].pc = "busy" => worker[w].job.host \in Hosts
  /\ \A w \in Workers : worker[w].pc # "busy" => worker[w].job = NoJob
  /\ dispatcher.pc = "offer" => dispatcher.job.host \in Hosts
  /\ dispatcher.pc # "offer" => dispatcher.job = NoJob
  /\ dispatcher.pc = "done" => engine # "running"
  /\ engine \in {"closed", "stopped"} => dispatcher.pc = "done"

LEMMA InitShape == Init => ShapeOK /\ JobInv
<1> SUFFICES ASSUME Init PROVE ShapeOK /\ JobInv
  OBVIOUS
<1>1. base \in [Hosts -> Intervals] /\ health \in [Hosts -> Healths] /\ clock \in Int
  <2>1. clock \in Int /\ base \in [Hosts -> Intervals]
    BY ScheduleAssumption DEF Init, ScheduleAssumption
  <2>2. health \in [Hosts -> Healths]
    BY DEF Init, Healths
  <2> QED BY <2>1, <2>2
<1>2. entry \in [Hosts -> Entries]
  <2>1. ASSUME NEW h \in Hosts
        PROVE  Added(h, base[h], health[h], SlotIn(h, base[h], 0)) \in Entries
    <3>1. base[h] \in Intervals /\ health[h] \in Healths
      BY <1>1
    <3>2. base[h] \in Nat \ {0}
      BY <3>1, ScheduleAssumption DEF ScheduleAssumption
    <3>3. SlotIn(h, base[h], 0) \in Int
      BY <1>1, <3>2, SlotInInt
    <3> QED BY <3>1, <3>3, AddedShape
  <2>2. NoEntry \in Entries
    BY DEF NoEntry, Entries
  <2> QED BY <2>1, <2>2 DEF Init
<1>3. NoJob \in Jobs /\ NoJob.host \notin Hosts
  BY ScheduleAssumption DEF Jobs, NoJob, ScheduleAssumption
<1>4. ShapeOK
  BY <1>1, <1>2, <1>3 DEF Init, ShapeOK
<1>5. JobInv
  BY <1>3 DEF Init, JobInv
<1> QED BY <1>4, <1>5

LEMMA SyncAllShape ==
  ASSUME ShapeOK, NEW t, NEW b \in [Hosts -> Intervals], NEW hl \in [Hosts -> Healths],
         SyncAll(t, b, hl)
  PROVE  entry' \in [Hosts -> Entries]
<1>1. CASE engine = "stopped"
  BY <1>1 DEF SyncAll, ShapeOK
<1>2. CASE engine # "stopped"
  <2>1. \A h \in Hosts : Sync(h, t, b, hl) \in Entries
    BY SyncShape
  <2> QED BY <1>2, <2>1 DEF SyncAll
<1> QED BY <1>1, <1>2

LEMMA DoneShape ==
  ASSUME ShapeOK, NEW h \in Hosts, NEW hl \in Healths
  PROVE  /\ Done(h, hl) \in Entries
         /\ ~Done(h, hl).inFlight
         /\ entry[h].on => (Done(h, hl).on <=> h \in target)
<1>1. NoEntry \in Entries /\ ~NoEntry.on /\ ~NoEntry.inFlight
  BY DEF NoEntry, Entries
<1> QED BY <1>1, RequeuedShape DEF Done, Entries

LEMMA StepShape == ShapeOK /\ JobInv /\ [Next]_vars => ShapeOK' /\ JobInv'
<1> SUFFICES ASSUME ShapeOK, JobInv, [Next]_vars PROVE ShapeOK' /\ JobInv'
  OBVIOUS
<1> DEFINE Goal == ShapeOK' /\ JobInv'
<1>n. NoJob \in Jobs /\ NoJob.host \notin Hosts
  BY ScheduleAssumption DEF Jobs, NoJob, ScheduleAssumption
<1>1. ASSUME NEW h \in Hosts, TakeJob(h) PROVE Goal
  <2>1. Taken(h) \in Entries
    BY TakenShape DEF ShapeOK
  <2>2. entry[h] \in Entries
    BY DEF ShapeOK
  <2>3. [host |-> h, suspect |-> entry[h].suspect] \in Jobs
    BY <2>2 DEF Jobs, Entries
  <2> QED BY <1>1, <1>n, <2>1, <2>3 DEF ShapeOK, JobInv, TakeJob, hostVars
<1>2. ASSUME Sleep PROVE Goal
  <2>1. Waits \cup {Hour} \subseteq Int
    BY DEF Waits, Hour, Queue, ShapeOK, Entries
  <2> QED BY <1>2, <1>n, <2>1 DEF ShapeOK, JobInv, Sleep, hostVars, slotVars
<1>3. ASSUME Wake PROVE Goal
  <2>1. token' \in BOOLEAN
    BY <1>3 DEF Wake, ShapeOK
  <2>2. dispatcher.pc = "sleep"
        /\ dispatcher' = [pc |-> "look", job |-> NoJob, timer |-> 0]
        /\ UNCHANGED <<clock, hostVars, entry, worker, pool, slotVars, engine, changes>>
    BY <1>3 DEF Wake
  <2> QED BY <1>n, <2>1, <2>2 DEF ShapeOK, JobInv, hostVars, slotVars
<1>4. ASSUME NEW w \in Workers, Hand(w) PROVE Goal
  BY <1>4, <1>n, ScheduleAssumption
  DEF ShapeOK, JobInv, Hand, hostVars, slotVars, ScheduleAssumption
<1>5. ASSUME DispatcherExit PROVE Goal
  BY <1>5, <1>n DEF ShapeOK, JobInv, DispatcherExit, hostVars, slotVars
<1>6. ASSUME NEW w \in Workers, NEW hl \in Healths, Finish(w, hl) PROVE Goal
  <2> DEFINE h == worker[w].job.host
  <2>1. h \in Hosts /\ worker[w].pc = "busy"
    BY <1>6 DEF Finish, JobInv
  <2>2. Done(h, hl) \in Entries
    BY <2>1, DoneShape
  <2>3. entry' \in [Hosts -> Entries]
    BY <1>6, <2>1, <2>2 DEF Finish, ShapeOK
  <2>4. token' \in BOOLEAN
    BY <1>6 DEF Finish, ShapeOK, Signal
  <2>5. health' \in [Hosts -> Healths]
    BY <1>6, <2>1 DEF Finish, ShapeOK
  <2>6. suspectInFlight' \in Int /\ inFlight' \in Int
    BY <1>6 DEF Finish, Release, ShapeOK
  <2>7. worker' = [worker EXCEPT ![w] = [pc |-> "idle", job |-> NoJob, left |-> 0]]
        /\ UNCHANGED <<clock, target, base, dispatcher, pool, engine, changes>>
    BY <1>6 DEF Finish
  <2> QED BY <1>n, <2>1, <2>3, <2>4, <2>5, <2>6, <2>7 DEF ShapeOK, JobInv
<1>7. ASSUME NEW w \in Workers, WorkerExit(w) PROVE Goal
  BY <1>7 DEF ShapeOK, JobInv, WorkerExit, hostVars, slotVars
<1>8. ASSUME NEW t \in SUBSET Hosts, NEW b \in [Hosts -> Intervals], NEW r \in SUBSET Hosts,
             SetTargets(t, b, r)
      PROVE  Goal
  <2>1. health' \in [Hosts -> Healths]
    BY <1>8 DEF SetTargets, ShapeOK, Healths
  <2>2. entry' \in [Hosts -> Entries]
    BY <1>8, <2>1, SyncAllShape DEF SetTargets
  <2> QED BY <1>8, <2>1, <2>2 DEF ShapeOK, JobInv, SetTargets, slotVars
<1>9. ASSUME NEW n \in 1 .. Cardinality(Workers), NEW b \in [Hosts -> Intervals],
             UpdateConfig(n, b)
      PROVE  Goal
  <2>1. entry' \in [Hosts -> Entries]
    BY <1>9, SyncAllShape DEF UpdateConfig, ShapeOK
  <2>2. CASE engine = "stopped"
    BY <1>9, <2>1, <2>2 DEF ShapeOK, JobInv, UpdateConfig, Resize, slotVars
  <2>3. CASE engine # "stopped"
    <3>1. PICK p \in SUBSET Workers :
            /\ p \subseteq pool \/ (pool \subseteq p /\ \A w \in p \ pool : worker[w].pc = "gone")
            /\ pool' = p
            /\ worker' = [w \in Workers |-> IF w \in p \ pool THEN [worker[w] EXCEPT !.pc = "idle"]
                                            ELSE worker[w]]
      BY <1>9, <2>3 DEF UpdateConfig, Resize
    <3> QED BY <1>9, <2>1, <3>1 DEF ShapeOK, JobInv, UpdateConfig, slotVars
  <2> QED BY <2>2, <2>3
<1>10. ASSUME NEW h \in Hosts, NEW hl \in Healths, Ping(h, hl) PROVE Goal
  BY <1>10 DEF ShapeOK, JobInv, Ping, slotVars
<1>11. ASSUME StopRequested PROVE Goal
  BY <1>11 DEF ShapeOK, JobInv, StopRequested, hostVars, slotVars
<1>12. ASSUME CloseWorkChan PROVE Goal
  BY <1>12 DEF ShapeOK, JobInv, CloseWorkChan, hostVars, slotVars
<1>13. ASSUME Stopped PROVE Goal
  <2>1. NoEntry \in Entries
    BY DEF NoEntry, Entries
  <2> QED BY <1>13, <2>1 DEF ShapeOK, JobInv, Stopped, hostVars
<1>14. ASSUME Tick PROVE Goal
  <2>1. \A h \in Hosts : Aged(entry[h]) \in Entries
    BY AgedShape DEF ShapeOK
  <2>2. clock' \in Int
    BY <1>14, ScheduleAssumption DEF Tick, ShapeOK, ScheduleAssumption
  <2>3. ASSUME NEW w \in Workers
        PROVE  worker'[w] \in [pc : {"gone", "idle", "busy"}, job : Jobs, left : Int]
               /\ worker'[w].pc = worker[w].pc /\ worker'[w].job = worker[w].job
    BY <1>14 DEF Tick, ShapeOK
  <2>4. dispatcher' \in [pc : {"look", "offer", "sleep", "done"}, job : Jobs, timer : Int]
        /\ dispatcher'.pc = dispatcher.pc /\ dispatcher'.job = dispatcher.job
    BY <1>14 DEF Tick, ShapeOK
  <2>5. worker' = [w \in Workers |-> worker'[w]]
    BY <1>14 DEF Tick
  <2>6. entry' \in [Hosts -> Entries]
    BY <1>14, <2>1 DEF Tick
  <2> QED BY <1>14, <2>2, <2>3, <2>4, <2>5, <2>6 DEF ShapeOK, JobInv, Tick, hostVars, slotVars
<1>15. ASSUME UNCHANGED vars PROVE Goal
  BY <1>15 DEF ShapeOK, JobInv, vars, hostVars, slotVars
<1>16. Goal
  <2> HIDE DEF Goal
  <2> QED BY <1>1, <1>2, <1>3, <1>4, <1>5, <1>6, <1>7, <1>8, <1>9, <1>10, <1>11, <1>12,
             <1>13, <1>14, <1>15 DEF Next, Dispatch, Work, Configure
<1> QED BY <1>16

---------------------------------------------------------------------------
(* No monitored host drops out of the rotation                             *)

LEMMA SyncKeepsRotation ==
  ASSUME ShapeOK, NoHostForgotten, engine = "running",
         NEW t \in SUBSET Hosts, NEW b \in [Hosts -> Intervals], NEW hl \in [Hosts -> Healths],
         SyncAll(t, b, hl), NEW h \in Hosts
  PROVE  /\ entry'[h].on <=> h \in t
         /\ entry'[h].inFlight => Offered(h) \/ Busy(h) # {}
<1>1. entry'[h] = Sync(h, t, b, hl)
  BY DEF SyncAll
<1> QED BY <1>1, SyncShape DEF NoHostForgotten

LEMMA StepForgotten ==
  ShapeOK /\ JobInv /\ NoHostForgotten /\ [Next]_vars => NoHostForgotten'
<1> SUFFICES ASSUME ShapeOK, JobInv, NoHostForgotten, [Next]_vars, engine' = "running",
                    NEW g \in Hosts
             PROVE  (/\ entry[g].on <=> g \in target
                     /\ entry[g].on /\ entry[g].inFlight => Offered(g) \/ Busy(g) # {})'
  BY DEF NoHostForgotten
<1> DEFINE Goal == (/\ entry[g].on <=> g \in target
                    /\ entry[g].on /\ entry[g].inFlight => Offered(g) \/ Busy(g) # {})'
<1>0. /\ entry[g].on <=> g \in target
      /\ entry[g].on /\ entry[g].inFlight => Offered(g) \/ Busy(g) # {}
      /\ engine = "running"
  BY DEF NoHostForgotten, Next, Dispatch, Work, Configure, TakeJob, Sleep, Wake, Hand,
         DispatcherExit, Finish, WorkerExit, SetTargets, UpdateConfig, Ping, StopRequested,
         CloseWorkChan, Stopped, Tick, vars
<1>1. ASSUME NEW h \in Hosts, TakeJob(h) PROVE Goal
  <2>1. Taken(h).on = entry[h].on
    BY TakenShape DEF ShapeOK
  <2>2. ~Offered(g)
    BY <1>1 DEF TakeJob, Offered
  <2>3. dispatcher'.pc = "offer" /\ dispatcher'.job.host = h /\ UNCHANGED <<worker, target>>
        /\ entry' = [entry EXCEPT ![h] = Taken(h)]
    BY <1>1 DEF TakeJob, hostVars
  <2>4. CASE g = h
    BY <1>0, <2>1, <2>3, <2>4 DEF Offered, ShapeOK
  <2>5. CASE g # h
    BY <1>0, <2>2, <2>3, <2>5 DEF Busy, ShapeOK
  <2> QED BY <2>4, <2>5
<1>2. ASSUME Sleep PROVE Goal
  BY <1>0, <1>2 DEF Sleep, Offered, Busy, hostVars
<1>3. ASSUME Wake PROVE Goal
  BY <1>0, <1>3 DEF Wake, Offered, Busy, hostVars
<1>4. ASSUME NEW w \in Workers, Hand(w) PROVE Goal
  <2>1. dispatcher.pc = "offer" /\ worker[w].pc = "idle" /\ UNCHANGED <<entry, target>>
        /\ worker' = [worker EXCEPT ![w] =
                        [pc |-> "busy", job |-> dispatcher.job, left |-> Timeout]]
    BY <1>4 DEF Hand, hostVars
  <2>2. Offered(g) => w \in Busy(g)'
    BY <2>1 DEF Offered, Busy, ShapeOK
  <2>3. \A v \in Busy(g) : v \in Busy(g)'
    BY <2>1 DEF Busy, ShapeOK
  <2> QED BY <1>0, <2>1, <2>2, <2>3
<1>5. ASSUME DispatcherExit PROVE Goal
  BY <1>5, <1>0 DEF DispatcherExit
<1>6. ASSUME NEW w \in Workers, NEW hl \in Healths, Finish(w, hl) PROVE Goal
  <2> DEFINE h == worker[w].job.host
  <2>1. h \in Hosts /\ worker[w].pc = "busy"
    BY <1>6 DEF Finish, JobInv
  <2>2. worker' = [worker EXCEPT ![w] = [pc |-> "idle", job |-> NoJob, left |-> 0]]
        /\ UNCHANGED <<target, dispatcher>>
    BY <1>6 DEF Finish
  <2>3. CASE g = h
    <3>1. CASE entry[h].on /\ entry[h].inFlight /\ ~(engine # "running" /\ IsSuspect(hl))
      <4>1. entry'[h] = Done(h, hl)
        BY <1>6, <2>1, <3>1 DEF Finish, ShapeOK
      <4> QED BY <1>0, <2>1, <2>2, <2>3, <3>1, <4>1, DoneShape
    <3>2. CASE ~(entry[h].on /\ entry[h].inFlight /\ ~(engine # "running" /\ IsSuspect(hl)))
      <4>1. entry' = entry
        BY <1>6, <3>2 DEF Finish
      <4>2. ~(entry[h].on /\ entry[h].inFlight)
        BY <1>0, <3>2
      <4> QED BY <1>0, <2>2, <2>3, <4>1, <4>2
    <3> QED BY <3>1, <3>2
  <2>4. CASE g # h
    <3>1. entry'[g] = entry[g]
      BY <1>6, <2>1, <2>4 DEF Finish, ShapeOK
    <3>2. \A v \in Busy(g) : v \in Busy(g)'
      BY <2>2, <2>4 DEF Busy, ShapeOK
    <3> QED BY <1>0, <2>2, <3>1, <3>2 DEF Offered
  <2> QED BY <2>3, <2>4
<1>7. ASSUME NEW w \in Workers, WorkerExit(w) PROVE Goal
  <2>1. \A v \in Busy(g) : v \in Busy(g)'
    BY <1>7 DEF WorkerExit, Busy, ShapeOK
  <2> QED BY <1>0, <1>7, <2>1 DEF WorkerExit, Offered, hostVars
<1>8. ASSUME NEW t \in SUBSET Hosts, NEW b \in [Hosts -> Intervals], NEW r \in SUBSET Hosts,
             SetTargets(t, b, r)
      PROVE  Goal
  <2>1. health' \in [Hosts -> Healths]
    BY <1>8 DEF SetTargets, ShapeOK, Healths
  <2>2. /\ entry'[g].on <=> g \in t
        /\ entry'[g].inFlight => Offered(g) \/ Busy(g) # {}
    BY <1>0, <1>8, <2>1, SyncKeepsRotation DEF SetTargets
  <2> QED BY <1>8, <2>2 DEF SetTargets, Offered, Busy
<1>9. ASSUME NEW n \in 1 .. Cardinality(Workers), NEW b \in [Hosts -> Intervals],
             UpdateConfig(n, b)
      PROVE  Goal
  <2>1. /\ entry'[g].on <=> g \in target
        /\ entry'[g].inFlight => Offered(g) \/ Busy(g) # {}
    BY <1>0, <1>9, SyncKeepsRotation DEF UpdateConfig, ShapeOK
  <2>2. PICK p \in SUBSET Workers :
            /\ p \subseteq pool \/ (pool \subseteq p /\ \A w \in p \ pool : worker[w].pc = "gone")
            /\ pool' = p
            /\ worker' = [w \in Workers |-> IF w \in p \ pool THEN [worker[w] EXCEPT !.pc = "idle"]
                                            ELSE worker[w]]
    BY <1>0, <1>9 DEF UpdateConfig, Resize
  <2>3. \A v \in Busy(g) : v \in Busy(g)'
    BY <2>2 DEF Busy, ShapeOK
  <2> QED BY <1>9, <2>1, <2>3 DEF UpdateConfig, Offered
<1>10. ASSUME NEW h \in Hosts, NEW hl \in Healths, Ping(h, hl) PROVE Goal
  BY <1>0, <1>10 DEF Ping, Offered, Busy
<1>11. ASSUME StopRequested PROVE Goal
  BY <1>11 DEF StopRequested
<1>12. ASSUME CloseWorkChan PROVE Goal
  BY <1>12 DEF CloseWorkChan
<1>13. ASSUME Stopped PROVE Goal
  BY <1>13 DEF Stopped
<1>14. ASSUME Tick PROVE Goal
  <2>1. entry'[g] = Aged(entry[g]) /\ target' = target
    BY <1>14 DEF Tick, hostVars
  <2>2. Aged(entry[g]).on = entry[g].on /\ Aged(entry[g]).inFlight = entry[g].inFlight
    BY AgedShape DEF ShapeOK
  <2>3. dispatcher'.pc = dispatcher.pc /\ dispatcher'.job = dispatcher.job
    BY <1>14 DEF Tick, ShapeOK
  <2>4. \A v \in Busy(g) : v \in Busy(g)'
    BY <1>14 DEF Tick, Busy, ShapeOK
  <2> QED BY <1>0, <2>1, <2>2, <2>3, <2>4 DEF Offered
<1>15. ASSUME UNCHANGED vars PROVE Goal
  BY <1>0, <1>15 DEF vars, Offered, Busy
<1>16. Goal
  <2> HIDE DEF Goal
  <2> QED BY <1>1, <1>2, <1>3, <1>4, <1>5, <1>6, <1>7, <1>8, <1>9, <1>10, <1>11, <1>12,
             <1>13, <1>14, <1>15 DEF Next, Dispatch, Work, Configure
<1> QED BY <1>16

\* Every monitored host stays in the rotation, for every number of hosts and
\* workers, through removals, additions and changes of the interval
\* (schedSyncUnsafe, schedDoneUnsafe, startJobUnsafe).
THEOREM MonitoredHostsStayScheduled == Spec => []NoHostForgotten
<1>1. Init => ShapeOK /\ JobInv /\ NoHostForgotten
  <2>1. ASSUME Init, NEW h \in Hosts PROVE ~entry[h].inFlight /\ (entry[h].on <=> h \in target)
    BY <2>1 DEF Init, Added, NoEntry
  <2> QED BY <2>1, InitShape DEF NoHostForgotten
<1>2. ShapeOK /\ JobInv /\ NoHostForgotten /\ [Next]_vars
        => (ShapeOK /\ JobInv /\ NoHostForgotten)'
  BY StepShape, StepForgotten
<1> QED BY <1>1, <1>2, PTL DEF Spec

---------------------------------------------------------------------------
(* No wake-up of the dispatcher is lost                                    *)

\* The dispatcher could hand out the probe of h once it is due.
Ready(h) == Queued(h) /\ (entry[h].suspect => SlotFree)

Covered(h) == Ready(h) => dispatcher.timer # Hour /\ dispatcher.timer <= entry[h].due

Asleep == dispatcher.pc = "sleep" /\ ~token

AsleepCovered == Asleep => \A h \in Hosts : Covered(h)

LEMMA WakeupByHost ==
  ShapeOK => (NoLostWakeup <=> AsleepCovered)
<1> SUFFICES ASSUME ShapeOK
             PROVE  NoLostWakeup <=> AsleepCovered
  OBVIOUS
<1>1. \A h \in Hosts : entry[h].suspect \in BOOLEAN
  BY DEF ShapeOK, Entries
<1>2. Waits = {entry[h].due : h \in {g \in Hosts : Ready(g)}}
  BY <1>1 DEF Waits, Queue, Ready
<1> QED BY <1>2 DEF NoLostWakeup, AsleepCovered, Asleep, Covered

LEMMA FinishWakeup ==
  ASSUME ShapeOK, JobInv, Asleep => \A h \in Hosts : Covered(h),
         NEW w \in Workers, NEW hl \in Healths, Finish(w, hl)
  PROVE  Asleep' => \A h \in Hosts : Covered(h)'
<1> SUFFICES ASSUME Asleep', NEW g \in Hosts, Ready(g)'
             PROVE  dispatcher'.timer # Hour /\ dispatcher'.timer <= entry'[g].due
  BY DEF Covered, Hour
<1> DEFINE job == worker[w].job
           h == job.host
           next == Done(h, hl)
<1>1. h \in Hosts /\ job.suspect \in BOOLEAN
  <2>1. worker[w].pc = "busy" /\ job \in Jobs
    BY DEF Finish, ShapeOK
  <2>2. h \in Hosts
    BY <2>1 DEF JobInv
  <2>3. job.suspect \in BOOLEAN
    <3>1. \A j \in Jobs : j.suspect \in BOOLEAN
      <4>1. \A j \in [host : Hosts, suspect : BOOLEAN] : j.suspect \in BOOLEAN
        OBVIOUS
      <4>2. NoJob.suspect = FALSE
        BY DEF NoJob
      <4> QED BY <4>1, <4>2 DEF Jobs
    <3> HIDE DEF job
    <3> QED BY <2>1, <3>1
  <2> QED BY <2>2, <2>3
<1>2. next \in Entries /\ ~next.inFlight
  BY <1>1, DoneShape
<1>3. UNCHANGED <<dispatcher, pool>>
  BY DEF Finish
<1>4. ~token /\ ~job.suspect
  BY DEF Finish, Asleep, Signal, ShapeOK
<1>5. suspectInFlight' = suspectInFlight
  BY <1>4 DEF Finish, Release
<1>6. SlotFree' = SlotFree /\ (\A f \in Hosts : Covered(f))
  BY <1>3, <1>4, <1>5 DEF SlotFree, Asleep
<1>7. CASE entry'[g] = entry[g]
  BY <1>3, <1>6, <1>7 DEF Ready, Queued, Covered
<1>8. CASE entry'[g] # entry[g]
  <2>1. g = h /\ entry'[g] = next
    BY <1>1, <1>8 DEF Finish, ShapeOK
  <2>2. ~Signal(job, h, next)
    BY <1>8, <2>1 DEF Finish, Asleep
  <2>3. next.on
    BY <2>1 DEF Ready, Queued
  <2>4. PICK f \in Queue(next.suspect) : ~(next.due < entry[f].due)
    BY <2>2, <2>3 DEF Signal
  <2>5. f \in Hosts /\ Queued(f) /\ entry[f].suspect = next.suspect
    BY <2>4 DEF Queue
  <2>6. next.suspect => SlotFree
    BY <1>6, <2>1 DEF Ready
  <2>7. dispatcher.timer # Hour /\ dispatcher.timer <= entry[f].due
    BY <1>6, <2>5, <2>6 DEF Covered, Ready
  <2>8. next.due \in Int /\ entry[f].due \in Int /\ dispatcher.timer \in Int
    BY <1>2, <2>5 DEF ShapeOK, Entries
  <2>9. dispatcher.timer <= next.due
    <3> HIDE DEF next
    <3> QED BY <2>4, <2>7, <2>8
  <2> QED BY <1>3, <2>1, <2>7, <2>9
<1> QED BY <1>7, <1>8

LEMMA TickWakeup ==
  ASSUME ShapeOK, Asleep => \A h \in Hosts : Covered(h), Tick
  PROVE  Asleep' => \A h \in Hosts : Covered(h)'
<1> SUFFICES ASSUME Asleep', NEW g \in Hosts, Ready(g)'
             PROVE  dispatcher'.timer # Hour /\ dispatcher'.timer <= entry'[g].due
  BY DEF Covered, Hour
<1>1. token' = token /\ dispatcher'.pc = dispatcher.pc /\ UNCHANGED <<pool, suspectInFlight>>
  BY DEF Tick, ShapeOK, slotVars
<1>2. Asleep /\ SlotFree' = SlotFree
  BY <1>1 DEF Asleep, SlotFree
<1>3. dispatcher.timer # 0 /\ dispatcher.timer \in Int
  BY <1>2 DEF Tick, Urgent, Asleep, ShapeOK
<1>4. entry'[g] = Aged(entry[g]) /\ entry[g] \in Entries
  BY DEF Tick, ShapeOK
<1>5. /\ Aged(entry[g]).on = entry[g].on
      /\ Aged(entry[g]).inFlight = entry[g].inFlight
      /\ Aged(entry[g]).suspect = entry[g].suspect
      /\ Aged(entry[g]).due >= entry[g].due - 1
      /\ Aged(entry[g]).due \in Int /\ entry[g].due \in Int
  BY <1>4, AgedShape DEF Entries
<1>6. Ready(g)
  BY <1>2, <1>4, <1>5 DEF Ready, Queued
<1>7. dispatcher.timer # Hour /\ dispatcher.timer <= entry[g].due
  BY <1>2, <1>6 DEF Covered
<1>8. dispatcher'.timer = dispatcher.timer - 1
  BY <1>2, <1>7 DEF Tick, Asleep, ShapeOK
<1> QED BY <1>3, <1>4, <1>5, <1>7, <1>8 DEF Hour

LEMMA StepWakeup ==
  ShapeOK /\ JobInv /\ NoLostWakeup /\ [Next]_vars => NoLostWakeup'
<1> SUFFICES ASSUME ShapeOK, JobInv, NoLostWakeup, [Next]_vars
             PROVE  Asleep' => \A g \in Hosts : Covered(g)'
  <2>1. ShapeOK /\ JobInv /\ [Next]_vars => ShapeOK'
    BY StepShape
  <2>2. ShapeOK' => (NoLostWakeup' <=> AsleepCovered')
    BY WakeupByHost, PTL
  <2> QED BY <2>1, <2>2 DEF AsleepCovered
<1> DEFINE Goal == Asleep' => \A g \in Hosts : Covered(g)'
<1>0. Asleep => \A g \in Hosts : Covered(g)
  BY WakeupByHost DEF AsleepCovered
<1>1. ASSUME NEW h \in Hosts, TakeJob(h) PROVE Goal
  BY <1>1 DEF TakeJob, Asleep
<1>2. ASSUME Sleep PROVE Goal
  <2>1. PICK t \in Waits \cup {Hour} :
          /\ IF t = Hour THEN Waits = {} ELSE \A s \in Waits : t <= s
          /\ dispatcher' = [pc |-> "sleep", job |-> NoJob, timer |-> t]
    BY <1>2 DEF Sleep
  <2>2. UNCHANGED <<entry, pool, suspectInFlight>>
    BY <1>2 DEF Sleep, slotVars
  <2>3. ASSUME NEW g \in Hosts, Ready(g)'
        PROVE  dispatcher'.timer # Hour /\ dispatcher'.timer <= entry'[g].due
    <3>1. Ready(g) /\ entry[g].suspect \in BOOLEAN
      BY <2>2, <2>3 DEF Ready, Queued, SlotFree, ShapeOK, Entries
    <3>2. entry[g].due \in Waits
      BY <3>1 DEF Waits, Queue, Ready
    <3> QED BY <2>1, <2>2, <3>2
  <2> QED BY <2>3 DEF Covered, Hour
<1>3. ASSUME Wake PROVE Goal
  BY <1>3 DEF Wake, Asleep
<1>4. ASSUME NEW w \in Workers, Hand(w) PROVE Goal
  BY <1>4 DEF Hand, Asleep
<1>5. ASSUME DispatcherExit PROVE Goal
  BY <1>5 DEF DispatcherExit, Asleep
<1>6. ASSUME NEW w \in Workers, NEW hl \in Healths, Finish(w, hl) PROVE Goal
  BY <1>0, <1>6, FinishWakeup
<1>7. ASSUME NEW w \in Workers, WorkerExit(w) PROVE Goal
  BY <1>0, <1>7 DEF WorkerExit, Asleep, Covered, Ready, Queued, SlotFree, slotVars, Hour
<1>8. ASSUME NEW t \in SUBSET Hosts, NEW b \in [Hosts -> Intervals], NEW r \in SUBSET Hosts,
             SetTargets(t, b, r)
      PROVE  Goal
  BY <1>8 DEF SetTargets, Asleep
<1>9. ASSUME NEW n \in 1 .. Cardinality(Workers), NEW b \in [Hosts -> Intervals],
             UpdateConfig(n, b)
      PROVE  Goal
  BY <1>9 DEF UpdateConfig, Asleep
<1>10. ASSUME NEW h \in Hosts, NEW hl \in Healths, Ping(h, hl) PROVE Goal
  BY <1>0, <1>10 DEF Ping, Asleep, Covered, Ready, Queued, SlotFree, slotVars, Hour
<1>11. ASSUME StopRequested PROVE Goal
  BY <1>0, <1>11 DEF StopRequested, Asleep, Covered, Ready, Queued, SlotFree, slotVars, Hour
<1>12. ASSUME CloseWorkChan PROVE Goal
  BY <1>0, <1>12 DEF CloseWorkChan, Asleep, Covered, Ready, Queued, SlotFree, slotVars, Hour
<1>13. ASSUME Stopped PROVE Goal
  BY <1>13 DEF Stopped, Asleep, JobInv
<1>14. ASSUME Tick PROVE Goal
  BY <1>0, <1>14, TickWakeup
<1>15. ASSUME UNCHANGED vars PROVE Goal
  BY <1>0, <1>15 DEF vars, Asleep, Covered, Ready, Queued, SlotFree, Hour
<1>16. Goal
  <2> HIDE DEF Goal
  <2> QED BY <1>1, <1>2, <1>3, <1>4, <1>5, <1>6, <1>7, <1>8, <1>9, <1>10, <1>11, <1>12,
             <1>13, <1>14, <1>15 DEF Next, Dispatch, Work, Configure
<1> QED BY <1>16

\* The dispatcher never sleeps past a probe it could hand out: each completion
\* that frees a suspect slot or queues an earlier probe leaves a token in
\* schedWake (signalSchedule, schedPushUnsafe, probeAndApply, dispatchLoop).
THEOREM DispatcherWakesInTime == Spec => []NoLostWakeup
<1>1. Init => ShapeOK /\ JobInv /\ NoLostWakeup
  <2>1. Init => NoLostWakeup
    <3>1. Init => dispatcher.pc = "look"
      BY DEF Init
    <3> QED BY <3>1 DEF NoLostWakeup
  <2> QED BY <2>1, InitShape
<1>2. ShapeOK /\ JobInv /\ NoLostWakeup /\ [Next]_vars
        => (ShapeOK /\ JobInv /\ NoLostWakeup)'
  BY StepShape, StepWakeup
<1> QED BY <1>1, <1>2, PTL DEF Spec
---------------------------------------------------------------------------
(* Which step starts a probe                                               *)

LEMMA OnlyTakeJobStarts ==
  ASSUME ShapeOK, JobInv, Next, NEW g \in Hosts, Queued(g), entry'[g].on, entry'[g].inFlight
  PROVE  TakeJob(g)
<1> USE DEF Queued
<1>1. ASSUME NEW h \in Hosts, TakeJob(h), h # g PROVE FALSE
  BY <1>1 DEF TakeJob, ShapeOK
<1>2. ASSUME NEW w \in Workers, NEW hl \in Healths, Finish(w, hl) PROVE FALSE
  <2> DEFINE h == worker[w].job.host
  <2>1. h \in Hosts
    BY <1>2 DEF Finish, JobInv
  <2>2. entry' = entry \/ entry' = [entry EXCEPT ![h] = Done(h, hl)]
    BY <1>2 DEF Finish
  <2>3. ~Done(h, hl).inFlight
    BY <2>1, DoneShape
  <2> QED
    BY <2>1, <2>2, <2>3 DEF ShapeOK
<1>3. ASSUME NEW t \in SUBSET Hosts, NEW b \in [Hosts -> Intervals], NEW hl \in [Hosts -> Healths],
             SyncAll(t, b, hl)
      PROVE  FALSE
  <2>1. entry'[g] = entry[g] \/ entry'[g] = Sync(g, t, b, hl)
    BY <1>3 DEF SyncAll
  <2> QED
    BY <2>1, SyncShape
<1>4. ASSUME Configure PROVE FALSE
  <2>1. ASSUME NEW t \in SUBSET Hosts, NEW b \in [Hosts -> Intervals], NEW r \in SUBSET Hosts,
               SetTargets(t, b, r)
        PROVE  FALSE
    <3>1. health' \in [Hosts -> Healths]
      BY <2>1 DEF SetTargets, ShapeOK, Healths
    <3> QED
      BY <1>3, <2>1, <3>1 DEF SetTargets
  <2>2. ASSUME NEW n \in 1 .. Cardinality(Workers), NEW b \in [Hosts -> Intervals],
               UpdateConfig(n, b)
        PROVE  FALSE
    BY <1>3, <2>2 DEF UpdateConfig, ShapeOK
  <2> QED
    BY <1>4, <2>1, <2>2 DEF Configure
<1>5. ASSUME Stopped PROVE FALSE
  BY <1>5 DEF Stopped, NoEntry
<1>6. ASSUME Tick PROVE FALSE
  <2>1. entry'[g] = Aged(entry[g]) /\ entry[g] \in Entries
    BY <1>6 DEF Tick, ShapeOK
  <2> QED
    BY <2>1, AgedShape
<1>7. CASE entry' = entry
  BY <1>7
<1> QED
  BY <1>1, <1>2, <1>4, <1>5, <1>6, <1>7
  DEF Next, Dispatch, Work, Sleep, Wake, Hand, DispatcherExit, WorkerExit, Ping, StopRequested,
      CloseWorkChan

---------------------------------------------------------------------------
(* The counter of the suspect slots counts the probes under way            *)

SuspectOffer == IF dispatcher.pc = "offer" /\ dispatcher.job.suspect THEN 1 ELSE 0

SlotsCounted ==
  engine = "running" => suspectInFlight = Cardinality(SuspectProbes) + SuspectOffer

LEMMA SuspectProbesFinite == IsFiniteSet(SuspectProbes) /\ Cardinality(SuspectProbes) \in Nat
BY ScheduleAssumption, FS_Subset, FS_CardinalityType DEF ScheduleAssumption, SuspectProbes

LEMMA StepSlotsCounted ==
  ASSUME ShapeOK, JobInv, SlotsCounted, [Next]_vars
  PROVE  SlotsCounted'
<1> SUFFICES ASSUME engine' = "running"
             PROVE  suspectInFlight' = Cardinality(SuspectProbes') + SuspectOffer'
  BY DEF SlotsCounted
<1> DEFINE Goal == suspectInFlight' = Cardinality(SuspectProbes') + SuspectOffer'
<1>0. /\ suspectInFlight = Cardinality(SuspectProbes) + SuspectOffer
      /\ engine = "running"
  BY DEF SlotsCounted, Next, Dispatch, Work, Configure, TakeJob, Sleep, Wake, Hand,
         DispatcherExit, Finish, WorkerExit, SetTargets, UpdateConfig, Ping, StopRequested,
         CloseWorkChan, Stopped, Tick, vars
<1>i. suspectInFlight \in Int /\ Cardinality(SuspectProbes) \in Nat
  BY SuspectProbesFinite DEF ShapeOK
<1>w. worker \in [Workers -> [pc : {"gone", "idle", "busy"}, job : Jobs, left : Int]]
  BY DEF ShapeOK
<1>b. \A j \in Jobs : j.suspect \in BOOLEAN
  <2>1. \A j \in [host : Hosts, suspect : BOOLEAN] : j.suspect \in BOOLEAN
    OBVIOUS
  <2>2. NoJob.suspect = FALSE
    BY DEF NoJob
  <2> QED
    BY <2>1, <2>2 DEF Jobs
<1>1. ASSUME NEW h \in Hosts, TakeJob(h) PROVE Goal
  <2>1. SuspectProbes' = SuspectProbes /\ SuspectOffer = 0
    BY <1>1 DEF TakeJob, SuspectProbes, SuspectOffer
  <2>2. SuspectOffer' = IF entry[h].suspect THEN 1 ELSE 0
    BY <1>1 DEF TakeJob, SuspectOffer
  <2>3. suspectInFlight' = IF entry[h].suspect THEN suspectInFlight + 1 ELSE suspectInFlight
    BY <1>1 DEF TakeJob
  <2> QED
    BY <1>0, <1>i, <2>1, <2>2, <2>3
<1>2. ASSUME Sleep \/ Wake PROVE Goal
  <2>1. /\ dispatcher.pc \in {"look", "sleep"} /\ dispatcher'.pc \in {"look", "sleep"}
        /\ worker' = worker /\ suspectInFlight' = suspectInFlight
    BY <1>2 DEF Sleep, Wake, slotVars
  <2> QED
    BY <1>0, <2>1 DEF SuspectProbes, SuspectOffer
<1>3. ASSUME NEW w \in Workers, Hand(w) PROVE Goal
  <2>1. /\ dispatcher.pc = "offer" /\ worker[w].pc = "idle" /\ suspectInFlight' = suspectInFlight
        /\ worker' = [worker EXCEPT ![w] =
                        [pc |-> "busy", job |-> dispatcher.job, left |-> Timeout]]
        /\ dispatcher' = [pc |-> "look", job |-> NoJob, timer |-> 0]
    BY <1>3 DEF Hand, slotVars
  <2>2. w \notin SuspectProbes /\ SuspectOffer' = 0
    BY <2>1 DEF SuspectProbes, SuspectOffer
  <2>3. CASE dispatcher.job.suspect
    <3>1. SuspectProbes' = SuspectProbes \cup {w}
      BY <1>w, <2>1, <2>3 DEF SuspectProbes
    <3>2. Cardinality(SuspectProbes') = Cardinality(SuspectProbes) + 1
      BY <2>2, <3>1, SuspectProbesFinite, FS_AddElement
    <3> QED
      BY <1>0, <1>i, <2>1, <2>2, <2>3, <3>2 DEF SuspectOffer
  <2>4. CASE ~dispatcher.job.suspect
    <3>1. SuspectProbes' = SuspectProbes
      BY <1>w, <2>1, <2>4 DEF SuspectProbes
    <3> QED
      BY <1>0, <1>i, <2>1, <2>2, <2>4, <3>1 DEF SuspectOffer
  <2> QED
    BY <2>3, <2>4
<1>4. ASSUME NEW w \in Workers, NEW hl \in Healths, Finish(w, hl) PROVE Goal
  <2>1. /\ worker[w].pc = "busy" /\ Release(worker[w].job)
        /\ worker' = [worker EXCEPT ![w] = [pc |-> "idle", job |-> NoJob, left |-> 0]]
        /\ dispatcher' = dispatcher
    BY <1>4 DEF Finish
  <2>2. SuspectProbes' = SuspectProbes \ {w} /\ SuspectOffer' = SuspectOffer
    BY <1>w, <2>1 DEF SuspectProbes, SuspectOffer
  <2>3. Cardinality(SuspectProbes') =
          IF w \in SuspectProbes THEN Cardinality(SuspectProbes) - 1 ELSE Cardinality(SuspectProbes)
    BY <2>2, SuspectProbesFinite, FS_RemoveElement
  <2>4. w \in SuspectProbes <=> worker[w].job.suspect
    BY <2>1 DEF SuspectProbes
  <2>5. SuspectOffer \in Int
    BY DEF SuspectOffer
  <2> QED
    BY <1>0, <1>i, <2>1, <2>2, <2>3, <2>4, <2>5 DEF Release
<1>5. ASSUME NEW w \in Workers, WorkerExit(w) PROVE Goal
  <2>1. worker[w].pc = "idle" /\ worker' = [worker EXCEPT ![w].pc = "gone"]
        /\ dispatcher' = dispatcher /\ suspectInFlight' = suspectInFlight
    BY <1>5 DEF WorkerExit, slotVars
  <2>2. \A v \in Workers :
          worker'[v].pc = "busy" /\ worker'[v].job.suspect
            <=> worker[v].pc = "busy" /\ worker[v].job.suspect
    BY <1>w, <2>1
  <2>3. SuspectProbes' = SuspectProbes
    BY <2>2 DEF SuspectProbes
  <2> QED
    BY <1>0, <2>1, <2>3 DEF SuspectOffer
<1>6. ASSUME NEW n \in 1 .. Cardinality(Workers), NEW b \in [Hosts -> Intervals],
             UpdateConfig(n, b)
      PROVE  Goal
  <2>1. PICK p \in SUBSET Workers :
            /\ p \subseteq pool \/ (pool \subseteq p /\ \A w \in p \ pool : worker[w].pc = "gone")
            /\ pool' = p
            /\ worker' = [w \in Workers |-> IF w \in p \ pool THEN [worker[w] EXCEPT !.pc = "idle"]
                                            ELSE worker[w]]
    BY <1>0, <1>6 DEF UpdateConfig, Resize
  <2>2. \A v \in Workers :
          worker'[v].pc = "busy" /\ worker'[v].job.suspect
            <=> worker[v].pc = "busy" /\ worker[v].job.suspect
    BY <1>w, <2>1
  <2>3. SuspectProbes' = SuspectProbes
    BY <2>2 DEF SuspectProbes
  <2> QED
    BY <1>0, <1>6, <2>3 DEF UpdateConfig, SuspectOffer, slotVars
<1>7. ASSUME Tick PROVE Goal
  <2>1. \A v \in Workers : worker'[v].pc = worker[v].pc /\ worker'[v].job = worker[v].job
    BY <1>7, <1>w DEF Tick
  <2>2. SuspectProbes' = SuspectProbes
    BY <2>1 DEF SuspectProbes
  <2>3. dispatcher'.pc = dispatcher.pc /\ dispatcher'.job = dispatcher.job
    BY <1>7 DEF Tick, ShapeOK
  <2> QED
    BY <1>0, <1>7, <2>2, <2>3 DEF Tick, SuspectOffer, slotVars
<1>8. CASE UNCHANGED <<worker, dispatcher, suspectInFlight>>
  BY <1>0, <1>8 DEF SuspectProbes, SuspectOffer
<1>9. ASSUME NEW t \in SUBSET Hosts, NEW b \in [Hosts -> Intervals], NEW r \in SUBSET Hosts,
             SetTargets(t, b, r)
      PROVE  Goal
  BY <1>8, <1>9 DEF SetTargets, slotVars
<1>10. ASSUME NEW h \in Hosts, NEW hl \in Healths, Ping(h, hl) PROVE Goal
  BY <1>8, <1>10 DEF Ping, slotVars
<1>11. ASSUME UNCHANGED vars PROVE Goal
  BY <1>8, <1>11 DEF vars
<1>12. ~DispatcherExit /\ ~StopRequested /\ ~CloseWorkChan /\ ~Stopped
  BY <1>0 DEF DispatcherExit, Stopped, StopRequested, CloseWorkChan
<1>13. Goal
  <2> HIDE DEF Goal
  <2> QED
    BY <1>1, <1>2, <1>3, <1>4, <1>5, <1>6, <1>7, <1>9, <1>10, <1>11, <1>12
    DEF Next, Dispatch, Work, Configure
<1> QED
  BY <1>13

\* Failing hosts never get the last workers: for every pool of two or more, and
\* through every resizing, loss and removal of a host, a probe of a failing host
\* starts only when the share of the answering hosts stays free.
THEOREM AnsweringHostsKeepTheirShare == Spec => AnsweringHostsOnTime
<1> DEFINE Share ==
             \A h \in Hosts :
               /\ engine = "running" /\ Cardinality(pool) > 1
               /\ Queued(h) /\ entry[h].suspect /\ entry'[h].on /\ entry'[h].inFlight
               => Cardinality(SuspectProbes) + 1 + AtLeast(Cardinality(pool) \div 4, 1)
                    <= Cardinality(pool)
<1>1. ShapeOK /\ JobInv /\ SlotsCounted /\ [Next]_vars => [Share]_vars
  <2> SUFFICES ASSUME ShapeOK, JobInv, SlotsCounted, Next, NEW h \in Hosts,
                      engine = "running", Cardinality(pool) > 1,
                      Queued(h), entry[h].suspect, entry'[h].on, entry'[h].inFlight
               PROVE  Cardinality(SuspectProbes) + 1 + AtLeast(Cardinality(pool) \div 4, 1)
                        <= Cardinality(pool)
    OBVIOUS
  <2> DEFINE n == Cardinality(pool)
             s == Cardinality(SuspectProbes)
  <2>1. TakeJob(h)
    BY OnlyTakeJobStarts
  <2>2. SlotFree /\ dispatcher.pc = "look"
    BY <2>1 DEF TakeJob, Due, First, Queue
  <2>3. s < SuspectCap(n)
    <3>1. SuspectOffer = 0
      BY <2>2 DEF SuspectOffer
    <3>2. s \in Nat
      BY SuspectProbesFinite
    <3> QED
      BY <2>2, <3>1, <3>2 DEF SlotFree, SlotsCounted
  <2>4. n \in Nat \ {0}
    <3>1. pool \in SUBSET Workers
      BY DEF ShapeOK
    <3>2. n \in Nat
      BY <3>1, ScheduleAssumption, FS_Subset, FS_CardinalityType DEF ScheduleAssumption
    <3> QED
      BY <3>2
  <2>5. SuspectCap(n) \in 1 .. n /\ n - SuspectCap(n) >= 1 /\ n - SuspectCap(n) >= n \div 4
    <3> HIDE DEF n
    <3> QED
      BY <2>4, SuspectCapReserves, n > 1 DEF n
  <2>6. s \in Nat /\ n \div 4 \in Nat
    BY <2>4, SuspectProbesFinite
  <2> HIDE DEF n, s
  <2>7. s + 1 + AtLeast(n \div 4, 1) <= n
    BY <2>3, <2>4, <2>5, <2>6 DEF AtLeast
  <2> QED
    BY <2>7 DEF n, s
<1>2. Init => ShapeOK /\ JobInv /\ SlotsCounted
  <2>1. Init => SuspectProbes = {} /\ SuspectOffer = 0 /\ suspectInFlight = 0
    BY DEF Init, SuspectProbes, SuspectOffer
  <2> QED
    BY <2>1, InitShape, FS_EmptySet DEF SlotsCounted
<1>3. ShapeOK /\ JobInv /\ SlotsCounted /\ [Next]_vars => (ShapeOK /\ JobInv /\ SlotsCounted)'
  BY StepShape, StepSlotsCounted
<1> QED
  BY <1>1, <1>2, <1>3, PTL DEF Spec, AnsweringHostsOnTime

---------------------------------------------------------------------------
(* Slots and pace of the queued probes                                     *)

\* t is a slot of h in interval iv.
OnSlot(h, iv, t) == \E k \in Int : t = Offset(Phase[h], PhaseDen, iv) + k * iv

\* What two probes of a host are apart at least.
Pace(ent) ==
  IF ent.suspect /\ ConfirmDelay > 0 THEN AtMost(ConfirmDelay, ent.iv \div 2) ELSE ent.iv \div 2

\* An entry of h, with b the interval of h and c the clock: a queued one has the
\* interval in force or DownInterval, comes no sooner after the last probe than its
\* pace, and on a slot when that probe was answered.  The age stops at Cycle.
Regular(h, ent, b, c) ==
  /\ ent.age >= 0
  /\ ent.on /\ ~ent.inFlight =>
       /\ ent.iv \in Nat \ {0} /\ (ent.iv = b \/ ent.iv = DownInterval)
       /\ ent.probed => ent.age >= Cycle \/ ent.age + ent.due >= Pace(ent)
       /\ ent.probed /\ ~ent.suspect /\ ent.due > -MaxLate => OnSlot(h, ent.iv, c + ent.due)

EntriesRegular ==
  /\ clock \in 0 .. Cycle - 1
  /\ \A h \in Hosts : Regular(h, entry[h], base[h], clock)

LEMMA ProbeIntervalIsOneOf ==
  ASSUME NEW normal \in Intervals, NEW hl
  PROVE  /\ ProbeInterval(normal, hl) \in Nat \ {0}
         /\ ProbeInterval(normal, hl) = normal \/ ProbeInterval(normal, hl) = DownInterval
BY IntervalPositive DEF ProbeInterval

LEMMA HalfInterval ==
  ASSUME NEW iv \in Nat \ {0}
  PROVE  iv \div 2 \in Nat /\ iv \div 2 <= iv
OBVIOUS

LEMMA PaceBound ==
  ASSUME NEW ent \in Entries, ent.iv \in Nat
  PROVE  Pace(ent) \in Int /\ Pace(ent) <= ent.iv \div 2
BY ScheduleAssumption DEF ScheduleAssumption, Entries, Pace, AtMost

\* Every interval in use divides the cycle of the clock.
LEMMA CycleIsMultiple ==
  ASSUME NEW b \in Intervals, NEW iv \in Nat \ {0}, iv = b \/ iv = DownInterval
  PROVE  iv <= Cycle /\ \E m \in Int : Cycle = m * iv
<1>1. Cycle \in Nat \ {0} /\ Cycle % iv = 0
  BY ScheduleAssumption DEF ScheduleAssumption
<1> DEFINE m == Cycle \div iv
<1>2. m \in Int /\ Cycle = iv * m + (Cycle % iv)
  BY <1>1
<1>3. Cycle = m * iv
  BY <1>1, <1>2
<1>4. m >= 1
  <2> HIDE DEF m
  <2>1. CASE m <= 0
    <3>1. m * iv <= 0
      BY <1>2, <2>1
    <3> QED
      BY <1>1, <1>3, <3>1
  <2> QED
    BY <1>2, <2>1
<1>5. iv <= m * iv
  <2> HIDE DEF m
  <2> QED
    BY <1>2, <1>4
<1> HIDE DEF m
<1> QED
  BY <1>2, <1>3, <1>5

LEMMA OffsetInt ==
  ASSUME NEW h \in Hosts, NEW iv \in Nat \ {0}
  PROVE  Offset(Phase[h], PhaseDen, iv) \in Int
<1>1. Phase[h] \in Int /\ PhaseDen \in Nat \ {0}
  BY ScheduleAssumption DEF ScheduleAssumption
<1>2. Phase[h] * iv \in Int
  BY <1>1
<1> QED BY <1>1, <1>2 DEF Offset

LEMMA SlotInOnSlot ==
  ASSUME NEW h \in Hosts, NEW iv \in Nat \ {0}, NEW after \in Int, clock \in Int
  PROVE  SlotIn(h, iv, after) > after /\ OnSlot(h, iv, clock + SlotIn(h, iv, after))
<1> DEFINE off == Offset(Phase[h], PhaseDen, iv)
           next == NextSlot(off, iv, clock + after)
<1>1. off \in Int
  BY OffsetInt
<1>2. /\ clock + after < next
      /\ \E k \in Int : next = off + k * iv
  <2>1. clock + after \in Int
    OBVIOUS
  <2> HIDE DEF off
  <2>2. clock + after < NextSlot(off, iv, clock + after)
    BY <1>1, <2>1, NextSlotOnGrid
  <2>3. \E k \in Int : NextSlot(off, iv, clock + after) = off + k * iv
    BY <1>1, <2>1, NextSlotOnGrid
  <2> QED
    BY <2>2, <2>3
<1>3. next \in Int
  <2> HIDE DEF off
  <2> QED
    BY <1>1, NextSlotInt
<1>4. SlotIn(h, iv, after) = next - clock
  BY DEF SlotIn
<1>5. clock + SlotIn(h, iv, after) = next
  <2> HIDE DEF next
  <2> QED
    BY <1>3, <1>4
<1>6. SlotIn(h, iv, after) > after
  <2> HIDE DEF next
  <2> QED
    BY <1>2, <1>3, <1>4
<1> QED
  BY <1>2, <1>5, <1>6 DEF OnSlot

\* A slot of h one cycle of the clock earlier is a slot too.
LEMMA SlotBeforeCycle ==
  ASSUME NEW h \in Hosts, NEW b \in Intervals, NEW iv \in Nat \ {0}, iv = b \/ iv = DownInterval,
         NEW t \in Int, OnSlot(h, iv, t)
  PROVE  OnSlot(h, iv, t - Cycle)
<1> DEFINE off == Offset(Phase[h], PhaseDen, iv)
<1>1. PICK m \in Int : Cycle = m * iv
  BY CycleIsMultiple
<1>2. PICK k \in Int : t = off + k * iv
  BY DEF OnSlot
<1>3. off \in Int
  BY OffsetInt
<1>4. t - Cycle = off + (k - m) * iv
  <2> HIDE DEF off
  <2>1. (k - m) * iv = k * iv - m * iv
    OBVIOUS
  <2>2. k * iv \in Int /\ m * iv \in Int
    OBVIOUS
  <2> QED
    BY <1>1, <1>2, <1>3, <2>1, <2>2
<1> QED
  BY <1>4 DEF OnSlot

---------------------------------------------------------------------------
(* The entries that the operators build are regular                        *)

LEMMA AddedRegular ==
  ASSUME NEW h \in Hosts, NEW normal \in Intervals, NEW hl \in Healths, NEW due, NEW c
  PROVE  Regular(h, Added(h, normal, hl, due), normal, c)
<1>1. ProbeInterval(normal, hl) \in Nat \ {0}
      /\ (ProbeInterval(normal, hl) = normal \/ ProbeInterval(normal, hl) = DownInterval)
  BY ProbeIntervalIsOneOf
<1> QED
  BY <1>1 DEF Regular, Added

LEMMA NoEntryRegular == ASSUME NEW h, NEW b, NEW c PROVE Regular(h, NoEntry, b, c)
BY DEF Regular, NoEntry

LEMMA RequeuedRegular ==
  ASSUME ShapeOK, NEW h \in Hosts, NEW hl \in Healths, entry[h].age >= 0
  PROVE  Regular(h, Requeued(h, hl), base[h], clock)
<1> DEFINE iv == ProbeInterval(base[h], hl)
           new == Requeued(h, hl)
           slot == SlotIn(h, iv, iv \div 2)
<1>1. entry[h] \in Entries /\ base[h] \in Intervals /\ clock \in Int
  BY DEF ShapeOK
<1>2. iv \in Nat \ {0} /\ (iv = base[h] \/ iv = DownInterval)
  BY <1>1, ProbeIntervalIsOneOf
<1>3. iv \div 2 \in Int
  BY <1>2
<1>4. slot > iv \div 2 /\ OnSlot(h, iv, clock + slot) /\ slot \in Int
  <2> HIDE DEF iv
  <2> QED
    BY <1>1, <1>2, <1>3, SlotInOnSlot, SlotInInt
<1>5. /\ new.age = entry[h].age /\ new.iv = iv /\ new.due = NextDue(h, iv, hl)
      /\ new.suspect = IsSuspect(hl) /\ new \in Entries
  BY RequeuedShape DEF Requeued
<1>6. Pace(new) \in Int /\ Pace(new) <= iv \div 2
  <2> HIDE DEF new, iv
  <2> QED
    BY <1>2, <1>5, PaceBound
<1>7. entry[h].age \in Int /\ ConfirmDelay \in Nat
  BY <1>1, ScheduleAssumption DEF Entries, ScheduleAssumption
<1>8. CASE hl = "failing" /\ 0 < ConfirmDelay /\ ConfirmDelay < iv
  <2>1. new.due = ConfirmDelay /\ new.suspect
    BY <1>5, <1>8 DEF NextDue, IsSuspect
  <2>2. Pace(new) <= ConfirmDelay
    BY <1>3, <1>5, <1>7, <1>8, <2>1 DEF Pace, AtMost
  <2>3. new.age + new.due >= Pace(new)
    <3> HIDE DEF new
    <3> QED
      BY <1>5, <1>6, <1>7, <2>1, <2>2
  <2> HIDE DEF new, iv
  <2> QED
    BY <1>2, <1>5, <2>1, <2>3 DEF Regular, new
<1>9. CASE ~(hl = "failing" /\ 0 < ConfirmDelay /\ ConfirmDelay < iv)
  <2>1. new.due = slot
    BY <1>5, <1>9 DEF NextDue
  <2>2. new.age + new.due >= Pace(new)
    <3> HIDE DEF new, iv, slot
    <3> QED
      BY <1>3, <1>4, <1>5, <1>6, <1>7, <2>1
  <2> HIDE DEF new, iv, slot
  <2> QED
    BY <1>2, <1>4, <1>5, <2>1, <2>2 DEF Regular, new
<1> QED
  BY <1>8, <1>9

LEMMA RescheduledRegular ==
  ASSUME ShapeOK, NEW h \in Hosts, NEW b \in Intervals, NEW iv \in Nat \ {0},
         iv = b \/ iv = DownInterval, entry[h].age >= 0
  PROVE  Regular(h, Rescheduled(h, iv), b, clock)
<1> DEFINE new == Rescheduled(h, iv)
           after == AtLeast((iv \div 2) - entry[h].age, 0)
           slot == SlotIn(h, iv, after)
<1>1. entry[h] \in Entries /\ clock \in Int
  BY DEF ShapeOK
<1>2. after \in Int /\ entry[h].age + after >= iv \div 2 /\ entry[h].age \in Int /\ iv \div 2 \in Int
  BY <1>1 DEF AtLeast, Entries
<1>3. slot > after /\ OnSlot(h, iv, clock + slot) /\ slot \in Int
  <2> HIDE DEF after
  <2> QED
    BY <1>1, <1>2, SlotInOnSlot, SlotInInt
<1>4. /\ new.age = entry[h].age /\ new.iv = iv /\ new \in Entries
      /\ new.probed => new.due = slot
  <2>1. new \in Entries
    BY RescheduledShape
  <2> QED
    BY <2>1 DEF Rescheduled, Moved
<1>5. Pace(new) \in Int /\ Pace(new) <= iv \div 2
  <2> HIDE DEF new
  <2> QED
    BY <1>4, PaceBound
<1>6. new.probed => new.age + new.due >= Pace(new)
  <2> HIDE DEF new, after, slot
  <2> QED
    BY <1>2, <1>3, <1>4, <1>5
<1> HIDE DEF new, after, slot
<1> QED
  BY <1>3, <1>4, <1>6 DEF Regular, new

LEMMA TakenRegular ==
  ASSUME NEW h \in Hosts, NEW b, NEW c
  PROVE  Regular(h, Taken(h), b, c)
BY DEF Regular, Taken

LEMMA SyncRegular ==
  ASSUME ShapeOK, NEW h \in Hosts, NEW t, NEW b \in [Hosts -> Intervals],
         NEW hl \in [Hosts -> Healths], Regular(h, entry[h], base[h], clock)
  PROVE  Regular(h, Sync(h, t, b, hl), b[h], clock)
<1> DEFINE iv == ProbeInterval(b[h], hl[h])
<1>1. b[h] \in Intervals /\ hl[h] \in Healths /\ entry[h] \in Entries
  BY DEF ShapeOK
<1>2. iv \in Nat \ {0} /\ (iv = b[h] \/ iv = DownInterval)
  BY <1>1, ProbeIntervalIsOneOf
<1>3. CASE h \notin t
  BY <1>3, NoEntryRegular DEF Sync
<1>4. CASE h \in t /\ ~entry[h].on
  <2>1. Sync(h, t, b, hl) = Added(h, b[h], hl[h], FirstSoon(h, b[h]))
    BY <1>4 DEF Sync
  <2> QED
    BY <1>1, <2>1, AddedRegular
<1>5. CASE h \in t /\ Queued(h) /\ iv # entry[h].iv
  <2>1. Sync(h, t, b, hl) = Rescheduled(h, iv)
    BY <1>5 DEF Sync, Queued
  <2>2. entry[h].age >= 0
    BY DEF Regular
  <2> HIDE DEF iv
  <2> QED
    BY <1>1, <1>2, <2>1, <2>2, RescheduledRegular
<1>6. CASE h \in t /\ entry[h].on /\ ~(Queued(h) /\ iv # entry[h].iv)
  <2>1. Sync(h, t, b, hl) = entry[h]
    BY <1>6 DEF Sync
  <2>2. entry[h].on /\ ~entry[h].inFlight => entry[h].iv = iv
    BY <1>6 DEF Queued
  <2> HIDE DEF iv
  <2> QED
    BY <1>2, <2>1, <2>2 DEF Regular
<1> QED
  BY <1>3, <1>4, <1>5, <1>6

\* A tick takes one from what is left and gives one to the clock, or sets it back by a cycle.
LEMMA AgedRegular ==
  ASSUME NEW h \in Hosts, NEW ent \in Entries, NEW b \in Intervals, NEW c \in 0 .. Cycle - 1,
         Regular(h, ent, b, c)
  PROVE  Regular(h, Aged(ent), b, (c + 1) % Cycle)
<1> DEFINE new == Aged(ent)
           d == (c + 1) % Cycle
<1>1. Cycle \in Nat \ {0} /\ MaxLate \in Nat
  BY ScheduleAssumption DEF ScheduleAssumption
<1>2. new.age >= 0
  BY <1>1 DEF Aged, AtMost, Regular, Entries
<1>3. SUFFICES ASSUME ent.on, ~ent.inFlight
      PROVE  /\ new.iv \in Nat \ {0} /\ (new.iv = b \/ new.iv = DownInterval)
             /\ new.probed => new.age >= Cycle \/ new.age + new.due >= Pace(new)
             /\ new.probed /\ ~new.suspect /\ new.due > -MaxLate => OnSlot(h, new.iv, d + new.due)
  <2>1. new.on = ent.on /\ new.inFlight = ent.inFlight
    BY DEF Aged
  <2> HIDE DEF new
  <2> QED
    BY <1>2, <1>3, <2>1 DEF Regular, new
<1>4. /\ new.iv = ent.iv /\ new.probed = ent.probed /\ new.suspect = ent.suspect
      /\ new.due = AtLeast(ent.due - 1, -MaxLate)
      /\ ent.probed => new.age = AtMost(ent.age + 1, Cycle)
  BY <1>3 DEF Aged
<1>5. new.iv \in Nat \ {0} /\ (new.iv = b \/ new.iv = DownInterval)
  BY <1>3, <1>4 DEF Regular
<1>6. ent.age \in Int /\ ent.due \in Int /\ ent.probed \in BOOLEAN /\ Pace(ent) \in Int
  BY <1>4, <1>5, PaceBound DEF Entries
<1>7. new.probed => new.age >= Cycle \/ new.age + new.due >= Pace(new)
  <2>1. Pace(new) = Pace(ent)
    BY <1>4 DEF Pace
  <2>2. ent.probed => ent.age >= Cycle \/ ent.age + ent.due >= Pace(ent)
    BY <1>3 DEF Regular
  <2> HIDE DEF new
  <2> QED
    BY <1>1, <1>4, <1>6, <2>1, <2>2 DEF AtLeast, AtMost
<1>8. new.probed /\ ~new.suspect /\ new.due > -MaxLate => OnSlot(h, new.iv, d + new.due)
  <2> SUFFICES ASSUME new.probed, ~new.suspect, new.due > -MaxLate
               PROVE  OnSlot(h, new.iv, d + new.due)
    OBVIOUS
  <2>1. new.due = ent.due - 1 /\ ent.due > -MaxLate
    <3> HIDE DEF new
    <3> QED
      BY <1>1, <1>4, <1>6 DEF AtLeast
  <2>2. OnSlot(h, ent.iv, c + ent.due)
    BY <1>3, <1>4, <2>1 DEF Regular
  <2>3. d = c + 1 \/ d = c + 1 - Cycle
    BY <1>1
  <2> HIDE DEF new, d
  <2>4. CASE d = c + 1
    <3>1. d + new.due = c + ent.due
      BY <1>6, <2>1, <2>4
    <3> QED
      BY <1>4, <2>2, <3>1
  <2>5. CASE d = c + 1 - Cycle
    <3>1. d + new.due = (c + ent.due) - Cycle
      BY <1>1, <1>6, <2>1, <2>5
    <3>2. c + ent.due \in Int
      BY <1>6
    <3> QED
      BY <1>4, <1>5, <2>2, <3>1, <3>2, SlotBeforeCycle
  <2> QED
    BY <2>3, <2>4, <2>5
<1> QED
  BY <1>5, <1>7, <1>8

---------------------------------------------------------------------------
(* Every step keeps the queued probes regular                              *)

\* A stopped engine has no schedule.
StoppedEmpty == engine = "stopped" => \A h \in Hosts : ~entry[h].on

LEMMA StepStopped ==
  ASSUME ShapeOK, JobInv, StoppedEmpty, [Next]_vars
  PROVE  StoppedEmpty'
<1> DEFINE Goal == StoppedEmpty'
<1>1. ASSUME NEW h \in Hosts, TakeJob(h) PROVE Goal
  BY <1>1 DEF TakeJob, JobInv, StoppedEmpty
<1>2. ASSUME NEW w \in Workers, NEW hl \in Healths, Finish(w, hl) PROVE Goal
  <2>1. engine' = engine /\ worker[w].job.host \in Hosts
    BY <1>2 DEF Finish, JobInv
  <2>2. engine = "stopped" => entry' = entry
    BY <1>2, <2>1 DEF Finish, StoppedEmpty
  <2> QED
    BY <2>1, <2>2 DEF StoppedEmpty
<1>3. ASSUME NEW t \in SUBSET Hosts, NEW b \in [Hosts -> Intervals], NEW r \in SUBSET Hosts,
             SetTargets(t, b, r)
      PROVE  Goal
  BY <1>3 DEF SetTargets, SyncAll, StoppedEmpty
<1>4. ASSUME NEW n \in 1 .. Cardinality(Workers), NEW b \in [Hosts -> Intervals],
             UpdateConfig(n, b)
      PROVE  Goal
  BY <1>4 DEF UpdateConfig, SyncAll, StoppedEmpty
<1>5. ASSUME Stopped PROVE Goal
  BY <1>5 DEF Stopped, StoppedEmpty, NoEntry
<1>6. ASSUME StopRequested \/ CloseWorkChan \/ Tick PROVE Goal
  BY <1>6 DEF StopRequested, CloseWorkChan, Tick, StoppedEmpty
<1>7. CASE UNCHANGED <<engine, entry>>
  BY <1>7 DEF StoppedEmpty
<1>8. ASSUME NEW h \in Hosts, NEW hl \in Healths, Ping(h, hl) PROVE Goal
  BY <1>7, <1>8 DEF Ping
<1>9. ASSUME NEW w \in Workers, Hand(w) \/ WorkerExit(w) PROVE Goal
  BY <1>7, <1>9 DEF Hand, WorkerExit
<1>10. ASSUME Sleep \/ Wake \/ DispatcherExit PROVE Goal
  BY <1>7, <1>10 DEF Sleep, Wake, DispatcherExit
<1>11. ASSUME UNCHANGED vars PROVE Goal
  BY <1>7, <1>11 DEF vars
<1>12. Goal
  <2> HIDE DEF Goal
  <2> QED
    BY <1>1, <1>2, <1>3, <1>4, <1>5, <1>6, <1>8, <1>9, <1>10, <1>11
    DEF Next, Dispatch, Work, Configure
<1> QED
  BY <1>12

LEMMA StepRegular ==
  ASSUME ShapeOK, JobInv, StoppedEmpty, EntriesRegular, [Next]_vars
  PROVE  EntriesRegular'
<1> DEFINE Goal == EntriesRegular'
           Kept == UNCHANGED <<clock, base>> /\ \A g \in Hosts :
                     entry'[g] = entry[g] \/ Regular(g, entry'[g], base[g], clock)
<1>0. Kept => Goal
  BY DEF EntriesRegular
<1>1. ASSUME NEW h \in Hosts, TakeJob(h) PROVE Goal
  <2>1. entry' = [entry EXCEPT ![h] = Taken(h)] /\ UNCHANGED <<clock, base>>
    BY <1>1 DEF TakeJob, hostVars
  <2> QED
    BY <1>0, <2>1, TakenRegular DEF ShapeOK
<1>2. ASSUME NEW w \in Workers, NEW hl \in Healths, Finish(w, hl) PROVE Goal
  <2> DEFINE h == worker[w].job.host
  <2>1. h \in Hosts
    BY <1>2 DEF Finish, JobInv
  <2>2. UNCHANGED <<clock, base>> /\ (entry' = entry \/ entry' = [entry EXCEPT ![h] = Done(h, hl)])
    BY <1>2 DEF Finish
  <2>3. entry[h].age >= 0
    BY <2>1 DEF EntriesRegular, Regular
  <2>4. Regular(h, Done(h, hl), base[h], clock)
    <3> HIDE DEF h
    <3> QED
      BY <2>1, <2>3, RequeuedRegular, NoEntryRegular DEF Done
  <2> HIDE DEF h
  <2> QED
    BY <1>0, <2>1, <2>2, <2>4 DEF ShapeOK
<1>3. ASSUME NEW t, NEW hl \in [Hosts -> Healths],
             base' \in [Hosts -> Intervals], clock' = clock, SyncAll(t, base', hl)
      PROVE  Goal
  <2>1. ASSUME NEW g \in Hosts
        PROVE  Regular(g, entry'[g], base'[g], clock')
    <3>1. CASE engine = "stopped"
      <4>1. entry'[g] = entry[g] /\ ~entry[g].on
        BY <1>3, <3>1 DEF SyncAll, StoppedEmpty
      <4> QED
        BY <4>1 DEF EntriesRegular, Regular
    <3>2. CASE engine # "stopped"
      <4>1. entry'[g] = Sync(g, t, base', hl)
        BY <1>3, <3>2 DEF SyncAll
      <4> QED
        BY <1>3, <4>1, SyncRegular DEF EntriesRegular
    <3> QED
      BY <3>1, <3>2
  <2> QED
    BY <1>3, <2>1 DEF EntriesRegular
<1>4. ASSUME NEW t \in SUBSET Hosts, NEW b \in [Hosts -> Intervals], NEW r \in SUBSET Hosts,
             SetTargets(t, b, r)
      PROVE  Goal
  <2>1. health' \in [Hosts -> Healths]
    BY <1>4 DEF SetTargets, ShapeOK, Healths
  <2> QED
    BY <1>3, <1>4, <2>1 DEF SetTargets
<1>5. ASSUME NEW n \in 1 .. Cardinality(Workers), NEW b \in [Hosts -> Intervals],
             UpdateConfig(n, b)
      PROVE  Goal
  BY <1>3, <1>5 DEF UpdateConfig, ShapeOK
<1>6. ASSUME Stopped PROVE Goal
  BY <1>0, <1>6, NoEntryRegular DEF Stopped, hostVars
<1>7. ASSUME Tick PROVE Goal
  <2>1. clock' = (clock + 1) % Cycle /\ base' = base
    BY <1>7 DEF Tick, hostVars
  <2>2. clock \in 0 .. Cycle - 1 /\ Cycle \in Nat \ {0}
    BY ScheduleAssumption DEF EntriesRegular, ScheduleAssumption
  <2>3. clock' \in 0 .. Cycle - 1
    BY <2>1, <2>2
  <2>4. \A g \in Hosts : entry'[g] = Aged(entry[g]) /\ entry[g] \in Entries /\ base[g] \in Intervals
    BY <1>7 DEF Tick, ShapeOK
  <2>5. \A g \in Hosts : Regular(g, entry'[g], base'[g], clock')
    BY <2>1, <2>2, <2>4, AgedRegular DEF EntriesRegular
  <2> QED
    BY <2>3, <2>5 DEF EntriesRegular
<1>8. CASE UNCHANGED <<clock, base, entry>>
  BY <1>0, <1>8
<1>9. ASSUME NEW h \in Hosts, NEW hl \in Healths, Ping(h, hl) PROVE Goal
  BY <1>8, <1>9 DEF Ping
<1>10. ASSUME NEW w \in Workers, Hand(w) \/ WorkerExit(w) PROVE Goal
  BY <1>8, <1>10 DEF Hand, WorkerExit, hostVars
<1>11. ASSUME Sleep \/ Wake \/ DispatcherExit PROVE Goal
  BY <1>8, <1>11 DEF Sleep, Wake, DispatcherExit, hostVars
<1>12. ASSUME StopRequested \/ CloseWorkChan PROVE Goal
  BY <1>8, <1>12 DEF StopRequested, CloseWorkChan, hostVars
<1>13. ASSUME UNCHANGED vars PROVE Goal
  BY <1>8, <1>13 DEF vars
<1>14. Goal
  <2> HIDE DEF Goal
  <2> QED
    BY <1>1, <1>2, <1>4, <1>5, <1>6, <1>7, <1>9, <1>10, <1>11, <1>12, <1>13
    DEF Next, Dispatch, Work, Configure
<1> QED
  BY <1>14

RegularInv == ShapeOK /\ JobInv /\ StoppedEmpty /\ EntriesRegular

LEMMA InitRegular == Init => RegularInv
<1> SUFFICES ASSUME Init PROVE StoppedEmpty /\ EntriesRegular
  BY InitShape DEF RegularInv
<1>1. ShapeOK
  BY InitShape
<1>2. ASSUME NEW h \in Hosts PROVE Regular(h, entry[h], base[h], clock)
  <2>1. base[h] \in Intervals /\ health[h] \in Healths
    BY <1>1 DEF ShapeOK
  <2>2. entry[h] = Added(h, base[h], health[h], SlotIn(h, base[h], 0)) \/ entry[h] = NoEntry
    BY DEF Init
  <2> QED
    BY <2>1, <2>2, AddedRegular, NoEntryRegular
<1>3. clock \in 0 .. Cycle - 1 /\ engine # "stopped"
  BY DEF Init
<1> QED
  BY <1>2, <1>3 DEF StoppedEmpty, EntriesRegular

\* A queued probe is due in a slot of its host, or soon enough to be a confirm probe or
\* one that is late (nextSlot, schedSyncUnsafe, schedDoneUnsafe).
THEOREM QueuedProbesAreRegular == Spec => []RegularInv
<1>1. RegularInv /\ [Next]_vars => RegularInv'
  BY StepShape, StepStopped, StepRegular DEF RegularInv
<1> QED
  BY <1>1, InitRegular, PTL DEF Spec

\* A host that answers is probed in its own slot of the interval in force, for every
\* set of intervals and phases, through late probes, changes of the interval, manual
\* pings and the wrap of the clock (nextSlot, schedRescheduleUnsafe, schedDoneUnsafe).
THEOREM AnsweringHostsKeepTheirSlots == Spec => []SlotsKept
<1>1. ASSUME NEW x \in Int, NEW iv \in Nat \ {0}, NEW k \in Int, x = k * iv PROVE x % iv = 0
  <2> DEFINE q == x \div iv
             r == x % iv
  <2>1. q \in Int /\ r \in 0 .. iv - 1 /\ x = iv * q + r
    OBVIOUS
  <2> HIDE DEF q, r
  <2>2. (k - q) * iv = r
    BY <1>1, <2>1
  <2>3. k - q < 1
    <3>1. CASE k - q >= 1
      <4>1. (k - q) * iv >= iv
        BY <2>1, <3>1
      <4> QED
        BY <2>1, <2>2, <4>1
    <3> QED
      BY <2>1, <3>1
  <2>4. k - q > -1
    <3>1. CASE k - q <= -1
      <4>1. (k - q) * iv <= -iv
        BY <2>1, <3>1
      <4> QED
        BY <2>1, <2>2, <4>1
    <3> QED
      BY <2>1, <3>1
  <2>5. k - q = 0
    BY <2>1, <2>3, <2>4
  <2> QED
    BY <2>2, <2>5 DEF r
<1>2. RegularInv => SlotsKept
  <2> SUFFICES ASSUME RegularInv, NEW h \in Queue(FALSE), entry[h].probed, entry[h].due > -MaxLate
               PROVE  /\ (clock + entry[h].due - Offset(Phase[h], PhaseDen, entry[h].iv)) % entry[h].iv = 0
                      /\ entry[h].iv \in {base[h], DownInterval}
    BY DEF SlotsKept
  <2> DEFINE iv == entry[h].iv
             off == Offset(Phase[h], PhaseDen, iv)
  <2>1. h \in Hosts /\ entry[h].on /\ ~entry[h].inFlight /\ ~entry[h].suspect
    BY DEF Queue, Queued
  <2>2. Regular(h, entry[h], base[h], clock) /\ clock \in Int /\ entry[h].due \in Int
    BY <2>1 DEF RegularInv, EntriesRegular, ShapeOK, Entries
  <2>3. /\ iv \in Nat \ {0} /\ (iv = base[h] \/ iv = DownInterval)
        /\ OnSlot(h, iv, clock + entry[h].due)
    BY <2>1, <2>2 DEF Regular
  <2>4. off \in Int
    BY <2>1, <2>3, OffsetInt
  <2>5. PICK k \in Int : clock + entry[h].due = off + k * iv
    BY <2>3 DEF OnSlot
  <2> HIDE DEF iv, off
  <2>6. clock + entry[h].due - off = k * iv /\ clock + entry[h].due - off \in Int
    <3>1. k * iv \in Int
      BY <2>3
    <3> QED
      BY <2>2, <2>4, <2>5, <3>1
  <2>7. (clock + entry[h].due - off) % iv = 0
    BY <1>1, <2>3, <2>6
  <2>8. iv \in {base[h], DownInterval}
    BY <2>3
  <2> USE DEF iv, off
  <2> QED
    BY <2>7, <2>8
<1> QED
  BY <1>2, QueuedProbesAreRegular, PTL

\* No change of the configuration and no late or manual probe makes a burst: two probes
\* of a host are half an interval, or the confirm delay, apart (schedRescheduleUnsafe).
THEOREM ProbesNeverBurst == Spec => NoBurst
<1> DEFINE Apart ==
             \A h \in Hosts :
               Queued(h) /\ entry[h].probed /\ entry'[h].on /\ entry'[h].inFlight =>
                 entry[h].age >= IF entry[h].suspect /\ ConfirmDelay > 0
                                 THEN AtMost(ConfirmDelay, entry[h].iv \div 2)
                                 ELSE entry[h].iv \div 2
<1>1. RegularInv /\ [Next]_vars => [Apart]_vars
  <2> SUFFICES ASSUME RegularInv, Next, NEW h \in Hosts,
                      Queued(h), entry[h].probed, entry'[h].on, entry'[h].inFlight
               PROVE  entry[h].age >= Pace(entry[h])
    BY DEF Pace
  <2>1. TakeJob(h)
    BY OnlyTakeJobStarts DEF RegularInv
  <2>2. entry[h].due <= 0
    BY <2>1 DEF TakeJob, Due
  <2>3. /\ entry[h].iv \in Nat \ {0} /\ (entry[h].iv = base[h] \/ entry[h].iv = DownInterval)
        /\ entry[h].age >= Cycle \/ entry[h].age + entry[h].due >= Pace(entry[h])
    BY DEF RegularInv, EntriesRegular, Regular, Queued
  <2>4. /\ entry[h] \in Entries /\ base[h] \in Intervals
        /\ entry[h].age \in Int /\ entry[h].due \in Int
    BY DEF RegularInv, ShapeOK, Entries
  <2>5. entry[h].iv <= Cycle /\ Cycle \in Int
    BY <2>3, <2>4, CycleIsMultiple, ScheduleAssumption DEF ScheduleAssumption
  <2>6. Pace(entry[h]) \in Int /\ Pace(entry[h]) <= entry[h].iv \div 2
    BY <2>3, <2>4, PaceBound
  <2>7. entry[h].iv \div 2 \in Nat /\ entry[h].iv \div 2 <= entry[h].iv
    BY <2>3, HalfInterval
  <2> QED
    BY <2>2, <2>3, <2>4, <2>5, <2>6, <2>7
<1> QED
  BY <1>1, QueuedProbesAreRegular, PTL DEF Spec, NoBurst

=============================================================================
