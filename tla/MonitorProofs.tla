--------------------------- MODULE MonitorProofs ---------------------------
(***************************************************************************)
(* Proofs about Monitor, for any sets of hosts, workers, ping handlers and *)
(* operators and any thresholds.                                           *)
(***************************************************************************)
EXTENDS Monitor, TLAPS

---------------------------------------------------------------------------
(* Type correctness                                                        *)

\* What a prober or a rebuild may hold, spelled out once for the steps below.
LEMMA IdleType ==
  Idle \in [pc : {"idle", "probing", "notify", "sync", "publish"},
            host : Hosts \cup {NoHost}, status : Statuses, flag : Marks]
BY DEF Idle, Statuses, Marks

LEMMA InitTypeOK == Init => TypeOK
BY MonitorAssumption, IdleType
DEF Init, TypeOK, Raised, RebuildAt, NoRebuild, Idle, Statuses, Marks, Wishes

\* Every step keeps the types, action by action.
LEMMA StepTypeOK == TypeOK /\ [Next]_vars => TypeOK'
<1> SUFFICES ASSUME TypeOK, [Next]_vars PROVE TypeOK'
  OBVIOUS
<1> USE MonitorAssumption, IdleType DEF TypeOK, engineVars, configVars, OldStaysOld, Raised
<1>1. ASSUME NEW w \in Workers, NEW h \in Hosts, StartProbe(w, h) PROVE TypeOK'
  BY <1>1 DEF StartProbe, Probers
<1>2. ASSUME NEW p \in Pingers, NEW h \in Hosts, StartPing(p, h) PROVE TypeOK'
  BY <1>2 DEF StartPing, Probers
<1>3. ASSUME NEW p \in Probers, DropResult(p) PROVE TypeOK'
  BY <1>3 DEF DropResult, EntryDone, Idle
<1>4. ASSUME NEW p \in Probers, NEW reply \in BOOLEAN, ApplyResult(p, reply) PROVE TypeOK'
  <2> DEFINE h == prober[p].host
             st == StatusAfter(h, reply)
             mark == AlertAfter(st, alerts[h])
  <2>1. h \in Hosts
    BY <1>4 DEF ApplyResult
  <2>2. st \in Statuses /\ mark \in Marks
    BY <2>1 DEF StatusAfter, AlertAfter, Statuses, Marks
  <2>3. /\ (IF reply THEN 0 ELSE AtMost(fails[h] + 1, FailThreshold)) \in 0 .. FailThreshold
        /\ (IF reply THEN AtMost(succs[h] + 1, RecoveryThreshold) ELSE 0) \in 0 .. RecoveryThreshold
    BY <2>1 DEF AtMost
  <2>4. /\ fails' \in [Hosts -> 0 .. FailThreshold]
        /\ succs' \in [Hosts -> 0 .. RecoveryThreshold]
        /\ status' \in [Hosts -> Statuses]
        /\ busy' \in SUBSET Hosts
    BY <1>4, <2>1, <2>2, <2>3 DEF ApplyResult, EntryDone
  <2>5. CASE st = status[h]
    <3>1. prober' = [prober EXCEPT ![p] = Idle] /\ UNCHANGED <<flag, alerts>>
      BY <1>4, <2>5 DEF ApplyResult
    <3> QED
      BY <1>4, <2>4, <3>1 DEF ApplyResult, Idle
  <2>6. CASE st # status[h]
    <3>1. /\ alerts' = [alerts EXCEPT ![h] = mark]
          /\ flag' = [flag EXCEPT ![h] = mark]
          /\ prober' = [prober EXCEPT ![p] =
                          [pc |-> "notify", host |-> h, status |-> st, flag |-> mark]]
      BY <1>4, <2>6 DEF ApplyResult
    <3> QED
      BY <1>4, <2>1, <2>2, <2>4, <3>1 DEF ApplyResult
  <2> QED
    BY <2>5, <2>6
<1>5. ASSUME NEW p \in Probers, Notify(p) PROVE TypeOK'
  BY <1>5 DEF Notify, Idle
<1>6. ASSUME NEW p \in Probers, SyncAlert(p) PROVE TypeOK'
  BY <1>6 DEF SyncAlert, AlertAfter, Marks
<1>7. ASSUME NEW p \in Probers, PublishAlert(p) PROVE TypeOK'
  BY <1>7 DEF PublishAlert, SetHostAlertState, Idle
<1>8. ASSUME NEW o \in Operators, NEW hs \in SUBSET Hosts, Acknowledge(o, hs) PROVE TypeOK'
  BY <1>8 DEF Acknowledge, Marks
<1>9. ASSUME NEW o \in Operators, NEW h \in Hosts, AcknowledgeHost(o, h) PROVE TypeOK'
  BY <1>9 DEF AcknowledgeHost, SetHostAlertState, Marks
<1>10. ASSUME NEW h \in Hosts, NEW wish \in Wishes, Configure(h, wish) PROVE TypeOK'
  BY <1>10 DEF Configure
<1>11. ASSUME RebuildStart PROVE TypeOK'
  BY <1>11 DEF RebuildStart, RebuildAt, Marks
<1>12. ASSUME RebuildSnapshot PROVE TypeOK'
  BY <1>12 DEF RebuildSnapshot
<1>13. ASSUME RebuildResolveRemoved \/ RebuildResolveExcluded PROVE TypeOK'
  BY <1>13 DEF RebuildResolveRemoved, RebuildResolveExcluded, ResolveIf, Marks
<1>14. ASSUME RebuildApply PROVE TypeOK'
  <2>1. \A h \in Hosts : MergedStatus(h) \in Statuses
    BY DEF MergedStatus, NewStatus, Statuses
  <2>2. \A h \in Hosts : MergedFlag(h) \in Marks
    BY DEF MergedFlag, Marks
  <2>3. \A h \in Hosts : MergedFails(h) \in 0 .. FailThreshold
    BY DEF MergedFails
  <2>4. \A h \in Hosts : MergedSuccs(h) \in 0 .. RecoveryThreshold
    BY DEF MergedSuccs
  <2>5. NoRebuild \in [pc : {"idle", "read", "built", "removed", "apply"},
                       want : [Hosts -> Wishes], alerts : [Hosts -> Marks], boot : BOOLEAN]
    BY DEF NoRebuild, RebuildAt, Wishes, Marks
  <2> QED
    BY <1>14, <2>1, <2>2, <2>3, <2>4, <2>5 DEF RebuildApply
<1>15. CASE UNCHANGED vars
  BY <1>15 DEF vars
<1> QED
  BY <1>1, <1>2, <1>3, <1>4, <1>5, <1>6, <1>7, <1>8, <1>9, <1>10, <1>11, <1>12, <1>13, <1>14, <1>15
  DEF Next, Probe, Callback, Rebuild

\* Type correctness for every instance of the constants.
THEOREM MonitorTypeCorrect == Spec => []TypeOK
BY InitTypeOK, StepTypeOK, PTL DEF Spec

---------------------------------------------------------------------------
(* A host that answers has no active alert                                 *)

\* A callback holds the copy of a host that just went UP or DOWN.  The copy of
\* a DOWN host carries its alert, so the callback never has to trigger one: it
\* gets past Notify only for a host that went UP.
CallbackInv ==
  \A p \in Probers :
    /\ prober[p].pc \in {"notify", "sync", "publish"} => prober[p].status \in {"UP", "DOWN"}
    /\ prober[p].pc = "notify" /\ prober[p].status = "DOWN" => prober[p].flag # "none"
    /\ prober[p].pc \in {"sync", "publish"} => prober[p].status = "UP"

UpInv == TypeOK /\ CallbackInv /\ UpHasNoAlert

\* The invariant holds when the coordinator has restored the saved alerts.
LEMMA InitUpInv == Init => UpInv
BY InitTypeOK DEF Init, UpInv, CallbackInv, UpHasNoAlert, Idle

\* Every step keeps it, action by action.
LEMMA StepUpInv == ASSUME UpInv, [Next]_vars PROVE UpInv'
<1> DEFINE Goal == CallbackInv' /\ UpHasNoAlert'
<1>1. TypeOK /\ CallbackInv /\ UpHasNoAlert
  BY DEF UpInv
<1> USE <1>1 DEF TypeOK, CallbackInv, UpHasNoAlert, engineVars, configVars
<1>2. ASSUME NEW w \in Workers, NEW h \in Hosts, StartProbe(w, h) PROVE Goal
  BY <1>2 DEF StartProbe, Idle, Probers
<1>3. ASSUME NEW p \in Pingers, NEW h \in Hosts, StartPing(p, h) PROVE Goal
  BY <1>3 DEF StartPing, Idle, Probers
<1>4. ASSUME NEW p \in Probers, DropResult(p) PROVE Goal
  BY <1>4 DEF DropResult, Idle
<1>5. ASSUME NEW p \in Probers, NEW reply \in BOOLEAN, ApplyResult(p, reply) PROVE Goal
  <2> DEFINE h == prober[p].host
             st == StatusAfter(h, reply)
             mark == AlertAfter(st, alerts[h])
  <2>1. h \in Hosts
    BY <1>5 DEF ApplyResult
  <2>2. (st = "UP" => mark = "none") /\ (st = "DOWN" => mark # "none")
    BY DEF AlertAfter
  <2>3. st # status[h] => st \in {"UP", "DOWN"}
    BY DEF StatusAfter
  <2>4. CASE st = status[h]
    <3>1. prober' = [prober EXCEPT ![p] = Idle] /\ UNCHANGED <<status, alerts>>
      BY <1>5, <2>1, <2>4 DEF ApplyResult
    <3> QED
      BY <3>1 DEF Idle
  <2>5. CASE st # status[h]
    <3>1. /\ status' = [status EXCEPT ![h] = st] /\ alerts' = [alerts EXCEPT ![h] = mark]
          /\ prober' = [prober EXCEPT ![p] =
                          [pc |-> "notify", host |-> h, status |-> st, flag |-> mark]]
      BY <1>5, <2>5 DEF ApplyResult
    <3> HIDE DEF st, mark
    <3> QED
      BY <2>1, <2>2, <2>3, <2>5, <3>1
  <2> QED
    BY <2>4, <2>5
<1>6. ASSUME NEW p \in Probers, Notify(p) PROVE Goal
  BY <1>6 DEF Notify, OutOfSync, Idle
<1>7. ASSUME NEW p \in Probers, SyncAlert(p) PROVE Goal
  BY <1>7 DEF SyncAlert, AlertAfter
<1>8. ASSUME NEW p \in Probers, PublishAlert(p) PROVE Goal
  BY <1>8 DEF PublishAlert, Idle
<1>9. ASSUME NEW o \in Operators, NEW hs \in SUBSET Hosts, Acknowledge(o, hs) PROVE Goal
  BY <1>9 DEF Acknowledge
<1>10. ASSUME NEW o \in Operators, NEW h \in Hosts, AcknowledgeHost(o, h) PROVE Goal
  BY <1>10 DEF AcknowledgeHost
<1>11. ASSUME NEW h \in Hosts, NEW wish \in Wishes, Configure(h, wish) PROVE Goal
  BY <1>11 DEF Configure
<1>12. ASSUME RebuildStart \/ RebuildSnapshot PROVE Goal
  <2>1. UNCHANGED <<status, alerts, prober>>
    BY <1>12 DEF RebuildStart, RebuildSnapshot
  <2> QED
    BY <2>1 DEF UpHasNoAlert
<1>13. ASSUME RebuildResolveRemoved \/ RebuildResolveExcluded PROVE Goal
  BY <1>13 DEF RebuildResolveRemoved, RebuildResolveExcluded, ResolveIf
<1>14. ASSUME RebuildApply PROVE Goal
  <2>1. \A h \in Hosts : MergedStatus(h) = "UP" => status[h] = "UP"
    BY DEF MergedStatus, NewStatus
  <2> QED
    BY <1>14, <2>1 DEF RebuildApply
<1>15. ASSUME UNCHANGED vars PROVE Goal
  BY <1>15 DEF vars
<1> HIDE DEF Goal, TypeOK, CallbackInv, UpHasNoAlert
<1>16. Goal
  BY <1>2, <1>3, <1>4, <1>5, <1>6, <1>7, <1>8, <1>9, <1>10, <1>11, <1>12, <1>13, <1>14, <1>15
  DEF Next, Probe, Callback, Rebuild
<1>17. TypeOK'
  BY <1>1, StepTypeOK
<1> QED
  BY <1>16, <1>17 DEF UpInv, Goal

\* UpHasNoAlert for every instance: whatever stale callbacks, manual pings,
\* acknowledgements and rebuilds interleave, a host that is UP has no alert.
THEOREM AnsweringHostHasNoAlert == Spec => []UpHasNoAlert
<1>1. UpInv => UpHasNoAlert
  BY DEF UpInv
<1> QED
  BY InitUpInv, StepUpInv, <1>1, PTL DEF Spec

---------------------------------------------------------------------------
(* With one probe at a time (concurrency 1, no manual pings), a DOWN host  *)
(* always has an alert                                                     *)

OneProber == \A p, q \in Probers : p = q

\* While the callback of a host that went UP runs, that host has no alert: it
\* could only get one from a probe, and the prober is busy with the callback.
\* An alert the rebuild saw for a host it is about to add is still active, so
\* the host it adds as DOWN has its alert.
SerialInv ==
  /\ TypeOK
  /\ CallbackInv
  /\ DownHasAlert
  /\ \A p \in Probers :
       prober[p].pc \in {"notify", "sync", "publish"} /\ prober[p].status = "UP"
         => alerts[prober[p].host] = "none"
  /\ \A h \in Hosts :
       /\ rebuild.pc \in {"built", "removed", "apply"}
       /\ rebuild.want[h] = "monitored"
       /\ status[h] = "ABSENT"
       /\ rebuild.alerts[h] # "none"
       => alerts[h] # "none"

LEMMA InitSerialInv == Init => SerialInv
<1> SUFFICES ASSUME Init PROVE SerialInv
  OBVIOUS
<1>1. TypeOK /\ CallbackInv
  BY InitTypeOK, InitUpInv DEF UpInv
<1>2. rebuild.pc = "read" /\ \A p \in Probers : prober[p].pc = "idle"
  BY DEF Init, RebuildAt, Idle
<1> QED
  BY <1>1, <1>2 DEF SerialInv, Init, DownHasAlert

\* Every step keeps it. TypeOK and CallbackInv come from the lemmas above; the
\* rest is the alert, the callback and the snapshot.
LEMMA StepSerialInv ==
  ASSUME OneProber, SerialInv, UpInv, [Next]_vars
  PROVE  SerialInv'
<1> DEFINE Quiet ==
             \A p \in Probers :
               prober[p].pc \in {"notify", "sync", "publish"} /\ prober[p].status = "UP"
                 => alerts[prober[p].host] = "none"
           Snap ==
             \A h \in Hosts :
               /\ rebuild.pc \in {"built", "removed", "apply"}
               /\ rebuild.want[h] = "monitored"
               /\ status[h] = "ABSENT"
               /\ rebuild.alerts[h] # "none"
               => alerts[h] # "none"
           Goal == DownHasAlert' /\ Quiet' /\ Snap'
<1>1. TypeOK' /\ CallbackInv'
  BY StepTypeOK, StepUpInv DEF SerialInv, UpInv
<1>2. TypeOK /\ CallbackInv /\ DownHasAlert /\ Quiet /\ Snap
  BY DEF SerialInv
<1> USE <1>2 DEF DownHasAlert, Closing, TypeOK, engineVars, configVars
<1>3. ASSUME NEW w \in Workers, NEW h \in Hosts, StartProbe(w, h) PROVE Goal
  BY <1>3 DEF StartProbe, Idle, Probers
<1>4. ASSUME NEW p \in Pingers, NEW h \in Hosts, StartPing(p, h) PROVE Goal
  BY <1>4 DEF StartPing, Idle, Probers
<1>5. ASSUME NEW p \in Probers, DropResult(p) PROVE Goal
  BY <1>5 DEF DropResult, Idle
<1>6. ASSUME NEW p \in Probers, NEW reply \in BOOLEAN, ApplyResult(p, reply) PROVE Goal
  <2> DEFINE h == prober[p].host
             st == StatusAfter(h, reply)
             mark == AlertAfter(st, alerts[h])
  <2>1. \A q \in Probers : q = p
    BY DEF OneProber
  <2>2. h \in Hosts /\ status[h] # "ABSENT"
    BY <1>6 DEF ApplyResult, Monitored
  <2>3. (st = "UP" => mark = "none") /\ (st = "DOWN" => mark # "none")
    BY DEF AlertAfter
  <2>4. st # "ABSENT"
    BY <2>2 DEF StatusAfter
  <2>5. CASE st = status[h]
    BY <1>6, <2>1, <2>2, <2>5 DEF ApplyResult, Idle
  <2>6. CASE st # status[h]
    <3>1. DownHasAlert'
      BY <1>6, <2>2, <2>3, <2>6 DEF ApplyResult
    <3>2. Quiet'
      BY <1>6, <2>1, <2>2, <2>3, <2>6 DEF ApplyResult
    <3>3. Snap'
      BY <1>6, <2>2, <2>4, <2>6 DEF ApplyResult
    <3> QED
      BY <3>1, <3>2, <3>3
  <2> QED
    BY <2>5, <2>6
<1>7. ASSUME NEW p \in Probers, Notify(p) PROVE Goal
  BY <1>7 DEF Notify, Idle
<1>8. ASSUME NEW p \in Probers, SyncAlert(p) PROVE Goal
  <2>1. prober[p].status = "UP" /\ prober[p].host \in Hosts
    BY <1>8 DEF SyncAlert, CallbackInv
  <2>2. alerts' = alerts
    BY <1>8, <2>1 DEF SyncAlert, AlertAfter
  <2> QED
    BY <1>8, <2>1, <2>2 DEF SyncAlert
<1>9. ASSUME NEW p \in Probers, PublishAlert(p) PROVE Goal
  BY <1>9 DEF PublishAlert, Idle
<1>10. ASSUME NEW o \in Operators, NEW hs \in SUBSET Hosts, Acknowledge(o, hs) PROVE Goal
  <2>1. \A h \in Hosts : alerts'[h] = "none" <=> alerts[h] = "none"
    BY <1>10 DEF Acknowledge
  <2> QED
    BY <1>10, <2>1 DEF Acknowledge, CallbackInv
<1>11. ASSUME NEW o \in Operators, NEW h \in Hosts, AcknowledgeHost(o, h) PROVE Goal
  BY <1>11 DEF AcknowledgeHost
<1>12. ASSUME NEW h \in Hosts, NEW wish \in Wishes, Configure(h, wish) PROVE Goal
  BY <1>12 DEF Configure
<1>13. ASSUME RebuildStart PROVE Goal
  BY <1>13 DEF RebuildStart, RebuildAt
<1>14. ASSUME RebuildSnapshot PROVE Goal
  BY <1>14 DEF RebuildSnapshot
<1>15. ASSUME RebuildResolveRemoved \/ RebuildResolveExcluded PROVE Goal
  BY <1>15 DEF RebuildResolveRemoved, RebuildResolveExcluded, ResolveIf, CallbackInv, Wishes
<1>16. ASSUME RebuildApply PROVE Goal
  <2>1. \A h \in Hosts : MergedStatus(h) = "DOWN" => alerts[h] # "none"
    BY <1>16 DEF RebuildApply, MergedStatus, NewStatus, Wishes
  <2> QED
    BY <1>16, <2>1 DEF RebuildApply, NoRebuild, RebuildAt
<1>17. ASSUME UNCHANGED vars PROVE Goal
  BY <1>17 DEF vars
<1> HIDE DEF Goal, TypeOK, DownHasAlert, Closing
<1>18. Goal
  BY <1>3, <1>4, <1>5, <1>6, <1>7, <1>8, <1>9, <1>10, <1>11, <1>12, <1>13, <1>14, <1>15, <1>16, <1>17
  DEF Next, Probe, Callback, Rebuild
<1> QED
  BY <1>1, <1>18 DEF SerialInv, Goal

\* DownHasAlert for every instance with a single prober: any hosts, thresholds,
\* acknowledgements and configuration changes. With two probers it is false.
THEOREM SerialOutageHasAlert == ASSUME OneProber PROVE Spec => []DownHasAlert
<1>1. Init => SerialInv /\ UpInv
  BY InitSerialInv, InitUpInv
<1>2. SerialInv /\ UpInv /\ [Next]_vars => (SerialInv /\ UpInv)'
  BY OneProber, StepSerialInv, StepUpInv
<1>3. SerialInv => DownHasAlert
  BY DEF SerialInv
<1> QED
  BY <1>1, <1>2, <1>3, PTL DEF Spec

---------------------------------------------------------------------------
(* Without acknowledgements, the engine's alert fields are the manager's   *)

\* The alert a rebuild saw for a host it is about to add is the one of now.
SnapshotInv ==
  \A h \in Hosts :
    /\ rebuild.pc \in {"built", "removed", "apply"}
    /\ rebuild.want[h] = "monitored"
    /\ status[h] = "ABSENT"
    => rebuild.alerts[h] = alerts[h]

\* What a callback writes back to the engine: no alert, the host is UP.
PublishInv == \A p \in Probers : prober[p].pc = "publish" => prober[p].flag = "none"

FlagInv == FlagMatchesAlert /\ SnapshotInv /\ PublishInv

LEMMA InitFlagInv == Init => FlagInv
BY DEF Init, FlagInv, FlagMatchesAlert, SnapshotInv, PublishInv, RebuildAt, Idle

\* Every step keeps it. A callback under way is that of the only prober, so its host
\* has had no transition since, and what it writes back is what the manager has.
LEMMA StepFlagInv ==
  ASSUME OneProber, Operators = {}, SerialInv, FlagInv, [Next]_vars
  PROVE  FlagInv'
<1> DEFINE Goal == FlagMatchesAlert' /\ SnapshotInv' /\ PublishInv'
<1>1. TypeOK /\ CallbackInv /\ DownHasAlert /\ FlagMatchesAlert /\ SnapshotInv /\ PublishInv
  BY DEF SerialInv, FlagInv
<1>2. \A p \in Probers :
        prober[p].pc \in {"notify", "sync", "publish"} /\ prober[p].status = "UP"
          => alerts[prober[p].host] = "none"
  BY DEF SerialInv
<1> USE <1>1 DEF FlagMatchesAlert, SnapshotInv, PublishInv, Closing, TypeOK, engineVars, configVars
<1>3. ASSUME NEW w \in Workers, NEW h \in Hosts, StartProbe(w, h) PROVE Goal
  BY <1>3 DEF StartProbe, Idle, Probers
<1>4. ASSUME NEW p \in Pingers, NEW h \in Hosts, StartPing(p, h) PROVE Goal
  BY <1>4 DEF StartPing, Idle, Probers
<1>5. ASSUME NEW p \in Probers, DropResult(p) PROVE Goal
  BY <1>5 DEF DropResult, Idle
<1>6. ASSUME NEW p \in Probers, NEW reply \in BOOLEAN, ApplyResult(p, reply) PROVE Goal
  <2> DEFINE h == prober[p].host
             st == StatusAfter(h, reply)
             mark == AlertAfter(st, alerts[h])
  <2>1. h \in Hosts /\ status[h] # "ABSENT" /\ st # "ABSENT"
    BY <1>6 DEF ApplyResult, Monitored, StatusAfter
  <2>2. rebuild' = rebuild
    BY <1>6 DEF ApplyResult
  <2>5. \E c \in {Idle, [pc |-> "notify", host |-> h, status |-> st, flag |-> mark]} :
          prober' = [prober EXCEPT ![p] = c]
    BY <1>6 DEF ApplyResult
  <2>6. PublishInv'
    BY <2>5 DEF Idle
  <2>3. CASE st = status[h]
    <3>1. status' = status /\ flag' = flag /\ alerts' = alerts
      BY <1>6, <2>1, <2>3 DEF ApplyResult
    <3> QED
      BY <2>2, <2>6, <3>1
  <2>4. CASE st # status[h]
    <3>1. /\ status' = [status EXCEPT ![h] = st]
          /\ flag' = [flag EXCEPT ![h] = mark] /\ alerts' = [alerts EXCEPT ![h] = mark]
      BY <1>6, <2>1, <2>4 DEF ApplyResult
    <3> QED
      BY <2>1, <2>2, <2>6, <3>1
  <2> QED
    BY <2>3, <2>4
<1>7. ASSUME NEW p \in Probers, Notify(p) PROVE Goal
  BY <1>7 DEF Notify, Idle
<1>8. ASSUME NEW p \in Probers, SyncAlert(p) PROVE Goal
  <2>1. prober[p].status = "UP" /\ prober[p].host \in Hosts
    BY <1>8 DEF SyncAlert, CallbackInv
  <2>2. alerts' = alerts
    BY <1>2, <1>8, <2>1 DEF SyncAlert, AlertAfter
  <2> QED
    BY <1>8, <2>1, <2>2 DEF SyncAlert, AlertAfter
<1>9. ASSUME NEW p \in Probers, PublishAlert(p) PROVE Goal
  <2>1. prober[p].flag = "none" /\ prober[p].host \in Hosts /\ alerts[prober[p].host] = "none"
    BY <1>2, <1>9 DEF PublishAlert, CallbackInv
  <2> QED
    BY <1>9, <2>1 DEF PublishAlert, SetHostAlertState, Idle
<1>10. ASSUME NEW h \in Hosts, NEW wish \in Wishes, Configure(h, wish) PROVE Goal
  BY <1>10 DEF Configure
<1>11. ASSUME RebuildStart PROVE Goal
  BY <1>11 DEF RebuildStart, RebuildAt
<1>12. ASSUME RebuildSnapshot PROVE Goal
  BY <1>12 DEF RebuildSnapshot
<1>13. ASSUME RebuildResolveRemoved PROVE Goal
  <2>1. \A h \in Hosts : rebuild.want[h] # "absent" => alerts'[h] = alerts[h]
    BY <1>13 DEF RebuildResolveRemoved, ResolveIf
  <2>2. /\ rebuild.pc = "built" /\ rebuild' = [rebuild EXCEPT !.pc = "removed"]
        /\ UNCHANGED <<status, flag, prober>>
    BY <1>13 DEF RebuildResolveRemoved
  <2> QED
    BY <2>1, <2>2
<1>13a. ASSUME RebuildResolveExcluded PROVE Goal
  <2>1. \A h \in Hosts : rebuild.want[h] = "monitored" => alerts'[h] = alerts[h]
    BY <1>13a DEF RebuildResolveExcluded, ResolveIf
  <2>2. /\ rebuild.pc = "removed" /\ rebuild' = [rebuild EXCEPT !.pc = "apply"]
        /\ UNCHANGED <<status, flag, prober>>
    BY <1>13a DEF RebuildResolveExcluded
  <2> QED
    BY <2>1, <2>2 DEF Wishes
<1>14. ASSUME RebuildApply PROVE Goal
  <2>1. \A h \in Hosts : MergedStatus(h) \in {"UP", "DOWN"} => MergedFlag(h) = alerts[h]
    BY <1>14 DEF RebuildApply, MergedStatus, MergedFlag, NewStatus, Wishes
  <2> QED
    BY <1>14, <2>1 DEF RebuildApply, NoRebuild, RebuildAt
<1>15. ASSUME UNCHANGED vars PROVE Goal
  BY <1>15 DEF vars
<1> HIDE DEF Goal, TypeOK, FlagMatchesAlert, SnapshotInv, PublishInv, Closing
<1>16. Goal
  BY <1>3, <1>4, <1>5, <1>6, <1>7, <1>8, <1>9, <1>10, <1>11, <1>12, <1>13, <1>13a, <1>14, <1>15
  DEF Next, Probe, Callback, Rebuild
<1> QED
  BY <1>16 DEF FlagInv, Goal

\* FlagMatchesAlert for every instance with a single prober and no acknowledgements:
\* whatever alerts a rebuild saw, the engine has those of the manager.
THEOREM EngineShowsTheAlerts ==
  ASSUME OneProber, Operators = {} PROVE Spec => []FlagMatchesAlert
<1>1. Init => SerialInv /\ UpInv /\ FlagInv
  BY InitSerialInv, InitUpInv, InitFlagInv
<1>2. SerialInv /\ UpInv /\ FlagInv /\ [Next]_vars => (SerialInv /\ UpInv /\ FlagInv)'
  BY OneProber, Operators = {}, StepSerialInv, StepUpInv, StepFlagInv
<1>3. FlagInv => FlagMatchesAlert
  BY DEF FlagInv
<1> QED
  BY <1>1, <1>2, <1>3, PTL DEF Spec

---------------------------------------------------------------------------
(* What a step never does                                                  *)

\* An acknowledged alert never fires again: Trigger keeps the alert a host has
\* (manager.go), also when a late callback or a second prober calls it.
THEOREM AcknowledgementsHold == Spec => AckHolds
<1> DEFINE Kept == \A h \in Hosts : alerts[h] = "acked" => alerts'[h] # "firing"
<1>1. TypeOK /\ [Next]_vars => [Kept]_vars
  <2> SUFFICES ASSUME TypeOK, Next PROVE Kept
    OBVIOUS
  <2> USE DEF TypeOK
  <2>1. ASSUME NEW p \in Probers, NEW reply \in BOOLEAN, ApplyResult(p, reply) PROVE Kept
    <3>1. prober[p].host \in Hosts
      BY <2>1 DEF ApplyResult
    <3> QED
      BY <2>1, <3>1 DEF ApplyResult, AlertAfter
  <2>2. ASSUME NEW p \in Probers, SyncAlert(p) PROVE Kept
    <3>1. prober[p].host \in Hosts
      BY <2>2 DEF SyncAlert
    <3> QED
      BY <2>2, <3>1 DEF SyncAlert, AlertAfter
  <2>3. ASSUME NEW o \in Operators, NEW hs \in SUBSET Hosts, Acknowledge(o, hs) PROVE Kept
    BY <2>3 DEF Acknowledge
  <2>4. ASSUME RebuildResolveRemoved \/ RebuildResolveExcluded PROVE Kept
    BY <2>4 DEF RebuildResolveRemoved, RebuildResolveExcluded, ResolveIf
  <2>5. CASE UNCHANGED alerts
    BY <2>5
  <2> HIDE DEF Kept, TypeOK
  <2> QED
    BY <2>1, <2>2, <2>3, <2>4, <2>5
    DEF Next, Probe, Callback, Rebuild, StartProbe, StartPing, DropResult, Notify, PublishAlert,
        AcknowledgeHost, Configure, RebuildStart, RebuildSnapshot, RebuildApply
<1> QED
  BY <1>1, MonitorTypeCorrect, PTL DEF Spec, AckHolds

\* What a rebuild has closed stays closed, or was started by a host that went DOWN.
ClosedInv ==
  \A h \in Hosts :
    /\ \/ rebuild.pc \in {"removed", "apply"} /\ rebuild.want[h] = "absent"
       \/ rebuild.pc = "apply" /\ rebuild.want[h] = "excluded"
    /\ alerts[h] # "none"
    => status[h] = "DOWN"

LEMMA InitClosedInv == Init => ClosedInv
BY DEF Init, ClosedInv, RebuildAt

LEMMA StepClosedInv == ASSUME UpInv, ClosedInv, [Next]_vars PROVE ClosedInv'
<1> DEFINE Goal == ClosedInv'
<1>1. TypeOK /\ CallbackInv
  BY DEF UpInv
<1> USE <1>1 DEF ClosedInv, TypeOK
<1>2. ASSUME NEW p \in Probers, NEW reply \in BOOLEAN, ApplyResult(p, reply) PROVE Goal
  <2> DEFINE h == prober[p].host
             st == StatusAfter(h, reply)
             mark == AlertAfter(st, alerts[h])
  <2>1. h \in Hosts /\ (mark # "none" => st = "DOWN") /\ rebuild' = rebuild
    BY <1>2 DEF ApplyResult, AlertAfter
  <2>2. \/ status' = status /\ alerts' = alerts
        \/ status' = [status EXCEPT ![h] = st] /\ alerts' = [alerts EXCEPT ![h] = mark]
    BY <1>2, <2>1 DEF ApplyResult
  <2> QED
    BY <2>1, <2>2
<1>3. ASSUME NEW p \in Probers, SyncAlert(p) PROVE Goal
  <2>1. prober[p].status = "UP" /\ prober[p].host \in Hosts
    BY <1>3 DEF SyncAlert, CallbackInv
  <2> QED
    BY <1>3, <2>1 DEF SyncAlert, AlertAfter, engineVars
<1>4. ASSUME NEW o \in Operators, NEW hs \in SUBSET Hosts, Acknowledge(o, hs) PROVE Goal
  <2>1. \A h \in Hosts : alerts'[h] = "none" <=> alerts[h] = "none"
    BY <1>4 DEF Acknowledge
  <2> QED
    BY <1>4, <2>1 DEF Acknowledge, engineVars
<1>5. ASSUME RebuildStart \/ RebuildSnapshot PROVE Goal
  <2>1. RebuildStart => rebuild'.pc = "read"
    BY DEF RebuildStart, RebuildAt
  <2>2. RebuildSnapshot => rebuild'.pc = "built"
    <3>1. rebuild \in [pc : {"idle", "read", "built", "removed", "apply"},
                      want : [Hosts -> Wishes], alerts : [Hosts -> Marks], boot : BOOLEAN]
      OBVIOUS
    <3> HIDE DEF TypeOK, ClosedInv
    <3> QED
      BY <3>1 DEF RebuildSnapshot
  <2> QED
    BY <1>5, <2>1, <2>2
<1>6. ASSUME RebuildResolveRemoved PROVE Goal
  BY <1>6 DEF RebuildResolveRemoved, ResolveIf, engineVars
<1>7. ASSUME RebuildResolveExcluded PROVE Goal
  BY <1>7 DEF RebuildResolveExcluded, ResolveIf, engineVars
<1>8. ASSUME RebuildApply PROVE Goal
  BY <1>8 DEF RebuildApply, NoRebuild, RebuildAt
<1>9. CASE UNCHANGED <<status, alerts, rebuild>>
  BY <1>9
<1> HIDE DEF Goal, ClosedInv, TypeOK
<1> QED
  BY <1>2, <1>3, <1>4, <1>5, <1>6, <1>7, <1>8, <1>9
  DEF Goal, Next, Probe, Callback, Rebuild, StartProbe, StartPing, DropResult, Notify, PublishAlert,
      AcknowledgeHost, Configure, vars, engineVars

\* A rebuild closes each alert of a host before it counts the host as closed.
LEMMA ClosingStep ==
  ASSUME TypeOK, [Next]_vars, NEW h \in Hosts, Closing(h)'
  PROVE  Closing(h) \/ alerts'[h] = "none"
<1> USE DEF Closing, TypeOK
<1>1. CASE RebuildResolveRemoved
  <2>1. rebuild' = [rebuild EXCEPT !.pc = "removed"]
        /\ alerts' = [x \in Hosts |-> IF rebuild.want[x] = "absent" THEN "none" ELSE alerts[x]]
    BY <1>1 DEF RebuildResolveRemoved, ResolveIf
  <2> QED
    BY <2>1
<1>2. CASE RebuildResolveExcluded
  <2>1. /\ rebuild.pc = "removed" /\ rebuild' = [rebuild EXCEPT !.pc = "apply"]
        /\ alerts' = [x \in Hosts |-> IF rebuild.want[x] = "excluded" THEN "none" ELSE alerts[x]]
    BY <1>2 DEF RebuildResolveExcluded, ResolveIf
  <2>2. rebuild.want[h] \in {"absent", "excluded"}
    BY <2>1 DEF Wishes
  <2> QED
    BY <2>1, <2>2
<1>3. CASE RebuildStart \/ RebuildSnapshot \/ RebuildApply
  <2>1. rebuild \in [pc : {"idle", "read", "built", "removed", "apply"},
                     want : [Hosts -> Wishes], alerts : [Hosts -> Marks], boot : BOOLEAN]
    OBVIOUS
  <2>2. CASE RebuildStart
    <3>1. rebuild'.pc = "read"
      BY ONLY <2>2 DEF RebuildStart, RebuildAt
    <3> QED
      BY <3>1
  <2>3. CASE RebuildSnapshot
    <3>1. rebuild' = [rebuild EXCEPT !.pc = "built", !.alerts = alerts]
      BY ONLY <2>3 DEF RebuildSnapshot
    <3>2. rebuild'.pc = "built"
      BY ONLY <2>1, <3>1
    <3> QED
      BY <3>2
  <2>4. CASE RebuildApply
    <3>1. rebuild'.pc = "idle"
      BY ONLY <2>4 DEF RebuildApply, NoRebuild, RebuildAt
    <3> QED
      BY <3>1
  <2> QED
    BY <1>3, <2>2, <2>3, <2>4
<1>4. CASE UNCHANGED rebuild
  BY <1>4
<1> HIDE DEF Closing, TypeOK
<1> QED
  BY <1>1, <1>2, <1>3, <1>4
  DEF Next, Probe, Callback, Rebuild, StartProbe, StartPing, DropResult, ApplyResult, Notify,
      SyncAlert, PublishAlert, Acknowledge, AcknowledgeHost, Configure, vars

\* What a step does with the alerts from before the rebuild: only the start of a rebuild
\* takes one up, and one that is resolved is dropped.
LEMMA OldStep ==
  ASSUME TypeOK, [Next]_vars
  PROVE  \/ RebuildStart /\ old' = Raised /\ alerts' = alerts
         \/ OldStaysOld
         \/ old' = old /\ \A h \in Hosts : alerts[h] # "none" => alerts'[h] # "none"
<1>1. CASE RebuildStart
  BY <1>1 DEF RebuildStart
<1>2. ASSUME NEW p \in Probers, Probe(p) PROVE OldStaysOld \/ UNCHANGED <<alerts, old>>
  BY <1>2 DEF Probe, DropResult, ApplyResult
<1>3. ASSUME NEW p \in Probers, Callback(p) PROVE OldStaysOld \/ UNCHANGED <<alerts, old>>
  BY <1>3 DEF Callback, Notify, SyncAlert, PublishAlert
<1>4. ASSUME NEW o \in Operators, NEW hs \in SUBSET Hosts, Acknowledge(o, hs)
      PROVE  old' = old /\ \A h \in Hosts : alerts[h] # "none" => alerts'[h] # "none"
  BY <1>4 DEF Acknowledge
<1>5. CASE RebuildResolveRemoved \/ RebuildResolveExcluded
  BY <1>5 DEF RebuildResolveRemoved, RebuildResolveExcluded, ResolveIf
<1>6. CASE UNCHANGED <<alerts, old>>
  BY <1>6
<1> HIDE DEF OldStaysOld
<1> QED
  BY <1>1, <1>2, <1>3, <1>4, <1>5, <1>6
  DEF Next, Rebuild, StartProbe, StartPing, AcknowledgeHost, Configure, RebuildSnapshot,
      RebuildApply, vars

\* A host that the rebuild has closed has no alert from before the rebuild any more.
AgeInv ==
  /\ old \subseteq Raised
  /\ \A h \in Hosts : Closing(h) => h \notin old

LEMMA InitAgeInv == Init => AgeInv
BY DEF Init, AgeInv, Closing, RebuildAt

LEMMA StepAgeInv == ASSUME TypeOK, AgeInv, [Next]_vars PROVE AgeInv'
<1>1. CASE RebuildStart /\ old' = Raised /\ alerts' = alerts
  BY <1>1 DEF RebuildStart, RebuildAt, AgeInv, Closing, Raised
<1>2. CASE \/ OldStaysOld
           \/ old' = old /\ \A h \in Hosts : alerts[h] # "none" => alerts'[h] # "none"
  <2>1. \A h \in old' : h \in old /\ h \in Hosts /\ alerts'[h] # "none"
    BY <1>2 DEF OldStaysOld, AgeInv, Raised
  <2>2. \A h \in Hosts : Closing(h)' => Closing(h) \/ alerts'[h] = "none"
    BY ClosingStep
  <2>3. \A h \in Hosts : Closing(h)' => h \notin old'
    BY <2>1, <2>2 DEF AgeInv
  <2> QED
    BY <2>1, <2>3 DEF AgeInv, Raised
<1> QED
  BY <1>1, <1>2, OldStep

\* RebuildClosesAlerts for every instance: whatever probes, callbacks, acknowledgements and
\* changes of the configuration interleave with a rebuild (server.go, RebuildTargetList), no
\* alert from before it is left for a host that it takes out or excludes; what is left belongs
\* to an outage that began while it ran.
THEOREM RebuildsCloseOldAlerts == Spec => RebuildClosesAlerts
<1> DEFINE Closes == rebuild.pc = "apply" /\ rebuild'.pc = "idle" =>
             \A h \in Hosts :
               status'[h] \in {"ABSENT", "EXCLUDED"} /\ alerts'[h] # "none"
                 => h \notin old' /\ status[h] = "DOWN"
           Inv == UpInv /\ ClosedInv /\ AgeInv
<1>1. Inv /\ [Next]_vars => [Closes]_vars
  <2> SUFFICES ASSUME TypeOK, ClosedInv, AgeInv, Next, rebuild.pc = "apply", rebuild'.pc = "idle"
               PROVE  Closes
    BY DEF UpInv
  <2>1. RebuildApply
    BY DEF Next, Probe, Callback, Rebuild, StartProbe, StartPing, DropResult, ApplyResult,
           Notify, SyncAlert, PublishAlert, Acknowledge, AcknowledgeHost, Configure, RebuildStart,
           RebuildSnapshot, RebuildResolveRemoved, RebuildResolveExcluded
  <2>2. \A h \in Hosts : MergedStatus(h) \in {"ABSENT", "EXCLUDED"} =>
          rebuild.want[h] \in {"absent", "excluded"}
    BY DEF MergedStatus, NewStatus, TypeOK, Wishes
  <2>3. \A h \in Hosts : rebuild.want[h] \in {"absent", "excluded"} => h \notin old'
    BY <2>1 DEF RebuildApply, AgeInv, Closing
  <2> QED
    BY <2>1, <2>2, <2>3 DEF RebuildApply, ClosedInv
<1>2. Init => Inv
  BY InitUpInv, InitClosedInv, InitAgeInv
<1>3. Inv /\ [Next]_vars => Inv'
  <2> SUFFICES ASSUME Inv, [Next]_vars PROVE Inv'
    OBVIOUS
  <2>1. TypeOK
    BY DEF UpInv
  <2> QED
    BY <2>1, StepUpInv, StepClosedInv, StepAgeInv
<1> HIDE DEF Inv, Closes
<1>4. Spec => [][Closes]_vars
  BY <1>1, <1>2, <1>3, PTL DEF Spec
<1> QED
  BY <1>4 DEF RebuildClosesAlerts, Closes

=============================================================================
