------------------------------ MODULE Monitor ------------------------------
(***************************************************************************)
(* The host life cycle of DINIS: the probing engine (pkg/pinger), the      *)
(* alert manager (pkg/alerts) and the coordinator that glues them together *)
(* (pkg/server).                                                           *)
(*                                                                         *)
(* Three locks guard the state: Engine.mu (hosts and schedule), Manager.mu *)
(* (alerts) and the store's mutex (the configuration).  An action is what  *)
(* one goroutine does while it holds one of them, with the manager calls   *)
(* made from inside the engine's critical section included.  Everything    *)
(* between two critical sections is a place where the others interleave.   *)
(***************************************************************************)
EXTENDS Integers, FiniteSets

CONSTANTS
  Hosts,              \* the addresses that may be monitored
  Workers,            \* probe workers of the engine (Engine.workerLoop)
  Pingers,            \* API handlers of POST /api/hosts/{ip}/ping
  Operators,          \* API handlers that acknowledge alerts
  FailThreshold,      \* lost probes in sequence that make a host DOWN
  RecoveryThreshold,  \* replies in sequence that make a DOWN host UP
  MaxChanges,         \* bound: configuration changes in one behaviour
  NoHost              \* the target of an idle prober

ASSUME MonitorAssumption ==
  /\ FailThreshold \in Nat \ {0}
  /\ RecoveryThreshold \in Nat \ {0}
  /\ MaxChanges \in Nat
  /\ NoHost \notin Hosts
  /\ Workers \cap Pingers = {}

VARIABLES
  status,    \* status[h]: HostState.Status; ABSENT: not in Engine.hosts
  fails,     \* fails[h]: ConsecutiveFails, saturated at FailThreshold
  succs,     \* succs[h]: ConsecutiveSuccesses, saturated at RecoveryThreshold
  flag,      \* flag[h]: HostState.AlertActive and AlertAcknowledged
  busy,      \* hosts whose schedule entry is in flight
  alerts,    \* alerts[h]: the active alert of the manager
  prober,    \* prober[p]: how far worker or ping handler p has come
  operator,  \* operator[o]: hosts whose flag o has still to set
  wanted,    \* wanted[h]: what the stored configuration says about h
  changes,   \* configuration changes so far
  waiting,   \* handlers that changed the configuration and wait to rebuild
  rebuild,   \* the RebuildTargetList that holds rebuildMu
  old        \* history variable: hosts whose alert was active when the latest rebuild
             \* began, and still is (the code has Alert.StartedAt)

vars == <<status, fails, succs, flag, busy, alerts, old, prober, operator,
          wanted, changes, waiting, rebuild>>

engineVars == <<status, fails, succs, flag, busy>>
configVars == <<wanted, changes, waiting>>

Probers == Workers \cup Pingers
Statuses == {"ABSENT", "PENDING", "UP", "DOWN", "EXCLUDED"}
Marks == {"none", "firing", "acked"}
Wishes == {"absent", "monitored", "excluded"}

Monitored(h) == status[h] \in {"PENDING", "UP", "DOWN"}

Raised == {h \in Hosts : alerts[h] # "none"}

\* No step resolves an alert and starts the next one of the same host.
OldStaysOld == old' = {h \in old : alerts'[h] # "none"}

Idle == [pc |-> "idle", host |-> NoHost, status |-> "ABSENT", flag |-> "none"]

TypeOK ==
  /\ status \in [Hosts -> Statuses]
  /\ fails \in [Hosts -> 0 .. FailThreshold]
  /\ succs \in [Hosts -> 0 .. RecoveryThreshold]
  /\ flag \in [Hosts -> Marks]
  /\ busy \in SUBSET Hosts
  /\ alerts \in [Hosts -> Marks]
  /\ prober \in [Probers -> [pc : {"idle", "probing", "notify", "sync", "publish"},
                             host : Hosts \cup {NoHost},
                             status : Statuses, flag : Marks]]
  /\ \A p \in Probers : prober[p].pc # "idle" => prober[p].host \in Hosts
  /\ operator \in [Operators -> SUBSET Hosts]
  /\ wanted \in [Hosts -> Wishes]
  /\ changes \in 0 .. MaxChanges
  /\ waiting \in 0 .. changes
  /\ rebuild \in [pc : {"idle", "read", "built", "removed", "apply"},
                  want : [Hosts -> Wishes], alerts : [Hosts -> Marks], boot : BOOLEAN]
  /\ old \in SUBSET Hosts

(***************************************************************************)
(* NewCoordinator: the alerts of the previous run are restored, the engine *)
(* has no hosts yet, and the first rebuild has read the configuration.     *)
(* The API answers only after it (Serving).                                *)
(***************************************************************************)
RebuildAt(pc, want, boot) ==
  [pc |-> pc, want |-> want, alerts |-> [h \in Hosts |-> "none"], boot |-> boot]

NoRebuild == RebuildAt("idle", [h \in Hosts |-> "absent"], FALSE)

Serving == ~rebuild.boot

Init ==
  /\ status = [h \in Hosts |-> "ABSENT"]
  /\ fails = [h \in Hosts |-> 0]
  /\ succs = [h \in Hosts |-> 0]
  /\ flag = [h \in Hosts |-> "none"]
  /\ busy = {}
  /\ alerts \in [Hosts -> Marks]
  /\ prober = [p \in Probers |-> Idle]
  /\ operator = [o \in Operators |-> {}]
  /\ wanted \in [Hosts -> Wishes]
  /\ changes = 0
  /\ waiting = 0
  /\ rebuild = RebuildAt("read", wanted, TRUE)
  /\ old = Raised

---------------------------------------------------------------------------
(* Engine: a probe and what its result does to the host                    *)

\* The scheduler hands a probe of h to a worker: one at a time for each entry.
StartProbe(w, h) ==
  /\ prober[w].pc = "idle"
  /\ Monitored(h)
  /\ h \notin busy
  /\ busy' = busy \cup {h}
  /\ prober' = [prober EXCEPT ![w] = [Idle EXCEPT !.pc = "probing", !.host = h]]
  /\ UNCHANGED <<status, fails, succs, flag, alerts, old, operator, configVars, rebuild>>

\* A ping handler probes the address in its URL, known to the engine or not.
StartPing(p, h) ==
  /\ Serving
  /\ prober[p].pc = "idle"
  /\ prober' = [prober EXCEPT ![p] = [Idle EXCEPT !.pc = "probing", !.host = h]]
  /\ UNCHANGED <<engineVars, alerts, old, operator, configVars, rebuild>>

AtMost(n, bound) == IF n < bound THEN n ELSE bound

\* applyStatus: the status of h after a probe that was answered or lost.
StatusAfter(h, reply) ==
  IF reply
  THEN IF status[h] # "DOWN" \/ succs[h] + 1 >= RecoveryThreshold THEN "UP" ELSE "DOWN"
  ELSE IF fails[h] + 1 >= FailThreshold THEN "DOWN" ELSE status[h]

\* handleBeforeStateChange: the alert of a host that entered status st, whose
\* alert was mark before. DOWN triggers (or keeps) an alert, UP resolves it.
AlertKeptOnRecovery(st, mark) ==  \* mutant: UP does not resolve the alert
  IF st = "DOWN" THEN IF mark = "none" THEN "firing" ELSE mark ELSE mark

AlertRetriggered(st, mark) ==  \* mutant: Trigger replaces an active alert
  IF st = "DOWN" THEN "firing" ELSE "none"

AlertAfter(st, mark) ==
  IF st = "DOWN" THEN IF mark = "none" THEN "firing" ELSE mark ELSE "none"

\* schedDoneUnsafe: only the workers' jobs touch the schedule entry.
EntryDone(p, h) == busy' = IF p \in Workers THEN busy \ {h} ELSE busy

\* The probe of p ends without a result for its host: a local error, the host
\* left the engine meanwhile, or it is now excluded.
DropResult(p) ==
  LET h == prober[p].host IN
  /\ prober[p].pc = "probing"
  /\ EntryDone(p, h)
  /\ prober' = [prober EXCEPT ![p] = Idle]
  /\ UNCHANGED <<status, fails, succs, flag, alerts, old, operator, configVars, rebuild>>

\* probeAndApply and PingSingle after the probe returned: applyStatus and, on a
\* transition, BeforeStateChange, in one critical section of Engine.mu.  The
\* copy of the host is taken before the lock is released.
ApplyResult(p, reply) ==
  LET h == prober[p].host
      st == StatusAfter(h, reply)
      mark == AlertAfter(st, alerts[h]) IN
  /\ prober[p].pc = "probing"
  /\ Monitored(h)
  /\ fails' = [fails EXCEPT ![h] = IF reply THEN 0 ELSE AtMost(@ + 1, FailThreshold)]
  /\ succs' = [succs EXCEPT ![h] = IF reply THEN AtMost(@ + 1, RecoveryThreshold) ELSE 0]
  /\ status' = [status EXCEPT ![h] = st]
  /\ EntryDone(p, h)
  /\ \/ /\ st = status[h]
        /\ prober' = [prober EXCEPT ![p] = Idle]
        /\ UNCHANGED <<flag, alerts, old>>
     \/ /\ st # status[h]
        /\ alerts' = [alerts EXCEPT ![h] = mark]
        /\ OldStaysOld
        /\ flag' = [flag EXCEPT ![h] = mark]
        /\ prober' = [prober EXCEPT ![p] =
                        [pc |-> "notify", host |-> h, status |-> st, flag |-> mark]]
  /\ UNCHANGED <<operator, configVars, rebuild>>

---------------------------------------------------------------------------
(* Coordinator.handleStateChange, called with the copy and no lock held    *)

OutOfSync(copy) ==
  \/ copy.status = "DOWN" /\ copy.flag = "none"
  \/ copy.status = "UP" /\ (copy.flag # "none" \/ alerts[copy.host] # "none")

\* It looks for an active alert of the host ...
Notify(p) ==
  /\ prober[p].pc = "notify"
  /\ prober' = [prober EXCEPT ![p] = IF OutOfSync(@) THEN [@ EXCEPT !.pc = "sync"] ELSE Idle]
  /\ UNCHANGED <<engineVars, alerts, old, operator, configVars, rebuild>>

\* ... applies handleBeforeStateChange to the copy ...
SyncAlert(p) ==
  LET copy == prober[p]
      mark == AlertAfter(copy.status, alerts[copy.host]) IN
  /\ copy.pc = "sync"
  /\ alerts' = [alerts EXCEPT ![copy.host] = mark]
  /\ OldStaysOld
  /\ prober' = [prober EXCEPT ![p] = 
                   [pc |-> "publish", host |-> copy.host, status |-> copy.status, flag |-> mark]]
  /\ UNCHANGED <<engineVars, operator, configVars, rebuild>>

\* Engine.SetHostAlertState
SetHostAlertState(h, mark) ==
  flag' = IF status[h] = "ABSENT" THEN flag ELSE [flag EXCEPT ![h] = mark]

\* ... and writes the alert fields of the copy back to the engine.
PublishAlert(p) ==
  /\ prober[p].pc = "publish"
  /\ SetHostAlertState(prober[p].host, prober[p].flag)
  /\ prober' = [prober EXCEPT ![p] = Idle]
  /\ UNCHANGED <<status, fails, succs, busy, alerts, old, operator, configVars, rebuild>>

---------------------------------------------------------------------------
(* API: an operator acknowledges one alert, or all that still fire         *)

Acknowledge(o, hs) ==
  /\ Serving
  /\ operator[o] = {}
  /\ hs # {}
  /\ \/ \E h \in Hosts : hs = {h} /\ alerts[h] # "none"
     \/ hs = {h \in Hosts : alerts[h] = "firing"}
  /\ alerts' = [h \in Hosts |-> IF h \in hs THEN "acked" ELSE alerts[h]]
  /\ operator' = [operator EXCEPT ![o] = hs]
  /\ UNCHANGED <<engineVars, old, prober, configVars, rebuild>>

AcknowledgeHost(o, h) ==
  /\ h \in operator[o]
  /\ SetHostAlertState(h, "acked")
  /\ operator' = [operator EXCEPT ![o] = @ \ {h}]
  /\ UNCHANGED <<status, fails, succs, busy, alerts, old, prober, configVars, rebuild>>

---------------------------------------------------------------------------
(* Configuration changes and RebuildTargetList                             *)

\* A handler stores a change (enroll, un-enroll, exclude, ...) and then calls
\* RebuildTargetList, where it queues for rebuildMu.
ConfigureCoalesced(h, wish) ==  \* mutant: a running rebuild is taken to be enough
  /\ Serving
  /\ changes < MaxChanges
  /\ wanted[h] # wish
  /\ wanted' = [wanted EXCEPT ![h] = wish]
  /\ changes' = changes + 1
  /\ waiting' = IF rebuild.pc = "idle" THEN waiting + 1 ELSE waiting
  /\ UNCHANGED <<engineVars, alerts, old, prober, operator, rebuild>>

Configure(h, wish) ==
  /\ Serving
  /\ changes < MaxChanges
  /\ wanted[h] # wish
  /\ wanted' = [wanted EXCEPT ![h] = wish]
  /\ changes' = changes + 1
  /\ waiting' = waiting + 1
  /\ UNCHANGED <<engineVars, alerts, old, prober, operator, rebuild>>

RebuildStart ==
  /\ rebuild.pc = "idle"
  /\ waiting > 0
  /\ waiting' = waiting - 1
  /\ rebuild' = RebuildAt("read", wanted, FALSE)
  /\ old' = Raised
  /\ UNCHANGED <<engineVars, alerts, prober, operator, wanted, changes>>

RebuildSnapshot ==
  /\ rebuild.pc = "read"
  /\ rebuild' = [rebuild EXCEPT !.pc = "built", !.alerts = alerts]
  /\ UNCHANGED <<engineVars, alerts, old, prober, operator, configVars>>

\* alerts.ResolveIf for the hosts the configuration wants in state wish.
ResolveIfNow(wish) ==  \* mutant: goes by the newest configuration
  /\ alerts' = [h \in Hosts |-> IF wanted[h] = wish THEN "none" ELSE alerts[h]]
  /\ OldStaysOld

ResolveIf(wish) ==
  /\ alerts' = [h \in Hosts |-> IF rebuild.want[h] = wish THEN "none" ELSE alerts[h]]
  /\ OldStaysOld

RebuildResolveRemoved ==
  /\ rebuild.pc = "built"
  /\ ResolveIf("absent")
  /\ rebuild' = [rebuild EXCEPT !.pc = "removed"]
  /\ UNCHANGED <<engineVars, prober, operator, configVars>>

RebuildResolveExcluded ==
  /\ rebuild.pc = "removed"
  /\ ResolveIf("excluded")
  /\ rebuild' = [rebuild EXCEPT !.pc = "apply"]
  /\ UNCHANGED <<engineVars, prober, operator, configVars>>

\* The host as the rebuild builds it from the alerts it saw; SetTargets uses
\* it for a host the engine does not have yet. A restored alert means DOWN.
NewStatus(h) == IF rebuild.alerts[h] # "none" THEN "DOWN" ELSE "PENDING"

\* SetTargetsAndIntervals: a host the engine has keeps its state and its
\* alert fields, except that it enters or leaves the exclusion.
MergedStatus(h) ==
  CASE rebuild.want[h] = "absent"   -> "ABSENT"
    [] rebuild.want[h] = "excluded" -> "EXCLUDED"
    [] rebuild.want[h] = "monitored" /\ status[h] = "ABSENT"   -> NewStatus(h)
    [] rebuild.want[h] = "monitored" /\ status[h] = "EXCLUDED" -> "PENDING"
    [] OTHER -> status[h]

MergedFlagRefreshed(h) ==  \* mutant: every host takes the alert the rebuild saw
  IF rebuild.want[h] # "monitored" THEN "none" ELSE rebuild.alerts[h]

MergedFlag(h) ==
  CASE rebuild.want[h] # "monitored" -> "none"
    [] rebuild.want[h] = "monitored" /\ status[h] = "ABSENT" -> rebuild.alerts[h]
    [] OTHER -> flag[h]

MergedFails(h) ==
  CASE rebuild.want[h] = "absent" -> 0
    [] rebuild.want[h] = "monitored" /\ status[h] = "ABSENT" ->
         IF rebuild.alerts[h] # "none" THEN FailThreshold ELSE 0
    [] rebuild.want[h] = "monitored" /\ status[h] = "EXCLUDED" -> 0
    [] OTHER -> fails[h]

MergedSuccs(h) ==
  IF rebuild.want[h] = "absent" \/ (rebuild.want[h] = "monitored" /\ ~Monitored(h))
  THEN 0 ELSE succs[h]

RebuildApply ==
  /\ rebuild.pc = "apply"
  /\ status' = [h \in Hosts |-> MergedStatus(h)]
  /\ flag' = [h \in Hosts |-> MergedFlag(h)]
  /\ fails' = [h \in Hosts |-> MergedFails(h)]
  /\ succs' = [h \in Hosts |-> MergedSuccs(h)]
  /\ busy' = {h \in busy : rebuild.want[h] = "monitored"}
  /\ rebuild' = NoRebuild
  /\ UNCHANGED <<alerts, old, prober, operator, configVars>>

---------------------------------------------------------------------------
Probe(p) ==
  \/ DropResult(p)
  \/ \E reply \in BOOLEAN : ApplyResult(p, reply)

Callback(p) == Notify(p) \/ SyncAlert(p) \/ PublishAlert(p)

Rebuild ==
  \/ RebuildStart
  \/ RebuildSnapshot
  \/ RebuildResolveRemoved
  \/ RebuildResolveExcluded
  \/ RebuildApply

Next ==
  \/ \E w \in Workers, h \in Hosts : StartProbe(w, h)
  \/ \E p \in Pingers, h \in Hosts : StartPing(p, h)
  \/ \E p \in Probers : Probe(p) \/ Callback(p)
  \/ \E o \in Operators, hs \in SUBSET Hosts : Acknowledge(o, hs)
  \/ \E o \in Operators, h \in Hosts : AcknowledgeHost(o, h)
  \/ \E h \in Hosts, wish \in Wishes : Configure(h, wish)
  \/ Rebuild

Spec == Init /\ [][Next]_vars

\* Goroutines of the engine and of the handlers keep running; nothing obliges
\* an operator to act or a host to reply.
FairSpec == Spec /\ WF_vars(Rebuild)

---------------------------------------------------------------------------
(* What the system promises                                                *)

\* The rebuild has closed the alert of h, which it is about to take out.
Closing(h) ==
  \/ rebuild.pc = "apply" /\ rebuild.want[h] # "monitored"
  \/ rebuild.pc = "removed" /\ rebuild.want[h] = "absent"

\* No callback, acknowledgement or rebuild is under way or asked for.
Settled ==
  /\ \A p \in Probers : prober[p].pc \in {"idle", "probing"}
  /\ \A o \in Operators : operator[o] = {}
  /\ rebuild.pc = "idle" /\ waiting = 0

\* A host that answers has no active alert, whatever stale callbacks, manual
\* pings, rebuilds and acknowledgements run: every transition to UP resolves
\* the alert under the engine's lock and only a transition to DOWN starts one.
UpHasNoAlert == \A h \in Hosts : status[h] = "UP" => alerts[h] = "none"

\* A DOWN host has an active alert in every state, until the rebuild that takes
\* the host out of monitoring closes it (engine.go, handleBeforeStateChange).
DownHasAlert ==
  \A h \in Hosts : status[h] = "DOWN" => alerts[h] # "none" \/ Closing(h)

\* The alert fields the dashboard reads from the engine agree with the alert
\* manager for every probed host, across rebuilds that saw older alerts.
FlagMatchesAlert ==
  \A h \in Hosts : status[h] \in {"UP", "DOWN"} => flag[h] = alerts[h] \/ Closing(h)

\* An acknowledgement holds until the alert is resolved: no later failure,
\* rebuild or callback turns an acknowledged alert back into a firing one.
AckHolds ==
  [][\A h \in Hosts : alerts[h] = "acked" => alerts'[h] # "firing"]_vars

\* README, "Alerts": DINIS closes the alert of a host when it stops monitoring the
\* host.  No alert that was active when a rebuild began (server.go, RebuildTargetList)
\* is left when it ends, for any host that it has taken out or excluded.  What may be
\* left was started meanwhile, by a host that was still probed and is DOWN: the
\* next rebuild is bound to close that.
RebuildClosesAlerts ==
  [][rebuild.pc = "apply" /\ rebuild'.pc = "idle" =>
       \A h \in Hosts :
         status'[h] \in {"ABSENT", "EXCLUDED"} /\ alerts'[h] # "none"
           => h \notin old' /\ status[h] = "DOWN"]_vars

\* The last stored configuration is in force in the end, also when it changed
\* while a rebuild had already read an older one.
ConfigurationApplied ==
  \A h \in Hosts :
    <>[](/\ wanted[h] = "absent" <=> status[h] = "ABSENT"
         /\ wanted[h] = "excluded" <=> status[h] = "EXCLUDED")

\* README, "Alerts": DINIS starts an alert when a host goes DOWN and resolves it
\* when the host is UP again.  With nothing under way, a DOWN host has one.
OutageHasAlert ==
  Settled => \A h \in Hosts : status[h] = "DOWN" => alerts[h] # "none"

\* README, "Alerts": DINIS closes the alert of a host when it stops monitoring it.
UnmonitoredHasNoAlert ==
  Settled => \A h \in Hosts : status[h] \in {"ABSENT", "EXCLUDED"} => alerts[h] = "none"
=============================================================================
