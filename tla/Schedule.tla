------------------------------ MODULE Schedule ------------------------------
(***************************************************************************)
(* The probe scheduler of the engine (pkg/pinger/schedule.go, engine.go):  *)
(* one dispatcher hands due probes to a pool of workers over an unbuffered *)
(* channel.  Engine.mu guards the schedule; the dispatcher sleeps with no  *)
(* lock held and is woken by a timer or by the one-slot channel schedWake. *)
(*                                                                         *)
(* Time is counted in ticks.  The slot of a host repeats, so the clock     *)
(* runs modulo Cycle; a due time is kept as the ticks that are left (below *)
(* zero: overdue).  Steps of the program take no time, probes do.          *)
(***************************************************************************)
EXTENDS FiniteSets, Slots

CONSTANTS
  Hosts,          \* the addresses that may be monitored
  Workers,        \* names for the goroutines of the worker pool
  Phase,          \* Phase[h] / PhaseDen: the fixed phase of h (ipPhase)
  PhaseDen,
  Intervals,      \* probe intervals the configuration may give a host
  DownInterval,   \* DownProbeInterval of the settings
  ConfirmDelay,   \* ConfirmDelay of the settings, 0 when switched off
  Spread,         \* newHostSpread
  Timeout,        \* the longest a probe takes
  Cycle,          \* bound: the clock runs modulo Cycle
  MaxLate,        \* bound: an overdue probe is at most this late
  MaxChanges,     \* bound: configuration changes in one behaviour
  MayPing,        \* manual pings change the state of a host
  MayStop,        \* Engine.Stop is called at some time
  NoHost          \* the job of an idle worker

ASSUME ScheduleAssumption ==
  /\ Workers # {} /\ IsFiniteSet(Workers)
  /\ PhaseDen \in Nat \ {0} /\ Phase \in [Hosts -> 0 .. PhaseDen - 1]
  /\ Intervals \subseteq Nat \ {0} /\ Intervals # {}
  /\ DownInterval \in Nat /\ ConfirmDelay \in Nat /\ Spread \in Nat
  /\ Timeout \in Nat /\ MaxLate \in Nat /\ MaxChanges \in Nat
  /\ MayPing \in BOOLEAN /\ MayStop \in BOOLEAN
  /\ Cycle \in Nat \ {0}
  /\ \A iv \in (Intervals \cup {DownInterval}) \ {0} : Cycle % iv = 0
  /\ NoHost \notin Hosts

VARIABLES
  clock,            \* Engine.mono, modulo Cycle
  target,           \* hosts the engine monitors, excluded ones left out
  base,             \* base[h]: effectiveIntervalUnsafe of h
  health,           \* health[h]: what the last results say about h
  entry,            \* entry[h]: the schedEntry of h
  dispatcher,       \* where dispatchLoop is
  token,            \* schedWake holds its token
  worker,           \* worker[w]: the goroutine w and its job
  pool,             \* workers of Engine.workerStops
  suspectInFlight,  \* Engine.suspectInFlight
  inFlight,         \* Engine.inFlight
  engine,           \* Engine.Start and Engine.Stop
  changes           \* configuration changes so far

vars == <<clock, target, base, health, entry, dispatcher, token, worker, pool,
          suspectInFlight, inFlight, engine, changes>>

hostVars == <<target, base, health>>
slotVars == <<suspectInFlight, inFlight>>

\* ok: the last probe was answered; failing: lost, but not DOWN yet; down: DOWN
\* and lost; outage: so for at least DownInterval.
Healths == {"ok", "failing", "down", "outage"}

Horizon == 2 * Cycle
Hour == -1  \* a negative wait: nothing to wait for, the timer runs an hour

NoEntry == [on |-> FALSE, iv |-> 0, due |-> 0, age |-> 0,
            probed |-> FALSE, suspect |-> FALSE, inFlight |-> FALSE]

NoJob == [host |-> NoHost, suspect |-> FALSE]
Jobs == [host : Hosts, suspect : BOOLEAN] \cup {NoJob}

TypeOK ==
  /\ clock \in 0 .. Cycle - 1
  /\ target \in SUBSET Hosts
  /\ base \in [Hosts -> Intervals]
  /\ health \in [Hosts -> Healths]
  /\ entry \in [Hosts -> [on : BOOLEAN, iv : Intervals \cup {0, DownInterval},
                          due : -MaxLate .. Horizon, age : 0 .. Cycle,
                          probed : BOOLEAN, suspect : BOOLEAN, inFlight : BOOLEAN]]
  /\ dispatcher \in [pc : {"look", "offer", "sleep", "done"}, job : Jobs, timer : Hour .. Horizon]
  /\ token \in BOOLEAN
  /\ worker \in [Workers -> [pc : {"gone", "idle", "busy"}, job : Jobs, left : 0 .. Timeout]]
  /\ pool \in SUBSET Workers
  /\ suspectInFlight \in 0 .. Cardinality(Workers) + 1
  /\ inFlight \in 0 .. Cardinality(Workers) + 1
  /\ engine \in {"running", "stopping", "closed", "stopped"}
  /\ changes \in 0 .. MaxChanges

---------------------------------------------------------------------------
(* The schedule of one host                                                *)

AtLeast(n, bound) == IF n > bound THEN n ELSE bound
AtMost(n, bound) == IF n < bound THEN n ELSE bound

\* Ticks until the first slot of h, in interval iv, more than `after` from now.
SlotIn(h, iv, after) ==
  NextSlot(Offset(Phase[h], PhaseDen, iv), iv, clock + after) - clock

\* probeIntervalUnsafe
ProbeInterval(normal, hl) ==
  IF hl = "outage" /\ DownInterval > normal THEN DownInterval ELSE normal

IsSuspect(hl) == hl # "ok"

\* schedAddUnsafe. At Start the first probe falls on the host's slot in one
\* interval, later within newHostSpread.
Added(h, normal, hl, due) ==
  [on |-> TRUE, iv |-> ProbeInterval(normal, hl), due |-> due, age |-> 0,
   probed |-> FALSE, suspect |-> IsSuspect(hl), inFlight |-> FALSE]

FirstSoon(h, normal) == (Phase[h] * AtMost(normal, Spread)) \div PhaseDen

\* schedRescheduleUnsafe, for a queued entry
Moved(h, iv, due) ==
  LET ent == entry[h] IN
  [on |-> ent.on, iv |-> iv, due |-> due, age |-> ent.age,
   probed |-> ent.probed, suspect |-> ent.suspect, inFlight |-> ent.inFlight]

RescheduledFromNow(h, iv) ==  \* mutant: the last probe does not count
  Moved(h, iv, IF entry[h].probed THEN SlotIn(h, iv, 0)
               ELSE AtMost(entry[h].due, SlotIn(h, iv, 0)))

Rescheduled(h, iv) ==
  Moved(h, iv, IF entry[h].probed
               THEN SlotIn(h, iv, AtLeast((iv \div 2) - entry[h].age, 0))
               ELSE AtMost(entry[h].due, SlotIn(h, iv, 0)))

\* schedDoneUnsafe: the next probe of h after one that left it in health hl.
NextDue(h, iv, hl) ==
  IF hl = "failing" /\ 0 < ConfirmDelay /\ ConfirmDelay < iv
  THEN ConfirmDelay ELSE SlotIn(h, iv, iv \div 2)

Requeued(h, hl) ==
  LET iv == ProbeInterval(base[h], hl) IN
  [on |-> entry[h].on, iv |-> iv, due |-> NextDue(h, iv, hl), age |-> entry[h].age,
   probed |-> entry[h].probed, suspect |-> IsSuspect(hl), inFlight |-> FALSE]

---------------------------------------------------------------------------
(* The queues and the dispatcher                                           *)

Queued(h) == entry[h].on /\ ~entry[h].inFlight
Queue(suspect) == {h \in Hosts : Queued(h) /\ entry[h].suspect = suspect}

\* The root of a heap; entries due at the same time come in any order.
First(queue) == {h \in queue : \A g \in queue : entry[h].due <= entry[g].due}
Due(queue) == {h \in First(queue) : entry[h].due <= 0}

SlotFree == suspectInFlight < SuspectCap(Cardinality(pool))

\* startJobUnsafe
Taken(h) ==
  [on |-> entry[h].on, iv |-> entry[h].iv, due |-> 0, age |-> 0,
   probed |-> TRUE, suspect |-> entry[h].suspect, inFlight |-> TRUE]

\* nextJobUnsafe: hosts that answer come first, failing
\* hosts only while a suspect slot is free.
TakeJob(h) ==
  /\ dispatcher.pc = "look"
  /\ \/ h \in Due(Queue(FALSE))
     \/ Due(Queue(FALSE)) = {} /\ SlotFree /\ h \in Due(Queue(TRUE))
  /\ entry' = [entry EXCEPT ![h] = Taken(h)]
  /\ inFlight' = inFlight + 1
  /\ suspectInFlight' = IF entry[h].suspect THEN suspectInFlight + 1 ELSE suspectInFlight
  /\ dispatcher' = [pc |-> "offer", job |-> [host |-> h, suspect |-> entry[h].suspect],
                    timer |-> 0]
  /\ UNCHANGED <<clock, hostVars, token, worker, pool, engine, changes>>

NothingDue == Due(Queue(FALSE)) = {} /\ (SlotFree => Due(Queue(TRUE)) = {})

Waits == {entry[h].due : h \in Queue(FALSE) \cup (IF SlotFree THEN Queue(TRUE) ELSE {})}

\* The dispatcher sets its timer for the next probe it could hand out.
Sleep ==
  /\ dispatcher.pc = "look"
  /\ NothingDue
  /\ \E t \in Waits \cup {Hour} :
       /\ IF t = Hour THEN Waits = {} ELSE \A s \in Waits : t <= s
       /\ dispatcher' = [pc |-> "sleep", job |-> NoJob, timer |-> t]
  /\ UNCHANGED <<clock, hostVars, entry, token, worker, pool, slotVars, engine, changes>>

Wake ==
  /\ dispatcher.pc = "sleep"
  /\ \/ token /\ token' = FALSE
     \/ dispatcher.timer = 0 /\ token' = token
  /\ dispatcher' = [pc |-> "look", job |-> NoJob, timer |-> 0]
  /\ UNCHANGED <<clock, hostVars, entry, worker, pool, slotVars, engine, changes>>

\* The unbuffered send meets an idle worker, also one that was told to stop:
\* Go's select takes either ready case.
Hand(w) ==
  /\ dispatcher.pc = "offer"
  /\ worker[w].pc = "idle"
  /\ worker' = [worker EXCEPT ![w] = [pc |-> "busy", job |-> dispatcher.job, left |-> Timeout]]
  /\ dispatcher' = [pc |-> "look", job |-> NoJob, timer |-> 0]
  /\ UNCHANGED <<clock, hostVars, entry, token, pool, slotVars, engine, changes>>

---------------------------------------------------------------------------
(* Workers: probeAndApply after the probe returned                         *)

\* A freed suspect slot and a new first entry of a queue wake the dispatcher.
SignalForgotten(job, h, next) ==  \* mutant: a freed slot does not wake it
  next.on /\ \A g \in Queue(next.suspect) : next.due < entry[g].due

Signal(job, h, next) ==
  \/ job.suspect
  \/ next.on /\ \A g \in Queue(next.suspect) : next.due < entry[g].due

\* The suspect slot of a job is given back whatever became of its host.
Release(job) ==
  suspectInFlight' = IF job.suspect THEN suspectInFlight - 1 ELSE suspectInFlight

\* schedDoneUnsafe: the entry may have been removed, and added again, while the
\* probe ran; then it is left alone unless a newer probe of it is in flight.
DoneUnlessError(h, hl) ==  \* mutant: not called after a local error
  IF hl = health[h] THEN entry[h] ELSE IF h \in target THEN Requeued(h, hl) ELSE NoEntry

Done(h, hl) ==
  IF h \in target THEN Requeued(h, hl) ELSE NoEntry

Finish(w, hl) ==
  LET job == worker[w].job
      h == job.host
      aborted == engine # "running" /\ IsSuspect(hl)
      ends == entry[h].on /\ entry[h].inFlight /\ ~aborted IN
  /\ worker[w].pc = "busy"
  /\ inFlight' = inFlight - 1
  /\ Release(job)
  /\ health' = IF h \in target /\ ~aborted THEN [health EXCEPT ![h] = hl] ELSE health
  /\ IF ends
     THEN /\ entry' = [entry EXCEPT ![h] = Done(h, hl)]
          /\ token' = (token \/ Signal(job, h, Done(h, hl)))
     ELSE /\ entry' = entry
          /\ token' = (token \/ Signal(job, h, NoEntry))
  /\ worker' = [worker EXCEPT ![w] = [pc |-> "idle", job |-> NoJob, left |-> 0]]
  /\ UNCHANGED <<clock, target, base, dispatcher, pool, engine, changes>>

WorkerExit(w) ==
  /\ worker[w].pc = "idle"
  /\ w \notin pool \/ engine # "running"
  /\ worker' = [worker EXCEPT ![w].pc = "gone"]
  /\ UNCHANGED <<clock, hostVars, entry, dispatcher, token, pool, slotVars, engine, changes>>

---------------------------------------------------------------------------
(* Configuration changes                                                   *)

\* schedSyncUnsafe for the new targets t with intervals b and health hl.
SyncLater(h, t, b, hl) ==  \* mutant: a queued probe keeps its old interval
  IF h \notin t THEN NoEntry
  ELSE IF ~entry[h].on THEN Added(h, b[h], hl[h], FirstSoon(h, b[h]))
  ELSE entry[h]

Sync(h, t, b, hl) ==
  LET iv == ProbeInterval(b[h], hl[h]) IN
  IF h \notin t THEN NoEntry
  ELSE IF ~entry[h].on THEN Added(h, b[h], hl[h], FirstSoon(h, b[h]))
  ELSE IF Queued(h) /\ iv # entry[h].iv THEN Rescheduled(h, iv)
  ELSE entry[h]

\* A stopped engine has no context: nothing is scheduled any more.
SyncAll(t, b, hl) ==
  entry' = IF engine = "stopped" THEN entry ELSE [h \in Hosts |-> Sync(h, t, b, hl)]

\* RebuildTargetList: SetTargetsAndIntervals and then Wake. A host that is new
\* to the engine is PENDING, or DOWN when its alert was still active.
SetTargets(t, b, restored) ==
  /\ changes < MaxChanges
  /\ restored \subseteq t \ target
  /\ target' = t
  /\ base' = b
  /\ health' = [h \in Hosts |-> IF h \in restored THEN "outage"
                                 ELSE IF h \in target THEN health[h] ELSE "ok"]
  /\ SyncAll(t, b, health')
  /\ token' = TRUE
  /\ changes' = changes + 1
  /\ UNCHANGED <<clock, dispatcher, worker, pool, slotVars, engine>>

\* resizeWorkersUnsafe: new goroutines start, surplus ones are told to stop.
Resize(n) ==
  IF engine = "stopped" THEN UNCHANGED <<pool, worker>>
  ELSE \E p \in SUBSET Workers :
         /\ Cardinality(p) = n
         /\ p \subseteq pool \/ (pool \subseteq p /\ \A w \in p \ pool : worker[w].pc = "gone")
         /\ pool' = p
         /\ worker' = [w \in Workers |-> IF w \in p \ pool THEN [worker[w] EXCEPT !.pc = "idle"]
                                          ELSE worker[w]]

\* UpdateConfig: the size of the pool and the intervals; it wakes the dispatcher.
UpdateConfig(n, b) ==
  /\ changes < MaxChanges
  /\ Resize(n)
  /\ base' = b
  /\ SyncAll(target, b, health)
  /\ token' = TRUE
  /\ changes' = changes + 1
  /\ UNCHANGED <<clock, target, health, dispatcher, slotVars, engine>>

\* What else changes the health of a host: a manual ping (PingSingle).
Ping(h, hl) ==
  /\ MayPing
  /\ h \in target
  /\ health[h] # hl
  /\ health' = [health EXCEPT ![h] = hl]
  /\ UNCHANGED <<clock, target, base, entry, dispatcher, token, worker, pool, slotVars,
                 engine, changes>>

---------------------------------------------------------------------------
(* Engine.Stop                                                             *)

StopRequested ==
  /\ MayStop
  /\ engine = "running"
  /\ engine' = "stopping"
  /\ UNCHANGED <<clock, hostVars, entry, dispatcher, token, worker, pool, slotVars, changes>>

\* The dispatcher sees the cancelled context where it waits.
DispatcherExitAsleep ==  \* mutant: a pending send does not watch the context
  /\ engine # "running"
  /\ dispatcher.pc = "sleep"
  /\ dispatcher' = [pc |-> "done", job |-> NoJob, timer |-> 0]
  /\ UNCHANGED <<clock, hostVars, entry, token, worker, pool, slotVars, engine, changes>>

DispatcherExit ==
  /\ engine # "running"
  /\ dispatcher.pc \in {"offer", "sleep"}
  /\ dispatcher' = [pc |-> "done", job |-> NoJob, timer |-> 0]
  /\ UNCHANGED <<clock, hostVars, entry, token, worker, pool, slotVars, engine, changes>>

\* After dispatchWg.Wait the work channel is closed ...
CloseWorkChan ==
  /\ engine = "stopping"
  /\ dispatcher.pc = "done"
  /\ engine' = "closed"
  /\ UNCHANGED <<clock, hostVars, entry, dispatcher, token, worker, pool, slotVars, changes>>

\* ... and after workerWg.Wait the schedule is cleared.
Stopped ==
  /\ engine = "closed"
  /\ \A w \in Workers : worker[w].pc = "gone"
  /\ engine' = "stopped"
  /\ entry' = [h \in Hosts |-> NoEntry]
  /\ pool' = {}
  /\ suspectInFlight' = 0
  /\ inFlight' = 0
  /\ UNCHANGED <<clock, hostVars, dispatcher, token, worker, changes>>

---------------------------------------------------------------------------
\* Time passes when no goroutine can take a step and no probe has to end.
Urgent ==
  \/ dispatcher.pc = "look"
  \/ dispatcher.pc = "sleep" /\ (token \/ dispatcher.timer = 0)
  \/ dispatcher.pc = "offer" /\ \E w \in Workers : worker[w].pc = "idle"
  \/ \E w \in Workers : worker[w].pc = "busy" /\ worker[w].left = 0

Aged(ent) ==
  [on |-> ent.on, iv |-> ent.iv,
   due |-> IF ent.on /\ ~ent.inFlight THEN AtLeast(ent.due - 1, -MaxLate) ELSE ent.due,
   age |-> IF ent.on /\ ent.probed THEN AtMost(ent.age + 1, Cycle) ELSE 0,
   probed |-> ent.probed, suspect |-> ent.suspect, inFlight |-> ent.inFlight]

Tick ==
  /\ engine = "running"
  /\ ~Urgent
  /\ clock' = (clock + 1) % Cycle
  /\ entry' = [h \in Hosts |-> Aged(entry[h])]
  /\ worker' = [w \in Workers |-> IF worker[w].pc = "busy"
                                   THEN [worker[w] EXCEPT !.left = @ - 1] ELSE worker[w]]
  /\ dispatcher' = IF dispatcher.pc = "sleep" /\ dispatcher.timer # Hour
                   THEN [dispatcher EXCEPT !.timer = @ - 1] ELSE dispatcher
  /\ UNCHANGED <<hostVars, token, pool, slotVars, engine, changes>>

\* Engine.Start: hosts restored DOWN with their alert are suspect at once.
Init ==
  /\ clock \in 0 .. Cycle - 1
  /\ target \in SUBSET Hosts
  /\ base \in [Hosts -> Intervals]
  /\ \E restored \in SUBSET target :
       health = [h \in Hosts |-> IF h \in restored THEN "outage" ELSE "ok"]
  /\ entry = [h \in Hosts |-> IF h \in target
                              THEN Added(h, base[h], health[h], SlotIn(h, base[h], 0))
                              ELSE NoEntry]
  /\ dispatcher = [pc |-> "look", job |-> NoJob, timer |-> 0]
  /\ token \in BOOLEAN
  /\ pool \in SUBSET Workers \ {{}}
  /\ worker = [w \in Workers |-> [pc |-> IF w \in pool THEN "idle" ELSE "gone",
                                  job |-> NoJob, left |-> 0]]
  /\ suspectInFlight = 0
  /\ inFlight = 0
  /\ engine = "running"
  /\ changes = 0

Dispatch ==
  \/ \E h \in Hosts : TakeJob(h)
  \/ Sleep
  \/ Wake
  \/ \E w \in Workers : Hand(w)
  \/ DispatcherExit

Work(w) == (\E hl \in Healths : Finish(w, hl)) \/ WorkerExit(w)

Configure ==
  \/ \E t \in SUBSET Hosts, b \in [Hosts -> Intervals], r \in SUBSET Hosts : SetTargets(t, b, r)
  \/ \E n \in 1 .. Cardinality(Workers), b \in [Hosts -> Intervals] : UpdateConfig(n, b)

Next ==
  \/ Dispatch
  \/ \E w \in Workers : Work(w)
  \/ Configure
  \/ \E h \in Hosts, hl \in Healths : Ping(h, hl)
  \/ StopRequested
  \/ CloseWorkChan
  \/ Stopped
  \/ Tick

Spec == Init /\ [][Next]_vars

\* Goroutines run, a probe ends within its timeout, and time passes.
FairSpec ==
  /\ Spec
  /\ WF_vars(Dispatch)
  /\ \A w \in Workers : WF_vars(Work(w))
  /\ WF_vars(CloseWorkChan) /\ WF_vars(Stopped)
  /\ WF_vars(Tick)

---------------------------------------------------------------------------
(* What the scheduler promises                                             *)

Busy(h) == {w \in Workers : worker[w].pc = "busy" /\ worker[w].job.host = h}
Offered(h) == dispatcher.pc = "offer" /\ dispatcher.job.host = h

\* No monitored host drops out of the rotation: it has an entry, and an entry
\* marked in flight has a probe on its way that will queue it again, also after
\* the host was removed and added while an older probe ran.
NoHostForgotten ==
  engine = "running" =>
    \A h \in Hosts :
      /\ entry[h].on <=> h \in target
      /\ entry[h].on /\ entry[h].inFlight => Offered(h) \/ Busy(h) # {}

\* A sleeping dispatcher without a pending wake-up has a timer that is not
\* later than any probe it could hand out.
NoLostWakeup ==
  dispatcher.pc = "sleep" /\ ~token =>
    \A t \in Waits : dispatcher.timer # Hour /\ dispatcher.timer <= t

\* The workers that probe failing hosts.
SuspectProbes == {w \in Workers : worker[w].pc = "busy" /\ worker[w].job.suspect}

\* A large outage does not delay the probes of the hosts that answer: a probe of a
\* failing host starts only when a quarter of the workers, and one at least, stay
\* free of such probes (schedule.go, suspectCapUnsafe), as long as the engine runs
\* and has two workers, whatever the resizing of the pool and lost hosts do.
AnsweringHostsOnTime ==
  [][\A h \in Hosts :
       /\ engine = "running" /\ Cardinality(pool) > 1
       /\ Queued(h) /\ entry[h].suspect /\ entry'[h].on /\ entry'[h].inFlight
       => Cardinality(SuspectProbes) + 1 + AtLeast(Cardinality(pool) \div 4, 1)
            <= Cardinality(pool)]_vars

\* A host that answers is probed in its own slot of the interval in force, also
\* after late probes and changes of the interval (README, "Probes").
SlotsKept ==
  \A h \in Queue(FALSE) :
    entry[h].probed /\ entry[h].due > -MaxLate =>
      /\ (clock + entry[h].due - Offset(Phase[h], PhaseDen, entry[h].iv)) % entry[h].iv = 0
      /\ entry[h].iv \in {base[h], DownInterval}

\* A change of the interval takes effect at once but causes no burst: two
\* probes of a host are half an interval, or the confirm delay, apart.
NoBurst ==
  [][\A h \in Hosts :
       Queued(h) /\ entry[h].probed /\ entry'[h].on /\ entry'[h].inFlight =>
         entry[h].age >= IF entry[h].suspect /\ ConfirmDelay > 0
                         THEN AtMost(ConfirmDelay, entry[h].iv \div 2) ELSE entry[h].iv \div 2]_vars

\* No monitored host is forgotten: it is probed again and again.
HostsKeepBeingProbed ==
  \A h \in Hosts : []<>(h \notin target \/ engine # "running" \/ Offered(h))

\* Engine.Stop returns, whatever the dispatcher and the workers were doing.
StopCompletes == engine = "stopping" ~> engine = "stopped"
=============================================================================
