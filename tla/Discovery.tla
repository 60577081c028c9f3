----------------------------- MODULE Discovery -----------------------------
(***************************************************************************)
(* Who runs discovery sweeps, and when (pkg/server, RequestDiscovery to    *)
(* discoveryLoop).  Requests that come while a sweep runs wait in a queue  *)
(* guarded by discMu; one goroutine at a time works it off and ends when   *)
(* it is empty.  An action is one critical section of discMu.              *)
(*                                                                         *)
(* Names that Enrollment has too are prefixed here, so that                *)
(* CoordinatorProofs can extend both.                                      *)
(***************************************************************************)
EXTENDS Integers, FiniteSets

CONSTANTS
  SweepCidrs,   \* CIDRs a sweep may be asked for
  Runners,      \* names for the goroutines of runQueuedDiscovery
  MaxSettings   \* bound: changes of the discovery interval

ASSUME DiscoveryAssumption == MaxSettings \in Nat

VARIABLES
  pending,     \* discPending
  pendingAll,  \* discPendingAll
  active,      \* discRunnerActive
  scanning,    \* discoveryStatus.IsScanning, what the dashboard shows
  lastFull,    \* lastFullSweep: never, less than an interval ago, or longer ago
  periodic,    \* the setting DiscoveryIntervalMin is more than 0
  runner,      \* runner[r]: how far the goroutine r is, and its sweep
  loop,        \* where discoveryLoop is
  stop,        \* stopChan, and the end of Coordinator.Stop's wait
  settings     \* changes of the interval so far

queue == <<pending, pendingAll>>
discVars == <<pending, pendingAll, active, scanning, lastFull, periodic, runner, loop, stop, settings>>
interval == <<periodic, settings>>

Working == {"take", "sweep", "finish", "abort"}
RunnerState == [pc : Working \cup {"gone", "leave"}, all : BOOLEAN, only : SUBSET SweepCidrs]
At(pc) == [pc |-> pc, all |-> FALSE, only |-> {}]
Due == lastFull \in {"never", "old"}

DiscoveryTypeOK ==
  /\ pending \in SUBSET SweepCidrs /\ pendingAll \in BOOLEAN
  /\ active \in BOOLEAN /\ scanning \in BOOLEAN
  /\ lastFull \in {"never", "recent", "old"} /\ periodic \in BOOLEAN
  /\ runner \in [Runners -> RunnerState]
  /\ \A r \in Runners : runner[r].all => runner[r].only = {}
  /\ loop \in {"wait", "tick", "ask", "exit"}
  /\ stop \in {"no", "closed", "done"}
  /\ settings \in 0 .. MaxSettings

DiscoveryInit ==
  /\ pending = {} /\ pendingAll = FALSE
  /\ active = FALSE /\ scanning = FALSE
  /\ lastFull = "never" /\ periodic \in BOOLEAN
  /\ runner = [r \in Runners |-> At("gone")]
  /\ loop = "wait"
  /\ stop = "no"
  /\ settings = 0

---------------------------------------------------------------------------
(* RequestDiscovery                                                        *)

StartRunner ==
  /\ active' = TRUE
  /\ IF active THEN runner' = runner
     ELSE \E r \in Runners :
            runner[r].pc = "gone" /\ runner' = [runner EXCEPT ![r] = At("take")]

\* A request for the CIDRs cs, or for all: refused once stopChan is closed.
Request(all, cs) ==
  IF stop # "no" THEN UNCHANGED <<queue, scanning, active, runner>>
  ELSE /\ pendingAll' = (pendingAll \/ all)
       /\ pending' = pending \cup cs
       /\ scanning' = TRUE
       /\ StartRunner

\* The API's handlers have returned when Coordinator.Stop is called.
ApiRequest(all, cs) ==
  /\ stop = "no"
  /\ all => cs = {}
  /\ ~all => \E c \in SweepCidrs : cs = {c}
  /\ Request(all, cs)
  /\ UNCHANGED <<lastFull, interval, loop, stop>>

\* applySettings: the interval is switched on or off, or has another length, by
\* which the last full sweep may now be due, or no longer be due.
SetInterval(on) ==
  /\ stop = "no"
  /\ settings < MaxSettings
  /\ settings' = settings + 1
  /\ periodic' = on
  /\ \/ lastFull' = lastFull
     \/ on /\ lastFull # "never" /\ lastFull' \in {"recent", "old"}
  /\ UNCHANGED <<queue, active, scanning, runner, loop, stop>>

---------------------------------------------------------------------------
(* runQueuedDiscovery and runSweep                                         *)

TakeOne(r) ==  \* mutant: one CIDR is taken and the queue is emptied
  /\ runner[r].pc = "take"
  /\ pending' = {} /\ pendingAll' = FALSE
  /\ IF pendingAll \/ pending # {}
     THEN /\ \E cs \in SUBSET pending :
               /\ Cardinality(cs) <= 1 /\ (pendingAll <=> cs = {})
               /\ runner' = [runner EXCEPT ![r] = [pc |-> "sweep", all |-> pendingAll, only |-> cs]]
          /\ UNCHANGED <<active, scanning>>
     ELSE /\ runner' = [runner EXCEPT ![r] = At("leave")]
          /\ active' = FALSE /\ scanning' = FALSE
  /\ UNCHANGED <<lastFull, interval, loop, stop>>

\* The runner takes the whole queue; a full sweep covers the listed CIDRs.
Take(r) ==
  /\ runner[r].pc = "take"
  /\ pending' = {} /\ pendingAll' = FALSE
  /\ IF pendingAll \/ pending # {}
     THEN /\ runner' = [runner EXCEPT ![r] =
                         [pc |-> "sweep", all |-> pendingAll,
                          only |-> IF pendingAll THEN {} ELSE pending]]
          /\ UNCHANGED <<active, scanning>>
     ELSE /\ runner' = [runner EXCEPT ![r] = At("leave")]
          /\ active' = FALSE /\ scanning' = FALSE
  /\ UNCHANGED <<lastFull, interval, loop, stop>>

\* A sweep ends; only one that sees stopChan closed is aborted.
SweepEnds(r, aborted) ==
  /\ runner[r].pc = "sweep"
  /\ aborted => stop # "no"
  /\ runner' = [runner EXCEPT ![r].pc = IF aborted THEN "abort" ELSE "finish"]
  /\ UNCHANGED <<queue, active, scanning, lastFull, interval, loop, stop>>

FinishIdle(r) ==  \* mutant: the runner ends without another look at the queue
  /\ runner[r].pc = "finish"
  /\ lastFull' = IF runner[r].all THEN "recent" ELSE lastFull
  /\ scanning' = FALSE /\ active' = FALSE
  /\ runner' = [runner EXCEPT ![r] = At("leave")]
  /\ UNCHANGED <<queue, interval, loop, stop>>

FinishCounted(r) ==  \* mutant: the sweep of a single CIDR counts as a full one
  /\ runner[r].pc = "finish"
  /\ lastFull' = "recent"
  /\ scanning' = (pendingAll \/ pending # {})
  /\ runner' = [runner EXCEPT ![r] = At("take")]
  /\ UNCHANGED <<queue, active, interval, loop, stop>>

Finish(r) ==
  /\ runner[r].pc = "finish"
  /\ lastFull' = IF runner[r].all THEN "recent" ELSE lastFull
  /\ scanning' = (pendingAll \/ pending # {})
  /\ runner' = [runner EXCEPT ![r] = At("take")]
  /\ UNCHANGED <<queue, active, interval, loop, stop>>

\* endDiscovery
Abort(r) ==
  /\ runner[r].pc = "abort"
  /\ pending' = {} /\ pendingAll' = FALSE
  /\ active' = FALSE /\ scanning' = FALSE
  /\ runner' = [runner EXCEPT ![r] = At("leave")]
  /\ UNCHANGED <<lastFull, interval, loop, stop>>

Leave(r) ==
  /\ runner[r].pc = "leave"
  /\ runner' = [runner EXCEPT ![r] = At("gone")]
  /\ UNCHANGED <<queue, active, scanning, lastFull, interval, loop, stop>>

Run(r) ==
  \/ Take(r) \/ Finish(r) \/ Abort(r) \/ Leave(r)
  \/ \E aborted \in BOOLEAN : SweepEnds(r, aborted)

---------------------------------------------------------------------------
(* discoveryLoop and Coordinator.Stop                                      *)

\* 5 seconds after the start; the setting AutoDiscovery decides.
LoopFirst ==
  /\ loop = "wait"
  /\ loop' = "tick"
  /\ Request(TRUE, {}) \/ UNCHANGED <<queue, scanning, active, runner>>
  /\ UNCHANGED <<lastFull, interval, stop>>

\* A tick finds the periodic sweep wanted and due, and no sweep running ...
LoopTick ==
  /\ loop = "tick"
  /\ periodic /\ Due /\ ~active
  /\ loop' = "ask"
  /\ UNCHANGED <<queue, active, scanning, lastFull, interval, runner, stop>>

\* ... and asks for it, although one may have started meanwhile.
LoopAsk ==
  /\ loop = "ask"
  /\ loop' = "tick"
  /\ Request(TRUE, {})
  /\ UNCHANGED <<lastFull, interval, stop>>

LoopExitEarly ==  \* mutant: the ticker loop does not watch stopChan
  /\ loop = "wait"
  /\ stop # "no"
  /\ loop' = "exit"
  /\ UNCHANGED <<queue, active, scanning, lastFull, interval, runner, stop>>

LoopExit ==
  /\ loop \in {"wait", "tick"}
  /\ stop # "no"
  /\ loop' = "exit"
  /\ UNCHANGED <<queue, active, scanning, lastFull, interval, runner, stop>>

\* discoveryIntervalMin minutes have passed since the last full sweep.
FallDue ==
  /\ periodic /\ lastFull = "recent"
  /\ lastFull' = "old"
  /\ UNCHANGED <<queue, active, scanning, interval, runner, loop, stop>>

Loop == LoopFirst \/ LoopTick \/ LoopAsk \/ LoopExit

CloseStop ==
  /\ stop = "no"
  /\ stop' = "closed"
  /\ UNCHANGED <<queue, active, scanning, lastFull, interval, runner, loop>>

\* wg.Wait returns
StopDone ==
  /\ stop = "closed"
  /\ loop = "exit" /\ \A r \in Runners : runner[r].pc = "gone"
  /\ stop' = "done"
  /\ UNCHANGED <<queue, active, scanning, lastFull, interval, runner, loop>>

DiscoveryNext ==
  \/ \E all \in BOOLEAN, cs \in SUBSET SweepCidrs : ApiRequest(all, cs)
  \/ \E on \in BOOLEAN : SetInterval(on)
  \/ \E r \in Runners : Run(r)
  \/ Loop
  \/ FallDue
  \/ CloseStop
  \/ StopDone

DiscoverySpec == DiscoveryInit /\ [][DiscoveryNext]_discVars

\* Goroutines run and sweeps end; nobody has to ask for a sweep or to stop.  The
\* closed stopChan is ready at once and at every later select of the loop, a tick
\* once a minute: the loop cannot pick the tick for ever.
FairSpec ==
  /\ DiscoverySpec
  /\ \A r \in Runners : WF_discVars(Run(r))
  /\ WF_discVars(Loop)
  /\ SF_discVars(LoopExit)
  /\ WF_discVars(StopDone)

---------------------------------------------------------------------------
(* What discovery promises                                                 *)

Asked == pendingAll \/ pending # {}
Workers == {r \in Runners : runner[r].pc \in Working}

\* A request in the queue has a runner that will look at the queue again, also
\* when it comes while the runner is about to go idle; and a runner is counted
\* as active exactly while it works, so that there is never a second one.
NoStrandedRequest ==
  /\ Asked => active
  /\ active <=> Workers # {}
  /\ \A q, r \in Workers : q = r

\* The dashboard shows a scan exactly while a sweep runs or waits to run.
ScanningShown ==
  scanning <=> Asked \/ \E r \in Runners : runner[r].pc \in {"sweep", "finish", "abort"}

\* README, "Discovery": a sweep asked for while another one runs starts when
\* that one is complete; only a shutdown drops it.
RequestServed ==
  \A c \in SweepCidrs :
    c \in pending ~> \/ \E r \in Runners : runner[r].pc = "sweep" /\ (runner[r].all \/ c \in runner[r].only)
                     \/ stop # "no"

\* From some time on, nobody asks for the sweep of a single CIDR.
SingleSweepsEnd ==
  <>[][\A c \in SweepCidrs : ~ApiRequest(FALSE, {c})]_discVars

\* README, "Settings": discoveryIntervalMin is the time between two full sweeps.  A
\* full sweep that is due comes, and the sweeps of single CIDRs that end before it do
\* not stand in for it (server.go, discoveryLoop); only another interval or a shutdown
\* cancels it.  Requests that keep the runner busy at every tick can put it off for as
\* long as they go on, so it is promised if these end.
FullSweepHappens ==
  SingleSweepsEnd =>
    \A n \in 0 .. MaxSettings :
      periodic /\ Due /\ settings = n
        ~> \/ \E r \in Runners : runner[r].pc = "finish" /\ runner[r].all
           \/ settings # n \/ stop # "no"

\* Coordinator.Stop gets past its wait for the sweeps.
DiscoveryStops == stop = "closed" ~> stop = "done"
=============================================================================
