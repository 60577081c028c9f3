----------------------------- MODULE AlertBook -----------------------------
(***************************************************************************)
(* The alert manager's alerts and history (pkg/alerts) and how they get to *)
(* the alert state file and back (pkg/server saveAlertState, pkg/store).   *)
(* Whoever calls the manager may do so at any time while the process runs; *)
(* module Monitor has the callers.  The saver takes four steps, each       *)
(* atomic by a lock or by the rename of the file.                          *)
(***************************************************************************)
EXTENDS Integers, Sequences, SequencesExt, FiniteSetsExt

CONSTANTS
  Hosts,
  MaxHistory,  \* maxHistory, 500 in the code
  MaxPerHost,  \* maxPerHost, 20 in the code
  MaxChanges,  \* bound: changes of the alerts in one behaviour
  MaxFailures, \* bound: saves that fail, and starts that cannot read the file
  MaxStarts,   \* bound: starts of the process
  OldHistories, \* the hosts of the alerts in the file when the process starts first
  NoAlert, NoFile

ASSUME AlertBookAssumption ==
  /\ IsFiniteSet(Hosts)
  /\ MaxHistory \in Nat \ {0} /\ MaxPerHost \in 1 .. MaxHistory
  /\ \A hosts \in OldHistories :
       /\ hosts \in Seq(Hosts) /\ Len(hosts) <= MaxHistory
       /\ \A h \in Hosts : Cardinality({i \in DOMAIN hosts : hosts[i] = h}) <= MaxPerHost
  /\ NoAlert \notin [n : Nat, text : BOOLEAN, acked : BOOLEAN]
  /\ MaxChanges \in Nat /\ MaxFailures \in Nat /\ MaxStarts \in Nat

VARIABLES
  phase,   \* of the process, see Phases
  active,  \* activeAlerts: an alert or NoAlert for each host
  history, \* resolved alerts, oldest first
  version, \* counts the changes
  saved,   \* alertsSavedVersion
  saver,   \* the saveAlertState that runs, if one does
  file,    \* the alert state file
  changes, failures, starts  \* against the bounds

book == <<active, history, version, changes>>
vars == <<phase, active, history, version, saved, saver, file, changes, failures, starts>>

\* Stop: the loop ends ("closing"), the engine stops ("draining"), the last save.
Up == {"run", "closing", "draining"}
Phases == Up \cup {"final", "stopped", "unsaved", "crashed"}

\* An alert: its number (ID and start), its text (alias, CIDR, last error) and state;
\* a history entry is known by its host and number.
Numbers == 1 .. MaxHistory + MaxChanges
Alerts == [n : Numbers, text : BOOLEAN, acked : BOOLEAN]
Entries == [host : Hosts, n : Numbers]
NoAlerts == [h \in Hosts |-> NoAlert]
State == [active |-> active, history |-> history]  \* ExportState
Raised == {h \in Hosts : active[h] # NoAlert}
Idle == [pc |-> "idle"]

\* Where the entries of host h are in a history.
Own(hist, h) == {i \in DOMAIN hist : hist[i].host = h}

InLimits(hist) ==
  /\ Len(hist) <= MaxHistory
  /\ \A h \in Hosts : Cardinality(Own(hist, h)) <= MaxPerHost

IsState(s) ==
  /\ s \in [active : [Hosts -> Alerts \cup {NoAlert}], history : Seq(Entries)]
  /\ InLimits(s.history)

TypeOK ==
  /\ phase \in Phases
  /\ IsState(State)
  /\ file = NoFile \/ IsState(file)
  /\ saver.pc \in {"idle", "export", "write", "done"}
  /\ version \in 0 .. MaxChanges + 1 /\ saved \in 0 .. version
  /\ changes \in 0 .. MaxChanges /\ failures \in 0 .. MaxFailures /\ starts \in 0 .. MaxStarts

OldFile(hosts) ==
  [active |-> NoAlerts, history |-> [i \in DOMAIN hosts |-> [host |-> hosts[i], n |-> i]]]

\* The process is about to start, the first time or with a file.
Init ==
  /\ phase = "stopped"
  /\ file \in {NoFile} \cup {OldFile(hosts) : hosts \in OldHistories}
  /\ active = NoAlerts /\ version = 0 /\ saved = 0
  /\ history = IF file = NoFile THEN <<>> ELSE file.history
  /\ saver = Idle
  /\ changes = 0 /\ failures = 0 /\ starts = 0

---------------------------------------------------------------------------
(* The alert manager                                                       *)

\* pushHistory
PushOverallFirst(hist, e) ==  \* mutant: the overall limit first
  LET room == IF Len(hist) >= MaxHistory THEN Tail(hist) ELSE hist
      own == Own(room, e.host)
  IN Append(IF Cardinality(own) >= MaxPerHost THEN RemoveAt(room, Min(own)) ELSE room, e)

Push(hist, e) ==
  LET own == Own(hist, e.host)
      rest == IF Cardinality(own) >= MaxPerHost THEN RemoveAt(hist, Min(own)) ELSE hist
  IN Append(IF Len(rest) >= MaxHistory THEN Tail(rest) ELSE rest, e)

\* One entry after the other.
PushAll(hist, entries) ==
  LET pushed[i \in 0 .. Len(entries)] ==
        IF i = 0 THEN hist ELSE Push(pushed[i - 1], entries[i])
  IN pushed[Len(entries)]

Change ==
  /\ phase \in Up
  /\ changes < MaxChanges
  /\ changes' = changes + 1
  /\ version' = version + 1
  /\ UNCHANGED <<phase, saved, saver, file, failures, starts>>

\* Trigger: a new alert, or new text for the one there is.
Trigger(h, text) ==
  /\ Change
  /\ active' = [active EXCEPT ![h] =
       IF @ = NoAlert THEN [n |-> MaxHistory + changes + 1, text |-> text, acked |-> FALSE]
       ELSE [n |-> @.n, text |-> text, acked |-> @.acked]]
  /\ UNCHANGED history

\* UpdateAlertMetadata: only a change of the text counts as one.
Metadata(h, text) ==
  /\ Change
  /\ active[h] # NoAlert /\ active[h].text # text
  /\ active' = [active EXCEPT ![h] = [n |-> @.n, text |-> text, acked |-> @.acked]]
  /\ UNCHANGED history

\* Acknowledge (also again), by host or ID; the API is gone once Stop runs.
Acknowledge(h) ==
  /\ phase = "run"
  /\ Change
  /\ active[h] # NoAlert
  /\ active' = [active EXCEPT ![h] = [n |-> @.n, text |-> @.text, acked |-> TRUE]]
  /\ UNCHANGED history

AcknowledgeAll ==
  /\ phase = "run"
  /\ Change
  /\ \E h \in Raised : ~active[h].acked
  /\ active' = [h \in Hosts |-> IF h \in Raised
                                THEN [n |-> active[h].n, text |-> active[h].text, acked |-> TRUE]
                                ELSE NoAlert]
  /\ UNCHANGED history

\* Resolve and ResolveIf move alerts to the history, in the order of a Go map.
Resolve(hs) ==
  /\ Change
  /\ hs # {} /\ hs \subseteq Raised
  /\ active' = [h \in Hosts |-> IF h \in hs THEN NoAlert ELSE active[h]]
  /\ \E order \in SetToSeqs(hs) :
       LET entries == [i \in DOMAIN order |-> [host |-> order[i], n |-> active[order[i]].n]]
       IN history' = PushAll(history, entries)

---------------------------------------------------------------------------
(* saveAlertState: by alertPersistLoop while the process runs, and at last *)
(* by Stop, when nothing else runs                                         *)

SaveStart ==
  /\ phase \in {"run", "closing", "final"}
  /\ saver.pc = "idle"
  /\ version # saved
  /\ saver' = [pc |-> "export", v |-> version]
  /\ UNCHANGED <<phase, book, saved, file, failures, starts>>

SaveExport ==
  /\ saver.pc = "export"
  /\ saver' = [pc |-> "write", v |-> saver.v, state |-> State]
  /\ UNCHANGED <<phase, book, saved, file, failures, starts>>

SaveWriteOnce ==  \* mutant: alertPersistLoop ends with a save that fails
  /\ saver.pc = "write"
  /\ \/ /\ file' = saver.state
        /\ saver' = [pc |-> "done", v |-> saver.v]
        /\ UNCHANGED <<phase, failures>>
     \/ /\ failures < MaxFailures
        /\ failures' = failures + 1
        /\ saver' = [pc |-> "ended"]
        /\ UNCHANGED <<phase, file>>
  /\ UNCHANGED <<book, saved, starts>>

\* writeFileAtomic; a save that fails leaves the old file.
SaveWrite ==
  /\ saver.pc = "write"
  /\ \/ /\ file' = saver.state
        /\ saver' = [pc |-> "done", v |-> saver.v]
        /\ UNCHANGED <<phase, failures>>
     \/ /\ failures < MaxFailures
        /\ failures' = failures + 1
        /\ saver' = Idle
        /\ phase' = IF phase = "final" THEN "unsaved" ELSE phase
        /\ UNCHANGED file
  /\ UNCHANGED <<book, saved, starts>>

SaveDoneLater ==  \* mutant: the version is read after the save
  /\ saver.pc = "done"
  /\ saved' = version
  /\ saver' = Idle
  /\ phase' = IF phase = "final" THEN "stopped" ELSE phase
  /\ UNCHANGED <<book, file, failures, starts>>

SaveDone ==
  /\ saver.pc = "done"
  /\ saved' = saver.v
  /\ saver' = Idle
  /\ phase' = IF phase = "final" THEN "stopped" ELSE phase
  /\ UNCHANGED <<book, file, failures, starts>>

Save == SaveStart \/ SaveExport \/ SaveWrite \/ SaveDone

---------------------------------------------------------------------------
(* The process                                                             *)

Quiet == UNCHANGED <<book, saved, saver, file, failures, starts>>

CloseStop == phase = "run" /\ phase' = "closing" /\ Quiet

\* wg.Wait returns: a save under way ends first.
LoopsEnd == phase = "closing" /\ saver.pc = "idle" /\ phase' = "draining" /\ Quiet

\* pinger.Stop has returned: no result comes any more.
EngineStoppedSaved ==  \* mutant: nothing left to save, says Stop
  phase = "draining" /\ phase' = "stopped" /\ Quiet

EngineStopped ==
  /\ phase = "draining"
  /\ phase' = IF version = saved THEN "stopped" ELSE "final"
  /\ Quiet

\* The process is killed: what it had in memory is gone.
Crash ==
  /\ phase \in Up \cup {"final"}
  /\ phase' = "crashed"
  /\ active' = NoAlerts /\ history' = <<>>
  /\ version' = 0 /\ saved' = 0
  /\ saver' = Idle
  /\ UNCHANGED <<file, changes, failures, starts>>

\* ImportState
ImportReversed(s) ==  \* mutant: as GetAlertHistory has it, newest first
  PushAll(<<>>, Reverse(s.history))

Import(s) == PushAll(<<>>, s.history)

\* NewManager: what the process has if it restores nothing.
NewManager == active' = NoAlerts /\ history' = <<>> /\ version' = 0

\* NewManager, LoadAlertState, and the saved version NewCoordinator notes.  A file
\* that cannot be read or parsed is logged; the process starts without it.
Boot ==
  /\ phase \in {"stopped", "unsaved", "crashed"}
  /\ starts < MaxStarts
  /\ starts' = starts + 1
  /\ phase' = "run"
  /\ \/ /\ file # NoFile
        /\ active' = file.active /\ history' = Import(file) /\ version' = 1
        /\ UNCHANGED failures
     \/ /\ file = NoFile
        /\ NewManager
        /\ UNCHANGED failures
     \/ /\ file # NoFile
        /\ failures < MaxFailures
        /\ NewManager
        /\ failures' = failures + 1
  /\ saved' = version'
  /\ saver' = Idle
  /\ UNCHANGED <<file, changes>>

---------------------------------------------------------------------------
Manager ==
  \/ \E h \in Hosts, text \in BOOLEAN : Trigger(h, text) \/ Metadata(h, text)
  \/ \E h \in Hosts : Acknowledge(h)
  \/ AcknowledgeAll
  \/ \E hs \in SUBSET Hosts : Resolve(hs)

Next == Manager \/ Save \/ CloseStop \/ LoopsEnd \/ EngineStopped \/ Crash \/ Boot

Spec == Init /\ [][Next]_vars

\* The loop saves every 5 seconds, and Stop goes on once it is called.
FairSpec == Spec /\ WF_vars(Save) /\ WF_vars(LoopsEnd) /\ WF_vars(EngineStopped)

---------------------------------------------------------------------------
(* What the alert book promises                                            *)

\* The file has the state, or the process found or could read no file and nothing
\* has changed since it started.
OnDisk ==
  \/ file = State
  \/ version = 0 /\ State = [active |-> NoAlerts, history |-> <<>>]

\* A version that counts as saved is on disk: no change that comes while a save
\* runs, or that a failed save lost, is taken for saved.
SavedIsOnDisk == phase # "crashed" /\ version = saved => OnDisk

\* The entries of the other hosts, and which of them is older.
Others(hist, h) ==
  LET others == DOMAIN hist \ Own(hist, h)
  IN {<<hist[p[1]], hist[p[2]]>> : p \in {q \in others \X others : q[1] <= q[2]}}

\* README, "Data storage": a host with frequent outages cannot remove the alerts
\* of other hosts from the history; nor does their order change.
NoisyHostHarmless ==
  [][\A h \in Hosts :
       /\ phase \in Up /\ phase' \in Up
       /\ {x \in Hosts : active[x] # NoAlert /\ active'[x] = NoAlert} = {h}
       /\ Cardinality(Own(history, h)) = MaxPerHost
       => Others(history', h) = Others(history, h)]_vars

\* README, "Data storage": DINIS saves the file when it stops, with the results
\* that came while it stopped; unless that save fails ("unsaved").
StopSaves == phase = "stopped" => OnDisk

\* README, "Data storage": after a restart that could read the file each alert is what
\* it was, and the limits, applied again, take nothing away.
Restores ==
  phase \notin Up /\ phase' = "run" /\ file # NoFile /\ UNCHANGED failures => State' = file

\* A start that could not read the file does not save over it as long as no alert
\* changes (version 0): the next start may still find everything.
UnreadFileStays == file' # file => version > 0

RestartRestores == [][Restores /\ UnreadFileStays]_vars

\* Every change is saved some time, also after saves that failed and while
\* other changes come.
ChangesAreSaved ==
  \A v \in 1 .. MaxChanges + 1 : phase = "run" /\ version >= v ~> saved >= v \/ phase # "run"
=============================================================================
