----------------------------- MODULE Enrollment -----------------------------
(***************************************************************************)
(* Which hosts DINIS monitors: the enrolled hosts and CIDRs of the store   *)
(* (pkg/store), the API handlers and the discovery sweep that change them, *)
(* and the rebuild that hands the result to the engine (pkg/server).       *)
(*                                                                         *)
(* The store's mutex makes each read and each write atomic, rebuildMu one  *)
(* rebuild at a time; an operation made of several of them is a sequence   *)
(* of actions.  Saves succeed: the store and the data file agree.          *)
(***************************************************************************)
EXTENDS FiniteSets, Integers

CONSTANTS
  Hosts,     \* addresses
  Cidrs,     \* CIDRs an operator may configure
  Covers,    \* Covers[c]: the addresses of c
  Handlers,  \* concurrent API requests
  Files,     \* configurations an operator may import
  MaxOps,    \* bound: requests, sweeps and restarts in one behaviour
  MayRestart, \* the process may end, or be killed, and start again
  Absent,    \* no entry in DiscoveredHosts
  Static,    \* an entry with IsStatic
  Sweeper, Boot, Nobody  \* who rebuilds, besides the handlers

ASSUME EnrollmentAssumption ==
  /\ IsFiniteSet(Cidrs)
  /\ Covers \in [Cidrs -> SUBSET Hosts]
  /\ Files \subseteq [Cidrs -> {"none", "off", "on"}]
  /\ MaxOps \in Nat /\ MayRestart \in BOOLEAN
  /\ {Absent, Static} \cap Cidrs = {} /\ Absent # Static
  /\ Handlers \cap {Sweeper, Boot, Nobody} = {}
  /\ Sweeper # Boot /\ Sweeper # Nobody /\ Boot # Nobody

VARIABLES
  cidrs,      \* cidrs[c]: not configured, disabled or enabled
  enrolled,   \* enrolled[h]: absent, static, or the CIDR a sweep found h in
  promoted,   \* hosts an operator promoted and nobody removed since
  monitored,  \* hosts of the engine
  handler,    \* handler[x]: how far an API request has come
  sweep,      \* the discovery sweep: it runs one at a time
  rebuild,    \* the RebuildTargetList that holds rebuildMu
  ops         \* requests, sweeps and restarts so far

vars == <<cidrs, enrolled, promoted, monitored, handler, sweep, rebuild, ops>>

States == {"none", "off", "on"}
Entries(h) == {Absent, Static} \cup {c \in Cidrs : h \in Covers[c]}
EntryMap == {m \in [Hosts -> {Absent, Static} \cup Cidrs] : \A h \in Hosts : m[h] \in Entries(h)}
HostSet == SUBSET Hosts

\* What a request still has to do.
Requests ==
  [pc : {"idle", "rebuild"}]
  \cup [pc : {"put"}, cidr : Cidrs, state : States]
  \cup [pc : {"static", "remove"}, host : Hosts]
  \cup [pc : {"plan"}, file : Files, remove : HostSet, check : HostSet]

TypeOK ==
  /\ cidrs \in [Cidrs -> States] /\ enrolled \in EntryMap
  /\ promoted \in HostSet /\ monitored \in HostSet
  /\ handler \in [Handlers -> Requests]
  /\ sweep \in [pc : {"idle", "read", "probe", "rebuild"}, cidrs : SUBSET Cidrs, static : HostSet]
  /\ rebuild \in [by : Handlers \cup {Sweeper, Boot, Nobody},
                  pc : {"free", "hosts", "persist", "prune", "apply"},
                  cidrs : [Cidrs -> States], new : HostSet, hosts : EntryMap]
  /\ ops \in 0 .. MaxOps

---------------------------------------------------------------------------
(* Reading a configuration cfg                                             *)

\* cidrIndex.lookup finds a CIDR for h
Covering(h, cfg) == {c \in Cidrs : cfg[c] = "on" /\ h \in Covers[c]}

\* h is the only address of a CIDR in that state (h/32).
SingleTarget(h, cfg, state) == \E c \in Cidrs : cfg[c] = state /\ Covers[c] = {h}

\* The hosts RebuildTargetList puts into its host map.
Included(h, ent, cfg) ==
  /\ ent # Absent
  /\ ent = Static \/ Covering(h, cfg) # {} \/ (ent \in Cidrs /\ cfg[ent] = "on")
  /\ SingleTarget(h, cfg, "off") => Covering(h, cfg) # {}

NoHosts == [h \in Hosts |-> Absent]
Idle == [pc |-> "idle"]
NoSweep == [pc |-> "idle", cidrs |-> {}, static |-> {}]
Rebuilding(x) ==
  [by |-> x, pc |-> "hosts", cidrs |-> cidrs, new |-> {}, hosts |-> NoHosts]
NoRebuild ==
  [by |-> Nobody, pc |-> "free", cidrs |-> [c \in Cidrs |-> "none"], new |-> {}, hosts |-> NoHosts]

\* The API and the sweeps start after NewCoordinator's rebuild.
Serving == rebuild.by # Boot

Init ==
  /\ cidrs \in [Cidrs -> States]
  /\ enrolled = NoHosts
  /\ promoted = {}
  /\ monitored = {}
  /\ handler = [x \in Handlers |-> Idle]
  /\ sweep = NoSweep
  /\ rebuild = Rebuilding(Boot)
  /\ ops = 0

---------------------------------------------------------------------------
(* API requests                                                            *)

Begin(x) ==
  /\ Serving
  /\ handler[x].pc = "idle"
  /\ ops < MaxOps
  /\ ops' = ops + 1

Goto(x, state) == handler' = [handler EXCEPT ![x] = state]
ThenRebuild(x) == Goto(x, [pc |-> "rebuild"])

\* POST /api/cidrs; the sweep it asks for is one that may start at any time.
PostCidr(x, c, state) ==
  /\ Begin(x)
  /\ state # "none"
  /\ cidrs' = [cidrs EXCEPT ![c] = state]
  /\ ThenRebuild(x)
  /\ UNCHANGED <<enrolled, promoted, monitored, sweep, rebuild>>

\* PUT /api/cidrs reads the entry, and writes it back with its changes.
ReadCidr(x, c, state) ==
  /\ Begin(x)
  /\ state # "none" /\ cidrs[c] # "none"
  /\ Goto(x, [pc |-> "put", cidr |-> c, state |-> state])
  /\ UNCHANGED <<cidrs, enrolled, promoted, monitored, sweep, rebuild>>

PutCidr(x) ==
  /\ handler[x].pc = "put"
  /\ cidrs' = [cidrs EXCEPT ![handler[x].cidr] = handler[x].state]
  /\ ThenRebuild(x)
  /\ UNCHANGED <<enrolled, promoted, monitored, sweep, rebuild, ops>>

\* DELETE /api/cidrs; for a single-IP target its static entry goes as well.
DeleteCidr(x, c) ==
  /\ Begin(x)
  /\ cidrs' = [cidrs EXCEPT ![c] = "none"]
  /\ IF \E h \in Hosts : Covers[c] = {h}
     THEN \E h \in Covers[c] : Goto(x, [pc |-> "static", host |-> h])
     ELSE ThenRebuild(x)
  /\ UNCHANGED <<enrolled, promoted, monitored, sweep, rebuild>>

CheckStatic(x) ==
  /\ handler[x].pc = "static"
  /\ IF enrolled[handler[x].host] = Static
     THEN Goto(x, [pc |-> "remove", host |-> handler[x].host])
     ELSE ThenRebuild(x)
  /\ UNCHANGED <<cidrs, enrolled, promoted, monitored, sweep, rebuild, ops>>

\* DELETE /api/hosts/{ip}/enrollment: refused for an enabled single-IP target.
Unenroll(x, h) ==
  /\ Begin(x)
  /\ ~SingleTarget(h, cidrs, "on")
  /\ Goto(x, [pc |-> "remove", host |-> h])
  /\ UNCHANGED <<cidrs, enrolled, promoted, monitored, sweep, rebuild>>

\* RemoveDiscoveredHost
RemoveWithoutRebuild(x) ==  \* mutant
  /\ handler[x].pc = "remove"
  /\ enrolled' = [enrolled EXCEPT ![handler[x].host] = Absent]
  /\ promoted' = promoted \ {handler[x].host}
  /\ Goto(x, Idle)
  /\ UNCHANGED <<cidrs, monitored, sweep, rebuild, ops>>

Remove(x) ==
  /\ handler[x].pc = "remove"
  /\ enrolled' = [enrolled EXCEPT ![handler[x].host] = Absent]
  /\ promoted' = promoted \ {handler[x].host}
  /\ ThenRebuild(x)
  /\ UNCHANGED <<cidrs, monitored, sweep, rebuild, ops>>

\* POST /api/hosts/{ip}/promote; static entries keep their status in a merge.
Promote(x, h) ==
  /\ Begin(x)
  /\ enrolled' = [enrolled EXCEPT ![h] = Static]
  /\ promoted' = promoted \cup {h}
  /\ ThenRebuild(x)
  /\ UNCHANGED <<cidrs, monitored, sweep, rebuild>>

\* PUT /api/config: the plan compares the file's CIDRs with those of now, and asks
\* the store for the static entry of each single-IP target that is gone.
ImportRead(x, file) ==
  /\ Begin(x)
  /\ Goto(x, [pc |-> "plan", file |-> file, remove |-> {},
              check |-> {h \in Hosts : \E c \in Cidrs :
                           cidrs[c] # "none" /\ file[c] = "none" /\ Covers[c] = {h}}])
  /\ UNCHANGED <<cidrs, enrolled, promoted, monitored, sweep, rebuild>>

ImportCheck(x) ==
  /\ handler[x].pc = "plan"
  /\ \E h \in handler[x].check :
       Goto(x, [handler[x] EXCEPT !.check = @ \ {h},
                                  !.remove = IF enrolled[h] = Static THEN @ \cup {h} ELSE @])
  /\ UNCHANGED <<cidrs, enrolled, promoted, monitored, sweep, rebuild, ops>>

\* ReplaceConfig changes CIDRs and entries together; the rebuild comes after it.
ImportReplace(x) ==
  /\ handler[x].pc = "plan" /\ handler[x].check = {}
  /\ cidrs' = handler[x].file
  /\ enrolled' = [h \in Hosts |-> IF h \in handler[x].remove THEN Absent ELSE enrolled[h]]
  /\ promoted' = promoted \ handler[x].remove
  /\ ThenRebuild(x)
  /\ UNCHANGED <<monitored, sweep, rebuild, ops>>

---------------------------------------------------------------------------
(* The discovery sweep (runSweep)                                          *)

SweepStart(only) ==
  /\ Serving
  /\ sweep.pc = "idle"
  /\ ops < MaxOps
  /\ \E c \in only : cidrs[c] = "on"
  /\ sweep' = [pc |-> "read", cidrs |-> {c \in only : cidrs[c] = "on"}, static |-> {}]
  /\ ops' = ops + 1
  /\ UNCHANGED <<cidrs, enrolled, promoted, monitored, handler, rebuild>>

SweepSnapshot ==
  /\ sweep.pc = "read"
  /\ sweep' = [sweep EXCEPT !.pc = "probe", !.static = {h \in Hosts : enrolled[h] = Static}]
  /\ UNCHANGED <<cidrs, enrolled, promoted, monitored, handler, rebuild, ops>>

\* The CIDRs whose sweep can find h.
Candidates(h) == {c \in sweep.cidrs : h \in Covers[c]}

\* mergeDiscoveredHostUnsafe
MergedReplaces(h, c) ==  \* mutant: the new entry replaces the old one
  IF h \in sweep.static THEN Static ELSE c

Merged(h, c) ==
  IF h \in sweep.static \/ enrolled[h] = Static THEN Static ELSE c

\* Each host that replied is saved with one of the CIDRs it was found in.
SweepSave(replied) ==
  /\ sweep.pc = "probe"
  /\ \A h \in replied : Candidates(h) # {}
  /\ \E found \in [replied -> Cidrs] :
       /\ \A h \in replied : found[h] \in Candidates(h)
       /\ enrolled' = [h \in Hosts |-> IF h \in replied THEN Merged(h, found[h]) ELSE enrolled[h]]
  /\ sweep' = [sweep EXCEPT !.pc = "rebuild"]
  /\ UNCHANGED <<cidrs, promoted, monitored, handler, rebuild, ops>>

---------------------------------------------------------------------------
(* RebuildTargetList                                                       *)

Waiting(x) == IF x = Sweeper THEN sweep.pc = "rebuild" ELSE handler[x].pc = "rebuild"

RebuildStart(x) ==
  /\ Waiting(x)
  /\ rebuild.pc = "free"
  /\ rebuild' = Rebuilding(x)
  /\ UNCHANGED <<cidrs, enrolled, promoted, monitored, handler, sweep, ops>>

\* Single-IP targets without an entry get a static one.
NewStaticsKnown(h) ==  \* mutant: only once the engine monitors h
  enrolled[h] = Absent /\ h \in monitored /\ SingleTarget(h, rebuild.cidrs, "on")

NewStatics(h) == enrolled[h] = Absent /\ SingleTarget(h, rebuild.cidrs, "on")

RebuildHosts ==
  /\ rebuild.pc = "hosts"
  /\ LET new == {h \in Hosts : NewStatics(h)} IN
     rebuild' = [rebuild EXCEPT !.pc = IF new = {} THEN "prune" ELSE "persist", !.new = new,
                                !.hosts = [h \in Hosts |-> IF h \in new THEN Static ELSE enrolled[h]]]
  /\ UNCHANGED <<cidrs, enrolled, promoted, monitored, handler, sweep, ops>>

RebuildPersist ==
  /\ rebuild.pc = "persist"
  /\ enrolled' = [h \in Hosts |-> IF h \in rebuild.new THEN Static ELSE enrolled[h]]
  /\ rebuild' = [rebuild EXCEPT !.pc = "prune"]
  /\ UNCHANGED <<cidrs, promoted, monitored, handler, sweep, ops>>

\* PruneDiscoveredHosts keeps static hosts and those of disabled CIDRs.
RebuildPrune ==
  /\ rebuild.pc = "prune"
  /\ enrolled' = [h \in Hosts |->
       IF enrolled[h] \in Cidrs /\ rebuild.cidrs[enrolled[h]] = "none" THEN Absent ELSE enrolled[h]]
  /\ rebuild' = [rebuild EXCEPT !.pc = "apply"]
  /\ UNCHANGED <<cidrs, promoted, monitored, handler, sweep, ops>>

RebuildApply ==
  /\ rebuild.pc = "apply"
  /\ monitored' = {h \in Hosts : Included(h, rebuild.hosts[h], rebuild.cidrs)}
  /\ handler' = [x \in Handlers |-> IF x = rebuild.by THEN Idle ELSE handler[x]]
  /\ sweep' = IF rebuild.by = Sweeper THEN NoSweep ELSE sweep
  /\ rebuild' = NoRebuild
  /\ UNCHANGED <<cidrs, enrolled, promoted, ops>>

\* A restart, orderly or not, keeps the data file only.
Restart ==
  /\ MayRestart
  /\ ops < MaxOps
  /\ ops' = ops + 1
  /\ monitored' = {}
  /\ handler' = [x \in Handlers |-> Idle]
  /\ sweep' = NoSweep
  /\ rebuild' = Rebuilding(Boot)
  /\ UNCHANGED <<cidrs, enrolled, promoted>>

---------------------------------------------------------------------------
Api(x) ==
  \/ \E c \in Cidrs, state \in States : PostCidr(x, c, state) \/ ReadCidr(x, c, state)
  \/ PutCidr(x)
  \/ \E c \in Cidrs : DeleteCidr(x, c)
  \/ CheckStatic(x)
  \/ \E h \in Hosts : Unenroll(x, h)
  \/ Remove(x)
  \/ \E h \in Hosts : Promote(x, h)
  \/ \E file \in Files : ImportRead(x, file)
  \/ ImportCheck(x) \/ ImportReplace(x)

Sweep ==
  \/ \E only \in SUBSET Cidrs : SweepStart(only)
  \/ SweepSnapshot
  \/ \E replied \in SUBSET Hosts : SweepSave(replied)

Rebuild ==
  \/ \E x \in Handlers \cup {Sweeper} : RebuildStart(x)
  \/ RebuildHosts
  \/ RebuildPersist
  \/ RebuildPrune
  \/ RebuildApply

Next == (\E x \in Handlers : Api(x)) \/ Sweep \/ Rebuild \/ Restart

Spec == Init /\ [][Next]_vars

---------------------------------------------------------------------------
(* What the system promises                                                *)

Settled ==
  /\ rebuild.pc = "free" /\ sweep.pc = "idle"
  /\ \A x \in Handlers : handler[x].pc = "idle"

\* The engine monitors what the store says, for a host that one CIDR at most
\* covers: no interleaving of requests, sweeps and rebuilds leaves the engine
\* with a list that was built from data which changed meanwhile.
EngineMatchesStore ==
  Settled =>
    \A h \in Hosts :
      Cardinality({c \in Cidrs : h \in Covers[c]}) <= 1 =>
        (h \in monitored <=> Included(h, enrolled[h], cidrs))

\* README, "Discovery": DINIS always monitors single-IP targets, also after
\* a deletion of the same CIDR, or an un-enrollment, that overlapped its addition.
SingleTargetsMonitored ==
  Settled => \A h \in Hosts : SingleTarget(h, cidrs, "on") => h \in monitored

\* README, "Remove a target": DINIS keeps a promoted host when its range is
\* deleted or disabled, also when a sweep saves what it read before.
PromotedStaysMonitored ==
  Settled =>
    \A h \in promoted : h \in monitored \/ SingleTarget(h, cidrs, "off")

\* README, "Remove a target": when its CIDR is deleted or disabled, DINIS stops
\* the probes to a host that nobody promoted.
DeletedCidrUnmonitored ==
  Settled => \A h \in monitored : h \in promoted \/ Covering(h, cidrs) # {}
=============================================================================
