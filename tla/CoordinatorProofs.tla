------------------------- MODULE CoordinatorProofs -------------------------
(***************************************************************************)
(* The two parts of the coordinator that decide which hosts are monitored. *)
(*                                                                         *)
(* Enrollment: the engine ends up with what the store says, for every set  *)
(* of hosts, CIDRs, concurrent requests and configurations to import, and  *)
(* any number of sweeps and restarts.                                      *)
(*                                                                         *)
(* Discovery, the queue of its sweeps: a queued request always has exactly *)
(* one runner that will look at it, and the status shown is right, for     *)
(* every set of CIDRs, runners and requests.                               *)
(***************************************************************************)
EXTENDS Enrollment, Discovery, FiniteSetTheorems, TLAPS

---------------------------------------------------------------------------
(* Types                                                                   *)

\* A request keeps the types.
LEMMA ApiTypes ==
  ASSUME TypeOK, NEW x \in Handlers, Api(x)
  PROVE  TypeOK'
<1> USE DEF TypeOK, HostSet
<1>1. ASSUME NEW state \in Requests, Goto(x, state) PROVE handler' \in [Handlers -> Requests]
  BY <1>1 DEF Goto
<1>2. [pc |-> "rebuild"] \in Requests /\ Idle \in Requests
  BY DEF Requests, Idle
<1>3. ASSUME Begin(x) PROVE ops' \in 0 .. MaxOps
  BY <1>3, EnrollmentAssumption DEF Begin
<1>4. ASSUME NEW c \in Cidrs, NEW state \in States, PostCidr(x, c, state) PROVE TypeOK'
  BY <1>1, <1>2, <1>3, <1>4 DEF PostCidr, ThenRebuild
<1>5. ASSUME NEW c \in Cidrs, NEW state \in States, ReadCidr(x, c, state) PROVE TypeOK'
  <2>1. [pc |-> "put", cidr |-> c, state |-> state] \in Requests
    BY DEF Requests
  <2> QED
    BY <1>1, <1>3, <1>5, <2>1 DEF ReadCidr
<1>6. ASSUME PutCidr(x) PROVE TypeOK'
  <2>1. handler[x].cidr \in Cidrs /\ handler[x].state \in States
    BY <1>6 DEF PutCidr, Requests
  <2> QED
    BY <1>1, <1>2, <1>6, <2>1 DEF PutCidr, ThenRebuild
<1>7. ASSUME NEW c \in Cidrs, DeleteCidr(x, c) PROVE TypeOK'
  <2>1. \A h \in Hosts : [pc |-> "static", host |-> h] \in Requests
    BY DEF Requests
  <2>2. Covers[c] \subseteq Hosts
    BY EnrollmentAssumption
  <2>3. handler' \in [Handlers -> Requests]
    BY <1>1, <1>2, <1>7, <2>1, <2>2 DEF DeleteCidr, ThenRebuild
  <2>4. cidrs' \in [Cidrs -> States]
    BY <1>7 DEF DeleteCidr, States
  <2> QED
    BY <1>3, <1>7, <2>3, <2>4 DEF DeleteCidr
<1>8. ASSUME CheckStatic(x) PROVE TypeOK'
  <2>1. handler[x].host \in Hosts
    BY <1>8 DEF CheckStatic, Requests
  <2>2. [pc |-> "remove", host |-> handler[x].host] \in Requests
    BY <2>1 DEF Requests
  <2>3. handler' \in [Handlers -> Requests]
    BY <1>1, <1>2, <1>8, <2>2 DEF CheckStatic, ThenRebuild
  <2> QED
    BY <1>8, <2>3 DEF CheckStatic
<1>9. ASSUME NEW h \in Hosts, Unenroll(x, h) PROVE TypeOK'
  <2>1. [pc |-> "remove", host |-> h] \in Requests
    BY DEF Requests
  <2> QED
    BY <1>1, <1>3, <1>9, <2>1 DEF Unenroll
<1>10. ASSUME Remove(x) PROVE TypeOK'
  <2>1. handler' \in [Handlers -> Requests]
    BY <1>1, <1>2, <1>10 DEF Remove, ThenRebuild
  <2>2. enrolled' \in EntryMap
    BY <1>10 DEF Remove, EntryMap, Entries
  <2> QED
    BY <1>10, <2>1, <2>2 DEF Remove
<1>11. ASSUME NEW h \in Hosts, Promote(x, h) PROVE TypeOK'
  <2>1. handler' \in [Handlers -> Requests]
    BY <1>1, <1>2, <1>11 DEF Promote, ThenRebuild
  <2>2. enrolled' \in EntryMap
    BY <1>11 DEF Promote, EntryMap, Entries
  <2> QED
    BY <1>3, <1>11, <2>1, <2>2 DEF Promote
<1>12. ASSUME NEW file \in Files, ImportRead(x, file) PROVE TypeOK'
  <2> DEFINE check == {h \in Hosts : \E c \in Cidrs :
                         cidrs[c] # "none" /\ file[c] = "none" /\ Covers[c] = {h}}
  <2>1. [pc |-> "plan", file |-> file, remove |-> {}, check |-> check] \in Requests
    BY DEF Requests
  <2> QED
    BY <1>1, <1>3, <1>12, <2>1 DEF ImportRead
<1>13. ASSUME ImportCheck(x) PROVE TypeOK'
  <2>1. handler[x] \in [pc : {"plan"}, file : Files, remove : HostSet, check : HostSet]
    BY <1>13 DEF ImportCheck, Requests
  <2>2. PICK h \in handler[x].check :
          Goto(x, [handler[x] EXCEPT !.check = @ \ {h},
                                     !.remove = IF enrolled[h] = Static THEN @ \cup {h} ELSE @])
    BY <1>13 DEF ImportCheck
  <2>3. [handler[x] EXCEPT !.check = @ \ {h},
                           !.remove = IF enrolled[h] = Static THEN @ \cup {h} ELSE @]
          \in [pc : {"plan"}, file : Files, remove : HostSet, check : HostSet]
    BY <2>1
  <2>4. handler' \in [Handlers -> Requests]
    BY <1>1, <2>2, <2>3 DEF Requests
  <2> QED
    BY <1>13, <2>4 DEF ImportCheck
<1>14. ASSUME ImportReplace(x) PROVE TypeOK'
  <2>1. handler[x].file \in [Cidrs -> States] /\ handler[x].remove \subseteq Hosts
    BY <1>14, EnrollmentAssumption DEF ImportReplace, Requests, States
  <2>2. handler' \in [Handlers -> Requests]
    BY <1>1, <1>2, <1>14 DEF ImportReplace, ThenRebuild
  <2>3. enrolled' \in EntryMap
    BY <1>14 DEF ImportReplace, EntryMap, Entries
  <2> QED
    BY <1>14, <2>1, <2>2, <2>3 DEF ImportReplace
<1> QED
  BY <1>4, <1>5, <1>6, <1>7, <1>8, <1>9, <1>10, <1>11, <1>12, <1>13, <1>14 DEF Api

\* So do a sweep and the end of the process.
LEMMA SweepTypes == TypeOK /\ (Sweep \/ Restart) => TypeOK'
<1> SUFFICES ASSUME TypeOK, Sweep \/ Restart PROVE TypeOK'
  OBVIOUS
<1> USE DEF TypeOK, HostSet
<1>1. ASSUME NEW only \in SUBSET Cidrs, SweepStart(only) PROVE TypeOK'
  BY <1>1, EnrollmentAssumption DEF SweepStart
<1>2. ASSUME SweepSnapshot PROVE TypeOK'
  BY <1>2 DEF SweepSnapshot
<1>3. ASSUME NEW replied \in SUBSET Hosts, SweepSave(replied) PROVE TypeOK'
  <2>1. PICK found \in [replied -> Cidrs] :
          /\ \A h \in replied : found[h] \in Candidates(h)
          /\ enrolled' = [h \in Hosts |->
                            IF h \in replied THEN Merged(h, found[h]) ELSE enrolled[h]]
    BY <1>3 DEF SweepSave
  <2>2. \A h \in replied : Merged(h, found[h]) \in Entries(h)
    BY <2>1 DEF Merged, Entries, Candidates
  <2>3. \A h \in Hosts : enrolled[h] \in Entries(h)
    BY DEF EntryMap
  <2>4. enrolled' \in EntryMap
    BY <2>1, <2>2, <2>3 DEF EntryMap, Entries
  <2> QED
    BY <1>3, <2>4 DEF SweepSave
<1>4. ASSUME Restart PROVE TypeOK'
  <2>1. NoHosts \in EntryMap /\ Idle \in Requests
    BY DEF NoHosts, EntryMap, Entries, Idle, Requests
  <2> QED
    BY <1>4, <2>1, EnrollmentAssumption DEF Restart, NoSweep, Rebuilding
<1> QED
  BY <1>1, <1>2, <1>3, <1>4 DEF Sweep

\* And a rebuild.
LEMMA RebuildTypes == TypeOK /\ Rebuild => TypeOK'
<1> SUFFICES ASSUME TypeOK, Rebuild PROVE TypeOK'
  OBVIOUS
<1> USE DEF TypeOK, HostSet
<1>1. NoHosts \in EntryMap /\ Idle \in Requests
  BY DEF NoHosts, EntryMap, Entries, Idle, Requests
<1>2. ASSUME NEW x \in Handlers \cup {Sweeper}, RebuildStart(x) PROVE TypeOK'
  BY <1>1, <1>2 DEF RebuildStart, Rebuilding
<1>3. ASSUME RebuildHosts PROVE TypeOK'
  <2> DEFINE new == {h \in Hosts : NewStatics(h)}
             hosts == [h \in Hosts |-> IF h \in new THEN Static ELSE enrolled[h]]
  <2>1. hosts \in EntryMap /\ new \in SUBSET Hosts
    BY DEF EntryMap, Entries
  <2>2. rebuild' = [rebuild EXCEPT !.pc = IF new = {} THEN "prune" ELSE "persist",
                                   !.new = new, !.hosts = hosts]
    BY <1>3 DEF RebuildHosts
  <2> HIDE DEF new, hosts
  <2> QED
    BY <1>3, <2>1, <2>2 DEF RebuildHosts
<1>4. ASSUME RebuildPersist PROVE TypeOK'
  <2>1. enrolled' \in EntryMap
    BY <1>4 DEF RebuildPersist, EntryMap, Entries
  <2> QED
    BY <1>4, <2>1 DEF RebuildPersist
<1>5. ASSUME RebuildPrune PROVE TypeOK'
  <2>1. enrolled' \in EntryMap
    BY <1>5 DEF RebuildPrune, EntryMap, Entries
  <2> QED
    BY <1>5, <2>1 DEF RebuildPrune
<1>6. ASSUME RebuildApply PROVE TypeOK'
  <2>1. rebuild' \in [by : Handlers \cup {Sweeper, Boot, Nobody},
                      pc : {"free", "hosts", "persist", "prune", "apply"},
                      cidrs : [Cidrs -> States], new : HostSet, hosts : EntryMap]
    BY <1>1, <1>6 DEF RebuildApply, NoRebuild, States
  <2> QED
    BY <1>1, <1>6, <2>1 DEF RebuildApply, NoSweep
<1> QED
  BY <1>2, <1>3, <1>4, <1>5, <1>6 DEF Rebuild

LEMMA InitTypes == Init => TypeOK
<1> SUFFICES ASSUME Init PROVE TypeOK
  OBVIOUS
<1>1. NoHosts \in EntryMap /\ Idle \in Requests
  BY DEF NoHosts, EntryMap, Entries, Idle, Requests
<1> QED
  BY <1>1, EnrollmentAssumption DEF Init, TypeOK, HostSet, NoSweep, Rebuilding

LEMMA NextTypes == TypeOK /\ [Next]_vars => TypeOK'
<1>1. ASSUME TypeOK, UNCHANGED vars PROVE TypeOK'
  BY <1>1 DEF TypeOK, vars
<1> QED
  BY <1>1, ApiTypes, SweepTypes, RebuildTypes DEF Next
\* Every variable keeps its type.
THEOREM EnrollmentTypeCorrect == Spec => []TypeOK
  BY InitTypes, NextTypes, PTL DEF Spec

---------------------------------------------------------------------------
(* What a rebuild still owes                                               *)

\* Some request or sweep will still do a rebuild of its own, which starts later.
Owed ==
  \/ \E x \in Handlers : handler[x].pc # "idle" /\ rebuild.by # x
  \/ sweep.pc # "idle" /\ rebuild.by # Sweeper

\* Whoever holds rebuildMu waits for its rebuild.
HolderInv ==
  /\ rebuild.pc = "free" <=> rebuild.by = Nobody
  /\ rebuild.by \in Handlers => handler[rebuild.by].pc = "rebuild"
  /\ rebuild.by = Sweeper => sweep.pc = "rebuild"

\* What PruneDiscoveredHosts makes of an entry.
Pruned(ent, cfg) == IF ent \in Cidrs /\ cfg[ent] = "none" THEN Absent ELSE ent

\* Nothing changes behind a rebuild, unless another one is owed.
RebuildInv ==
  rebuild.pc # "free" /\ ~Owed =>
    /\ cidrs = rebuild.cidrs
    /\ rebuild.pc = "persist" =>
         \A h \in Hosts : rebuild.hosts[h] = IF h \in rebuild.new THEN Static ELSE enrolled[h]
    /\ rebuild.pc = "prune" => \A h \in Hosts : rebuild.hosts[h] = enrolled[h]
    /\ rebuild.pc = "apply" =>
         \A h \in Hosts : enrolled[h] = Pruned(rebuild.hosts[h], cidrs)

\* Every single-IP target of the CIDRs a rebuild has read is among its hosts.
TargetInv ==
  rebuild.pc \in {"persist", "prune", "apply"} =>
    \A h \in Hosts : SingleTarget(h, rebuild.cidrs, "on") => rebuild.hosts[h] # Absent

\* h is monitored as its entry before the last prune says.
UpToDate(h) ==
  \E ent \in Entries(h) :
    /\ enrolled[h] = Pruned(ent, cidrs)
    /\ SingleTarget(h, cidrs, "on") => ent # Absent
    /\ h \in monitored <=> Included(h, ent, cidrs)

EngineInv == rebuild.pc = "free" /\ ~Owed => \A h \in Hosts : UpToDate(h)

IInv == TypeOK /\ HolderInv /\ RebuildInv /\ TargetInv /\ EngineInv

LEMMA InitIInv == Init => IInv
  BY InitTypes, EnrollmentAssumption
  DEF Init, IInv, HolderInv, RebuildInv, TargetInv, EngineInv, Rebuilding

\* A request does not touch the rebuild of another one, and owes one.
LEMMA ApiOwes ==
  ASSUME TypeOK, HolderInv, NEW x \in Handlers, Api(x)
  PROVE  /\ rebuild' = rebuild /\ sweep' = sweep /\ rebuild.by # x
         /\ handler'[x].pc # "idle"
         /\ \A y \in Handlers \ {x} : handler'[y] = handler[y]
<1>1. ASSUME NEW state, Goto(x, state), state.pc # "idle"
      PROVE  /\ handler'[x].pc # "idle"
             /\ \A y \in Handlers \ {x} : handler'[y] = handler[y]
  BY <1>1 DEF Goto, TypeOK
<1> DEFINE Moves == /\ rebuild' = rebuild /\ sweep' = sweep
                    /\ handler[x].pc # "rebuild"
                    /\ handler'[x].pc # "idle"
                    /\ \A y \in Handlers \ {x} : handler'[y] = handler[y]
<1>2. ASSUME ThenRebuild(x)
      PROVE  /\ handler'[x].pc # "idle"
             /\ \A y \in Handlers \ {x} : handler'[y] = handler[y]
  BY <1>1, <1>2 DEF ThenRebuild
<1>3. ASSUME NEW c \in Cidrs, NEW state \in States, PostCidr(x, c, state) PROVE Moves
  BY <1>2, <1>3 DEF PostCidr, Begin
<1>4. ASSUME NEW c \in Cidrs, NEW state \in States, ReadCidr(x, c, state) PROVE Moves
  BY <1>1, <1>4 DEF ReadCidr, Begin
<1>5. ASSUME PutCidr(x) PROVE Moves
  BY <1>2, <1>5 DEF PutCidr
<1>6. ASSUME NEW c \in Cidrs, DeleteCidr(x, c) PROVE Moves
  BY <1>1, <1>2, <1>6 DEF DeleteCidr, Begin
<1>7. ASSUME CheckStatic(x) PROVE Moves
  BY <1>1, <1>2, <1>7 DEF CheckStatic
<1>8. ASSUME NEW h \in Hosts, Unenroll(x, h) PROVE Moves
  BY <1>1, <1>8 DEF Unenroll, Begin
<1>9. ASSUME Remove(x) PROVE Moves
  BY <1>2, <1>9 DEF Remove
<1>10. ASSUME NEW h \in Hosts, Promote(x, h) PROVE Moves
  BY <1>2, <1>10 DEF Promote, Begin
<1>11. ASSUME NEW file \in Files, ImportRead(x, file) PROVE Moves
  BY <1>1, <1>11 DEF ImportRead, Begin
<1>12. ASSUME ImportCheck(x) PROVE Moves
  <2>1. PICK h \in handler[x].check :
          Goto(x, [handler[x] EXCEPT !.check = @ \ {h},
                                     !.remove = IF enrolled[h] = Static THEN @ \cup {h} ELSE @])
    BY <1>12 DEF ImportCheck
  <2>2. handler[x] \in [pc : {"plan"}, file : Files, remove : HostSet, check : HostSet]
    BY <1>12 DEF ImportCheck, TypeOK, Requests
  <2> QED
    BY <1>1, <1>12, <2>1, <2>2 DEF ImportCheck
<1>13. ASSUME ImportReplace(x) PROVE Moves
  BY <1>2, <1>13 DEF ImportReplace
<1> HIDE DEF Moves
<1>14. Moves
  BY <1>3, <1>4, <1>5, <1>6, <1>7, <1>8, <1>9, <1>10, <1>11, <1>12, <1>13 DEF Api
<1> QED
  BY <1>14 DEF Moves, HolderInv

\* As long as a rebuild is owed and nobody touches the one that runs, all holds.
LEMMA OwedKeeps ==
  ASSUME IInv, TypeOK', HolderInv', Owed', rebuild' = rebuild
  PROVE  IInv'
  BY DEF IInv, RebuildInv, TargetInv, EngineInv, SingleTarget

LEMMA ApiKeeps ==
  ASSUME IInv, NEW x \in Handlers, Api(x)
  PROVE  IInv'
<1>1. /\ rebuild' = rebuild /\ sweep' = sweep /\ rebuild.by # x /\ handler'[x].pc # "idle"
      /\ \A y \in Handlers \ {x} : handler'[y] = handler[y]
  BY ApiOwes DEF IInv
<1>2. TypeOK'
  BY ApiTypes DEF IInv
<1>3. HolderInv'
  BY <1>1 DEF IInv, HolderInv
<1>4. Owed'
  BY <1>1 DEF Owed
<1> QED
  BY <1>1, <1>2, <1>3, <1>4, OwedKeeps

LEMMA SweepKeeps == IInv /\ Sweep => IInv'
<1> SUFFICES ASSUME IInv, Sweep PROVE IInv'
  OBVIOUS
<1> DEFINE Moves == /\ rebuild' = rebuild /\ handler' = handler
                    /\ sweep.pc # "rebuild" /\ sweep'.pc # "idle"
<1>1. Moves
  <2>1. sweep \in [pc : {"idle", "read", "probe", "rebuild"}, cidrs : SUBSET Cidrs, static : HostSet]
    BY DEF IInv, TypeOK
  <2>2. ASSUME NEW only \in SUBSET Cidrs, SweepStart(only) PROVE Moves
    BY <2>2 DEF SweepStart
  <2>3. ASSUME SweepSnapshot PROVE Moves
    BY <2>1, <2>3 DEF SweepSnapshot
  <2>4. ASSUME NEW replied \in SUBSET Hosts, SweepSave(replied) PROVE Moves
    BY <2>1, <2>4 DEF SweepSave
  <2> QED
    BY <2>2, <2>3, <2>4 DEF Sweep
<1>2. TypeOK'
  BY SweepTypes DEF IInv
<1>3. rebuild.by # Sweeper
  BY <1>1 DEF IInv, HolderInv
<1>4. HolderInv'
  BY <1>1, <1>3 DEF IInv, HolderInv
<1>5. Owed'
  BY <1>1, <1>3 DEF Owed
<1> QED
  BY <1>1, <1>2, <1>4, <1>5, OwedKeeps

---------------------------------------------------------------------------
(* The steps of a rebuild                                                  *)

LEMMA RebuildStartKeeps ==
  ASSUME IInv, NEW x \in Handlers \cup {Sweeper}, RebuildStart(x)
  PROVE  IInv'
<1>1. rebuild' = Rebuilding(x) /\ UNCHANGED <<cidrs, handler, sweep>> /\ Waiting(x)
  BY DEF RebuildStart
<1>2. TypeOK'
  BY RebuildTypes DEF Rebuild, IInv
<1>3. HolderInv'
  BY <1>1, EnrollmentAssumption DEF HolderInv, Rebuilding, Waiting
<1> QED
  BY <1>1, <1>2, <1>3 DEF IInv, RebuildInv, TargetInv, EngineInv, Rebuilding

LEMMA RebuildHostsKeeps == IInv /\ RebuildHosts => IInv'
<1> SUFFICES ASSUME IInv, RebuildHosts PROVE IInv'
  OBVIOUS
<1> DEFINE new == {h \in Hosts : NewStatics(h)}
           hosts == [h \in Hosts |-> IF h \in new THEN Static ELSE enrolled[h]]
<1>1. TypeOK /\ TypeOK'
  BY RebuildTypes DEF Rebuild, IInv
<1>2. /\ rebuild.pc = "hosts" /\ rebuild'.by = rebuild.by /\ rebuild'.cidrs = rebuild.cidrs
      /\ rebuild'.pc = (IF new = {} THEN "prune" ELSE "persist")
      /\ rebuild'.new = new /\ rebuild'.hosts = hosts
      /\ UNCHANGED <<cidrs, enrolled, handler, sweep>>
  BY <1>1 DEF RebuildHosts, TypeOK
<1>3. HolderInv'
  BY <1>2 DEF IInv, HolderInv
<1>4. Owed' <=> Owed
  BY <1>2 DEF Owed
<1>5. TargetInv'
  <2>1. ASSUME NEW h \in Hosts, SingleTarget(h, rebuild.cidrs, "on") PROVE hosts[h] # Absent
    BY <2>1, EnrollmentAssumption DEF NewStatics
  <2>2. \A h \in Hosts : SingleTarget(h, rebuild'.cidrs, "on")
                           <=> SingleTarget(h, rebuild.cidrs, "on")
    BY <1>2 DEF SingleTarget
  <2> HIDE DEF hosts, new
  <2> QED
    BY <1>2, <2>1, <2>2 DEF TargetInv, SingleTarget
<1>6. RebuildInv'
  <2>1. ~Owed => cidrs = rebuild.cidrs
    BY <1>2 DEF IInv, RebuildInv
  <2>2. \A h \in Hosts : hosts[h] = IF h \in new THEN Static ELSE enrolled[h]
    OBVIOUS
  <2> HIDE DEF hosts
  <2> QED
    BY <1>2, <1>4, <2>1, <2>2 DEF RebuildInv
<1>7. EngineInv'
  BY <1>2 DEF EngineInv
<1> QED
  BY <1>1, <1>3, <1>5, <1>6, <1>7 DEF IInv

LEMMA RebuildPersistKeeps == IInv /\ RebuildPersist => IInv'
<1> SUFFICES ASSUME IInv, RebuildPersist PROVE IInv'
  OBVIOUS
<1>1. TypeOK /\ TypeOK'
  BY RebuildTypes DEF Rebuild, IInv
<1>2. /\ rebuild.pc = "persist" /\ rebuild'.pc = "prune"
      /\ rebuild'.by = rebuild.by /\ rebuild'.cidrs = rebuild.cidrs
      /\ rebuild'.hosts = rebuild.hosts /\ UNCHANGED <<cidrs, handler, sweep>>
      /\ \A h \in Hosts : enrolled'[h] = IF h \in rebuild.new THEN Static ELSE enrolled[h]
  BY <1>1 DEF RebuildPersist, TypeOK
<1>3. HolderInv'
  BY <1>2 DEF IInv, HolderInv
<1>4. Owed' <=> Owed
  BY <1>2 DEF Owed
<1>5. TargetInv'
  BY <1>2 DEF IInv, TargetInv, SingleTarget
<1>6. RebuildInv'
  BY <1>2, <1>4 DEF IInv, RebuildInv
<1>7. EngineInv'
  BY <1>2 DEF EngineInv
<1> QED
  BY <1>1, <1>3, <1>5, <1>6, <1>7 DEF IInv

LEMMA RebuildPruneKeeps == IInv /\ RebuildPrune => IInv'
<1> SUFFICES ASSUME IInv, RebuildPrune PROVE IInv'
  OBVIOUS
<1>1. TypeOK /\ TypeOK'
  BY RebuildTypes DEF Rebuild, IInv
<1>2. /\ rebuild.pc = "prune" /\ rebuild'.pc = "apply"
      /\ rebuild'.by = rebuild.by /\ rebuild'.cidrs = rebuild.cidrs
      /\ rebuild'.hosts = rebuild.hosts /\ UNCHANGED <<cidrs, handler, sweep>>
      /\ \A h \in Hosts : enrolled'[h] = Pruned(enrolled[h], rebuild.cidrs)
  BY <1>1 DEF RebuildPrune, TypeOK, Pruned
<1>3. HolderInv'
  BY <1>2 DEF IInv, HolderInv
<1>4. Owed' <=> Owed
  BY <1>2 DEF Owed
<1>5. TargetInv'
  BY <1>2 DEF IInv, TargetInv, SingleTarget
<1>6. RebuildInv'
  <2> SUFFICES ASSUME ~Owed
               PROVE  cidrs = rebuild.cidrs
                      /\ \A h \in Hosts : enrolled'[h] = Pruned(rebuild.hosts[h], cidrs)
    BY <1>2, <1>4 DEF RebuildInv, Pruned
  <2> QED
    BY <1>2 DEF IInv, RebuildInv
<1>7. EngineInv'
  BY <1>2 DEF EngineInv
<1> QED
  BY <1>1, <1>3, <1>5, <1>6, <1>7 DEF IInv

LEMMA RebuildApplyKeeps == IInv /\ RebuildApply => IInv'
<1> SUFFICES ASSUME IInv, RebuildApply PROVE IInv'
  OBVIOUS
<1>1. TypeOK /\ TypeOK'
  BY RebuildTypes DEF Rebuild, IInv
<1>2. /\ rebuild.pc = "apply" /\ rebuild'.pc = "free" /\ rebuild'.by = Nobody
      /\ UNCHANGED <<cidrs, enrolled>>
      /\ \A x \in Handlers : handler'[x] = IF x = rebuild.by THEN Idle ELSE handler[x]
      /\ sweep' = IF rebuild.by = Sweeper THEN NoSweep ELSE sweep
      /\ monitored' = {h \in Hosts : Included(h, rebuild.hosts[h], rebuild.cidrs)}
  BY DEF RebuildApply, NoRebuild
<1>3. HolderInv' /\ TargetInv' /\ RebuildInv'
  BY <1>2, EnrollmentAssumption DEF HolderInv, TargetInv, RebuildInv
<1>4. Owed => Owed'
  BY <1>2, EnrollmentAssumption DEF Owed
<1>5. ASSUME ~Owed, NEW h \in Hosts PROVE UpToDate(h)'
  <2>1. cidrs = rebuild.cidrs /\ enrolled[h] = Pruned(rebuild.hosts[h], cidrs)
    BY <1>2, <1>5 DEF IInv, RebuildInv
  <2>2. rebuild.hosts[h] \in Entries(h)
    BY <1>1 DEF TypeOK, EntryMap
  <2>3. SingleTarget(h, cidrs, "on") => rebuild.hosts[h] # Absent
    BY <1>2, <2>1 DEF IInv, TargetInv
  <2>4. h \in monitored' <=> Included(h, rebuild.hosts[h], cidrs)
    BY <1>2, <2>1
  <2> QED
    BY <1>2, <2>1, <2>2, <2>3, <2>4 DEF UpToDate, Pruned, SingleTarget, Included, Covering
<1>6. EngineInv'
  BY <1>4, <1>5 DEF EngineInv
<1> QED
  BY <1>1, <1>3, <1>6 DEF IInv

LEMMA NextIInv == IInv /\ [Next]_vars => IInv'
<1> SUFFICES ASSUME IInv, [Next]_vars PROVE IInv'
  OBVIOUS
<1>1. ASSUME Restart PROVE IInv'
  <2>1. TypeOK'
    BY <1>1, SweepTypes DEF IInv
  <2>2. rebuild' = Rebuilding(Boot) /\ cidrs' = cidrs
    BY <1>1 DEF Restart
  <2>3. HolderInv'
    BY <2>2, EnrollmentAssumption DEF HolderInv, Rebuilding
  <2> QED
    BY <2>1, <2>2, <2>3 DEF IInv, RebuildInv, TargetInv, EngineInv, Rebuilding
<1>2. ASSUME UNCHANGED vars PROVE IInv'
  <2>1. TypeOK' /\ HolderInv' /\ TargetInv'
    BY <1>2 DEF vars, IInv, TypeOK, HolderInv, TargetInv, SingleTarget
  <2>2. RebuildInv'
    BY <1>2 DEF vars, IInv, RebuildInv, Owed, Pruned
  <2>3. EngineInv'
    BY <1>2 DEF vars, IInv, EngineInv, Owed, UpToDate, Pruned, SingleTarget, Included, Covering
  <2> QED
    BY <2>1, <2>2, <2>3 DEF IInv
<1> QED
  BY <1>1, <1>2, ApiKeeps, SweepKeeps, RebuildStartKeeps, RebuildHostsKeeps,
     RebuildPersistKeeps, RebuildPruneKeeps, RebuildApplyKeeps DEF Next, Rebuild

LEMMA IInvHolds == Spec => []IInv
  BY InitIInv, NextIInv, PTL DEF Spec

---------------------------------------------------------------------------
(* When nothing is under way                                               *)

LEMMA SettledIsUpToDate ==
  ASSUME IInv, Settled
  PROVE  \A h \in Hosts : UpToDate(h)
<1>1. ~Owed
  BY DEF Settled, Owed
<1> QED
  BY <1>1 DEF IInv, EngineInv, Settled

\* The engine monitors what the store says, for every host that one CIDR at most covers,
\* whatever requests, sweeps, imports, rebuilds and restarts overlapped.
THEOREM EngineHasWhatTheStoreSays == Spec => []EngineMatchesStore
<1>1. IInv => EngineMatchesStore
  <2> SUFFICES ASSUME IInv, Settled, NEW h \in Hosts,
                      Cardinality({c \in Cidrs : h \in Covers[c]}) <= 1
               PROVE  h \in monitored <=> Included(h, enrolled[h], cidrs)
    BY DEF EngineMatchesStore
  <2>1. PICK ent \in Entries(h) : /\ enrolled[h] = Pruned(ent, cidrs)
                                  /\ h \in monitored <=> Included(h, ent, cidrs)
    BY SettledIsUpToDate DEF UpToDate
  <2>2. ASSUME NEW c \in Cidrs, NEW d \in Cidrs, h \in Covers[c], h \in Covers[d] PROVE c = d
    <3> DEFINE covering == {e \in Cidrs : h \in Covers[e]}
    <3>1. IsFiniteSet(covering)
      BY FS_Subset, EnrollmentAssumption
    <3>2. Cardinality({c, d}) <= Cardinality(covering)
      BY <2>2, <3>1, FS_Subset
    <3>3. c # d => Cardinality({c, d}) = 2
      <4>1. IsFiniteSet({c}) /\ Cardinality({c}) = 1
        BY FS_Singleton
      <4>2. Cardinality({c} \cup {d}) = IF d \in {c} THEN Cardinality({c}) ELSE Cardinality({c}) + 1
        BY <4>1, FS_AddElement
      <4>3. {c} \cup {d} = {c, d}
        OBVIOUS
      <4> QED
        BY <4>1, <4>2, <4>3
    <3>4. Cardinality(covering) \in Nat
      BY <3>1, FS_CardinalityType
    <3> QED
      BY <3>2, <3>3, <3>4
  <2>3. CASE ent \in Cidrs /\ cidrs[ent] = "none"
    <3>1. enrolled[h] = Absent /\ ent # Static /\ h \in Covers[ent]
      BY <2>1, <2>3, EnrollmentAssumption DEF Pruned, Entries
    <3>2. Covering(h, cidrs) = {}
      BY <2>2, <2>3, <3>1 DEF Covering
    <3> QED
      BY <2>1, <2>3, <3>1, <3>2 DEF Included
  <2>4. CASE ~(ent \in Cidrs /\ cidrs[ent] = "none")
    BY <2>1, <2>4 DEF Pruned
  <2> QED
    BY <2>3, <2>4
<1> QED
  BY <1>1, IInvHolds, PTL

\* An enabled single-IP target is monitored, also after a deletion of the same CIDR or an
\* un-enrollment that overlapped its addition (server.go, RebuildTargetList).
THEOREM SingleTargetsAreMonitored == Spec => []SingleTargetsMonitored
<1>1. IInv => SingleTargetsMonitored
  <2> SUFFICES ASSUME IInv, Settled, NEW h \in Hosts, SingleTarget(h, cidrs, "on")
               PROVE  h \in monitored
    BY DEF SingleTargetsMonitored
  <2>1. PICK ent \in Entries(h) : ent # Absent /\ (h \in monitored <=> Included(h, ent, cidrs))
    BY SettledIsUpToDate DEF UpToDate
  <2>2. Covering(h, cidrs) # {}
    BY DEF SingleTarget, Covering
  <2> QED
    BY <2>1, <2>2 DEF Included
<1> QED
  BY <1>1, IInvHolds, PTL

---------------------------------------------------------------------------
(* Promoted hosts                                                          *)

\* No sweep, import or prune takes away what an operator promoted.
PromotedInv == \A h \in promoted : enrolled[h] = Static

LEMMA NextPromoted == TypeOK /\ PromotedInv /\ [Next]_vars => PromotedInv'
<1> SUFFICES ASSUME TypeOK, PromotedInv, [Next]_vars PROVE PromotedInv'
  OBVIOUS
<1> USE DEF PromotedInv, TypeOK, HostSet, EntryMap
<1>1. ASSUME NEW x \in Handlers, Api(x) PROVE PromotedInv'
  <2>1. ASSUME UNCHANGED <<enrolled, promoted>> PROVE PromotedInv'
    BY <2>1
  <2>2. ASSUME Remove(x) PROVE PromotedInv'
    BY <2>2 DEF Remove
  <2>3. ASSUME NEW h \in Hosts, Promote(x, h) PROVE PromotedInv'
    BY <2>3 DEF Promote
  <2>4. ASSUME ImportReplace(x) PROVE PromotedInv'
    BY <2>4 DEF ImportReplace
  <2> HIDE DEF PromotedInv, TypeOK, HostSet, EntryMap
  <2> QED
    BY <1>1, <2>1, <2>2, <2>3, <2>4
    DEF Api, PostCidr, ReadCidr, PutCidr, DeleteCidr, CheckStatic, Unenroll, ImportRead,
        ImportCheck
<1>2. ASSUME Sweep PROVE PromotedInv'
  <2>1. ASSUME NEW replied \in SUBSET Hosts, SweepSave(replied) PROVE PromotedInv'
    BY <2>1 DEF SweepSave, Merged
  <2> QED
    BY <1>2, <2>1 DEF Sweep, SweepStart, SweepSnapshot
<1>3. ASSUME RebuildPersist PROVE PromotedInv'
  BY <1>3 DEF RebuildPersist
<1>4. ASSUME RebuildPrune PROVE PromotedInv'
  BY <1>4, EnrollmentAssumption DEF RebuildPrune
<1>5. ASSUME UNCHANGED <<enrolled, promoted>> PROVE PromotedInv'
  BY <1>5
<1> HIDE DEF PromotedInv, TypeOK, HostSet, EntryMap
<1> QED
  BY <1>1, <1>2, <1>3, <1>4, <1>5
  DEF Next, Rebuild, RebuildStart, RebuildHosts, RebuildApply, Restart, vars

\* A host an operator promoted stays monitored, also when a sweep saves what it read
\* before, unless its address is a disabled single-IP target.
THEOREM PromotedStay == Spec => []PromotedStaysMonitored
<1>1. Init => PromotedInv
  BY DEF Init, PromotedInv
<1>2. IInv /\ PromotedInv => PromotedStaysMonitored
  <2> SUFFICES ASSUME IInv, PromotedInv, Settled, NEW h \in promoted
               PROVE  h \in monitored \/ SingleTarget(h, cidrs, "off")
    BY DEF PromotedStaysMonitored
  <2>1. h \in Hosts /\ enrolled[h] = Static
    BY DEF IInv, TypeOK, HostSet, PromotedInv
  <2>2. PICK ent \in Entries(h) : /\ enrolled[h] = Pruned(ent, cidrs)
                                  /\ h \in monitored <=> Included(h, ent, cidrs)
    BY <2>1, SettledIsUpToDate DEF UpToDate
  <2>3. ent = Static
    BY <2>1, <2>2, EnrollmentAssumption DEF Pruned
  <2> QED
    BY <2>2, <2>3, EnrollmentAssumption DEF Included
<1>3. IInv => TypeOK
  BY DEF IInv
<1> QED
  BY <1>1, <1>2, <1>3, NextPromoted, IInvHolds, PTL DEF Spec

---------------------------------------------------------------------------
(* Discovery: the queue of sweeps                                          *)

QueueInv == DiscoveryTypeOK /\ NoStrandedRequest /\ ScanningShown

LEMMA InitQueueInv == DiscoveryInit => QueueInv
<1> SUFFICES ASSUME DiscoveryInit PROVE QueueInv
  OBVIOUS
<1>1. \A r \in Runners : runner[r] = [pc |-> "gone", all |-> FALSE, only |-> {}]
  BY DEF DiscoveryInit, At, RunnerState
<1>2. DiscoveryTypeOK
  <2>1. runner \in [Runners -> RunnerState]
    BY DEF DiscoveryInit, At, RunnerState
  <2>2. \A r \in Runners : runner[r].all => runner[r].only = {}
    BY <1>1
  <2>3. settings \in 0 .. MaxSettings /\ pending \in SUBSET SweepCidrs
    BY DiscoveryAssumption DEF DiscoveryInit
  <2>4. pendingAll \in BOOLEAN /\ active \in BOOLEAN /\ scanning \in BOOLEAN
        /\ lastFull \in {"never", "recent", "old"} /\ periodic \in BOOLEAN
    BY DEF DiscoveryInit
  <2>5. QED BY <2>1, <2>2, <2>3, <2>4 DEF DiscoveryInit, DiscoveryTypeOK
<1>3. Workers = {} /\ ~Asked
  BY <1>1 DEF DiscoveryInit, Workers, Working, Asked
<1>4. NoStrandedRequest
  BY <1>3 DEF DiscoveryInit, NoStrandedRequest
<1>5. ScanningShown
  BY <1>1, <1>3 DEF DiscoveryInit, ScanningShown
<1>6. QED BY <1>2, <1>4, <1>5 DEF QueueInv

\* RequestDiscovery, for the API and the loop: the new request is shown, and it
\* meets a working runner or starts the only one.
LEMMA RequestQueueInv ==
  ASSUME QueueInv, NEW all \in BOOLEAN, NEW cs \in SUBSET SweepCidrs,
         all \/ cs # {}, Request(all, cs),
         UNCHANGED <<lastFull, interval, stop>>,
         loop' \in {"wait", "tick", "ask", "exit"}
  PROVE QueueInv'
<1> USE DEF QueueInv, DiscoveryTypeOK, NoStrandedRequest, ScanningShown, Asked, Workers, Working, RunnerState, queue, interval
<1>1. CASE stop # "no"
  BY <1>1 DEF Request
<1>2. CASE stop = "no" /\ active
  <2>1. runner' = runner /\ active' = active /\ scanning' = TRUE
    BY <1>2 DEF Request, StartRunner
  <2>2. pendingAll' \in BOOLEAN /\ pending' \in SUBSET SweepCidrs
    BY <1>2 DEF Request
  <2>3. DiscoveryTypeOK'
    BY <2>1, <2>2
  <2>4. NoStrandedRequest'
    BY <1>2, <2>1
  <2>5. Asked'
    BY <1>2 DEF Request
  <2>6. QED BY <2>1, <2>3, <2>4, <2>5
<1>3. CASE stop = "no" /\ ~active
  <2>1. PICK r \in Runners : runner[r].pc = "gone" /\ runner' = [runner EXCEPT ![r] = At("take")]
    BY <1>3 DEF Request, StartRunner
  <2>2. \A q \in Runners : runner'[q].pc \in Working <=> q = r
    BY <1>3, <2>1 DEF At
  <2>3. runner'[r] = At("take") /\ \A q \in Runners : q # r => runner'[q] = runner[q]
    BY <2>1
  <2>4. DiscoveryTypeOK'
    BY <1>3, <2>1 DEF Request, StartRunner, At
  <2>5. NoStrandedRequest'
    BY <1>3, <2>2 DEF Request, StartRunner
  <2>6. ScanningShown'
    <3>1. \A q \in Runners : runner'[q].pc \notin {"sweep", "finish", "abort"}
      BY <2>2, <2>3 DEF At
    <3>2. scanning' /\ Asked'
      BY <1>3 DEF Request
    <3>3. QED BY <3>1, <3>2
  <2>7. QED BY <2>4, <2>5, <2>6
<1>4. QED BY <1>1, <1>2, <1>3

\* A step of the working runner: no other runner works, so what it writes into
\* the status is right.
LEMMA RunQueueInv ==
  ASSUME QueueInv, NEW r \in Runners, Run(r)
  PROVE QueueInv'
<1> USE DEF QueueInv, DiscoveryTypeOK, NoStrandedRequest, ScanningShown, Asked, Workers, Working, RunnerState, queue, interval
<1>1. CASE Take(r)
  <2>1. runner[r].pc = "take" /\ \A q \in Runners : runner[q].pc \in Working => q = r
    BY <1>1 DEF Take
  <2>2. pending' = {} /\ pendingAll' = FALSE /\ ~Asked' /\ active
    BY <1>1, <2>1 DEF Take
  <2>3. CASE Asked
    <3> DEFINE only == IF pendingAll THEN {} ELSE pending
               task == [pc |-> "sweep", all |-> pendingAll, only |-> only]
    <3>1. runner' = [runner EXCEPT ![r] = task] /\ UNCHANGED <<active, scanning>>
      BY <1>1, <2>3 DEF Take
    <3>2. /\ task \in RunnerState
          /\ task.pc = "sweep" /\ (task.all => task.only = {})
      OBVIOUS
    <3> HIDE DEF task
    <3>3. runner'[r] = task /\ \A q \in Runners : q # r => runner'[q] = runner[q]
      BY <3>1
    <3>4. DiscoveryTypeOK'
      <4>1. UNCHANGED <<active, scanning, lastFull, interval, loop, stop>>
        BY <1>1, <3>1 DEF Take
      <4>2. /\ runner' \in [Runners -> RunnerState]
            /\ \A q \in Runners : runner'[q].all => runner'[q].only = {}
        BY <3>1, <3>2, <3>3
      <4>3. pending' \in SUBSET SweepCidrs /\ pendingAll' \in BOOLEAN
        BY <2>2
      <4>4. QED BY <4>1, <4>2, <4>3
    <3>5. NoStrandedRequest'
      BY <2>1, <2>2, <3>1, <3>2, <3>3
    <3>6. scanning' = scanning /\ scanning
      BY <2>3, <3>1
    <3>7. QED BY <3>2, <3>3, <3>4, <3>5, <3>6
  <2>4. CASE ~Asked
    <3>1. runner' = [runner EXCEPT ![r] = At("leave")] /\ active' = FALSE /\ scanning' = FALSE
      BY <1>1, <2>4 DEF Take
    <3>2. runner'[r] = At("leave") /\ \A q \in Runners : q # r => runner'[q] = runner[q]
      BY <3>1
    <3>3. \A q \in Runners : runner'[q].pc \notin Working
      BY <2>1, <3>2 DEF At
    <3>4. DiscoveryTypeOK'
      <4>1. UNCHANGED <<lastFull, interval, loop, stop>> /\ active' \in BOOLEAN /\ scanning' \in BOOLEAN
        BY <1>1, <3>1 DEF Take
      <4>2. /\ runner' \in [Runners -> RunnerState]
            /\ \A q \in Runners : runner'[q].all => runner'[q].only = {}
        BY <3>1, <3>2 DEF At
      <4>3. pending' \in SUBSET SweepCidrs /\ pendingAll' \in BOOLEAN
        BY <2>2
      <4>4. QED BY <4>1, <4>2, <4>3
    <3>5. QED BY <2>2, <3>1, <3>3, <3>4
  <2>5. QED BY <2>3, <2>4
<1>2. CASE Finish(r)
  <2>1. runner[r].pc = "finish" /\ \A q \in Runners : runner[q].pc \in Working => q = r
    BY <1>2 DEF Finish
  <2>2. /\ runner'[r] = At("take") /\ \A q \in Runners : q # r => runner'[q] = runner[q]
        /\ UNCHANGED <<pending, pendingAll, active, interval, loop, stop>>
    BY <1>2 DEF Finish
  <2>3. lastFull' \in {"never", "recent", "old"} /\ scanning' \in BOOLEAN /\ (scanning' <=> Asked')
    BY <1>2 DEF Finish
  <2>4. DiscoveryTypeOK'
    BY <1>2, <2>2, <2>3 DEF Finish, At
  <2>5. NoStrandedRequest'
    BY <2>1, <2>2 DEF At
  <2>6. \A q \in Runners : runner'[q].pc \notin {"sweep", "finish", "abort"}
    BY <2>1, <2>2 DEF At
  <2>7. QED BY <2>3, <2>4, <2>5, <2>6
<1>3. CASE Abort(r)
  <2>1. runner[r].pc = "abort" /\ \A q \in Runners : runner[q].pc \in Working => q = r
    BY <1>3 DEF Abort
  <2>2. /\ runner'[r] = At("leave") /\ \A q \in Runners : q # r => runner'[q] = runner[q]
        /\ active' = FALSE /\ scanning' = FALSE /\ ~Asked'
    BY <1>3 DEF Abort
  <2>3. DiscoveryTypeOK'
    <3>1. /\ runner' \in [Runners -> RunnerState]
          /\ \A q \in Runners : runner'[q].all => runner'[q].only = {}
      BY <1>3, <2>2 DEF Abort, At
    <3>2. UNCHANGED <<lastFull, interval, loop, stop>> /\ active' \in BOOLEAN /\ scanning' \in BOOLEAN
      BY <1>3 DEF Abort
    <3>3. pending' \in SUBSET SweepCidrs /\ pendingAll' \in BOOLEAN
      BY <1>3 DEF Abort
    <3>4. QED BY <3>1, <3>2, <3>3
  <2>4. \A q \in Runners : runner'[q].pc \notin Working
    BY <2>1, <2>2 DEF At
  <2>5. QED BY <2>2, <2>3, <2>4
<1>4. CASE Leave(r)
  BY <1>4 DEF Leave, At
<1>5. CASE \E aborted \in BOOLEAN : SweepEnds(r, aborted)
  BY <1>5 DEF SweepEnds
<1>6. QED BY <1>1, <1>2, <1>3, <1>4, <1>5 DEF Run

LEMMA NextQueueInv == QueueInv /\ [DiscoveryNext]_discVars => QueueInv'
<1> SUFFICES ASSUME QueueInv, [DiscoveryNext]_discVars PROVE QueueInv'
  OBVIOUS
<1>1. CASE \E all \in BOOLEAN, cs \in SUBSET SweepCidrs : ApiRequest(all, cs)
  <2>1. PICK all \in BOOLEAN, cs \in SUBSET SweepCidrs : ApiRequest(all, cs)
    BY <1>1
  <2>2. /\ Request(all, cs) /\ UNCHANGED <<lastFull, interval, stop>>
        /\ loop' \in {"wait", "tick", "ask", "exit"}
    BY <2>1 DEF ApiRequest, QueueInv, DiscoveryTypeOK
  <2>3. all \/ cs # {}
    BY <2>1 DEF ApiRequest
  <2>4. QED BY <2>2, <2>3, RequestQueueInv
<1>2. CASE \E r \in Runners : Run(r)
  BY <1>2, RunQueueInv
<1>3. CASE Loop
  <2>1. CASE LoopFirst /\ Request(TRUE, {})
    BY <2>1, RequestQueueInv DEF LoopFirst, QueueInv, DiscoveryTypeOK
  <2>2. CASE LoopFirst /\ UNCHANGED <<queue, scanning, active, runner>>
    BY <2>2 DEF LoopFirst, queue, interval, QueueInv, DiscoveryTypeOK, NoStrandedRequest, ScanningShown, Asked, Workers
  <2>3. CASE LoopAsk
    BY <2>3, RequestQueueInv DEF LoopAsk, QueueInv, DiscoveryTypeOK
  <2>4. CASE LoopTick \/ LoopExit
    BY <2>4 DEF LoopTick, LoopExit, queue, interval, QueueInv, DiscoveryTypeOK, NoStrandedRequest, ScanningShown, Asked, Workers
  <2>5. QED BY <1>3, <2>1, <2>2, <2>3, <2>4 DEF Loop, LoopFirst
<1>4. CASE FallDue
  <2>1. /\ UNCHANGED <<queue, active, scanning, interval, runner, loop, stop>>
        /\ lastFull' \in {"never", "recent", "old"}
    BY <1>4 DEF FallDue
  <2>2. QED
    BY <2>1 DEF queue, interval, QueueInv, DiscoveryTypeOK, NoStrandedRequest, ScanningShown, Asked, Workers
<1>5. CASE CloseStop \/ StopDone \/ UNCHANGED discVars
  BY <1>5 DEF CloseStop, StopDone, discVars, queue, interval, QueueInv, DiscoveryTypeOK,
              NoStrandedRequest, ScanningShown, Asked, Workers
<1>6. CASE \E on \in BOOLEAN : SetInterval(on)
  <2>1. PICK on \in BOOLEAN : SetInterval(on)
    BY <1>6
  <2>2. /\ UNCHANGED <<queue, active, scanning, runner, loop, stop>>
        /\ periodic' \in BOOLEAN /\ settings' \in 0 .. MaxSettings
        /\ lastFull' \in {"never", "recent", "old"}
    BY <2>1, DiscoveryAssumption DEF SetInterval, QueueInv, DiscoveryTypeOK
  <2>3. QED
    BY <2>2 DEF queue, QueueInv, DiscoveryTypeOK, NoStrandedRequest, ScanningShown, Asked, Workers
<1>7. QED BY <1>1, <1>2, <1>3, <1>4, <1>5, <1>6 DEF DiscoveryNext

\* RequestDiscovery and runQueuedDiscovery: a request in the queue always has a
\* runner that will look at the queue again, and there is never a second runner.
THEOREM QueuedSweepsHaveARunner == DiscoverySpec => []NoStrandedRequest
<1>1. DiscoverySpec => []QueueInv
  BY InitQueueInv, NextQueueInv, PTL DEF DiscoverySpec
<1>2. QueueInv => NoStrandedRequest
  BY DEF QueueInv
<1>3. QED BY <1>1, <1>2, PTL

\* discoveryStatus.IsScanning is set exactly while a sweep runs or waits to run.
THEOREM StatusShowsTheScan == DiscoverySpec => []ScanningShown
<1>1. DiscoverySpec => []QueueInv
  BY InitQueueInv, NextQueueInv, PTL DEF DiscoverySpec
<1>2. QueueInv => ScanningShown
  BY DEF QueueInv
<1>3. QED BY <1>1, <1>2, PTL
=============================================================================
