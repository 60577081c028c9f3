------------------------------ MODULE Metrics ------------------------------
(***************************************************************************)
(* The latency history of the hosts (pkg/timeseries/store.go): probes      *)
(* record samples in a ring buffer per host, and rollupLoop makes of them  *)
(* one point per minute and, through the hour in progress of each host,    *)
(* one per hour.  Meanwhile the engine removes hosts and changes the       *)
(* limit.                                                                  *)
(*                                                                         *)
(* Record, PruneHosts and SetCapacity run under the mutex of the engine;   *)
(* only the loop runs beside them.  A sample is known by its time.  Times  *)
(* are ticks of the loop, and 0 stands for no hour, as in the code.        *)
(***************************************************************************)
EXTENDS Naturals, FiniteSets, Sequences, SequencesExt

CONSTANTS
  Hosts,
  None,         \* no sample, no buffer, no rollup state
  Minute, Hour, \* the buckets, in ticks
  Grace,        \* rollupGrace
  Retention,    \* RawSampleRetention
  Limits,       \* values of MaxMetricHosts
  MaxLate,      \* bound: how late the loop ends the work that is due
  MaxTime,      \* bound: the clock
  MaxSamples,   \* bound: samples in one behaviour
  MaxChanges    \* bound: changes of the targets and of the limit

Times == 0 .. MaxTime
Points == [start : Times, samples : SUBSET Times]
Aggs == [hour : Times, samples : SUBSET Times]
Sample == [host : Hosts, at : Times]

ASSUME MetricsAssumption ==
  /\ Minute \in Nat \ {0} /\ Hour \in {k * Minute : k \in 1 .. Hour}
  /\ Grace \in Nat /\ MaxLate \in Nat /\ Limits \subseteq Nat \ {0}
  /\ MaxTime \in Nat /\ MaxTime >= Hour /\ MaxSamples \in Nat /\ MaxChanges \in Nat
  /\ None \notin Hosts \cup Aggs
  \* "a full minute bucket plus the few seconds that can pass before the bucket is
  \* rolled up", with a sample of each host per tick
  /\ Retention \in Nat /\ Retention > Minute + Grace + MaxLate

VARIABLES
  now,          \* the clock
  monitored,    \* the hosts of the engine
  limit,        \* Store.maxHosts
  lru,          \* Store.lruList: the hosts with a buffer, the latest sample first
  samples,      \* all samples of a host since it got its buffer
  recording,    \* a sample that has its time and is not in the buffer yet
  aggs,         \* Store.aggs: the hour in progress
  minutes,      \* Store.minuteSeries
  hours,        \* Store.hourSeries
  loop,         \* rollupLoop
  nextMinute,   \* ends of the next buckets
  nextHour,
  taken,        \* samples so far
  changes       \* changes so far

store == <<lru, samples, aggs, minutes, hours>>
rollup == <<loop, nextMinute, nextHour>>
vars == <<now, monitored, limit, store, recording, rollup, taken, changes>>

\* A live buffer is the one in the map; one that was removed meanwhile stays as it was.
Idle == [pc |-> "idle", at |-> 0, todo |-> {}, host |-> None, live |-> FALSE, kept |-> {},
         point |-> None]
Loops == [pc : {"idle", "minutes", "pick", "roll", "append", "hours", "hourpick", "hourappend"},
          at : Times, todo : SUBSET Hosts, host : Hosts \cup {None}, live : BOOLEAN,
          kept : SUBSET Times, point : {None} \cup Points]

TypeOK ==
  /\ now \in Times /\ monitored \subseteq Hosts /\ limit \in Limits
  /\ lru \in Seq(Hosts) /\ samples \in [Hosts -> SUBSET Times]
  /\ recording \in {None} \cup Sample
  /\ aggs \in [Hosts -> {None} \cup Aggs]
  /\ minutes \in [Hosts -> Seq(Points)] /\ hours \in [Hosts -> Seq(Points)]
  /\ loop \in Loops
  /\ nextMinute \in Nat /\ nextHour \in Nat
  /\ taken \in 0 .. MaxSamples /\ changes \in 0 .. MaxChanges

Init ==
  /\ now = Hour /\ monitored = Hosts /\ limit \in Limits
  /\ lru = <<>> /\ samples = [h \in Hosts |-> {}] /\ recording = None
  /\ aggs = [h \in Hosts |-> None]
  /\ minutes = [h \in Hosts |-> <<>>] /\ hours = [h \in Hosts |-> <<>>]
  /\ loop = Idle /\ nextMinute = Hour + Minute /\ nextHour = 2 * Hour
  /\ taken = 0 /\ changes = 0

Truncate(t, size) == (t \div size) * size

\* What a ring buffer holds of the samples that were put in it.
Ring(S) == {t \in S : Cardinality({u \in S : u > t}) < Retention}

\* The list without these hosts.
Without(list, gone) ==
  LET kept[n \in 0 .. Len(list)] ==
        IF n = 0 THEN <<>>
        ELSE IF list[n] \in gone THEN kept[n - 1] ELSE Append(kept[n - 1], list[n])
  IN kept[Len(list)]

---------------------------------------------------------------------------
(* Probes                                                                  *)

\* The clock goes on; a sample is recorded within the grace, and the loop is at most
\* MaxLate behind.
Tick ==
  /\ now < MaxTime
  /\ recording # None => now < recording.at + Grace
  /\ now < nextMinute + Grace + MaxLate /\ now < nextHour + Grace + MaxLate
  /\ now' = now + 1
  /\ UNCHANGED <<monitored, limit, store, recording, rollup, taken, changes>>

\* The result of a probe takes its time, under the mutex of the engine. Probes of a host
\* are at least a tick apart.
Probe(h) ==
  /\ h \in monitored /\ recording = None /\ taken < MaxSamples
  /\ \A t \in samples[h] : t < now
  /\ recording' = [host |-> h, at |-> now]
  /\ taken' = taken + 1
  /\ UNCHANGED <<now, monitored, limit, store, rollup, changes>>

\* Variant: a host that has a buffer keeps its place in the list.
RecordInPlace(h) ==
  /\ recording # None /\ recording.host = h
  /\ \/ /\ h \in Range(lru) /\ UNCHANGED lru
        /\ samples' = [samples EXCEPT ![h] = @ \cup {recording.at}]
     \/ /\ h \notin Range(lru) /\ Len(lru) < limit
        /\ lru' = <<h>> \o lru /\ samples' = [samples EXCEPT ![h] = {recording.at}]
     \/ /\ h \notin Range(lru) /\ Len(lru) >= limit
        /\ UNCHANGED <<lru, samples>>
  /\ recording' = None
  /\ UNCHANGED <<now, monitored, limit, aggs, minutes, hours, rollup, taken, changes>>

\* Record: the host moves to the front of the list; a new one gets a buffer below the
\* limit only.
Record(h) ==
  /\ recording # None /\ recording.host = h
  /\ \/ /\ h \in Range(lru) /\ lru' = <<h>> \o Without(lru, {h})
        /\ samples' = [samples EXCEPT ![h] = @ \cup {recording.at}]
     \/ /\ h \notin Range(lru) /\ Len(lru) < limit
        /\ lru' = <<h>> \o lru /\ samples' = [samples EXCEPT ![h] = {recording.at}]
     \/ /\ h \notin Range(lru) /\ Len(lru) >= limit
        /\ UNCHANGED <<lru, samples>>
  /\ recording' = None
  /\ UNCHANGED <<now, monitored, limit, aggs, minutes, hours, rollup, taken, changes>>

---------------------------------------------------------------------------
(* Targets and limit                                                       *)

\* The buffers of these hosts are removed; the loop may still hold one of them.
DropBuffers(gone) ==
  /\ lru' = Without(lru, gone)
  /\ samples' = [h \in Hosts |-> IF h \in gone THEN {} ELSE samples[h]]
  /\ loop' = IF loop.live /\ loop.host \in gone
             THEN [loop EXCEPT !.live = FALSE, !.kept = Ring(samples[loop.host])] ELSE loop

DropRollups(gone) ==
  /\ aggs' = [h \in Hosts |-> IF h \in gone THEN None ELSE aggs[h]]
  /\ minutes' = [h \in Hosts |-> IF h \in gone THEN <<>> ELSE minutes[h]]
  /\ hours' = [h \in Hosts |-> IF h \in gone THEN <<>> ELSE hours[h]]

\* Variant: only hosts that have a buffer are looked at.
PruneBuffers(active) ==
  DropBuffers(Hosts \ active) /\ DropRollups(Range(lru) \ active)

\* What the loop put back for a host that had gone goes too.
PruneHosts(active) ==
  DropBuffers(Hosts \ active) /\ DropRollups(Hosts \ active)

SetTargets(active) ==
  /\ recording = None /\ changes < MaxChanges /\ active # monitored
  /\ changes' = changes + 1
  /\ monitored' = active
  /\ PruneHosts(active)
  /\ UNCHANGED <<now, limit, recording, nextMinute, nextHour, taken>>

\* The hosts above the limit go, the least recent first.
SetCapacity(n) ==
  /\ recording = None /\ changes < MaxChanges /\ n # limit
  /\ changes' = changes + 1
  /\ limit' = n
  /\ LET gone == {lru[i] : i \in {j \in DOMAIN lru : j > n}}
     IN  DropBuffers(gone) /\ DropRollups(gone)
  /\ UNCHANGED <<now, monitored, recording, nextMinute, nextHour, taken>>

---------------------------------------------------------------------------
(* The loop                                                                *)

\* Variant: no grace.
DueAtOnce(at, end) == at >= end

Due(at, end) == at >= end + Grace

\* After a long pause only the last bucket that ended is rolled up.
Resume(at, end, size) == IF at > end + 2 * size THEN Truncate(at, size) ELSE end

Loop(pc) == loop' = [loop EXCEPT !.pc = pc]

\* The ticker. A tick with nothing due changes nothing.
Wake ==
  /\ loop.pc = "idle" /\ (Due(now, nextMinute) \/ Due(now, nextHour))
  /\ loop' = [loop EXCEPT !.pc = "minutes", !.at = now]
  /\ nextMinute' = Resume(now, nextMinute, Minute)
  /\ UNCHANGED <<now, monitored, limit, store, recording, nextHour, taken, changes>>

\* The hosts that have a buffer are listed. When no minute is due, the hours follow.
Minutes ==
  /\ loop.pc = "minutes"
  /\ IF Due(loop.at, nextMinute)
     THEN loop' = [loop EXCEPT !.pc = "pick", !.todo = Range(lru)] /\ UNCHANGED nextHour
     ELSE Loop("hours") /\ nextHour' = Resume(loop.at, nextHour, Hour)
  /\ UNCHANGED <<now, monitored, limit, store, recording, nextMinute, taken, changes>>

\* The buffer of the next host, if it still has one.
Pick(h) ==
  /\ loop.pc = "pick" /\ h \in loop.todo
  /\ loop' = IF h \in Range(lru)
             THEN [loop EXCEPT !.pc = "roll", !.todo = @ \ {h}, !.host = h, !.live = TRUE]
             ELSE [loop EXCEPT !.todo = @ \ {h}]
  /\ UNCHANGED <<now, monitored, limit, store, recording, nextMinute, nextHour, taken, changes>>

\* rollupMinute: the samples of the minute, into the hour in progress too. A host that
\* has gone meanwhile gets a new hour in progress.
RollMinute ==
  LET h == loop.host
      start == nextMinute - Minute
      buffer == IF loop.live THEN Ring(samples[h]) ELSE loop.kept
      bucket == {t \in buffer : start <= t /\ t < nextMinute}
      agg == IF aggs[h] = None THEN [hour |-> 0, samples |-> {}] ELSE aggs[h]
      hour == Truncate(start, Hour)
  IN  /\ loop.pc = "roll"
      /\ IF bucket = {}
         THEN /\ aggs' = [aggs EXCEPT ![h] = agg]
              /\ loop' = [loop EXCEPT !.pc = "pick", !.host = None, !.live = FALSE, !.kept = {}]
         ELSE /\ aggs' = [aggs EXCEPT ![h] =
                   [hour |-> hour, samples |-> bucket \cup (IF agg.hour = hour THEN agg.samples ELSE {})]]
              /\ loop' = [loop EXCEPT !.pc = "append", !.live = FALSE, !.kept = {},
                                      !.point = [start |-> start, samples |-> bucket]]
      /\ UNCHANGED <<now, monitored, limit, lru, samples, minutes, hours, recording,
                     nextMinute, nextHour, taken, changes>>

\* The point goes to the series of the host, also if that has to be made for it.
AppendMinute ==
  /\ loop.pc = "append"
  /\ minutes' = [minutes EXCEPT ![loop.host] = Append(@, loop.point)]
  /\ loop' = [loop EXCEPT !.pc = "pick", !.host = None, !.point = None]
  /\ UNCHANGED <<now, monitored, limit, lru, samples, aggs, hours, recording,
                 nextMinute, nextHour, taken, changes>>

EndMinute ==
  /\ loop.pc = "pick" /\ loop.todo = {}
  /\ Loop("minutes")
  /\ nextMinute' = nextMinute + Minute
  /\ UNCHANGED <<now, monitored, limit, store, recording, nextHour, taken, changes>>

\* The hosts with an hour in progress are listed, or the loop waits for its ticker.
HoursOrWait ==
  /\ loop.pc = "hours"
  /\ loop' = IF Due(loop.at, nextHour)
             THEN [loop EXCEPT !.pc = "hourpick", !.todo = {h \in Hosts : aggs[h] # None}]
             ELSE Idle
  /\ UNCHANGED <<now, monitored, limit, store, recording, nextMinute, nextHour, taken, changes>>

\* Variant: the hour stays in progress.
RollHourAndKeep(h) ==
  LET start == nextHour - Hour
      done == aggs[h] # None /\ aggs[h].hour = start /\ aggs[h].samples # {}
  IN  /\ loop.pc = "hourpick" /\ h \in loop.todo
      /\ loop' = IF done
                 THEN [loop EXCEPT !.pc = "hourappend", !.todo = @ \ {h}, !.host = h,
                                   !.point = [start |-> start, samples |-> aggs[h].samples]]
                 ELSE [loop EXCEPT !.todo = @ \ {h}]
      /\ UNCHANGED <<now, monitored, limit, lru, samples, aggs, minutes, hours, recording,
                     nextMinute, nextHour, taken, changes>>

\* rollupHour: the hour that ended becomes a point. It, or an older one, is no longer in
\* progress.
RollHour(h) ==
  LET start == nextHour - Hour
      done == aggs[h] # None /\ aggs[h].hour = start /\ aggs[h].samples # {}
  IN  /\ loop.pc = "hourpick" /\ h \in loop.todo
      /\ loop' = IF done
                 THEN [loop EXCEPT !.pc = "hourappend", !.todo = @ \ {h}, !.host = h,
                                   !.point = [start |-> start, samples |-> aggs[h].samples]]
                 ELSE [loop EXCEPT !.todo = @ \ {h}]
      /\ aggs' = [aggs EXCEPT ![h] =
           IF @ # None /\ @.hour # 0 /\ @.hour <= start THEN [hour |-> 0, samples |-> {}] ELSE @]
      /\ UNCHANGED <<now, monitored, limit, lru, samples, minutes, hours, recording,
                     nextMinute, nextHour, taken, changes>>

AppendHour ==
  /\ loop.pc = "hourappend"
  /\ hours' = [hours EXCEPT ![loop.host] = Append(@, loop.point)]
  /\ loop' = [loop EXCEPT !.pc = "hourpick", !.host = None, !.point = None]
  /\ UNCHANGED <<now, monitored, limit, lru, samples, aggs, minutes, recording,
                 nextMinute, nextHour, taken, changes>>

EndHour ==
  /\ loop.pc = "hourpick" /\ loop.todo = {}
  /\ Loop("hours")
  /\ nextHour' = nextHour + Hour
  /\ UNCHANGED <<now, monitored, limit, store, recording, nextMinute, taken, changes>>

---------------------------------------------------------------------------
RollupLoop ==
  \/ Wake \/ Minutes \/ RollMinute \/ AppendMinute \/ EndMinute
  \/ HoursOrWait \/ AppendHour \/ EndHour
  \/ \E h \in Hosts : Pick(h) \/ RollHour(h)

Next ==
  \/ Tick
  \/ \E h \in Hosts : Probe(h) \/ Record(h)
  \/ \E active \in SUBSET Hosts : SetTargets(active)
  \/ \E n \in Limits : SetCapacity(n)
  \/ RollupLoop

Spec == Init /\ [][Next]_vars

---------------------------------------------------------------------------
(* Properties                                                              *)

\* The samples of a host whose minute the loop has rolled up.
RolledUp(h) == {t \in samples[h] : t < nextMinute - Minute}

\* "No sample is skipped or counted twice": each sample of a minute that is rolled up
\* is in exactly one point of its host, although the ring went on, hosts left and came
\* back, and the loop was late.
EverySampleOnce ==
  \A h \in Range(lru) : \A t \in RolledUp(h) :
    Cardinality({i \in DOMAIN minutes[h] : t \in minutes[h][i].samples}) = 1

\* The hours too: such a sample is in one hour point of its host, or in the hour in
\* progress, or in the point the loop is about to append, and never in two of them, as
\* a reader that joins the points and the hour in progress would show it twice.
HoursComplete ==
  \A h \in Range(lru) : \A t \in RolledUp(h) :
    LET finished == {i \in DOMAIN hours[h] : t \in hours[h][i].samples}
        current == {a \in {aggs[h]} \ {None} : t \in a.samples}
        inHand == {p \in {loop.point} : loop.pc = "hourappend" /\ loop.host = h /\ t \in p.samples}
    IN  Cardinality(finished) + Cardinality(current) + Cardinality(inHand) = 1

\* The list has each host with samples once, in the order of their last samples, so that
\* a lower limit takes the history of those that were silent longest; and never more
\* than the limit.
LeastRecentGoFirst ==
  /\ Len(lru) <= limit /\ IsInjective(lru)
  /\ \A h \in Hosts : h \in Range(lru) <=> samples[h] # {}
  /\ \A i, j \in DOMAIN lru :
       i < j => \E t \in samples[lru[i]] : \A u \in samples[lru[j]] : u <= t

\* The loop can put back the history of a host that was removed while it worked on it.
\* That does not add up: the next removal clears it.
GhostsAreCleared ==
  Cardinality({h \in Hosts \ monitored :
                 aggs[h] # None \/ minutes[h] # <<>> \/ hours[h] # <<>>}) <= 1
=============================================================================
