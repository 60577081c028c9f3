--------------------------- MODULE MetricsProofs ---------------------------
(***************************************************************************)
(* The latency history, for every set of hosts, all limits and bucket      *)
(* sizes, and any interleaving of the probes, the changes of the targets   *)
(* and of the limit, and the steps of the rollup loop.                     *)
(*   1. The list has each host with samples once, the silent ones last.    *)
(*   2. What the loop puts back for removed hosts does not add up.         *)
(*   3. While the loop is not too late, each sample of a minute that is    *)
(*      rolled up is in one minute point, and in one hour point or in the  *)
(*      hour in progress.                                                  *)
(***************************************************************************)
EXTENDS Metrics, FiniteSetTheorems, SequenceTheorems, WellFoundedInduction, TLAPS

LEMMA LeastExists ==
  ASSUME NEW S \in SUBSET Nat, S # {}
  PROVE  \E m \in S : \A x \in S : m <= x
<1> DEFINE R == OpToRel(<, Nat)
<1>1. PICK m \in S : \A x \in S : <<x, m>> \notin R
  BY WFMin, NatLessThanWellFounded
<1>2. ASSUME NEW x \in S, x < m PROVE <<x, m>> \in R
  <2>1. <<x, m>> \in Nat \X Nat /\ <<x, m>>[1] < <<x, m>>[2]
    BY <1>2
  <2> QED
    BY <2>1 DEF OpToRel
<1> HIDE DEF R
<1>3. \A x \in S : ~(x < m)
  BY <1>1, <1>2
<1> QED
  BY <1>3

---------------------------------------------------------------------------
(* The list without some hosts                                             *)

KeepOne(list, gone, before, n) ==
  IF list[n] \in gone THEN before ELSE Append(before, list[n])

\* f[i] is what is left of the first i hosts, up to the n-th.
Keeps(list, gone, n, f) ==
  f = [i \in 0 .. n |-> IF i = 0 THEN <<>> ELSE KeepOne(list, gone, f[i - 1], i)]

\* The recursion of Without has a solution, for a list of any length.
LEMMA KeepsExist ==
  ASSUME NEW list, NEW gone, NEW n \in Nat
  PROVE  \E f : Keeps(list, gone, n, f)
<1> DEFINE Bad == {k \in Nat : ~\E f : Keeps(list, gone, k, f)}
<1> SUFFICES ASSUME Bad # {} PROVE FALSE
  OBVIOUS
<1>1. PICK m \in Bad : \A x \in Bad : m <= x
  BY LeastExists
<1>2. CASE m = 0
  <2> DEFINE f == [i \in 0 .. 0 |-> <<>>]
  <2>1. f = [i \in 0 .. 0 |-> IF i = 0 THEN <<>> ELSE KeepOne(list, gone, f[i - 1], i)]
    OBVIOUS
  <2> HIDE DEF f
  <2>2. Keeps(list, gone, 0, f)
    BY <2>1 DEF Keeps
  <2> QED
    BY <1>1, <1>2, <2>2
<1>3. CASE m # 0
  <2>1. m - 1 \in Nat /\ m - 1 \notin Bad
    BY <1>1, <1>3
  <2>2. PICK f : Keeps(list, gone, m - 1, f)
    BY <2>1
  <2> DEFINE g == [i \in 0 .. m |-> IF i = m THEN KeepOne(list, gone, f[m - 1], m) ELSE f[i]]
  <2>3. ASSUME NEW i \in 0 .. m
        PROVE  g[i] = IF i = 0 THEN <<>> ELSE KeepOne(list, gone, g[i - 1], i)
    <3>1. CASE i = m
      <4>1. g[m - 1] = f[m - 1]
        BY <1>1, <1>3
      <4>2. g[m] = KeepOne(list, gone, f[m - 1], m)
        BY <1>1
      <4> HIDE DEF g
      <4> QED
        BY <1>3, <3>1, <4>1, <4>2
    <3>2. CASE i # m
      <4>1. i \in 0 .. m - 1 /\ g[i] = f[i]
        BY <1>1, <3>2
      <4>2. f[i] = IF i = 0 THEN <<>> ELSE KeepOne(list, gone, f[i - 1], i)
        <5>1. f = [j \in 0 .. m - 1 |-> IF j = 0 THEN <<>> ELSE KeepOne(list, gone, f[j - 1], j)]
          BY <2>2 DEF Keeps
        <5> QED
          BY <4>1, <5>1
      <4>3. i # 0 => g[i - 1] = f[i - 1]
        BY <1>1, <4>1
      <4> HIDE DEF g
      <4> QED
        BY <4>1, <4>2, <4>3
    <3> QED
      BY <3>1, <3>2
  <2>4. g = [i \in 0 .. m |-> g[i]]
    OBVIOUS
  <2> HIDE DEF g
  <2>5. Keeps(list, gone, m, g)
    BY <2>3, <2>4 DEF Keeps
  <2> QED
    BY <1>1, <2>5
<1> QED
  BY <1>2, <1>3

LEMMA WithoutKeeps ==
  ASSUME NEW list, NEW gone, Len(list) \in Nat
  PROVE  \E f : /\ f[0] = <<>> /\ Without(list, gone) = f[Len(list)]
                /\ \A i \in 1 .. Len(list) : f[i] = KeepOne(list, gone, f[i - 1], i)
<1> DEFINE n == Len(list)
           F == CHOOSE f : f = [i \in 0 .. n |->
                  IF i = 0 THEN <<>> ELSE IF list[i] \in gone THEN f[i - 1] ELSE Append(f[i - 1], list[i])]
<1>1. PICK f : Keeps(list, gone, n, f)
  BY KeepsExist
<1>2. f = [i \in 0 .. n |->
             IF i = 0 THEN <<>> ELSE IF list[i] \in gone THEN f[i - 1] ELSE Append(f[i - 1], list[i])]
  BY <1>1 DEF Keeps, KeepOne
<1>3. F = [i \in 0 .. n |->
             IF i = 0 THEN <<>> ELSE IF list[i] \in gone THEN F[i - 1] ELSE Append(F[i - 1], list[i])]
  <2> HIDE DEF n
  <2> QED
    BY <1>2
<1>4. Without(list, gone) = F[n]
  BY DEF Without
<1> HIDE DEF F, n
<1>5. \A i \in 0 .. n : F[i] = IF i = 0 THEN <<>> ELSE KeepOne(list, gone, F[i - 1], i)
  BY <1>3 DEF KeepOne
<1>6. n \in Nat
  BY DEF n
<1>7. F[0] = <<>> /\ \A i \in 1 .. n : F[i] = KeepOne(list, gone, F[i - 1], i)
  <2>1. 0 \in 0 .. n /\ \A i \in 1 .. n : i \in 0 .. n /\ i # 0
    BY <1>6
  <2> QED
    BY <1>5, <2>1
<1> QED
  BY <1>4, <1>7 DEF n

\* rest has, in their order, the hosts of the first n of list that are not gone.
LeftOf(list, gone, n, rest) ==
  /\ rest \in Seq(Hosts) /\ Len(rest) <= n
  /\ \A a \in DOMAIN rest : \E i \in 1 .. n : a <= i /\ rest[a] = list[i] /\ list[i] \notin gone
  /\ \A a, b \in DOMAIN rest : a < b =>
       \E i, j \in 1 .. n : i < j /\ rest[a] = list[i] /\ rest[b] = list[j]
  /\ \A i \in 1 .. n : list[i] \notin gone => \E a \in DOMAIN rest : rest[a] = list[i]
  /\ \A i \in 1 .. n : list[i] \in gone => Len(rest) <= n - 1

LEMMA KeepOneLeaves ==
  ASSUME NEW list \in Seq(Hosts), NEW gone, NEW n \in 1 .. Len(list), NEW before,
         LeftOf(list, gone, n - 1, before)
  PROVE  LeftOf(list, gone, n, KeepOne(list, gone, before, n))
<1>1. /\ n \in Nat /\ n - 1 \in Nat /\ list[n] \in Hosts /\ before \in Seq(Hosts)
      /\ Len(before) \in Nat /\ DOMAIN before = 1 .. Len(before) /\ Len(before) <= n - 1
      /\ 1 .. n = (1 .. n - 1) \cup {n}
  BY DEF LeftOf
<1>2. CASE list[n] \in gone
  <2>1. KeepOne(list, gone, before, n) = before
    BY <1>2 DEF KeepOne
  <2>2. Len(before) <= n
    BY <1>1
  <2>3. \A a \in DOMAIN before : \E i \in 1 .. n : a <= i /\ before[a] = list[i] /\ list[i] \notin gone
    BY <1>1 DEF LeftOf
  <2>4. \A a, b \in DOMAIN before : a < b =>
          \E i, j \in 1 .. n : i < j /\ before[a] = list[i] /\ before[b] = list[j]
    <3> SUFFICES ASSUME NEW a \in DOMAIN before, NEW b \in DOMAIN before, a < b
                 PROVE  \E i, j \in 1 .. n : i < j /\ before[a] = list[i] /\ before[b] = list[j]
      OBVIOUS
    <3>1. PICK i, j \in 1 .. n - 1 : i < j /\ before[a] = list[i] /\ before[b] = list[j]
      BY DEF LeftOf
    <3> QED
      BY <1>1, <3>1
  <2>5. \A i \in 1 .. n : list[i] \notin gone => \E a \in DOMAIN before : before[a] = list[i]
    BY <1>1, <1>2 DEF LeftOf
  <2> QED
    BY <1>1, <2>1, <2>2, <2>3, <2>4, <2>5 DEF LeftOf
<1>3. CASE list[n] \notin gone
  <2> DEFINE rest == Append(before, list[n])
  <2>1. /\ rest \in Seq(Hosts) /\ Len(rest) = Len(before) + 1
        /\ DOMAIN rest = (1 .. Len(before)) \cup {Len(before) + 1}
        /\ rest[Len(before) + 1] = list[n]
        /\ \A a \in 1 .. Len(before) : rest[a] = before[a]
    BY <1>1
  <2>2. KeepOne(list, gone, before, n) = rest
    BY <1>3 DEF KeepOne
  <2> HIDE DEF rest
  <2>3. ASSUME NEW a \in DOMAIN rest
        PROVE  \E i \in 1 .. n : a <= i /\ rest[a] = list[i] /\ list[i] \notin gone
    <3>1. CASE a = Len(before) + 1
      BY <1>1, <1>3, <2>1, <3>1
    <3>2. CASE a \in 1 .. Len(before)
      BY <1>1, <2>1, <3>2 DEF LeftOf
    <3> QED
      BY <2>1, <3>1, <3>2
  <2>4. ASSUME NEW a \in DOMAIN rest, NEW b \in DOMAIN rest, a < b
        PROVE  \E i, j \in 1 .. n : i < j /\ rest[a] = list[i] /\ rest[b] = list[j]
    <3>1. a \in 1 .. Len(before)
      BY <1>1, <2>1, <2>4
    <3>2. PICK i \in 1 .. n - 1 : before[a] = list[i]
      BY <1>1, <3>1 DEF LeftOf
    <3>3. CASE b = Len(before) + 1
      <4>1. rest[a] = list[i] /\ rest[b] = list[n]
        BY <2>1, <3>1, <3>2, <3>3
      <4>2. i \in 1 .. n /\ n \in 1 .. n /\ i < n
        BY ONLY n \in Nat \ {0}, i \in 1 .. n - 1
      <4> QED
        BY <4>1, <4>2
    <3>4. CASE b \in 1 .. Len(before)
      <4>1. PICK k, j \in 1 .. n - 1 : k < j /\ before[a] = list[k] /\ before[b] = list[j]
        BY <1>1, <2>4, <3>1, <3>4 DEF LeftOf
      <4> QED
        BY <1>1, <2>1, <3>1, <3>4, <4>1
    <3> QED
      BY <2>1, <3>3, <3>4
  <2>5. ASSUME NEW i \in 1 .. n, list[i] \notin gone PROVE \E a \in DOMAIN rest : rest[a] = list[i]
    <3>1. CASE i = n
      BY <2>1, <3>1
    <3>2. CASE i \in 1 .. n - 1
      BY <1>1, <2>1, <2>5, <3>2 DEF LeftOf
    <3> QED
      BY <1>1, <3>1, <3>2
  <2>6. ASSUME NEW i \in 1 .. n, list[i] \in gone PROVE Len(rest) <= n - 1
    <3>1. i \in 1 .. n - 1
      BY <1>1, <1>3, <2>6
    <3>2. Len(before) <= n - 1 - 1
      BY <2>6, <3>1 DEF LeftOf
    <3> QED
      BY <1>1, <2>1, <3>2
  <2>7. Len(rest) <= n
    BY <1>1, <2>1
  <2>8. LeftOf(list, gone, n, rest)
    <3>1. \A a, b \in DOMAIN rest : a < b =>
            \E i, j \in 1 .. n : i < j /\ rest[a] = list[i] /\ rest[b] = list[j]
      BY <2>4
    <3> QED
      BY <2>1, <2>3, <2>5, <2>6, <2>7, <3>1 DEF LeftOf
  <2> QED
    BY <2>2, <2>8
<1> QED
  BY <1>2, <1>3

LEMMA WithoutLeaves ==
  ASSUME NEW list \in Seq(Hosts), NEW gone
  PROVE  LeftOf(list, gone, Len(list), Without(list, gone))
<1>1. Len(list) \in Nat
  OBVIOUS
<1>2. PICK f : /\ f[0] = <<>> /\ Without(list, gone) = f[Len(list)]
               /\ \A i \in 1 .. Len(list) : f[i] = KeepOne(list, gone, f[i - 1], i)
  BY <1>1, WithoutKeeps
<1> DEFINE Bad == {i \in 0 .. Len(list) : ~LeftOf(list, gone, i, f[i])}
<1>3. ASSUME Bad # {} PROVE FALSE
  <2>1. PICK m \in Bad : \A x \in Bad : m <= x
    <3>1. Bad \in SUBSET Nat
      BY <1>1
    <3> HIDE DEF Bad
    <3> QED
      BY <1>3, <3>1, LeastExists
  <2>2. LeftOf(list, gone, 0, <<>>)
    <3>1. <<>> \in Seq(Hosts) /\ Len(<<>>) = 0 /\ DOMAIN <<>> = {} /\ 1 .. 0 = {}
      OBVIOUS
    <3> QED
      BY <3>1 DEF LeftOf
  <2>3. m # 0
    BY <1>2, <2>1, <2>2
  <2>4. m \in 1 .. Len(list) /\ m - 1 \in 0 .. Len(list) /\ ~(m <= m - 1)
    BY <1>1, <2>1, <2>3
  <2>5. LeftOf(list, gone, m - 1, f[m - 1])
    BY <2>1, <2>4
  <2>6. LeftOf(list, gone, m, f[m])
    BY <1>2, <2>4, <2>5, KeepOneLeaves
  <2> QED
    BY <2>1, <2>6
<1> QED
  BY <1>1, <1>2, <1>3
---------------------------------------------------------------------------
(* Types                                                                   *)

InRound == loop.pc \in {"pick", "roll", "append"}
InHours == loop.pc \in {"hourpick", "hourappend"}
Start == nextMinute - Minute   \* of the minute to roll up next
HourStart == nextHour - Hour   \* of the hour to close next

\* The loop holds the buffer of a host that has one, or a point to append.
LoopInv ==
  /\ loop.host # None <=> loop.pc \in {"roll", "append", "hourappend"}
  /\ loop.host \notin loop.todo
  /\ loop.live => loop.pc = "roll" /\ loop.host \in Range(lru)
  /\ loop.pc \in {"append", "hourappend"} => loop.point \in Points

\* A minute or an hour is rolled up when it has ended, and the grace too.
RoundInv ==
  /\ Minute <= nextMinute /\ nextMinute <= now + Minute
  /\ Hour <= nextHour /\ nextHour <= now + Hour
  /\ loop.at <= now
  /\ InRound => nextMinute + Grace <= loop.at
  /\ InHours => nextHour + Grace <= loop.at

TypeInv == TypeOK /\ LoopInv /\ RoundInv

\* An hour is a number of minutes.
LEMMA HourIsMinutes == Hour \in Nat /\ \E k \in Nat \ {0} : Hour = k * Minute
<1>1. PICK k \in 1 .. Hour : Hour = k * Minute
  BY MetricsAssumption
<1>2. Hour \in Nat
  <2>1. Minute \in Nat /\ Minute > 0
    BY MetricsAssumption
  <2> QED
    BY <1>1, <2>1
<1>3. k \in Nat \ {0}
  BY <1>1, <1>2
<1> QED
  BY <1>1, <1>2, <1>3

LEMMA Sizes ==
  /\ Minute \in Nat /\ Minute > 0 /\ Hour \in Nat /\ Hour > 0
  /\ Grace \in Nat /\ MaxLate \in Nat /\ Retention \in Nat /\ Retention > Minute + Grace + MaxLate
<1>1. Hour > 0
  BY MetricsAssumption
<1> QED
  BY <1>1, HourIsMinutes, MetricsAssumption

LEMMA Constants ==
  /\ Minute \in Nat /\ Minute > 0 /\ Hour \in Nat /\ Hour > 0 /\ Grace \in Nat /\ MaxLate \in Nat
  /\ Retention \in Nat /\ Retention > Minute + Grace + MaxLate
  /\ MaxTime \in Nat /\ Hour <= MaxTime /\ MaxSamples \in Nat /\ MaxChanges \in Nat
  /\ Limits \subseteq Nat \ {0} /\ None \notin Hosts /\ None \notin Aggs
<1>1. Hour > 0
  BY MetricsAssumption
<1> QED
  BY <1>1, HourIsMinutes, MetricsAssumption

LEMMA InitTypes == Init => TypeInv
<1> SUFFICES ASSUME Init PROVE TypeInv
  OBVIOUS
<1>1. Idle \in Loops /\ Idle.host = None /\ Idle.todo = {} /\ ~Idle.live /\ Idle.pc = "idle" /\ Idle.at = 0
  <2>1. 0 \in Times
    BY Constants DEF Times
  <2> QED
    BY <2>1 DEF Idle, Loops
<1>2. Hour \in Times /\ <<>> \in Seq(Hosts) /\ <<>> \in Seq(Points)
  BY Constants DEF Times
<1>3. TypeOK
  BY <1>1, <1>2, Constants DEF Init, TypeOK
<1>4. LoopInv
  BY <1>1 DEF Init, LoopInv
<1>5. RoundInv
  BY <1>1, Constants DEF Init, RoundInv, InRound, InHours
<1> QED
  BY <1>3, <1>4, <1>5 DEF TypeInv

\* The time a sleeping loop goes on with is not before the one it would have gone on
\* with, and not after the clock.
LEMMA ResumeBounds ==
  ASSUME NEW at \in Nat, NEW end \in Nat, NEW size \in Nat, size > 0
  PROVE  /\ Resume(at, end, size) \in Nat /\ end <= Resume(at, end, size)
         /\ Resume(at, end, size) = end \/ Resume(at, end, size) <= at
<1> DEFINE q == at \div size
<1>1. q \in Nat /\ q * size <= at /\ at < q * size + size
  OBVIOUS
<1> HIDE DEF q
<1>2. q * size \in Nat
  BY <1>1
<1>3. Resume(at, end, size) = IF at > end + 2 * size THEN q * size ELSE end
  BY DEF Resume, Truncate, q
<1> QED
  BY <1>1, <1>2, <1>3

\* The buffers that are dropped are dropped in the hands of the loop as well.
LEMMA DropTypes ==
  ASSUME TypeInv, NEW gone \in SUBSET Hosts, DropBuffers(gone)
  PROVE  /\ lru' \in Seq(Hosts) /\ samples' \in [Hosts -> SUBSET Times] /\ loop' \in Loops
         /\ loop'.pc = loop.pc /\ loop'.at = loop.at /\ loop'.todo = loop.todo
         /\ loop'.host = loop.host /\ loop'.point = loop.point
         /\ loop'.live => loop.live /\ loop.host \notin gone
         /\ LoopInv'
<1> USE DEF TypeInv, TypeOK
<1>1. LeftOf(lru, gone, Len(lru), lru') /\ DOMAIN lru = 1 .. Len(lru)
  BY WithoutLeaves DEF DropBuffers
<1>2. lru' \in Seq(Hosts) /\ samples' \in [Hosts -> SUBSET Times]
  BY <1>1 DEF DropBuffers, LeftOf
<1>3. loop.live /\ loop.host \in gone => Ring(samples[loop.host]) \in SUBSET Times
  BY DEF Ring
<1>4. loop' \in Loops
  BY <1>3 DEF DropBuffers, Loops
<1>5. /\ loop'.pc = loop.pc /\ loop'.at = loop.at /\ loop'.todo = loop.todo
      /\ loop'.host = loop.host /\ loop'.point = loop.point
      /\ loop'.live => loop.live /\ loop.host \notin gone
  BY DEF DropBuffers, Loops
<1>6. loop'.live => loop.host \in Range(lru')
  <2> SUFFICES ASSUME loop'.live PROVE loop.host \in Range(lru')
    OBVIOUS
  <2>1. loop.host \in Range(lru) /\ loop.host \notin gone
    BY <1>5 DEF LoopInv
  <2>2. PICK i \in 1 .. Len(lru) : lru[i] = loop.host
    BY <1>1, <2>1 DEF Range
  <2>3. PICK a \in DOMAIN lru' : lru'[a] = loop.host
    BY <1>1, <2>1, <2>2 DEF LeftOf
  <2> QED
    BY <2>3 DEF Range
<1> QED
  BY <1>2, <1>4, <1>5, <1>6 DEF LoopInv

\* Probes, targets and the limit.
LEMMA EngineTypes ==
  ASSUME TypeInv,
         \/ Tick \/ (\E h \in Hosts : Probe(h) \/ Record(h))
         \/ (\E active \in SUBSET Hosts : SetTargets(active)) \/ (\E n \in Limits : SetCapacity(n))
  PROVE  TypeInv'
<1> USE DEF TypeInv, TypeOK
<1>1. CASE Tick
  <2>1. now' \in Times /\ now' >= now
    BY <1>1, Constants DEF Tick, Times
  <2>2. LoopInv'
    BY <1>1 DEF Tick, store, rollup, LoopInv
  <2>3. RoundInv'
    <3>1. now \in Nat /\ now' \in Nat
      BY <1>1 DEF Tick, Times
    <3> QED
      BY <1>1, <2>1, <3>1, Constants DEF Tick, rollup, RoundInv, InRound, InHours, Loops, Times
  <2> QED
    BY <1>1, <2>1, <2>2, <2>3 DEF Tick, store, rollup
<1>2. ASSUME NEW h \in Hosts, Probe(h) PROVE TypeInv'
  <2>1. taken' \in 0 .. MaxSamples /\ recording' \in Sample
    <3>1. recording' \in Sample
      BY <1>2 DEF Probe, Sample
    <3>2. taken \in 0 .. MaxSamples /\ taken < MaxSamples /\ taken' = taken + 1
      BY <1>2 DEF Probe
    <3> QED
      BY <3>1, <3>2, Constants
  <2>2. LoopInv' /\ RoundInv'
    BY <1>2 DEF Probe, store, rollup, LoopInv, RoundInv, InRound, InHours
  <2> QED
    BY <1>2, <2>1, <2>2 DEF Probe, store, rollup
<1>3. ASSUME NEW h \in Hosts, Record(h) PROVE TypeInv'
  <2>1. recording \in Sample /\ recording.at \in Times
    BY <1>3 DEF Record, Sample
  <2>2. samples' \in [Hosts -> SUBSET Times]
    BY <1>3, <2>1 DEF Record
  <2>3. lru' \in Seq(Hosts) /\ Range(lru) \subseteq Range(lru')
    <3>1. CASE lru' = <<h>> \o Without(lru, {h})
      <4> DEFINE rest == Without(lru, {h})
      <4>1. LeftOf(lru, {h}, Len(lru), rest)
        BY WithoutLeaves
      <4> HIDE DEF rest
      <4>2. lru' = <<h>> \o rest /\ rest \in Seq(Hosts) /\ <<h>> \in Seq(Hosts)
        BY <3>1, <4>1 DEF LeftOf, rest
      <4>3. /\ lru' \in Seq(Hosts) /\ Len(lru') = 1 + Len(rest) /\ lru'[1] = h
            /\ \A a \in 1 .. Len(rest) : lru'[a + 1] = rest[a]
        BY <4>2
      <4>4. ASSUME NEW i \in 1 .. Len(lru) PROVE \E a \in 1 .. Len(lru') : lru'[a] = lru[i]
        <5>1. CASE lru[i] = h
          BY <4>2, <4>3, <5>1
        <5>2. CASE lru[i] # h
          <6>1. PICK a \in DOMAIN rest : rest[a] = lru[i]
            BY <4>1, <5>2 DEF LeftOf
          <6>2. a \in 1 .. Len(rest) /\ a + 1 \in 1 .. Len(lru')
            <7>1. DOMAIN rest = 1 .. Len(rest) /\ Len(rest) \in Nat
              BY <4>2
            <7>2. Len(lru') = 1 + Len(rest)
              BY <4>3
            <7> QED
              BY ONLY <6>1, <7>1, <7>2
          <6> QED
            BY <4>3, <6>1, <6>2
        <5> QED
          BY <5>1, <5>2
      <4>5. DOMAIN lru = 1 .. Len(lru) /\ DOMAIN lru' = 1 .. Len(lru')
        BY <4>3
      <4>6. \A i \in DOMAIN lru : \E a \in DOMAIN lru' : lru'[a] = lru[i]
        BY ONLY <4>4, <4>5
      <4>7. Range(lru) \subseteq Range(lru')
        BY ONLY <4>6, Zenon DEF Range
      <4> QED
        BY <4>3, <4>7
    <3>2. CASE lru' = <<h>> \o lru
      <4>1. /\ lru' \in Seq(Hosts) /\ Len(lru') = 1 + Len(lru) /\ Len(lru) \in Nat
            /\ \A i \in 1 .. Len(lru) : lru'[i + 1] = lru[i]
        BY <3>2
      <4>2. DOMAIN lru = 1 .. Len(lru) /\ DOMAIN lru' = 1 .. Len(lru')
        BY <4>1
      <4>3. ASSUME NEW i \in 1 .. Len(lru) PROVE \E a \in 1 .. Len(lru') : lru'[a] = lru[i]
        <5>1. i + 1 \in 1 .. Len(lru')
          BY <4>1
        <5> QED
          BY <4>1, <5>1
      <4> QED
        BY <4>1, <4>2, <4>3 DEF Range
    <3>3. CASE lru' = lru
      BY <3>3
    <3> QED
      BY <1>3, <3>1, <3>2, <3>3 DEF Record
  <2>4. UNCHANGED <<now, monitored, limit, aggs, minutes, hours, loop, nextMinute, nextHour, taken, changes>>
        /\ recording' = None
    BY <1>3 DEF Record, rollup
  <2>5. LoopInv'
    BY <2>3, <2>4 DEF LoopInv
  <2>6. RoundInv'
    BY <2>4 DEF RoundInv, InRound, InHours
  <2>7. TypeOK'
    BY <2>2, <2>3, <2>4
  <2> QED
    BY <2>5, <2>6, <2>7
<1>4. ASSUME NEW gone \in SUBSET Hosts, NEW others \in SUBSET Hosts, DropBuffers(gone), DropRollups(others),
             monitored' \in SUBSET Hosts, limit' \in Limits, changes' \in 0 .. MaxChanges,
             UNCHANGED <<now, recording, nextMinute, nextHour, taken>>
      PROVE  TypeInv'
  <2>1. <<>> \in Seq(Points)
    OBVIOUS
  <2>2. /\ aggs' \in [Hosts -> {None} \cup Aggs]
        /\ minutes' \in [Hosts -> Seq(Points)] /\ hours' \in [Hosts -> Seq(Points)]
    BY <1>4, <2>1 DEF DropRollups
  <2>3. /\ lru' \in Seq(Hosts) /\ samples' \in [Hosts -> SUBSET Times] /\ loop' \in Loops
        /\ loop'.pc = loop.pc /\ loop'.at = loop.at /\ LoopInv'
    BY <1>4, DropTypes
  <2>4. RoundInv'
    BY <1>4, <2>3 DEF RoundInv, InRound, InHours
  <2> QED
    BY <1>4, <2>2, <2>3, <2>4
<1>5. ASSUME NEW active \in SUBSET Hosts, SetTargets(active) PROVE TypeInv'
  <2>1. changes' \in 0 .. MaxChanges
    BY <1>5, Constants DEF SetTargets
  <2>2. Hosts \ active \in SUBSET Hosts
    OBVIOUS
  <2> QED
    BY <1>4, <1>5, <2>1, <2>2 DEF SetTargets, PruneHosts
<1>6. ASSUME NEW n \in Limits, SetCapacity(n) PROVE TypeInv'
  <2> DEFINE gone == {lru[i] : i \in {j \in DOMAIN lru : j > n}}
  <2>1. changes' \in 0 .. MaxChanges
    BY <1>6, Constants DEF SetCapacity
  <2>2. gone \in SUBSET Hosts
    OBVIOUS
  <2>3. DropBuffers(gone) /\ DropRollups(gone) /\ limit' = n
        /\ UNCHANGED <<now, monitored, recording, nextMinute, nextHour, taken>>
    BY <1>6 DEF SetCapacity
  <2> HIDE DEF gone
  <2> QED
    BY <1>4, <2>1, <2>2, <2>3
<1> HIDE DEF TypeInv, TypeOK
<1> QED
  BY <1>1, <1>2, <1>3, <1>5, <1>6

\* The steps of the loop up to the minute points.
LEMMA MinuteTypes ==
  ASSUME TypeInv,
         Wake \/ Minutes \/ (\E h \in Hosts : Pick(h)) \/ RollMinute \/ AppendMinute \/ EndMinute
  PROVE  TypeInv'
<1> USE DEF TypeInv, TypeOK
<1>t. /\ now \in Nat /\ loop.at \in Nat /\ nextMinute \in Nat /\ nextHour \in Nat
      /\ loop.at \in Times /\ now \in Times
  BY DEF Times, Loops
<1>1. CASE Wake
  <2>1. nextMinute' \in Nat /\ nextMinute <= nextMinute' /\ (nextMinute' = nextMinute \/ nextMinute' <= now)
    <3>1. nextMinute' = Resume(now, nextMinute, Minute)
      BY <1>1 DEF Wake
    <3> QED
      BY <1>t, <3>1, Constants, ResumeBounds
  <2>2. loop' = [loop EXCEPT !.pc = "minutes", !.at = now] /\ loop.pc = "idle" /\ UNCHANGED <<now, nextHour>>
    BY <1>1 DEF Wake
  <2>3. loop' \in Loops /\ loop'.pc = "minutes" /\ loop'.at = now
    BY <1>t, <2>2 DEF Loops
  <2>4. LoopInv'
    BY <1>1, <2>2 DEF Wake, store, LoopInv, Loops
  <2>5. RoundInv'
    <3>1. Minute <= nextMinute /\ nextMinute <= now + Minute /\ Hour <= nextHour /\ nextHour <= now + Hour
      BY DEF RoundInv
    <3>2. ~InRound' /\ ~InHours'
      BY <2>3 DEF InRound, InHours
    <3> QED
      BY ONLY <1>t, <2>1, <2>2, <2>3, <3>1, <3>2, Constants DEF RoundInv
  <2> QED
    BY <1>1, <2>1, <2>3, <2>4, <2>5 DEF Wake, store
<1>2. CASE Minutes
  <2>1. nextHour' \in Nat /\ nextHour <= nextHour' /\ (nextHour' = nextHour \/ nextHour' <= loop.at)
    <3>1. nextHour' = nextHour \/ nextHour' = Resume(loop.at, nextHour, Hour)
      BY <1>2 DEF Minutes
    <3>2. /\ Resume(loop.at, nextHour, Hour) \in Nat /\ nextHour <= Resume(loop.at, nextHour, Hour)
          /\ \/ Resume(loop.at, nextHour, Hour) = nextHour
             \/ Resume(loop.at, nextHour, Hour) <= loop.at
      BY ONLY <1>t, Constants, ResumeBounds
    <3> QED
      BY ONLY <1>t, <3>1, <3>2
  <2>2. Range(lru) \in SUBSET Hosts
    BY DEF Range
  <2>3. loop.pc = "minutes" /\ UNCHANGED <<now, nextMinute>>
    BY <1>2 DEF Minutes
  <2>4. \/ /\ Due(loop.at, nextMinute) /\ loop' = [loop EXCEPT !.pc = "pick", !.todo = Range(lru)]
        \/ loop' = [loop EXCEPT !.pc = "hours"]
    BY <1>2 DEF Minutes, Loop
  <2>5. /\ loop' \in Loops /\ loop'.pc \in {"pick", "hours"} /\ loop'.at = loop.at
        /\ loop'.host = loop.host /\ loop'.live = loop.live
        /\ loop'.pc = "pick" => nextMinute + Grace <= loop.at
    BY <1>t, <2>2, <2>4, Constants DEF Loops, Due
  <2>6. LoopInv'
    <3>1. loop.host = None /\ ~loop.live
      BY <2>3 DEF LoopInv
    <3>2. None \notin loop'.todo
      BY <2>5, Constants DEF Loops
    <3> QED
      BY <2>5, <3>1, <3>2 DEF LoopInv
  <2>7. RoundInv'
    <3>1. /\ Minute <= nextMinute /\ nextMinute <= now + Minute /\ Hour <= nextHour /\ nextHour <= now + Hour
          /\ loop.at <= now
      BY DEF RoundInv
    <3>2. (InRound' => loop'.pc = "pick") /\ ~InHours'
      BY <2>5 DEF InRound, InHours
    <3>3. nextMinute' = nextMinute /\ now' = now /\ loop'.at = loop.at
      BY <2>3, <2>5
    <3>4. Hour <= nextHour' /\ nextHour' <= now + Hour
      BY ONLY <1>t, <2>1, <3>1, Sizes
    <3>5. InRound' => nextMinute + Grace <= loop.at
      BY <2>5, <3>2
    <3> QED
      BY ONLY <3>1, <3>2, <3>3, <3>4, <3>5 DEF RoundInv
  <2> QED
    BY <1>2, <2>1, <2>5, <2>6, <2>7 DEF Minutes, store
<1>3. ASSUME NEW h \in Hosts, Pick(h) PROVE TypeInv'
  <2>1. loop.pc = "pick" /\ h \in loop.todo
        /\ UNCHANGED <<now, monitored, limit, store, recording, nextMinute, nextHour, taken, changes>>
    BY <1>3 DEF Pick
  <2>2. loop.host = None /\ ~loop.live
    BY <2>1 DEF LoopInv
  <2>3. \/ /\ h \in Range(lru)
           /\ loop' = [loop EXCEPT !.pc = "roll", !.todo = @ \ {h}, !.host = h, !.live = TRUE]
        \/ loop' = [loop EXCEPT !.todo = @ \ {h}]
    BY <1>3 DEF Pick
  <2>4. loop' \in Loops /\ loop'.at = loop.at /\ InRound /\ InRound' /\ ~InHours'
    <3>1. CASE loop' = [loop EXCEPT !.pc = "roll", !.todo = @ \ {h}, !.host = h, !.live = TRUE]
      BY ONLY <2>1, <3>1, loop \in Loops, h \in Hosts DEF Loops, InRound, InHours
    <3>2. CASE loop' = [loop EXCEPT !.todo = @ \ {h}]
      BY ONLY <2>1, <3>2, loop \in Loops DEF Loops, InRound, InHours
    <3> QED
      BY <2>3, <3>1, <3>2
  <2>5. LoopInv'
    <3>1. None \notin loop.todo /\ h # None
      BY Constants DEF Loops
    <3>2. CASE loop' = [loop EXCEPT !.pc = "roll", !.todo = @ \ {h}, !.host = h, !.live = TRUE] /\ h \in Range(lru)
      BY <2>1, <3>1, <3>2 DEF LoopInv, Loops, store
    <3>3. CASE loop' = [loop EXCEPT !.todo = @ \ {h}]
      BY <2>1, <2>2, <3>1, <3>3 DEF LoopInv, Loops, store
    <3> QED
      BY <2>3, <3>2, <3>3
  <2>6. RoundInv'
    BY <2>1, <2>4 DEF RoundInv
  <2> QED
    BY <2>1, <2>4, <2>5, <2>6 DEF store
<1>4. CASE RollMinute
  <2>1. /\ loop.pc = "roll" /\ loop.host \in Hosts
        /\ UNCHANGED <<now, monitored, limit, lru, samples, minutes, hours, recording,
                       nextMinute, nextHour, taken, changes>>
    BY <1>4 DEF RollMinute, LoopInv, Loops
  <2>2. Start \in Times
    BY <1>t, <2>1, Constants DEF RoundInv, Start, Times
  <2>3. Truncate(Start, Hour) \in Times
    <3> DEFINE q == Start \div Hour
    <3>1. Start \in Nat /\ Start <= MaxTime
      BY <2>2, Constants DEF Times
    <3>2. q \in Nat /\ q * Hour <= Start
      BY ONLY <3>1, Constants
    <3> HIDE DEF q
    <3>3. q * Hour \in Nat /\ q * Hour <= MaxTime
      BY <3>1, <3>2, Constants
    <3> QED
      BY <3>3, Constants DEF Truncate, Times, q
  <2> DEFINE h == loop.host
             buffer == IF loop.live THEN Ring(samples[h]) ELSE loop.kept
             bucket == {t \in buffer : Start <= t /\ t < nextMinute}
             agg == IF aggs[h] = None THEN [hour |-> 0, samples |-> {}] ELSE aggs[h]
  <2>4. bucket \in SUBSET Times
    BY <2>1 DEF Ring, Loops
  <2>5. agg \in Aggs
    <3>1. 0 \in Times
      BY Constants DEF Times
    <3> QED
      BY <2>1, <3>1 DEF Aggs
  <2>6. \/ /\ aggs' = [aggs EXCEPT ![h] = agg]
           /\ loop' = [loop EXCEPT !.pc = "pick", !.host = None, !.live = FALSE, !.kept = {}]
        \/ /\ aggs' = [aggs EXCEPT ![h] = [hour |-> Truncate(Start, Hour), samples |->
                bucket \cup (IF agg.hour = Truncate(Start, Hour) THEN agg.samples ELSE {})]]
           /\ loop' = [loop EXCEPT !.pc = "append", !.live = FALSE, !.kept = {},
                                   !.point = [start |-> Start, samples |-> bucket]]
    BY <1>4 DEF RollMinute, Start
  <2> HIDE DEF bucket, agg
  <2>7. aggs' \in [Hosts -> {None} \cup Aggs]
    <3>1. [hour |-> Truncate(Start, Hour), samples |->
             bucket \cup (IF agg.hour = Truncate(Start, Hour) THEN agg.samples ELSE {})] \in Aggs
      BY <2>3, <2>4, <2>5 DEF Aggs
    <3> QED
      BY <2>5, <2>6, <3>1
  <2>8. [start |-> Start, samples |-> bucket] \in Points
    BY <2>2, <2>4 DEF Points
  <2>9. loop' \in Loops /\ loop'.at = loop.at /\ InRound /\ InRound' /\ ~InHours'
    BY <2>1, <2>6, <2>8 DEF Loops, InRound, InHours
  <2>10. LoopInv'
    <3>1. None \notin loop.todo
      BY Constants DEF Loops
    <3>2. CASE loop' = [loop EXCEPT !.pc = "pick", !.host = None, !.live = FALSE, !.kept = {}]
      <4>1. loop'.pc = "pick" /\ loop'.host = None /\ loop'.live = FALSE /\ loop'.todo = loop.todo
        BY ONLY <3>2, loop \in Loops DEF Loops
      <4> QED
        BY ONLY <3>1, <4>1 DEF LoopInv
    <3>3. CASE loop' = [loop EXCEPT !.pc = "append", !.live = FALSE, !.kept = {},
                                    !.point = [start |-> Start, samples |-> bucket]]
      <4>1. /\ loop'.pc = "append" /\ loop'.host = h /\ loop'.live = FALSE /\ loop'.todo = loop.todo
            /\ loop'.point \in Points
        BY ONLY <2>8, <3>3, loop \in Loops DEF Loops
      <4>2. h # None /\ h \notin loop.todo
        BY <2>1 DEF LoopInv
      <4> QED
        BY ONLY <4>1, <4>2 DEF LoopInv
    <3> QED
      BY <2>6, <3>2, <3>3
  <2>11. RoundInv'
    BY <2>1, <2>9 DEF RoundInv
  <2> QED
    BY <2>1, <2>7, <2>9, <2>10, <2>11
<1>5. CASE AppendMinute
  <2>1. loop.pc = "append" /\ loop.host \in Hosts /\ loop.point \in Points
    BY <1>5 DEF AppendMinute, LoopInv, Loops
  <2>2. minutes' \in [Hosts -> Seq(Points)]
    BY <1>5, <2>1 DEF AppendMinute
  <2>3. loop' = [loop EXCEPT !.pc = "pick", !.host = None, !.point = None]
        /\ UNCHANGED <<now, monitored, limit, lru, samples, aggs, hours, recording,
                       nextMinute, nextHour, taken, changes>>
    BY <1>5 DEF AppendMinute
  <2>4. loop' \in Loops /\ loop'.at = loop.at /\ InRound /\ InRound' /\ ~InHours'
    BY <2>1, <2>3 DEF Loops, InRound, InHours
  <2>5. LoopInv'
    <3>1. None \notin loop.todo
      BY Constants DEF Loops
    <3> QED
      BY <2>1, <2>3, <3>1, Constants DEF LoopInv, Loops
  <2>6. RoundInv'
    BY <2>3, <2>4 DEF RoundInv
  <2> QED
    BY <2>2, <2>3, <2>4, <2>5, <2>6
<1>6. CASE EndMinute
  <2>1. loop.pc = "pick" /\ loop' = [loop EXCEPT !.pc = "minutes"] /\ nextMinute' = nextMinute + Minute
        /\ UNCHANGED <<now, monitored, limit, store, recording, nextHour, taken, changes>>
    BY <1>6 DEF EndMinute, Loop
  <2>2. loop' \in Loops /\ loop'.at = loop.at /\ InRound /\ loop'.pc = "minutes"
    BY <2>1 DEF Loops, InRound
  <2>3. LoopInv'
    BY <2>1 DEF LoopInv, Loops, store
  <2>4. RoundInv'
    <3>1. /\ Minute <= nextMinute /\ Hour <= nextHour /\ nextHour <= now + Hour
          /\ loop.at <= now /\ nextMinute + Grace <= loop.at
      BY <2>2 DEF RoundInv
    <3>2. ~InRound' /\ ~InHours'
      BY <2>2 DEF InRound, InHours
    <3> QED
      BY ONLY <1>t, <2>1, <2>2, <3>1, <3>2, Constants DEF RoundInv
  <2>5. nextMinute' \in Nat
    BY ONLY <1>t, <2>1, Sizes
  <2> QED
    BY <2>1, <2>2, <2>3, <2>4, <2>5 DEF store
<1> HIDE DEF TypeInv, TypeOK
<1> QED
  BY <1>1, <1>2, <1>3, <1>4, <1>5, <1>6

\* The steps of the loop for the hours.
LEMMA HourTypes ==
  ASSUME TypeInv,
         HoursOrWait \/ (\E h \in Hosts : RollHour(h)) \/ AppendHour \/ EndHour
  PROVE  TypeInv'
<1> USE DEF TypeInv, TypeOK
<1>t. /\ now \in Nat /\ loop.at \in Nat /\ nextMinute \in Nat /\ nextHour \in Nat
      /\ loop.at \in Times /\ now \in Times
  BY DEF Times, Loops
<1>1. CASE HoursOrWait
  <2>1. loop.pc = "hours" /\ loop.host = None /\ ~loop.live
        /\ UNCHANGED <<now, monitored, limit, store, recording, nextMinute, nextHour, taken, changes>>
    BY <1>1 DEF HoursOrWait, LoopInv
  <2>2. CASE Due(loop.at, nextHour)
    <3>1. loop' = [loop EXCEPT !.pc = "hourpick", !.todo = {h \in Hosts : aggs[h] # None}]
      BY <1>1, <2>2 DEF HoursOrWait
    <3>2. /\ loop' \in Loops /\ loop'.at = loop.at /\ ~InRound' /\ loop'.pc = "hourpick"
          /\ loop'.host = None /\ ~loop'.live
      BY <2>1, <3>1 DEF Loops, InRound
    <3>3. nextHour + Grace <= loop.at
      BY ONLY <1>t, <2>2, Sizes DEF Due
    <3>4. RoundInv'
      BY <2>1, <3>2, <3>3 DEF RoundInv
    <3>5. LoopInv'
      <4>1. None \notin loop'.todo
        BY <3>2, Constants DEF Loops
      <4> QED
        BY <3>2, <4>1 DEF LoopInv
    <3> QED
      BY <2>1, <3>2, <3>4, <3>5 DEF store
  <2>3. CASE ~Due(loop.at, nextHour)
    <3>1. loop' = Idle
      BY <1>1, <2>3 DEF HoursOrWait
    <3>2. 0 \in Times
      BY Constants DEF Times
    <3>3. /\ loop' \in Loops /\ loop'.at = 0 /\ ~InRound' /\ ~InHours' /\ loop'.pc = "idle"
          /\ loop'.host = None /\ ~loop'.live /\ loop'.todo = {}
      BY <3>1, <3>2 DEF Idle, Loops, InRound, InHours
    <3>4. RoundInv'
      BY <1>t, <2>1, <3>3 DEF RoundInv
    <3>5. LoopInv'
      BY <3>3 DEF LoopInv
    <3> QED
      BY <2>1, <3>3, <3>4, <3>5 DEF store
  <2> QED
    BY <2>2, <2>3
<1>2. ASSUME NEW h \in Hosts, RollHour(h) PROVE TypeInv'
  <2> DEFINE done == aggs[h] # None /\ aggs[h].hour = HourStart /\ aggs[h].samples # {}
  <2>1. /\ loop.pc = "hourpick" /\ h \in loop.todo /\ loop.host = None /\ ~loop.live
        /\ UNCHANGED <<now, monitored, limit, lru, samples, minutes, hours, recording,
                       nextMinute, nextHour, taken, changes>>
    BY <1>2 DEF RollHour, LoopInv
  <2>2. \/ /\ done
           /\ loop' = [loop EXCEPT !.pc = "hourappend", !.todo = @ \ {h}, !.host = h,
                                   !.point = [start |-> HourStart, samples |-> aggs[h].samples]]
        \/ loop' = [loop EXCEPT !.todo = @ \ {h}]
    BY <1>2 DEF RollHour, HourStart
  <2>3. aggs' \in [Hosts -> {None} \cup Aggs]
    <3>1. [hour |-> 0, samples |-> {}] \in Aggs
      BY Constants DEF Aggs, Times
    <3> QED
      BY <1>2, <3>1 DEF RollHour
  <2>4. done => [start |-> HourStart, samples |-> aggs[h].samples] \in Points
    BY Constants DEF Aggs, Points
  <2> HIDE DEF done
  <2>5. loop' \in Loops /\ loop'.at = loop.at /\ InHours /\ InHours' /\ ~InRound'
    <3>1. loop \in Loops
      OBVIOUS
    <3>2. CASE done /\ loop' = [loop EXCEPT !.pc = "hourappend", !.todo = @ \ {h}, !.host = h,
                                   !.point = [start |-> HourStart, samples |-> aggs[h].samples]]
      BY ONLY <2>1, <2>4, <3>1, <3>2, h \in Hosts DEF Loops, InRound, InHours
    <3>3. CASE loop' = [loop EXCEPT !.todo = @ \ {h}]
      BY ONLY <2>1, <3>1, <3>3 DEF Loops, InRound, InHours
    <3> QED
      BY ONLY <2>2, <3>2, <3>3
  <2>6. LoopInv'
    <3>1. None \notin loop.todo /\ h # None
      BY Constants DEF Loops
    <3>2. CASE done /\ loop' = [loop EXCEPT !.pc = "hourappend", !.todo = @ \ {h}, !.host = h,
                                   !.point = [start |-> HourStart, samples |-> aggs[h].samples]]
      BY <2>1, <2>4, <3>1, <3>2 DEF LoopInv, Loops
    <3>3. CASE loop' = [loop EXCEPT !.todo = @ \ {h}]
      BY <2>1, <3>1, <3>3 DEF LoopInv, Loops
    <3> QED
      BY <2>2, <3>2, <3>3
  <2>7. RoundInv'
    BY <2>1, <2>5 DEF RoundInv
  <2> QED
    BY <2>1, <2>3, <2>5, <2>6, <2>7
<1>3. CASE AppendHour
  <2>1. loop.pc = "hourappend" /\ loop.host \in Hosts /\ loop.point \in Points /\ ~loop.live
    BY <1>3 DEF AppendHour, LoopInv, Loops
  <2>2. hours' \in [Hosts -> Seq(Points)]
    BY <1>3, <2>1 DEF AppendHour
  <2>3. loop' = [loop EXCEPT !.pc = "hourpick", !.host = None, !.point = None]
        /\ UNCHANGED <<now, monitored, limit, lru, samples, aggs, minutes, recording,
                       nextMinute, nextHour, taken, changes>>
    BY <1>3 DEF AppendHour
  <2>4. loop' \in Loops /\ loop'.at = loop.at /\ InHours /\ InHours' /\ ~InRound'
    BY <2>1, <2>3 DEF Loops, InRound, InHours
  <2>5. LoopInv'
    <3>1. None \notin loop.todo
      BY Constants DEF Loops
    <3> QED
      BY <2>1, <2>3, <3>1, Constants DEF LoopInv, Loops
  <2>6. RoundInv'
    BY <2>3, <2>4 DEF RoundInv
  <2> QED
    BY <2>2, <2>3, <2>4, <2>5, <2>6
<1>4. CASE EndHour
  <2>1. loop.pc = "hourpick" /\ loop' = [loop EXCEPT !.pc = "hours"] /\ nextHour' = nextHour + Hour
        /\ UNCHANGED <<now, monitored, limit, store, recording, nextMinute, taken, changes>>
    BY <1>4 DEF EndHour, Loop
  <2>2. loop' \in Loops /\ loop'.at = loop.at /\ InHours /\ loop'.pc = "hours"
    BY <2>1 DEF Loops, InHours
  <2>3. LoopInv'
    BY <2>1 DEF LoopInv, Loops, store
  <2>4. RoundInv'
    <3>1. /\ Minute <= nextMinute /\ nextMinute <= now + Minute /\ Hour <= nextHour
          /\ loop.at <= now /\ nextHour + Grace <= loop.at
      BY <2>2 DEF RoundInv
    <3>2. ~InRound' /\ ~InHours'
      BY <2>2 DEF InRound, InHours
    <3>3. Hour <= nextHour' /\ nextHour' <= now + Hour
      BY ONLY <1>t, <2>1, <3>1, Sizes
    <3> QED
      BY ONLY <2>1, <2>2, <3>1, <3>2, <3>3 DEF RoundInv
  <2>5. nextHour' \in Nat
    BY ONLY <1>t, <2>1, Sizes
  <2> QED
    BY <2>1, <2>2, <2>3, <2>4, <2>5 DEF store
<1> HIDE DEF TypeInv, TypeOK
<1> QED
  BY <1>1, <1>2, <1>3, <1>4

\* Where a host that is rolled up leaves the loop.
LEMMA LoopMoves ==
  ASSUME TypeInv
  PROVE  /\ RollMinute => loop'.pc \in {"pick", "append"}
         /\ \A h \in Hosts : Pick(h) => loop'.pc \in {"pick", "roll"}
         /\ \A h \in Hosts : RollHour(h) => loop'.pc \in {"hourpick", "hourappend"} /\ loop'.at = loop.at
<1>1. loop \in Loops
  BY DEF TypeInv, TypeOK
<1>2. ASSUME RollMinute PROVE loop'.pc \in {"pick", "append"}
  BY ONLY <1>1, <1>2 DEF RollMinute, Loops
<1>3. ASSUME NEW h \in Hosts, Pick(h) PROVE loop'.pc \in {"pick", "roll"}
  BY ONLY <1>1, <1>3 DEF Pick, Loops
<1>4. ASSUME NEW h \in Hosts, RollHour(h)
      PROVE  loop'.pc \in {"hourpick", "hourappend"} /\ loop'.at = loop.at
  BY ONLY <1>1, <1>4 DEF RollHour, Loops
<1> QED
  BY <1>2, <1>3, <1>4

LEMMA NextTypes == TypeInv /\ [Next]_vars => TypeInv'
<1> SUFFICES ASSUME TypeInv, [Next]_vars PROVE TypeInv'
  OBVIOUS
<1>1. CASE UNCHANGED vars
  BY <1>1 DEF TypeInv, TypeOK, LoopInv, RoundInv, InRound, InHours, vars, store, rollup
<1> QED
  BY <1>1, EngineTypes, MinuteTypes, HourTypes DEF Next, RollupLoop

\* The types hold, for every set of hosts, all sizes of the buckets, and however late
\* the loop is.
THEOREM MetricsTypeCorrect == Spec => []TypeOK
<1>1. TypeInv => TypeOK
  BY DEF TypeInv
<1> QED
  BY <1>1, InitTypes, NextTypes, PTL DEF Spec

---------------------------------------------------------------------------
(* The list                                                                *)

\* The list has each host with samples once, in the order of their last samples.
ListOK(list, of) ==
  /\ \A i, j \in DOMAIN list : list[i] = list[j] => i = j
  /\ \A h \in Hosts : h \in Range(list) <=> of[h] # {}
  /\ \A i, j \in DOMAIN list : i < j => \E t \in of[list[i]] : \A u \in of[list[j]] : u <= t

\* No sample is newer than the one that is under way.
ClockInv ==
  /\ \A h \in Hosts : \A t \in samples[h] : t <= now
  /\ recording # None =>
       /\ recording.at <= now /\ recording.host \in monitored
       /\ \A h \in Hosts : \A t \in samples[h] : t <= recording.at

\* Only hosts of the engine are in the list.
LruInv == Len(lru) <= limit /\ ListOK(lru, samples) /\ Range(lru) \subseteq monitored /\ ClockInv

LEMMA ListWithout ==
  ASSUME NEW list \in Seq(Hosts), NEW of, ListOK(list, of), NEW gone, NEW rest,
         LeftOf(list, gone, Len(list), rest), NEW to,
         \A h \in Hosts \ gone : to[h] = of[h]
  PROVE  /\ \A i, j \in DOMAIN rest : rest[i] = rest[j] => i = j
         /\ \A h \in Hosts : h \in Range(rest) <=> h \notin gone /\ of[h] # {}
         /\ \A i, j \in DOMAIN rest : i < j => \E t \in to[rest[i]] : \A u \in to[rest[j]] : u <= t
<1>1. /\ DOMAIN list = 1 .. Len(list) /\ Len(list) \in Nat /\ rest \in Seq(Hosts)
      /\ DOMAIN rest = 1 .. Len(rest) /\ Len(rest) \in Nat
      /\ \A i \in DOMAIN list : list[i] \in Hosts
  BY DEF LeftOf
<1>2. ASSUME NEW a \in DOMAIN rest, NEW b \in DOMAIN rest, a < b
      PROVE  /\ rest[a] # rest[b]
             /\ \E t \in to[rest[a]] : \A u \in to[rest[b]] : u <= t
  <2>1. PICK i, j \in 1 .. Len(list) : i < j /\ rest[a] = list[i] /\ rest[b] = list[j]
    BY <1>2 DEF LeftOf
  <2>2. \E t \in of[list[i]] : \A u \in of[list[j]] : u <= t
    BY <1>1, <2>1 DEF ListOK
  <2>3. list[i] # list[j]
    BY <1>1, <2>1 DEF ListOK
  <2>4. to[rest[a]] = of[rest[a]] /\ to[rest[b]] = of[rest[b]]
    <3>1. rest[a] \in Hosts \ gone /\ rest[b] \in Hosts \ gone
      BY <1>1 DEF LeftOf
    <3> QED
      BY <3>1
  <2> QED
    BY <2>1, <2>2, <2>3, <2>4
<1>3. ASSUME NEW i \in DOMAIN rest, NEW j \in DOMAIN rest, rest[i] = rest[j] PROVE i = j
  <2>1. i < j \/ j < i \/ i = j
    BY <1>1
  <2> QED
    BY <1>2, <1>3, <2>1
<1>4. ASSUME NEW h \in Hosts PROVE h \in Range(rest) <=> h \notin gone /\ of[h] # {}
  <2>1. ASSUME h \in Range(rest) PROVE h \notin gone /\ of[h] # {}
    <3>1. PICK a \in DOMAIN rest : rest[a] = h
      BY <2>1 DEF Range
    <3>2. PICK i \in 1 .. Len(list) : h = list[i] /\ list[i] \notin gone
      BY <3>1 DEF LeftOf
    <3>3. h \in Range(list)
      BY <1>1, <3>2 DEF Range
    <3> QED
      BY <3>2, <3>3 DEF ListOK
  <2>2. ASSUME h \notin gone, of[h] # {} PROVE h \in Range(rest)
    <3>1. h \in Range(list)
      BY <2>2 DEF ListOK
    <3>2. PICK i \in 1 .. Len(list) : h = list[i]
      BY <1>1, <3>1 DEF Range
    <3>3. \E a \in DOMAIN rest : rest[a] = h
      BY <2>2, <3>2 DEF LeftOf
    <3> QED
      BY <3>3 DEF Range
  <2> QED
    BY <2>1, <2>2
<1>5. \A i, j \in DOMAIN rest : i < j => \E t \in to[rest[i]] : \A u \in to[rest[j]] : u <= t
  BY <1>2
<1> QED
  BY <1>3, <1>4, <1>5

\* The host of a new sample goes to the front.
LEMMA ListToFront ==
  ASSUME NEW rest \in Seq(Hosts), NEW h \in Hosts, NEW of, NEW to, NEW at \in Nat,
         \A i, j \in DOMAIN rest : rest[i] = rest[j] => i = j,
         \A x \in Hosts : x \in Range(rest) <=> x # h /\ of[x] # {},
         \A i, j \in DOMAIN rest : i < j => \E t \in of[rest[i]] : \A u \in of[rest[j]] : u <= t,
         at \in to[h], \A x \in Hosts \ {h} : to[x] = of[x],
         \A x \in Hosts : \A u \in of[x] : u <= at
  PROVE  /\ <<h>> \o rest \in Seq(Hosts) /\ Len(<<h>> \o rest) = Len(rest) + 1
         /\ Range(<<h>> \o rest) = Range(rest) \cup {h}
         /\ ListOK(<<h>> \o rest, to)
<1> DEFINE list == <<h>> \o rest
<1>1. /\ list \in Seq(Hosts) /\ Len(list) = Len(rest) + 1 /\ Len(rest) \in Nat
      /\ list[1] = h /\ \A a \in 1 .. Len(rest) : list[a + 1] = rest[a]
  OBVIOUS
<1>2. DOMAIN list = 1 .. Len(rest) + 1 /\ DOMAIN rest = 1 .. Len(rest)
  BY <1>1
<1> HIDE DEF list
<1>3. ASSUME NEW i \in DOMAIN list
      PROVE  \/ i = 1 /\ list[i] = h
             \/ i - 1 \in DOMAIN rest /\ list[i] = rest[i - 1] /\ i \in Nat
  <2>1. CASE i = 1
    <3>1. list[i] = h
      BY <1>1, <2>1
    <3> QED
      BY ONLY <2>1, <3>1
  <2>2. CASE i # 1
    <3>1. i - 1 \in 1 .. Len(rest) /\ (i - 1) + 1 = i /\ i \in Nat
      BY <1>1, <1>2, <2>2
    <3> QED
      BY <1>1, <1>2, <3>1
  <2> QED
    BY <2>1, <2>2
<1>4. Range(list) = Range(rest) \cup {h}
  <2>1. ASSUME NEW x \in Range(list) PROVE x \in Range(rest) \cup {h}
    BY <1>3 DEF Range
  <2>2. ASSUME NEW x \in Range(rest) PROVE x \in Range(list)
    <3>1. PICK a \in 1 .. Len(rest) : rest[a] = x
      BY <1>2 DEF Range
    <3>2. a + 1 \in 1 .. Len(rest) + 1
      BY <1>1
    <3> QED
      BY <1>1, <1>2, <3>1, <3>2 DEF Range
  <2>3. 1 \in DOMAIN list
    BY <1>1, <1>2
  <2>4. h \in Range(list)
    BY <1>1, <2>3 DEF Range
  <2> QED
    BY <2>1, <2>2, <2>4
<1>5. h \notin Range(rest) /\ \A a \in DOMAIN rest : rest[a] \in Range(rest) /\ rest[a] \in Hosts /\ rest[a] # h
  <2>1. \A a \in DOMAIN rest : rest[a] \in Range(rest) /\ rest[a] \in Hosts
    BY DEF Range
  <2> QED
    BY <2>1
<1>6. ASSUME NEW i \in DOMAIN list, NEW j \in DOMAIN list, list[i] = list[j] PROVE i = j
  <2>1. CASE i = 1 \/ j = 1
    BY <1>3, <1>5, <1>6, <2>1
  <2>2. CASE i # 1 /\ j # 1
    <3>1. i - 1 = j - 1 /\ i \in Nat /\ j \in Nat
      BY <1>3, <1>6, <2>2
    <3> QED
      BY <3>1
  <2> QED
    BY <2>1, <2>2
<1>7. ASSUME NEW x \in Hosts PROVE x \in Range(list) <=> to[x] # {}
  BY <1>4
<1>8. ASSUME NEW i \in DOMAIN list, NEW j \in DOMAIN list, i < j
      PROVE  \E t \in to[list[i]] : \A u \in to[list[j]] : u <= t
  <2>1. j - 1 \in DOMAIN rest /\ list[j] = rest[j - 1] /\ j \in Nat /\ i \in Nat
    BY <1>1, <1>2, <1>3, <1>8
  <2>2. to[list[j]] = of[list[j]]
    BY <1>5, <2>1
  <2>3. CASE i = 1
    <3>1. list[i] = h /\ list[j] \in Hosts
      BY <1>1, <1>5, <2>1, <2>3
    <3> QED
      BY <2>2, <3>1
  <2>4. CASE i # 1
    <3>1. i - 1 \in DOMAIN rest /\ list[i] = rest[i - 1] /\ i - 1 < j - 1
      BY <1>3, <1>8, <2>1, <2>4
    <3>2. to[list[i]] = of[list[i]]
      BY <1>5, <3>1
    <3>3. \E t \in of[rest[i - 1]] : \A u \in of[rest[j - 1]] : u <= t
      BY <2>1, <3>1
    <3> QED
      BY <2>1, <2>2, <3>1, <3>2, <3>3
  <2> QED
    BY <2>3, <2>4
<1>9. ListOK(list, to)
  BY <1>6, <1>7, <1>8 DEF ListOK
<1> QED
  BY <1>1, <1>4, <1>9 DEF list

LEMMA RecordKeepsList ==
  ASSUME TypeInv, LruInv, NEW h \in Hosts, Record(h)
  PROVE  LruInv'
<1> USE DEF TypeInv, TypeOK
<1>1. /\ recording.host = h /\ recording.at \in Nat /\ recording.at \in Times /\ recording.at <= now
      /\ h \in monitored /\ \A x \in Hosts : \A t \in samples[x] : t <= recording.at
  BY DEF Record, Sample, Times, LruInv, ClockInv
<1>2. recording' = None /\ UNCHANGED <<now, monitored, limit>> /\ Len(lru) \in Nat /\ limit \in Nat
  BY Constants DEF Record
<1>3. CASE UNCHANGED <<lru, samples>>
  BY <1>2, <1>3 DEF LruInv, ClockInv
<1>4. ASSUME samples'[h] # {}, \A x \in Hosts \ {h} : samples'[x] = samples[x],
             \A t \in samples'[h] : t \in samples[h] \cup {recording.at}
      PROVE  ClockInv'
  <2>1. ASSUME NEW x \in Hosts, NEW t \in samples'[x] PROVE t <= now
    <3>1. CASE x = h
      BY <1>1, <1>4, <3>1 DEF LruInv, ClockInv
    <3>2. CASE x # h
      BY <1>4, <2>1, <3>2 DEF LruInv, ClockInv
    <3> QED
      BY <3>1, <3>2
  <2> QED
    BY <1>2, <2>1 DEF ClockInv
<1>5. ASSUME NEW rest \in Seq(Hosts), lru' = <<h>> \o rest, Len(rest) + 1 <= limit,
             Range(rest) \subseteq monitored, recording.at \in samples'[h],
             \A i, j \in DOMAIN rest : rest[i] = rest[j] => i = j,
             \A x \in Hosts : x \in Range(rest) <=> x # h /\ samples[x] # {},
             \A i, j \in DOMAIN rest : i < j => \E t \in samples[rest[i]] : \A u \in samples[rest[j]] : u <= t,
             \A x \in Hosts \ {h} : samples'[x] = samples[x],
             \A t \in samples'[h] : t \in samples[h] \cup {recording.at}
      PROVE  LruInv'
  <2>1. /\ Len(<<h>> \o rest) = Len(rest) + 1
        /\ Range(<<h>> \o rest) = Range(rest) \cup {h}
        /\ ListOK(<<h>> \o rest, samples')
    <3> DEFINE at == recording.at
               to == samples'
    <3>1. at \in Nat /\ at \in to[h] /\ \A x \in Hosts : \A u \in samples[x] : u <= at
      BY <1>1, <1>5
    <3>2. \A x \in Hosts \ {h} : to[x] = samples[x]
      BY <1>5
    <3> HIDE DEF at, to
    <3>3. /\ Len(<<h>> \o rest) = Len(rest) + 1
          /\ Range(<<h>> \o rest) = Range(rest) \cup {h}
          /\ ListOK(<<h>> \o rest, to)
      BY <1>5, <3>1, <3>2, ListToFront
    <3> QED
      BY <3>3 DEF to
  <2>2. ListOK(lru', samples')
    BY <1>5, <2>1
  <2>3. ClockInv'
    BY <1>4, <1>5
  <2>4. Len(lru') <= limit' /\ Range(lru') \subseteq monitored'
    BY <1>1, <1>2, <1>5, <2>1
  <2> QED
    BY <2>2, <2>3, <2>4 DEF LruInv
<1>6. CASE /\ h \in Range(lru) /\ lru' = <<h>> \o Without(lru, {h})
           /\ samples' = [samples EXCEPT ![h] = @ \cup {recording.at}]
  <2> DEFINE rest == Without(lru, {h})
  <2>1. LeftOf(lru, {h}, Len(lru), rest)
    BY WithoutLeaves
  <2> HIDE DEF rest
  <2>2. /\ rest \in Seq(Hosts)
        /\ \A i, j \in DOMAIN rest : rest[i] = rest[j] => i = j
        /\ \A x \in Hosts : x \in Range(rest) <=> x \notin {h} /\ samples[x] # {}
        /\ \A i, j \in DOMAIN rest : i < j => \E t \in samples[rest[i]] : \A u \in samples[rest[j]] : u <= t
    <3>1. ListOK(lru, samples) /\ rest \in Seq(Hosts) /\ lru \in Seq(Hosts)
      BY <2>1 DEF LruInv, LeftOf
    <3>2. \A x \in Hosts \ {h} : samples[x] = samples[x]
      OBVIOUS
    <3>3. /\ \A i, j \in DOMAIN rest : rest[i] = rest[j] => i = j
          /\ \A x \in Hosts : x \in Range(rest) <=> x \notin {h} /\ samples[x] # {}
          /\ \A i, j \in DOMAIN rest : i < j => \E t \in samples[rest[i]] : \A u \in samples[rest[j]] : u <= t
      BY ONLY <2>1, <3>1, <3>2, ListWithout, Zenon
    <3> QED
      BY <3>1, <3>3
  <2>3. Len(rest) + 1 <= limit
    <3>1. PICK i \in DOMAIN lru : lru[i] = h
      BY <1>6 DEF Range
    <3>2. i \in 1 .. Len(lru)
      BY <3>1
    <3>3. Len(rest) <= Len(lru) - 1 /\ Len(rest) \in Nat
      BY <2>1, <2>2, <3>1, <3>2 DEF LeftOf
    <3>4. Len(lru) <= limit
      BY DEF LruInv
    <3> QED
      BY ONLY <1>2, <3>3, <3>4
  <2>4. Range(rest) \subseteq monitored
    <3>1. Range(lru) \subseteq monitored /\ \A x \in Hosts : x \in Range(lru) <=> samples[x] # {}
      BY DEF LruInv, ListOK
    <3>2. Range(rest) \subseteq Hosts
      BY <2>2 DEF Range
    <3> QED
      BY <2>2, <3>1, <3>2
  <2>5. lru' = <<h>> \o rest
    BY <1>6 DEF rest
  <2>6. /\ recording.at \in samples'[h] /\ \A x \in Hosts \ {h} : samples'[x] = samples[x]
        /\ \A t \in samples'[h] : t \in samples[h] \cup {recording.at}
    BY <1>6
  <2> QED
    BY <1>5, <2>2, <2>3, <2>4, <2>5, <2>6
<1>7. CASE /\ h \notin Range(lru) /\ Len(lru) < limit
           /\ lru' = <<h>> \o lru /\ samples' = [samples EXCEPT ![h] = {recording.at}]
  <2>1. /\ \A i, j \in DOMAIN lru : lru[i] = lru[j] => i = j
        /\ \A x \in Hosts : x \in Range(lru) <=> x # h /\ samples[x] # {}
        /\ \A i, j \in DOMAIN lru : i < j => \E t \in samples[lru[i]] : \A u \in samples[lru[j]] : u <= t
    BY <1>7 DEF LruInv, ListOK
  <2>2. Len(lru) + 1 <= limit /\ Range(lru) \subseteq monitored
    BY <1>2, <1>7 DEF LruInv
  <2>3. /\ recording.at \in samples'[h] /\ \A x \in Hosts \ {h} : samples'[x] = samples[x]
        /\ \A t \in samples'[h] : t \in samples[h] \cup {recording.at}
    BY <1>7
  <2> QED
    BY <1>5, <1>7, <2>1, <2>2, <2>3
<1> QED
  BY <1>3, <1>6, <1>7 DEF Record

\* Fewer hosts are monitored, or the limit is lower.
LEMMA DropKeepsList ==
  ASSUME TypeInv, LruInv, NEW gone \in SUBSET Hosts, DropBuffers(gone), recording' = None, now' = now,
         \A i \in DOMAIN lru : lru[i] \notin gone => i <= limit' /\ lru[i] \in monitored',
         limit' \in Nat
  PROVE  LruInv'
<1> USE DEF TypeInv, TypeOK
<1>1. LeftOf(lru, gone, Len(lru), lru') /\ samples' = [h \in Hosts |-> IF h \in gone THEN {} ELSE samples[h]]
  BY WithoutLeaves DEF DropBuffers
<1>2. /\ \A i, j \in DOMAIN lru' : lru'[i] = lru'[j] => i = j
      /\ \A h \in Hosts : h \in Range(lru') <=> h \notin gone /\ samples[h] # {}
      /\ \A i, j \in DOMAIN lru' : i < j => \E t \in samples'[lru'[i]] : \A u \in samples'[lru'[j]] : u <= t
  <2> DEFINE rest == lru'
             to == samples'
  <2>1. LeftOf(lru, gone, Len(lru), rest) /\ \A h \in Hosts \ gone : to[h] = samples[h]
    BY <1>1
  <2>2. ListOK(lru, samples) /\ lru \in Seq(Hosts)
    BY DEF LruInv
  <2> HIDE DEF rest, to
  <2>3. /\ \A i, j \in DOMAIN rest : rest[i] = rest[j] => i = j
        /\ \A h \in Hosts : h \in Range(rest) <=> h \notin gone /\ samples[h] # {}
        /\ \A i, j \in DOMAIN rest : i < j => \E t \in to[rest[i]] : \A u \in to[rest[j]] : u <= t
    <3>1. gone \in SUBSET Hosts
      OBVIOUS
    <3> QED
      BY ONLY <2>1, <2>2, <3>1, ListWithout
  <2> QED
    BY <2>3 DEF rest, to
<1>3. ListOK(lru', samples')
  <2>1. \A h \in Hosts : h \in Range(lru') <=> samples'[h] # {}
    BY <1>1, <1>2
  <2> QED
    BY <1>2, <2>1 DEF ListOK
<1>4. lru' \in Seq(Hosts) /\ DOMAIN lru = 1 .. Len(lru)
  BY <1>1 DEF LeftOf
<1>5. Range(lru') \subseteq monitored'
  <2> SUFFICES ASSUME NEW a \in DOMAIN lru' PROVE lru'[a] \in monitored'
    BY DEF Range
  <2>1. PICK i \in 1 .. Len(lru) : lru'[a] = lru[i] /\ lru[i] \notin gone
    BY <1>1 DEF LeftOf
  <2> QED
    BY <1>4, <2>1
<1>6. Len(lru') <= limit'
  <2> DEFINE n == Len(lru')
  <2>1. n \in Nat
    BY <1>4
  <2>2. CASE n = 0
    BY <2>2
  <2>3. CASE n # 0
    <3>1. n \in DOMAIN lru'
      BY <1>4, <2>1, <2>3
    <3>2. PICK i \in 1 .. Len(lru) : n <= i /\ lru[i] \notin gone
      BY <1>1, <3>1 DEF LeftOf
    <3>3. i <= limit' /\ i \in Nat
      <4>1. i \in DOMAIN lru /\ lru[i] \notin gone /\ i \in Nat
        BY <1>4, <3>2
      <4> QED
        BY <4>1
    <3> HIDE DEF n
    <3>4. n <= limit'
      BY ONLY <2>1, <3>2, <3>3, limit' \in Nat
    <3> QED
      BY <3>4 DEF n
  <2> QED
    BY <2>2, <2>3
<1>7. ClockInv'
  BY <1>1 DEF LruInv, ClockInv
<1> QED
  BY <1>3, <1>5, <1>6, <1>7 DEF LruInv

LEMMA NextList == TypeInv /\ LruInv /\ [Next]_vars => LruInv'
<1> SUFFICES ASSUME TypeInv, LruInv, [Next]_vars PROVE LruInv'
  OBVIOUS
<1> USE DEF TypeInv, TypeOK
<1>1. CASE Tick
  <2>1. now' = now + 1 /\ now \in Nat /\ UNCHANGED <<lru, samples, limit, monitored, recording>>
    BY <1>1 DEF Tick, store, Times
  <2>2. ASSUME NEW h \in Hosts, NEW t \in samples[h] PROVE t <= now'
    <3>1. t <= now /\ t \in Nat
      BY DEF LruInv, ClockInv, Times
    <3> QED
      BY <2>1, <3>1
  <2>3. recording # None => recording.at <= now'
    <3>1. recording # None => recording.at <= now /\ recording.at \in Nat
      BY DEF LruInv, ClockInv, Sample, Times
    <3> QED
      BY <2>1, <3>1
  <2> QED
    BY <2>1, <2>2, <2>3 DEF LruInv, ClockInv
<1>2. ASSUME NEW h \in Hosts, Probe(h) PROVE LruInv'
  <2>1. /\ recording' = [host |-> h, at |-> now] /\ h \in monitored
        /\ UNCHANGED <<now, lru, samples, limit, monitored>>
    BY <1>2 DEF Probe, store
  <2>2. now \in Nat
    BY DEF Times
  <2> QED
    BY <2>1, <2>2 DEF LruInv, ClockInv
<1>3. ASSUME NEW h \in Hosts, Record(h) PROVE LruInv'
  BY <1>3, RecordKeepsList
<1>4. ASSUME NEW active \in SUBSET Hosts, SetTargets(active) PROVE LruInv'
  <2>1. /\ DropBuffers(Hosts \ active) /\ monitored' = active /\ recording' = None
        /\ now' = now /\ limit' = limit /\ limit \in Nat
    BY <1>4, Constants DEF SetTargets, PruneHosts
  <2>2. \A i \in DOMAIN lru : lru[i] \notin Hosts \ active => i <= limit /\ lru[i] \in active
    <3> SUFFICES ASSUME NEW i \in DOMAIN lru, lru[i] \notin Hosts \ active
                 PROVE  i <= limit /\ lru[i] \in active
      OBVIOUS
    <3>1. i \in Nat /\ i <= Len(lru) /\ lru[i] \in Hosts /\ Len(lru) \in Nat
      OBVIOUS
    <3>2. Len(lru) <= limit
      BY DEF LruInv
    <3>3. i <= limit
      BY ONLY <2>1, <3>1, <3>2
    <3> QED
      BY <3>1, <3>3
  <2>3. \A i \in DOMAIN lru : lru[i] \notin Hosts \ active => i <= limit' /\ lru[i] \in monitored'
    BY <2>1, <2>2
  <2>4. Hosts \ active \in SUBSET Hosts /\ limit' \in Nat
    BY <2>1
  <2> QED
    BY <2>1, <2>3, <2>4, DropKeepsList
<1>5. ASSUME NEW n \in Limits, SetCapacity(n) PROVE LruInv'
  <2> DEFINE gone == {lru[i] : i \in {j \in DOMAIN lru : j > n}}
  <2>1. /\ DropBuffers(gone) /\ limit' = n /\ recording' = None
        /\ now' = now /\ monitored' = monitored /\ limit' \in Nat
    BY <1>5, Constants DEF SetCapacity
  <2>2. gone \in SUBSET Hosts
    OBVIOUS
  <2>3. ASSUME NEW i \in DOMAIN lru, lru[i] \notin gone PROVE i <= limit' /\ lru[i] \in monitored'
    <3>1. ~(i > n) /\ i \in Nat /\ n \in Nat
      BY <2>1, <2>3
    <3>2. i <= limit'
      BY <2>1, <3>1
    <3>3. lru[i] \in Range(lru)
      BY DEF Range
    <3> QED
      BY <2>1, <3>2, <3>3 DEF LruInv
  <2> HIDE DEF gone
  <2> QED
    BY <2>1, <2>2, <2>3, DropKeepsList
<1>6. CASE RollupLoop
  <2>1. UNCHANGED <<now, monitored, limit, lru, samples, recording>>
    BY <1>6 DEF RollupLoop, Wake, Minutes, Pick, RollMinute, AppendMinute, EndMinute,
                HoursOrWait, RollHour, AppendHour, EndHour, store
  <2> QED
    BY <2>1 DEF LruInv, ClockInv
<1>7. CASE UNCHANGED vars
  BY <1>7 DEF vars, store, LruInv, ClockInv
<1> HIDE DEF TypeInv, TypeOK
<1> QED
  BY <1>1, <1>2, <1>3, <1>4, <1>5, <1>6, <1>7 DEF Next

LEMMA LruInvHolds == Spec => []LruInv
<1>1. Init => LruInv
  <2> SUFFICES ASSUME Init PROVE LruInv
    OBVIOUS
  <2>1. lru = <<>> /\ Len(lru) = 0 /\ DOMAIN lru = {} /\ recording = None /\ limit \in Nat
    BY Constants DEF Init
  <2>2. \A h \in Hosts : samples[h] = {}
    BY DEF Init
  <2> QED
    BY <2>1, <2>2 DEF LruInv, ListOK, ClockInv, Range
<1> QED
  BY <1>1, InitTypes, NextTypes, NextList, PTL DEF Spec

\* The list has each host with samples once, in the order of their last samples, and
\* is never longer than the limit, for all sets of hosts and limits (store.go,
\* getOrCreateRawBuffer, SetCapacity, PruneHosts).
THEOREM SilentHostsGoFirst == Spec => []LeastRecentGoFirst
<1>1. LruInv => LeastRecentGoFirst
  BY DEF LruInv, ListOK, LeastRecentGoFirst, IsInjective
<1> QED
  BY <1>1, LruInvHolds, PTL

---------------------------------------------------------------------------
(* What is left of removed hosts                                           *)

Ghost(h) == aggs[h] # None \/ minutes[h] # <<>> \/ hours[h] # <<>>

\* One removed host at most has left something, and the loop works on no other.
GhostInv ==
  \E g \in Hosts \cup {None} : \A h \in Hosts \ monitored : Ghost(h) \/ loop.host = h => h = g

LEMMA NextGhosts == TypeInv /\ LruInv /\ GhostInv /\ [Next]_vars => GhostInv'
<1> SUFFICES ASSUME TypeInv, LruInv, GhostInv, [Next]_vars PROVE GhostInv'
  OBVIOUS
<1> USE DEF TypeInv, TypeOK
<1>1. ASSUME monitored' = monitored,
             \A h \in Hosts \ monitored : Ghost(h)' \/ loop'.host = h => Ghost(h) \/ loop.host = h
      PROVE  GhostInv'
  BY <1>1 DEF GhostInv
<1>2. ASSUME UNCHANGED <<monitored, aggs, minutes, hours>>, loop'.host \in {loop.host, None} \cup monitored
      PROVE  GhostInv'
  <2>1. \A h \in Hosts \ monitored : loop'.host = h => loop.host = h
    BY <1>2, Constants
  <2>2. \A h \in Hosts : Ghost(h)' <=> Ghost(h)
    BY <1>2 DEF Ghost
  <2> QED
    BY <1>1, <1>2, <2>1, <2>2
<1>3. CASE Tick \/ (\E h \in Hosts : Probe(h) \/ Record(h)) \/ UNCHANGED vars
  <2>1. UNCHANGED <<monitored, aggs, minutes, hours, loop>>
    BY <1>3 DEF Tick, Probe, Record, vars, store, rollup
  <2> QED
    BY <1>2, <2>1
<1>4. ASSUME NEW active \in SUBSET Hosts, SetTargets(active) PROVE GhostInv'
  <2>1. monitored' = active /\ DropBuffers(Hosts \ active) /\ DropRollups(Hosts \ active)
    BY <1>4 DEF SetTargets, PruneHosts
  <2>2. loop'.host = loop.host /\ loop.host \in Hosts \cup {None}
    BY <2>1 DEF DropBuffers, Loops
  <2>3. \A h \in Hosts \ active : ~Ghost(h)'
    BY <2>1 DEF DropRollups, Ghost
  <2>4. \A h \in Hosts \ monitored' : Ghost(h)' \/ loop'.host = h => h = loop.host
    BY <2>1, <2>2, <2>3
  <2> QED
    BY <2>2, <2>4 DEF GhostInv
<1>5. ASSUME NEW n \in Limits, SetCapacity(n) PROVE GhostInv'
  <2> DEFINE gone == {lru[i] : i \in {j \in DOMAIN lru : j > n}}
  <2>1. monitored' = monitored /\ DropBuffers(gone) /\ DropRollups(gone)
    BY <1>5 DEF SetCapacity
  <2> HIDE DEF gone
  <2>2. loop'.host = loop.host
    BY <2>1 DEF DropBuffers, Loops
  <2>3. \A h \in Hosts : Ghost(h)' => Ghost(h)
    BY <2>1 DEF DropRollups, Ghost
  <2> QED
    BY <1>1, <2>1, <2>2, <2>3
<1>6. CASE Wake \/ Minutes \/ EndMinute \/ HoursOrWait \/ EndHour
  <2>1. UNCHANGED <<monitored, aggs, minutes, hours>>
    BY <1>6 DEF Wake, Minutes, EndMinute, HoursOrWait, EndHour, store
  <2>2. loop'.host \in {loop.host, None}
    <3>1. CASE Wake \/ Minutes \/ EndMinute \/ EndHour
      BY <3>1 DEF Wake, Minutes, EndMinute, EndHour, Loop, Loops
    <3>2. CASE HoursOrWait
      BY <3>2 DEF HoursOrWait, Idle, Loops
    <3> QED
      BY <1>6, <3>1, <3>2
  <2> QED
    BY <1>2, <2>1, <2>2
<1>7. ASSUME NEW h \in Hosts, Pick(h) PROVE GhostInv'
  <2>1. UNCHANGED <<monitored, aggs, minutes, hours>>
    BY <1>7 DEF Pick, store
  <2>2. loop'.host = loop.host \/ (loop'.host = h /\ h \in Range(lru))
    BY <1>7 DEF Pick, Loops
  <2> QED
    BY <1>2, <2>1, <2>2 DEF LruInv
<1>8. CASE RollMinute
  <2>1. /\ UNCHANGED <<monitored, minutes, hours>> /\ loop'.host \in {loop.host, None}
        /\ \A h \in Hosts : h # loop.host => aggs'[h] = aggs[h]
    BY <1>8 DEF RollMinute, Loops
  <2>2. \A h \in Hosts : h # loop.host /\ Ghost(h)' => Ghost(h)
    BY <2>1 DEF Ghost
  <2> QED
    BY <1>1, <2>1, <2>2, Constants
<1>9. CASE AppendMinute
  <2>1. /\ UNCHANGED <<monitored, aggs, hours>> /\ loop'.host = None
        /\ \A h \in Hosts : h # loop.host => minutes'[h] = minutes[h]
    BY <1>9 DEF AppendMinute, Loops
  <2>2. \A h \in Hosts : h # loop.host /\ Ghost(h)' => Ghost(h)
    BY <2>1 DEF Ghost
  <2> QED
    BY <1>1, <2>1, <2>2, Constants
<1>10. ASSUME NEW h \in Hosts, RollHour(h) PROVE GhostInv'
  <2>1. /\ UNCHANGED <<monitored, minutes, hours>>
        /\ loop'.host = loop.host \/ (loop'.host = h /\ aggs[h] # None)
        /\ \A x \in Hosts : aggs'[x] # None => aggs[x] # None
    BY <1>10 DEF RollHour, Loops
  <2>2. \A x \in Hosts : Ghost(x)' => Ghost(x)
    BY <2>1 DEF Ghost
  <2>3. \A x \in Hosts : loop'.host = x => Ghost(x) \/ loop.host = x
    BY <2>1 DEF Ghost
  <2> QED
    BY <1>1, <2>1, <2>2, <2>3
<1>11. CASE AppendHour
  <2>1. /\ UNCHANGED <<monitored, aggs, minutes>> /\ loop'.host = None
        /\ \A h \in Hosts : h # loop.host => hours'[h] = hours[h]
    BY <1>11 DEF AppendHour, Loops
  <2>2. \A h \in Hosts : h # loop.host /\ Ghost(h)' => Ghost(h)
    BY <2>1 DEF Ghost
  <2> QED
    BY <1>1, <2>1, <2>2, Constants
<1> HIDE DEF TypeInv, TypeOK
<1> QED
  BY <1>3, <1>4, <1>5, <1>6, <1>7, <1>8, <1>9, <1>10, <1>11 DEF Next, RollupLoop

\* Whenever hosts are removed while the loop works on them, and however often: what it
\* puts back is of one removed host at most (rollup.go, rollupMinute; store.go,
\* getOrCreateMinuteSeries, PruneHosts).
THEOREM RemovedHostsLeaveNothing == Spec => []GhostsAreCleared
<1>1. Init => GhostInv
  <2> SUFFICES ASSUME Init PROVE GhostInv
    OBVIOUS
  <2>1. \A h \in Hosts : ~Ghost(h) /\ loop.host # h
    BY Constants DEF Init, Ghost, Idle
  <2> QED
    BY <2>1 DEF GhostInv
<1>2. GhostInv => GhostsAreCleared
  <2> SUFFICES ASSUME GhostInv PROVE GhostsAreCleared
    OBVIOUS
  <2> DEFINE ghosts == {h \in Hosts \ monitored : Ghost(h)}
  <2>1. PICK g \in Hosts \cup {None} : \A h \in ghosts : h = g
    BY DEF GhostInv
  <2>2. ghosts \in SUBSET {g}
    BY <2>1
  <2>3. IsFiniteSet({g}) /\ Cardinality({g}) = 1
    BY FS_Singleton
  <2> HIDE DEF ghosts
  <2>4. Cardinality(ghosts) <= 1
    BY <2>2, <2>3, FS_Subset
  <2> QED
    BY <2>4 DEF GhostsAreCleared, ghosts, Ghost
<1> QED
  BY <1>1, <1>2, LruInvHolds, InitTypes, NextTypes, NextGhosts, PTL DEF Spec

---------------------------------------------------------------------------
(* The minutes                                                             *)

\* What the loop's lateness must keep to: it never skips a bucket (rollupDueBuckets).
NothingSkipped == Grace + MaxLate <= 2 * Minute

\* A sample is recorded before its minute is rolled up.
TimeInv ==
  /\ now <= nextMinute + Grace + MaxLate
  /\ recording # None =>
       /\ now <= recording.at + Grace
       /\ nextMinute <= recording.at + Minute
       /\ InRound => nextMinute <= recording.at

OnePoint(series, t) ==
  \E k \in DOMAIN series : \A i \in DOMAIN series : t \in series[i].samples <=> i = k

\* A host of this round that has not been rolled up.
ToRoll(h) == h \in loop.todo \/ (h = loop.host /\ loop.live)

\* The points of a host are of the minutes before, and of this one if the loop has been
\* there.
PointsInv ==
  /\ \A h \in Hosts : \A i \in DOMAIN minutes[h] : \A t \in minutes[h][i].samples :
       /\ t < nextMinute
       /\ nextMinute <= t + Minute => InRound /\ h \notin loop.todo /\ h # loop.host
  /\ loop.pc = "append" =>
       \A t \in loop.point.samples : t < nextMinute /\ nextMinute <= t + Minute

\* A sample is in one point, when its minute is over and the loop has been there.
MinuteInv ==
  \A h \in Hosts : \A t \in samples[h] :
    /\ t + Minute < nextMinute => OnePoint(minutes[h], t)
    /\ InRound /\ t < nextMinute =>
         \/ ToRoll(h) \/ OnePoint(minutes[h], t)
         \/ h = loop.host /\ loop.pc = "append" /\ t \in loop.point.samples

LEMMA NoMinuteSkipped ==
  ASSUME NothingSkipped, TypeInv, TimeInv
  PROVE  Resume(now, nextMinute, Minute) = nextMinute
<1>1. now \in Nat /\ nextMinute \in Nat
  BY DEF TypeInv, TypeOK, Times
<1>2. now <= nextMinute + Grace + MaxLate
  BY DEF TimeInv
<1>3. ~(now > nextMinute + 2 * Minute)
  BY ONLY <1>1, <1>2, Sizes, NothingSkipped DEF NothingSkipped
<1> QED
  BY <1>3 DEF Resume

LEMMA NextTimes ==
  ASSUME NothingSkipped, TypeInv, TimeInv, [Next]_vars
  PROVE  TimeInv'
<1> USE DEF TypeInv, TypeOK
<1>t. /\ now \in Nat /\ loop.at \in Nat /\ nextMinute \in Nat
      /\ recording # None => recording.at \in Nat
  BY DEF Times, Loops, Sample
<1>1. CASE Tick
  <2>1. /\ now' = now + 1 /\ now < nextMinute + Grace + MaxLate
        /\ recording # None => now < recording.at + Grace
        /\ UNCHANGED <<recording, nextMinute, loop>>
    BY <1>1 DEF Tick, rollup
  <2>2. now' <= nextMinute + Grace + MaxLate
    BY ONLY <1>t, <2>1, Sizes
  <2>3. recording # None => now' <= recording.at + Grace
    BY ONLY <1>t, <2>1, Sizes
  <2> QED
    BY <2>1, <2>2, <2>3 DEF TimeInv, InRound
<1>2. ASSUME NEW h \in Hosts, Probe(h) PROVE TimeInv'
  <2>1. /\ recording' = [host |-> h, at |-> now]
        /\ UNCHANGED <<now, nextMinute, loop>>
    BY <1>2 DEF Probe, rollup
  <2>2. nextMinute <= now + Minute /\ (InRound => nextMinute + Grace <= loop.at) /\ loop.at <= now
    BY DEF RoundInv
  <2>3. recording'.at = now /\ now <= now + Grace /\ (InRound => nextMinute <= now)
    BY <1>t, <2>1, <2>2, Sizes
  <2> QED
    BY <2>1, <2>2, <2>3 DEF TimeInv, InRound
<1>3. CASE (\E h \in Hosts : Record(h)) \/ (\E active \in SUBSET Hosts : SetTargets(active))
           \/ (\E n \in Limits : SetCapacity(n))
  <2>1. recording' = None /\ UNCHANGED <<now, nextMinute>>
    BY <1>3 DEF Record, SetTargets, SetCapacity, rollup
  <2> QED
    BY <2>1 DEF TimeInv
<1>4. CASE Wake
  <2>1. nextMinute' = nextMinute /\ ~InRound' /\ UNCHANGED <<now, recording>>
    BY <1>4, NoMinuteSkipped DEF Wake, InRound, Loops
  <2> QED
    BY <2>1 DEF TimeInv
<1>5. CASE Minutes
  <2>1. /\ UNCHANGED <<now, recording, nextMinute>>
        /\ InRound' => Due(loop.at, nextMinute)
    BY <1>5 DEF Minutes, Loop, InRound, Loops
  <2>2. Due(loop.at, nextMinute) => nextMinute + Grace <= now
    <3>1. loop.at <= now
      BY DEF RoundInv
    <3> QED
      BY ONLY <1>t, <3>1, Sizes DEF Due
  <2>3. recording # None /\ InRound' => nextMinute <= recording.at
    <3>1. recording # None => now <= recording.at + Grace
      BY DEF TimeInv
    <3> QED
      BY ONLY <1>t, <2>1, <2>2, <3>1, Sizes
  <2> QED
    BY <2>1, <2>3 DEF TimeInv
<1>6. CASE EndMinute
  <2>1. /\ UNCHANGED <<now, recording>> /\ nextMinute' = nextMinute + Minute
        /\ InRound /\ ~InRound'
    BY <1>6 DEF EndMinute, Loop, InRound, Loops
  <2>2. now <= nextMinute + Grace + MaxLate /\ (recording # None => nextMinute <= recording.at)
    BY <2>1 DEF TimeInv
  <2>3. now <= nextMinute' + Grace + MaxLate
    BY ONLY <1>t, <2>1, <2>2, Sizes
  <2>4. recording # None => nextMinute' <= recording.at + Minute
    BY ONLY <1>t, <2>1, <2>2, Sizes
  <2> QED
    BY <2>1, <2>2, <2>3, <2>4 DEF TimeInv
<1>7. CASE HoursOrWait \/ AppendHour \/ EndHour \/ RollMinute \/ AppendMinute
           \/ (\E h \in Hosts : Pick(h) \/ RollHour(h)) \/ UNCHANGED vars
  <2>1. UNCHANGED <<now, recording, nextMinute>>
    BY <1>7 DEF HoursOrWait, AppendHour, EndHour, RollMinute, AppendMinute, Pick, RollHour, vars, rollup
  <2>2. InRound' => InRound
    <3>1. CASE AppendHour \/ EndHour \/ UNCHANGED vars
      BY <3>1 DEF AppendHour, EndHour, vars, rollup, InRound, Loops, Loop
    <3>4. CASE HoursOrWait
      BY <3>4 DEF HoursOrWait, InRound, Loops, Idle
    <3>2. CASE RollMinute \/ AppendMinute \/ \E h \in Hosts : Pick(h)
      BY <3>2 DEF RollMinute, AppendMinute, Pick, InRound
    <3>3. CASE \E h \in Hosts : RollHour(h)
      BY <3>3 DEF RollHour, InRound, Loops
    <3> QED
      BY <1>7, <3>1, <3>2, <3>3, <3>4
  <2> QED
    BY <2>1, <2>2 DEF TimeInv
<1> HIDE DEF TypeInv, TypeOK
<1> QED
  BY <1>1, <1>2, <1>3, <1>4, <1>5, <1>6, <1>7 DEF Next, RollupLoop

\* A point at the end of a series.
LEMMA PointAppended ==
  ASSUME NEW series \in Seq(Points), NEW p \in Points, NEW t
  PROVE  /\ Append(series, p) \in Seq(Points)
         /\ \A i \in DOMAIN Append(series, p) :
              (i \in DOMAIN series /\ Append(series, p)[i] = series[i]) \/ Append(series, p)[i] = p
         /\ OnePoint(series, t) /\ t \notin p.samples => OnePoint(Append(series, p), t)
         /\ (\A i \in DOMAIN series : t \notin series[i].samples) /\ t \in p.samples
              => OnePoint(Append(series, p), t)
<1> DEFINE longer == Append(series, p)
           n == Len(series)
<1>1. /\ longer \in Seq(Points) /\ n \in Nat /\ DOMAIN series = 1 .. n
      /\ DOMAIN longer = (1 .. n) \cup {n + 1} /\ n + 1 \notin 1 .. n
      /\ longer[n + 1] = p /\ \A i \in 1 .. n : longer[i] = series[i]
  OBVIOUS
<1> HIDE DEF longer, n
<1>2. ASSUME OnePoint(series, t), t \notin p.samples PROVE OnePoint(longer, t)
  <2>1. PICK k \in DOMAIN series : \A i \in DOMAIN series : t \in series[i].samples <=> i = k
    BY <1>2 DEF OnePoint
  <2>2. k \in DOMAIN longer /\ k # n + 1
    BY <1>1
  <2>3. \A i \in DOMAIN longer : t \in longer[i].samples <=> i = k
    BY <1>1, <1>2, <2>1, <2>2
  <2> QED
    BY <2>2, <2>3 DEF OnePoint
<1>3. ASSUME \A i \in DOMAIN series : t \notin series[i].samples, t \in p.samples
      PROVE  OnePoint(longer, t)
  <2>1. n + 1 \in DOMAIN longer /\ \A i \in DOMAIN longer : t \in longer[i].samples <=> i = n + 1
    BY <1>1, <1>3
  <2> QED
    BY <2>1 DEF OnePoint
<1>4. \A i \in DOMAIN longer : (i \in DOMAIN series /\ longer[i] = series[i]) \/ longer[i] = p
  BY <1>1
<1>5. longer \in Seq(Points)
  BY <1>1
<1> QED
  BY <1>2, <1>3, <1>4, <1>5 DEF longer

\* The ring still has the samples of the minute that is rolled up.
LEMMA RingHasTheMinute ==
  ASSUME TypeInv, LruInv, TimeInv, NEW h \in Hosts, NEW t \in samples[h], nextMinute <= t + Minute
  PROVE  t \in Ring(samples[h])
<1> DEFINE newer == {u \in samples[h] : u > t}
<1>1. now \in Nat /\ nextMinute \in Nat /\ t \in Nat /\ \A u \in samples[h] : u \in Nat /\ u <= now
  BY DEF TypeInv, TypeOK, LruInv, ClockInv, Times
<1>2. newer \in SUBSET (t + 1 .. now)
  BY <1>1
<1>3. IsFiniteSet(t + 1 .. now) /\ Cardinality(t + 1 .. now) = IF t + 1 > now THEN 0 ELSE now - (t + 1) + 1
  BY <1>1, FS_Interval
<1> HIDE DEF newer
<1>4. Cardinality(newer) <= Cardinality(t + 1 .. now) /\ IsFiniteSet(newer)
  BY <1>2, <1>3, FS_Subset
<1>5. Cardinality(newer) \in Nat
  BY <1>4, FS_CardinalityType
<1>6. now <= nextMinute + Grace + MaxLate
  BY DEF TimeInv
<1>7. Cardinality(t + 1 .. now) < Retention
  BY <1>1, <1>3, <1>6, Sizes
<1>8. Cardinality(newer) < Retention
  <2> DEFINE c == Cardinality(newer)
             d == Cardinality(t + 1 .. now)
  <2>1. c \in Nat /\ c <= d /\ d < Retention /\ d \in Int
    BY <1>1, <1>3, <1>4, <1>5, <1>7
  <2> HIDE DEF c, d
  <2>2. c < Retention
    BY <2>1, Sizes
  <2> QED
    BY <2>2 DEF c
<1> QED
  BY <1>8 DEF Ring, newer

\* Steps that leave the loop where it is.
LEMMA EngineKeepsMinutes ==
  ASSUME TypeInv, PointsInv, MinuteInv, nextMinute' = nextMinute,
         samples' \in [Hosts -> SUBSET Times],
         loop'.pc = loop.pc, loop'.todo = loop.todo, loop'.host = loop.host, loop'.point = loop.point,
         \A h \in Hosts : minutes'[h] = minutes[h] \/ minutes'[h] = <<>>,
         \A h \in Hosts : \A t \in samples'[h] :
           \/ /\ t \in samples[h] /\ minutes'[h] = minutes[h]
              /\ h = loop.host /\ loop.live => loop'.live
           \/ nextMinute <= t + Minute /\ (InRound => nextMinute <= t)
  PROVE  PointsInv' /\ MinuteInv'
<1>1. (InRound' <=> InRound)
  BY DEF InRound
<1>2. PointsInv'
  <2>1. \A h \in Hosts : \A i \in DOMAIN minutes'[h] : i \in DOMAIN minutes[h] /\ minutes'[h][i] = minutes[h][i]
    <3>1. DOMAIN <<>> = {}
      OBVIOUS
    <3> QED
      BY <3>1
  <2> QED
    BY <1>1, <2>1 DEF PointsInv
<1>3. ASSUME NEW h \in Hosts, NEW t \in samples'[h]
      PROVE  /\ t + Minute < nextMinute => OnePoint(minutes'[h], t)
             /\ InRound /\ t < nextMinute =>
                  \/ ToRoll(h)' \/ OnePoint(minutes'[h], t)
                  \/ h = loop.host /\ loop.pc = "append" /\ t \in loop.point.samples
  <2>1. CASE /\ t \in samples[h] /\ minutes'[h] = minutes[h]
             /\ h = loop.host /\ loop.live => loop'.live
    BY <2>1 DEF MinuteInv, ToRoll
  <2>2. CASE nextMinute <= t + Minute /\ (InRound => nextMinute <= t)
    <3>1. t \in Nat /\ nextMinute \in Nat
      BY DEF Times, TypeInv, TypeOK
    <3>2. ~(t + Minute < nextMinute) /\ ~(InRound /\ t < nextMinute)
      BY <2>2, <3>1, Sizes
    <3> QED
      BY <3>2
  <2> QED
    BY <1>3, <2>1, <2>2
<1>4. MinuteInv'
  BY <1>1, <1>3 DEF MinuteInv
<1> QED
  BY <1>2, <1>4

\* The samples rollupMinute finds.
Bucket ==
  {t \in IF loop.live THEN Ring(samples[loop.host]) ELSE loop.kept :
     nextMinute - Minute <= t /\ t < nextMinute}

\* They are all samples of the minute.
LEMMA BucketIsTheMinute ==
  ASSUME TypeInv, LruInv, TimeInv, loop.pc = "roll"
  PROVE  /\ Bucket \in SUBSET Times /\ \A t \in Bucket : t < nextMinute /\ nextMinute <= t + Minute
         /\ loop.live => \A t \in samples[loop.host] :
              t < nextMinute /\ ~(t + Minute < nextMinute) => t \in Bucket
<1> USE DEF TypeInv, TypeOK
<1> DEFINE h == loop.host
           buffer == IF loop.live THEN Ring(samples[h]) ELSE loop.kept
<1>1. h \in Hosts
  BY DEF LoopInv, Loops
<1>2. buffer \in SUBSET Times
  BY <1>1 DEF Ring, Loops
<1>3. nextMinute \in Nat /\ \A t \in Times : t \in Nat
  BY DEF Times
<1>4. Bucket = {t \in buffer : nextMinute - Minute <= t /\ t < nextMinute}
  BY DEF Bucket
<1>5. ASSUME loop.live, NEW t \in samples[h], t < nextMinute, ~(t + Minute < nextMinute)
      PROVE  t \in Bucket
  <2>1. t \in Nat
    BY <1>1, <1>3
  <2>2. nextMinute <= t + Minute /\ nextMinute - Minute <= t
    BY <1>3, <1>5, <2>1, Sizes
  <2>3. t \in Ring(samples[h])
    BY <1>1, <2>2, RingHasTheMinute
  <2> QED
    BY <1>4, <1>5, <2>2, <2>3
<1> HIDE DEF buffer
<1>6. \A t \in Bucket : t \in Nat /\ nextMinute - Minute <= t /\ t < nextMinute
  BY <1>2, <1>3, <1>4
<1>7. \A t \in Bucket : nextMinute <= t + Minute
  BY <1>3, <1>6, Sizes
<1> QED
  BY <1>2, <1>4, <1>5, <1>6, <1>7

\* rollupMinute: the point has each sample of the minute of its host.
LEMMA RollKeepsMinutes ==
  ASSUME TypeInv, LruInv, TimeInv, PointsInv, MinuteInv, RollMinute
  PROVE  PointsInv' /\ MinuteInv'
<1> USE DEF TypeInv, TypeOK
<1> DEFINE h == loop.host
           bucket == Bucket
<1>1. /\ loop.pc = "roll" /\ h \in Hosts /\ h \notin loop.todo /\ InRound
      /\ UNCHANGED <<minutes, samples, nextMinute>>
  BY DEF RollMinute, LoopInv, Loops, InRound
<1>2. \/ /\ bucket = {}
         /\ loop' = [loop EXCEPT !.pc = "pick", !.host = None, !.live = FALSE, !.kept = {}]
      \/ loop' = [loop EXCEPT !.pc = "append", !.live = FALSE, !.kept = {},
                              !.point = [start |-> nextMinute - Minute, samples |-> bucket]]
  BY DEF RollMinute, Bucket
<1>3. bucket \in SUBSET Times /\ \A t \in bucket : t < nextMinute /\ nextMinute <= t + Minute
  BY <1>1, BucketIsTheMinute
<1>4. ASSUME loop.live, NEW t \in samples[h], t < nextMinute, ~(t + Minute < nextMinute)
      PROVE  t \in bucket
  BY <1>1, <1>4, BucketIsTheMinute
<1> HIDE DEF bucket
<1>5. /\ loop'.pc \in {"pick", "append"} /\ loop'.todo = loop.todo /\ loop'.host \in {None, h} /\ ~loop'.live
      /\ loop'.pc = "append" => loop'.host = h /\ loop'.point.samples = bucket
      /\ loop'.pc = "pick" => bucket = {}
  <2>1. CASE /\ bucket = {}
             /\ loop' = [loop EXCEPT !.pc = "pick", !.host = None, !.live = FALSE, !.kept = {}]
    BY <2>1 DEF Loops
  <2>2. CASE loop' = [loop EXCEPT !.pc = "append", !.live = FALSE, !.kept = {},
                                  !.point = [start |-> nextMinute - Minute, samples |-> bucket]]
    BY <2>2 DEF Loops
  <2> QED
    BY <1>2, <2>1, <2>2
<1>6. InRound'
  BY <1>5 DEF InRound
<1>7. PointsInv'
  <2>1. \A x \in Hosts : x # loop.host => x # loop'.host
    BY <1>5, Constants
  <2>2. ASSUME NEW x \in Hosts, NEW i \in DOMAIN minutes[x], NEW t \in minutes[x][i].samples
        PROVE  /\ t < nextMinute
               /\ nextMinute <= t + Minute => InRound' /\ x \notin loop'.todo /\ x # loop'.host
    BY <1>5, <1>6, <2>1 DEF PointsInv
  <2>3. loop'.pc = "append" => \A t \in loop'.point.samples : t < nextMinute /\ nextMinute <= t + Minute
    BY <1>3, <1>5
  <2> QED
    BY <1>1, <2>2, <2>3 DEF PointsInv
<1>8. ASSUME NEW x \in Hosts, NEW t \in samples[x]
      PROVE  /\ t + Minute < nextMinute => OnePoint(minutes[x], t)
             /\ t < nextMinute =>
                  \/ ToRoll(x)' \/ OnePoint(minutes[x], t)
                  \/ x = loop'.host /\ loop'.pc = "append" /\ t \in loop'.point.samples
  <2>1. t + Minute < nextMinute => OnePoint(minutes[x], t)
    BY DEF MinuteInv
  <2>2. ASSUME t < nextMinute, ~(t + Minute < nextMinute)
        PROVE  \/ ToRoll(x)' \/ OnePoint(minutes[x], t)
               \/ x = loop'.host /\ loop'.pc = "append" /\ t \in loop'.point.samples
    <3>1. ToRoll(x) \/ OnePoint(minutes[x], t)
      BY <1>1, <2>2 DEF MinuteInv
    <3>2. x \in loop.todo => ToRoll(x)'
      BY <1>5 DEF ToRoll
    <3>3. ASSUME x = h, loop.live PROVE loop'.pc = "append" /\ x = loop'.host /\ t \in loop'.point.samples
      <4>1. t \in bucket
        BY <1>4, <2>2, <3>3
      <4> QED
        BY <1>5, <3>3, <4>1
    <3> QED
      BY <3>1, <3>2, <3>3 DEF ToRoll
  <2> QED
    BY <2>1, <2>2
<1>9. MinuteInv'
  BY <1>1, <1>8 DEF MinuteInv
<1> QED
  BY <1>7, <1>9

LEMMA AppendKeepsMinutes ==
  ASSUME TypeInv, PointsInv, MinuteInv, AppendMinute
  PROVE  PointsInv' /\ MinuteInv'
<1> USE DEF TypeInv, TypeOK
<1> DEFINE h == loop.host
           p == loop.point
<1>1. /\ loop.pc = "append" /\ h \in Hosts /\ h \notin loop.todo /\ InRound /\ p \in Points /\ ~loop.live
      /\ minutes[h] \in Seq(Points)
      /\ UNCHANGED <<samples, nextMinute>>
  BY DEF AppendMinute, LoopInv, Loops, InRound
<1>2. /\ loop'.pc = "pick" /\ loop'.todo = loop.todo /\ loop'.host = None /\ loop'.live = loop.live
      /\ InRound'
  BY DEF AppendMinute, Loops, InRound
<1>3. /\ minutes'[h] = Append(minutes[h], p)
      /\ \A x \in Hosts : x # h => minutes'[x] = minutes[x]
  BY <1>1 DEF AppendMinute
<1>4. \A t \in p.samples : t < nextMinute /\ nextMinute <= t + Minute
  BY <1>1 DEF PointsInv
<1> HIDE DEF h, p
<1>5. ASSUME NEW x \in Hosts, NEW i \in DOMAIN minutes'[x], NEW t \in minutes'[x][i].samples
      PROVE  /\ t < nextMinute
             /\ nextMinute <= t + Minute => x \notin loop.todo
  <2>1. CASE x = h
    <3>1. (i \in DOMAIN minutes[h] /\ minutes'[x][i] = minutes[h][i]) \/ minutes'[x][i] = p
      <4>1. \A k \in DOMAIN Append(minutes[h], p) :
              \/ k \in DOMAIN minutes[h] /\ Append(minutes[h], p)[k] = minutes[h][k]
              \/ Append(minutes[h], p)[k] = p
        BY ONLY <1>1, PointAppended
      <4> QED
        BY ONLY <1>3, <1>5, <2>1, <4>1
    <3>2. t < nextMinute
      BY <1>1, <1>4, <1>5, <3>1 DEF PointsInv
    <3> QED
      BY <1>1, <2>1, <3>2
  <2>2. CASE x # h
    BY <1>3, <1>5, <2>2 DEF PointsInv
  <2> QED
    BY <2>1, <2>2
<1>6. PointsInv'
  <2>1. \A x \in Hosts : x # loop'.host
    BY <1>2, Constants
  <2> QED
    BY <1>1, <1>2, <1>5, <2>1 DEF PointsInv
<1>7. ASSUME NEW x \in Hosts, NEW t \in samples[x]
      PROVE  /\ t + Minute < nextMinute => OnePoint(minutes'[x], t)
             /\ t < nextMinute => ToRoll(x)' \/ OnePoint(minutes'[x], t)
  <2>1. CASE x # h
    BY <1>1, <1>2, <1>3, <2>1 DEF MinuteInv, ToRoll, h
  <2>2. CASE x = h
    <3>1. t < nextMinute => OnePoint(minutes[h], t) \/ t \in p.samples
      BY <1>1, <2>2 DEF MinuteInv, ToRoll, h, p
    <3>2. ASSUME t \in p.samples PROVE \A i \in DOMAIN minutes[h] : t \notin minutes[h][i].samples
      BY <1>1, <1>4, <3>2 DEF PointsInv, h
    <3>3. t < nextMinute => OnePoint(minutes'[h], t)
      BY <1>1, <1>3, <3>1, <3>2, PointAppended
    <3>4. t + Minute < nextMinute => t < nextMinute
      <4>1. t \in Nat /\ nextMinute \in Nat
        BY DEF Times
      <4> QED
        BY <4>1, Sizes
    <3> QED
      BY <2>2, <3>3, <3>4
  <2> QED
    BY <2>1, <2>2
<1>8. MinuteInv'
  BY <1>1, <1>2, <1>7 DEF MinuteInv
<1> QED
  BY <1>6, <1>8

\* Between two rounds each sample of the past is in its point.
LEMMA OutsideRound ==
  ASSUME PointsInv, MinuteInv, ~InRound, ~InRound', UNCHANGED <<minutes, samples, nextMinute>>
  PROVE  PointsInv' /\ MinuteInv'
<1>1. loop'.pc # "append"
  BY DEF InRound
<1> QED
  BY <1>1 DEF PointsInv, MinuteInv

LEMMA NextMinutes ==
  ASSUME NothingSkipped, TypeInv, LruInv, TimeInv, PointsInv, MinuteInv, [Next]_vars
  PROVE  PointsInv' /\ MinuteInv'
<1> USE DEF TypeInv, TypeOK
<1> DEFINE Goal == PointsInv' /\ MinuteInv'
<1>t. TypeOK'
  BY NextTypes
<1>1. CASE Tick \/ (\E h \in Hosts : Probe(h)) \/ UNCHANGED vars
  <2>1. UNCHANGED <<samples, minutes, nextMinute, loop>>
    BY <1>1 DEF Tick, Probe, vars, store, rollup
  <2> QED
    BY <2>1, EngineKeepsMinutes
<1>2. ASSUME NEW h \in Hosts, Record(h) PROVE Goal
  <2>0. UNCHANGED <<minutes, nextMinute, loop>> /\ samples \in [Hosts -> SUBSET Times]
    BY <1>2 DEF Record, rollup
  <2>1. \A x \in Hosts : \A t \in samples'[x] : t \in samples[x] \/ t = recording.at
    <3>1. CASE samples' = [samples EXCEPT ![h] = @ \cup {recording.at}]
      BY ONLY <2>0, <3>1
    <3>2. CASE samples' = [samples EXCEPT ![h] = {recording.at}]
      BY ONLY <2>0, <3>2
    <3>3. CASE UNCHANGED samples
      BY ONLY <3>3
    <3> QED
      BY <1>2, <3>1, <3>2, <3>3 DEF Record
  <2>2. nextMinute <= recording.at + Minute /\ (InRound => nextMinute <= recording.at)
    BY <1>2 DEF Record, TimeInv
  <2> QED
    BY <1>t, <2>0, <2>1, <2>2, EngineKeepsMinutes
<1>3. ASSUME NEW gone \in SUBSET Hosts, DropBuffers(gone), DropRollups(gone), nextMinute' = nextMinute
      PROVE  Goal
  <2>1. /\ loop'.pc = loop.pc /\ loop'.todo = loop.todo /\ loop'.host = loop.host /\ loop'.point = loop.point
        /\ samples' \in [Hosts -> SUBSET Times]
    BY <1>3, DropTypes
  <2>2. /\ samples' = [h \in Hosts |-> IF h \in gone THEN {} ELSE samples[h]]
        /\ minutes' = [h \in Hosts |-> IF h \in gone THEN <<>> ELSE minutes[h]]
        /\ loop.host \notin gone => loop' = loop
    BY <1>3 DEF DropBuffers, DropRollups
  <2>3. \A h \in Hosts : minutes'[h] = minutes[h] \/ minutes'[h] = <<>>
    BY <2>2
  <2>4. ASSUME NEW h \in Hosts, NEW t \in samples'[h]
        PROVE  /\ t \in samples[h] /\ minutes'[h] = minutes[h]
               /\ h = loop.host /\ loop.live => loop'.live
    <3>1. h \notin gone
      BY <2>2, <2>4
    <3> QED
      BY <2>2, <2>4, <3>1
  <2> QED
    BY <1>3, <2>1, <2>3, <2>4, EngineKeepsMinutes
<1>4. CASE (\E active \in SUBSET Hosts : SetTargets(active)) \/ (\E n \in Limits : SetCapacity(n))
  <2>1. ASSUME NEW active \in SUBSET Hosts, SetTargets(active) PROVE Goal
    <3>1. Hosts \ active \in SUBSET Hosts
      OBVIOUS
    <3> QED
      BY <1>3, <2>1, <3>1 DEF SetTargets, PruneHosts
  <2>2. ASSUME NEW n \in Limits, SetCapacity(n) PROVE Goal
    <3> DEFINE gone == {lru[i] : i \in {j \in DOMAIN lru : j > n}}
    <3>1. gone \in SUBSET Hosts
      OBVIOUS
    <3>2. DropBuffers(gone) /\ DropRollups(gone) /\ nextMinute' = nextMinute
      BY <2>2 DEF SetCapacity
    <3> HIDE DEF gone
    <3> QED
      BY <1>3, <3>1, <3>2
  <2> QED
    BY <1>4, <2>1, <2>2
<1>5. CASE Wake
  <2>1. ~InRound /\ ~InRound' /\ UNCHANGED <<minutes, samples, nextMinute>>
    BY <1>5, NoMinuteSkipped DEF Wake, InRound, Loops, store
  <2> QED
    BY <2>1, OutsideRound
<1>6. CASE Minutes
  <2>1. ~InRound /\ UNCHANGED <<minutes, samples, nextMinute>>
    BY <1>6 DEF Minutes, InRound, store
  <2>2. CASE InRound'
    <3>1. /\ loop'.pc = "pick" /\ loop'.todo = Range(lru) /\ loop'.host = loop.host
      BY <1>6, <2>2 DEF Minutes, Loop, InRound, Loops
    <3>2. \A h \in Hosts : \A t \in samples[h] : ToRoll(h)'
      <4>1. \A h \in Hosts : samples[h] # {} => h \in Range(lru)
        BY DEF LruInv, ListOK
      <4> QED
        BY <3>1, <4>1 DEF ToRoll
    <3>3. PointsInv'
      BY <2>1, <3>1 DEF PointsInv
    <3>4. MinuteInv'
      BY <2>1, <3>2 DEF MinuteInv
    <3> QED
      BY <3>3, <3>4
  <2>3. CASE ~InRound'
    BY <2>1, <2>3, OutsideRound
  <2> QED
    BY <2>2, <2>3
<1>7. ASSUME NEW h \in Hosts, Pick(h) PROVE Goal
  <2>1. /\ UNCHANGED <<minutes, samples, nextMinute, lru>> /\ loop.pc = "pick" /\ h \in loop.todo /\ InRound
        /\ loop.host = None /\ ~loop.live
    BY <1>7 DEF Pick, InRound, store, LoopInv
  <2>2. /\ loop'.todo = loop.todo \ {h} /\ loop'.pc \in {"pick", "roll"} /\ InRound'
        /\ \/ h \in Range(lru) /\ loop'.host = h /\ loop'.live
           \/ h \notin Range(lru) /\ loop'.host = None
    BY <1>7, <2>1 DEF Pick, InRound, Loops
  <2>3. PointsInv'
    <3>1. \A x \in Hosts : x \notin loop.todo /\ x # loop.host => x \notin loop'.todo /\ x # loop'.host
      BY <2>1, <2>2, Constants
    <3> QED
      BY <2>1, <2>2, <3>1 DEF PointsInv
  <2>4. \A x \in Hosts : \A t \in samples[x] : ToRoll(x) => ToRoll(x)'
    <3>1. h \notin Range(lru) => samples[h] = {}
      BY DEF LruInv, ListOK
    <3> QED
      BY <2>1, <2>2, <3>1 DEF ToRoll
  <2>5. MinuteInv'
    BY <2>1, <2>2, <2>4 DEF MinuteInv
  <2> QED
    BY <2>3, <2>5
<1>8. CASE RollMinute
  BY <1>8, RollKeepsMinutes
<1>9. CASE AppendMinute
  BY <1>9, AppendKeepsMinutes
<1>10. CASE EndMinute
  <2>1. /\ UNCHANGED <<minutes, samples>> /\ nextMinute' = nextMinute + Minute /\ nextMinute \in Nat
        /\ InRound /\ ~InRound' /\ loop.todo = {} /\ ~loop.live /\ loop.pc = "pick"
    BY <1>10 DEF EndMinute, Loop, InRound, Loops, store, LoopInv
  <2>2. ASSUME NEW h \in Hosts, NEW i \in DOMAIN minutes[h], NEW t \in minutes[h][i].samples
        PROVE  t < nextMinute' /\ ~(nextMinute' <= t + Minute)
    <3>1. minutes[h][i] \in Points
      OBVIOUS
    <3>2. t \in Nat
      BY <3>1 DEF Points, Times
    <3>3. t < nextMinute
      BY <2>2 DEF PointsInv
    <3> QED
      BY ONLY <2>1, <3>2, <3>3, Sizes
  <2>3. PointsInv'
    <3>1. loop'.pc # "append"
      BY <2>1 DEF InRound
    <3> QED
      BY <2>1, <2>2, <3>1 DEF PointsInv
  <2>4. ASSUME NEW h \in Hosts, NEW t \in samples[h], t + Minute < nextMinute'
        PROVE  OnePoint(minutes[h], t)
    <3>1. t \in Nat
      BY DEF Times
    <3>2. t < nextMinute
      BY ONLY <2>1, <2>4, <3>1, Sizes
    <3> QED
      BY <2>1, <3>2 DEF MinuteInv, ToRoll
  <2>5. MinuteInv'
    BY <2>1, <2>4 DEF MinuteInv
  <2> QED
    BY <2>3, <2>5
<1>11. CASE HoursOrWait \/ AppendHour \/ EndHour \/ \E h \in Hosts : RollHour(h)
  <2>1. ~InRound /\ UNCHANGED <<minutes, samples, nextMinute>>
    BY <1>11 DEF HoursOrWait, AppendHour, EndHour, RollHour, InRound, store
  <2>2. ~InRound'
    <3>1. CASE AppendHour \/ EndHour
      BY <3>1 DEF AppendHour, EndHour, InRound, Loops, Loop
    <3>3. CASE \E h \in Hosts : RollHour(h)
      BY <3>3, LoopMoves DEF InRound
    <3>2. CASE HoursOrWait
      BY <3>2 DEF HoursOrWait, InRound, Loops, Idle
    <3> QED
      BY <1>11, <3>1, <3>2, <3>3
  <2> QED
    BY <2>1, <2>2, OutsideRound
<1> HIDE DEF TypeInv, TypeOK
<1> QED
  BY <1>1, <1>2, <1>4, <1>5, <1>6, <1>7, <1>8, <1>9, <1>10, <1>11 DEF Next, RollupLoop

\* "No sample is skipped or counted twice" (store.go, rollup.go), while the loop is not
\* so late that it gives up buckets: the invariant is that a sample is recorded before
\* its minute is rolled up (TimeInv), that the ring still has the minute then, and that
\* a point holds samples of its own minute only (PointsInv).
THEOREM SamplesAreRolledUpOnce ==
  ASSUME NothingSkipped
  PROVE  Spec => []EverySampleOnce
<1> DEFINE Inv == TimeInv /\ PointsInv /\ MinuteInv
<1>1. Init => Inv
  <2> SUFFICES ASSUME Init PROVE Inv
    OBVIOUS
  <2>1. /\ now = Hour /\ nextMinute = Hour + Minute /\ recording = None /\ loop.pc = "idle"
        /\ \A h \in Hosts : samples[h] = {} /\ minutes[h] = <<>>
    BY DEF Init, Idle
  <2>2. now <= nextMinute + Grace + MaxLate
    BY <2>1, Sizes
  <2>3. TimeInv
    BY <2>1, <2>2 DEF TimeInv
  <2>4. PointsInv
    BY <2>1 DEF PointsInv
  <2>5. MinuteInv
    BY <2>1 DEF MinuteInv
  <2> QED
    BY <2>3, <2>4, <2>5
<1>2. TypeInv /\ LruInv /\ Inv /\ [Next]_vars => Inv'
  BY NextTimes, NextMinutes
<1>3. TypeInv /\ Inv => EverySampleOnce
  <2> SUFFICES ASSUME TypeInv, Inv, NEW h \in Range(lru), NEW t \in RolledUp(h)
               PROVE  Cardinality({i \in DOMAIN minutes[h] : t \in minutes[h][i].samples}) = 1
    BY DEF EverySampleOnce
  <2>1. h \in Hosts /\ t \in samples[h] /\ t \in Nat /\ nextMinute \in Nat /\ t < nextMinute - Minute
    BY DEF RolledUp, TypeInv, TypeOK, Times, Range
  <2>2. t + Minute < nextMinute
    BY ONLY <2>1, Sizes
  <2>3. OnePoint(minutes[h], t)
    BY <2>1, <2>2 DEF MinuteInv
  <2>4. PICK k \in DOMAIN minutes[h] : \A i \in DOMAIN minutes[h] : t \in minutes[h][i].samples <=> i = k
    BY <2>3 DEF OnePoint
  <2>5. {i \in DOMAIN minutes[h] : t \in minutes[h][i].samples} = {k}
    BY <2>4
  <2> QED
    BY <2>5, FS_Singleton
<1> HIDE DEF Inv
<1> QED
  BY <1>1, <1>2, <1>3, LruInvHolds, InitTypes, NextTypes, PTL DEF Spec

---------------------------------------------------------------------------
(* The hours                                                               *)

\* What the loop's lateness must keep to for the hours: the hour that ended is closed
\* before the first minute of the next one is rolled up.
HoursInOrder == NothingSkipped /\ MaxLate < Minute

\* The minutes of an hour are rolled up, then the hour, then the next minutes.
HourTimeInv ==
  /\ \E a \in Nat : nextMinute = a * Minute
  /\ \E b \in Nat \ {0, 1} : nextHour = b * Hour
  /\ now <= nextHour + Grace + MaxLate
  /\ nextHour + Minute <= nextMinute + Hour /\ nextMinute <= nextHour + Minute
  /\ InRound => nextMinute <= nextHour
  /\ loop.pc = "hours" \/ InHours => loop.at < nextMinute + Grace
  /\ InHours => nextMinute = nextHour + Minute

\* Two ends of minutes are a minute apart.
LEMMA MinutesApart ==
  ASSUME NEW a \in Nat, NEW b \in Nat, NEW size \in Nat, a * size < b * size + size
  PROVE  a * size <= b * size
  OBVIOUS

LEMMA EndsApart ==
  ASSUME HourTimeInv
  PROVE  /\ nextMinute \in Nat /\ nextHour \in Nat /\ 2 * Hour <= nextHour
         /\ nextMinute < nextHour + Minute => nextMinute <= nextHour
         /\ nextHour < nextMinute => nextHour + Minute <= nextMinute
<1>1. PICK a \in Nat : nextMinute = a * Minute
  BY DEF HourTimeInv
<1>2. PICK b \in Nat \ {0, 1} : nextHour = b * Hour
  BY DEF HourTimeInv
<1>3. PICK k \in Nat \ {0} : Hour = k * Minute
  BY HourIsMinutes
<1>4. b * k \in Nat /\ nextHour = (b * k) * Minute
  BY ONLY <1>2, <1>3, Sizes
<1>5. nextMinute < nextHour + Minute => nextMinute <= nextHour
  BY ONLY <1>1, <1>4, Sizes, MinutesApart
<1>6. nextHour < nextMinute => nextHour + Minute <= nextMinute
  <2>1. ASSUME nextMinute < nextHour + Minute PROVE nextMinute <= nextHour
    BY <1>5, <2>1
  <2>2. nextMinute \in Nat /\ nextHour \in Nat
    BY ONLY <1>1, <1>4, Sizes
  <2> QED
    BY ONLY <2>1, <2>2, Sizes
<1>7. nextMinute \in Nat /\ nextHour \in Nat /\ 2 * Hour <= nextHour
  BY ONLY <1>1, <1>2, Sizes
<1> QED
  BY <1>5, <1>6, <1>7

\* The hour of a minute that is rolled up is the one to close next.
LEMMA HourOfMinute ==
  ASSUME TypeInv, HourTimeInv, nextMinute <= nextHour
  PROVE  /\ Truncate(nextMinute - Minute, Hour) + Hour = nextHour
         /\ Truncate(nextMinute - Minute, Hour) \in Nat \ {0}
<1> DEFINE start == nextMinute - Minute
<1>1. nextMinute \in Nat /\ nextHour \in Nat /\ Minute <= nextMinute
  BY EndsApart DEF TypeInv, RoundInv
<1>2. PICK b \in Nat \ {0, 1} : nextHour = b * Hour
  BY DEF HourTimeInv
<1>3. nextHour + Minute <= nextMinute + Hour
  BY DEF HourTimeInv
<1>4. start \in Nat /\ nextHour <= start + Hour /\ start < nextHour
  BY ONLY <1>1, <1>3, Sizes, nextMinute <= nextHour
<1> HIDE DEF start
<1>5. PICK c \in Nat \ {0} : b = c + 1
  <2>1. b - 1 \in Nat \ {0} /\ b = (b - 1) + 1
    OBVIOUS
  <2> QED
    BY <2>1
<1>6. nextHour = c * Hour + Hour
  BY ONLY <1>2, <1>5, Sizes
<1>7. c * Hour <= start /\ start < c * Hour + Hour /\ c * Hour \in Nat \ {0}
  BY ONLY <1>4, <1>6, Sizes
<1>8. start \div Hour = c
  BY ONLY <1>4, <1>7, Sizes
<1>9. Truncate(start, Hour) = c * Hour
  BY <1>8 DEF Truncate
<1> QED
  BY <1>6, <1>7, <1>9 DEF start

LEMMA NoHourSkipped ==
  ASSUME HoursInOrder, TypeInv, HourTimeInv
  PROVE  Resume(loop.at, nextHour, Hour) = nextHour
<1>1. now \in Nat /\ nextHour \in Nat /\ loop.at \in Nat /\ loop.at <= now
  BY DEF TypeInv, TypeOK, Times, Loops, RoundInv
<1>2. now <= nextHour + Grace + MaxLate
  BY DEF HourTimeInv
<1>3. Minute <= Hour
  <2>1. PICK k \in Nat \ {0} : Hour = k * Minute
    BY HourIsMinutes
  <2> QED
    BY ONLY <2>1, Sizes
<1>4. ~(loop.at > nextHour + 2 * Hour)
  BY ONLY <1>1, <1>2, <1>3, Sizes, HoursInOrder DEF HoursInOrder, NothingSkipped
<1> QED
  BY <1>4 DEF Resume

LEMMA NextHourTimes ==
  ASSUME HoursInOrder, TypeInv, TimeInv, HourTimeInv, [Next]_vars
  PROVE  HourTimeInv'
<1> USE DEF TypeInv, TypeOK
<1>t. now \in Nat /\ loop.at \in Nat /\ nextMinute \in Nat /\ nextHour \in Nat /\ loop.at <= now
  BY DEF Times, Loops, RoundInv
<1>e. /\ nextMinute < nextHour + Minute => nextMinute <= nextHour
      /\ nextHour < nextMinute => nextHour + Minute <= nextMinute
  BY EndsApart
<1>s. NothingSkipped /\ MaxLate < Minute
  BY DEF HoursInOrder
<1>b. /\ now <= nextHour + Grace + MaxLate
      /\ nextHour + Minute <= nextMinute + Hour /\ nextMinute <= nextHour + Minute
  BY DEF HourTimeInv
<1>1. CASE Tick
  <2>1. now' = now + 1 /\ now < nextHour + Grace + MaxLate /\ UNCHANGED <<nextMinute, nextHour, loop>>
    BY <1>1 DEF Tick, rollup
  <2>2. now' <= nextHour + Grace + MaxLate
    BY ONLY <1>t, <2>1, Sizes
  <2> QED
    BY <2>1, <2>2 DEF HourTimeInv, InRound, InHours
<1>2. CASE (\E h \in Hosts : Probe(h) \/ Record(h)) \/ (\E active \in SUBSET Hosts : SetTargets(active))
           \/ (\E n \in Limits : SetCapacity(n)) \/ UNCHANGED vars
  <2>1. UNCHANGED <<now, nextMinute, nextHour>>
    BY <1>2 DEF Probe, Record, SetTargets, SetCapacity, vars, rollup
  <2>2. loop'.pc = loop.pc /\ loop'.at = loop.at
    <3>1. CASE (\E h \in Hosts : Probe(h) \/ Record(h)) \/ UNCHANGED vars
      BY <3>1 DEF Probe, Record, vars, rollup
    <3>2. CASE \E active \in SUBSET Hosts : SetTargets(active)
      BY <3>2, DropTypes DEF SetTargets, PruneHosts
    <3>3. CASE \E n \in Limits : SetCapacity(n)
      <4>1. PICK n \in Limits : SetCapacity(n)
        BY <3>3
      <4> DEFINE gone == {lru[i] : i \in {j \in DOMAIN lru : j > n}}
      <4>2. gone \in SUBSET Hosts /\ DropBuffers(gone)
        BY <4>1 DEF SetCapacity
      <4> HIDE DEF gone
      <4> QED
        BY <4>2, DropTypes
    <3> QED
      BY <1>2, <3>1, <3>2, <3>3
  <2> QED
    BY <2>1, <2>2 DEF HourTimeInv, InRound, InHours
<1>3. CASE Wake
  <2>1. nextMinute' = nextMinute
    BY <1>3, <1>s, NoMinuteSkipped DEF Wake
  <2>2. UNCHANGED <<now, nextHour>> /\ ~InRound' /\ ~InHours' /\ loop'.pc # "hours"
    BY <1>3 DEF Wake, InRound, InHours, Loops
  <2> QED
    BY <2>1, <2>2 DEF HourTimeInv
<1>4. CASE Minutes
  <2>1. UNCHANGED <<now, nextMinute>> /\ loop.pc = "minutes"
    BY <1>4 DEF Minutes
  <2>2. CASE Due(loop.at, nextMinute)
    <3>1. nextHour' = nextHour /\ ~InHours' /\ loop'.pc = "pick"
      BY <1>4, <2>2 DEF Minutes, InHours, Loops
    <3>2. nextMinute < nextHour + Minute
      <4>1. nextMinute + Grace <= loop.at
        BY ONLY <1>t, <2>2, Sizes DEF Due
      <4> QED
        BY ONLY <1>t, <1>s, <1>b, <4>1, Sizes
    <3>3. nextMinute <= nextHour
      BY <1>e, <3>2
    <3> QED
      BY <2>1, <3>1, <3>3 DEF HourTimeInv
  <2>3. CASE ~Due(loop.at, nextMinute)
    <3>1. loop'.pc = "hours" /\ loop'.at = loop.at /\ nextHour' = nextHour
      BY <1>4, <2>3, NoHourSkipped DEF Minutes, Loop, Loops
    <3>2. loop.at < nextMinute + Grace
      BY ONLY <1>t, <2>3, Sizes DEF Due
    <3> QED
      BY <2>1, <3>1, <3>2 DEF HourTimeInv, InRound, InHours
  <2> QED
    BY <2>2, <2>3
<1>5. CASE EndMinute
  <2>1. /\ nextMinute' = nextMinute + Minute /\ UNCHANGED <<now, nextHour>>
        /\ InRound /\ loop'.pc = "minutes"
    BY <1>5 DEF EndMinute, Loop, InRound, Loops
  <2>2. nextMinute <= nextHour
    BY <2>1 DEF HourTimeInv
  <2>3. \E a \in Nat : nextMinute' = a * Minute
    <3>1. PICK a \in Nat : nextMinute = a * Minute
      BY DEF HourTimeInv
    <3>2. a + 1 \in Nat /\ nextMinute + Minute = (a + 1) * Minute
      BY ONLY <3>1, Sizes
    <3> QED
      BY <2>1, <3>2
  <2>4. nextHour + Minute <= nextMinute' + Hour /\ nextMinute' <= nextHour + Minute
    BY ONLY <1>t, <1>b, <2>1, <2>2, Sizes
  <2> QED
    BY <2>1, <2>3, <2>4 DEF HourTimeInv, InRound, InHours
<1>6. CASE HoursOrWait
  <2>1. UNCHANGED <<now, nextMinute, nextHour>> /\ loop.pc = "hours" /\ loop.at < nextMinute + Grace
    BY <1>6 DEF HoursOrWait, HourTimeInv
  <2>2. CASE Due(loop.at, nextHour)
    <3>1. ~InRound' /\ loop'.at = loop.at /\ loop'.pc = "hourpick"
      BY <1>6, <2>2 DEF HoursOrWait, InRound, Loops
    <3>2. nextHour < nextMinute
      BY ONLY <1>t, <2>1, <2>2, Sizes DEF Due
    <3>3. nextMinute = nextHour + Minute
      BY ONLY <1>t, <1>e, <1>b, <3>2, Sizes
    <3> QED
      BY <2>1, <3>1, <3>3 DEF HourTimeInv
  <2>3. CASE ~Due(loop.at, nextHour)
    <3>1. ~InRound' /\ ~InHours' /\ loop'.pc # "hours"
      BY <1>6, <2>3 DEF HoursOrWait, Idle, InRound, InHours
    <3> QED
      BY <2>1, <3>1 DEF HourTimeInv
  <2> QED
    BY <2>2, <2>3
<1>7. CASE EndHour
  <2>1. /\ nextHour' = nextHour + Hour /\ UNCHANGED <<now, nextMinute>>
        /\ InHours /\ loop'.pc = "hours" /\ loop'.at = loop.at
    BY <1>7 DEF EndHour, Loop, InHours, Loops
  <2>2. nextMinute = nextHour + Minute /\ loop.at < nextMinute + Grace
    BY <2>1 DEF HourTimeInv
  <2>3. \E b \in Nat \ {0, 1} : nextHour' = b * Hour
    <3>1. PICK b \in Nat \ {0, 1} : nextHour = b * Hour
      BY DEF HourTimeInv
    <3>2. b + 1 \in Nat \ {0, 1} /\ nextHour + Hour = (b + 1) * Hour
      BY ONLY <3>1, Sizes
    <3> QED
      BY <2>1, <3>2
  <2>4. /\ now <= nextHour' + Grace + MaxLate
        /\ nextHour' + Minute <= nextMinute + Hour /\ nextMinute <= nextHour' + Minute
    BY ONLY <1>t, <1>b, <2>1, <2>2, Sizes
  <2> QED
    BY <2>1, <2>2, <2>3, <2>4 DEF HourTimeInv, InRound, InHours
<1>8. CASE RollMinute \/ AppendMinute \/ \E h \in Hosts : Pick(h)
  <2>1. UNCHANGED <<now, nextMinute, nextHour>> /\ InRound
    BY <1>8 DEF RollMinute, AppendMinute, Pick, InRound
  <2>2. ~InHours' /\ loop'.pc # "hours"
    <3>1. CASE AppendMinute
      BY <3>1 DEF AppendMinute, InHours, Loops
    <3>2. CASE RollMinute \/ \E h \in Hosts : Pick(h)
      BY <3>2, LoopMoves DEF InHours
    <3> QED
      BY <1>8, <3>1, <3>2
  <2> QED
    BY <2>1, <2>2 DEF HourTimeInv
<1>9. CASE AppendHour \/ \E h \in Hosts : RollHour(h)
  <2>1. UNCHANGED <<now, nextMinute, nextHour>> /\ InHours
    BY <1>9 DEF AppendHour, RollHour, InHours
  <2>2. ~InRound' /\ loop'.at = loop.at
    <3>1. CASE AppendHour
      BY <3>1 DEF AppendHour, InRound, Loops
    <3>2. CASE \E h \in Hosts : RollHour(h)
      BY <3>2, LoopMoves DEF InRound
    <3> QED
      BY <1>9, <3>1, <3>2
  <2> QED
    BY <2>1, <2>2 DEF HourTimeInv
<1> HIDE DEF TypeInv, TypeOK
<1> QED
  BY <1>1, <1>2, <1>3, <1>4, <1>5, <1>6, <1>7, <1>8, <1>9 DEF Next, RollupLoop

InAgg(h, t) == aggs[h] # None /\ t \in aggs[h].samples
InHand(h, t) == loop.pc = "hourappend" /\ h = loop.host /\ t \in loop.point.samples

\* An hour in progress is the one to close next, or an empty one; it has a sample of the
\* minute that is rolled up when the loop has been there, and nothing once it is closed.
AggInv ==
  \A h \in Hosts : aggs[h] # None =>
    /\ aggs[h].samples = {} \/ aggs[h].hour + Hour = nextHour
    /\ InHours /\ h \notin loop.todo => aggs[h].samples = {}
    /\ \A t \in aggs[h].samples :
         /\ nextHour <= t + Hour /\ t < nextMinute
         /\ nextMinute <= t + Minute =>
              InRound /\ h \notin loop.todo /\ (h = loop.host => loop.pc = "append")

\* The points of a host are of the hours before, and of this one if the loop has been
\* there.
HourPointsInv ==
  /\ \A h \in Hosts : \A i \in DOMAIN hours[h] : \A t \in hours[h][i].samples :
       /\ t < nextHour
       /\ nextHour <= t + Hour => InHours /\ h \notin loop.todo /\ h # loop.host
  /\ loop.pc = "hourappend" =>
       \A t \in loop.point.samples : t < nextHour /\ nextHour <= t + Hour

\* The samples of the minutes that are rolled up, and of this one when the loop has been
\* there.
Counted(h, t) == t + Minute < nextMinute \/ (InRound /\ t < nextMinute /\ ~ToRoll(h))

\* They are in the hour in progress until they are in a point.
HourInv ==
  \A h \in Hosts : \A t \in samples[h] :
    Counted(h, t) => InAgg(h, t) \/ InHand(h, t) \/ OnePoint(hours[h], t)

HoursInv == AggInv /\ HourPointsInv /\ HourInv

\* Steps that leave the loop where it is.
LEMMA EngineKeepsHours ==
  ASSUME TypeInv, HoursInv, nextMinute' = nextMinute, nextHour' = nextHour,
         samples' \in [Hosts -> SUBSET Times],
         loop'.pc = loop.pc, loop'.todo = loop.todo, loop'.host = loop.host, loop'.point = loop.point,
         \A h \in Hosts : hours'[h] = hours[h] \/ hours'[h] = <<>>,
         \A h \in Hosts : aggs'[h] = aggs[h] \/ aggs'[h] = None,
         \A h \in Hosts : \A t \in samples'[h] :
           \/ /\ t \in samples[h] /\ hours'[h] = hours[h] /\ aggs'[h] = aggs[h]
              /\ h = loop.host /\ loop.live => loop'.live
           \/ nextMinute <= t + Minute /\ (InRound => nextMinute <= t)
  PROVE  HoursInv'
<1>1. (InRound' <=> InRound) /\ (InHours' <=> InHours)
  BY DEF InRound, InHours
<1>2. HourPointsInv'
  <2>1. \A h \in Hosts : \A i \in DOMAIN hours'[h] : i \in DOMAIN hours[h] /\ hours'[h][i] = hours[h][i]
    <3>1. DOMAIN <<>> = {}
      OBVIOUS
    <3> QED
      BY <3>1
  <2> QED
    BY <1>1, <2>1 DEF HoursInv, HourPointsInv
<1>3. AggInv'
  BY <1>1 DEF HoursInv, AggInv
<1>4. ASSUME NEW h \in Hosts, NEW t \in samples'[h], Counted(h, t)'
      PROVE  InAgg(h, t)' \/ InHand(h, t)' \/ OnePoint(hours'[h], t)
  <2>1. CASE /\ t \in samples[h] /\ hours'[h] = hours[h] /\ aggs'[h] = aggs[h]
             /\ h = loop.host /\ loop.live => loop'.live
    <3>1. Counted(h, t)
      BY <1>1, <1>4, <2>1 DEF Counted, ToRoll
    <3> QED
      BY <2>1, <3>1 DEF HoursInv, HourInv, InAgg, InHand
  <2>2. CASE nextMinute <= t + Minute /\ (InRound => nextMinute <= t)
    <3>1. t \in Nat /\ nextMinute \in Nat
      BY DEF Times, TypeInv, TypeOK
    <3>2. ~(t + Minute < nextMinute) /\ ~(InRound /\ t < nextMinute)
      BY <2>2, <3>1, Sizes
    <3> QED
      BY <1>1, <1>4, <3>2 DEF Counted
  <2> QED
    BY <1>4, <2>1, <2>2
<1>5. HourInv'
  BY <1>4 DEF HourInv
<1> QED
  BY <1>2, <1>3, <1>5 DEF HoursInv

\* Between the rounds of the loop each sample of the past is where it was.
LEMMA OutsideHours ==
  ASSUME HoursInv, UNCHANGED <<samples, aggs, hours, nextMinute, nextHour>>,
         ~InRound, ~InRound', ~InHours, ~InHours'
  PROVE  HoursInv'
<1>1. loop.pc # "hourappend" /\ loop'.pc # "hourappend"
  BY DEF InHours
<1>2. AggInv'
  BY DEF HoursInv, AggInv
<1>3. HourPointsInv'
  BY <1>1 DEF HoursInv, HourPointsInv
<1>4. HourInv'
  BY <1>1 DEF HoursInv, HourInv, Counted, InAgg, InHand
<1> QED
  BY <1>2, <1>3, <1>4 DEF HoursInv

\* The steps of a round of minutes.
LEMMA ListKeepsHours ==
  ASSUME TypeInv, LruInv, HoursInv, Minutes, InRound'
  PROVE  HoursInv'
<1> USE DEF TypeInv, TypeOK
<1>1. UNCHANGED <<samples, aggs, hours, nextMinute>> /\ ~InRound /\ ~InHours
  BY DEF Minutes, store, InRound, InHours
<1>2. nextHour' = nextHour /\ ~InHours' /\ loop'.todo = Range(lru)
  <2>1. CASE Due(loop.at, nextMinute)
    BY <2>1 DEF Minutes, InHours, Loops
  <2>2. CASE ~Due(loop.at, nextMinute)
    BY <2>2 DEF Minutes, Loop, InRound, Loops
  <2> QED
    BY <2>1, <2>2
<1>3. loop.pc # "hourappend" /\ loop'.pc # "hourappend"
  BY <1>1, <1>2 DEF InHours
<1>4. \A h \in Hosts : \A t \in samples[h] : ToRoll(h)'
  <2>1. \A h \in Hosts : samples[h] # {} => h \in Range(lru)
    BY DEF LruInv, ListOK
  <2> QED
    BY <1>2, <2>1 DEF ToRoll
<1>5. AggInv'
  BY <1>1, <1>2 DEF HoursInv, AggInv
<1>6. HourPointsInv'
  BY <1>1, <1>2, <1>3 DEF HoursInv, HourPointsInv
<1>7. HourInv'
  BY <1>1, <1>2, <1>3, <1>4 DEF HoursInv, HourInv, Counted, InAgg, InHand
<1> QED
  BY <1>5, <1>6, <1>7 DEF HoursInv

LEMMA PickKeepsHours ==
  ASSUME TypeInv, LruInv, HoursInv, NEW h \in Hosts, Pick(h)
  PROVE  HoursInv'
<1> USE DEF TypeInv, TypeOK
<1>1. /\ UNCHANGED <<samples, aggs, hours, nextMinute, nextHour, lru>> /\ loop.pc = "pick" /\ h \in loop.todo
      /\ loop.host = None /\ ~loop.live
  BY DEF Pick, store, LoopInv
<1>2. /\ loop'.todo = loop.todo \ {h} /\ loop'.pc \in {"pick", "roll"}
      /\ \/ h \in Range(lru) /\ loop'.host = h /\ loop'.live
         \/ h \notin Range(lru) /\ loop'.host = None
  BY <1>1 DEF Pick, Loops
<1>3. InRound /\ InRound' /\ ~InHours /\ ~InHours' /\ loop'.pc # "hourappend" /\ loop.pc # "hourappend"
  BY <1>1, <1>2 DEF InRound, InHours
<1>4. \A x \in Hosts : x \notin loop.todo => x \notin loop'.todo /\ x # loop'.host
  BY <1>1, <1>2, Constants
<1>5. \A x \in Hosts : \A t \in samples[x] : ToRoll(x) => ToRoll(x)'
  <2>1. h \notin Range(lru) => samples[h] = {}
    BY DEF LruInv, ListOK
  <2> QED
    BY <1>1, <1>2, <2>1 DEF ToRoll
<1>6. AggInv'
  BY <1>1, <1>3, <1>4 DEF HoursInv, AggInv
<1>7. HourPointsInv'
  BY <1>1, <1>3 DEF HoursInv, HourPointsInv
<1>8. HourInv'
  BY <1>1, <1>3, <1>5 DEF HoursInv, HourInv, Counted, InAgg, InHand
<1> QED
  BY <1>6, <1>7, <1>8 DEF HoursInv

\* rollupMinute: the samples of the minute join those of the hour in progress.
LEMMA RollKeepsHours ==
  ASSUME TypeInv, LruInv, TimeInv, HourTimeInv, HoursInv, RollMinute
  PROVE  HoursInv'
<1> USE DEF TypeInv, TypeOK
<1> DEFINE h == loop.host
           agg == IF aggs[h] = None THEN [hour |-> 0, samples |-> {}] ELSE aggs[h]
           hour == Truncate(nextMinute - Minute, Hour)
<1>1. /\ loop.pc = "roll" /\ h \in Hosts /\ h \notin loop.todo /\ InRound /\ ~InHours
      /\ UNCHANGED <<samples, hours, nextMinute, nextHour>> /\ aggs \in [Hosts -> {None} \cup Aggs]
  BY DEF RollMinute, LoopInv, Loops, InRound, InHours
<1>2. /\ loop'.todo = loop.todo /\ loop'.host \in {None, h} /\ ~loop'.live
      /\ \/ /\ Bucket = {} /\ loop'.pc = "pick" /\ loop'.host = None
            /\ aggs' = [aggs EXCEPT ![h] = agg]
         \/ /\ loop'.pc = "append"
            /\ aggs' = [aggs EXCEPT ![h] =
                 [hour |-> hour, samples |-> Bucket \cup (IF agg.hour = hour THEN agg.samples ELSE {})]]
  <2>1. \/ /\ Bucket = {}
           /\ loop' = [loop EXCEPT !.pc = "pick", !.host = None, !.live = FALSE, !.kept = {}]
           /\ aggs' = [aggs EXCEPT ![h] = agg]
        \/ /\ loop' = [loop EXCEPT !.pc = "append", !.live = FALSE, !.kept = {},
                              !.point = [start |-> nextMinute - Minute, samples |-> Bucket]]
           /\ aggs' = [aggs EXCEPT ![h] =
                 [hour |-> hour, samples |-> Bucket \cup (IF agg.hour = hour THEN agg.samples ELSE {})]]
    BY DEF RollMinute, Bucket
  <2> HIDE DEF agg, hour
  <2>2. ASSUME loop' = [loop EXCEPT !.pc = "pick", !.host = None, !.live = FALSE, !.kept = {}]
        PROVE  loop'.todo = loop.todo /\ loop'.host = None /\ ~loop'.live /\ loop'.pc = "pick"
    BY ONLY <2>2, loop \in Loops DEF Loops
  <2>3. ASSUME loop' = [loop EXCEPT !.pc = "append", !.live = FALSE, !.kept = {},
                              !.point = [start |-> nextMinute - Minute, samples |-> Bucket]]
        PROVE  loop'.todo = loop.todo /\ loop'.host = h /\ ~loop'.live /\ loop'.pc = "append"
    BY ONLY <2>3, loop \in Loops DEF Loops
  <2> QED
    BY <2>1, <2>2, <2>3
<1>3. InRound' /\ ~InHours' /\ loop.pc # "hourappend" /\ loop'.pc # "hourappend"
  BY <1>1, <1>2 DEF InRound, InHours
<1>4. hour + Hour = nextHour /\ hour \in Nat \ {0} /\ nextMinute <= nextHour /\ nextMinute \in Nat
      /\ nextHour \in Nat /\ nextHour + Minute <= nextMinute + Hour
  BY <1>1, HourOfMinute, EndsApart DEF HourTimeInv
<1> HIDE DEF hour
<1>5. /\ \A t \in Bucket : t \in Nat /\ t < nextMinute /\ nextMinute <= t + Minute
      /\ loop.live => \A t \in samples[h] : t < nextMinute /\ ~(t + Minute < nextMinute) => t \in Bucket
  BY <1>1, BucketIsTheMinute DEF Times
<1>6. \A t \in Bucket : nextHour <= t + Hour
  BY ONLY <1>4, <1>5, Sizes
<1>7. /\ agg.samples = {} \/ agg.hour = hour
      /\ \A t \in agg.samples : nextHour <= t + Hour /\ t < nextMinute /\ ~(nextMinute <= t + Minute)
      /\ \A t : t \in agg.samples <=> InAgg(h, t)
  <2>1. CASE aggs[h] = None
    BY <2>1 DEF InAgg
  <2>2. CASE aggs[h] # None
    <3>1. agg = aggs[h] /\ aggs[h] \in Aggs
      BY <1>1, <2>2
    <3>2. agg.hour \in Nat
      BY <3>1 DEF Aggs, Times
    <3>3. agg.samples = {} \/ agg.hour + Hour = nextHour
      BY <1>1, <2>2, <3>1 DEF HoursInv, AggInv
    <3>4. agg.samples = {} \/ agg.hour = hour
      BY ONLY <1>4, <3>2, <3>3, Sizes
    <3>5. \A t \in agg.samples : nextHour <= t + Hour /\ t < nextMinute /\ ~(nextMinute <= t + Minute)
      BY <1>1, <2>2, <3>1 DEF HoursInv, AggInv
    <3> QED
      BY <2>2, <3>1, <3>4, <3>5 DEF InAgg
  <2> QED
    BY <2>1, <2>2
<1> HIDE DEF agg
<1>8. /\ aggs'[h] # None
      /\ aggs'[h].samples = Bucket \cup agg.samples
      /\ aggs'[h].samples = {} \/ aggs'[h].hour + Hour = nextHour
      /\ loop'.pc # "append" => Bucket = {}
      /\ \A x \in Hosts : x # h => aggs'[x] = aggs[x]
  <2>1. CASE /\ Bucket = {} /\ loop'.pc = "pick" /\ loop'.host = None
             /\ aggs' = [aggs EXCEPT ![h] = agg]
    <3>1. agg # None
      <4>1. 0 \in Times
        BY Constants DEF Times
      <4>2. [hour |-> 0, samples |-> {}] \in Aggs
        BY <4>1 DEF Aggs
      <4> QED
        BY <4>2, Constants DEF agg
    <3>2. aggs'[h] = agg /\ \A x \in Hosts : x # h => aggs'[x] = aggs[x]
      BY ONLY <1>1, <2>1
    <3> QED
      BY <1>4, <1>7, <2>1, <3>1, <3>2
  <2>2. CASE /\ loop'.pc = "append"
             /\ aggs' = [aggs EXCEPT ![h] =
                  [hour |-> hour, samples |-> Bucket \cup (IF agg.hour = hour THEN agg.samples ELSE {})]]
    <3> DEFINE new == [hour |-> hour, samples |-> Bucket \cup (IF agg.hour = hour THEN agg.samples ELSE {})]
    <3>1. aggs'[h] = new /\ \A x \in Hosts : x # h => aggs'[x] = aggs[x]
      BY ONLY <1>1, <2>2
    <3>2. aggs'[h] # None
      <4>1. hour \in Times
        <5>1. now \in Nat /\ now <= MaxTime /\ nextHour <= now + Hour
          BY DEF Times, RoundInv
        <5>2. hour <= MaxTime
          BY ONLY <1>4, <5>1, Constants
        <5> QED
          BY <1>4, <5>2 DEF Times
      <4>2. Bucket \in SUBSET Times
        BY <1>1, BucketIsTheMinute
      <4>3. agg.samples \in SUBSET Times
        BY <1>1 DEF agg, Aggs
      <4>4. new \in Aggs
        BY ONLY <4>1, <4>2, <4>3 DEF Aggs
      <4> QED
        BY <3>1, <4>4, Constants
    <3>3. new.samples = Bucket \cup agg.samples /\ new.hour = hour
      BY <1>7
    <3> QED
      BY <1>4, <2>2, <3>1, <3>2, <3>3
  <2> QED
    BY <1>2, <2>1, <2>2
<1>9. AggInv'
  <2>1. ASSUME NEW x \in Hosts, x # h, aggs'[x] # None
        PROVE  /\ aggs'[x].samples = {} \/ aggs'[x].hour + Hour = nextHour
               /\ \A t \in aggs'[x].samples :
                    /\ nextHour <= t + Hour /\ t < nextMinute
                    /\ nextMinute <= t + Minute => x \notin loop'.todo /\ x # loop'.host
    <3>1. x # loop'.host
      BY <1>2, <2>1, Constants
    <3>2. aggs'[x] = aggs[x] /\ x # loop.host
      BY <1>8, <2>1
    <3> QED
      BY <1>1, <1>2, <2>1, <3>1, <3>2 DEF HoursInv, AggInv
  <2>2. \A t \in aggs'[h].samples :
          /\ nextHour <= t + Hour /\ t < nextMinute
          /\ nextMinute <= t + Minute => h \notin loop'.todo /\ loop'.pc = "append"
    BY <1>1, <1>2, <1>5, <1>6, <1>7, <1>8
  <2> QED
    BY <1>1, <1>3, <1>8, <2>1, <2>2 DEF AggInv
<1>10. HourPointsInv'
  BY <1>1, <1>3 DEF HoursInv, HourPointsInv
<1>11. HourInv'
  <2>1. ASSUME NEW x \in Hosts, NEW t \in samples[x], Counted(x, t)'
        PROVE  InAgg(x, t)' \/ OnePoint(hours[x], t)
    <3>1. CASE Counted(x, t)
      <4>1. InAgg(x, t) \/ OnePoint(hours[x], t)
        BY <1>3, <3>1 DEF HoursInv, HourInv, InHand
      <4>2. InAgg(x, t) => InAgg(x, t)'
        BY <1>7, <1>8 DEF InAgg
      <4> QED
        BY <4>1, <4>2
    <3>2. CASE ~Counted(x, t)
      <4>1. x = h /\ loop.live /\ t < nextMinute /\ ~(t + Minute < nextMinute)
        BY <1>1, <1>2, <1>3, <2>1, <3>2 DEF Counted, ToRoll
      <4>2. t \in Bucket
        BY <1>5, <4>1
      <4> QED
        BY <1>8, <4>1, <4>2 DEF InAgg
    <3> QED
      BY <3>1, <3>2
  <2> QED
    BY <1>1, <2>1 DEF HourInv
<1> QED
  BY <1>9, <1>10, <1>11 DEF HoursInv

LEMMA AppendMinuteKeepsHours ==
  ASSUME TypeInv, HoursInv, AppendMinute
  PROVE  HoursInv'
<1> USE DEF TypeInv, TypeOK
<1>1. /\ UNCHANGED <<samples, aggs, hours, nextMinute, nextHour>> /\ loop.pc = "append" /\ ~loop.live
      /\ loop.host \in Hosts /\ loop.host \notin loop.todo
  BY DEF AppendMinute, LoopInv, Loops
<1>2. loop'.pc = "pick" /\ loop'.todo = loop.todo /\ loop'.host = None /\ ~loop'.live
  BY <1>1 DEF AppendMinute, Loops
<1>3. InRound /\ InRound' /\ ~InHours /\ ~InHours'
  BY <1>1, <1>2 DEF InRound, InHours
<1>4. \A x \in Hosts : x # loop'.host /\ (ToRoll(x)' <=> ToRoll(x))
  BY <1>1, <1>2, Constants DEF ToRoll
<1>5. AggInv'
  BY <1>1, <1>2, <1>3, <1>4 DEF HoursInv, AggInv
<1>6. HourPointsInv'
  BY <1>1, <1>2, <1>3 DEF HoursInv, HourPointsInv
<1>7. HourInv'
  BY <1>1, <1>2, <1>3, <1>4 DEF HoursInv, HourInv, Counted, InAgg, InHand
<1> QED
  BY <1>5, <1>6, <1>7 DEF HoursInv

LEMMA EndMinuteKeepsHours ==
  ASSUME TypeInv, HoursInv, EndMinute
  PROVE  HoursInv'
<1> USE DEF TypeInv, TypeOK
<1>1. /\ UNCHANGED <<samples, aggs, hours, nextHour>> /\ nextMinute' = nextMinute + Minute
      /\ loop.pc = "pick" /\ loop.todo = {} /\ ~loop.live /\ nextMinute \in Nat
  BY DEF EndMinute, store, LoopInv
<1>2. loop'.pc = "minutes"
  BY DEF EndMinute, Loop, Loops
<1>3. InRound /\ ~InRound' /\ ~InHours /\ ~InHours'
  BY <1>1, <1>2 DEF InRound, InHours
<1>4. AggInv'
  <2>1. ASSUME NEW h \in Hosts, aggs[h] # None, NEW t \in aggs[h].samples
        PROVE  t < nextMinute' /\ ~(nextMinute' <= t + Minute)
    <3>1. t \in Nat
      BY <2>1 DEF Aggs, Times
    <3>2. t < nextMinute
      BY <2>1 DEF HoursInv, AggInv
    <3> QED
      BY ONLY <1>1, <3>1, <3>2, Sizes
  <2> QED
    BY <1>1, <1>3, <2>1 DEF HoursInv, AggInv
<1>5. HourPointsInv'
  BY <1>1, <1>2, <1>3 DEF HoursInv, HourPointsInv
<1>6. ASSUME NEW h \in Hosts, NEW t \in samples[h], Counted(h, t)' PROVE Counted(h, t)
  <2>1. t \in Nat
    BY DEF Times
  <2>2. t + Minute < nextMinute'
    BY <1>3, <1>6 DEF Counted
  <2>3. t < nextMinute
    BY ONLY <1>1, <2>1, <2>2, Sizes
  <2> QED
    BY <1>1, <1>3, <2>3 DEF Counted, ToRoll
<1>7. HourInv'
  BY <1>1, <1>2, <1>6 DEF HoursInv, HourInv, InAgg, InHand
<1> QED
  BY <1>4, <1>5, <1>7 DEF HoursInv

\* The steps of a round of hours.
LEMMA ListHoursKeepsHours ==
  ASSUME TypeInv, HoursInv, HoursOrWait, InHours'
  PROVE  HoursInv'
<1> USE DEF TypeInv, TypeOK
<1>1. UNCHANGED <<samples, aggs, hours, nextMinute, nextHour>> /\ loop.pc = "hours" /\ loop.host = None
  BY DEF HoursOrWait, store, LoopInv
<1>2. loop'.pc = "hourpick" /\ loop'.todo = {h \in Hosts : aggs[h] # None}
  <2>1. CASE Due(loop.at, nextHour)
    BY <2>1 DEF HoursOrWait, Loops
  <2>2. CASE ~Due(loop.at, nextHour)
    BY <2>2 DEF HoursOrWait, Idle, InHours
  <2> QED
    BY <2>1, <2>2
<1>3. ~InRound /\ ~InRound' /\ ~InHours
  BY <1>1, <1>2 DEF InRound, InHours
<1>4. AggInv'
  BY <1>1, <1>2, <1>3 DEF HoursInv, AggInv
<1>5. HourPointsInv'
  BY <1>1, <1>2, <1>3 DEF HoursInv, HourPointsInv
<1>6. HourInv'
  BY <1>1, <1>2, <1>3 DEF HoursInv, HourInv, Counted, InAgg, InHand
<1> QED
  BY <1>4, <1>5, <1>6 DEF HoursInv

\* rollupHour: the samples go from the hour in progress to the point.
LEMMA RollHourKeepsHours ==
  ASSUME TypeInv, HourTimeInv, HoursInv, NEW h \in Hosts, RollHour(h)
  PROVE  HoursInv'
<1> USE DEF TypeInv, TypeOK
<1> DEFINE done == aggs[h] # None /\ aggs[h].hour = nextHour - Hour /\ aggs[h].samples # {}
<1>1. /\ UNCHANGED <<samples, hours, nextMinute, nextHour>> /\ loop.pc = "hourpick" /\ h \in loop.todo
      /\ loop.host = None /\ ~loop.live
      /\ InHours /\ ~InRound
  BY DEF RollHour, LoopInv, InHours, InRound
<1>2. /\ loop'.todo = loop.todo \ {h} /\ ~loop'.live
      /\ \/ /\ done /\ loop'.pc = "hourappend" /\ loop'.host = h
            /\ loop'.point.samples = aggs[h].samples
         \/ ~done /\ loop'.pc = "hourpick" /\ loop'.host = None
  <2>1. CASE done
    <3>1. loop' = [loop EXCEPT !.pc = "hourappend", !.todo = @ \ {h}, !.host = h,
                               !.point = [start |-> nextHour - Hour, samples |-> aggs[h].samples]]
      BY <2>1 DEF RollHour
    <3> HIDE DEF done
    <3> QED
      BY <1>1, <2>1, <3>1 DEF Loops
  <2>2. CASE ~done
    <3>1. loop' = [loop EXCEPT !.todo = @ \ {h}]
      BY <2>2 DEF RollHour
    <3> HIDE DEF done
    <3> QED
      BY <1>1, <2>2, <3>1 DEF Loops
  <2> QED
    BY <2>1, <2>2
<1>3. InHours' /\ ~InRound'
  BY <1>2 DEF InHours, InRound
<1>4. nextHour \in Nat /\ 2 * Hour <= nextHour
  BY EndsApart
<1>5. ASSUME aggs[h] # None
      PROVE  /\ aggs[h].hour \in Nat
             /\ aggs[h].samples # {} => done
             /\ aggs[h].samples # {} => aggs[h].hour # 0 /\ aggs[h].hour <= nextHour - Hour
  <2>1. aggs[h].hour \in Nat
    BY <1>5 DEF Aggs, Times
  <2>2. aggs[h].samples = {} \/ aggs[h].hour + Hour = nextHour
    BY <1>5 DEF HoursInv, AggInv
  <2>3. aggs[h].hour + Hour = nextHour =>
          aggs[h].hour = nextHour - Hour /\ aggs[h].hour # 0 /\ aggs[h].hour <= nextHour - Hour
    BY ONLY <1>4, <2>1, Sizes
  <2> QED
    BY <1>5, <2>1, <2>2, <2>3
<1> HIDE DEF done
<1>6. /\ \A x \in Hosts : x # h => aggs'[x] = aggs[x]
      /\ aggs'[h] # None => aggs'[h].samples = {}
  <2>1. aggs' = [aggs EXCEPT ![h] =
           IF @ # None /\ @.hour # 0 /\ @.hour <= nextHour - Hour THEN [hour |-> 0, samples |-> {}] ELSE @]
    BY DEF RollHour
  <2>2. aggs'[h] = IF aggs[h] # None /\ aggs[h].hour # 0 /\ aggs[h].hour <= nextHour - Hour
                   THEN [hour |-> 0, samples |-> {}] ELSE aggs[h]
    BY ONLY <2>1, aggs \in [Hosts -> {None} \cup Aggs], h \in Hosts
  <2> QED
    BY <1>5, <2>1, <2>2
<1>7. AggInv'
  <2>1. ASSUME NEW x \in Hosts, x # h, aggs'[x] # None
        PROVE  /\ aggs'[x].samples = {} \/ aggs'[x].hour + Hour = nextHour
               /\ x \notin loop'.todo => aggs'[x].samples = {}
               /\ \A t \in aggs'[x].samples :
                    nextHour <= t + Hour /\ t < nextMinute /\ ~(nextMinute <= t + Minute)
    BY <1>1, <1>2, <1>6, <2>1 DEF HoursInv, AggInv
  <2> QED
    BY <1>1, <1>3, <1>6, <2>1 DEF AggInv
<1>8. HourPointsInv'
  <2>1. \A x \in Hosts : x \notin loop.todo => x \notin loop'.todo /\ x # loop'.host
    BY <1>1, <1>2, Constants
  <2>2. ASSUME done, NEW t \in aggs[h].samples PROVE t < nextHour /\ nextHour <= t + Hour
    <3>1. t \in Nat /\ nextMinute \in Nat
      BY <2>2 DEF done, Aggs, Times
    <3>2. nextHour <= t + Hour /\ ~(nextMinute <= t + Minute)
      BY <1>1, <2>2 DEF done, HoursInv, AggInv
    <3>3. nextMinute = nextHour + Minute
      BY <1>1 DEF HourTimeInv
    <3>4. t < nextHour
      BY ONLY <1>4, <3>1, <3>2, <3>3, Sizes
    <3> QED
      BY <3>2, <3>4
  <2> QED
    BY <1>1, <1>2, <1>3, <2>1, <2>2 DEF HoursInv, HourPointsInv
<1>9. HourInv'
  <2>1. ASSUME NEW x \in Hosts, NEW t \in samples[x], Counted(x, t)'
        PROVE  InAgg(x, t)' \/ InHand(x, t)' \/ OnePoint(hours[x], t)
    <3>1. Counted(x, t)
      BY <1>1, <1>3, <2>1 DEF Counted
    <3>2. InAgg(x, t) \/ OnePoint(hours[x], t)
      BY <1>1, <3>1 DEF HoursInv, HourInv, InHand
    <3>3. CASE InAgg(x, t) /\ x # h
      BY <1>6, <3>3 DEF InAgg
    <3>4. CASE InAgg(x, t) /\ x = h
      <4>1. done
        BY <1>5, <3>4 DEF InAgg
      <4> QED
        BY <1>2, <3>4, <4>1 DEF InAgg, InHand
    <3> QED
      BY <3>2, <3>3, <3>4
  <2> QED
    BY <1>1, <2>1 DEF HourInv
<1> QED
  BY <1>7, <1>8, <1>9 DEF HoursInv

LEMMA AppendHourKeepsHours ==
  ASSUME TypeInv, HoursInv, AppendHour
  PROVE  HoursInv'
<1> USE DEF TypeInv, TypeOK
<1> DEFINE h == loop.host
           p == loop.point
<1>1. /\ UNCHANGED <<samples, aggs, nextMinute, nextHour>> /\ loop.pc = "hourappend"
      /\ h \in Hosts /\ h \notin loop.todo /\ p \in Points /\ hours[h] \in Seq(Points)
  BY DEF AppendHour, LoopInv, Loops
<1>2. loop'.pc = "hourpick" /\ loop'.todo = loop.todo /\ loop'.host = None
  BY DEF AppendHour, Loops
<1>3. InHours /\ InHours' /\ ~InRound /\ ~InRound'
  BY <1>1, <1>2 DEF InHours, InRound
<1>4. /\ hours'[h] = Append(hours[h], p)
      /\ \A x \in Hosts : x # h => hours'[x] = hours[x]
  BY <1>1 DEF AppendHour
<1>5. \A t \in p.samples : t < nextHour /\ nextHour <= t + Hour
  BY <1>1 DEF HoursInv, HourPointsInv
<1>6. \A i \in DOMAIN hours[h] : \A t \in hours[h][i].samples : t < nextHour /\ ~(nextHour <= t + Hour)
  BY <1>1 DEF HoursInv, HourPointsInv
<1>7. AggInv'
  BY <1>1, <1>2, <1>3 DEF HoursInv, AggInv
<1> HIDE DEF p
<1>8. HourPointsInv'
  <2>1. ASSUME NEW x \in Hosts, NEW i \in DOMAIN hours'[x], NEW t \in hours'[x][i].samples
        PROVE  t < nextHour /\ (nextHour <= t + Hour => x \notin loop.todo)
    <3>1. CASE x = h
      <4>1. \A k \in DOMAIN Append(hours[h], p) :
              \/ k \in DOMAIN hours[h] /\ Append(hours[h], p)[k] = hours[h][k]
              \/ Append(hours[h], p)[k] = p
        BY ONLY <1>1, PointAppended
      <4>2. (i \in DOMAIN hours[h] /\ hours'[x][i] = hours[h][i]) \/ hours'[x][i] = p
        BY ONLY <1>4, <2>1, <3>1, <4>1
      <4> QED
        BY <1>1, <1>5, <1>6, <2>1, <3>1, <4>2
    <3>2. CASE x # h
      BY <1>4, <2>1, <3>2 DEF HoursInv, HourPointsInv
    <3> QED
      BY <3>1, <3>2
  <2>2. \A x \in Hosts : x # loop'.host
    BY <1>2, Constants
  <2> QED
    BY <1>1, <1>2, <1>3, <2>1, <2>2 DEF HourPointsInv
<1>9. HourInv'
  <2>1. ASSUME NEW x \in Hosts, NEW t \in samples[x], Counted(x, t)'
        PROVE  InAgg(x, t)' \/ OnePoint(hours'[x], t)
    <3>1. Counted(x, t)
      BY <1>1, <1>3, <2>1 DEF Counted
    <3>2. InAgg(x, t) \/ (x = h /\ t \in p.samples) \/ OnePoint(hours[x], t)
      BY <3>1 DEF HoursInv, HourInv, InHand, p
    <3>3. InAgg(x, t) => InAgg(x, t)'
      BY <1>1 DEF InAgg
    <3>4. CASE x # h
      BY <1>4, <3>2, <3>3, <3>4
    <3>5. CASE x = h
      <4>1. ASSUME t \in p.samples PROVE \A i \in DOMAIN hours[h] : t \notin hours[h][i].samples
        BY <1>5, <1>6, <4>1
      <4>2. /\ OnePoint(hours[h], t) /\ t \notin p.samples => OnePoint(Append(hours[h], p), t)
            /\ (\A i \in DOMAIN hours[h] : t \notin hours[h][i].samples) /\ t \in p.samples
                 => OnePoint(Append(hours[h], p), t)
        BY ONLY <1>1, PointAppended
      <4>3. OnePoint(hours[h], t) \/ t \in p.samples => OnePoint(hours'[h], t)
        BY ONLY <1>4, <4>1, <4>2
      <4> QED
        BY <3>2, <3>3, <3>5, <4>3
    <3> QED
      BY <3>4, <3>5
  <2> QED
    BY <1>1, <2>1 DEF HourInv
<1> QED
  BY <1>7, <1>8, <1>9 DEF HoursInv

\* The hour is closed: nothing of it is left in progress.
LEMMA EndHourKeepsHours ==
  ASSUME TypeInv, HourTimeInv, HoursInv, EndHour
  PROVE  HoursInv'
<1> USE DEF TypeInv, TypeOK
<1>1. /\ UNCHANGED <<samples, aggs, hours, nextMinute>> /\ nextHour' = nextHour + Hour
      /\ loop.pc = "hourpick" /\ loop.todo = {} /\ loop.host = None /\ nextHour \in Nat
      /\ \A x \in Hosts : x # loop.host
  BY Constants DEF EndHour, store, LoopInv
<1>2. loop'.pc = "hours"
  BY DEF EndHour, Loop, Loops
<1>3. InHours /\ ~InHours' /\ ~InRound /\ ~InRound'
  BY <1>1, <1>2 DEF InHours, InRound
<1>4. \A h \in Hosts : aggs[h] # None => aggs[h].samples = {}
  BY <1>1, <1>3 DEF HoursInv, AggInv
<1>5. AggInv'
  BY <1>1, <1>3, <1>4 DEF AggInv
<1>6. HourPointsInv'
  <2>1. ASSUME NEW h \in Hosts, NEW i \in DOMAIN hours[h], NEW t \in hours[h][i].samples
        PROVE  t < nextHour' /\ ~(nextHour' <= t + Hour)
    <3>1. hours[h][i] \in Points
      OBVIOUS
    <3>2. t \in Nat
      BY <3>1 DEF Points, Times
    <3>3. t < nextHour
      BY <2>1 DEF HoursInv, HourPointsInv
    <3> QED
      BY ONLY <1>1, <3>2, <3>3, Sizes
  <2> QED
    BY <1>1, <1>2, <2>1 DEF HourPointsInv
<1>7. HourInv'
  <2>1. ASSUME NEW h \in Hosts, NEW t \in samples[h], Counted(h, t)' PROVE OnePoint(hours[h], t)
    <3>1. Counted(h, t)
      BY <1>1, <1>3, <2>1 DEF Counted
    <3> QED
      BY <1>1, <1>4, <3>1 DEF HoursInv, HourInv, InHand, InAgg
  <2> QED
    BY <1>1, <2>1 DEF HourInv
<1> QED
  BY <1>5, <1>6, <1>7 DEF HoursInv

LEMMA NextHours ==
  ASSUME HoursInOrder, TypeInv, LruInv, TimeInv, HourTimeInv, HoursInv, [Next]_vars
  PROVE  HoursInv'
<1> USE DEF TypeInv, TypeOK
<1>t. TypeOK' /\ NothingSkipped
  BY NextTypes DEF HoursInOrder
<1>1. CASE Tick \/ (\E h \in Hosts : Probe(h)) \/ UNCHANGED vars
  <2>1. UNCHANGED <<samples, aggs, hours, nextMinute, nextHour, loop>>
    BY <1>1 DEF Tick, Probe, vars, store, rollup
  <2> QED
    BY <2>1, EngineKeepsHours
<1>2. ASSUME NEW h \in Hosts, Record(h) PROVE HoursInv'
  <2>1. UNCHANGED <<aggs, hours, nextMinute, nextHour, loop>> /\ samples \in [Hosts -> SUBSET Times]
    BY <1>2 DEF Record, rollup
  <2>2. \A x \in Hosts : \A t \in samples'[x] : t \in samples[x] \/ t = recording.at
    <3>1. CASE samples' = [samples EXCEPT ![h] = @ \cup {recording.at}]
      BY ONLY <2>1, <3>1
    <3>2. CASE samples' = [samples EXCEPT ![h] = {recording.at}]
      BY ONLY <2>1, <3>2
    <3>3. CASE UNCHANGED samples
      BY ONLY <3>3
    <3> QED
      BY <1>2, <3>1, <3>2, <3>3 DEF Record
  <2>3. nextMinute <= recording.at + Minute /\ (InRound => nextMinute <= recording.at)
    BY <1>2 DEF Record, TimeInv
  <2> QED
    BY <1>t, <2>1, <2>2, <2>3, EngineKeepsHours
<1>3. ASSUME NEW gone \in SUBSET Hosts, DropBuffers(gone), DropRollups(gone),
             nextMinute' = nextMinute, nextHour' = nextHour
      PROVE  HoursInv'
  <2>1. /\ loop'.pc = loop.pc /\ loop'.todo = loop.todo /\ loop'.host = loop.host /\ loop'.point = loop.point
        /\ samples' \in [Hosts -> SUBSET Times]
    BY <1>3, DropTypes
  <2>2. /\ samples' = [h \in Hosts |-> IF h \in gone THEN {} ELSE samples[h]]
        /\ hours' = [h \in Hosts |-> IF h \in gone THEN <<>> ELSE hours[h]]
        /\ aggs' = [h \in Hosts |-> IF h \in gone THEN None ELSE aggs[h]]
        /\ loop.host \notin gone => loop' = loop
    BY <1>3 DEF DropBuffers, DropRollups
  <2>3. \A h \in Hosts : (hours'[h] = hours[h] \/ hours'[h] = <<>>) /\ (aggs'[h] = aggs[h] \/ aggs'[h] = None)
    BY <2>2
  <2>4. ASSUME NEW h \in Hosts, NEW t \in samples'[h]
        PROVE  /\ t \in samples[h] /\ hours'[h] = hours[h] /\ aggs'[h] = aggs[h]
               /\ h = loop.host /\ loop.live => loop'.live
    <3>1. h \notin gone
      BY <2>2, <2>4
    <3> QED
      BY <2>2, <2>4, <3>1
  <2> QED
    BY <1>3, <2>1, <2>3, <2>4, EngineKeepsHours
<1>4. CASE (\E active \in SUBSET Hosts : SetTargets(active)) \/ (\E n \in Limits : SetCapacity(n))
  <2>1. ASSUME NEW active \in SUBSET Hosts, SetTargets(active) PROVE HoursInv'
    <3>1. Hosts \ active \in SUBSET Hosts
      OBVIOUS
    <3> QED
      BY <1>3, <2>1, <3>1 DEF SetTargets, PruneHosts
  <2>2. ASSUME NEW n \in Limits, SetCapacity(n) PROVE HoursInv'
    <3> DEFINE gone == {lru[i] : i \in {j \in DOMAIN lru : j > n}}
    <3>1. gone \in SUBSET Hosts
      OBVIOUS
    <3>2. DropBuffers(gone) /\ DropRollups(gone) /\ nextMinute' = nextMinute /\ nextHour' = nextHour
      BY <2>2 DEF SetCapacity
    <3> HIDE DEF gone
    <3> QED
      BY <1>3, <3>1, <3>2
  <2> QED
    BY <1>4, <2>1, <2>2
<1>5. CASE Wake
  <2>1. ~InRound /\ ~InRound' /\ ~InHours /\ ~InHours'
        /\ UNCHANGED <<samples, aggs, hours, nextMinute, nextHour>>
    BY <1>t, <1>5, NoMinuteSkipped DEF Wake, InRound, InHours, Loops, store
  <2> QED
    BY <2>1, OutsideHours
<1>6. CASE Minutes
  <2>1. CASE InRound'
    BY <1>6, <2>1, ListKeepsHours
  <2>2. CASE ~InRound'
    <3>1. UNCHANGED <<samples, aggs, hours, nextMinute>> /\ ~InRound /\ ~InHours
      BY <1>6 DEF Minutes, store, InRound, InHours
    <3>2. nextHour' = nextHour /\ ~InHours'
      <4>1. ~Due(loop.at, nextMinute)
        BY <1>6, <2>2 DEF Minutes, InRound, Loops
      <4> QED
        BY <1>6, <4>1, NoHourSkipped DEF Minutes, Loop, InHours, Loops
    <3> QED
      BY <2>2, <3>1, <3>2, OutsideHours
  <2> QED
    BY <2>1, <2>2
<1>7. CASE HoursOrWait
  <2>1. CASE InHours'
    BY <1>7, <2>1, ListHoursKeepsHours
  <2>2. CASE ~InHours'
    <3>1. UNCHANGED <<samples, aggs, hours, nextMinute, nextHour>> /\ ~InRound /\ ~InHours
      BY <1>7 DEF HoursOrWait, store, InRound, InHours
    <3>2. ~InRound'
      <4>1. CASE Due(loop.at, nextHour)
        BY <1>7, <2>2, <4>1 DEF HoursOrWait, InHours, Loops
      <4>2. CASE ~Due(loop.at, nextHour)
        BY <1>7, <4>2 DEF HoursOrWait, InRound, Idle
      <4> QED
        BY <4>1, <4>2
    <3> QED
      BY <2>2, <3>1, <3>2, OutsideHours
  <2> QED
    BY <2>1, <2>2
<1> HIDE DEF TypeInv, TypeOK
<1>8. CASE RollMinute \/ AppendMinute \/ EndMinute \/ AppendHour \/ EndHour
           \/ \E h \in Hosts : Pick(h) \/ RollHour(h)
  BY <1>8, RollKeepsHours, AppendMinuteKeepsHours, EndMinuteKeepsHours, AppendHourKeepsHours,
     EndHourKeepsHours, PickKeepsHours, RollHourKeepsHours
<1> QED
  BY <1>1, <1>2, <1>4, <1>5, <1>6, <1>7, <1>8 DEF Next, RollupLoop

\* A sample whose minute is rolled up is in one hour point of its host, in the hour in
\* progress or in the hand of the loop, and never in two of them (rollup.go, rollupHour,
\* and the readers that join the points and the hour in progress): the loop closes an
\* hour after its last minute and before the first of the next (HourTimeInv), so that an
\* hour in progress is never of two hours (AggInv).
THEOREM SamplesAreInOneHour ==
  ASSUME HoursInOrder
  PROVE  Spec => []HoursComplete
<1> DEFINE Inv == TimeInv /\ HourTimeInv /\ HoursInv
<1>1. Init => Inv
  <2> SUFFICES ASSUME Init PROVE Inv
    OBVIOUS
  <2>1. /\ now = Hour /\ nextMinute = Hour + Minute /\ nextHour = 2 * Hour
        /\ recording = None /\ loop.pc = "idle"
        /\ \A h \in Hosts : samples[h] = {} /\ hours[h] = <<>> /\ aggs[h] = None
    BY DEF Init, Idle
  <2>2. /\ now <= nextMinute + Grace + MaxLate /\ now <= nextHour + Grace + MaxLate
        /\ nextHour + Minute <= nextMinute + Hour
    BY ONLY <2>1, Sizes
  <2>3. TimeInv
    BY <2>1, <2>2 DEF TimeInv
  <2>4. HourTimeInv
    <3>1. PICK k \in Nat \ {0} : Hour = k * Minute
      BY HourIsMinutes
    <3>2. k + 1 \in Nat /\ nextMinute = (k + 1) * Minute
      BY ONLY <2>1, <3>1, Sizes
    <3>3. nextMinute <= nextHour + Minute
      BY ONLY <2>1, Sizes
    <3>4. 2 \in Nat \ {0, 1} /\ nextHour = 2 * Hour
      BY <2>1
    <3> QED
      BY <2>1, <2>2, <3>2, <3>3, <3>4 DEF HourTimeInv, InRound, InHours
  <2>5. HoursInv
    BY <2>1 DEF HoursInv, AggInv, HourPointsInv, HourInv, Counted, InRound
  <2> QED
    BY <2>3, <2>4, <2>5
<1>2. TypeInv /\ LruInv /\ Inv /\ [Next]_vars => Inv'
  BY NextTimes, NextHourTimes, NextHours DEF HoursInOrder
<1>3. TypeInv /\ Inv => HoursComplete
  <2> SUFFICES ASSUME TypeInv, Inv, NEW h \in Range(lru), NEW t \in RolledUp(h)
               PROVE  Cardinality({i \in DOMAIN hours[h] : t \in hours[h][i].samples})
                        + Cardinality({a \in {aggs[h]} \ {None} : t \in a.samples})
                        + Cardinality({p \in {loop.point} :
                            loop.pc = "hourappend" /\ loop.host = h /\ t \in p.samples}) = 1
    BY DEF HoursComplete
  <2> DEFINE finished == {i \in DOMAIN hours[h] : t \in hours[h][i].samples}
             current == {a \in {aggs[h]} \ {None} : t \in a.samples}
             inHand == {p \in {loop.point} : loop.pc = "hourappend" /\ loop.host = h /\ t \in p.samples}
  <2>1. h \in Hosts /\ t \in samples[h] /\ t \in Nat /\ nextMinute \in Nat /\ t < nextMinute - Minute
    BY DEF RolledUp, TypeInv, TypeOK, Times, Range
  <2>2. t + Minute < nextMinute
    BY ONLY <2>1, Sizes
  <2>3. InAgg(h, t) \/ InHand(h, t) \/ OnePoint(hours[h], t)
    BY <2>1, <2>2 DEF HoursInv, HourInv, Counted
  <2>4. InAgg(h, t) => nextHour <= t + Hour /\ ~(InHours /\ h \notin loop.todo)
    BY <2>1 DEF InAgg, HoursInv, AggInv
  <2>5. InHand(h, t) => nextHour <= t + Hour /\ InHours /\ h \notin loop.todo
    BY DEF InHand, InHours, HoursInv, HourPointsInv, TypeInv, LoopInv
  <2>6. finished # {} /\ nextHour <= t + Hour => InHours /\ h \notin loop.todo /\ h # loop.host
    BY <2>1 DEF HoursInv, HourPointsInv
  <2>7. current = IF InAgg(h, t) THEN {aggs[h]} ELSE {}
    BY DEF InAgg
  <2>8. inHand = IF InHand(h, t) THEN {loop.point} ELSE {}
    BY DEF InHand
  <2>9. OnePoint(hours[h], t) => finished # {} /\ \E k : finished = {k}
    BY DEF OnePoint
  <2>10. /\ Cardinality({}) = 0 /\ Cardinality({aggs[h]}) = 1 /\ Cardinality({loop.point}) = 1
         /\ \A k : Cardinality({k}) = 1
    BY FS_EmptySet, FS_Singleton
  <2> HIDE DEF finished, current, inHand
  <2> DEFINE Total == Cardinality(finished) + Cardinality(current) + Cardinality(inHand)
  <2>11. ASSUME InAgg(h, t) PROVE Total = 1
    <3>1. ~InHand(h, t) /\ finished = {}
      BY <2>4, <2>5, <2>6, <2>11
    <3>2. Cardinality(finished) = 0 /\ Cardinality(current) = 1 /\ Cardinality(inHand) = 0
      BY <2>7, <2>8, <2>10, <2>11, <3>1
    <3> QED
      BY <3>2
  <2>12. ASSUME InHand(h, t), ~InAgg(h, t) PROVE Total = 1
    <3>1. finished = {}
      BY <2>5, <2>6, <2>12 DEF InHand
    <3>2. Cardinality(finished) = 0 /\ Cardinality(current) = 0 /\ Cardinality(inHand) = 1
      BY <2>7, <2>8, <2>10, <2>12, <3>1
    <3> QED
      BY <3>2
  <2>13. ASSUME ~InHand(h, t), ~InAgg(h, t) PROVE Total = 1
    <3>1. Cardinality(finished) = 1 /\ Cardinality(current) = 0 /\ Cardinality(inHand) = 0
      BY <2>3, <2>7, <2>8, <2>9, <2>10, <2>13
    <3> QED
      BY <3>1
  <2>14. Total = 1
    BY <2>3, <2>11, <2>12, <2>13
  <2> QED
    BY <2>14 DEF finished, current, inHand
<1> HIDE DEF Inv
<1> QED
  BY <1>1, <1>2, <1>3, LruInvHolds, InitTypes, NextTypes, PTL DEF Spec

=============================================================================
