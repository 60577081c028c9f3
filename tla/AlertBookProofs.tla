-------------------------- MODULE AlertBookProofs --------------------------
(***************************************************************************)
(* The alert book, for every set of hosts and all limits.                  *)
(*   1. A host that has its share of the history makes room for its next   *)
(*      alert with its own oldest entry, and with nobody else's.           *)
(*   2. The history stays within its limits, so a restart, which applies   *)
(*      them again, gives back what is in the file.                        *)
(*   3. A version that counts as saved is on disk, whatever changes while  *)
(*      a save runs, and so is the last one when the process has stopped.  *)
(***************************************************************************)
EXTENDS AlertBook, WellFoundedInduction, FiniteSetTheorems, SequenceTheorems, TLAPS

\* A set of natural numbers has a least element, and Min is it.
LEMMA NatMinExists ==
  ASSUME NEW S \in SUBSET Nat, S # {}
  PROVE  Min(S) \in S /\ \A x \in S : Min(S) <= x
<1> DEFINE R == OpToRel(<, Nat)
<1>1. PICK m \in S : \A y \in S : ~(<<y, m>> \in R)
  BY WFMin, NatLessThanWellFounded
<1>2. \A y \in S : y < m => <<y, m>> \in R
  <2>1. SUFFICES ASSUME NEW y \in S, y < m PROVE <<y, m>> \in R
    OBVIOUS
  <2>2. <<y, m>> \in Nat \X Nat /\ <<y, m>>[1] < <<y, m>>[2]
    BY <2>1
  <2>3. QED BY <2>2 DEF OpToRel
<1> HIDE DEF R
<1>3. \A y \in S : m <= y
  <2>1. SUFFICES ASSUME NEW y \in S PROVE m <= y
    OBVIOUS
  <2>2. ~(y < m)
    BY <1>1, <1>2
  <2>3. QED BY <2>2
<1>4. QED BY <1>3 DEF Min

LEMMA OwnFinite ==
  ASSUME NEW hist \in Seq(Entries), NEW h
  PROVE  /\ Own(hist, h) \in SUBSET (1 .. Len(hist))
         /\ IsFiniteSet(Own(hist, h)) /\ Cardinality(Own(hist, h)) \in Nat
<1>1. Own(hist, h) \in SUBSET (1 .. Len(hist))
  BY DEF Own
<1>2. IsFiniteSet(1 .. Len(hist))
  BY FS_Interval
<1> QED
  BY <1>1, <1>2, FS_Subset, FS_CardinalityType

---------------------------------------------------------------------------
(* pushHistory                                                             *)

\* rest is hist without its entry at k.
Without(hist, k, rest) ==
  /\ rest \in Seq(Entries) /\ Len(rest) = Len(hist) - 1
  /\ \A i \in 1 .. k - 1 : rest[i] = hist[i]
  /\ \A i \in k .. Len(hist) - 1 : rest[i] = hist[i + 1]

LEMMA RemoveAtIsWithout ==
  ASSUME NEW hist \in Seq(Entries), NEW k \in 1 .. Len(hist)
  PROVE  Without(hist, k, RemoveAt(hist, k))
<1> DEFINE older == SubSeq(hist, 1, k - 1)
           newer == SubSeq(hist, k + 1, Len(hist))
<1>1. /\ older \in Seq(Entries) /\ Len(older) = k - 1
      /\ \A i \in 1 .. k - 1 : older[i] = hist[i]
  OBVIOUS
<1>2. /\ newer \in Seq(Entries) /\ Len(newer) = Len(hist) - k
      /\ \A i \in 1 .. Len(hist) - k : newer[i] = hist[k + i]
  OBVIOUS
<1>3. RemoveAt(hist, k) = older \o newer
  BY DEF RemoveAt
<1> HIDE DEF older, newer
<1>4. /\ older \o newer \in Seq(Entries) /\ Len(older \o newer) = Len(hist) - 1
      /\ \A i \in 1 .. k - 1 : (older \o newer)[i] = older[i]
      /\ \A i \in k .. Len(hist) - 1 : (older \o newer)[i] = newer[i - k + 1]
  <2>1. k \in 1 .. Len(hist) /\ Len(hist) \in Nat
    OBVIOUS
  <2>2. /\ older \o newer \in Seq(Entries)
        /\ Len(older \o newer) = Len(older) + Len(newer)
        /\ \A i \in 1 .. Len(older) + Len(newer) : (older \o newer)[i] =
             IF i <= Len(older) THEN older[i] ELSE newer[i - Len(older)]
    BY <1>1, <1>2, ConcatProperties
  <2>3. Len(older) + Len(newer) = Len(hist) - 1 /\ Len(older) = k - 1
    BY <1>1, <1>2, <2>1
  <2>4. ASSUME NEW i \in 1 .. k - 1 PROVE (older \o newer)[i] = older[i]
    <3>1. i \in 1 .. Len(hist) - 1 /\ i <= k - 1
      BY <2>1
    <3> QED
      BY <2>2, <2>3, <3>1
  <2>5. ASSUME NEW i \in k .. Len(hist) - 1 PROVE (older \o newer)[i] = newer[i - k + 1]
    <3>1. i \in 1 .. Len(hist) - 1 /\ ~(i <= k - 1) /\ i - (k - 1) = i - k + 1
      BY <2>1
    <3> QED
      BY <2>2, <2>3, <3>1
  <2> QED
    BY <2>2, <2>3, <2>4, <2>5
<1>5. ASSUME NEW i \in k .. Len(hist) - 1 PROVE newer[i - k + 1] = hist[i + 1]
  <2>1. i - k + 1 \in 1 .. Len(hist) - k /\ k + (i - k + 1) = i + 1
    OBVIOUS
  <2> QED
    BY <1>2, <2>1
<1> QED
  BY <1>1, <1>3, <1>4, <1>5 DEF Without

LEMMA TailIsWithout ==
  ASSUME NEW hist \in Seq(Entries), Len(hist) > 0
  PROVE  Without(hist, 1, Tail(hist))
BY DEF Without

\* No host gets more entries when one goes, and the host it belonged to has one less.
LEMMA WithoutCounts ==
  ASSUME NEW hist \in Seq(Entries), NEW k \in 1 .. Len(hist), NEW rest, Without(hist, k, rest),
         NEW h
  PROVE  /\ Cardinality(Own(rest, h)) <= Cardinality(Own(hist, h))
         /\ hist[k].host = h => Cardinality(Own(rest, h)) <= Cardinality(Own(hist, h)) - 1
<1> DEFINE old == Own(hist, h)
           new == Own(rest, h)
           f == [i \in new |-> IF i < k THEN i ELSE i + 1]
<1>1. rest \in Seq(Entries) /\ Len(rest) = Len(hist) - 1
  BY DEF Without
<1>2. new \in SUBSET (1 .. Len(rest)) /\ old \in SUBSET (1 .. Len(hist)) /\ IsFiniteSet(old)
      /\ Cardinality(old) \in Nat /\ Cardinality(new) \in Nat
  BY <1>1, OwnFinite
<1>3. ASSUME NEW i \in new PROVE f[i] \in old \ {k}
  <2>1. i \in 1 .. Len(rest) /\ rest[i].host = h
    BY <1>1, <1>3 DEF Own
  <2>2. CASE i < k
    <3>1. hist[i] = rest[i] /\ i \in 1 .. Len(hist)
      BY <1>1, <2>1, <2>2 DEF Without
    <3> QED
      BY <2>1, <2>2, <3>1 DEF Own
  <2>3. CASE ~(i < k)
    <3>1. hist[i + 1] = rest[i] /\ i + 1 \in 1 .. Len(hist) /\ i + 1 # k
      BY <1>1, <2>1, <2>3 DEF Without
    <3> QED
      BY <2>1, <2>3, <3>1 DEF Own
  <2> QED
    BY <2>2, <2>3
<1>4. \A i, j \in new : f[i] = f[j] => i = j
  BY <1>1, <1>2
<1>5. f \in Injection(new, old \ {k})
  <2>1. f \in [new -> old \ {k}]
    BY <1>3
  <2> HIDE DEF f
  <2> QED
    BY <1>4, <2>1 DEF Injection, IsInjective
<1>6. /\ IsFiniteSet(old \ {k})
      /\ Cardinality(old \ {k}) = IF k \in old THEN Cardinality(old) - 1 ELSE Cardinality(old)
  BY <1>2, FS_RemoveElement
<1>7. Cardinality(new) <= Cardinality(old \ {k})
  <2> HIDE DEF f
  <2> QED
    BY <1>5, <1>6, FS_Injection
<1>8. hist[k].host = h => k \in old
  BY DEF Own
<1> QED
  BY <1>2, <1>6, <1>7, <1>8

LEMMA AppendCounts ==
  ASSUME NEW hist \in Seq(Entries), NEW e \in Entries, NEW h
  PROVE  Cardinality(Own(Append(hist, e), h)) =
           Cardinality(Own(hist, h)) + (IF e.host = h THEN 1 ELSE 0)
<1> DEFINE n == Len(hist) + 1
<1>1. n \notin Own(hist, h) /\ IsFiniteSet(Own(hist, h)) /\ Cardinality(Own(hist, h)) \in Nat
  <2>1. Own(hist, h) \in SUBSET (1 .. Len(hist)) /\ Len(hist) \in Nat
    BY OwnFinite
  <2> QED
    BY <2>1, OwnFinite
<1>2. /\ DOMAIN Append(hist, e) = 1 .. n /\ Append(hist, e)[n] = e /\ Len(hist) \in Nat
      /\ \A i \in 1 .. Len(hist) : Append(hist, e)[i] = hist[i]
  OBVIOUS
<1>3. CASE e.host = h
  <2>1. Own(Append(hist, e), h) = Own(hist, h) \cup {n}
    <3> HIDE DEF n
    <3>1. 1 .. n = (1 .. Len(hist)) \cup {n}
      BY <1>2 DEF n
    <3> QED
      BY <1>2, <1>3, <3>1 DEF Own
  <2> QED
    BY <1>1, <1>3, <2>1, FS_AddElement
<1>4. CASE e.host # h
  <2>1. Own(Append(hist, e), h) = Own(hist, h)
    <3> HIDE DEF n
    <3>1. 1 .. n = (1 .. Len(hist)) \cup {n}
      BY <1>2 DEF n
    <3> QED
      BY <1>2, <1>4, <3>1 DEF Own
  <2> QED
    BY <1>1, <1>4, <2>1
<1> QED
  BY <1>3, <1>4

\* What is left of a history in its limits before the new entry is appended: room for
\* one entry, and for one of its host.
LEMMA PushMakesRoom ==
  ASSUME NEW hist \in Seq(Entries), NEW e \in Entries, InLimits(hist)
  PROVE  \E room \in Seq(Entries) :
           /\ Push(hist, e) = Append(room, e)
           /\ InLimits(room) /\ Len(room) < MaxHistory
           /\ Cardinality(Own(room, e.host)) < MaxPerHost
<1> DEFINE own == Own(hist, e.host)
           k == Min(own)
           rest == IF Cardinality(own) >= MaxPerHost THEN RemoveAt(hist, k) ELSE hist
           room == IF Len(rest) >= MaxHistory THEN Tail(rest) ELSE rest
           Fits(r) == r \in Seq(Entries) /\ InLimits(r) /\ Cardinality(Own(r, e.host)) < MaxPerHost
<1>1. MaxHistory \in Nat \ {0} /\ MaxPerHost \in Nat \ {0} /\ e.host \in Hosts
  BY AlertBookAssumption DEF Entries
<1>2. own \in SUBSET (1 .. Len(hist)) /\ Cardinality(own) \in Nat /\ Cardinality(own) <= MaxPerHost
  BY <1>1, OwnFinite DEF InLimits
<1>3. Fits(rest)
  <2>1. CASE Cardinality(own) >= MaxPerHost
    <3>1. own # {}
      <4>1. own = {} => Cardinality(own) = 0
        BY FS_EmptySet
      <4> HIDE DEF own
      <4> QED
        BY <1>1, <2>1, <4>1
    <3>2. k \in 1 .. Len(hist) /\ hist[k].host = e.host
      <4>1. k \in own
        BY <1>2, <3>1, NatMinExists
      <4> QED
        BY <1>2, <4>1 DEF Own
    <3> HIDE DEF k
    <3>3. Without(hist, k, RemoveAt(hist, k))
      BY <3>2, RemoveAtIsWithout
    <3>4. RemoveAt(hist, k) \in Seq(Entries) /\ Len(RemoveAt(hist, k)) = Len(hist) - 1
      BY <3>3 DEF Without
    <3>5. \A h : /\ Cardinality(Own(RemoveAt(hist, k), h)) <= Cardinality(Own(hist, h))
                 /\ Cardinality(Own(RemoveAt(hist, k), h)) \in Nat
                 /\ Cardinality(Own(hist, h)) \in Nat
      BY <3>2, <3>3, <3>4, WithoutCounts, OwnFinite
    <3>6. Cardinality(Own(RemoveAt(hist, k), e.host)) < MaxPerHost
      <4>1. Cardinality(Own(RemoveAt(hist, k), e.host)) <= Cardinality(own) - 1
        BY <3>2, <3>3, WithoutCounts
      <4> QED
        BY <1>1, <1>2, <3>5, <4>1
    <3>7. InLimits(RemoveAt(hist, k))
      BY <1>1, <3>4, <3>5 DEF InLimits
    <3>8. rest = RemoveAt(hist, k)
      BY <2>1
    <3> QED
      BY <3>4, <3>6, <3>7, <3>8
  <2>2. CASE Cardinality(own) < MaxPerHost
    BY <1>1, <1>2, <2>2
  <2> QED
    BY <1>1, <1>2, <2>1, <2>2
<1>4. Push(hist, e) = Append(room, e)
  BY DEF Push
<1> HIDE DEF rest
<1>5. Fits(room) /\ Len(room) < MaxHistory
  <2>1. CASE Len(rest) >= MaxHistory
    <3>1. Without(rest, 1, Tail(rest)) /\ 1 \in 1 .. Len(rest)
      BY <1>1, <1>3, <2>1, TailIsWithout
    <3>2. Tail(rest) \in Seq(Entries) /\ Len(Tail(rest)) = Len(rest) - 1
      BY <3>1 DEF Without
    <3>3. \A h : /\ Cardinality(Own(Tail(rest), h)) <= Cardinality(Own(rest, h))
                 /\ Cardinality(Own(Tail(rest), h)) \in Nat
                 /\ Cardinality(Own(rest, h)) \in Nat
      BY <1>3, <3>1, <3>2, WithoutCounts, OwnFinite
    <3>4. InLimits(Tail(rest)) /\ Len(Tail(rest)) < MaxHistory
      BY <1>1, <1>3, <3>2, <3>3 DEF InLimits
    <3>5. Cardinality(Own(Tail(rest), e.host)) < MaxPerHost
      BY <1>1, <1>3, <3>3
    <3>6. room = Tail(rest)
      BY <2>1
    <3> HIDE DEF room
    <3> QED
      BY <3>2, <3>4, <3>5, <3>6
  <2>2. CASE ~(Len(rest) >= MaxHistory)
    BY <1>1, <1>3, <2>2
  <2> QED
    BY <2>1, <2>2
<1> HIDE DEF room
<1> QED
  BY <1>4, <1>5

LEMMA PushKeepsLimits ==
  ASSUME NEW hist \in Seq(Entries), NEW e \in Entries, InLimits(hist)
  PROVE  Push(hist, e) \in Seq(Entries) /\ InLimits(Push(hist, e))
<1>1. PICK room \in Seq(Entries) :
        /\ Push(hist, e) = Append(room, e)
        /\ InLimits(room) /\ Len(room) < MaxHistory
        /\ Cardinality(Own(room, e.host)) < MaxPerHost
  BY PushMakesRoom
<1>2. Append(room, e) \in Seq(Entries) /\ Len(Append(room, e)) = Len(room) + 1
  OBVIOUS
<1>3. ASSUME NEW h \in Hosts PROVE Cardinality(Own(Append(room, e), h)) <= MaxPerHost
  <2>1. Cardinality(Own(Append(room, e), h)) =
          Cardinality(Own(room, h)) + (IF e.host = h THEN 1 ELSE 0)
    BY AppendCounts
  <2>2. Cardinality(Own(room, h)) \in Nat /\ Cardinality(Own(room, h)) <= MaxPerHost
        /\ MaxPerHost \in Nat
    BY <1>1, OwnFinite, AlertBookAssumption DEF InLimits
  <2>3. e.host = h => Cardinality(Own(room, h)) < MaxPerHost
    BY <1>1
  <2> QED
    BY <2>1, <2>2, <2>3
<1>4. Len(room) + 1 <= MaxHistory
  BY <1>1, AlertBookAssumption
<1> QED
  BY <1>1, <1>2, <1>3, <1>4 DEF InLimits

\* With room for it, a new entry takes nothing away.
LEMMA PushWithRoom ==
  ASSUME NEW hist \in Seq(Entries), NEW e, Len(hist) < MaxHistory,
         Cardinality(Own(hist, e.host)) < MaxPerHost
  PROVE  Push(hist, e) = Append(hist, e)
<1>1. Len(hist) \in Nat /\ MaxHistory \in Nat /\ MaxPerHost \in Nat
      /\ Cardinality(Own(hist, e.host)) \in Nat
  BY OwnFinite, AlertBookAssumption
<1>2. ~(Len(hist) >= MaxHistory) /\ ~(Cardinality(Own(hist, e.host)) >= MaxPerHost)
  BY <1>1
<1> QED
  BY <1>2 DEF Push

\* pushHistory, for a host with its share of entries: the entry that leaves is
\* the host's oldest one, the others stay in their order, and the new one is last.
THEOREM NoisyHostPaysItself ==
  ASSUME NEW hist \in Seq(Entries), NEW e \in Entries,
         Len(hist) <= MaxHistory, Cardinality(Own(hist, e.host)) >= MaxPerHost
  PROVE  \E k \in Own(hist, e.host) :
           /\ \A i \in Own(hist, e.host) : k <= i
           /\ Len(Push(hist, e)) = Len(hist)
           /\ \A i \in 1 .. k - 1 : Push(hist, e)[i] = hist[i]
           /\ \A i \in k .. Len(hist) - 1 : Push(hist, e)[i] = hist[i + 1]
           /\ Push(hist, e)[Len(hist)] = e
<1> DEFINE own == Own(hist, e.host)
           k == Min(own)
           rest == RemoveAt(hist, k)
<1>1. own # {}
  <2>1. own = {} => Cardinality(own) = 0
    BY FS_EmptySet
  <2>2. MaxPerHost \in Nat \ {0} /\ Cardinality(own) >= MaxPerHost
    BY AlertBookAssumption
  <2> HIDE DEF own
  <2> QED
    BY <2>1, <2>2
<1>2. own \in SUBSET (1 .. Len(hist))
  BY DEF Own
<1>3. k \in own /\ \A i \in own : k <= i
  BY <1>1, <1>2, NatMinExists
<1>4. k \in 1 .. Len(hist)
  BY <1>2, <1>3
<1>5. Push(hist, e) = Append(IF Len(rest) >= MaxHistory THEN Tail(rest) ELSE rest, e)
  BY DEF Push
<1> HIDE DEF k, own
<1>6. Without(hist, k, rest)
  BY <1>4, RemoveAtIsWithout
<1> HIDE DEF rest
<1>7. Push(hist, e) = Append(rest, e)
  BY <1>5, <1>6, AlertBookAssumption DEF Without
<1> QED
  BY <1>3, <1>4, <1>6, <1>7 DEF own, Without

---------------------------------------------------------------------------
(* ImportState and ResolveIf push one entry after the other                *)

Pushes(hist, entries, n, f) ==
  f = [i \in 0 .. n |-> IF i = 0 THEN hist ELSE Push(f[i - 1], entries[i])]

\* The pushes can be made: there is no least number for which they cannot.
LEMMA PushesExist ==
  ASSUME NEW hist, NEW entries, NEW n \in Nat
  PROVE  \E f : Pushes(hist, entries, n, f)
<1> DEFINE Bad == {m \in Nat : ~\E f : Pushes(hist, entries, m, f)}
           m == Min(Bad)
<1> SUFFICES ASSUME Bad # {} PROVE FALSE
  OBVIOUS
<1>1. m \in Bad /\ \A x \in Bad : m <= x
  BY NatMinExists
<1> HIDE DEF m
<1>2. CASE m = 0
  <2> DEFINE f == [i \in 0 .. 0 |-> hist]
  <2>1. f = [i \in 0 .. 0 |-> IF i = 0 THEN hist ELSE Push(f[i - 1], entries[i])]
    OBVIOUS
  <2> HIDE DEF f
  <2>2. Pushes(hist, entries, 0, f)
    BY <2>1 DEF Pushes
  <2> QED
    BY <1>1, <1>2, <2>2
<1>3. CASE m # 0
  <2>1. m - 1 \in Nat /\ m - 1 \notin Bad
    BY <1>1, <1>3
  <2>2. PICK f : Pushes(hist, entries, m - 1, f)
    BY <2>1
  <2> DEFINE g == [i \in 0 .. m |-> IF i = m THEN Push(f[m - 1], entries[m]) ELSE f[i]]
  <2>3. ASSUME NEW i \in 0 .. m
        PROVE  g[i] = IF i = 0 THEN hist ELSE Push(g[i - 1], entries[i])
    <3>1. CASE i = m
      <4>1. g[m - 1] = f[m - 1]
        BY <1>1, <1>3
      <4>2. g[m] = Push(f[m - 1], entries[m])
        BY <1>1
      <4> HIDE DEF g
      <4> QED
        BY <1>3, <3>1, <4>1, <4>2
    <3>2. CASE i # m
      <4>1. i \in 0 .. m - 1 /\ g[i] = f[i]
        BY <1>1, <3>2
      <4>2. f[i] = IF i = 0 THEN hist ELSE Push(f[i - 1], entries[i])
        <5>1. f = [j \in 0 .. m - 1 |-> IF j = 0 THEN hist ELSE Push(f[j - 1], entries[j])]
          BY <2>2 DEF Pushes
        <5> QED
          BY <4>1, <5>1
      <4>3. i # 0 => g[i - 1] = f[i - 1]
        BY <1>1, <4>1
      <4> HIDE DEF g
      <4> QED
        BY <4>1, <4>2, <4>3
    <3> QED
      BY <3>1, <3>2
  <2>4. g = [i \in 0 .. m |-> g[i]]
    OBVIOUS
  <2> HIDE DEF g
  <2>5. Pushes(hist, entries, m, g)
    BY <2>3, <2>4 DEF Pushes
  <2> QED
    BY <1>1, <2>5
<1> QED
  BY <1>2, <1>3

LEMMA PushAllPushes ==
  ASSUME NEW hist, NEW entries \in Seq(Entries)
  PROVE  \E f : /\ f[0] = hist /\ PushAll(hist, entries) = f[Len(entries)]
                /\ \A i \in 1 .. Len(entries) : f[i] = Push(f[i - 1], entries[i])
<1> DEFINE n == Len(entries)
           F == CHOOSE f : f = [i \in 0 .. n |-> IF i = 0 THEN hist ELSE Push(f[i - 1], entries[i])]
<1>1. n \in Nat
  OBVIOUS
<1>2. \E f : f = [i \in 0 .. n |-> IF i = 0 THEN hist ELSE Push(f[i - 1], entries[i])]
  <2> HIDE DEF n
  <2>1. \E f : Pushes(hist, entries, n, f)
    BY <1>1, PushesExist
  <2> QED
    BY <2>1 DEF Pushes
<1>3. F = [i \in 0 .. n |-> IF i = 0 THEN hist ELSE Push(F[i - 1], entries[i])]
  <2> HIDE DEF n
  <2> QED
    BY <1>2
<1>4. PushAll(hist, entries) = F[n]
  BY DEF PushAll
<1> HIDE DEF F, n
<1>5. F[0] = hist /\ \A i \in 1 .. n : F[i] = Push(F[i - 1], entries[i])
  <2>1. \A i \in 0 .. n : F[i] = IF i = 0 THEN hist ELSE Push(F[i - 1], entries[i])
    BY <1>3
  <2>2. 0 \in 0 .. n /\ \A i \in 1 .. n : i \in 0 .. n /\ i # 0
    BY <1>1
  <2> QED
    BY <2>1, <2>2
<1> QED
  BY <1>4, <1>5 DEF n

\* The history stays within its limits.
LEMMA PushAllKeepsLimits ==
  ASSUME NEW hist \in Seq(Entries), InLimits(hist), NEW entries \in Seq(Entries)
  PROVE  PushAll(hist, entries) \in Seq(Entries) /\ InLimits(PushAll(hist, entries))
<1>1. PICK f : /\ f[0] = hist /\ PushAll(hist, entries) = f[Len(entries)]
               /\ \A i \in 1 .. Len(entries) : f[i] = Push(f[i - 1], entries[i])
  BY PushAllPushes
<1> DEFINE Good(i) == f[i] \in Seq(Entries) /\ InLimits(f[i])
           Bad == {i \in 0 .. Len(entries) : ~Good(i)}
           m == Min(Bad)
<1>2. Len(entries) \in Nat /\ \A i \in 1 .. Len(entries) : entries[i] \in Entries
  OBVIOUS
<1>3. ASSUME Bad # {} PROVE FALSE
  <2>1. m \in Bad /\ \A x \in Bad : m <= x
    <3>1. Bad \in SUBSET Nat
      OBVIOUS
    <3> HIDE DEF Bad
    <3> QED
      BY <1>3, <3>1, NatMinExists
  <2> HIDE DEF m
  <2>2. m \in 1 .. Len(entries)
    <3>1. Good(0)
      BY <1>1
    <3>2. m # 0 /\ m \in 0 .. Len(entries)
      BY <2>1, <3>1
    <3> QED
      BY <1>2, <3>2
  <2>3. Good(m - 1)
    <3>1. m - 1 \in 0 .. Len(entries) /\ ~(m <= m - 1)
      BY <1>2, <2>2
    <3> QED
      BY <2>1, <3>1
  <2>4. Good(m)
    BY <1>1, <1>2, <2>2, <2>3, PushKeepsLimits
  <2> QED
    BY <2>1, <2>4
<1> QED
  BY <1>1, <1>2, <1>3

\* ImportState: the limits, applied again to a history within them, take nothing away.
LEMMA ImportGivesBack ==
  ASSUME NEW hist \in Seq(Entries), InLimits(hist)
  PROVE  PushAll(<<>>, hist) = hist
<1>1. PICK f : /\ f[0] = <<>> /\ PushAll(<<>>, hist) = f[Len(hist)]
               /\ \A i \in 1 .. Len(hist) : f[i] = Push(f[i - 1], hist[i])
  BY PushAllPushes
<1> DEFINE Good(i) == f[i] = SubSeq(hist, 1, i)
           Bad == {i \in 0 .. Len(hist) : ~Good(i)}
           m == Min(Bad)
<1>2. Len(hist) \in Nat /\ \A i \in 1 .. Len(hist) : hist[i] \in Entries
  OBVIOUS
<1>3. ASSUME Bad # {} PROVE FALSE
  <2>1. m \in Bad /\ \A x \in Bad : m <= x
    <3>1. Bad \in SUBSET Nat
      OBVIOUS
    <3> HIDE DEF Bad
    <3> QED
      BY <1>3, <3>1, NatMinExists
  <2> HIDE DEF m
  <2>2. m \in 1 .. Len(hist)
    <3>1. Good(0)
      BY <1>1, SubSeqEmpty
    <3>2. m # 0 /\ m \in 0 .. Len(hist)
      BY <2>1, <3>1
    <3> QED
      BY <1>2, <3>2
  <2>3. Good(m - 1)
    <3>1. m - 1 \in 0 .. Len(hist) /\ ~(m <= m - 1)
      BY <1>2, <2>2
    <3> QED
      BY <2>1, <3>1
  <2> DEFINE before == SubSeq(hist, 1, m - 1)
  <2>4. /\ before \in Seq(Entries) /\ Len(before) = m - 1
        /\ \A i \in 1 .. m - 1 : before[i] = hist[i]
    BY <1>2, <2>2
  <2> HIDE DEF before
  <2>5. Len(before) < MaxHistory
    BY <1>2, <2>2, <2>4, AlertBookAssumption DEF InLimits
  <2>6. Cardinality(Own(before, hist[m].host)) < MaxPerHost
    <3> DEFINE h == hist[m].host
    <3>1. h \in Hosts
      BY <1>2, <2>2 DEF Entries
    <3>2. Own(before, h) \subseteq Own(hist, h) \ {m} /\ m \in Own(hist, h)
      BY <1>2, <2>2, <2>4 DEF Own
    <3>3. IsFiniteSet(Own(hist, h)) /\ Cardinality(Own(hist, h)) \in Nat
          /\ Cardinality(Own(hist, h)) <= MaxPerHost /\ Cardinality(Own(before, h)) \in Nat
      BY <2>4, <3>1, OwnFinite DEF InLimits
    <3> HIDE DEF h
    <3>4. /\ IsFiniteSet(Own(hist, h) \ {m})
          /\ Cardinality(Own(hist, h) \ {m}) = Cardinality(Own(hist, h)) - 1
      BY <3>2, <3>3, FS_RemoveElement
    <3>5. Cardinality(Own(before, h)) <= Cardinality(Own(hist, h) \ {m})
      BY <3>2, <3>4, FS_Subset
    <3>6. Cardinality(Own(before, h)) < MaxPerHost
      BY <3>3, <3>4, <3>5, AlertBookAssumption
    <3> QED
      BY <3>6 DEF h
  <2>7. f[m] = Append(before, hist[m])
    <3>1. f[m] = Push(before, hist[m])
      BY <1>1, <2>2, <2>3 DEF before
    <3> QED
      BY <2>4, <2>5, <2>6, <3>1, PushWithRoom
  <2>8. Append(before, hist[m]) = SubSeq(hist, 1, m)
    BY <1>2, <2>2, <2>4
  <2> QED
    BY <2>1, <2>7, <2>8
<1>4. SubSeq(hist, 1, Len(hist)) = hist
  BY SubSeqFull
<1>5. Len(hist) \in 0 .. Len(hist) /\ Len(hist) \notin Bad
  BY <1>2, <1>3
<1>6. Good(Len(hist))
  BY <1>5
<1> QED
  BY <1>1, <1>4, <1>6

LEMMA PushAllOfOne ==
  ASSUME NEW hist, NEW entries \in Seq(Entries), Len(entries) = 1
  PROVE  PushAll(hist, entries) = Push(hist, entries[1])
<1>1. PICK f : /\ f[0] = hist /\ PushAll(hist, entries) = f[Len(entries)]
               /\ \A i \in 1 .. Len(entries) : f[i] = Push(f[i - 1], entries[i])
  BY PushAllPushes
<1>2. f[1] = Push(f[1 - 1], entries[1])
  BY <1>1
<1> QED
  BY <1>1, <1>2

---------------------------------------------------------------------------
(* The state file and the saver                                            *)

\* What is in memory, on disk and on its way there is a state within the limits.
StatesInv ==
  /\ IsState(State)
  /\ file = NoFile \/ IsState(file)
  /\ saver.pc = "write" => IsState(saver.state)
  /\ changes \in 0 .. MaxChanges
  /\ failures \in Nat

LEMMA EmptyInLimits == <<>> \in Seq(Entries) /\ InLimits(<<>>)
<1>1. \A h : Own(<<>>, h) = {}
  BY DEF Own
<1>2. Cardinality({}) = 0 /\ MaxPerHost \in Nat /\ MaxHistory \in Nat
  BY FS_EmptySet, AlertBookAssumption
<1> QED
  BY <1>1, <1>2 DEF InLimits

LEMMA StateIsState ==
  ASSUME NEW a \in [Hosts -> Alerts \cup {NoAlert}], NEW hist \in Seq(Entries), InLimits(hist)
  PROVE  IsState([active |-> a, history |-> hist])
BY DEF IsState

LEMMA NoAlertsType == NoAlerts \in [Hosts -> Alerts \cup {NoAlert}]
BY DEF NoAlerts

LEMMA InitStates == Init => StatesInv
<1> SUFFICES ASSUME Init PROVE StatesInv
  OBVIOUS
<1>1. ASSUME NEW hosts \in OldHistories PROVE IsState(OldFile(hosts))
  <2> DEFINE hist == [i \in DOMAIN hosts |-> [host |-> hosts[i], n |-> i]]
  <2>1. /\ hosts \in Seq(Hosts) /\ Len(hosts) <= MaxHistory
        /\ \A h \in Hosts : Cardinality({i \in DOMAIN hosts : hosts[i] = h}) <= MaxPerHost
    BY AlertBookAssumption
  <2>2. hist \in Seq(Entries) /\ Len(hist) = Len(hosts)
    <3>1. DOMAIN hosts = 1 .. Len(hosts) /\ Len(hosts) \in Nat
      BY <2>1
    <3>2. \A i \in 1 .. Len(hosts) : [host |-> hosts[i], n |-> i] \in Entries
      BY <2>1, <3>1, AlertBookAssumption DEF Entries, Numbers
    <3>3. hist \in [1 .. Len(hosts) -> Entries]
      BY <3>1, <3>2
    <3> HIDE DEF hist
    <3> QED
      BY <3>1, <3>3
  <2>3. \A h \in Hosts : Own(hist, h) = {i \in DOMAIN hosts : hosts[i] = h}
    BY DEF Own
  <2>4. InLimits(hist)
    <3> HIDE DEF hist
    <3> QED
      BY <2>1, <2>2, <2>3 DEF InLimits
  <2> HIDE DEF hist
  <2>5. IsState([active |-> NoAlerts, history |-> hist])
    BY <2>2, <2>4, NoAlertsType, StateIsState
  <2> QED
    BY <2>5 DEF OldFile, hist
<1>2. file = NoFile \/ IsState(file)
  BY <1>1 DEF Init
<1>3. IsState(State)
  <2>1. CASE file = NoFile
    BY <2>1, EmptyInLimits, NoAlertsType, StateIsState DEF Init, State
  <2>2. CASE file # NoFile
    <3>1. history = file.history /\ active = NoAlerts
      BY <2>2 DEF Init
    <3> QED
      BY <1>2, <2>2, <3>1, NoAlertsType, StateIsState DEF State, IsState
  <2> QED
    BY <2>1, <2>2
<1>4. saver.pc = "idle" /\ changes \in 0 .. MaxChanges /\ failures \in Nat
  BY AlertBookAssumption DEF Init, Idle
<1> QED
  BY <1>2, <1>3, <1>4 DEF StatesInv

\* The alerts that Resolve moves, in the order it takes, are entries.
LEMMA ResolvedEntries ==
  ASSUME StatesInv, NEW hs \in SUBSET Hosts, hs \subseteq Raised, NEW order \in SetToSeqs(hs)
  PROVE  LET entries == [i \in DOMAIN order |-> [host |-> order[i], n |-> active[order[i]].n]]
         IN  entries \in Seq(Entries) /\ Len(entries) = Cardinality(hs)
<1> DEFINE entries == [i \in DOMAIN order |-> [host |-> order[i], n |-> active[order[i]].n]]
           len == Cardinality(hs)
<1>1. len \in Nat
  BY AlertBookAssumption, FS_Subset, FS_CardinalityType
<1>2. order \in [1 .. len -> hs]
  BY DEF SetToSeqs
<1>3. ASSUME NEW h \in hs PROVE [host |-> h, n |-> active[h].n] \in Entries
  <2>1. active \in [Hosts -> Alerts \cup {NoAlert}] /\ h \in Hosts /\ active[h] # NoAlert
    BY DEF StatesInv, IsState, State, Raised
  <2>2. active[h] \in Alerts
    BY <2>1
  <2> QED
    BY <2>1, <2>2 DEF Alerts, Entries
<1> HIDE DEF len
<1>4. entries \in [1 .. len -> Entries]
  BY <1>2, <1>3
<1> HIDE DEF entries
<1>5. entries \in Seq(Entries) /\ Len(entries) = len
  BY <1>1, <1>4
<1> QED
  BY <1>5 DEF entries, len

LEMMA ManagerStates ==
  ASSUME StatesInv, Manager
  PROVE  StatesInv' /\ active' \in [Hosts -> Alerts \cup {NoAlert}]
<1> DEFINE Mem == active' \in [Hosts -> Alerts \cup {NoAlert}] /\ history' \in Seq(Entries)
                  /\ InLimits(history')
<1>1. /\ active \in [Hosts -> Alerts \cup {NoAlert}] /\ history \in Seq(Entries)
      /\ InLimits(history) /\ changes \in 0 .. MaxChanges
  BY DEF StatesInv, IsState, State
<1>2. Change
  BY DEF Manager, Trigger, Metadata, Acknowledge, AcknowledgeAll, Resolve
<1>3. MaxHistory + changes + 1 \in Numbers
  BY <1>1, <1>2, AlertBookAssumption DEF Change, Numbers
<1>4. ASSUME NEW h \in Hosts, NEW text \in BOOLEAN, Trigger(h, text) PROVE Mem
  BY <1>1, <1>3, <1>4 DEF Trigger, Alerts
<1>5. ASSUME NEW h \in Hosts, NEW text \in BOOLEAN, Metadata(h, text) PROVE Mem
  BY <1>1, <1>5 DEF Metadata, Alerts
<1>6. ASSUME NEW h \in Hosts, Acknowledge(h) PROVE Mem
  BY <1>1, <1>6 DEF Acknowledge, Alerts
<1>7. ASSUME AcknowledgeAll PROVE Mem
  BY <1>1, <1>7 DEF AcknowledgeAll, Raised, Alerts
<1>8. ASSUME NEW hs \in SUBSET Hosts, Resolve(hs) PROVE Mem
  <2>1. PICK order \in SetToSeqs(hs) :
          LET entries == [i \in DOMAIN order |-> [host |-> order[i], n |-> active[order[i]].n]]
          IN  history' = PushAll(history, entries)
    BY <1>8 DEF Resolve
  <2>2. hs \subseteq Raised
    BY <1>8 DEF Resolve
  <2>3. history' \in Seq(Entries) /\ InLimits(history')
    BY <1>1, <2>1, <2>2, ResolvedEntries, PushAllKeepsLimits
  <2>4. active' \in [Hosts -> Alerts \cup {NoAlert}]
    BY <1>1, <1>8 DEF Resolve
  <2> QED
    BY <2>3, <2>4
<1>9. Mem
  <2> HIDE DEF Mem
  <2> QED
    BY <1>4, <1>5, <1>6, <1>7, <1>8 DEF Manager
<1>10. IsState(State')
  BY <1>9, StateIsState DEF State
<1>11. UNCHANGED <<file, saver, failures>> /\ changes' \in 0 .. MaxChanges
  BY <1>1, <1>2, AlertBookAssumption DEF Change
<1> QED
  BY <1>9, <1>10, <1>11 DEF StatesInv

\* A start leaves what the file says, or nothing at all; only the first is a restart that
\* could read it.
LEMMA BootStates ==
  ASSUME StatesInv, Boot
  PROVE  StatesInv' /\ Restores /\ OnDisk'
<1>1. changes' = changes /\ file' = file /\ saver'.pc = "idle" /\ failures' \in Nat
  BY DEF Boot, StatesInv, Idle
<1>2. CASE NewManager /\ (file = NoFile \/ failures' = failures + 1)
  <2>1. State' = [active |-> NoAlerts, history |-> <<>>] /\ version' = 0
    BY <1>2 DEF NewManager, State
  <2>2. IsState(State')
    BY <2>1, EmptyInLimits, NoAlertsType, StateIsState
  <2>3. file = NoFile \/ failures' # failures
    BY <1>2 DEF StatesInv
  <2>4. Restores
    BY <2>3 DEF Restores
  <2> QED
    BY <1>1, <2>1, <2>2, <2>4 DEF StatesInv, OnDisk, NoAlerts
<1>3. CASE /\ file # NoFile
           /\ active' = file.active /\ history' = Import(file) /\ version' = 1
  <2>1. /\ file \in [active : [Hosts -> Alerts \cup {NoAlert}], history : Seq(Entries)]
        /\ InLimits(file.history) /\ IsState(file)
    BY <1>3 DEF StatesInv, IsState
  <2>2. active' = file.active /\ history' = PushAll(<<>>, file.history)
    BY <1>3 DEF Import
  <2>3. history' = file.history
    BY <2>1, <2>2, ImportGivesBack
  <2>4. State' = file
    BY <2>1, <2>2, <2>3 DEF State
  <2> QED
    BY <1>1, <2>1, <2>4 DEF StatesInv, Restores, OnDisk
<1> QED
  BY <1>2, <1>3 DEF Boot

LEMMA NextStates == StatesInv /\ [Next]_vars => StatesInv' /\ [Restores]_vars
<1> SUFFICES ASSUME StatesInv, [Next]_vars PROVE StatesInv' /\ [Restores]_vars
  OBVIOUS
<1>1. CASE Manager
  <2>1. phase' \in Up => phase \in Up
    BY <1>1 DEF Manager, Trigger, Metadata, Acknowledge, AcknowledgeAll, Resolve, Change
  <2> QED
    BY <1>1, <2>1, ManagerStates DEF Restores, Up
<1>2. CASE Save
  BY <1>2 DEF Save, SaveStart, SaveExport, SaveWrite, SaveDone, StatesInv, State, Restores, Idle,
              book, Up
<1>3. CASE CloseStop \/ LoopsEnd \/ EngineStopped
  BY <1>3 DEF CloseStop, LoopsEnd, EngineStopped, Quiet, StatesInv, State, Restores, book, Up
<1>4. CASE Crash
  <2>1. IsState(State')
    BY <1>4, EmptyInLimits, NoAlertsType, StateIsState DEF Crash, State
  <2> QED
    BY <1>4, <2>1 DEF Crash, StatesInv, Restores, Idle
<1>5. CASE Boot
  BY <1>5, BootStates
<1>6. CASE UNCHANGED vars
  BY <1>6 DEF vars, book, StatesInv, State
<1> QED
  BY <1>1, <1>2, <1>3, <1>4, <1>5, <1>6 DEF Next

\* Memory, file and the state a saver carries are always within the limits of
\* pushHistory, for all limits and whatever is killed or fails in between.
THEOREM StatesStayInLimits == Spec => []StatesInv
BY InitStates, NextStates, PTL DEF Spec

---------------------------------------------------------------------------
(* What a resolved alert pushes out                                        *)

LEMMA OthersStay ==
  ASSUME NEW hist \in Seq(Entries), NEW new \in Seq(Entries), NEW h, NEW k \in Own(hist, h),
         Len(new) = Len(hist),
         \A i \in 1 .. k - 1 : new[i] = hist[i],
         \A i \in k .. Len(hist) - 1 : new[i] = hist[i + 1],
         new[Len(hist)].host = h
  PROVE  Others(new, h) = Others(hist, h)
<1>1. k \in 1 .. Len(hist) /\ hist[k].host = h /\ Len(hist) \in Nat
  BY DEF Own
<1>2. DOMAIN hist = 1 .. Len(hist) /\ DOMAIN new = 1 .. Len(hist)
  OBVIOUS
<1> DEFINE In(seq) == DOMAIN seq \ Own(seq, h)
           up == [i \in 1 .. Len(hist) |-> IF i < k THEN i ELSE i + 1]
           down == [i \in 1 .. Len(hist) |-> IF i < k THEN i ELSE i - 1]
<1>3. ASSUME NEW i \in In(new) PROVE up[i] \in In(hist) /\ hist[up[i]] = new[i]
  <2>1. i \in 1 .. Len(hist) /\ new[i].host # h /\ i # Len(hist)
    BY <1>2 DEF Own
  <2>2. up[i] \in 1 .. Len(hist) /\ hist[up[i]] = new[i]
    BY <1>1, <2>1
  <2> QED
    BY <1>2, <2>1, <2>2 DEF Own
<1>4. ASSUME NEW i \in In(hist) PROVE down[i] \in In(new) /\ new[down[i]] = hist[i]
  <2>1. i \in 1 .. Len(hist) /\ hist[i].host # h /\ i # k
    BY <1>1, <1>2 DEF Own
  <2>2. down[i] \in 1 .. Len(hist) /\ new[down[i]] = hist[i]
    BY <1>1, <2>1
  <2> QED
    BY <1>2, <2>1, <2>2 DEF Own
<1>5. \A i, j \in 1 .. Len(hist) : i <= j => up[i] <= up[j] /\ down[i] <= down[j]
  BY <1>1
<1>6. In(new) \subseteq 1 .. Len(hist) /\ In(hist) \subseteq 1 .. Len(hist)
  BY <1>2
<1> HIDE DEF up, down
<1>7. ASSUME NEW x \in Others(new, h) PROVE x \in Others(hist, h)
  <2>1. PICK p \in In(new) \X In(new) : p[1] <= p[2] /\ x = <<new[p[1]], new[p[2]]>>
    BY <1>7 DEF Others
  <2>2. p[1] \in In(new) /\ p[2] \in In(new)
    BY <2>1
  <2> DEFINE q == <<up[p[1]], up[p[2]]>>
  <2>3. q \in In(hist) \X In(hist) /\ q[1] <= q[2] /\ x = <<hist[q[1]], hist[q[2]]>>
    BY <1>3, <1>5, <1>6, <2>1, <2>2
  <2> QED
    BY <2>3 DEF Others
<1>8. ASSUME NEW x \in Others(hist, h) PROVE x \in Others(new, h)
  <2>1. PICK p \in In(hist) \X In(hist) : p[1] <= p[2] /\ x = <<hist[p[1]], hist[p[2]]>>
    BY <1>8 DEF Others
  <2>2. p[1] \in In(hist) /\ p[2] \in In(hist)
    BY <2>1
  <2> DEFINE q == <<down[p[1]], down[p[2]]>>
  <2>3. q \in In(new) \X In(new) /\ q[1] <= q[2] /\ x = <<new[q[1]], new[q[2]]>>
    BY <1>4, <1>5, <1>6, <2>1, <2>2
  <2> QED
    BY <2>3 DEF Others
<1> QED
  BY <1>7, <1>8

\* A host with frequent outages pays for its alerts itself: when it has its share of the
\* history, the entries of all other hosts stay, in their order, for all limits.
THEOREM NoisyHostIsHarmless == Spec => NoisyHostHarmless
<1> DEFINE Harmless ==
             \A h \in Hosts :
               /\ phase \in Up /\ phase' \in Up
               /\ {x \in Hosts : active[x] # NoAlert /\ active'[x] = NoAlert} = {h}
               /\ Cardinality(Own(history, h)) = MaxPerHost
               => Others(history', h) = Others(history, h)
<1>1. StatesInv /\ [Next]_vars => [Harmless]_vars
  <2> SUFFICES ASSUME StatesInv, Next, NEW h \in Hosts, phase \in Up, phase' \in Up,
                      {x \in Hosts : active[x] # NoAlert /\ active'[x] = NoAlert} = {h},
                      Cardinality(Own(history, h)) = MaxPerHost
               PROVE  Others(history', h) = Others(history, h)
    OBVIOUS
  <2>1. active[h] # NoAlert /\ active'[h] = NoAlert
    OBVIOUS
  <2>2. /\ active \in [Hosts -> Alerts \cup {NoAlert}] /\ history \in Seq(Entries)
        /\ InLimits(history) /\ changes \in Nat
    BY DEF StatesInv, IsState, State
  <2>3. NoAlert \notin [n : Nat, text : BOOLEAN, acked : BOOLEAN]
    BY AlertBookAssumption
  <2>4. active[h].n \in Nat /\ active[h].text \in BOOLEAN /\ active[h].acked \in BOOLEAN
    BY <2>1, <2>2, AlertBookAssumption DEF Alerts, Numbers
  <2>5. ASSUME NEW g \in Hosts, NEW text \in BOOLEAN, Trigger(g, text) PROVE FALSE
    BY <2>1, <2>2, <2>3, <2>4, <2>5 DEF Trigger
  <2>6. ASSUME NEW g \in Hosts, NEW text \in BOOLEAN, Metadata(g, text) PROVE FALSE
    BY <2>1, <2>2, <2>3, <2>4, <2>6 DEF Metadata
  <2>7. ASSUME NEW g \in Hosts, Acknowledge(g) PROVE FALSE
    BY <2>1, <2>2, <2>3, <2>4, <2>7 DEF Acknowledge
  <2>8. ASSUME AcknowledgeAll PROVE FALSE
    <3>1. active' = [x \in Hosts |-> IF x \in Raised
                       THEN [n |-> active[x].n, text |-> active[x].text, acked |-> TRUE]
                       ELSE NoAlert]
      BY <2>8 DEF AcknowledgeAll
    <3>2. h \in Raised
      BY <2>1 DEF Raised
    <3>3. active'[h] = [n |-> active[h].n, text |-> active[h].text, acked |-> TRUE]
      BY <3>1, <3>2
    <3>4. active'[h] \in [n : Nat, text : BOOLEAN, acked : BOOLEAN]
      BY <3>3, <2>4
    <3> QED
      BY <3>4, <2>1, <2>3
  <2>9. ASSUME NEW hs \in SUBSET Hosts, Resolve(hs) PROVE Others(history', h) = Others(history, h)
    <3>1. hs \subseteq Raised /\ active' = [x \in Hosts |-> IF x \in hs THEN NoAlert ELSE active[x]]
      BY <2>9 DEF Resolve
    <3>2. hs = {h}
      BY <3>1 DEF Raised
    <3>3. PICK order \in SetToSeqs(hs) :
            LET entries == [i \in DOMAIN order |-> [host |-> order[i], n |-> active[order[i]].n]]
            IN  history' = PushAll(history, entries)
      BY <2>9 DEF Resolve
    <3> DEFINE entries == [i \in DOMAIN order |-> [host |-> order[i], n |-> active[order[i]].n]]
    <3>4. entries \in Seq(Entries) /\ Len(entries) = 1
      BY <3>1, <3>2, ResolvedEntries, FS_Singleton
    <3>5. entries[1].host = h
      <4>1. order \in [1 .. 1 -> {h}]
        BY <3>2, FS_Singleton DEF SetToSeqs
      <4> QED
        BY <4>1
    <3> HIDE DEF entries
    <3>6. history' = PushAll(history, entries)
      BY <3>3 DEF entries
    <3>7. entries[1] \in Entries
      BY <3>4
    <3>8. history' = Push(history, entries[1]) /\ entries[1] \in Entries
      BY <2>2, <3>4, <3>6, <3>7, PushAllOfOne
    <3>9. history' \in Seq(Entries)
      BY <2>2, <3>8, PushKeepsLimits
    <3>10. PICK k \in Own(history, h) :
            /\ Len(history') = Len(history)
            /\ \A i \in 1 .. k - 1 : history'[i] = history[i]
            /\ \A i \in k .. Len(history) - 1 : history'[i] = history[i + 1]
            /\ history'[Len(history)] = entries[1]
      <4>1. Cardinality(Own(history, entries[1].host)) >= MaxPerHost
        BY <3>5, AlertBookAssumption
      <4> QED
        <5>1. Len(history) <= MaxHistory /\ history \in Seq(Entries)
          BY <2>2 DEF InLimits
        <5> QED
          BY <3>5, <3>8, <4>1, <5>1, NoisyHostPaysItself
    <3>11. history'[Len(history)].host = h
      BY <3>5, <3>10
    <3>12. history \in Seq(Entries)
      BY <2>2
    <3> QED
      BY ONLY <3>9, <3>10, <3>11, <3>12, OthersStay, Zenon
  <2>10. active' # active
    BY <2>1
  <2>11. ~Save /\ ~CloseStop /\ ~LoopsEnd /\ ~EngineStopped
    BY <2>10 DEF Save, SaveStart, SaveExport, SaveWrite, SaveDone, CloseStop, LoopsEnd,
                 EngineStopped, Quiet, book
  <2>12. ~Crash /\ ~Boot
    BY DEF Crash, Boot, Up
  <2> QED
    BY <2>5, <2>6, <2>7, <2>8, <2>9, <2>11, <2>12 DEF Next, Manager
<1> QED
  BY <1>1, StatesStayInLimits, PTL DEF Spec, NoisyHostHarmless

---------------------------------------------------------------------------
(* Saving                                                                  *)

\* What makes the save right: as long as the version that was read is the current
\* one, the state on its way to the disk is the current one; any other version
\* counts as unsaved.
IInv ==
  /\ version \in Nat /\ saved \in Nat /\ saved <= version
  /\ saver.pc # "idle" => saver.v \in Nat /\ saved < saver.v /\ saver.v <= version
  /\ saver.pc = "write" /\ saver.v = version => saver.state = State
  /\ saver.pc = "done" /\ saver.v = version => file = State
  /\ SavedIsOnDisk

LEMMA InitIInv == Init => IInv
<1> SUFFICES ASSUME Init PROVE IInv
  OBVIOUS
<1>1. OnDisk
  <2>1. CASE file = NoFile
    BY <2>1 DEF Init, OnDisk, State
  <2>2. CASE file # NoFile
    <3>1. PICK hosts \in OldHistories : file = OldFile(hosts)
      BY <2>2 DEF Init
    <3>2. State = file
      BY <2>2, <3>1 DEF Init, State, OldFile
    <3>3. QED BY <2>2, <3>2 DEF OnDisk
  <2>3. QED BY <2>1, <2>2
<1>2. version = 0 /\ saved = 0 /\ saver.pc = "idle"
  BY DEF Init, Idle
<1>3. QED BY <1>1, <1>2 DEF IInv, SavedIsOnDisk

\* A change of the alerts takes a new version.
LEMMA ChangeIInv == IInv /\ Change => IInv'
  BY DEF IInv, Change, SavedIsOnDisk

LEMMA SaveIInv ==
  ASSUME IInv, Save
  PROVE  IInv'
<1>1. CASE SaveStart
  BY <1>1 DEF IInv, SaveStart, book, SavedIsOnDisk, OnDisk, State
<1>2. CASE SaveExport
  BY <1>2 DEF IInv, SaveExport, book, SavedIsOnDisk, OnDisk, State
<1>3. CASE SaveWrite
  BY <1>3 DEF IInv, SaveWrite, book, SavedIsOnDisk, OnDisk, State, Idle
<1>4. CASE SaveDone
  BY <1>4 DEF IInv, SaveDone, book, SavedIsOnDisk, OnDisk, State, Idle
<1>5. QED BY <1>1, <1>2, <1>3, <1>4 DEF Save

LEMMA ProcessIInv ==
  ASSUME IInv, CloseStop \/ LoopsEnd \/ EngineStopped \/ Crash
  PROVE  IInv'
<1>1. CASE CloseStop \/ LoopsEnd \/ EngineStopped
  BY <1>1 DEF IInv, CloseStop, LoopsEnd, EngineStopped, Quiet, book, SavedIsOnDisk, OnDisk, State
<1>2. CASE Crash
  BY <1>2 DEF IInv, Crash, SavedIsOnDisk, Idle
<1>3. QED BY <1>1, <1>2

LEMMA BootIInv == StatesInv /\ Boot => IInv'
<1> SUFFICES ASSUME StatesInv, Boot PROVE IInv'
  OBVIOUS
<1>1. version' \in Nat /\ saved' = version' /\ saver'.pc = "idle"
  BY DEF Boot, NewManager, Idle
<1>2. OnDisk'
  BY BootStates
<1>3. QED BY <1>1, <1>2 DEF IInv, SavedIsOnDisk

LEMMA NextIInv == StatesInv /\ IInv /\ [Next]_vars => IInv'
<1> SUFFICES ASSUME StatesInv, IInv, [Next]_vars PROVE IInv'
  OBVIOUS
<1>1. CASE Manager
  <2>1. Change
    BY <1>1 DEF Manager, Trigger, Metadata, Acknowledge, AcknowledgeAll, Resolve
  <2>2. QED BY <2>1, ChangeIInv
<1>2. CASE Save
  BY <1>2, SaveIInv
<1>3. CASE CloseStop \/ LoopsEnd \/ EngineStopped \/ Crash
  BY <1>3, ProcessIInv
<1>4. CASE Boot
  BY <1>4, BootIInv
<1>5. CASE UNCHANGED vars
  BY <1>5 DEF vars, book, IInv, SavedIsOnDisk, OnDisk, State
<1>6. QED BY <1>1, <1>2, <1>3, <1>4, <1>5 DEF Next

\* saveAlertState: a version that counts as saved is on disk, whatever changes, fails or
\* is killed in between.
THEOREM SavedVersionIsOnDisk == Spec => []SavedIsOnDisk
<1>1. IInv => SavedIsOnDisk
  BY DEF IInv
<1> QED
  BY <1>1, InitIInv, NextIInv, StatesStayInLimits, PTL DEF Spec

\* After a restart that could read the file, also after a crash, each alert and the whole
\* history are what the file says: the limits that ImportState applies again take nothing
\* away, because whatever was saved was within them (pushHistory, ExportState, ImportState).
\* One that could not read it leaves the file alone until an alert changes: what a saver
\* carries has a version above the one that counts as saved (saveAlertState).
THEOREM RestartGivesEverythingBack == Spec => RestartRestores
<1>1. IInv /\ [Next]_vars => [UnreadFileStays]_vars
  <2> SUFFICES ASSUME IInv, Next, file' # file PROVE version > 0
    BY DEF UnreadFileStays
  <2>1. SaveWrite
    BY DEF Next, Manager, Trigger, Metadata, Acknowledge, AcknowledgeAll, Resolve, Change, Save,
           SaveStart, SaveExport, SaveDone, CloseStop, LoopsEnd, EngineStopped, Quiet, Crash, Boot
  <2>2. saver.pc # "idle"
    BY <2>1 DEF SaveWrite
  <2> QED
    BY <2>2 DEF IInv
<1> QED
  BY <1>1, InitStates, InitIInv, NextStates, NextIInv, PTL DEF Spec, RestartRestores

\* Stop: the last save starts when nothing changes the alerts any more, and what stops
\* without one has nothing to save.
StopInv ==
  /\ phase \notin {"run", "closing", "final"} => saver.pc = "idle"
  /\ phase = "final" /\ saver.pc # "idle" => saver.v = version
  /\ phase = "stopped" => version = saved

LEMMA NextStop == StopInv /\ [Next]_vars => StopInv'
<1> SUFFICES ASSUME StopInv, [Next]_vars PROVE StopInv'
  OBVIOUS
<1>1. CASE Manager
  <2>1. Change
    BY <1>1 DEF Manager, Trigger, Metadata, Acknowledge, AcknowledgeAll, Resolve
  <2> QED
    BY <2>1 DEF Change, StopInv, Up
<1>2. CASE SaveStart
  BY <1>2 DEF SaveStart, StopInv, book
<1>3. CASE SaveExport
  BY <1>3 DEF SaveExport, StopInv, book
<1>4. CASE SaveWrite
  BY <1>4 DEF SaveWrite, StopInv, book, Idle
<1>5. CASE SaveDone
  BY <1>5 DEF SaveDone, StopInv, book, Idle
<1>6. CASE CloseStop \/ LoopsEnd \/ EngineStopped
  BY <1>6 DEF CloseStop, LoopsEnd, EngineStopped, Quiet, StopInv, book
<1>7. CASE Crash \/ Boot
  BY <1>7 DEF Crash, Boot, StopInv, Idle
<1>8. CASE UNCHANGED vars
  BY <1>8 DEF vars, book, StopInv
<1> QED
  BY <1>1, <1>2, <1>3, <1>4, <1>5, <1>6, <1>7, <1>8 DEF Next, Save

\* When DINIS has stopped, its alerts are on disk, with the results that came while the
\* engine stopped; a last save that failed is the only exception (Stop, saveAlertState).
THEOREM StoppedIsOnDisk == Spec => []StopSaves
<1>1. Init => StopInv
  BY DEF Init, StopInv, Idle
<1>2. StopInv /\ SavedIsOnDisk => StopSaves
  BY DEF StopInv, SavedIsOnDisk, StopSaves
<1> QED
  BY <1>1, <1>2, NextStop, SavedVersionIsOnDisk, PTL DEF Spec
=============================================================================
