---------------------------- MODULE WriterProofs ----------------------------
(***************************************************************************)
(* The writer implements the queue of LossyQueue, for every number of      *)
(* results, size of lines, limit, batch and number of faults; and no line  *)
(* is stored before the retention period is set.                           *)
(***************************************************************************)
EXTENDS Writer, TLAPS, SequenceTheorems, WellFoundedInduction, NaturalsInduction

---------------------------------------------------------------------------
(* Sequences                                                               *)

\* A set of numbers has a least one.
LEMMA LeastExists ==
  ASSUME NEW S \in SUBSET Nat, S # {}
  PROVE  \E m \in S : \A x \in S : m <= x
<1> DEFINE R == OpToRel(<, Nat)
<1>1. PICK m \in S : \A x \in S : <<x, m>> \notin R
  BY WFMin, NatLessThanWellFounded
<1>2. ASSUME NEW x \in S, x < m PROVE <<x, m>> \in R
  <2>1. <<x, m>> \in Nat \X Nat /\ <<x, m>>[1] < <<x, m>>[2]
    BY <1>2
  <2> QED BY <2>1 DEF OpToRel
<1> HIDE DEF R
<1>3. \A x \in S : ~(x < m)
  BY <1>1, <1>2
<1> QED BY <1>3

\* What is left of a sequence without its first n elements.
LEMMA Rest ==
  ASSUME NEW S, NEW u \in Seq(S), NEW n \in 0 .. Len(u)
  PROVE  /\ SubSeq(u, n + 1, Len(u)) \in Seq(S)
         /\ Len(SubSeq(u, n + 1, Len(u))) = Len(u) - n
         /\ \A i \in 1 .. Len(u) - n : SubSeq(u, n + 1, Len(u))[i] = u[n + i]
<1>1. Len(u) \in Nat /\ n \in Nat /\ n <= Len(u)
  BY LenProperties
<1> DEFINE N == Len(u)
           r == SubSeq(u, n + 1, N)
<1>2. \A i \in n + 1 .. N : u[i] \in S
  BY ElementOfSeq, <1>1
<1>3. /\ r \in Seq(S) /\ Len(r) = IF n + 1 <= N THEN N - (n + 1) + 1 ELSE 0
      /\ \A i \in 1 .. N - (n + 1) + 1 : r[i] = u[n + 1 + i - 1]
  <2>1. n + 1 \in Int /\ N \in Int
    BY <1>1
  <2> HIDE DEF r, N
  <2> QED BY SubSeqProperties, <1>2, <2>1 DEF r
<1>4. N \in Nat /\ N - (n + 1) + 1 = N - n
  BY <1>1
<1> HIDE DEF r, N
<1>5. Len(r) = N - n
  <2>1. n <= N
    BY <1>1 DEF N
  <2> QED BY <1>1, <1>3, <1>4, <2>1
<1>6. ASSUME NEW i \in 1 .. N - n PROVE r[i] = u[n + i]
  <2>1. n + 1 + i - 1 = n + i
    BY <1>1, <1>4
  <2>2. r[i] = u[n + 1 + i - 1]
    BY <1>3, <1>4
  <2> QED BY <2>1, <2>2
<1> QED BY <1>3, <1>5, <1>6 DEF r, N

\* Dropping the first n of a concatenation whose first part has n.
LEMMA SuffixOfConcat ==
  ASSUME NEW S, NEW s \in Seq(S), NEW t \in Seq(S), NEW n \in 0 .. Len(s)
  PROVE  SubSeq(s \o t, n + 1, Len(s \o t)) = SubSeq(s, n + 1, Len(s)) \o t
<1>1. /\ s \o t \in Seq(S) /\ Len(s \o t) = Len(s) + Len(t)
      /\ \A i \in 1 .. Len(s) + Len(t) :
           (s \o t)[i] = IF i <= Len(s) THEN s[i] ELSE t[i - Len(s)]
  BY ConcatProperties
<1>2. Len(s) \in Nat /\ Len(t) \in Nat
  BY LenProperties
<1> DEFINE l == SubSeq(s \o t, n + 1, Len(s \o t))
           k == SubSeq(s, n + 1, Len(s))
<1>5. /\ k \in Seq(S) /\ Len(k) = Len(s) - n
      /\ \A i \in 1 .. Len(s) - n : k[i] = s[n + i]
  BY Rest
<1>6. /\ l \in Seq(S) /\ Len(l) = Len(s) + Len(t) - n
      /\ \A i \in 1 .. Len(s) + Len(t) - n : l[i] = (s \o t)[n + i]
  <2>1. n \in 0 .. Len(s \o t)
    BY <1>1, <1>2
  <2>2. /\ l \in Seq(S) /\ Len(l) = Len(s \o t) - n
        /\ \A i \in 1 .. Len(s \o t) - n : l[i] = (s \o t)[n + i]
    BY <1>1, <2>1, Rest
  <2> HIDE DEF l
  <2> QED BY <1>1, <2>2
<1> HIDE DEF l, k
<1>7. /\ k \o t \in Seq(S) /\ Len(k \o t) = Len(k) + Len(t)
      /\ \A i \in 1 .. Len(k) + Len(t) :
           (k \o t)[i] = IF i <= Len(k) THEN k[i] ELSE t[i - Len(k)]
  BY ConcatProperties, <1>5
<1>8. Len(l) = Len(k \o t)
  BY <1>2, <1>5, <1>6, <1>7
<1>9. ASSUME NEW i \in 1 .. Len(l) PROVE l[i] = (k \o t)[i]
  <2>1. i \in 1 .. Len(s) + Len(t) - n /\ n + i \in 1 .. Len(s) + Len(t) /\ n \in Int
    BY <1>2, <1>6
  <2>2. l[i] = (s \o t)[n + i]
    BY <1>6, <2>1
  <2>3. i \in 1 .. Len(k) + Len(t)
    BY <1>2, <1>5, <2>1
  <2>4. CASE i <= Len(k)
    <3>1. (s \o t)[n + i] = s[n + i]
      BY <1>1, <1>2, <1>5, <2>1, <2>4
    <3>2. (k \o t)[i] = k[i]
      BY <1>7, <2>3, <2>4
    <3>3. k[i] = s[n + i]
      BY <1>2, <1>5, <2>1, <2>4
    <3> QED BY <2>2, <3>1, <3>2, <3>3
  <2>5. CASE ~(i <= Len(k))
    <3>1. (s \o t)[n + i] = t[n + i - Len(s)]
      BY <1>1, <1>2, <1>5, <2>1, <2>5
    <3>2. (k \o t)[i] = t[i - Len(k)]
      BY <1>7, <2>3, <2>5
    <3>3. n + i - Len(s) = i - Len(k)
      BY <1>2, <1>5, <2>1
    <3> QED BY <2>2, <3>1, <3>2, <3>3
  <2> QED BY <2>4, <2>5
<1>10. l = k \o t
  BY SeqEqual, <1>6, <1>7, <1>8, <1>9
<1> QED BY <1>10 DEF l, k

\* The elements of the first part are the first elements of the concatenation.
LEMMA FirstOfConcat ==
  ASSUME NEW S, NEW s \in Seq(S), NEW t \in Seq(S)
  PROVE  Range(s) = {(s \o t)[i] : i \in 1 .. Len(s)}
<1>1. \A i \in 1 .. Len(s) + Len(t) : (s \o t)[i] = IF i <= Len(s) THEN s[i] ELSE t[i - Len(s)]
  BY ConcatProperties
<1>2. Len(s) \in Nat /\ Len(t) \in Nat
  BY LenProperties
<1>3. \A i \in 1 .. Len(s) : (s \o t)[i] = s[i]
  BY <1>1, <1>2
<1>4. Range(s) = {s[i] : i \in 1 .. Len(s)}
  BY RangeEquality
<1> QED BY <1>3, <1>4

\* Appending to the second part appends to the concatenation.
LEMMA AppendToConcat ==
  ASSUME NEW S, NEW s \in Seq(S), NEW t \in Seq(S), NEW e \in S
  PROVE  s \o Append(t, e) = Append(s \o t, e)
<1>1. Append(t, e) = t \o <<e>> /\ <<e>> \in Seq(S)
  BY AppendIsConcat
<1>2. s \o t \in Seq(S)
  BY ConcatProperties
<1>3. Append(s \o t, e) = (s \o t) \o <<e>>
  BY AppendIsConcat, <1>2
<1> QED BY <1>1, <1>3, ConcatAssociative

---------------------------------------------------------------------------
(* The length of a buffer                                                  *)

\* f[i] is the length of the first i lines, up to the n-th.
Sums(lines, n, f) ==
  f = [i \in 0 .. n |-> IF i = 0 THEN 0 ELSE f[i - 1] + LineSize[lines[i]]]

\* The recursion of Bytes has a solution, for any number of lines.
LEMMA SumsExist ==
  ASSUME NEW lines, NEW n \in Nat
  PROVE  \E f : Sums(lines, n, f)
<1> DEFINE Bad == {k \in Nat : ~\E f : Sums(lines, k, f)}
<1> SUFFICES ASSUME Bad # {} PROVE FALSE
  OBVIOUS
<1>1. PICK m \in Bad : \A x \in Bad : m <= x
  BY LeastExists
<1>2. CASE m = 0
  <2> DEFINE f == [i \in 0 .. 0 |-> 0]
  <2>1. f = [i \in 0 .. 0 |-> IF i = 0 THEN 0 ELSE f[i - 1] + LineSize[lines[i]]]
    OBVIOUS
  <2> HIDE DEF f
  <2>2. Sums(lines, 0, f)
    BY <2>1 DEF Sums
  <2> QED
    BY <1>1, <1>2, <2>2
<1>3. CASE m # 0
  <2>1. m - 1 \in Nat /\ m - 1 \notin Bad
    BY <1>1, <1>3
  <2>2. PICK f : Sums(lines, m - 1, f)
    BY <2>1
  <2> DEFINE g == [i \in 0 .. m |-> IF i = m THEN f[m - 1] + LineSize[lines[m]] ELSE f[i]]
  <2>3. ASSUME NEW i \in 0 .. m
        PROVE  g[i] = IF i = 0 THEN 0 ELSE g[i - 1] + LineSize[lines[i]]
    <3>1. CASE i = m
      <4>1. g[m - 1] = f[m - 1]
        BY <1>1, <1>3
      <4>2. g[m] = f[m - 1] + LineSize[lines[m]]
        BY <1>1
      <4> HIDE DEF g
      <4> QED
        BY <1>3, <3>1, <4>1, <4>2
    <3>2. CASE i # m
      <4>1. i \in 0 .. m - 1 /\ g[i] = f[i]
        BY <1>1, <3>2
      <4>2. f[i] = IF i = 0 THEN 0 ELSE f[i - 1] + LineSize[lines[i]]
        <5>1. f = [j \in 0 .. m - 1 |-> IF j = 0 THEN 0 ELSE f[j - 1] + LineSize[lines[j]]]
          BY <2>2 DEF Sums
        <5> QED
          BY <4>1, <5>1
      <4>3. i # 0 => g[i - 1] = f[i - 1]
        BY <1>1, <4>1
      <4> HIDE DEF g
      <4> QED
        BY <4>1, <4>2, <4>3
    <3> QED
      BY <3>1, <3>2
  <2>4. g = [i \in 0 .. m |-> g[i]]
    OBVIOUS
  <2> HIDE DEF g
  <2>5. Sums(lines, m, g)
    BY <2>3, <2>4 DEF Sums
  <2> QED
    BY <1>1, <2>5
<1> QED
  BY <1>2, <1>3

\* What Bytes says: the lengths of the first lines grow by one line each.
LEMMA BytesAdds ==
  ASSUME NEW lines \in Seq(Points)
  PROVE  \E f \in [0 .. Len(lines) -> Nat] :
           /\ f[0] = 0 /\ Bytes(lines) = f[Len(lines)]
           /\ \A i \in 1 .. Len(lines) : f[i] = f[i - 1] + LineSize[lines[i]]
<1> DEFINE n == Len(lines)
           F == CHOOSE f : f = [i \in 0 .. n |-> IF i = 0 THEN 0 ELSE f[i - 1] + LineSize[lines[i]]]
<1>1. n \in Nat
  BY LenProperties
<1>2. \E f : f = [i \in 0 .. n |-> IF i = 0 THEN 0 ELSE f[i - 1] + LineSize[lines[i]]]
  <2> HIDE DEF n
  <2>1. \E f : Sums(lines, n, f)
    BY <1>1, SumsExist
  <2> QED
    BY <2>1 DEF Sums
<1>3. F = [i \in 0 .. n |-> IF i = 0 THEN 0 ELSE F[i - 1] + LineSize[lines[i]]]
  <2> HIDE DEF n
  <2> QED
    BY <1>2
<1>4. Bytes(lines) = F[n]
  BY DEF Bytes
<1>5. \A i \in 1 .. n : LineSize[lines[i]] \in Nat
  <2>1. \A i \in 1 .. n : lines[i] \in Points
    BY ElementOfSeq
  <2> QED
    BY <2>1, WriterAssumption DEF Points
<1> HIDE DEF F, n
<1>6. F[0] = 0 /\ \A i \in 1 .. n : F[i] = F[i - 1] + LineSize[lines[i]]
  <2>1. \A i \in 0 .. n : F[i] = IF i = 0 THEN 0 ELSE F[i - 1] + LineSize[lines[i]]
    BY <1>3
  <2> QED
    BY <1>1, <2>1
<1>7. \A i \in 0 .. n : F[i] \in Nat
  <2> DEFINE Bad == {i \in 0 .. n : F[i] \notin Nat}
  <2> SUFFICES ASSUME Bad # {} PROVE FALSE
    OBVIOUS
  <2>1. Bad \in SUBSET Nat
    BY <1>1
  <2>2. PICK m \in Bad : \A x \in Bad : m <= x
    BY <2>1, LeastExists
  <2>3. m # 0
    BY <1>6, <2>2
  <2>4. m - 1 \in 0 .. n /\ m - 1 \notin Bad /\ m \in 1 .. n
    BY <1>1, <2>2, <2>3
  <2>5. F[m] = F[m - 1] + LineSize[lines[m]] /\ LineSize[lines[m]] \in Nat
    BY <1>5, <1>6, <2>4
  <2> QED
    BY <2>2, <2>4, <2>5
<1>8. F \in [0 .. n -> Nat]
  BY <1>3, <1>7
<1> QED
  BY <1>4, <1>6, <1>8 DEF n

\* Whatever grows in this way from nothing is the length.
LEMMA BytesIsSum ==
  ASSUME NEW lines \in Seq(Points), NEW g, g[0] = 0,
         \A i \in 1 .. Len(lines) : g[i] = g[i - 1] + LineSize[lines[i]]
  PROVE  Bytes(lines) = g[Len(lines)]
<1>1. PICK f \in [0 .. Len(lines) -> Nat] :
        /\ f[0] = 0 /\ Bytes(lines) = f[Len(lines)]
        /\ \A i \in 1 .. Len(lines) : f[i] = f[i - 1] + LineSize[lines[i]]
  BY BytesAdds
<1>2. Len(lines) \in Nat
  BY LenProperties
<1> DEFINE Bad == {i \in 0 .. Len(lines) : f[i] # g[i]}
<1>3. ASSUME Bad # {} PROVE FALSE
  <2>1. Bad \in SUBSET Nat
    BY <1>2
  <2>2. PICK m \in Bad : \A x \in Bad : m <= x
    BY <1>3, <2>1, LeastExists
  <2>3. m # 0
    BY <1>1, <2>2
  <2>4. m - 1 \in 0 .. Len(lines) /\ m - 1 \notin Bad /\ m \in 1 .. Len(lines)
    BY <1>2, <2>2, <2>3
  <2>5. f[m - 1] = g[m - 1]
    BY <2>4
  <2>6. f[m] = f[m - 1] + LineSize[lines[m]] /\ g[m] = g[m - 1] + LineSize[lines[m]]
    BY <1>1, <2>4
  <2> QED
    BY <2>2, <2>5, <2>6
<1> QED
  BY <1>1, <1>2, <1>3

\* Two buffers in a row are as long as both.
LEMMA BytesOfConcat ==
  ASSUME NEW s \in Seq(Points), NEW t \in Seq(Points)
  PROVE  Bytes(s \o t) = Bytes(s) + Bytes(t) /\ Bytes(s) \in Nat /\ Bytes(t) \in Nat
<1> DEFINE st == s \o t
<1>1. /\ st \in Seq(Points) /\ Len(st) = Len(s) + Len(t) /\ Len(s) \in Nat /\ Len(t) \in Nat
      /\ \A i \in 1 .. Len(s) : st[i] = s[i]
      /\ \A i \in 1 .. Len(t) : st[Len(s) + i] = t[i]
  BY ConcatProperties, LenProperties
<1> HIDE DEF st
<1>2. PICK f \in [0 .. Len(st) -> Nat] :
        /\ f[0] = 0 /\ Bytes(st) = f[Len(st)]
        /\ \A i \in 1 .. Len(st) : f[i] = f[i - 1] + LineSize[st[i]]
  BY <1>1, BytesAdds
<1>3. \A i \in 1 .. Len(s) : f[i] = f[i - 1] + LineSize[s[i]]
  BY <1>1, <1>2
<1>4. Bytes(s) = f[Len(s)]
  BY <1>2, <1>3, BytesIsSum
<1> DEFINE g == [i \in 0 .. Len(t) |-> f[Len(s) + i] - f[Len(s)]]
<1>5. g[0] = 0
  BY <1>1, <1>2
<1>6. ASSUME NEW i \in 1 .. Len(t) PROVE g[i] = g[i - 1] + LineSize[t[i]]
  <2>1. Len(s) + i \in 1 .. Len(st) /\ Len(s) + i - 1 \in 0 .. Len(st) /\ Len(s) \in 0 .. Len(st)
    BY <1>1
  <2>2. f[Len(s) + i] = f[Len(s) + i - 1] + LineSize[t[i]]
    <3>1. st[Len(s) + i] = t[i]
      BY <1>1
    <3>2. f[Len(s) + i] = f[Len(s) + i - 1] + LineSize[st[Len(s) + i]]
      BY <1>2, <2>1
    <3> QED
      BY <3>1, <3>2
  <2>3. f[Len(s) + i - 1] \in Nat /\ f[Len(s)] \in Nat
    BY <1>2, <2>1
  <2>4. LineSize[t[i]] \in Nat
    BY ElementOfSeq, WriterAssumption DEF Points
  <2>5. g[i] = f[Len(s) + i] - f[Len(s)] /\ g[i - 1] = f[Len(s) + i - 1] - f[Len(s)]
    <3>1. i - 1 \in 0 .. Len(t) /\ i \in 0 .. Len(t) /\ Len(s) + (i - 1) = Len(s) + i - 1
      BY <1>1
    <3> QED
      BY <3>1
  <2> HIDE DEF g
  <2> QED
    BY <2>2, <2>3, <2>4, <2>5
<1>7. g[Len(t)] = f[Len(st)] - f[Len(s)]
  BY <1>1
<1> HIDE DEF g
<1>8. Bytes(t) = g[Len(t)]
  BY <1>5, <1>6, BytesIsSum
<1>9. f[Len(st)] \in Nat /\ f[Len(s)] \in Nat
  BY <1>1, <1>2
<1>10. Bytes(t) \in Nat
  <2>1. PICK e \in [0 .. Len(t) -> Nat] : Bytes(t) = e[Len(t)]
    BY BytesAdds
  <2>2. Len(t) \in 0 .. Len(t)
    BY <1>1
  <2> QED
    BY <2>1, <2>2
<1> QED
  BY <1>2, <1>4, <1>7, <1>8, <1>9, <1>10 DEF st

\* A line more.
LEMMA BytesOfAppend ==
  ASSUME NEW s \in Seq(Points), NEW p \in Points
  PROVE  Bytes(Append(s, p)) = Bytes(s) + LineSize[p]
<1> DEFINE sp == Append(s, p)
<1>1. /\ sp \in Seq(Points) /\ Len(sp) = Len(s) + 1 /\ Len(s) \in Nat
      /\ sp[Len(s) + 1] = p /\ \A i \in 1 .. Len(s) : sp[i] = s[i]
  BY AppendProperties, LenProperties
<1> HIDE DEF sp
<1>2. PICK f \in [0 .. Len(sp) -> Nat] :
        /\ f[0] = 0 /\ Bytes(sp) = f[Len(sp)]
        /\ \A i \in 1 .. Len(sp) : f[i] = f[i - 1] + LineSize[sp[i]]
  BY <1>1, BytesAdds
<1>3. \A i \in 1 .. Len(s) : f[i] = f[i - 1] + LineSize[s[i]]
  BY <1>1, <1>2
<1>4. Bytes(s) = f[Len(s)]
  BY <1>2, <1>3, BytesIsSum
<1>5. f[Len(s) + 1] = f[Len(s) + 1 - 1] + LineSize[p]
  BY <1>1, <1>2
<1>6. Len(s) + 1 - 1 = Len(s)
  BY <1>1
<1> QED
  BY <1>1, <1>2, <1>4, <1>5, <1>6 DEF sp

LEMMA BytesOfNothing == Bytes(<<>>) = 0
<1>1. <<>> \in Seq(Points) /\ Len(<<>>) = 0
  BY EmptySeq
<1> QED
  BY <1>1, BytesAdds

---------------------------------------------------------------------------
(* Types                                                                   *)

\* A flush holds a payload, and only a flush.
PayloadInv == flusher.pc = "idle" <=> flusher.payload = <<>>

IInv == TypeOK /\ PayloadInv /\ count <= recorded

\* retainFailedPayload drops no more than the payload has.
LEMMA DroppedFromBounded ==
  ASSUME NEW payload \in Seq(Points)
  PROVE  DroppedFrom(payload) \in 0 .. Len(payload)
<1>1. Len(payload) \in Nat
  BY LenProperties
<1>2. CASE Bytes(buf) + Bytes(payload) <= MaxBufferSize
  BY <1>1, <1>2 DEF DroppedFrom
<1>3. CASE ~(Bytes(buf) + Bytes(payload) <= MaxBufferSize)
  <2> DEFINE S == {n \in 0 .. Len(payload) :
                     n = Len(payload) \/ Bytes(SubSeq(payload, 1, n)) >= Excess(payload)}
  <2>1. S \in SUBSET Nat /\ S # {} /\ S \subseteq 0 .. Len(payload)
    <3>1. Len(payload) \in S
      BY <1>1
    <3> QED BY <3>1, <1>1
  <2>2. DroppedFrom(payload) = Min(S)
    BY <1>3 DEF DroppedFrom
  <2> HIDE DEF S
  <2>3. \E m \in S : \A x \in S : m <= x
    BY LeastExists, <2>1
  <2>4. Min(S) \in S
    BY <2>3 DEF Min
  <2> QED BY <2>1, <2>2, <2>4
<1> QED BY <1>2, <1>3

\* What is kept is the rest of the payload.
LEMMA KeptIsLines ==
  ASSUME NEW payload \in Seq(Points)
  PROVE  Kept(payload) \in Seq(Points)
<1>1. Len(payload) \in Nat /\ DroppedFrom(payload) \in 0 .. Len(payload)
  BY LenProperties, DroppedFromBounded
<1>2. \A i \in DroppedFrom(payload) + 1 .. Len(payload) : payload[i] \in Points
  BY <1>1, ElementOfSeq
<1>3. DroppedFrom(payload) + 1 \in Int
  BY <1>1
<1> QED BY SubSeqProperties, <1>1, <1>2, <1>3 DEF Kept

\* The types of the lines a failed flush puts back.
LEMMA RetainKeepsTypes ==
  ASSUME IInv, Retain
  PROVE  /\ buf' \in Seq(Points) /\ droppedLines' \in Nat
         /\ flusher' = Idle /\ stage' \in {"running", "stopping", "lastFlush", "stopped"}
<1>1. flusher.payload \in Seq(Points) /\ buf \in Seq(Points)
  BY DEF IInv, TypeOK
<1>2. Kept(flusher.payload) \in Seq(Points)
  BY KeptIsLines, <1>1
<1>3. buf' \in Seq(Points)
  BY <1>1, <1>2, ConcatProperties DEF Retain
<1>4. DroppedFrom(flusher.payload) \in 0 .. Len(flusher.payload) /\ Len(flusher.payload) \in Nat
  BY <1>1, DroppedFromBounded, LenProperties
<1>5. droppedLines' \in Nat
  BY <1>4 DEF Retain, IInv, TypeOK
<1> QED BY <1>3, <1>5 DEF Retain, FlushEnds, IInv, TypeOK

\* A flusher without work has its type.
LEMMA IdleIsTyped ==
  /\ Idle \in [pc : {"idle", "create", "update", "send"}, payload : Seq(Points),
               attempt : 0 .. MaxAttempts - 1]
  /\ Idle.pc = "idle" /\ Idle.payload = <<>>
<1>1. <<>> \in Seq(Points)
  BY EmptySeq
<1>2. 0 \in 0 .. MaxAttempts - 1
  BY WriterAssumption
<1> QED BY <1>1, <1>2 DEF Idle

LEMMA InitIInv == Init => IInv
<1> SUFFICES ASSUME Init PROVE IInv
  OBVIOUS
<1>1. <<>> \in Seq(Points) /\ recorded = 0 /\ count = 0
  BY EmptySeq DEF Init
<1>2. 0 \in 0 .. MaxPoints /\ 0 \in 0 .. MaxFaults
  BY WriterAssumption
<1>3. TypeOK
  BY <1>1, <1>2, IdleIsTyped, WriterAssumption DEF Init, TypeOK
<1>4. PayloadInv
  BY IdleIsTyped DEF Init, PayloadInv
<1> QED BY <1>1, <1>3, <1>4 DEF IInv

\* The step that takes the buffer.
LEMMA TakeKeepsTypes ==
  ASSUME IInv, Take
  PROVE  /\ buf' = <<>> /\ buf' \in Seq(Points) /\ count' \in 0 .. MaxPoints
         /\ flusher' \in [pc : {"idle", "create", "update", "send"}, payload : Seq(Points),
                          attempt : 0 .. MaxAttempts - 1]
         /\ flusher'.pc # "idle" /\ flusher'.payload = buf /\ buf # <<>>
<1>1. <<>> \in Seq(Points)
  BY EmptySeq
<1>2. 0 \in 0 .. MaxAttempts - 1 /\ 0 \in 0 .. MaxPoints
  BY WriterAssumption
<1> QED BY <1>1, <1>2 DEF IInv, TypeOK, Take

\* The types after a payload that is given up.
LEMMA GiveUpKeepsTypes ==
  ASSUME IInv, GiveUp, UNCHANGED serverVars, faults' \in 0 .. MaxFaults
  PROVE  IInv'
<1>1. Len(flusher.payload) \in Nat
  BY LenProperties DEF IInv, TypeOK
<1>2. droppedLines' \in Nat
  BY <1>1 DEF GiveUp, IInv, TypeOK
<1>3. stage' \in {"running", "stopping", "lastFlush", "stopped"} /\ flusher' = Idle
  BY DEF GiveUp, FlushEnds, IInv, TypeOK
<1>4. TypeOK'
  BY <1>2, <1>3, IdleIsTyped DEF GiveUp, IInv, TypeOK, bufVars, serverVars
<1> QED BY <1>3, <1>4, IdleIsTyped DEF GiveUp, IInv, PayloadInv, bufVars

\* The types after an attempt that is tried again.
LEMMA RetryKeepsTypes ==
  ASSUME IInv, MayRetry, Retry, faults' \in 0 .. MaxFaults, stored' \subseteq Points,
         database' \in {"absent", "plain", "retained"}, refused' \in BOOLEAN
  PROVE  IInv'
<1>1. flusher.attempt + 1 \in 0 .. MaxAttempts - 1
  BY WriterAssumption DEF MayRetry, IInv, TypeOK
<1>2. flusher' \in [pc : {"idle", "create", "update", "send"}, payload : Seq(Points),
                    attempt : 0 .. MaxAttempts - 1]
  BY <1>1 DEF Retry, IInv, TypeOK
<1>3. flusher'.pc = flusher.pc /\ flusher'.payload = flusher.payload
  BY DEF Retry, IInv, TypeOK
<1>4. UNCHANGED <<recorded, buf, count, flushSignal, stage, dbReady, droppedLines>>
  BY DEF Retry, bufVars
<1>5. TypeOK'
  BY <1>2, <1>4 DEF IInv, TypeOK
<1> QED BY <1>3, <1>4, <1>5 DEF IInv, PayloadInv

\* Every step keeps the types, the payload with its flush, and the count.
LEMMA NextIInv == IInv /\ [Next]_vars => IInv'
<1> SUFFICES ASSUME IInv, [Next]_vars PROVE IInv'
  OBVIOUS
<1> USE DEF IInv, TypeOK, PayloadInv, vars, serverVars, bufVars
<1>1. CASE WriteProbe
  <2>1. recorded + 1 \in Points /\ recorded' = recorded + 1 /\ recorded' \in 0 .. MaxPoints
    BY <1>1, WriterAssumption DEF WriteProbe, Points
  <2>2. buf' \in Seq(Points)
    <3> DEFINE p == recorded + 1
    <3>1. p \in Points /\ (buf' = buf \/ buf' = Append(buf, p))
      BY <1>1, <2>1 DEF WriteProbe
    <3> HIDE DEF p
    <3> QED BY <3>1, AppendProperties
  <2>3. count' \in 0 .. MaxPoints /\ count' <= recorded'
    <3>1. /\ count' = count \/ count' = count + 1
          /\ recorded' = recorded + 1 /\ recorded < MaxPoints
      BY <1>1 DEF WriteProbe
    <3>2. count \in Nat /\ recorded \in Nat /\ MaxPoints \in Nat /\ count <= recorded
      BY WriterAssumption
    <3> HIDE DEF IInv, TypeOK
    <3> QED BY <3>1, <3>2
  <2>4. droppedLines' \in Nat
    BY <1>1 DEF WriteProbe
  <2>5. flushSignal' \in BOOLEAN
    BY <1>1, Zenon DEF WriteProbe
  <2> QED BY <1>1, <2>1, <2>2, <2>3, <2>4, <2>5 DEF WriteProbe
<1>2. CASE TickFlush
  BY <1>2, TakeKeepsTypes, WriterAssumption DEF TickFlush, Take
<1>3. CASE SignalFlush
  <2>1. CASE Take
    <3>1. flushSignal' \in BOOLEAN
      BY <1>3 DEF SignalFlush
    <3> QED BY <1>3, <2>1, <3>1, TakeKeepsTypes, WriterAssumption DEF SignalFlush, Take
  <2>2. CASE UNCHANGED <<bufVars, flusher, dbReady, droppedLines, serverVars, faults>>
    BY <1>3, <2>2 DEF SignalFlush
  <2> QED BY <1>3, <2>1, <2>2 DEF SignalFlush
<1>4. CASE CreateDatabase
  BY <1>4 DEF CreateDatabase, DatabaseReady, NoFault
<1>5. CASE UpdateDatabase
  BY <1>5 DEF UpdateDatabase, DatabaseReady, NoFault
<1>6. CASE RefuseDatabase
  <2>1. faults' \in 0 .. MaxFaults
    BY <1>6, WriterAssumption DEF RefuseDatabase, Fault
  <2> QED BY <1>6, <2>1 DEF RefuseDatabase, DatabaseReady
<1>7. CASE FailDatabase
  <2>1. faults' \in 0 .. MaxFaults /\ database' \in {"absent", "plain", "retained"}
    BY <1>7, WriterAssumption DEF FailDatabase, Fault
  <2> QED BY <1>7, <2>1, RetainKeepsTypes, IdleIsTyped DEF FailDatabase, Retain
<1>8. CASE SendConfirmed
  BY <1>8, IdleIsTyped, RangeOfSeq DEF SendConfirmed, FlushEnds, Stores, NoFault
<1>9. CASE SendFailed
  <2>1. faults' \in 0 .. MaxFaults
    BY <1>9, WriterAssumption DEF SendFailed, Fault
  <2>2. /\ stored' \subseteq Points /\ database' \in {"absent", "plain", "retained"}
        /\ refused' \in BOOLEAN
    BY <1>9, RangeOfSeq DEF SendFailed, Stores
  <2>3. CASE MayRetry
    <3>1. Retry
      BY <1>9, <2>3 DEF SendFailed
    <3> HIDE DEF IInv
    <3> QED BY <2>1, <2>2, <2>3, <3>1, RetryKeepsTypes
  <2>4. CASE ~MayRetry
    <3>1. Retain
      BY <1>9, <2>4 DEF SendFailed
    <3> QED BY <3>1, <2>1, <2>2, RetainKeepsTypes, IdleIsTyped DEF Retain
  <2> QED BY <2>3, <2>4
<1>10. CASE SendThrottled
  <2>0. faults' \in 0 .. MaxFaults
    BY <1>10, WriterAssumption DEF SendThrottled, Fault
  <2>1. CASE MayRetry
    <3>1. Retry /\ UNCHANGED serverVars
      BY <1>10, <2>1 DEF SendThrottled
    <3>2. /\ stored' \subseteq Points /\ database' \in {"absent", "plain", "retained"}
          /\ refused' \in BOOLEAN
      BY <3>1
    <3> HIDE DEF IInv
    <3> QED BY <2>0, <2>1, <3>1, <3>2, RetryKeepsTypes
  <2>2. CASE ~MayRetry
    <3>1. GiveUp
      BY <1>10, <2>2 DEF SendThrottled
    <3> QED BY <1>10, <2>0, <3>1, GiveUpKeepsTypes DEF SendThrottled
  <2> QED BY <2>1, <2>2
<1>11. CASE SendRefused
  <2>1. faults' \in 0 .. MaxFaults
    BY <1>11, WriterAssumption DEF SendRefused, Fault
  <2> QED BY <1>11, <2>1, GiveUpKeepsTypes DEF SendRefused
<1>12. CASE LoopExit
  BY <1>12, TakeKeepsTypes, WriterAssumption DEF LoopExit, Take
<1>13. CASE StopRequested
  BY <1>13 DEF StopRequested
<1>14. CASE UNCHANGED vars
  BY <1>14
<1> QED BY <1>1, <1>2, <1>3, <1>4, <1>5, <1>6, <1>7, <1>8, <1>9, <1>10, <1>11, <1>12,
           <1>13, <1>14 DEF Next, Flush

---------------------------------------------------------------------------
(* The retention period                                                    *)

\* Nothing is sent before the database is set up.
ReadyInv ==
  /\ flusher.pc = "send" \/ stored # {} => dbReady
  /\ Retention /\ dbReady => database = "retained" \/ refused

\* No line is stored before the retention period is set, or refused, whatever the
\* database answers and however often DINIS has to ask (writer.go, ensureDatabase).
THEOREM RetentionIsSetFirst == Spec => []RetentionFirst
<1> USE DEF ReadyInv
<1>1. Init => ReadyInv
  <2> SUFFICES ASSUME Init PROVE ReadyInv
    OBVIOUS
  <2>1. flusher.pc = "idle" /\ stored = {}
    BY IdleIsTyped DEF Init
  <2>2. ~(Retention /\ dbReady)
    BY Zenon DEF Init
  <2> QED BY <2>1, <2>2
<1>2. IInv /\ ReadyInv /\ [Next]_vars => ReadyInv'
  <2> SUFFICES ASSUME IInv, ReadyInv, [Next]_vars PROVE ReadyInv'
    OBVIOUS
  <2> USE DEF vars, serverVars, bufVars
  <2>1. CASE WriteProbe
    BY <2>1 DEF WriteProbe
  <2>2. CASE TickFlush
    BY <2>2 DEF TickFlush, Take
  <2>3. CASE SignalFlush
    BY <2>3 DEF SignalFlush, Take
  <2>4. CASE CreateDatabase \/ UpdateDatabase \/ RefuseDatabase
    BY <2>4 DEF CreateDatabase, UpdateDatabase, RefuseDatabase, DatabaseReady, IInv, TypeOK
  <2>5. CASE FailDatabase
    BY <2>5, IdleIsTyped DEF FailDatabase, Retain, FlushEnds
  <2>6. CASE SendConfirmed
    BY <2>6, IdleIsTyped DEF SendConfirmed, FlushEnds, Stores
  <2>7. CASE SendFailed
    <3>1. dbReady' = dbReady /\ dbReady
      BY <2>7 DEF SendFailed, Retry, Retain
    <3>2. Retention => database' = "retained" \/ refused'
      BY <2>7, <3>1 DEF SendFailed, Stores
    <3> QED BY <3>1, <3>2
  <2>8. CASE SendThrottled
    BY <2>8, IdleIsTyped DEF SendThrottled, Retry, GiveUp, FlushEnds, IInv, TypeOK
  <2>9. CASE SendRefused
    BY <2>9, IdleIsTyped DEF SendRefused, GiveUp, FlushEnds
  <2>10. CASE LoopExit
    BY <2>10 DEF LoopExit, Take
  <2>11. CASE StopRequested
    BY <2>11 DEF StopRequested
  <2>12. CASE UNCHANGED vars
    BY <2>12
  <2> QED BY <2>1, <2>2, <2>3, <2>4, <2>5, <2>6, <2>7, <2>8, <2>9, <2>10, <2>11, <2>12
          DEF Next, Flush
<1>3. ReadyInv => RetentionFirst
  BY DEF RetentionFirst
<1> QED BY <1>1, <1>2, <1>3, InitIInv, NextIInv, PTL DEF Spec

---------------------------------------------------------------------------
(* The refinement                                                          *)

\* The lines of a flush that ends with the oldest n of it given up or confirmed.
LEMMA WaitingAfter ==
  ASSUME IInv, NEW n \in 0 .. Len(flusher.payload)
  PROVE  /\ Queue!After(n) = SubSeq(flusher.payload, n + 1, Len(flusher.payload)) \o buf
         /\ n \in 0 .. Len(Waiting)
         /\ n = Len(flusher.payload) => Queue!After(n) = buf
<1>1. flusher.payload \in Seq(Points) /\ buf \in Seq(Points)
  BY DEF IInv, TypeOK
<1>2. Len(flusher.payload) \in Nat /\ Len(buf) \in Nat
  BY <1>1, LenProperties
<1>3. Queue!After(n) = SubSeq(flusher.payload, n + 1, Len(flusher.payload)) \o buf
  BY <1>1, SuffixOfConcat DEF Queue!After, Waiting
<1>4. n \in 0 .. Len(Waiting)
  BY <1>1, <1>2, ConcatProperties DEF Waiting
<1>5. ASSUME n = Len(flusher.payload)
      PROVE  SubSeq(flusher.payload, n + 1, Len(flusher.payload)) = <<>>
  BY <1>2, <1>5, SubSeqEmpty
<1>6. <<>> \o buf = buf
  BY <1>1, ConcatEmptySeq
<1> QED BY <1>3, <1>4, <1>5, <1>6

\* What the database stores of a payload are the oldest lines that wait.
LEMMA PayloadIsFirst ==
  ASSUME IInv
  PROVE  /\ Range(flusher.payload) = Queue!First(Len(flusher.payload))
         /\ {} = Queue!First(0)
<1>1. flusher.payload \in Seq(Points) /\ buf \in Seq(Points)
  BY DEF IInv, TypeOK
<1>2. Range(flusher.payload) = Queue!First(Len(flusher.payload))
  BY <1>1, FirstOfConcat DEF Queue!First, Waiting
<1> QED BY <1>2 DEF Queue!First

\* Taking the buffer moves no line.
LEMMA TakeMovesNothing ==
  ASSUME IInv, Take, flusher.pc = "idle"
  PROVE  Waiting' = Waiting /\ UNCHANGED <<recorded, stored, droppedLines>>
<1>1. buf \in Seq(Points) /\ flusher.payload = <<>>
  BY DEF IInv, TypeOK, PayloadInv
<1>2. flusher'.payload = buf /\ buf' = <<>>
  BY DEF Take
<1>3. buf \o <<>> = buf /\ <<>> \o buf = buf
  BY <1>1, ConcatEmptySeq
<1> QED BY <1>1, <1>2, <1>3 DEF Waiting, Take, serverVars

\* A failed flush is a failure of the queue: what the limit leaves no room for is
\* given up, counted, and the rest waits in its place.
LEMMA RetainIsFail ==
  ASSUME IInv, Retain, flusher.pc # "idle",
         stored' = stored \/ stored' = stored \cup Range(flusher.payload)
  PROVE  Queue!Next
<1>1. flusher.payload \in Seq(Points) /\ buf \in Seq(Points)
  BY DEF IInv, TypeOK
<1>2. Len(flusher.payload) \in Nat
  BY <1>1, LenProperties
<1> DEFINE n == DroppedFrom(flusher.payload)
<1>3. n \in 0 .. Len(flusher.payload)
  BY <1>1, DroppedFromBounded
<1>4. PICK k \in {0, Len(flusher.payload)} : stored' = stored \cup Queue!First(k)
  BY PayloadIsFirst
<1>5. Waiting' = SubSeq(flusher.payload, n + 1, Len(flusher.payload)) \o buf
  <2>1. buf' = Kept(flusher.payload) \o buf /\ flusher'.payload = <<>>
    BY IdleIsTyped DEF Retain, FlushEnds
  <2>2. buf' \in Seq(Points)
    BY RetainKeepsTypes
  <2>3. <<>> \o buf' = buf'
    BY <2>2, ConcatEmptySeq
  <2> QED BY <2>1, <2>3 DEF Waiting, Kept
<1>6. Waiting' = Queue!After(n) /\ n \in 0 .. Len(Waiting) /\ k \in 0 .. Len(Waiting)
  <2>1. \A m \in 0 .. Len(flusher.payload) : m \in 0 .. Len(Waiting)
    BY WaitingAfter
  <2>2. 0 \in 0 .. Len(flusher.payload) /\ Len(flusher.payload) \in 0 .. Len(flusher.payload)
    BY <1>2
  <2>3. Waiting' = Queue!After(n)
    <3> HIDE DEF n
    <3> QED BY <1>3, <1>5, WaitingAfter
  <2> QED BY <1>3, <2>1, <2>2, <2>3
<1>7. Queue!Fail(k, n)
  BY <1>4, <1>6 DEF Queue!Fail, Retain
<1> QED BY <1>6, <1>7 DEF Queue!Next

\* A flush that ends without putting anything back.
LEMMA FlushEndIsStep ==
  ASSUME IInv, FlushEnds, UNCHANGED bufVars, flusher.pc # "idle",
         \/ /\ stored' = stored \cup Range(flusher.payload) /\ UNCHANGED droppedLines
         \/ /\ UNCHANGED stored
            /\ droppedLines' = droppedLines + Len(flusher.payload)
  PROVE  Queue!Next
<1>1. flusher.payload \in Seq(Points) /\ buf \in Seq(Points) /\ flusher.payload # <<>>
  BY DEF IInv, TypeOK, PayloadInv
<1> DEFINE n == Len(flusher.payload)
<1>2. n \in Nat \ {0}
  BY <1>1, EmptySeq
<1>3. Waiting' = buf
  <2>1. flusher'.payload = <<>> /\ buf' = buf
    BY IdleIsTyped DEF FlushEnds, bufVars
  <2>2. <<>> \o buf = buf
    BY <1>1, ConcatEmptySeq
  <2> QED BY <2>1, <2>2 DEF Waiting
<1>4. Waiting' = Queue!After(n) /\ n \in 1 .. Len(Waiting) /\ 0 \in 0 .. Len(Waiting)
  BY <1>2, <1>3, WaitingAfter
<1>5. CASE stored' = stored \cup Range(flusher.payload) /\ UNCHANGED droppedLines
  <2>1. Queue!Confirm(n)
    BY <1>4, <1>5, PayloadIsFirst DEF Queue!Confirm, bufVars
  <2> QED BY <1>4, <2>1 DEF Queue!Next
<1>6. CASE UNCHANGED stored /\ droppedLines' = droppedLines + Len(flusher.payload)
  <2>1. Queue!Fail(0, n)
    BY <1>4, <1>6, PayloadIsFirst DEF Queue!Fail, bufVars
  <2> QED BY <1>4, <2>1 DEF Queue!Next
<1> QED BY <1>5, <1>6

\* A retry leaves the lines where they are, and the database may have stored them.
LEMMA RetryIsStep ==
  ASSUME IInv, Retry,
         stored' = stored \/ stored' = stored \cup Range(flusher.payload)
  PROVE  Queue!Next
<1>1. flusher.payload \in Seq(Points) /\ buf \in Seq(Points)
  BY DEF IInv, TypeOK
<1>2. Len(flusher.payload) \in Nat
  BY <1>1, LenProperties
<1>3. Waiting \in Seq(Points) /\ Waiting' = Waiting
  BY <1>1, ConcatProperties DEF Waiting, Retry, bufVars, IInv, TypeOK
<1>4. PICK k \in {0, Len(flusher.payload)} : stored' = stored \cup Queue!First(k)
  BY PayloadIsFirst
<1>5. k \in 0 .. Len(Waiting) /\ 0 \in 0 .. Len(Waiting)
  BY <1>2, <1>4, WaitingAfter
<1>6. Queue!After(0) = Waiting
  BY <1>3, SubSeqFull DEF Queue!After
<1>7. Queue!Fail(k, 0)
  BY <1>3, <1>4, <1>6 DEF Queue!Fail, Retry, bufVars, IInv, TypeOK
<1> QED BY <1>5, <1>7 DEF Queue!Next

\* A result is recorded behind the others, or counted.
LEMMA WriteProbeIsRecord ==
  ASSUME IInv, WriteProbe
  PROVE  Queue!Record
<1>1. flusher.payload \in Seq(Points) /\ buf \in Seq(Points)
  BY DEF IInv, TypeOK
<1>2. recorded + 1 \in Points /\ recorded' = recorded + 1
  BY WriterAssumption DEF IInv, TypeOK, WriteProbe, Points
<1>3. flusher.payload \o Append(buf, recorded + 1) = Append(flusher.payload \o buf, recorded + 1)
  <2> DEFINE p == recorded + 1
  <2>1. p \in Points
    BY <1>2
  <2> HIDE DEF p
  <2>2. flusher.payload \o Append(buf, p) = Append(flusher.payload \o buf, p)
    <3> DEFINE s == flusher.payload
               t == buf
    <3>1. s \in Seq(Points) /\ t \in Seq(Points)
      BY <1>1
    <3> HIDE DEF s, t
    <3>2. s \o Append(t, p) = Append(s \o t, p)
      BY <2>1, <3>1, AppendToConcat
    <3> QED BY <3>2 DEF s, t
  <2> QED BY <2>2 DEF p
<1> QED BY <1>2, <1>3 DEF Queue!Record, WriteProbe, Waiting, serverVars

\* The buffer, the payload in flight, the retries and the limit of writer.go
\* behave like the queue of LossyQueue: oldest first, none lost uncounted, none
\* reordered, none repeated in the queue.
THEOREM WriterImplementsQueue == Spec => ImplementsQueue
<1>1. Init => Queue!Init
  <2>1. <<>> \o <<>> = <<>>
    BY EmptySeq, ConcatEmptySeq
  <2> QED BY <2>1, IdleIsTyped DEF Init, Queue!Init, Waiting
<1>2. IInv /\ [Next]_vars => [Queue!Next]_(Queue!queueVars)
  <2> SUFFICES ASSUME IInv, [Next]_vars PROVE [Queue!Next]_(Queue!queueVars)
    OBVIOUS
  <2> USE DEF vars, serverVars, bufVars, Queue!queueVars
  <2>1. CASE WriteProbe
    BY <2>1, WriteProbeIsRecord DEF Queue!Next
  <2>2. CASE TickFlush
    BY <2>2, TakeMovesNothing DEF TickFlush
  <2>3. CASE SignalFlush
    BY <2>3, TakeMovesNothing DEF SignalFlush, Waiting
  <2>4. CASE CreateDatabase \/ UpdateDatabase \/ RefuseDatabase
    <3>1. flusher'.payload = flusher.payload
      BY <2>4 DEF CreateDatabase, UpdateDatabase, RefuseDatabase, DatabaseReady, IInv, TypeOK
    <3> QED BY <2>4, <3>1
            DEF CreateDatabase, UpdateDatabase, RefuseDatabase, DatabaseReady, Waiting
  <2>5. CASE FailDatabase
    BY <2>5, RetainIsFail DEF FailDatabase
  <2>6. CASE SendConfirmed
    BY <2>6, FlushEndIsStep DEF SendConfirmed, Stores
  <2>7. CASE SendFailed
    BY <2>7, RetryIsStep, RetainIsFail DEF SendFailed, Stores
  <2>8. CASE SendThrottled
    BY <2>8, RetryIsStep, FlushEndIsStep DEF SendThrottled, GiveUp
  <2>9. CASE SendRefused
    BY <2>9, FlushEndIsStep DEF SendRefused, GiveUp
  <2>10. CASE LoopExit
    BY <2>10, TakeMovesNothing DEF LoopExit, Waiting
  <2>11. CASE StopRequested
    BY <2>11 DEF StopRequested, Waiting
  <2>12. CASE UNCHANGED vars
    BY <2>12 DEF Waiting
  <2> QED BY <2>1, <2>2, <2>3, <2>4, <2>5, <2>6, <2>7, <2>8, <2>9, <2>10, <2>11, <2>12
          DEF Next, Flush
<1> QED BY <1>1, <1>2, InitIInv, NextIInv, PTL DEF Spec, ImplementsQueue, Queue!Spec

---------------------------------------------------------------------------
(* The limit                                                               *)

\* What retainFailedPayload puts back fits in front of the lines that came meanwhile.
LEMMA KeptFits ==
  ASSUME NEW payload \in Seq(Points), buf \in Seq(Points), Bytes(buf) <= MaxBufferSize
  PROVE  Bytes(Kept(payload) \o buf) <= MaxBufferSize
<1> DEFINE d == DroppedFrom(payload)
           n == Len(payload)
<1>1. n \in Nat /\ d \in 0 .. n /\ Kept(payload) \in Seq(Points) /\ MaxBufferSize \in Nat
  BY LenProperties, DroppedFromBounded, KeptIsLines, WriterAssumption
<1>2. /\ Bytes(Kept(payload) \o buf) = Bytes(Kept(payload)) + Bytes(buf)
      /\ Bytes(Kept(payload)) \in Nat /\ Bytes(buf) \in Nat
  BY <1>1, BytesOfConcat
<1>3. Bytes(payload) \in Nat
  BY BytesOfConcat
<1>4. CASE Bytes(buf) + Bytes(payload) <= MaxBufferSize
  <2>1. d = 0
    BY <1>4 DEF DroppedFrom
  <2>2. Kept(payload) = payload
    <3>1. Kept(payload) = SubSeq(payload, 1, Len(payload))
      BY <2>1 DEF Kept
    <3> QED
      BY <3>1, SubSeqFull
  <2> QED
    BY <1>2, <1>3, <1>4, <2>2
<1>5. CASE ~(Bytes(buf) + Bytes(payload) <= MaxBufferSize)
  <2> DEFINE S == {k \in 0 .. n : k = n \/ Bytes(SubSeq(payload, 1, k)) >= Excess(payload)}
  <2>1. d \in S
    <3>1. S \in SUBSET Nat /\ n \in S
      BY <1>1
    <3>2. d = Min(S)
      BY <1>5 DEF DroppedFrom
    <3> HIDE DEF S, d, n
    <3>3. \E m \in S : \A x \in S : m <= x
      BY LeastExists, <3>1
    <3> QED
      BY <3>2, <3>3 DEF Min
  <2>2. CASE d = n
    <3>1. Len(Kept(payload)) = 0
      <4>1. Len(SubSeq(payload, d + 1, Len(payload))) = n - d
        BY <1>1, Rest
      <4> QED
        BY <1>1, <2>2, <4>1 DEF Kept
    <3>2. Kept(payload) = <<>>
      BY <1>1, <3>1, EmptySeq
    <3> QED
      BY <1>2, <3>2, BytesOfNothing
  <2>3. CASE d # n
    <3> DEFINE f == SubSeq(payload, 1, d)
    <3>1. Bytes(f) >= Excess(payload)
      BY <2>1, <2>3
    <3>2. f \in Seq(Points) /\ payload = f \o Kept(payload)
      <4>1. /\ 1 \in 1 .. Len(payload) + 1 /\ d \in 1 - 1 .. Len(payload)
            /\ Len(payload) \in d .. Len(payload)
        BY <1>1
      <4>2. SubSeq(payload, 1, d) \o SubSeq(payload, d + 1, Len(payload))
              = SubSeq(payload, 1, Len(payload))
        BY <4>1, ConcatAdjacentSubSeq
      <4>3. \A i \in 1 .. d : payload[i] \in Points
        BY <1>1, ElementOfSeq
      <4>4. SubSeq(payload, 1, d) \in Seq(Points)
        <5>1. 1 \in Int /\ d \in Int
          BY <1>1
        <5> HIDE DEF d
        <5> QED
          BY <4>3, <5>1, SubSeqProperties
      <4> QED
        BY <4>2, <4>4, SubSeqFull DEF Kept
    <3>3. Bytes(payload) = Bytes(f) + Bytes(Kept(payload)) /\ Bytes(f) \in Nat
      <4> HIDE DEF f
      <4> QED
        BY <1>1, <3>2, BytesOfConcat
    <3>4. Excess(payload) = Bytes(buf) + Bytes(payload) - MaxBufferSize
      BY DEF Excess
    <3> HIDE DEF f
    <3> QED
      BY <1>1, <1>2, <1>3, <3>1, <3>3, <3>4
  <2> QED
    BY <2>2, <2>3
<1> QED
  BY <1>4, <1>5

\* The buffer is never longer than its limit, for lines of any sizes and any limit,
\* although the payload in flight comes back when the database fails (writer.go, flush).
THEOREM BufferStaysBounded == Spec => []BufferBounded
<1>1. Init => BufferBounded
  BY BytesOfNothing, WriterAssumption DEF Init, BufferBounded
<1>2. IInv /\ BufferBounded /\ [Next]_vars => BufferBounded'
  <2> SUFFICES ASSUME IInv, BufferBounded, [Next]_vars PROVE BufferBounded'
    OBVIOUS
  <2>1. buf \in Seq(Points) /\ flusher.payload \in Seq(Points) /\ recorded \in 0 .. MaxPoints
    BY DEF IInv, TypeOK
  <2>2. ASSUME Take PROVE BufferBounded'
    BY <2>2, BytesOfNothing, WriterAssumption DEF Take, BufferBounded
  <2>3. ASSUME Retain PROVE BufferBounded'
    BY <2>1, <2>3, KeptFits DEF Retain, BufferBounded
  <2>4. ASSUME buf' = buf PROVE BufferBounded'
    BY <2>4 DEF BufferBounded
  <2>5. ASSUME WriteProbe PROVE BufferBounded'
    <3>1. CASE Bytes(buf) + LineSize[recorded + 1] <= MaxBufferSize
      <4>1. buf' = Append(buf, recorded + 1)
        BY <2>5, <3>1 DEF WriteProbe
      <4>2. recorded + 1 \in Points
        BY <2>1, <2>5, WriterAssumption DEF WriteProbe, Points
      <4> QED
        BY <2>1, <3>1, <4>1, <4>2, BytesOfAppend DEF BufferBounded
    <3>2. CASE ~(Bytes(buf) + LineSize[recorded + 1] <= MaxBufferSize)
      BY <2>4, <2>5, <3>2 DEF WriteProbe
    <3> QED
      BY <3>1, <3>2
  <2>6. Flush => Take \/ Retain \/ buf' = buf
    BY DEF Flush, TickFlush, SignalFlush, CreateDatabase, UpdateDatabase, RefuseDatabase,
           FailDatabase, SendConfirmed, SendFailed, SendThrottled, SendRefused, LoopExit,
           DatabaseReady, bufVars, Retry, GiveUp
  <2>7. StopRequested \/ UNCHANGED vars => buf' = buf
    BY DEF StopRequested, vars, bufVars
  <2> QED
    BY <2>2, <2>3, <2>4, <2>5, <2>6, <2>7 DEF Next
<1> QED
  BY <1>1, <1>2, InitIInv, NextIInv, PTL DEF Spec
=============================================================================
