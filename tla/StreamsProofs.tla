--------------------------- MODULE StreamsProofs ---------------------------
(***************************************************************************)
(* The safety of the event streams, for any number of clients, casters and *)
(* messages and any room of the channels: nobody sends on a closed channel *)
(* or closes one twice, and no open stream misses a change silently.       *)
(***************************************************************************)
EXTENDS Streams, TLAPS, SequenceTheorems

StreamType == [pc : {"out", "register", "read", "write", "leave", "gone"}, msg : Messages]
CasterType == [pc : {"idle", "check", "lock", "cast"}, event : Messages, keepalive : BOOLEAN,
               todo : SUBSET Clients, drain : SUBSET Clients]

\* The goroutine of broadcast b: whom it still has to serve, and what it sends.
CasterOk(b) ==
  /\ caster[b].pc = "cast" => caster[b].todo \subseteq sseClients
  /\ caster[b].pc # "cast" => caster[b].todo = {} /\ caster[b].drain = {}
  /\ caster[b].drain \subseteq caster[b].todo
  /\ \A c, d \in caster[b].drain : c = d
  /\ caster[b].keepalive => caster[b].event = Tick
  /\ caster[b].pc = "idle" => caster[b].event = Tick /\ ~caster[b].keepalive

\* Only registered clients are owed something, and their channels are open; a channel
\* is closed only after its client had registered.
ClientsOk ==
  /\ sseClients \cap closed = {} /\ ~panicked
  /\ \A c \in Clients : c \notin sseClients => owed[c] = {}
  /\ \A c \in Clients : stream[c].pc \in {"out", "register"} => c \notin closed \cup sseClients

OneCasts ==
  \A a, b \in Processes : caster[a].pc = "cast" /\ caster[b].pc = "cast" => a = b

IInv == TypeOK /\ (\A b \in Processes : CasterOk(b)) /\ ClientsOk /\ OneCasts

---------------------------------------------------------------------------
(* Sequences                                                               *)

\* The first element of a sequence and the rest are all of it.
LEMMA RangeOfHeadTail ==
  ASSUME NEW S, NEW s \in Seq(S), s # <<>>
  PROVE  /\ Head(s) \in S /\ Tail(s) \in Seq(S)
         /\ Range(s) \subseteq {Head(s)} \cup Range(Tail(s))
<1>1. Head(s) \in S /\ Tail(s) \in Seq(S) /\ Len(Tail(s)) = Len(s) - 1
      /\ \A i \in 1 .. Len(Tail(s)) : Tail(s)[i] = s[i + 1]
  BY HeadTailProperties
<1>2. Range(s) = {s[i] : i \in 1 .. Len(s)}
      /\ Range(Tail(s)) = {Tail(s)[i] : i \in 1 .. Len(Tail(s))}
  BY <1>1, RangeEquality
<1>3. Len(s) \in Nat \ {0}
  BY EmptySeq
<1>4. ASSUME NEW i \in 1 .. Len(s) PROVE s[i] \in {Head(s)} \cup Range(Tail(s))
  <2>1. CASE i = 1
    <3>1. Head(s) = s[1]
      <4>1. 1 \in 1 .. Len(s) /\ Len(s) \in 1 .. Len(s)
        BY <1>3
      <4> QED BY <4>1, HeadTailOfSubSeq, SubSeqFull
    <3> QED BY <2>1, <3>1
  <2>2. CASE i # 1
    <3>1. i - 1 \in 1 .. Len(Tail(s)) /\ (i - 1) + 1 = i
      BY <1>1, <1>3, <2>2
    <3>2. Tail(s)[i - 1] = s[i]
      BY <1>1, <3>1
    <3> QED BY <1>2, <3>1, <3>2
  <2> QED BY <2>1, <2>2
<1> QED BY <1>1, <1>2, <1>4

\* Appending keeps what is there and adds the element.
LEMMA RangeOfAppend ==
  ASSUME NEW S, NEW s \in Seq(S), NEW e \in S
  PROVE  /\ Append(s, e) \in Seq(S)
         /\ Range(s) \subseteq Range(Append(s, e)) /\ e \in Range(Append(s, e))
<1>1. /\ Append(s, e) \in Seq(S) /\ Len(Append(s, e)) = Len(s) + 1
      /\ \A i \in 1 .. Len(s) : Append(s, e)[i] = s[i]
      /\ Append(s, e)[Len(s) + 1] = e
  BY AppendProperties
<1>2. Len(s) \in Nat
  BY LenProperties
<1>3. Range(s) = {s[i] : i \in 1 .. Len(s)}
      /\ Range(Append(s, e)) = {Append(s, e)[i] : i \in 1 .. Len(Append(s, e))}
  BY <1>1, RangeEquality
<1>4. 1 .. Len(s) \subseteq 1 .. Len(Append(s, e)) /\ Len(s) + 1 \in 1 .. Len(Append(s, e))
  BY <1>1, <1>2
<1> QED BY <1>1, <1>3, <1>4

---------------------------------------------------------------------------
(* Types and locks                                                         *)

LEMMA MessageFacts ==
  /\ Desync \in Messages /\ Tick \in Messages /\ Changes \subseteq Messages
  /\ Tick \notin Changes /\ Desync \notin Changes
BY StreamsAssumption DEF Desync, Tick, Messages, Changes

LEMMA QuietIsOk ==
  /\ Quiet \in CasterType /\ Quiet.pc = "idle" /\ Quiet.event = Tick /\ ~Quiet.keepalive
  /\ Quiet.todo = {} /\ Quiet.drain = {}
BY MessageFacts DEF Quiet, CasterType

\* The types, with the names of this module.
LEMMA TypesAre ==
  ASSUME IInv
  PROVE  /\ stream \in [Clients -> StreamType] /\ caster \in [Processes -> CasterType]
         /\ channel \in [Clients -> Seq(Messages)] /\ owed \in [Clients -> SUBSET Changes]
         /\ sseClients \subseteq Clients /\ closed \subseteq Clients
BY DEF IInv, TypeOK, StreamType, CasterType

LEMMA InitIInv == Init => IInv
<1> SUFFICES ASSUME Init PROVE IInv
  OBVIOUS
<1>1. \A c \in Clients : Outside \in StreamType /\ <<>> \in Seq(Messages)
  BY MessageFacts, EmptySeq DEF Outside, StreamType
<1>2. TypeOK
  <2>1. stream \in [Clients -> StreamType] /\ channel \in [Clients -> Seq(Messages)]
    BY <1>1 DEF Init
  <2>2. caster \in [Processes -> CasterType] /\ owed \in [Clients -> SUBSET Changes]
    BY QuietIsOk DEF Init
  <2>3. 0 \in 0 .. MaxBeats /\ 0 \in 0 .. MaxChanges
    BY StreamsAssumption
  <2> QED BY <2>1, <2>2, <2>3 DEF Init, TypeOK, StreamType, CasterType
<1>3. \A b \in Processes : CasterOk(b)
  BY QuietIsOk DEF Init, CasterOk
<1>4. ClientsOk
  BY DEF Init, ClientsOk
<1>5. OneCasts
  BY QuietIsOk DEF Init, OneCasts
<1> QED BY <1>2, <1>3, <1>4, <1>5 DEF IInv

\* A step of one caster that touches nothing else of the invariant.
LEMMA CasterStep ==
  ASSUME IInv, NEW b \in Processes, NEW r \in CasterType,
         caster' = [caster EXCEPT ![b] = r],
         UNCHANGED <<stream, sseClients, streamsDone, closed, panicked>>,
         beats' \in 0 .. MaxBeats, changes' \in 0 .. MaxChanges,
         channel' \in [Clients -> Seq(Messages)], owed' \in [Clients -> SUBSET Changes],
         \A c \in Clients : c \notin sseClients => owed'[c] = {},
         r.pc = "cast" => r.todo \subseteq sseClients,
         r.pc # "cast" => r.todo = {} /\ r.drain = {},
         r.drain \subseteq r.todo,
         \A c, d \in r.drain : c = d,
         r.keepalive => r.event = Tick,
         r.pc = "idle" => r.event = Tick /\ ~r.keepalive,
         r.pc = "cast" => caster[b].pc = "cast" \/ Unlocked
  PROVE  IInv'
<1>1. caster' \in [Processes -> CasterType]
  BY TypesAre
<1>2. TypeOK'
  BY <1>1 DEF IInv, TypeOK, CasterType
<1>3. \A a \in Processes : CasterOk(a)'
  <2> SUFFICES ASSUME NEW a \in Processes PROVE CasterOk(a)'
    OBVIOUS
  <2>1. CASE a = b
    <3>1. caster'[a] = r
      BY <2>1, TypesAre
    <3> QED BY <3>1 DEF CasterOk
  <2>2. CASE a # b
    <3>1. caster'[a] = caster[a]
      BY <2>2, TypesAre
    <3> QED BY <3>1 DEF CasterOk, IInv
  <2> QED BY <2>1, <2>2
<1>4. ClientsOk'
  BY DEF ClientsOk, IInv
<1>5. OneCasts'
  <2> SUFFICES ASSUME NEW a \in Processes, NEW d \in Processes,
                      caster'[a].pc = "cast", caster'[d].pc = "cast"
               PROVE  a = d
    BY DEF OneCasts
  <2>1. \A e \in Processes : caster'[e] = IF e = b THEN r ELSE caster[e]
    BY TypesAre
  <2> QED BY <2>1 DEF IInv, OneCasts, Unlocked
<1> QED BY <1>2, <1>3, <1>4, <1>5 DEF IInv

\* A step of clients that touches no caster. Only between broadcasts may sseClients
\* change.
LEMMA ClientStep ==
  ASSUME IInv, UNCHANGED <<caster, beats, changes>>,
         stream' \in [Clients -> StreamType], channel' \in [Clients -> Seq(Messages)],
         owed' \in [Clients -> SUBSET Changes], streamsDone' \in BOOLEAN,
         sseClients' \subseteq Clients, closed' \subseteq Clients, ~panicked', panicked' \in BOOLEAN,
         sseClients' = sseClients \/ Unlocked,
         sseClients' \cap closed' = {},
         \A c \in Clients : c \notin sseClients' => owed'[c] = {},
         \A c \in Clients : stream'[c].pc \in {"out", "register"} => c \notin closed' \cup sseClients'
  PROVE  IInv'
<1>1. TypeOK'
  BY DEF IInv, TypeOK, StreamType
<1>2. \A a \in Processes : CasterOk(a)'
  BY DEF CasterOk, IInv, Unlocked
<1>3. ClientsOk'
  BY DEF ClientsOk
<1>4. OneCasts'
  BY DEF OneCasts, IInv
<1> QED BY <1>1, <1>2, <1>3, <1>4 DEF IInv

---------------------------------------------------------------------------
(* Broadcasts                                                              *)

\* What a caster does alone.
LEMMA CasterMoves ==
  ASSUME IInv,
         \/ Beat
         \/ \E b \in Processes : Check(b) \/ Lock(b) \/ Unlock(b)
  PROVE  IInv'
<1> USE TypesAre
<1>0. /\ channel \in [Clients -> Seq(Messages)] /\ owed \in [Clients -> SUBSET Changes]
      /\ beats \in 0 .. MaxBeats /\ changes \in 0 .. MaxChanges
      /\ \A c \in Clients : c \notin sseClients => owed[c] = {}
  BY DEF IInv, TypeOK, ClientsOk
<1>1. CASE Beat
  <2> DEFINE r1 == [caster[Heart] EXCEPT !.pc = "check"]
             r2 == [caster[Heart] EXCEPT !.pc = "lock", !.keepalive = TRUE]
  <2>1. Heart \in Processes /\ caster[Heart] \in CasterType /\ CasterOk(Heart)
        /\ caster[Heart].pc = "idle"
    BY <1>1 DEF Processes, IInv, Beat
  <2>2. r1 \in CasterType /\ r2 \in CasterType
    BY <2>1 DEF CasterType
  <2>3. beats' \in 0 .. MaxBeats /\ UNCHANGED <<changes, channel, owed>>
        /\ UNCHANGED <<stream, sseClients, streamsDone, closed, panicked>>
    BY <1>0, <1>1, StreamsAssumption DEF Beat, clientVars
  <2>6. /\ r1.pc = "check" /\ r2.pc = "lock" /\ r1.event = Tick /\ r2.event = Tick
        /\ r1.todo = {} /\ r2.todo = {} /\ r1.drain = {} /\ r2.drain = {}
    BY <2>1 DEF CasterType, CasterOk
  <2>7. caster' = [caster EXCEPT ![Heart] = r1] \/ caster' = [caster EXCEPT ![Heart] = r2]
    BY <1>1 DEF Beat
  <2> HIDE DEF r1, r2
  <2>4. CASE caster' = [caster EXCEPT ![Heart] = r1]
    BY <2>1, <2>2, <2>3, <2>4, <2>6, <1>0, CasterStep
  <2>5. CASE caster' = [caster EXCEPT ![Heart] = r2]
    BY <2>1, <2>2, <2>3, <2>5, <2>6, <1>0, CasterStep
  <2> QED BY <2>4, <2>5, <2>7
<1>2. ASSUME NEW b \in Processes, Check(b) \/ Lock(b) \/ Unlock(b)
      PROVE  IInv'
  <2>1. caster[b] \in CasterType /\ CasterOk(b)
    BY DEF IInv
  <2>2. UNCHANGED <<beats, changes, channel, owed>>
        /\ UNCHANGED <<stream, sseClients, streamsDone, closed, panicked>>
    BY <1>2 DEF Check, Lock, Unlock, clientVars
  <2> DEFINE r1 == [caster[b] EXCEPT !.pc = "lock"]
             r2 == [caster[b] EXCEPT !.pc = "cast", !.todo = sseClients]
  <2>3. r1 \in CasterType /\ r2 \in CasterType
    BY <2>1 DEF CasterType
  <2>4. CASE caster' = [caster EXCEPT ![b] = Quiet]
    BY <1>0, <2>1, <2>2, <2>4, QuietIsOk, CasterStep
  <2>7. /\ r1.pc = "lock" /\ r1.todo = caster[b].todo /\ r1.drain = caster[b].drain
        /\ r1.event = caster[b].event /\ r1.keepalive = caster[b].keepalive
        /\ r2.pc = "cast" /\ r2.todo = sseClients /\ r2.drain = caster[b].drain
        /\ r2.event = caster[b].event /\ r2.keepalive = caster[b].keepalive
    BY <2>1 DEF CasterType
  <2>8. \/ caster' = [caster EXCEPT ![b] = Quiet]
        \/ caster[b].pc = "check" /\ caster' = [caster EXCEPT ![b] = r1]
        \/ caster[b].pc = "lock" /\ Unlocked /\ caster' = [caster EXCEPT ![b] = r2]
    BY <1>2 DEF Check, Lock, Unlock
  <2>9. /\ caster[b].pc # "cast" => caster[b].todo = {} /\ caster[b].drain = {}
        /\ caster[b].keepalive => caster[b].event = Tick
    BY <2>1 DEF CasterOk
  <2> HIDE DEF r1, r2
  <2>5. CASE caster[b].pc = "check" /\ caster' = [caster EXCEPT ![b] = r1]
    BY <1>0, <2>2, <2>3, <2>5, <2>7, <2>9, CasterStep
  <2>6. CASE caster[b].pc = "lock" /\ Unlocked /\ caster' = [caster EXCEPT ![b] = r2]
    BY <1>0, <2>2, <2>3, <2>6, <2>7, <2>9, CasterStep
  <2> QED BY <2>4, <2>5, <2>6, <2>8
<1> QED BY <1>1, <1>2

\* A change is owed to the clients that are registered.
LEMMA ChangeMoves ==
  ASSUME IInv, NEW b \in Casters, Change(b)
  PROVE  IInv' /\ changes + 1 \in Changes
<1>1. changes + 1 \in Changes /\ changes + 1 \in Messages /\ changes' \in 0 .. MaxChanges
  BY StreamsAssumption DEF Change, IInv, TypeOK, Changes, Messages
<1> DEFINE n == changes + 1
           r == [caster[b] EXCEPT !.pc = "check", !.event = n]
<1>2. b \in Processes /\ caster[b] \in CasterType /\ CasterOk(b) /\ caster[b].pc = "idle"
  BY TypesAre DEF Processes, IInv, Change
<1>3. n \in Changes /\ n \in Messages
  BY <1>1
<1> HIDE DEF n
<1>4. r \in CasterType /\ r.pc = "check" /\ r.todo = {} /\ r.drain = {} /\ ~r.keepalive
  BY <1>2, <1>3 DEF CasterType, CasterOk
<1>5. /\ caster' = [caster EXCEPT ![b] = r]
      /\ owed' = [c \in Clients |-> IF c \in sseClients THEN owed[c] \cup {n} ELSE owed[c]]
  BY DEF Change, n
<1>6. /\ owed' \in [Clients -> SUBSET Changes]
      /\ \A c \in Clients : c \notin sseClients => owed'[c] = {}
  BY <1>3, <1>5, TypesAre DEF IInv, ClientsOk
<1>7. UNCHANGED <<beats, channel>> /\ UNCHANGED <<stream, sseClients, streamsDone, closed, panicked>>
  BY DEF Change, clientVars
<1>8. channel \in [Clients -> Seq(Messages)] /\ beats \in 0 .. MaxBeats
  BY DEF IInv, TypeOK
<1> HIDE DEF r
<1>9. IInv'
  BY <1>1, <1>2, <1>4, <1>5, <1>6, <1>7, <1>8, CasterStep
<1> QED BY <1>1, <1>9

\* A send, and a drain: to a registered client, whose channel is open.
LEMMA SendMoves ==
  ASSUME IInv, NEW b \in Processes, NEW c \in Clients, Send(b, c) \/ Drain(b, c)
  PROVE  IInv'
<1>0. /\ channel \in [Clients -> Seq(Messages)] /\ owed \in [Clients -> SUBSET Changes]
      /\ beats \in 0 .. MaxBeats /\ changes \in 0 .. MaxChanges
      /\ \A d \in Clients : d \notin sseClients => owed[d] = {}
  BY DEF IInv, TypeOK, ClientsOk
<1>1. caster[b] \in CasterType /\ CasterOk(b) /\ caster[b].pc = "cast"
      /\ c \in caster[b].todo /\ c \in sseClients /\ c \notin closed
  BY TypesAre DEF IInv, CasterOk, ClientsOk, Send, Drain
<1>2. UNCHANGED <<beats, changes, stream, sseClients, streamsDone, closed, owed>>
  BY DEF Send, Drain
<1>3. ASSUME NEW m \in Messages, Put(c, m)
      PROVE  channel' \in [Clients -> Seq(Messages)] /\ panicked' = panicked
  <2>1. Append(channel[c], m) \in Seq(Messages)
    BY <1>0, RangeOfAppend
  <2>2. channel' \in [Clients -> Seq(Messages)]
    BY <1>0, <1>3, <2>1 DEF Put
  <2>3. panicked' = panicked
    BY <1>1, <1>3 DEF Put, IInv, TypeOK
  <2> QED BY <2>2, <2>3
<1>4. caster[b].event \in Messages /\ Desync \in Messages
  BY <1>1, MessageFacts DEF CasterType
<1> DEFINE r1 == [caster[b] EXCEPT !.todo = caster[b].todo \ {c}]
           r2 == [caster[b] EXCEPT !.drain = {c}]
           r3 == [caster[b] EXCEPT !.drain = {}, !.todo = caster[b].todo \ {c}]
<1>5. r1 \in CasterType /\ r2 \in CasterType /\ r3 \in CasterType
  BY <1>1 DEF CasterType
<1>10. /\ r1.pc = "cast" /\ r1.todo = caster[b].todo \ {c} /\ r1.drain = caster[b].drain
       /\ r2.pc = "cast" /\ r2.todo = caster[b].todo /\ r2.drain = {c}
       /\ r3.pc = "cast" /\ r3.todo = caster[b].todo \ {c} /\ r3.drain = {}
       /\ \A x \in {r1, r2, r3} : x.event = caster[b].event /\ x.keepalive = caster[b].keepalive
  BY <1>1 DEF CasterType
<1>11. /\ caster[b].todo \subseteq sseClients
       /\ caster[b].keepalive => caster[b].event = Tick
  BY <1>1 DEF CasterOk
<1>12. Send(b, c) => caster[b].drain = {}
  BY DEF Send
<1>15. ASSUME Send(b, c), ~Full(c)
       PROVE  Put(c, caster[b].event) /\ caster' = [caster EXCEPT ![b] = r1]
  <2>1. Put(c, caster[b].event) /\ caster' = [caster EXCEPT ![b].todo = @ \ {c}]
    BY <1>15 DEF Send
  <2> QED BY <1>1, <2>1, TypesAre
<1>16. ASSUME Send(b, c), Full(c)
       PROVE  /\ UNCHANGED <<channel, panicked>>
              /\ caster' = [caster EXCEPT ![b] = IF caster[b].keepalive THEN r1 ELSE r2]
  <2>1. /\ UNCHANGED <<channel, panicked>>
        /\ caster' = [caster EXCEPT ![b] =
                         IF @.keepalive THEN [@ EXCEPT !.todo = caster[b].todo \ {c}]
                         ELSE [@ EXCEPT !.drain = {c}]]
    BY <1>16 DEF Send
  <2> QED BY <1>1, <2>1, TypesAre
<1>17. ASSUME Drain(b, c)
       PROVE  \/ /\ channel[c] # <<>> /\ channel' = [channel EXCEPT ![c] = Tail(@)]
                 /\ UNCHANGED <<caster, panicked>>
              \/ Put(c, Desync) /\ caster' = [caster EXCEPT ![b] = r3]
  BY <1>17 DEF Drain
<1> HIDE DEF r1, r2, r3
<1>6. CASE /\ Send(b, c) /\ caster' = [caster EXCEPT ![b] = r1]
           /\ channel' \in [Clients -> Seq(Messages)] /\ panicked' = panicked
  BY <1>0, <1>1, <1>2, <1>5, <1>6, <1>10, <1>11, <1>12, CasterStep
<1>7. CASE /\ Send(b, c) /\ caster' = [caster EXCEPT ![b] = r2]
           /\ UNCHANGED <<channel, panicked>>
  BY <1>0, <1>1, <1>2, <1>5, <1>7, <1>10, <1>11, <1>12, CasterStep
<1>8. CASE /\ Drain(b, c) /\ caster' = [caster EXCEPT ![b] = r3]
           /\ channel' \in [Clients -> Seq(Messages)] /\ panicked' = panicked
  BY <1>0, <1>1, <1>2, <1>5, <1>8, <1>10, <1>11, CasterStep
<1>9. CASE /\ channel[c] # <<>> /\ channel' = [channel EXCEPT ![c] = Tail(@)]
           /\ UNCHANGED <<caster, panicked>>
  <2>1. Tail(channel[c]) \in Seq(Messages)
    BY <1>0, <1>9, RangeOfHeadTail
  <2>2. channel' \in [Clients -> Seq(Messages)]
    BY <1>0, <1>9, <2>1
  <2> QED BY <1>2, <1>9, <2>2 DEF IInv, TypeOK, CasterOk, ClientsOk, OneCasts
<1>13. CASE Send(b, c)
  <2>1. CASE Put(c, caster[b].event) /\ caster' = [caster EXCEPT ![b] = r1]
    BY <1>13, <2>1, <1>3, <1>4, <1>6
  <2>2. CASE UNCHANGED <<channel, panicked>> /\ caster' = [caster EXCEPT ![b] = r1]
    BY <1>0, <1>13, <2>2, <1>6
  <2>3. CASE UNCHANGED <<channel, panicked>> /\ caster' = [caster EXCEPT ![b] = r2]
    BY <1>13, <2>3, <1>7
  <2> QED BY <1>13, <1>15, <1>16, <2>1, <2>2, <2>3
<1>14. CASE Drain(b, c)
  <2>1. CASE Put(c, Desync) /\ caster' = [caster EXCEPT ![b] = r3]
    BY <1>14, <2>1, <1>3, <1>4, <1>8
  <2> QED BY <1>14, <1>17, <2>1, <1>9
<1> QED BY <1>13, <1>14

---------------------------------------------------------------------------
(* Streams                                                                 *)

\* The steps of a handler and the shutdown.
LEMMA StreamMoves ==
  ASSUME IInv, \/ CloseStreams
               \/ \E c \in Clients : Open(c) \/ Handler(c) \/ Disconnect(c)
  PROVE  IInv'
<1>0. /\ stream \in [Clients -> StreamType] /\ channel \in [Clients -> Seq(Messages)]
      /\ owed \in [Clients -> SUBSET Changes]
      /\ streamsDone \in BOOLEAN /\ sseClients \subseteq Clients /\ closed \subseteq Clients
      /\ ~panicked /\ panicked \in BOOLEAN /\ sseClients \cap closed = {}
      /\ \A c \in Clients : c \notin sseClients => owed[c] = {}
      /\ \A c \in Clients : stream[c].pc \in {"out", "register"} => c \notin closed
      /\ \A c \in Clients : stream[c].pc \in {"out", "register"} => c \notin sseClients
  BY TypesAre DEF IInv, TypeOK, ClientsOk
<1>1. CASE CloseStreams
  <2>1. ~panicked' /\ panicked' \in BOOLEAN
    BY <1>0, <1>1 DEF CloseStreams
  <2>2. closed' = closed \cup sseClients /\ sseClients' = {} /\ stream' = stream /\ streamsDone' = TRUE
        /\ owed' = [c \in Clients |-> {}] /\ UNCHANGED <<beats, changes, channel, caster>> /\ Unlocked
    BY <1>1 DEF CloseStreams
  <2> QED BY <1>0, <2>1, <2>2, ClientStep
<1>2. ASSUME NEW c \in Clients, Open(c) \/ Handler(c) \/ Disconnect(c)
      PROVE  IInv'
  <2>0. stream[c] \in StreamType /\ Tick \in Messages
    BY <1>0, MessageFacts
  <2>1. ASSUME NEW p \in {"register", "gone", "write", "leave"},
               stream' = [stream EXCEPT ![c].pc = p]
        PROVE  /\ stream' \in [Clients -> StreamType] /\ stream'[c].pc = p
               /\ \A d \in Clients : d # c => stream'[d] = stream[d]
    BY <1>0, <2>0, <2>1 DEF StreamType
  <2>2. CASE Open(c)
    <3>1. stream[c].pc = "out" /\ stream' = [stream EXCEPT ![c].pc = "register"]
          /\ UNCHANGED <<beats, changes, sseClients, streamsDone, channel, closed, panicked, caster, owed>>
      BY <2>2 DEF Open
    <3> QED BY <1>0, <2>1, <3>1, ClientStep
  <2>3. CASE Register(c)
    <3>1. /\ stream' \in [Clients -> StreamType] /\ Unlocked /\ stream[c].pc = "register"
          /\ stream'[c].pc \in {"gone", "write"}
          /\ \A d \in Clients : d # c => stream'[d] = stream[d]
      BY <2>1, <2>3 DEF Register
    <3>2. /\ sseClients' \in {sseClients, sseClients \cup {c}}
          /\ UNCHANGED <<beats, changes, streamsDone, channel, closed, panicked, caster, owed>>
      BY <2>3 DEF Register
    <3> QED BY <1>0, <3>1, <3>2, ClientStep
  <2>4. CASE Read(c)
    <3>1. CASE channel[c] # <<>>
      <4>1. Head(channel[c]) \in Messages /\ Tail(channel[c]) \in Seq(Messages)
        BY <1>0, <3>1, RangeOfHeadTail
      <4>2. /\ channel' = [channel EXCEPT ![c] = Tail(channel[c])]
            /\ stream' = [stream EXCEPT ![c] = [stream[c] EXCEPT !.pc = "write", !.msg = Head(channel[c])]]
        BY <2>4, <3>1 DEF Read
      <4>3. [stream[c] EXCEPT !.pc = "write", !.msg = Head(channel[c])] \in StreamType
        BY <2>0, <4>1 DEF StreamType
      <4>4. channel' \in [Clients -> Seq(Messages)] /\ stream' \in [Clients -> StreamType]
        BY <1>0, <4>1, <4>2, <4>3
      <4>5. stream'[c].pc = "write" /\ \A d \in Clients : d # c => stream'[d] = stream[d]
        BY <1>0, <2>0, <4>2 DEF StreamType
      <4>6. UNCHANGED <<beats, changes, sseClients, streamsDone, closed, panicked, caster, owed>>
        BY <2>4 DEF Read
      <4> QED BY <1>0, <4>4, <4>5, <4>6, ClientStep
    <3>2. CASE ~(channel[c] # <<>>)
      <4>1. stream' = [stream EXCEPT ![c].pc = "leave"]
            /\ UNCHANGED <<beats, changes, sseClients, streamsDone, channel, closed, panicked, caster, owed>>
        BY <2>4, <3>2 DEF Read
      <4> QED BY <1>0, <2>1, <4>1, ClientStep
    <3> QED BY <3>1, <3>2
  <2>5. CASE Write(c) \/ Disconnect(c)
    <3>1. \A p \in {"read", "leave"} : [stream[c] EXCEPT !.pc = p, !.msg = Tick] \in StreamType
      BY <2>0 DEF StreamType
    <3>2. PICK p \in {"read", "leave"} : stream' = [stream EXCEPT ![c] = [stream[c] EXCEPT !.pc = p, !.msg = Tick]]
      BY <2>5 DEF Write, Disconnect
    <3>3. /\ stream' \in [Clients -> StreamType]
          /\ stream'[c].pc = p /\ \A d \in Clients : d # c => stream'[d] = stream[d]
      BY <1>0, <2>0, <3>1, <3>2 DEF StreamType
    <3>4. /\ owed' \in [Clients -> SUBSET Changes]
          /\ \A d \in Clients : d \notin sseClients => owed'[d] = {}
      <4>1. PICK rest \in SUBSET owed[c] : owed' = [owed EXCEPT ![c] = rest]
        <5>1. CASE Write(c)
          <6>1. owed' = [owed EXCEPT ![c] = IF stream[c].msg = Desync THEN {} ELSE owed[c] \ {stream[c].msg}]
            BY <5>1 DEF Write
          <6> QED BY <6>1
        <5>2. CASE Disconnect(c)
          <6>1. owed' = [owed EXCEPT ![c] = owed[c]]
            BY <1>0, <5>2 DEF Disconnect
          <6> QED BY <6>1
        <5> QED BY <2>5, <5>1, <5>2
      <4>2. owed'[c] = rest /\ \A d \in Clients : d # c => owed'[d] = owed[d]
        BY <1>0, <4>1
      <4> QED BY <1>0, <4>1, <4>2
    <3>5. UNCHANGED <<beats, changes, sseClients, streamsDone, channel, closed, panicked, caster>>
      BY <2>5 DEF Write, Disconnect
    <3> QED BY <1>0, <3>3, <3>4, <3>5, ClientStep
  <2>6. CASE Leave(c)
    <3>1. /\ stream' \in [Clients -> StreamType] /\ stream'[c].pc = "gone"
          /\ \A d \in Clients : d # c => stream'[d] = stream[d]
      BY <2>1, <2>6 DEF Leave
    <3>2. /\ owed' \in [Clients -> SUBSET Changes] /\ owed'[c] = {}
          /\ \A d \in Clients : d # c => owed'[d] = owed[d]
      BY <1>0, <2>6 DEF Leave
    <3>3. sseClients' = sseClients \ {c}
      BY <2>6 DEF Leave
    <3>4. ~panicked' /\ panicked' \in BOOLEAN
      BY <1>0, <2>6 DEF Leave
    <3>5. closed' \in {closed, closed \cup {c}} /\ closed' \subseteq Clients
          /\ sseClients' \cap closed' = {}
      BY <1>0, <2>6 DEF Leave
    <3>6. UNCHANGED <<beats, changes, streamsDone, channel, caster>> /\ Unlocked
      BY <2>6 DEF Leave
    <3> QED BY <1>0, <3>1, <3>2, <3>3, <3>4, <3>5, <3>6, ClientStep
  <2> QED BY <1>2, <2>2, <2>3, <2>4, <2>5, <2>6 DEF Handler
<1> QED BY <1>1, <1>2

LEMMA NextIInv == IInv /\ [Next]_vars => IInv'
<1> SUFFICES ASSUME IInv, [Next]_vars PROVE IInv'
  OBVIOUS
<1>1. CASE UNCHANGED vars
  BY <1>1 DEF vars, clientVars, IInv, TypeOK, CasterOk, ClientsOk, OneCasts
<1>2. CASE Next
  BY <1>2, CasterMoves, ChangeMoves, SendMoves, StreamMoves DEF Next, Cast
<1> QED BY <1>1, <1>2

\* A broadcast, the handlers that leave and the shutdown never send on a closed
\* channel, nor close one twice (server.go, broadcastEvent, handleSSE, CloseStreams).
THEOREM StreamsNeverPanic == Spec => []NoPanic
<1>1. IInv => NoPanic
  BY DEF IInv, ClientsOk, NoPanic
<1> QED BY <1>1, InitIInv, NextIInv, PTL DEF Spec

---------------------------------------------------------------------------
(* What an open stream was not told is on its way                          *)

\* A broadcast that will give client c its event n, or a desync.
Carries(x, c, n) ==
  \/ /\ x.event = n
     /\ x.pc \in {"check", "lock"} \/ (x.pc = "cast" /\ c \in x.todo)
  \/ c \in x.drain

Buffered(c, n) == n \in Range(channel[c]) \/ Desync \in Range(channel[c])

Written(c, n) == stream[c].pc = "write" /\ stream[c].msg \in {n, Desync}

LEMMA ThreeWays ==
  ASSUME NEW c, NEW n
  PROVE  OnItsWay(c, n) <=> \/ \E b \in Processes : Carries(caster[b], c, n)
                            \/ Buffered(c, n) \/ Written(c, n)
BY DEF OnItsWay, Carries, Buffered, Written

LEMMA ThreeWaysNext ==
  ASSUME NEW c, NEW n
  PROVE  OnItsWay(c, n)' <=> \/ \E b \in Processes : Carries(caster'[b], c, n)
                             \/ Buffered(c, n)' \/ Written(c, n)'
BY DEF OnItsWay, Carries, Buffered, Written

\* A step of one broadcast keeps what the others carry.
LEMMA WayKept ==
  ASSUME IInv, NEW b \in Processes, NEW r, caster' = [caster EXCEPT ![b] = r],
         NEW c, NEW n, OnItsWay(c, n),
         stream' = stream, Buffered(c, n) => Buffered(c, n)',
         Carries(caster[b], c, n) => Carries(r, c, n) \/ Buffered(c, n)'
  PROVE  OnItsWay(c, n)'
<1>1. \A a \in Processes : caster'[a] = IF a = b THEN r ELSE caster[a]
  BY TypesAre
<1>2. CASE Buffered(c, n) \/ Written(c, n)
  BY <1>2, ThreeWaysNext DEF Written
<1>3. CASE \E a \in Processes : Carries(caster[a], c, n)
  <2>1. PICK a \in Processes : Carries(caster[a], c, n)
    BY <1>3
  <2>2. CASE a = b
    <3>1. Carries(caster'[b], c, n) \/ Buffered(c, n)'
      BY <1>1, <2>1, <2>2
    <3> QED BY <3>1, ThreeWaysNext
  <2>3. CASE a # b
    <3>1. Carries(caster'[a], c, n)
      BY <1>1, <2>1, <2>3
    <3> QED BY <3>1, ThreeWaysNext
  <2> QED BY <2>2, <2>3
<1> QED BY <1>2, <1>3, ThreeWays

\* A message that is put in a channel is in it, and the others stay.
LEMMA PutKeeps ==
  ASSUME IInv, NEW c \in Clients, NEW d \in Clients, NEW m \in Messages, Put(d, m)
  PROVE  /\ Range(channel[c]) \subseteq Range(channel'[c])
         /\ c = d => m \in Range(channel'[c])
<1>1. channel[d] \in Seq(Messages) /\ channel' = [channel EXCEPT ![d] = Append(channel[d], m)]
  BY TypesAre DEF Put
<1>2. CASE c = d
  <2>1. channel'[c] = Append(channel[d], m)
    BY <1>1, <1>2, TypesAre
  <2> QED BY <1>1, <1>2, <2>1, RangeOfAppend
<1>3. CASE c # d
  BY <1>1, <1>3, TypesAre
<1> QED BY <1>2, <1>3

LEMMA CasterKeeps ==
  ASSUME IInv, NEW b \in Processes, NEW c \in Clients, c \in sseClients, NEW n \in Changes,
         OnItsWay(c, n),
         \/ Check(b) \/ Lock(b) \/ Unlock(b)
         \/ b \in Casters /\ Change(b)
         \/ b = Heart /\ Beat
  PROVE  OnItsWay(c, n)'
<1>1. caster[b] \in CasterType /\ CasterOk(b) /\ n # Tick
  BY TypesAre, MessageFacts DEF IInv
<1>2. UNCHANGED <<channel, stream>>
  BY DEF Check, Lock, Unlock, Change, Beat, clientVars
<1>3. Buffered(c, n) => Buffered(c, n)'
  BY <1>2 DEF Buffered
<1>4. CASE Unlock(b) \/ (b \in Casters /\ Change(b)) \/ (b = Heart /\ Beat)
  <2>1. ~Carries(caster[b], c, n)
    BY <1>1, <1>4 DEF Carries, CasterOk, Unlock, Change, Beat
  <2>2. \E r : caster' = [caster EXCEPT ![b] = r]
    BY <1>4 DEF Unlock, Change, Beat
  <2> QED BY <1>2, <1>3, <2>1, <2>2, WayKept
<1>5. CASE Check(b)
  <2> DEFINE r == [caster[b] EXCEPT !.pc = "lock"]
  <2>1. caster' = [caster EXCEPT ![b] = r] /\ caster[b].pc = "check"
    BY <1>5 DEF Check
  <2>2. Carries(caster[b], c, n) => Carries(r, c, n)
    BY <1>1, <2>1 DEF CasterType, Carries
  <2> HIDE DEF r
  <2> QED BY <1>2, <1>3, <2>1, <2>2, WayKept
<1>6. CASE Lock(b)
  <2> DEFINE r == [caster[b] EXCEPT !.pc = "cast", !.todo = sseClients]
  <2>1. caster' = [caster EXCEPT ![b] = r] /\ caster[b].pc = "lock"
    BY <1>6 DEF Lock
  <2>2. Carries(caster[b], c, n) => Carries(r, c, n)
    BY <1>1, <2>1 DEF CasterType, Carries
  <2> HIDE DEF r
  <2> QED BY <1>2, <1>3, <2>1, <2>2, WayKept
<1> QED BY <1>4, <1>5, <1>6

\* What leaves the list of a broadcast is in the channel, or a desync is.
LEMMA SendKeeps ==
  ASSUME IInv, NEW b \in Processes, NEW c \in Clients, NEW d \in Clients, NEW n \in Changes,
         OnItsWay(c, n), Send(b, d) \/ Drain(b, d)
  PROVE  OnItsWay(c, n)'
<1>1. caster[b] \in CasterType /\ CasterOk(b) /\ n # Tick /\ caster[b].event \in Messages
  BY TypesAre, MessageFacts DEF IInv, CasterType
<1>2. stream' = stream
  BY DEF Send, Drain
<1> DEFINE r1 == [caster[b] EXCEPT !.todo = caster[b].todo \ {d}]
           r2 == [caster[b] EXCEPT !.drain = {d}]
           r3 == [caster[b] EXCEPT !.drain = {}, !.todo = caster[b].todo \ {d}]
<1>3. /\ r1.pc = caster[b].pc /\ r1.todo = caster[b].todo \ {d} /\ r1.drain = caster[b].drain
      /\ r2.pc = caster[b].pc /\ r2.todo = caster[b].todo /\ r2.drain = {d}
      /\ r3.pc = caster[b].pc /\ r3.todo = caster[b].todo \ {d} /\ r3.drain = {}
      /\ \A x \in {r1, r2, r3} : x.event = caster[b].event
  BY <1>1 DEF CasterType
<1>4. CASE Send(b, d) /\ ~Full(d)
  <2>1. Put(d, caster[b].event) /\ caster' = [caster EXCEPT ![b].todo = @ \ {d}]
        /\ caster[b].drain = {}
    BY <1>4 DEF Send
  <2>2. caster' = [caster EXCEPT ![b] = r1]
    BY <1>1, <2>1, TypesAre
  <2> HIDE DEF r1, r2, r3
  <2>3. Buffered(c, n) => Buffered(c, n)'
    BY <1>1, <2>1, PutKeeps DEF Buffered
  <2>4. Carries(caster[b], c, n) => Carries(r1, c, n) \/ Buffered(c, n)'
    <3>1. c = d => caster[b].event \in Range(channel'[c])
      BY <1>1, <2>1, PutKeeps
    <3> QED BY <1>3, <2>1, <3>1 DEF Carries, Buffered
  <2> QED BY <1>2, <2>2, <2>3, <2>4, WayKept
<1>5. CASE Send(b, d) /\ Full(d)
  <2>1. /\ UNCHANGED <<channel, panicked>> /\ caster[b].drain = {} /\ caster[b].pc = "cast"
        /\ caster' = [caster EXCEPT ![b] =
                         IF @.keepalive THEN [@ EXCEPT !.todo = caster[b].todo \ {d}]
                         ELSE [@ EXCEPT !.drain = {d}]]
    BY <1>5 DEF Send
  <2>2. caster' = [caster EXCEPT ![b] = IF caster[b].keepalive THEN r1 ELSE r2]
    BY <1>1, <2>1, TypesAre
  <2> HIDE DEF r1, r2, r3
  <2>3. Buffered(c, n) => Buffered(c, n)'
    BY <2>1 DEF Buffered
  <2>4. CASE caster[b].keepalive
    <3>1. ~Carries(caster[b], c, n)
      BY <1>1, <2>1, <2>4 DEF Carries, CasterOk
    <3> QED BY <1>2, <2>2, <2>3, <2>4, <3>1, WayKept
  <2>5. CASE ~caster[b].keepalive
    <3>1. Carries(caster[b], c, n) => Carries(r2, c, n)
      BY <1>3, <2>1 DEF Carries
    <3> QED BY <1>2, <2>2, <2>3, <2>5, <3>1, WayKept
  <2> QED BY <2>4, <2>5
<1>6. CASE Drain(b, d) /\ channel[d] # <<>>
  <2>1. d \in caster[b].drain /\ channel' = [channel EXCEPT ![d] = Tail(@)] /\ UNCHANGED caster
    BY <1>6 DEF Drain
  <2>2. CASE c = d
    <3>1. Carries(caster'[b], c, n)
      BY <2>1, <2>2 DEF Carries
    <3> QED BY <3>1, ThreeWaysNext
  <2>3. CASE c # d
    <3>1. channel'[c] = channel[c]
      BY <2>1, <2>3, TypesAre
    <3> QED BY <1>2, <2>1, <3>1 DEF OnItsWay
  <2> QED BY <2>2, <2>3
<1>7. CASE Drain(b, d) /\ channel[d] = <<>>
  <2>1. Put(d, Desync) /\ d \in caster[b].drain /\ caster' = [caster EXCEPT ![b] = r3]
    BY <1>7 DEF Drain
  <2> HIDE DEF r1, r2, r3
  <2>2. Range(channel[c]) \subseteq Range(channel'[c]) /\ (c = d => Desync \in Range(channel'[c]))
    BY <2>1, PutKeeps, MessageFacts
  <2>3. Carries(caster[b], c, n) => Carries(r3, c, n) \/ Buffered(c, n)'
    BY <1>1, <1>3, <2>1, <2>2 DEF Carries, Buffered, CasterOk
  <2> QED BY <1>2, <2>1, <2>2, <2>3, WayKept DEF Buffered
<1> QED BY <1>4, <1>5, <1>6, <1>7 DEF Full

\* A handler takes the first message of its channel, and writes it.
LEMMA HandlerKeeps ==
  ASSUME IInv, NEW c \in Clients, NEW d \in Clients, NEW n \in owed'[c],
         OnItsWay(c, n), stream'[c].pc # "leave", c \in sseClients',
         Open(d) \/ Handler(d) \/ Disconnect(d)
  PROVE  OnItsWay(c, n)'
<1>1. UNCHANGED caster /\ stream[d] \in StreamType /\ stream \in [Clients -> StreamType]
  BY TypesAre DEF Open, Handler, Register, Read, Write, Leave, Disconnect
<1>2. CASE c # d
  <2>1. stream'[c] = stream[c] /\ channel'[c] = channel[c]
    BY <1>1, <1>2, TypesAre DEF Open, Handler, Register, Read, Write, Leave, Disconnect
  <2> QED BY <1>1, <2>1 DEF OnItsWay
<1>3. CASE c = d /\ Read(d)
  <2>1. /\ channel[c] # <<>> /\ stream[c].pc = "read"
        /\ channel' = [channel EXCEPT ![c] = Tail(@)]
        /\ stream' = [stream EXCEPT ![c] = [@ EXCEPT !.pc = "write", !.msg = Head(channel[c])]]
    BY <1>1, <1>3 DEF Read, StreamType
  <2>2. Range(channel[c]) \subseteq {Head(channel[c])} \cup Range(Tail(channel[c]))
    BY <2>1, TypesAre, RangeOfHeadTail
  <2>3. /\ channel'[c] = Tail(channel[c])
        /\ stream'[c].pc = "write" /\ stream'[c].msg = Head(channel[c])
    BY <1>1, <2>1, TypesAre DEF StreamType
  <2>4. Buffered(c, n) => Buffered(c, n)' \/ Written(c, n)'
    BY <2>2, <2>3 DEF Buffered, Written
  <2>5. ~Written(c, n)
    BY <2>1 DEF Written
  <2> QED BY <1>1, <2>4, <2>5, ThreeWays, ThreeWaysNext
<1>4. CASE c = d /\ Write(d)
  <2>1. ~Written(c, n) /\ UNCHANGED channel
    BY <1>4, TypesAre DEF Write, Written
  <2> QED BY <1>1, <2>1, ThreeWays, ThreeWaysNext DEF Buffered
<1>5. CASE c = d /\ (Open(d) \/ Register(d) \/ Leave(d))
  <2>1. stream[c].pc \in {"out", "register", "leave"} /\ UNCHANGED channel
    BY <1>5 DEF Open, Register, Leave
  <2>2. ~Written(c, n)
    BY <2>1 DEF Written
  <2> QED BY <1>1, <2>1, <2>2, ThreeWays, ThreeWaysNext DEF Buffered
<1>6. CASE c = d /\ Disconnect(d)
  BY <1>1, <1>6 DEF Disconnect, StreamType
<1> QED BY <1>2, <1>3, <1>4, <1>5, <1>6 DEF Handler

LEMMA NextKeeps == IInv /\ NothingMissedSilently /\ [Next]_vars => NothingMissedSilently'
<1> SUFFICES ASSUME IInv, NothingMissedSilently, [Next]_vars,
                    NEW c \in sseClients', stream'[c].pc # "leave", NEW n \in owed'[c]
             PROVE  OnItsWay(c, n)'
  BY DEF NothingMissedSilently
<1>1. IInv' /\ c \in Clients /\ n \in Changes
  BY NextIInv, TypesAre DEF IInv, TypeOK
<1>2. CASE UNCHANGED vars
  BY <1>2 DEF vars, clientVars, NothingMissedSilently, OnItsWay
<1>3. ASSUME NEW b \in Casters, Change(b)
      PROVE  OnItsWay(c, n)'
  <2>1. c \in sseClients /\ stream'[c] = stream[c] /\ b \in Processes
    BY <1>3 DEF Change, clientVars, Processes
  <2>2. CASE n \in owed[c]
    <3>1. OnItsWay(c, n)
      BY <2>1, <2>2 DEF NothingMissedSilently
    <3> QED BY <1>1, <1>3, <2>1, <3>1, CasterKeeps
  <2>3. CASE n \notin owed[c]
    <3> DEFINE m == changes + 1
               r == [caster[b] EXCEPT !.pc = "check", !.event = m]
    <3>1. owed' = [e \in Clients |-> IF e \in sseClients THEN owed[e] \cup {m} ELSE owed[e]]
          /\ caster' = [caster EXCEPT ![b] = r]
      BY <1>3 DEF Change
    <3> HIDE DEF m
    <3>2. n = m
      BY <1>1, <2>3, <3>1
    <3>3. caster[b] \in CasterType
      BY <2>1, TypesAre
    <3>4. r.event = m /\ r.pc = "check"
      BY <3>3 DEF CasterType
    <3> HIDE DEF r
    <3>5. caster'[b] = r
      BY <2>1, <3>1, TypesAre
    <3>6. Carries(caster'[b], c, n)
      BY <3>2, <3>4, <3>5 DEF Carries
    <3> QED BY <2>1, <3>6, ThreeWaysNext
  <2> QED BY <2>2, <2>3
<1>4. ASSUME NEW b \in Processes, Cast(b) \/ (b = Heart /\ Beat)
      PROVE  OnItsWay(c, n)'
  <2>1. /\ sseClients' = sseClients /\ stream' = stream /\ owed' = owed
    BY <1>4 DEF Cast, Check, Lock, Unlock, Send, Drain, Beat, clientVars
  <2>2. OnItsWay(c, n)
    BY <2>1 DEF NothingMissedSilently
  <2> QED BY <1>1, <1>4, <2>1, <2>2, CasterKeeps, SendKeeps DEF Cast
<1>5. ASSUME NEW d \in Clients, Open(d) \/ Handler(d) \/ Disconnect(d)
      PROVE  OnItsWay(c, n)'
  <2>1. owed'[c] \subseteq owed[c]
    BY <1>1, <1>5, TypesAre DEF Open, Handler, Register, Read, Write, Leave, Disconnect
  <2>2. c \in sseClients
    BY <1>1, <2>1 DEF IInv, ClientsOk
  <2>3. stream[c].pc # "leave"
    BY <1>1, <1>5, <2>2, TypesAre
       DEF Open, Handler, Register, Read, Write, Leave, Disconnect, StreamType
  <2>4. OnItsWay(c, n)
    BY <2>1, <2>2, <2>3 DEF NothingMissedSilently
  <2> QED BY <1>1, <1>5, <2>4, HandlerKeeps
<1>6. CASE CloseStreams
  BY <1>6 DEF CloseStreams
<1>7. Heart \in Processes
  BY DEF Processes
<1> QED BY <1>2, <1>3, <1>4, <1>5, <1>6, <1>7 DEF Next

\* An open stream never loses an event silently: what it was not told is still being
\* broadcast, in its channel or being written, or a desync is (server.go,
\* broadcastEvent).
THEOREM NoEventIsMissedSilently == Spec => []NothingMissedSilently
<1>1. Init => NothingMissedSilently
  BY DEF Init, NothingMissedSilently
<1> QED BY <1>1, InitIInv, NextIInv, NextKeeps, PTL DEF Spec
=============================================================================
