---------------------------- MODULE ProberProofs ----------------------------
(***************************************************************************)
(* What Prober promises, for any number of callers, sockets, addresses and *)
(* sequence numbers: types, own answers, no blocked reader, no leaked      *)
(* socket, no request on a closed one, and no forgotten probe.             *)
(***************************************************************************)
EXTENDS Prober, TLAPS, WellFoundedInduction, NaturalsInduction

Registered == {"send", "wait", "leave"}

\* What a call holds, and that no two calls of a socket have the same number.
CallOk(p) ==
  /\ probe[p].pc = "idle" => probe[p].num = 0
  /\ probe[p].pc = "register" =>
       probe[p].num = 0 /\ probe[p].sock \in Socks /\ fd[probe[p].sock] # "none"
  /\ probe[p].pc \in Registered =>
       /\ probe[p].sock \in Socks /\ fd[probe[p].sock] # "none"
       /\ probe[p].num \in 1 .. sent[probe[p].sock]
  /\ probe[p].pc # "idle" => probe[p].target \in Targets
  /\ probe[p].num = 0 => probe[p].answer = NoAnswer

CallInv ==
  /\ \A p \in Probes : CallOk(p)
  /\ \A p, q \in Probes :
       probe[p].num # 0 /\ probe[p].sock = probe[q].sock /\ probe[p].num = probe[q].num => p = q

\* A number in the table is that of a call with this sequence number.
TableInv ==
  \A c \in Socks, s \in Seqs :
    pending[c][s] # 0 =>
      \E p \in Probes : probe[p].sock = c /\ probe[p].seq = s /\ probe[p].num = pending[c][s]

\* A request with the socket and the number of a call is its request.
NetInv ==
  \A m \in net :
    /\ m.num \in 1 .. sent[m.sock]
    /\ \A p \in Probes :
         probe[p].sock = m.sock /\ probe[p].num = m.num => m = RequestOf(p)

\* The answer a reader holds belongs to a call that is out of the table.
GiveInv ==
  \A c \in Socks :
    reader[c].pc = "give" =>
      /\ reader[c].num \in 1 .. sent[c] /\ reader[c].answer # NoAnswer
      /\ \A s \in Seqs : pending[c][s] # reader[c].num
      /\ \A p \in Probes :
           probe[p].sock = c /\ probe[p].num = reader[c].num =>
             probe[p].answer = NoAnswer /\ OwnAnswer(p, reader[c].answer)

\* An answered call is out of the table.
AnsweredInv ==
  \A p \in Probes :
    probe[p].answer # NoAnswer => \A s \in Seqs : pending[probe[p].sock][s] # probe[p].num

IInv == TypeOK /\ CallInv /\ TableInv /\ NetInv /\ GiveInv /\ AnsweredInv /\ AnswerIsOwn

\* The descriptor, the reader and the closer of a socket.
SockInv ==
  /\ conn # 0 => fd[conn] \in {"open", "bad"} /\ closer[conn] = "none"
  /\ \A c \in Socks :
       /\ fd[c] = "closed" <=> closer[c] \in {"fail", "gone"}
       /\ fd[c] = "none" <=> reader[c].pc = "none"
       /\ fd[c] = "none" => closer[c] = "none"
       /\ fd[c] = "open" /\ ~Closing(c) => reader[c].pc \in {"recv", "give"}
       /\ closer[c] \in {"fail", "gone"} => reader[c].pc = "gone"

\* A call that is registered, and has not ended, is answered or in the table.
Coming(p) ==
  probe[p].answer # NoAnswer \/ (reader[probe[p].sock].pc = "give" /\ reader[probe[p].sock].num = probe[p].num)

TrackedInv ==
  \A p \in Probes :
    probe[p].pc \in {"send", "wait"} =>
      Coming(p) \/ pending[probe[p].sock][probe[p].seq] = probe[p].num

\* Somebody will look into the table of socket c again.
Looked(c) == reader[c].pc \in {"recv", "give", "fail"} \/ closer[c] \in {"wait", "fail"}

LookedInv == \A p \in Probes : probe[p].pc = "wait" => Coming(p) \/ Looked(probe[p].sock)

---------------------------------------------------------------------------
(* Types                                                                   *)

LEMMA AnswerTypes ==
  /\ NoAnswer \in Answers /\ LocalAnswer \in Answers
  /\ \A m \in Requests \cup Foreign, kind \in {"reply", "error", "local"}, from \in Addresses :
       AnswerOf(m, kind, from) \in Answers
<1>1. NoAnswer \in Answers /\ LocalAnswer \in Answers
  BY DEF Answers
<1>2. ASSUME NEW m \in Requests \cup Foreign, NEW from \in Addresses
      PROVE  /\ AnswerOf(m, "reply", from) \in Answers
             /\ AnswerOf(m, "error", from) \in Answers
             /\ AnswerOf(m, "local", from) \in Answers
  <2>1. m.target \in Addresses
    BY DEF Requests, Foreign, Addresses
  <2>2. [kind |-> "reply", of |-> m, from |-> from]
          \in [kind : {"reply"}, of : Requests \cup Foreign, from : Addresses]
    OBVIOUS
  <2>3. [kind |-> "error", target |-> m.target] \in [kind : {"error"}, target : Addresses]
    BY <2>1
  <2>4. AnswerOf(m, "reply", from) \in Answers
    BY <2>2 DEF AnswerOf, Answers
  <2>5. AnswerOf(m, "error", from) \in Answers
    BY <2>3 DEF AnswerOf, Answers
  <2>6. AnswerOf(m, "local", from) \in Answers
    BY <1>1 DEF AnswerOf
  <2> QED BY <2>4, <2>5, <2>6
<1> QED BY <1>1, <1>2

LEMMA NatLeast ==
  ASSUME NEW S \in SUBSET Nat, S # {}
  PROVE  \E m \in S : \A x \in S : m <= x
<1> DEFINE R == OpToRel(<, Nat)
<1>1. PICK m \in S : \A x \in S : <<x, m>> \notin R
  BY WFMin, NatLessThanWellFounded
<1>2. ASSUME NEW x \in S, x < m PROVE <<x, m>> \in R
  <2>1. <<x, m>> \in Nat \X Nat /\ <<x, m>>[1] < <<x, m>>[2]
    BY <1>2
  <2> QED BY <2>1 DEF OpToRel
<1> HIDE DEF R
<1>3. \A x \in S : ~(x < m)
  BY <1>1, <1>2
<1> QED BY <1>3

\* nextSeq stays within the sequence numbers, as long as one is free.
LEMMA NextFreeIsFree ==
  ASSUME TypeOK, NEW c \in Socks, ~Full(c)
  PROVE  NextFree(c) \in Seqs /\ pending[c][NextFree(c)] = 0
<1> DEFINE Dist(s) == (s + SeqSpace - nextSeq[c] - 1) % SeqSpace
           free == {s \in Seqs : pending[c][s] = 0}
<1>1. PICK s0 \in free : TRUE
  BY DEF Full
<1>2. \A s \in free : Dist(s) \in Nat
  BY ProberAssumption DEF TypeOK, Seqs
<1>3. \E s \in free : \A t \in free : Dist(s) <= Dist(t)
  <2> DEFINE D == {Dist(s) : s \in free}
  <2>1. D \in SUBSET Nat /\ D # {}
    BY <1>1, <1>2
  <2> HIDE DEF D
  <2>2. \E x \in D : \A y \in D : x <= y
    BY <2>1, NatLeast
  <2> USE DEF D
  <2>3. PICK x \in D : \A y \in D : x <= y
    BY <2>2
  <2>4. PICK s \in free : x = Dist(s)
    OBVIOUS
  <2> QED BY <2>3, <2>4
<1>4. NextFree(c) \in free
  BY <1>3 DEF NextFree
<1> QED BY <1>4

LEMMA ReaderType ==
  ASSUME NEW pc \in {"none", "recv", "give", "fail", "gone"}, NEW n \in Nat, NEW a \in Answers
  PROVE  [pc |-> pc, num |-> n, answer |-> a] \in Readers
BY DEF Readers

LEMMA ReaderAtType ==
  ASSUME NEW pc \in {"none", "recv", "fail", "gone"}
  PROVE  ReaderAt(pc) \in Readers /\ ReaderAt(pc).pc = pc /\ ReaderAt(pc).num = 0
BY AnswerTypes, ReaderType DEF ReaderAt

LEMMA CallType ==
  ASSUME NEW pc \in {"idle", "register", "send", "wait", "leave"}, NEW t \in Addresses,
         NEW c \in 0 .. MaxSocks, NEW s \in Seqs, NEW n \in Nat, NEW a \in Answers
  PROVE  /\ Call(pc, t, c, s, n, a) \in Calls
         /\ LET r == Call(pc, t, c, s, n, a)
            IN r.pc = pc /\ r.target = t /\ r.sock = c /\ r.seq = s /\ r.num = n /\ r.answer = a
BY DEF Call, Calls

LEMMA CallFields ==
  ASSUME NEW r \in Calls
  PROVE  /\ r.pc \in {"idle", "register", "send", "wait", "leave"} /\ r.target \in Addresses
         /\ r.sock \in 0 .. MaxSocks /\ r.seq \in Seqs /\ r.num \in Nat /\ r.answer \in Answers
BY DEF Calls

LEMMA InitTypeOK == Init => TypeOK
<1> SUFFICES ASSUME Init PROVE TypeOK
  OBVIOUS
<1>1. 0 \in Seqs
  BY ProberAssumption DEF Seqs
<1>2. Idle \in Calls
  BY <1>1, CallType, AnswerTypes, ProberAssumption DEF Idle, Addresses
<1>3. probe \in [Probes -> Calls]
  BY <1>2 DEF Init
<1>4. reader \in [Socks -> Readers]
  BY ReaderAtType DEF Init
<1>5. nextSeq \in [Socks -> Seqs] /\ pending \in [Socks -> [Seqs -> Nat]]
  BY <1>1 DEF Init
<1>6. /\ fd \in [Socks -> {"none", "open", "bad", "closed"}]
      /\ closer \in [Socks -> {"none", "start", "wait", "fail", "gone"}]
      /\ sent \in [Socks -> Nat] /\ ident \in [Socks -> Ids]
  BY DEF Init
<1>7. conn \in 0 .. MaxSocks /\ calls \in 0 .. MaxCalls
  BY ProberAssumption DEF Init
<1>8. command \in BOOLEAN
  BY Zenon DEF Init
<1>9. broken \in SUBSET Socks /\ net \in SUBSET Requests
  BY DEF Init
<1> QED BY <1>3, <1>4, <1>5, <1>6, <1>7, <1>8, <1>9 DEF TypeOK

LEMMA InitIInv == Init => IInv
<1> SUFFICES ASSUME Init PROVE IInv
  OBVIOUS
<1> USE DEF Init, Idle, Call, ReaderAt
<1>1. TypeOK
  BY InitTypeOK
<1>2. CallInv /\ AnsweredInv
  BY DEF CallInv, CallOk, AnsweredInv, Registered
<1>3. TableInv /\ NetInv /\ GiveInv
  BY DEF TableInv, NetInv, GiveInv
<1>4. AnswerIsOwn
  BY DEF AnswerIsOwn, OwnAnswer, NoAnswer
<1> QED BY <1>1, <1>2, <1>3, <1>4 DEF IInv

---------------------------------------------------------------------------
(* Every step keeps the types                                              *)

\* The fields of the state that have a type of their own lemma.
LEMMA StepCall ==
  ASSUME TypeOK, NEW p \in Probes, NEW pc \in {"idle", "register", "send", "wait", "leave"},
         NEW a \in Answers, Step(p, pc, a)
  PROVE  probe' \in [Probes -> Calls]
<1>1. Call(pc, probe[p].target, probe[p].sock, probe[p].seq, probe[p].num, a) \in Calls
  <2>1. probe[p] \in Calls
    BY DEF TypeOK
  <2> QED BY <2>1, CallType, CallFields
<1> QED BY <1>1 DEF Step, TypeOK

LEMMA AnswerCall ==
  ASSUME TypeOK, NEW c \in Socks, NEW ns, NEW a \in Answers, Answer(c, ns, a)
  PROVE  probe' \in [Probes -> Calls]
<1>1. ASSUME NEW p \in Probes
      PROVE  Call(probe[p].pc, probe[p].target, probe[p].sock, probe[p].seq, probe[p].num, a) \in Calls
  <2>1. probe[p] \in Calls
    BY DEF TypeOK
  <2> QED BY <2>1, CallType, CallFields
<1> QED BY <1>1 DEF Answer, TypeOK

\* What the steps do to the table.
LEMMA RemoveTable ==
  ASSUME TypeOK, NEW c \in Socks, NEW s \in Seqs, Remove(c, s)
  PROVE  /\ pending' \in [Socks -> [Seqs -> Nat]]
         /\ \A d \in Socks, r \in Seqs :
              pending'[d][r] = IF d = c /\ r = s THEN 0 ELSE pending[d][r]
<1> DEFINE row == [pending[c] EXCEPT ![s] = 0]
<1>1. /\ row \in [Seqs -> Nat]
      /\ \A r \in Seqs : row[r] = IF r = s THEN 0 ELSE pending[c][r]
  BY DEF TypeOK
<1>2. pending' = [pending EXCEPT ![c] = row]
  BY DEF Remove
<1> HIDE DEF row
<1> QED BY <1>1, <1>2 DEF TypeOK

LEMMA FailTable ==
  ASSUME TypeOK, NEW c \in Socks, FailPending(c)
  PROVE  /\ pending' \in [Socks -> [Seqs -> Nat]]
         /\ \A d \in Socks, r \in Seqs :
              pending'[d][r] = IF d = c THEN 0 ELSE pending[d][r]
BY DEF FailPending, TypeOK

LEMMA ConnectTypeOK ==
  ASSUME TypeOK, NEW p \in Probes, NEW t \in Targets, Connect(p, t)
  PROVE  TypeOK'
<1> USE DEF proberVars, tableVars, sockVars
<1>0. calls' \in 0 .. MaxCalls /\ net' \in SUBSET Requests
  BY ProberAssumption DEF TypeOK, Connect
<1>1. ASSUME NEW c \in 0 .. MaxSocks
      PROVE  Call("register", t, c, 0, 0, NoAnswer) \in Calls
  BY CallType, AnswerTypes, ProberAssumption DEF Addresses, Seqs
<1>2. CASE UseSocket(p, t)
  <2>1. probe' \in [Probes -> Calls]
    BY <1>1, <1>2 DEF TypeOK, UseSocket
  <2> QED BY <1>0, <1>2, <2>1 DEF TypeOK, UseSocket
<1>3. ASSUME conn = 0 \/ conn \in broken, CloseOld
      PROVE  closer' \in [Socks -> {"none", "start", "wait", "fail", "gone"}]
  BY <1>3 DEF TypeOK, CloseOld
<1>4. CASE CloseOld /\ (conn = 0 \/ conn \in broken) /\ OpenSocket(p, t)
  <2>1. PICK c \in Socks :
          /\ conn' = c
          /\ fd' = [fd EXCEPT ![c] = "open"]
          /\ reader' = [reader EXCEPT ![c] = Reading(c)]
          /\ probe' = [probe EXCEPT ![p] = Call("register", t, c, 0, 0, NoAnswer)]
    BY <1>4, Zenon DEF OpenSocket
  <2>2. c \in 0 .. MaxSocks
    BY DEF Socks
  <2>3. Reading(c) \in Readers
    BY ReaderAtType DEF Reading
  <2>4. /\ conn' \in 0 .. MaxSocks /\ fd' \in [Socks -> {"none", "open", "bad", "closed"}]
        /\ reader' \in [Socks -> Readers] /\ probe' \in [Probes -> Calls]
    BY <1>1, <2>1, <2>2, <2>3 DEF TypeOK
  <2>5. UNCHANGED <<command, ident, broken, nextSeq, sent, pending>>
    BY <1>4 DEF OpenSocket
  <2> QED BY <1>0, <1>3, <1>4, <2>4, <2>5 DEF TypeOK
<1>5. CASE CloseOld /\ (conn = 0 \/ conn \in broken) /\ OpenFails
  <2>1. command' \in BOOLEAN
    BY <1>5, Zenon DEF OpenFails
  <2>2. conn' \in 0 .. MaxSocks
    BY <1>5, ProberAssumption DEF OpenFails
  <2>3. UNCHANGED <<fd, ident, broken, reader, nextSeq, sent, pending, probe>>
    BY <1>5 DEF OpenFails
  <2> QED BY <1>0, <1>3, <1>5, <2>1, <2>2, <2>3 DEF TypeOK
<1> QED BY <1>2, <1>4, <1>5 DEF Connect

LEMMA ProbeTypeOK ==
  ASSUME TypeOK, NEW p \in Probes, probe[p].sock \in Socks \/ probe[p].pc = "idle",
         probe[p].pc # "idle" => probe[p].target \in Targets, Probe(p)
  PROVE  TypeOK'
<1> USE DEF proberVars, tableVars, sockVars
<1>1. Idle \in Calls
  BY CallType, AnswerTypes, ProberAssumption DEF Idle, Addresses, Seqs
<1>2. probe[p] \in Calls
  BY DEF TypeOK
<1>3. CASE Register(p)
  <2> DEFINE c == probe[p].sock
             s == NextFree(c)
  <2>1. c \in Socks
    BY <1>3 DEF Register
  <2>2. CASE Closing(c) \/ Full(c)
    <3>1. probe' \in [Probes -> Calls] /\ UNCHANGED <<nextSeq, sent, pending>>
      BY <1>1, <1>3, <2>2 DEF Register, TypeOK
    <3> QED BY <1>3, <3>1 DEF Register, TypeOK
  <2>3. CASE ~Closing(c) /\ ~Full(c)
    <3>1. s \in Seqs
      BY <2>1, <2>3, NextFreeIsFree
    <3>2. sent[c] + 1 \in Nat
      BY <2>1 DEF TypeOK
    <3>3. Call("send", probe[p].target, c, s, sent[c] + 1, NoAnswer) \in Calls
      BY <1>2, <3>1, <3>2, CallType, CallFields, AnswerTypes
    <3> HIDE DEF s
    <3>4. /\ sent' = [sent EXCEPT ![c] = sent[c] + 1] /\ nextSeq' = [nextSeq EXCEPT ![c] = s]
          /\ pending' = [pending EXCEPT ![c] = [pending[c] EXCEPT ![s] = sent[c] + 1]]
          /\ probe' = [probe EXCEPT ![p] = Call("send", probe[p].target, c, s, sent[c] + 1, NoAnswer)]
      BY <1>3, <2>3 DEF Register, s
    <3>5. /\ sent' \in [Socks -> Nat] /\ nextSeq' \in [Socks -> Seqs]
          /\ pending' \in [Socks -> [Seqs -> Nat]] /\ probe' \in [Probes -> Calls]
      BY <2>1, <3>1, <3>2, <3>3, <3>4 DEF TypeOK
    <3> QED BY <1>3, <3>5 DEF Register, TypeOK
  <2> QED BY <2>2, <2>3
<1>4. CASE Send(p)
  <2>1. RequestOf(p) \in Requests
    BY <1>2, <1>4, CallFields DEF Send, RequestOf, Requests
  <2>2. /\ net' \in SUBSET Requests /\ broken' \in SUBSET Socks
        /\ \E pc \in {"wait", "leave"} : Step(p, pc, probe[p].answer)
    BY <1>4, <2>1 DEF Send, Sendto, TypeOK
  <2>3. probe' \in [Probes -> Calls]
    BY <1>2, <2>2, StepCall, CallFields
  <2> QED BY <1>4, <2>2, <2>3 DEF Send, TypeOK
<1>5. CASE EndWait(p)
  <2>1. probe' \in [Probes -> Calls]
    BY <1>5, StepCall, AnswerTypes DEF EndWait
  <2> QED BY <1>5, <2>1 DEF EndWait, TypeOK
<1>6. CASE Unregister(p)
  <2>1. probe' \in [Probes -> Calls]
    BY <1>1, <1>6 DEF Unregister, TypeOK
  <2>2. probe[p].sock \in Socks /\ probe[p].seq \in Seqs
    BY <1>2, <1>6, CallFields DEF Unregister
  <2>3. pending' \in [Socks -> [Seqs -> Nat]]
    BY <1>6, <2>2, RemoveTable DEF Unregister, TypeOK
  <2> QED BY <1>6, <2>1, <2>3 DEF Unregister, TypeOK
<1> QED BY <1>3, <1>4, <1>5, <1>6 DEF Probe


LEMMA ReaderTypeOK ==
  ASSUME TypeOK, NEW c \in Socks, Reader(c)
  PROVE  TypeOK'
<1> USE DEF proberVars, tableVars, sockVars
<1>1. reader[c] \in Readers /\ reader[c].answer \in Answers
  BY DEF TypeOK, Readers
<1>2. Reading(c) \in Readers
  BY ReaderAtType DEF Reading
<1>3. CASE Receive(c)
  <2>1. CASE reader' = [reader EXCEPT ![c] = Reading(c)] /\ UNCHANGED <<broken, pending>>
    BY <1>2, <1>3, <2>1 DEF TypeOK, Receive
  <2>2. CASE fd[c] = "bad"
    <3>1. ReaderAt("fail") \in Readers
      BY ReaderAtType
    <3> QED BY <1>2, <1>3, <2>2, <3>1 DEF TypeOK, Receive
  <2>3. ASSUME NEW m \in net \cup Foreign, NEW kind \in {"reply", "error", "local"},
               NEW from \in Addresses, NEW p \in Probes, TakeWaiter(c, m.seq), UNCHANGED broken,
               reader' = [reader EXCEPT ![c] =
                  [pc |-> "give", num |-> probe[p].num, answer |-> AnswerOf(m, kind, from)]]
        PROVE  TypeOK'
    <3>1. m \in Requests \cup Foreign /\ m.seq \in Seqs
      BY DEF TypeOK, Requests, Foreign
    <3>2. probe[p].num \in Nat
      BY CallFields DEF TypeOK
    <3>3. [pc |-> "give", num |-> probe[p].num, answer |-> AnswerOf(m, kind, from)] \in Readers
      BY <3>1, <3>2, AnswerTypes, ReaderType
    <3>4. reader' \in [Socks -> Readers] /\ pending' \in [Socks -> [Seqs -> Nat]]
      BY <2>3, <3>1, <3>3, RemoveTable DEF TakeWaiter, TypeOK
    <3> QED BY <1>3, <2>3, <3>4 DEF TypeOK, Receive
  <2> QED BY <1>3, <2>1, <2>2, <2>3 DEF Receive
<1>4. CASE Give(c)
  <2>1. probe' \in [Probes -> Calls]
    BY <1>1, <1>4, AnswerCall DEF Give
  <2> QED BY <1>2, <1>4, <2>1 DEF TypeOK, Give
<1>5. CASE ReaderFails(c)
  <2>1. probe' \in [Probes -> Calls]
    BY <1>5, AnswerCall, AnswerTypes DEF ReaderFails, FailPending
  <2>2. reader' \in [Socks -> Readers] /\ pending' \in [Socks -> [Seqs -> Nat]]
    BY <1>5, FailTable, ReaderAtType DEF ReaderFails, TypeOK
  <2> QED BY <1>5, <2>1, <2>2 DEF TypeOK, ReaderFails
<1> QED BY <1>3, <1>4, <1>5 DEF Reader

LEMMA CloserTypeOK ==
  ASSUME TypeOK, NEW c \in Socks, CloseSocket(c)
  PROVE  TypeOK'
<1> USE DEF proberVars, tableVars
<1>1. CASE closer[c] = "fail" /\ FailPending(c) /\ closer' = [closer EXCEPT ![c] = "gone"]
           /\ UNCHANGED <<nextSeq, sent, fd>>
  <2>1. probe' \in [Probes -> Calls] /\ pending' \in [Socks -> [Seqs -> Nat]]
    BY <1>1, AnswerCall, AnswerTypes, FailTable DEF FailPending
  <2> QED BY <1>1, <2>1 DEF TypeOK, CloseSocket
<1>2. CASE ~(closer[c] = "fail")
  BY <1>2 DEF TypeOK, CloseSocket, Closer
<1> QED BY <1>1, <1>2 DEF CloseSocket, Closer

LEMMA OtherTypeOK ==
  ASSUME TypeOK, Close \/ (\E c \in Socks : Break(c)) \/ UNCHANGED vars
  PROVE  TypeOK'
<1> USE DEF proberVars, tableVars
<1>1. CASE Close
  <2>1. conn' \in 0 .. MaxSocks
    BY <1>1, ProberAssumption DEF Close
  <2> QED BY <1>1, <2>1 DEF TypeOK, Close
<1>2. CASE \E c \in Socks : Break(c)
  BY <1>2 DEF TypeOK, Break
<1>3. CASE UNCHANGED vars
  BY <1>3 DEF TypeOK, vars
<1> QED BY <1>1, <1>2, <1>3

---------------------------------------------------------------------------
(* Sockets                                                                 *)

\* One named fact for each part of the sockets' invariant.
LEMMA ConnectSock ==
  ASSUME TypeOK, SockInv, NoLeakedSocket, NEW p \in Probes, NEW t \in Targets, Connect(p, t)
  PROVE  SockInv' /\ NoLeakedSocket'
<1> USE DEF proberVars, tableVars, sockVars, SockInv, NoLeakedSocket, Closing
<1>1. CASE UseSocket(p, t)
  BY <1>1 DEF UseSocket
<1>2. CASE CloseOld /\ (conn = 0 \/ conn \in broken) /\ OpenFails
  BY <1>2 DEF OpenFails, CloseOld, TypeOK, Socks
<1>3. CASE CloseOld /\ (conn = 0 \/ conn \in broken) /\ OpenSocket(p, t)
  <2>1. PICK c \in Socks :
          /\ fd[c] = "none" /\ conn' = c
          /\ fd' = [fd EXCEPT ![c] = "open"]
          /\ reader' = [reader EXCEPT ![c] = Reading(c)]
    BY <1>3 DEF OpenSocket
  <2>2. Reading(c).pc = "recv" /\ c # conn /\ \A d \in Socks : d # 0
    BY <2>1, ReaderAtType DEF Reading, TypeOK, Socks
  <2>3. closer'[c] = "none" /\ closer[c] = "none"
    BY <1>3, <2>1, <2>2 DEF CloseOld, TypeOK
  <2>4. reader'[c].pc = "recv" /\ \A d \in Socks : d # c => reader'[d] = reader[d]
    BY <2>1, <2>2 DEF TypeOK
  <2>5. fd'[c] = "open" /\ \A d \in Socks : d # c => fd'[d] = fd[d]
    BY <2>1 DEF TypeOK
  <2>6. ASSUME NEW d \in Socks, d # c
        PROVE  closer'[d] = IF d = conn THEN "start" ELSE closer[d]
    BY <1>3, <2>6 DEF CloseOld, TypeOK, Socks
  <2>7. conn' # 0 /\ fd'[conn'] = "open" /\ closer'[conn'] = "none"
    BY <2>1, <2>2, <2>3, <2>5
  <2>8. ASSUME NEW d \in Socks, d # c
        PROVE  /\ fd'[d] = fd[d] /\ reader'[d] = reader[d]
               /\ \/ closer'[d] = closer[d]
                  \/ d = conn /\ closer'[d] = "start" /\ closer[d] = "none"
    <3>1. d = conn => closer[d] = "none"
      BY <2>2
    <3>2. closer'[d] = IF d = conn THEN "start" ELSE closer[d]
      BY <2>6, <2>8
    <3>3. fd'[d] = fd[d] /\ reader'[d] = reader[d]
      BY <2>4, <2>5, <2>8
    <3> QED BY <3>1, <3>2, <3>3
  <2>9. NoLeakedSocket'
    <3>1. ASSUME NEW d \in Socks, d # c, fd'[d] \in {"open", "bad"}
          PROVE  closer'[d] \notin {"none", "gone"}
      BY <2>6, <2>8, <3>1
    <3> QED BY <2>1, <3>1
  <2>10. ASSUME NEW d \in Socks, d # c
         PROVE  /\ fd'[d] = "closed" <=> closer'[d] \in {"fail", "gone"}
                /\ fd'[d] = "none" <=> reader'[d].pc = "none"
                /\ fd'[d] = "none" => closer'[d] = "none"
                /\ fd'[d] = "open" /\ ~Closing(d)' => reader'[d].pc \in {"recv", "give"}
                /\ closer'[d] \in {"fail", "gone"} => reader'[d].pc = "gone"
    <3> HIDE DEF NoLeakedSocket
    <3>1. CASE closer'[d] = closer[d]
      BY <2>8, <2>10, <3>1
    <3>2. CASE d = conn /\ closer'[d] = "start" /\ closer[d] = "none"
      BY <2>8, <2>10, <3>2, <2>2
    <3> QED BY <2>8, <2>10, <3>1, <3>2
  <2>11. SockInv'
    <3> HIDE DEF NoLeakedSocket
    <3> QED BY <2>3, <2>4, <2>5, <2>7, <2>10
  <2> QED BY <2>9, <2>11
<1> QED BY <1>1, <1>2, <1>3 DEF Connect

LEMMA ReaderSock ==
  ASSUME TypeOK, SockInv, NoLeakedSocket, NEW c \in Socks, Reader(c)
  PROVE  SockInv' /\ NoLeakedSocket'
<1> USE DEF proberVars, tableVars
<1>1. UNCHANGED <<conn, fd, closer>>
  BY DEF Reader, Receive, Give, ReaderFails
<1>2. \A d \in Socks : d # c => reader'[d] = reader[d]
  BY DEF Reader, Receive, Give, ReaderFails, TypeOK
<1>3. Reading(c).pc = IF Closing(c) THEN "gone" ELSE "recv"
  BY ReaderAtType DEF Reading
<1>4. /\ reader[c].pc \in {"recv", "give", "fail"}
      /\ \/ reader'[c].pc = "recv" /\ ~Closing(c)
         \/ reader'[c].pc = "gone" /\ Closing(c)
         \/ reader'[c].pc = "give"
         \/ reader'[c].pc = "fail" /\ fd[c] = "bad"
         \/ reader'[c].pc = "gone" /\ reader[c].pc = "fail"
  BY <1>3, ReaderAtType DEF Reader, Receive, Give, ReaderFails, TypeOK
<1>5. NoLeakedSocket'
  BY <1>1 DEF NoLeakedSocket
<1>6. SockInv'
  BY <1>1, <1>2, <1>4 DEF SockInv, Closing, TypeOK
<1> QED BY <1>5, <1>6

LEMMA CloserSock ==
  ASSUME TypeOK, SockInv, NoLeakedSocket, NEW c \in Socks, CloseSocket(c)
  PROVE  SockInv' /\ NoLeakedSocket'
<1> USE DEF proberVars, tableVars, SockInv, NoLeakedSocket, Closing, TypeOK
<1>1. UNCHANGED <<conn, reader>>
  BY DEF CloseSocket
<1>2. CASE closer[c] = "start" /\ closer' = [closer EXCEPT ![c] = "wait"] /\ UNCHANGED fd
  BY <1>1, <1>2
<1>3. CASE /\ closer[c] = "wait" /\ reader[c].pc = "gone"
           /\ fd' = [fd EXCEPT ![c] = "closed"] /\ closer' = [closer EXCEPT ![c] = "fail"]
  BY <1>1, <1>3
<1>4. CASE closer[c] = "fail" /\ closer' = [closer EXCEPT ![c] = "gone"] /\ UNCHANGED fd
  BY <1>1, <1>4
<1> QED BY <1>2, <1>3, <1>4 DEF CloseSocket, Closer

LEMMA OtherSock ==
  ASSUME TypeOK, SockInv, NoLeakedSocket,
         Close \/ (\E c \in Socks : Break(c)) \/ (\E p \in Probes : Probe(p)) \/ UNCHANGED vars
  PROVE  SockInv' /\ NoLeakedSocket'
<1> USE DEF proberVars, tableVars, sockVars, SockInv, NoLeakedSocket, Closing
<1>1. CASE Close
  BY <1>1 DEF TypeOK, Close, Socks
<1>2. CASE \E c \in Socks : Break(c)
  BY <1>2 DEF TypeOK, Break
<1>3. CASE (\E p \in Probes : Probe(p)) \/ UNCHANGED vars
  <2>1. UNCHANGED <<conn, fd, closer, reader>>
    BY <1>3 DEF Probe, Register, Send, EndWait, Unregister, vars
  <2> QED BY <2>1
<1> QED BY <1>1, <1>2, <1>3

---------------------------------------------------------------------------
(* Answers: one lemma for each kind of step                                *)

SameCall(q) ==
  /\ probe'[q].target = probe[q].target /\ probe'[q].sock = probe[q].sock
  /\ probe'[q].seq = probe[q].seq /\ probe'[q].num = probe[q].num

\* A call with a number has a socket.
LEMMA CallFacts ==
  ASSUME TypeOK, CallInv, NEW p \in Probes
  PROVE  /\ probe[p].num \in Nat /\ probe[p].seq \in Seqs
         /\ probe[p].num # 0 => probe[p].sock \in Socks /\ probe[p].num \in 1 .. sent[probe[p].sock]
         /\ probe[p].answer # NoAnswer => probe[p].num # 0
<1>1. probe[p] \in Calls
  BY DEF TypeOK
<1> QED BY <1>1, CallFields DEF CallInv, CallOk, Registered

\* No new reader hands over, no socket disappears.
Quiet ==
  /\ UNCHANGED <<sent, net>>
  /\ \A c \in Socks : fd[c] # "none" => fd'[c] # "none"
  /\ \A c \in Socks : reader'[c].pc = "give" => reader'[c] = reader[c]

\* Only descriptors, readers that hand over nothing, or closers change.
LEMMA KeepsCalls ==
  ASSUME IInv, TypeOK', Quiet, UNCHANGED <<pending, probe>>
  PROVE  IInv'
<1> USE DEF IInv, Quiet
<1>1. CallInv'
  BY DEF CallInv, CallOk
<1>2. TableInv' /\ NetInv' /\ AnsweredInv' /\ AnswerIsOwn'
  BY DEF TableInv, NetInv, AnsweredInv, AnswerIsOwn, OwnAnswer, RequestOf
<1>3. GiveInv'
  BY DEF GiveInv, OwnAnswer, RequestOf
<1> QED BY <1>1, <1>2, <1>3

\* Connect: a call gets a socket.
LEMMA StartsCall ==
  ASSUME IInv, TypeOK', Quiet, UNCHANGED pending, NEW p \in Probes, probe[p].pc = "idle",
         probe'[p].pc = "register", probe'[p].target \in Targets, probe'[p].sock \in Socks,
         fd'[probe'[p].sock] # "none", probe'[p].num = 0, probe'[p].answer = NoAnswer,
         \A q \in Probes : q # p => probe'[q] = probe[q]
  PROVE  IInv'
<1> USE DEF IInv, Quiet
<1>0. probe[p].num = 0
  BY DEF CallInv, CallOk
<1>1. CallInv'
  <2>1. ASSUME NEW q \in Probes, q # p PROVE CallOk(q)'
    BY <2>1 DEF CallInv, CallOk
  <2>2. CallOk(p)'
    BY DEF CallOk, Registered
  <2> QED BY <2>1, <2>2 DEF CallInv
<1>2. TableInv'
  BY <1>0 DEF TableInv
<1>3. NetInv'
  BY DEF NetInv, RequestOf
<1>4. AnsweredInv'
  BY DEF AnsweredInv
<1>5. AnswerIsOwn'
  BY DEF AnswerIsOwn, OwnAnswer, RequestOf, NoAnswer
<1>6. GiveInv'
  BY DEF GiveInv, OwnAnswer, RequestOf
<1> QED BY <1>1, <1>2, <1>3, <1>4, <1>5, <1>6

\* Register is refused, or Unregister: the call is over and out of the table.
LEMMA EndsCall ==
  ASSUME IInv, TypeOK', Quiet, UNCHANGED <<fd, reader>>, NEW p \in Probes, probe'[p] = Idle,
         \A q \in Probes : q # p => probe'[q] = probe[q],
         \A c \in Socks, s \in Seqs : pending'[c][s] \in {pending[c][s], 0},
         probe[p].num # 0 => \A s \in Seqs : pending'[probe[p].sock][s] # probe[p].num
  PROVE  IInv'
<1> USE DEF IInv, Quiet
<1>0. /\ probe'[p].pc = "idle" /\ probe'[p].num = 0 /\ probe'[p].sock = 0
      /\ probe'[p].answer = NoAnswer
  BY DEF Idle, Call
<1>1. CallInv'
  <2>1. ASSUME NEW q \in Probes, q # p PROVE CallOk(q)'
    BY <2>1 DEF CallInv, CallOk
  <2>2. CallOk(p)'
    BY <1>0 DEF CallOk, Registered
  <2> QED BY <1>0, <2>1, <2>2 DEF CallInv
<1>2. TableInv'
  BY <1>0 DEF TableInv
<1>3. NetInv'
  BY <1>0 DEF NetInv, RequestOf
<1>4. AnsweredInv'
  <2>1. SUFFICES ASSUME NEW q \in Probes, q # p, probe[q].answer # NoAnswer, NEW s \in Seqs
                 PROVE  pending'[probe[q].sock][s] # probe[q].num
    BY <1>0 DEF AnsweredInv
  <2>2. probe[q].sock \in Socks /\ probe[q].num # 0
    BY <2>1, CallFacts
  <2> QED BY <2>1, <2>2 DEF AnsweredInv
<1>5. AnswerIsOwn'
  BY <1>0 DEF AnswerIsOwn, OwnAnswer, RequestOf, NoAnswer
<1>6. GiveInv'
  BY <1>0 DEF GiveInv, OwnAnswer, RequestOf
<1> QED BY <1>1, <1>2, <1>3, <1>4, <1>5, <1>6

\* Register succeeds: the call gets the next number and a free sequence number.
LEMMA EntersTable ==
  ASSUME IInv, TypeOK', UNCHANGED <<fd, reader, net>>, NEW p \in Probes, NEW c \in Socks, NEW s \in Seqs,
         probe[p].pc = "register", probe[p].sock = c, pending[c][s] = 0,
         sent'[c] = sent[c] + 1, \A d \in Socks : d # c => sent'[d] = sent[d],
         probe'[p].pc = "send", probe'[p].target = probe[p].target, probe'[p].sock = c,
         probe'[p].seq = s, probe'[p].num = sent[c] + 1, probe'[p].answer = NoAnswer,
         \A q \in Probes : q # p => probe'[q] = probe[q],
         \A d \in Socks, r \in Seqs :
           pending'[d][r] = IF d = c /\ r = s THEN sent[c] + 1 ELSE pending[d][r]
  PROVE  IInv'
<1> USE DEF IInv
<1> DEFINE n == sent[c] + 1
<1>1. /\ sent[c] \in Nat /\ n \in Nat \ {0} /\ sent'[c] = n
      /\ \A d \in Socks : sent[d] \in Nat /\ sent[d] <= sent'[d]
  <2>1. \A d \in Socks : sent[d] \in Nat
    BY DEF TypeOK
  <2> HIDE DEF IInv
  <2> QED BY <2>1
<1>2. ASSUME NEW q \in Probes, probe[q].sock = c PROVE probe[q].num # n
  BY <1>1, <1>2, CallFacts
<1> HIDE DEF n
<1>3. CallInv'
  <2>1. ASSUME NEW q \in Probes, q # p PROVE CallOk(q)'
    <3>1. CASE probe[q].pc \in Registered
      <4>1. probe[q].num \in 1 .. sent'[probe[q].sock]
        BY <1>1, <3>1 DEF CallInv, CallOk
      <4> QED BY <2>1, <3>1, <4>1 DEF CallInv, CallOk, Registered
    <3> QED BY <2>1, <3>1 DEF CallInv, CallOk
  <2>2. CallOk(p)'
    <3>1. n \in 1 .. sent'[c]
      BY <1>1
    <3> QED BY <1>1, <3>1 DEF CallOk, Registered, CallInv, n
  <2> QED BY <1>2, <2>1, <2>2 DEF CallInv, n
<1>4. TableInv'
  <2>1. SUFFICES ASSUME NEW d \in Socks, NEW r \in Seqs, pending'[d][r] # 0
                 PROVE  \E q \in Probes :
                          probe'[q].sock = d /\ probe'[q].seq = r /\ probe'[q].num = pending'[d][r]
    BY DEF TableInv
  <2>2. CASE d = c /\ r = s
    BY <2>2
  <2>3. CASE ~(d = c /\ r = s)
    <3>1. PICK q \in Probes : probe[q].sock = d /\ probe[q].seq = r /\ probe[q].num = pending[d][r]
      BY <2>1, <2>3 DEF TableInv
    <3>2. q # p
      BY <2>1, <2>3, <3>1 DEF CallInv, CallOk
    <3> QED BY <2>3, <3>1, <3>2
  <2> QED BY <2>2, <2>3
<1>5. NetInv'
  <2>1. SUFFICES ASSUME NEW m \in net
                 PROVE  /\ m.num \in 1 .. sent'[m.sock]
                        /\ \A q \in Probes :
                             probe'[q].sock = m.sock /\ probe'[q].num = m.num => m = RequestOf(q)'
    BY DEF NetInv
  <2>2. m.sock \in Socks /\ m.num \in Nat /\ m.num \in 1 .. sent[m.sock]
    BY DEF NetInv, TypeOK, Requests
  <2>3. m.num \in 1 .. sent'[m.sock]
    BY <1>1, <2>2
  <2>4. ~(m.sock = c /\ m.num = n)
    BY <1>1, <2>2 DEF n
  <2> QED BY <2>3, <2>4 DEF NetInv, RequestOf, n
<1>6. AnsweredInv'
  <2>1. SUFFICES ASSUME NEW q \in Probes, q # p, probe[q].answer # NoAnswer, NEW r \in Seqs
                 PROVE  pending'[probe[q].sock][r] # probe[q].num
    BY DEF AnsweredInv
  <2>2. probe[q].sock \in Socks
    BY <2>1, CallFacts
  <2> QED BY <1>2, <2>1, <2>2 DEF AnsweredInv, n
<1>7. AnswerIsOwn'
  BY DEF AnswerIsOwn, OwnAnswer, RequestOf, NoAnswer
<1>8. GiveInv'
  <2>1. SUFFICES ASSUME NEW d \in Socks, reader[d].pc = "give"
                 PROVE  /\ reader[d].num \in 1 .. sent'[d]
                        /\ \A r \in Seqs : pending'[d][r] # reader[d].num
                        /\ \A q \in Probes :
                             probe'[q].sock = d /\ probe'[q].num = reader[d].num =>
                               probe'[q].answer = NoAnswer /\ OwnAnswer(q, reader[d].answer)'
    BY DEF GiveInv
  <2>2. reader[d].num \in 1 .. sent[d]
    BY <2>1 DEF GiveInv
  <2>3. reader[d].num \in 1 .. sent'[d] /\ ~(d = c /\ reader[d].num = n)
    BY <1>1, <2>2 DEF n
  <2>4. \A r \in Seqs : pending'[d][r] # reader[d].num
    BY <2>1, <2>3 DEF GiveInv, n
  <2> QED BY <2>1, <2>3, <2>4 DEF GiveInv, OwnAnswer, RequestOf, n
<1> QED BY <1>3, <1>4, <1>5, <1>6, <1>7, <1>8

\* Send and EndWait: the request may be on its way, the answer may be taken.
LEMMA MovesCall ==
  ASSUME IInv, TypeOK', UNCHANGED <<fd, reader, sent, pending>>, NEW p \in Probes,
         probe[p].pc \in Registered, probe'[p].pc \in Registered, SameCall(p),
         probe'[p].answer \in {probe[p].answer, NoAnswer},
         \A q \in Probes : q # p => probe'[q] = probe[q],
         net' \in {net, net \cup {RequestOf(p)}}
  PROVE  IInv'
<1> USE DEF IInv, SameCall
<1>0. \A q \in Probes : SameCall(q)
  OBVIOUS
<1>1. CallInv'
  <2>1. ASSUME NEW q \in Probes, q # p PROVE CallOk(q)'
    BY <2>1 DEF CallInv, CallOk
  <2>2. CallOk(p)'
    BY DEF CallInv, CallOk, Registered
  <2> QED BY <1>0, <2>1, <2>2 DEF CallInv
<1>2. TableInv'
  BY <1>0 DEF TableInv
<1>3. NetInv'
  <2>1. RequestOf(p).num \in 1 .. sent[RequestOf(p).sock]
    BY DEF RequestOf, CallInv, CallOk
  <2>2. ASSUME NEW m \in net', NEW q \in Probes, probe[q].sock = m.sock, probe[q].num = m.num
        PROVE  m = RequestOf(q)
    <3>1. CASE m = RequestOf(p)
      <4>1. p = q
        BY <2>1, <2>2, <3>1 DEF RequestOf, CallInv
      <4> QED BY <3>1, <4>1
    <3>2. CASE m \in net
      BY <2>2, <3>2 DEF NetInv
    <3> QED BY <3>1, <3>2
  <2>3. \A q \in Probes : RequestOf(q)' = RequestOf(q)
    BY <1>0 DEF RequestOf
  <2> QED BY <1>0, <2>1, <2>2, <2>3 DEF NetInv
<1>4. AnsweredInv'
  BY <1>0 DEF AnsweredInv
<1>5. AnswerIsOwn'
  BY <1>0 DEF AnswerIsOwn, OwnAnswer, RequestOf, NoAnswer
<1>6. GiveInv'
  BY <1>0 DEF GiveInv, OwnAnswer, RequestOf
<1> QED BY <1>1, <1>2, <1>3, <1>4, <1>5, <1>6

\* Receive: an answer leaves the table and is on its way to its probe.
LEMMA TakesAnswer ==
  ASSUME IInv, TypeOK', UNCHANGED <<fd, sent, net, probe>>, NEW c \in Socks,
         NEW m \in net \cup Foreign, NEW kind \in {"reply", "error", "local"}, NEW full \in BOOLEAN,
         NEW from \in Addresses, NEW p \in Probes, probe[p].sock = c,
         pending[c][m.seq] = probe[p].num, probe[p].num # 0, Matches(p, m, kind, full, from),
         reader' = [reader EXCEPT ![c] =
           [pc |-> "give", num |-> probe[p].num, answer |-> AnswerOf(m, kind, from)]],
         TakeWaiter(c, m.seq)
  PROVE  IInv'
<1> USE DEF IInv
<1>1. m.seq \in Seqs /\ (m \in net => m.sock \in Socks) /\ (m \notin net => m.sock = 0)
  BY DEF TypeOK, Requests, Foreign
<1>2. \A d \in Socks, r \in Seqs :
        pending'[d][r] = IF d = c /\ r = m.seq THEN 0 ELSE pending[d][r]
  BY <1>1, RemoveTable DEF TakeWaiter
<1>3. CallInv' /\ NetInv' /\ AnswerIsOwn'
  BY DEF CallInv, CallOk, NetInv, AnswerIsOwn, OwnAnswer, RequestOf
<1>4. TableInv'
  BY <1>2 DEF TableInv
<1>5. AnsweredInv'
  <2>1. SUFFICES ASSUME NEW q \in Probes, probe[q].answer # NoAnswer, NEW r \in Seqs
                 PROVE  pending'[probe[q].sock][r] # probe[q].num
    BY DEF AnsweredInv
  <2>2. probe[q].sock \in Socks /\ probe[q].num # 0
    BY <2>1, CallFacts
  <2> QED BY <1>2, <2>1, <2>2 DEF AnsweredInv
<1>6. GiveInv'
  <2> DEFINE a == AnswerOf(m, kind, from)
  <2>1. reader'[c].num = probe[p].num /\ reader'[c].answer = a
    BY DEF TypeOK
  <2>2. probe[p].num \in 1 .. sent[c]
    BY CallFacts
  <2>3. ASSUME NEW r \in Seqs PROVE pending'[c][r] # probe[p].num
    <3>1. \A t \in Seqs : pending[c][t] = probe[p].num => t = probe[p].seq
      BY DEF TableInv, CallInv
    <3> QED BY <1>1, <1>2, <3>1
  <2>4. probe[p].answer = NoAnswer
    BY <1>1 DEF AnsweredInv
  <2>5. OwnAnswer(p, a)
    <3>1. CASE kind = "reply"
      <4>1. a.kind = "reply" /\ a.of = m /\ a.from = from
        BY <3>1 DEF AnswerOf
      <4>2. m.sock = c /\ m.num = probe[p].num /\ from = probe[p].target
        BY <3>1 DEF Matches
      <4>3. m \in net
        BY <1>1, <4>2 DEF Socks
      <4>4. m = RequestOf(p)
        BY <4>2, <4>3 DEF NetInv
      <4> QED BY <4>1, <4>2, <4>4 DEF OwnAnswer
    <3>2. CASE kind = "error"
      <4>1. a.kind = "error" /\ a.target = m.target
        BY <3>2 DEF AnswerOf
      <4> QED BY <3>2, <4>1 DEF OwnAnswer, Matches
    <3>3. CASE kind = "local"
      <4>1. a.kind = "local"
        BY <3>3 DEF AnswerOf, LocalAnswer
      <4> QED BY <4>1 DEF OwnAnswer
    <3> QED BY <3>1, <3>2, <3>3
  <2>10. a # NoAnswer
    <3>1. a.kind = kind /\ NoAnswer.kind = "none"
      BY DEF AnswerOf, LocalAnswer, NoAnswer
    <3> QED BY <3>1
  <2> HIDE DEF a
  <2>6. ASSUME NEW d \in Socks, d # c PROVE reader'[d] = reader[d]
    BY <2>6 DEF TypeOK
  <2>7. ASSUME NEW q \in Probes, probe[q].sock = c, probe[q].num = probe[p].num PROVE q = p
    BY <2>7 DEF CallInv
  <2>8. \A q \in Probes : \A b : OwnAnswer(q, b)' = OwnAnswer(q, b)
    BY DEF OwnAnswer, RequestOf
  <2>9. ASSUME NEW d \in Socks, d # c, reader'[d].pc = "give"
        PROVE  /\ reader'[d].num \in 1 .. sent'[d]
               /\ \A r \in Seqs : pending'[d][r] # reader'[d].num
               /\ \A q \in Probes : probe'[q].sock = d /\ probe'[q].num = reader'[d].num =>
                    probe'[q].answer = NoAnswer /\ OwnAnswer(q, reader'[d].answer)
    BY <1>2, <2>6, <2>9 DEF GiveInv
  <2> QED BY <2>1, <2>2, <2>3, <2>4, <2>5, <2>7, <2>8, <2>9, <2>10 DEF GiveInv
<1> QED BY <1>3, <1>4, <1>5, <1>6

\* Give and FailPending: some probes, which are not in the table any more and for
\* which no reader holds an answer, get one.
LEMMA GivesAnswers ==
  ASSUME IInv, TypeOK', Quiet,
         \A c \in Socks, s \in Seqs : pending'[c][s] \in {pending[c][s], 0},
         \A q \in Probes : SameCall(q) /\ probe'[q].pc = probe[q].pc,
         \A q \in Probes :
           \/ probe'[q].answer = probe[q].answer
           \/ /\ probe[q].num # 0 /\ OwnAnswer(q, probe'[q].answer)
              /\ \A s \in Seqs : pending'[probe[q].sock][s] # probe[q].num
              /\ ~(reader'[probe[q].sock].pc = "give" /\ reader'[probe[q].sock].num = probe[q].num)
  PROVE  IInv'
<1> USE DEF IInv, Quiet, SameCall
<1>0. \A q \in Probes : \A a : OwnAnswer(q, a)' = OwnAnswer(q, a)
  BY DEF OwnAnswer, RequestOf
<1>1. CallInv'
  <2>1. ASSUME NEW q \in Probes PROVE CallOk(q)'
    BY DEF CallInv, CallOk
  <2> QED BY <2>1 DEF CallInv
<1>2. TableInv'
  BY DEF TableInv
<1>3. NetInv'
  BY DEF NetInv, RequestOf
<1>4. AnsweredInv'
  <2>1. SUFFICES ASSUME NEW q \in Probes, probe'[q].answer # NoAnswer, NEW s \in Seqs
                 PROVE  pending'[probe[q].sock][s] # probe[q].num
    BY DEF AnsweredInv
  <2>2. CASE probe'[q].answer = probe[q].answer
    <3>1. probe[q].sock \in Socks /\ probe[q].num # 0
      BY <2>1, <2>2, CallFacts
    <3> QED BY <2>1, <2>2, <3>1 DEF AnsweredInv
  <2> QED BY <2>2
<1>5. AnswerIsOwn'
  <2>1. ASSUME NEW q \in Probes PROVE OwnAnswer(q, probe'[q].answer)
    BY DEF AnswerIsOwn
  <2> QED BY <1>0, <2>1 DEF AnswerIsOwn
<1>6. GiveInv'
  <2>1. SUFFICES ASSUME NEW d \in Socks, reader'[d].pc = "give"
                 PROVE  /\ reader'[d].num \in 1 .. sent'[d]
                        /\ \A r \in Seqs : pending'[d][r] # reader'[d].num
                        /\ \A q \in Probes :
                             probe'[q].sock = d /\ probe'[q].num = reader'[d].num =>
                               probe'[q].answer = NoAnswer /\ OwnAnswer(q, reader[d].answer)'
    BY DEF GiveInv
  <2>2. reader'[d] = reader[d]
    BY <2>1
  <2>3. reader'[d].num \in 1 .. sent'[d] /\ \A r \in Seqs : pending'[d][r] # reader'[d].num
    BY <2>1, <2>2 DEF GiveInv
  <2>4. ASSUME NEW q \in Probes, probe'[q].sock = d, probe'[q].num = reader'[d].num
        PROVE  probe'[q].answer = NoAnswer /\ OwnAnswer(q, reader[d].answer)'
    BY <1>0, <2>1, <2>2, <2>4 DEF GiveInv
  <2> QED BY <2>3, <2>4
<1> QED BY <1>1, <1>2, <1>3, <1>4, <1>5, <1>6

LEMMA AnswerFacts ==
  ASSUME IInv, NEW c \in Socks, NEW ns, NEW a \in Answers, Answer(c, ns, a)
  PROVE  \A q \in Probes :
           /\ SameCall(q) /\ probe'[q].pc = probe[q].pc
           /\ probe'[q].answer = IF probe[q].sock = c /\ probe[q].num \in ns THEN a ELSE probe[q].answer
<1> SUFFICES ASSUME NEW q \in Probes
             PROVE  /\ SameCall(q) /\ probe'[q].pc = probe[q].pc
                    /\ probe'[q].answer =
                         IF probe[q].sock = c /\ probe[q].num \in ns THEN a ELSE probe[q].answer
  OBVIOUS
<1>1. probe[q] \in Calls
  BY DEF IInv, TypeOK
<1>2. CASE probe[q].sock = c /\ probe[q].num \in ns
  <2>1. probe'[q] = Call(probe[q].pc, probe[q].target, probe[q].sock, probe[q].seq, probe[q].num, a)
    BY <1>2 DEF Answer
  <2> QED BY <1>1, <1>2, <2>1 DEF SameCall, Call
<1>3. CASE ~(probe[q].sock = c /\ probe[q].num \in ns)
  <2>1. probe'[q] = probe[q]
    BY <1>3 DEF Answer
  <2> QED BY <1>3, <2>1 DEF SameCall
<1> QED BY <1>2, <1>3

LEMMA FailsCalls ==
  ASSUME IInv, TypeOK', Quiet, NEW c \in Socks, FailPending(c)
  PROVE  IInv'
<1> DEFINE ns == {pending[c][s] : s \in Seqs} \ {0}
<1>1. /\ Answer(c, ns, LocalAnswer)
      /\ \A d \in Socks, r \in Seqs : pending'[d][r] = IF d = c THEN 0 ELSE pending[d][r]
  BY FailTable DEF IInv, FailPending
<1>2. ASSUME NEW q \in Probes, probe[q].sock = c, probe[q].num \in ns
      PROVE  /\ probe[q].num # 0 /\ OwnAnswer(q, LocalAnswer)
             /\ \A s \in Seqs : pending'[c][s] # probe[q].num
             /\ ~(reader'[c].pc = "give" /\ reader'[c].num = probe[q].num)
  <2>1. probe[q].num # 0 /\ \A s \in Seqs : pending'[c][s] # probe[q].num
    BY <1>1, <1>2
  <2>2. OwnAnswer(q, LocalAnswer)
    BY DEF OwnAnswer, LocalAnswer
  <2>3. ~(reader[c].pc = "give" /\ reader[c].num = probe[q].num)
    BY <1>2 DEF IInv, GiveInv
  <2> QED BY <2>1, <2>2, <2>3 DEF Quiet
<1> HIDE DEF ns
<1>3. \A q \in Probes :
        /\ SameCall(q) /\ probe'[q].pc = probe[q].pc
        /\ probe'[q].answer =
             IF probe[q].sock = c /\ probe[q].num \in ns THEN LocalAnswer ELSE probe[q].answer
  BY <1>1, AnswerFacts, AnswerTypes
<1>4. \A d \in Socks, s \in Seqs : pending'[d][s] \in {pending[d][s], 0}
  BY <1>1
<1> QED BY <1>2, <1>3, <1>4, GivesAnswers

LEMMA GivesOne ==
  ASSUME IInv, TypeOK', NEW c \in Socks, Give(c)
  PROVE  IInv'
<1> USE DEF tableVars
<1> DEFINE n == reader[c].num
           a == reader[c].answer
<1>1. reader[c].pc = "give" /\ Answer(c, {n}, a)
  BY DEF Give
<1>2. a \in Answers
  BY DEF IInv, TypeOK, Readers
<1>3. n # 0 /\ \A s \in Seqs : pending[c][s] # n
  BY <1>1 DEF IInv, GiveInv
<1>4. \A q \in Probes : probe[q].sock = c /\ probe[q].num = n => OwnAnswer(q, a)
  BY <1>1 DEF IInv, GiveInv
<1>5. reader'[c].pc # "give" /\ \A d \in Socks : d # c => reader'[d] = reader[d]
  BY ReaderAtType DEF IInv, TypeOK, Give, Reading
<1>6. Quiet /\ UNCHANGED pending
  BY <1>5 DEF Quiet, Give
<1> HIDE DEF n, a
<1>7. \A q \in Probes :
        /\ SameCall(q) /\ probe'[q].pc = probe[q].pc
        /\ probe'[q].answer = IF probe[q].sock = c /\ probe[q].num \in {n} THEN a ELSE probe[q].answer
  BY <1>1, <1>2, AnswerFacts
<1>8. \A d \in Socks, s \in Seqs : pending'[d][s] \in {pending[d][s], 0}
  BY <1>6
<1>9. \A q \in Probes :
        \/ probe'[q].answer = probe[q].answer
        \/ /\ probe[q].num # 0 /\ OwnAnswer(q, probe'[q].answer)
           /\ \A s \in Seqs : pending'[probe[q].sock][s] # probe[q].num
           /\ ~(reader'[probe[q].sock].pc = "give" /\ reader'[probe[q].sock].num = probe[q].num)
  BY <1>3, <1>4, <1>5, <1>6, <1>7
<1> QED BY <1>6, <1>7, <1>8, <1>9, GivesAnswers

---------------------------------------------------------------------------
(* Every step                                                              *)

LEMMA ConnectIInv ==
  ASSUME IInv, SockInv, NEW p \in Probes, NEW t \in Targets, Connect(p, t)
  PROVE  IInv'
<1> USE DEF proberVars, tableVars, sockVars
<1>1. TypeOK'
  BY ConnectTypeOK DEF IInv
<1>2. probe[p].pc = "idle" /\ UNCHANGED <<net, sent, pending>>
  BY DEF Connect, UseSocket, OpenSocket, OpenFails
<1>3. ASSUME NEW c \in Socks, fd'[c] # "none", Quiet,
             probe' = [probe EXCEPT ![p] = Call("register", t, c, 0, 0, NoAnswer)]
      PROVE  IInv'
  <2>1. probe'[p] = Call("register", t, c, 0, 0, NoAnswer)
    BY <1>3 DEF IInv, TypeOK
  <2>2. /\ probe'[p].pc = "register" /\ probe'[p].target \in Targets /\ probe'[p].sock = c
        /\ probe'[p].num = 0 /\ probe'[p].answer = NoAnswer
    BY <2>1 DEF Call
  <2>3. \A q \in Probes : q # p => probe'[q] = probe[q]
    BY <1>3 DEF IInv, TypeOK
  <2> QED BY <1>1, <1>2, <1>3, <2>2, <2>3, StartsCall
<1>4. CASE UseSocket(p, t)
  <2>1. Quiet
    BY <1>2, <1>4 DEF Quiet, UseSocket
  <2>2. conn \in Socks /\ fd'[conn] # "none"
    BY <1>4 DEF SockInv, IInv, TypeOK, UseSocket, Socks
  <2> QED BY <1>3, <1>4, <2>1, <2>2 DEF UseSocket
<1>5. CASE OpenSocket(p, t)
  <2>1. PICK c \in Socks :
          /\ fd[c] = "none"
          /\ fd' = [fd EXCEPT ![c] = "open"]
          /\ reader' = [reader EXCEPT ![c] = Reading(c)]
          /\ probe' = [probe EXCEPT ![p] = Call("register", t, c, 0, 0, NoAnswer)]
    BY <1>5 DEF OpenSocket
  <2>2. Reading(c).pc # "give"
    BY ReaderAtType DEF Reading
  <2>3. fd'[c] = "open" /\ \A d \in Socks : fd[d] # "none" => fd'[d] # "none"
    BY <2>1 DEF IInv, TypeOK
  <2>4. \A d \in Socks : reader'[d].pc = "give" => reader'[d] = reader[d]
    BY <2>1, <2>2 DEF IInv, TypeOK
  <2>5. Quiet
    BY <1>2, <2>3, <2>4 DEF Quiet
  <2> QED BY <1>3, <2>1, <2>3, <2>5
<1>6. CASE OpenFails
  <2>1. Quiet /\ UNCHANGED <<pending, probe>>
    BY <1>2, <1>6 DEF Quiet, OpenFails
  <2> QED BY <1>1, <2>1, KeepsCalls
<1> QED BY <1>4, <1>5, <1>6 DEF Connect

LEMMA ProbeIInv ==
  ASSUME IInv, NEW p \in Probes, Probe(p)
  PROVE  IInv'
<1> USE DEF proberVars, tableVars, sockVars
<1>0. /\ probe[p] \in Calls
      /\ probe[p].pc # "idle" => probe[p].sock \in Socks /\ probe[p].target \in Targets
  <2>1. probe[p] \in Calls
    BY DEF IInv, TypeOK
  <2> QED BY <2>1, CallFields DEF IInv, CallInv, CallOk, Registered
<1>1. TypeOK'
  BY <1>0, ProbeTypeOK DEF IInv
<1>2. \A q \in Probes : q # p => probe'[q] = probe[q]
  BY DEF IInv, TypeOK, Probe, Register, Send, Sendto, Step, EndWait, Unregister
<1>3. ASSUME NEW pc \in Registered, NEW a \in {probe[p].answer, NoAnswer}, Step(p, pc, a)
      PROVE  probe'[p].pc = pc /\ probe'[p].answer = a /\ SameCall(p)
  <2>1. probe'[p] = Call(pc, probe[p].target, probe[p].sock, probe[p].seq, probe[p].num, a)
    BY <1>3 DEF IInv, TypeOK, Step
  <2> QED BY <2>1 DEF Call, SameCall
<1>4. CASE Register(p) /\ UNCHANGED tableVars /\ probe' = [probe EXCEPT ![p] = Idle]
  <2>1. Quiet /\ UNCHANGED <<fd, reader, pending>>
    BY <1>4 DEF Quiet, Register
  <2>2. probe'[p] = Idle /\ probe[p].num = 0
    BY <1>4 DEF Register, IInv, TypeOK, CallInv, CallOk
  <2> QED BY <1>1, <1>2, <2>1, <2>2, EndsCall
<1>5. CASE Register(p) /\ ~Closing(probe[p].sock) /\ ~Full(probe[p].sock)
  <2> DEFINE c == probe[p].sock
             s == NextFree(c)
  <2>1. c \in Socks /\ probe[p].pc = "register"
    BY <1>0, <1>5 DEF Register
  <2>2. s \in Seqs /\ pending[c][s] = 0
    BY <1>5, <2>1, NextFreeIsFree DEF IInv
  <2> HIDE DEF s
  <2>3. /\ sent' = [sent EXCEPT ![c] = sent[c] + 1]
        /\ pending' = [pending EXCEPT ![c] = [pending[c] EXCEPT ![s] = sent[c] + 1]]
        /\ probe' = [probe EXCEPT ![p] = Call("send", probe[p].target, c, s, sent[c] + 1, NoAnswer)]
        /\ UNCHANGED <<fd, reader, net>>
    BY <1>5 DEF Register, s
  <2>4. probe'[p] = Call("send", probe[p].target, c, s, sent[c] + 1, NoAnswer)
    BY <2>3 DEF IInv, TypeOK
  <2>5. /\ probe'[p].pc = "send" /\ probe'[p].target = probe[p].target /\ probe'[p].sock = c
        /\ probe'[p].seq = s /\ probe'[p].num = sent[c] + 1 /\ probe'[p].answer = NoAnswer
    BY <2>4 DEF Call
  <2> HIDE DEF c
  <2>6. \A d \in Socks, r \in Seqs :
          pending'[d][r] = IF d = c /\ r = s THEN sent[c] + 1 ELSE pending[d][r]
    <3> DEFINE row == [pending[c] EXCEPT ![s] = sent[c] + 1]
    <3>1. \A r \in Seqs : row[r] = IF r = s THEN sent[c] + 1 ELSE pending[c][r]
      BY <2>1 DEF IInv, TypeOK
    <3>2. pending' = [pending EXCEPT ![c] = row]
      BY <2>3
    <3> HIDE DEF row
    <3> QED BY <2>1, <3>1, <3>2 DEF IInv, TypeOK
  <2>7. sent'[c] = sent[c] + 1 /\ \A d \in Socks : d # c => sent'[d] = sent[d]
    BY <2>1, <2>3 DEF IInv, TypeOK
  <2>8. probe[p].sock = c
    BY DEF c
  <2> QED BY <1>1, <1>2, <2>1, <2>2, <2>3, <2>5, <2>6, <2>7, <2>8, EntersTable
<1>6. CASE Send(p)
  <2>1. PICK pc \in {"wait", "leave"} : Step(p, pc, probe[p].answer)
    BY <1>6 DEF Send, Sendto
  <2>2. /\ UNCHANGED <<fd, reader, sent, pending>> /\ probe[p].pc \in Registered
        /\ net' \in {net, net \cup {RequestOf(p)}}
    BY <1>6 DEF Send, Sendto, Registered
  <2>3. probe'[p].pc \in Registered /\ probe'[p].answer = probe[p].answer /\ SameCall(p)
    BY <1>3, <2>1 DEF Registered
  <2> QED BY <1>1, <1>2, <2>2, <2>3, MovesCall
<1>7. CASE EndWait(p)
  <2>1. /\ UNCHANGED <<fd, reader, sent, pending, net>> /\ probe[p].pc \in Registered
        /\ Step(p, "leave", NoAnswer)
    BY <1>7 DEF EndWait, Registered
  <2>2. probe'[p].pc \in Registered /\ probe'[p].answer = NoAnswer /\ SameCall(p)
    BY <1>3, <2>1 DEF Registered
  <2> QED BY <1>1, <1>2, <2>1, <2>2, MovesCall
<1>8. CASE Unregister(p)
  <2> DEFINE c == probe[p].sock
             s == probe[p].seq
             n == probe[p].num
  <2>1. c \in Socks /\ s \in Seqs /\ n # 0 /\ probe[p].pc = "leave"
    BY <1>0, <1>8, CallFields DEF Unregister, IInv, CallInv, CallOk, Registered
  <2>2. Quiet /\ UNCHANGED <<fd, reader>>
    BY <1>8 DEF Quiet, Unregister
  <2>3. probe'[p] = Idle
    BY <1>8 DEF Unregister, IInv, TypeOK
  <2>4. \A r \in Seqs : pending[c][r] = n => r = s
    BY <2>1 DEF IInv, TableInv, CallInv
  <2>5. CASE pending[c][s] = n
    <3>1. \A d \in Socks, r \in Seqs :
            pending'[d][r] = IF d = c /\ r = s THEN 0 ELSE pending[d][r]
      BY <1>8, <2>1, <2>5, RemoveTable DEF Unregister, IInv
    <3> HIDE DEF c, s, n
    <3>2. \A r \in Seqs : pending'[c][r] # n
      BY <2>1, <2>4, <3>1
    <3>3. \A d \in Socks, r \in Seqs : pending'[d][r] \in {pending[d][r], 0}
      BY <3>1
    <3> QED BY <1>1, <1>2, <2>2, <2>3, <3>2, <3>3, EndsCall DEF c, n
  <2>6. CASE pending[c][s] # n
    <3>1. UNCHANGED pending
      BY <1>8, <2>6 DEF Unregister
    <3>2. \A r \in Seqs : pending'[c][r] # n
      BY <2>4, <2>6, <3>1
    <3> QED BY <1>1, <1>2, <2>2, <2>3, <3>1, <3>2, EndsCall
  <2> QED BY <2>5, <2>6
<1> QED BY <1>4, <1>5, <1>6, <1>7, <1>8 DEF Probe, Register

LEMMA ReaderIInv ==
  ASSUME IInv, NEW c \in Socks, Reader(c)
  PROVE  IInv'
<1> USE DEF proberVars, tableVars
<1>1. TypeOK'
  BY ReaderTypeOK DEF IInv
<1>2. CASE Receive(c)
  <2>1. UNCHANGED <<fd, sent, net, probe>>
    BY <1>2 DEF Receive
  <2>2. CASE reader' = [reader EXCEPT ![c] = Reading(c)] /\ UNCHANGED pending
    <3>1. Reading(c).pc # "give"
      BY ReaderAtType DEF Reading
    <3>2. Quiet
      BY <2>1, <2>2, <3>1 DEF Quiet, IInv, TypeOK
    <3> QED BY <1>1, <2>1, <2>2, <3>2, KeepsCalls
  <2>3. CASE reader' = [reader EXCEPT ![c] = ReaderAt("fail")] /\ UNCHANGED pending
    <3>1. ReaderAt("fail").pc # "give"
      BY ReaderAtType
    <3>2. Quiet
      BY <2>1, <2>3, <3>1 DEF Quiet, IInv, TypeOK
    <3> QED BY <1>1, <2>1, <2>3, <3>2, KeepsCalls
  <2>4. CASE \E m \in net \cup Foreign, kind \in {"reply", "error", "local"}, full \in BOOLEAN,
                from \in Addresses, p \in Probes :
               /\ probe[p].sock = c /\ pending[c][m.seq] = probe[p].num /\ probe[p].num # 0
               /\ Matches(p, m, kind, full, from)
               /\ reader' = [reader EXCEPT ![c] =
                    [pc |-> "give", num |-> probe[p].num, answer |-> AnswerOf(m, kind, from)]]
               /\ TakeWaiter(c, m.seq)
    BY <1>1, <2>1, <2>4, TakesAnswer
  <2> QED BY <1>2, <2>2, <2>3, <2>4 DEF Receive
<1>3. CASE Give(c)
  BY <1>1, <1>3, GivesOne
<1>4. CASE ReaderFails(c)
  <2>1. ReaderAt("gone").pc # "give"
    BY ReaderAtType
  <2>2. Quiet
    BY <1>4, <2>1 DEF Quiet, ReaderFails, IInv, TypeOK
  <2> QED BY <1>1, <1>4, <2>2, FailsCalls DEF ReaderFails
<1> QED BY <1>2, <1>3, <1>4 DEF Reader

LEMMA CloserIInv ==
  ASSUME IInv, NEW c \in Socks, CloseSocket(c)
  PROVE  IInv'
<1> USE DEF proberVars, tableVars
<1>1. TypeOK'
  BY CloserTypeOK DEF IInv
<1>2. Quiet
  BY DEF Quiet, CloseSocket, Closer, IInv, TypeOK
<1>3. CASE FailPending(c)
  BY <1>1, <1>2, <1>3, FailsCalls
<1>4. CASE UNCHANGED <<pending, probe>>
  BY <1>1, <1>2, <1>4, KeepsCalls
<1> QED BY <1>3, <1>4 DEF CloseSocket, Closer

LEMMA OtherIInv ==
  ASSUME IInv, Close \/ (\E c \in Socks : Break(c)) \/ UNCHANGED vars
  PROVE  IInv'
<1> USE DEF proberVars, tableVars
<1>1. TypeOK'
  BY OtherTypeOK DEF IInv
<1>2. UNCHANGED <<sent, net, reader, pending, probe>>
  BY DEF Close, Break, vars
<1>3. \A c \in Socks : fd[c] # "none" => fd'[c] # "none"
  BY DEF Close, Break, vars, IInv, TypeOK
<1>4. Quiet
  BY <1>2, <1>3 DEF Quiet
<1> QED BY <1>1, <1>2, <1>4, KeepsCalls

---------------------------------------------------------------------------
(* No waiter is forgotten                                                  *)

WaitInv == TrackedInv /\ LookedInv

\* Nothing is taken from a call that waits, and its socket is still looked after.
LEMMA StillWaits ==
  ASSUME WaitInv,
         \A q \in Probes : probe'[q].pc \in {"send", "wait"} =>
           /\ probe[q].pc = probe'[q].pc /\ SameCall(q)
           /\ Coming(q) => Coming(q)'
           /\ \/ Coming(q)'
              \/ /\ pending'[probe[q].sock][probe[q].seq] = pending[probe[q].sock][probe[q].seq]
                 /\ probe[q].pc = "wait" /\ Looked(probe[q].sock) => Looked(probe[q].sock)'
  PROVE  WaitInv'
<1> SUFFICES ASSUME NEW q \in Probes, probe'[q].pc \in {"send", "wait"}
             PROVE  /\ Coming(q)' \/ pending'[probe'[q].sock][probe'[q].seq] = probe'[q].num
                    /\ probe'[q].pc = "wait" => Coming(q)' \/ Looked(probe[q].sock)'
  <2>1. ASSUME NEW q \in Probes, probe'[q].pc = "wait" PROVE probe'[q].sock = probe[q].sock
    BY <2>1 DEF SameCall
  <2> QED BY <2>1 DEF WaitInv, TrackedInv, LookedInv, Looked
<1> QED BY DEF WaitInv, TrackedInv, LookedInv, SameCall

LEMMA FailsWait ==
  ASSUME IInv, IInv', WaitInv, Quiet, NEW c \in Socks, FailPending(c), reader[c].pc # "give",
         \A d \in Socks : d # c => reader'[d] = reader[d] /\ closer'[d] = closer[d]
  PROVE  WaitInv'
<1> DEFINE ns == {pending[c][s] : s \in Seqs} \ {0}
<1>1. /\ Answer(c, ns, LocalAnswer)
      /\ \A d \in Socks, r \in Seqs : pending'[d][r] = IF d = c THEN 0 ELSE pending[d][r]
  BY FailTable DEF IInv, FailPending
<1>2. \A q \in Probes :
        /\ SameCall(q) /\ probe'[q].pc = probe[q].pc
        /\ probe'[q].answer =
             IF probe[q].sock = c /\ probe[q].num \in ns THEN LocalAnswer ELSE probe[q].answer
  BY <1>1, AnswerFacts, AnswerTypes
<1>3. LocalAnswer # NoAnswer
  BY DEF LocalAnswer, NoAnswer
<1>4. SUFFICES ASSUME NEW q \in Probes, probe[q].pc \in {"send", "wait"}
               PROVE  /\ Coming(q) => Coming(q)'
                      /\ \/ Coming(q)'
                         \/ /\ pending'[probe[q].sock][probe[q].seq] = pending[probe[q].sock][probe[q].seq]
                            /\ Looked(probe[q].sock) => Looked(probe[q].sock)'
  BY <1>2, StillWaits
<1>5. probe[q].sock \in Socks /\ probe[q].seq \in Seqs /\ probe[q].num # 0
  BY <1>4, CallFacts DEF IInv, CallInv, CallOk, Registered
<1>6. CASE probe[q].sock = c
  <2>1. probe[q].answer # NoAnswer \/ probe[q].num \in ns
    BY <1>4, <1>5, <1>6 DEF WaitInv, TrackedInv, Coming
  <2> HIDE DEF ns
  <2>2. probe'[q].answer # NoAnswer
    BY <1>2, <1>3, <1>6, <2>1
  <2> QED BY <2>2 DEF Coming
<1>7. CASE probe[q].sock # c
  <2>1. /\ pending'[probe[q].sock][probe[q].seq] = pending[probe[q].sock][probe[q].seq]
        /\ reader'[probe[q].sock] = reader[probe[q].sock] /\ closer'[probe[q].sock] = closer[probe[q].sock]
        /\ probe'[q].answer = probe[q].answer
    BY <1>1, <1>2, <1>5, <1>7
  <2> QED BY <1>2, <2>1 DEF Coming, Looked, SameCall
<1> QED BY <1>6, <1>7

LEMMA ReaderWait ==
  ASSUME IInv, IInv', SockInv, WaitInv, NEW c \in Socks, Reader(c)
  PROVE  WaitInv'
<1> USE DEF proberVars, tableVars
<1>1. UNCHANGED closer /\ \A d \in Socks : d # c => reader'[d] = reader[d]
  BY DEF Reader, Receive, Give, ReaderFails, IInv, TypeOK
<1>2. reader[c].pc \in {"recv", "give"} => Reading(c).pc = "recv" \/ closer[c] = "wait"
  BY ReaderAtType DEF Reading, Closing, SockInv
<1>3. CASE Receive(c)
  <2>1. UNCHANGED probe /\ reader[c].pc = "recv"
    BY <1>3 DEF Receive
  <2>2. Looked(c)'
    <3>1. reader'[c].pc \in {"recv", "give", "fail"} \/ closer[c] = "wait"
      BY <1>2, <1>3, ReaderAtType DEF Receive, IInv, TypeOK
    <3> QED BY <1>1, <3>1 DEF Looked
  <2>3. \A d \in Socks : Looked(d) => Looked(d)'
    BY <1>1, <2>2 DEF Looked
  <2>4. \A q \in Probes : probe[q].pc \in {"send", "wait"} /\ Coming(q) => Coming(q)'
    <3>1. SUFFICES ASSUME NEW q \in Probes, probe[q].pc \in {"send", "wait"}, Coming(q)
                   PROVE  Coming(q)'
      OBVIOUS
    <3>4. probe[q].sock \in Socks
      BY <3>1 DEF IInv, CallInv, CallOk, Registered
    <3>2. CASE probe[q].answer # NoAnswer
      BY <2>1, <3>2 DEF Coming
    <3>3. CASE reader[probe[q].sock].pc = "give" /\ probe[q].answer = NoAnswer
      <4>1. probe[q].sock # c
        BY <2>1, <3>3
      <4>2. reader'[probe[q].sock] = reader[probe[q].sock]
        BY <1>1, <3>4, <4>1
      <4> QED BY <2>1, <3>1, <3>3, <4>2 DEF Coming
    <3> QED BY <3>1, <3>2, <3>3 DEF Coming
  <2>5. CASE UNCHANGED pending
    BY <2>1, <2>3, <2>4, <2>5, StillWaits, CallFacts DEF SameCall, IInv, CallInv, CallOk, Registered
  <2>6. ASSUME NEW m \in net \cup Foreign, NEW p \in Probes, TakeWaiter(c, m.seq),
               probe[p].sock = c, pending[c][m.seq] = probe[p].num, probe[p].num # 0, NEW a,
               reader' = [reader EXCEPT ![c] = [pc |-> "give", num |-> probe[p].num, answer |-> a]]
        PROVE  WaitInv'
    <3>1. m.seq \in Seqs
      BY DEF Requests, Foreign, IInv, TypeOK
    <3>2. \A d \in Socks, r \in Seqs :
            pending'[d][r] = IF d = c /\ r = m.seq THEN 0 ELSE pending[d][r]
      BY <2>6, <3>1, RemoveTable DEF TakeWaiter, IInv
    <3>3. ASSUME NEW q \in Probes, probe[q].pc \in {"send", "wait"}
          PROVE  \/ Coming(q)'
                 \/ pending'[probe[q].sock][probe[q].seq] = pending[probe[q].sock][probe[q].seq]
      <4>1. probe[q].sock \in Socks /\ probe[q].seq \in Seqs /\ probe[q].num # 0
        BY <3>3, CallFacts DEF IInv, CallInv, CallOk, Registered
      <4>2. CASE Coming(q)
        BY <2>4, <3>3, <4>2
      <4>3. CASE /\ pending[probe[q].sock][probe[q].seq] = probe[q].num
                 /\ probe[q].sock = c /\ probe[q].seq = m.seq
        <5>1. q = p
          BY <2>6, <4>1, <4>3 DEF IInv, CallInv
        <5>2. reader'[c].pc = "give" /\ reader'[c].num = probe[p].num
          BY <2>6 DEF IInv, TypeOK
        <5> QED BY <2>1, <2>6, <5>1, <5>2 DEF Coming
      <4>4. CASE ~(probe[q].sock = c /\ probe[q].seq = m.seq)
        BY <3>2, <4>1, <4>4
      <4> QED BY <3>3, <4>2, <4>3, <4>4 DEF WaitInv, TrackedInv
    <3>4. \A q \in Probes : probe[q].pc \in {"send", "wait"} => probe[q].sock \in Socks
      BY DEF IInv, CallInv, CallOk, Registered
    <3> QED BY <2>1, <2>3, <2>4, <3>3, <3>4, StillWaits DEF SameCall
  <2> QED BY <1>3, <2>5, <2>6 DEF Receive
<1>4. CASE Give(c)
  <2> DEFINE n == reader[c].num
             a == reader[c].answer
  <2>1. reader[c].pc = "give" /\ Answer(c, {n}, a) /\ UNCHANGED pending
    BY <1>4 DEF Give
  <2>2. a \in Answers /\ a # NoAnswer
    BY <2>1 DEF IInv, TypeOK, Readers, GiveInv
  <2>3. \A q \in Probes :
          /\ SameCall(q) /\ probe'[q].pc = probe[q].pc
          /\ probe'[q].answer = IF probe[q].sock = c /\ probe[q].num \in {n} THEN a ELSE probe[q].answer
    BY <2>1, <2>2, AnswerFacts
  <2>4. Looked(c)'
    <3>1. reader'[c].pc = "recv" \/ closer[c] = "wait"
      BY <1>2, <1>4, <2>1 DEF Give, IInv, TypeOK
    <3> QED BY <1>1, <3>1 DEF Looked
  <2>5. \A d \in Socks : Looked(d) => Looked(d)'
    BY <1>1, <2>4 DEF Looked
  <2> HIDE DEF a
  <2>6. ASSUME NEW q \in Probes, probe[q].pc \in {"send", "wait"}
        PROVE  probe[q].sock \in Socks /\ (Coming(q) => Coming(q)')
    <3>1. probe[q].sock \in Socks
      BY <2>6 DEF IInv, CallInv, CallOk, Registered
    <3>2. CASE probe[q].sock = c
      BY <2>2, <2>3, <3>2 DEF Coming
    <3>3. CASE probe[q].sock # c
      <4>1. reader'[probe[q].sock] = reader[probe[q].sock] /\ probe'[q].answer = probe[q].answer
        BY <1>1, <2>3, <3>1, <3>3
      <4> QED BY <2>3, <3>1, <4>1 DEF Coming, SameCall
    <3> QED BY <3>1, <3>2, <3>3
  <2>7. ASSUME NEW q \in Probes, probe'[q].pc \in {"send", "wait"}
        PROVE  /\ probe[q].pc = probe'[q].pc /\ SameCall(q) /\ (Coming(q) => Coming(q)')
               /\ pending'[probe[q].sock][probe[q].seq] = pending[probe[q].sock][probe[q].seq]
               /\ Looked(probe[q].sock) => Looked(probe[q].sock)'
    <3>1. probe[q].pc = probe'[q].pc /\ SameCall(q)
      BY <2>3
    <3>2. probe[q].sock \in Socks /\ (Coming(q) => Coming(q)')
      BY <2>6, <2>7, <3>1
    <3>3. Looked(probe[q].sock) => Looked(probe[q].sock)'
      BY <2>5, <3>1, <3>2 DEF SameCall, Looked
    <3> QED BY <2>1, <3>1, <3>2, <3>3
  <2> QED BY <2>7, StillWaits
<1>5. CASE ReaderFails(c)
  <2>0. reader[c].pc # "give"
    BY <1>5 DEF ReaderFails
  <2>1. ReaderAt("gone").pc # "give"
    BY ReaderAtType
  <2>2. Quiet
    BY <1>5, <2>1 DEF Quiet, ReaderFails, IInv, TypeOK
  <2> QED BY <1>1, <1>5, <2>0, <2>2, FailsWait DEF ReaderFails
<1> QED BY <1>3, <1>4, <1>5 DEF Reader

LEMMA CloserWait ==
  ASSUME IInv, IInv', SockInv, WaitInv, NEW c \in Socks, CloseSocket(c)
  PROVE  WaitInv'
<1> USE DEF proberVars, tableVars
<1>1. UNCHANGED reader /\ \A d \in Socks : d # c => closer'[d] = closer[d]
  BY DEF CloseSocket, Closer, IInv, TypeOK
<1>2. CASE closer[c] = "fail" /\ FailPending(c)
  <2>1. reader[c].pc # "give"
    BY <1>2 DEF SockInv
  <2>2. Quiet
    BY <1>1 DEF Quiet, CloseSocket, Closer, IInv, TypeOK
  <2> QED BY <1>1, <1>2, <2>1, <2>2, FailsWait
<1>3. CASE closer[c] \in {"start", "wait"} /\ closer'[c] \in {"wait", "fail"} /\ UNCHANGED <<pending, probe>>
  <2>1. \A d \in Socks : Looked(d) => Looked(d)'
    BY <1>1, <1>3 DEF Looked
  <2>2. ASSUME NEW q \in Probes, probe[q].pc \in {"send", "wait"}
        PROVE  (Looked(probe[q].sock) => Looked(probe[q].sock)') /\ (Coming(q) => Coming(q)')
    <3>1. probe[q].sock \in Socks
      BY <2>2 DEF IInv, CallInv, CallOk, Registered
    <3>2. Coming(q) => Coming(q)'
      BY <1>1, <1>3 DEF Coming
    <3> QED BY <1>3, <2>1, <3>1, <3>2 DEF Looked
  <2> QED BY <1>3, <2>2, StillWaits DEF SameCall
<1> QED BY <1>2, <1>3 DEF CloseSocket, Closer, IInv, TypeOK

\* A step that takes no reader's answer and no table entry of a call that goes on.
LEMMA SocketsWait ==
  ASSUME IInv, SockInv, WaitInv,
         \/ \E p \in Probes, t \in Targets : Connect(p, t)
         \/ Close \/ (\E c \in Socks : Break(c)) \/ UNCHANGED vars
  PROVE  WaitInv'
<1> USE DEF proberVars, tableVars, sockVars
<1>1. UNCHANGED pending
  BY DEF Connect, UseSocket, OpenSocket, OpenFails, Close, Break, vars
<1>2. ASSUME NEW d \in Socks, fd[d] # "none"
      PROVE  reader'[d] = reader[d] /\ (closer'[d] = closer[d] \/ closer[d] = "none")
  <2>1. reader'[d] = reader[d]
    BY <1>2 DEF Connect, UseSocket, OpenSocket, OpenFails, Close, Break, vars, IInv, TypeOK
  <2>2. d # 0
    BY DEF Socks
  <2>3. closer'[d] = closer[d] \/ (d = conn /\ conn # 0)
    BY <2>2 DEF Connect, UseSocket, CloseOld, Close, Break, vars, IInv, TypeOK
  <2> QED BY <2>1, <2>3 DEF SockInv
<1>3. ASSUME NEW q \in Probes, probe'[q].pc \in {"send", "wait"} PROVE probe'[q] = probe[q]
  <2>1. ASSUME NEW p \in Probes, NEW t, NEW c,
               probe' = [probe EXCEPT ![p] = Call("register", t, c, 0, 0, NoAnswer)]
        PROVE  probe'[q] = probe[q]
    BY <1>3, <2>1 DEF Call, IInv, TypeOK
  <2> QED BY <2>1 DEF Connect, UseSocket, OpenSocket, OpenFails, Close, Break, vars
<1>4. ASSUME NEW q \in Probes, probe'[q].pc \in {"send", "wait"}
      PROVE  /\ probe[q].pc = probe'[q].pc /\ SameCall(q) /\ (Coming(q) => Coming(q)')
             /\ pending'[probe[q].sock][probe[q].seq] = pending[probe[q].sock][probe[q].seq]
             /\ Looked(probe[q].sock) => Looked(probe[q].sock)'
  <2>1. probe'[q] = probe[q]
    BY <1>3, <1>4
  <2>2. probe[q].sock \in Socks /\ fd[probe[q].sock] # "none"
    BY <1>4, <2>1 DEF IInv, CallInv, CallOk, Registered
  <2>3. /\ reader'[probe[q].sock] = reader[probe[q].sock]
        /\ closer'[probe[q].sock] = closer[probe[q].sock] \/ closer[probe[q].sock] = "none"
    BY <1>2, <2>2
  <2> QED BY <1>1, <2>1, <2>3 DEF SameCall, Coming, Looked
<1> QED BY <1>4, StillWaits

LEMMA ProbeWait ==
  ASSUME IInv, SockInv, WaitInv, NEW p \in Probes, Probe(p)
  PROVE  WaitInv'
<1> USE DEF proberVars, tableVars, sockVars
<1>0. /\ \A q \in Probes : q # p => probe'[q] = probe[q]
      /\ UNCHANGED <<reader, closer, fd>>
      /\ probe[p].pc # "idle" => probe[p].sock \in Socks /\ probe[p].seq \in Seqs
  <2>1. probe[p].pc # "idle" => probe[p].sock \in Socks /\ probe[p].seq \in Seqs
    <3>1. probe[p] \in Calls
      BY DEF IInv, TypeOK
    <3> QED BY <3>1, CallFields DEF IInv, CallInv, CallOk, Registered
  <2> QED BY <2>1
          DEF Probe, Register, Send, Sendto, Step, EndWait, Unregister, IInv, TypeOK
<1>1. ASSUME NEW q \in Probes, q # p, probe[q].pc \in {"send", "wait"},
             pending[probe[q].sock][probe[q].seq] = probe[q].num
      PROVE  pending'[probe[q].sock][probe[q].seq] = probe[q].num
  <2>0. probe[q].sock \in Socks /\ probe[q].seq \in Seqs /\ probe[q].num # 0
    BY <1>1, CallFacts DEF IInv, CallInv, CallOk, Registered
  <2>1. CASE UNCHANGED pending
    BY <1>1, <2>1
  <2>2. CASE Register(p) /\ ~Full(probe[p].sock) /\ ~Closing(probe[p].sock)
    <3> DEFINE c == probe[p].sock
               s == NextFree(c)
    <3>1. c \in Socks
      BY <1>0, <2>2 DEF Register
    <3>2. s \in Seqs /\ pending[c][s] = 0
      BY <2>2, <3>1, NextFreeIsFree DEF IInv
    <3> DEFINE row == [pending[c] EXCEPT ![s] = sent[c] + 1]
    <3>3. pending' = [pending EXCEPT ![c] = row]
      BY <2>2 DEF Register
    <3> HIDE DEF s
    <3>4. \A r \in Seqs : r # s => row[r] = pending[c][r]
      BY <3>1 DEF IInv, TypeOK
    <3> HIDE DEF row
    <3> QED BY <1>1, <2>0, <3>1, <3>2, <3>3, <3>4 DEF IInv, TypeOK
  <2>3. CASE Unregister(p) /\ pending[probe[p].sock][probe[p].seq] = probe[p].num
    <3>1. probe[p].sock \in Socks /\ probe[p].seq \in Seqs
      BY <1>0, <2>3 DEF Unregister
    <3>2. \A d \in Socks, r \in Seqs :
            pending'[d][r] = IF d = probe[p].sock /\ r = probe[p].seq THEN 0 ELSE pending[d][r]
      BY <2>3, <3>1, RemoveTable DEF Unregister, IInv
    <3>3. ~(probe[q].sock = probe[p].sock /\ probe[q].seq = probe[p].seq)
      BY <1>1, <2>0, <2>3 DEF IInv, CallInv
    <3> QED BY <1>1, <2>0, <3>2, <3>3
  <2> QED BY <2>1, <2>2, <2>3 DEF Probe, Register, Send, EndWait, Unregister
<1>2. ASSUME NEW q \in Probes, q # p, probe'[q].pc \in {"send", "wait"}
      PROVE  /\ Coming(q)' \/ pending'[probe'[q].sock][probe'[q].seq] = probe'[q].num
             /\ probe'[q].pc = "wait" => Coming(q)' \/ Looked(probe[q].sock)'
  <2>1. probe'[q] = probe[q] /\ UNCHANGED <<reader, closer>>
    BY <1>0, <1>2
  <2>2. Coming(q)' = Coming(q)
    BY <2>1 DEF Coming
  <2>3. Coming(q) \/ pending'[probe[q].sock][probe[q].seq] = probe[q].num
    BY <1>1, <1>2, <2>1 DEF WaitInv, TrackedInv
  <2> QED BY <1>2, <2>1, <2>2, <2>3 DEF WaitInv, LookedInv, Looked
<1>3. ASSUME probe'[p].pc \in {"send", "wait"}
      PROVE  /\ Coming(p)' \/ pending'[probe'[p].sock][probe'[p].seq] = probe'[p].num
             /\ probe'[p].pc = "wait" => Coming(p)' \/ Looked(probe[p].sock)'
  <2>1. CASE Register(p)
    <3> DEFINE c == probe[p].sock
               s == NextFree(c)
    <3>1. c \in Socks
      BY <1>0, <2>1 DEF Register
    <3>2. ~Closing(c) /\ ~Full(c)
      BY <1>3, <2>1 DEF Register, Idle, Call, IInv, TypeOK
    <3>3. s \in Seqs
      BY <3>1, <3>2, NextFreeIsFree DEF IInv
    <3> HIDE DEF s
    <3>4. /\ probe'[p] = Call("send", probe[p].target, c, s, sent[c] + 1, NoAnswer)
          /\ pending' = [pending EXCEPT ![c] = [pending[c] EXCEPT ![s] = sent[c] + 1]]
      BY <2>1, <3>2 DEF Register, IInv, TypeOK, s
    <3>5. /\ probe'[p].pc = "send" /\ probe'[p].sock = c /\ probe'[p].seq = s
          /\ probe'[p].num = sent[c] + 1
      BY <3>4 DEF Call
    <3> DEFINE row == [pending[c] EXCEPT ![s] = sent[c] + 1]
    <3>6. pending' = [pending EXCEPT ![c] = row]
      BY <3>4
    <3>7. row[s] = sent[c] + 1
      BY <3>1, <3>3 DEF IInv, TypeOK
    <3> HIDE DEF row, c
    <3>8. pending'[c][s] = sent[c] + 1
      BY <3>1, <3>6, <3>7 DEF IInv, TypeOK
    <3> QED BY <3>5, <3>8
  <2>2. CASE Send(p)
    <3>1. PICK pc \in {"wait", "leave"} : Step(p, pc, probe[p].answer)
      BY <2>2 DEF Send, Sendto
    <3>2. probe'[p] = Call(pc, probe[p].target, probe[p].sock, probe[p].seq, probe[p].num, probe[p].answer)
      BY <3>1 DEF Step, IInv, TypeOK
    <3>3. SameCall(p) /\ probe'[p].answer = probe[p].answer /\ UNCHANGED <<reader, pending>>
      BY <1>0, <2>2, <3>2 DEF SameCall, Call, Send
    <3>4. Coming(p) \/ pending[probe[p].sock][probe[p].seq] = probe[p].num
      BY <2>2 DEF Send, WaitInv, TrackedInv
    <3>5. Coming(p)' = Coming(p)
      BY <3>3 DEF Coming, SameCall
    <3>6. ~Closing(probe[p].sock) /\ fd[probe[p].sock] # "bad" /\ probe[p].sock \in Socks
      <4>1. probe[p].pc = "send" /\ probe'[p].pc = "wait"
        BY <1>3, <2>2, <3>2 DEF Send, Call
      <4>2. ~Step(p, "leave", probe[p].answer)
        BY <4>1 DEF Step, Call, IInv, TypeOK
      <4> QED BY <1>0, <2>2, <4>1, <4>2 DEF Send, Sendto
    <3>7. fd[probe[p].sock] = "open"
      <4>1. fd[probe[p].sock] # "none"
        BY <2>2 DEF Send, IInv, CallInv, CallOk, Registered
      <4> QED BY <3>6, <4>1 DEF SockInv, Closing, IInv, TypeOK
    <3>8. Looked(probe[p].sock)
      BY <3>6, <3>7 DEF SockInv, Looked
    <3>9. Looked(probe[p].sock)'
      BY <1>0, <3>3, <3>8 DEF Looked, SameCall
    <3> QED BY <3>3, <3>4, <3>5, <3>9 DEF SameCall
  <2>3. CASE EndWait(p)
    BY <1>3, <2>3 DEF EndWait, Step, Call, IInv, TypeOK
  <2>4. CASE Unregister(p)
    BY <1>3, <2>4 DEF Unregister, Idle, Call, IInv, TypeOK
  <2> QED BY <2>1, <2>2, <2>3, <2>4 DEF Probe
<1> QED BY <1>2, <1>3 DEF WaitInv, TrackedInv, LookedInv, Looked

---------------------------------------------------------------------------
(* Theorems                                                                *)

ProberInv == IInv /\ SockInv /\ WaitInv /\ NoLeakedSocket

LEMMA InitSock == Init => SockInv /\ NoLeakedSocket
BY DEF Init, SockInv, NoLeakedSocket, ReaderAt, Socks

LEMMA InitWait == Init => WaitInv
BY DEF Init, WaitInv, TrackedInv, LookedInv, Idle, Call

LEMMA NextInv == ProberInv /\ [Next]_vars => ProberInv'
<1> SUFFICES ASSUME ProberInv, [Next]_vars PROVE ProberInv'
  OBVIOUS
<1> USE DEF ProberInv
<1>1. TypeOK
  BY DEF IInv
<1>2. CASE \E p \in Probes, t \in Targets : Connect(p, t)
  BY <1>1, <1>2, ConnectIInv, ConnectSock, SocketsWait
<1>3. CASE \E p \in Probes : Probe(p)
  BY <1>1, <1>3, ProbeIInv, OtherSock, ProbeWait
<1>4. CASE \E c \in Socks : Reader(c)
  BY <1>1, <1>4, ReaderIInv, ReaderSock, ReaderWait
<1>5. CASE \E c \in Socks : CloseSocket(c)
  BY <1>1, <1>5, CloserIInv, CloserSock, CloserWait
<1>6. CASE Close \/ (\E c \in Socks : Break(c)) \/ UNCHANGED vars
  BY <1>1, <1>6, OtherIInv, OtherSock, SocketsWait
<1> QED BY <1>2, <1>3, <1>4, <1>5, <1>6 DEF Next

LEMMA Invariants == Spec => []ProberInv
<1>1. Init => ProberInv
  BY InitIInv, InitSock, InitWait DEF ProberInv
<1> QED BY <1>1, NextInv, PTL DEF Spec

\* Every variable keeps its type, the last sequence number among them within the
\* sequence numbers.
THEOREM TypesHold == Spec => []TypeOK
<1>1. ProberInv => TypeOK
  BY DEF ProberInv, IInv
<1> QED BY <1>1, Invariants, PTL

\* For any number of probes, sockets, addresses and sequence numbers, whatever
\* the network repeats, reorders or delays: a probe never takes the reply to
\* another request for its own (probe, handlePacket, handleQueuedError).
THEOREM AnswersAreOwn == Spec => []AnswerIsOwn
<1>1. ProberInv => AnswerIsOwn
  BY DEF ProberInv, IInv
<1> QED BY <1>1, Invariants, PTL

\* Every probe that waits for its answer has it coming, or is in the table and
\* will be found there: no failure or closing of the socket forgets one (probe,
\* readLoop, failPending, close).
THEOREM NoWaiterIsForgotten == Spec => []WaiterIsAnswerable
<1>1. ProberInv => WaiterIsAnswerable
  BY DEF ProberInv, WaitInv, TrackedInv, LookedInv, Coming, Looked, WaiterIsAnswerable
<1> QED BY <1>1, Invariants, PTL

\* The reader and the closer never wait for room in a probe's channel (deliver,
\* failPending).
THEOREM HandOversDoNotBlock == Spec => []HandOverNeverBlocks
<1>1. ProberInv => HandOverNeverBlocks
  BY CallFacts DEF ProberInv, IInv, GiveInv, AnsweredInv, HandOverNeverBlocks
<1> QED BY <1>1, Invariants, PTL

\* A socket that was replaced or closed is on its way to be closed (connection,
\* Close, close).
THEOREM SocketsAreClosed == Spec => []NoLeakedSocket
<1>1. ProberInv => NoLeakedSocket
  BY DEF ProberInv
<1> QED BY <1>1, Invariants, PTL

\* No request is sent on a descriptor that close has given back (probe, close).
THEOREM SendsNeverHitAClosedSocket == Spec => SendsOnOpenSocket
<1> DEFINE Safe == \A m \in net' \ net : fd[m.sock] = "open"
<1>1. ProberInv /\ [Next]_vars => [Safe]_vars
  <2> SUFFICES ASSUME ProberInv, Next, NEW m \in net' \ net PROVE fd[m.sock] = "open"
    BY DEF vars
  <2>1. PICK p \in Probes : Send(p)
    BY DEF Next, Connect, Probe, Register, EndWait, Unregister, Close, Reader, Receive, Give,
           ReaderFails, CloseSocket, Closer, Break
  <2>2. m = RequestOf(p) /\ ~Closing(probe[p].sock) /\ fd[probe[p].sock] # "bad"
    BY <2>1 DEF Send, Sendto
  <2>3. probe[p].sock \in Socks /\ fd[probe[p].sock] # "none"
    BY <2>1 DEF Send, ProberInv, IInv, CallInv, CallOk, Registered
  <2> QED BY <2>2, <2>3 DEF ProberInv, IInv, TypeOK, SockInv, Closing, RequestOf
<1> QED BY <1>1, Invariants, PTL DEF Spec, SendsOnOpenSocket
=============================================================================
