------------------------------- MODULE Prober -------------------------------
(***************************************************************************)
(* The ICMP prober (pkg/pinger/icmp.go): probes share one socket, a reader *)
(* goroutine hands each reply to the probe that waits for it, and the      *)
(* socket is closed, or replaced when it fails, while probes use it.       *)
(*                                                                         *)
(* SingleProber.mu guards the choice of the socket, icmpConn.mu its        *)
(* pending probes, fdMu the file descriptor.  The network may lose,        *)
(* repeat, reorder and delay packets, also beyond the life of the socket   *)
(* that sent the request.  Statistics and the time of a reply are left     *)
(* out; in command mode and with a bad address a probe changes no state.   *)
(***************************************************************************)
EXTENDS Integers, FiniteSets

CONSTANTS
  Probes,     \* goroutines that call Probe
  Targets,    \* addresses
  Ids,        \* identifiers of a socket's requests, chosen at random
  SeqSpace,   \* number of sequence numbers, 2^16 in the code
  MaxSocks,   \* bound: sockets opened in one behaviour
  MaxCalls,   \* bound: calls of Probe in one behaviour
  Elsewhere   \* an address nobody probes; the target of an idle call

ASSUME ProberAssumption ==
  /\ SeqSpace \in Nat \ {0} /\ MaxSocks \in Nat /\ MaxCalls \in Nat
  /\ Elsewhere \notin Targets

Socks == 1 .. MaxSocks  \* in the order they are opened; 0: none
Seqs == 0 .. SeqSpace - 1

VARIABLES
  conn,     \* SingleProber.conn
  command,  \* SingleProber.command: no ICMP socket is permitted
  fd,       \* fd[c]: the descriptor of socket c
  ident,    \* ident[c]: the identifier of its requests
  broken,   \* sockets that failed
  reader,   \* reader[c]: readLoop, and the answer it is about to hand over
  closer,   \* closer[c]: icmpConn.close
  nextSeq,  \* nextSeq[c]: the last sequence number given out
  sent,     \* sent[c]: probes registered so far
  pending,  \* pending[c][seq]: the number of the probe that waits, 0 for none
  probe,    \* probe[p]: how far a call of Probe has come
  calls,    \* calls of Probe so far
  net       \* the requests that were sent: what an answer can refer to

vars == <<conn, command, fd, ident, broken, reader, closer, nextSeq, sent, pending,
          probe, calls, net>>
proberVars == <<conn, command>>
tableVars == <<nextSeq, sent, pending>>
sockVars == <<fd, ident, broken, reader, closer>>

Addresses == Targets \cup {Elsewhere}
Requests == [sock : Socks, seq : Seqs, num : Nat, target : Targets]
Foreign == [sock : {0}, seq : Seqs, num : {0}, target : Addresses]  \* of other programs
NoAnswer == [kind |-> "none"]
LocalAnswer == [kind |-> "local"]  \* a problem of this machine
Answers == {NoAnswer, LocalAnswer}
  \cup [kind : {"reply"}, of : Requests \cup Foreign, from : Addresses]
  \cup [kind : {"error"}, target : Addresses]

Readers == [pc : {"none", "recv", "give", "fail", "gone"}, num : Nat, answer : Answers]
Calls == [pc : {"idle", "register", "send", "wait", "leave"}, target : Addresses,
          sock : 0 .. MaxSocks, seq : Seqs, num : Nat, answer : Answers]
ReaderAt(pc) == [pc |-> pc, num |-> 0, answer |-> NoAnswer]
Call(pc, t, c, s, n, a) == [pc |-> pc, target |-> t, sock |-> c, seq |-> s, num |-> n, answer |-> a]
Idle == Call("idle", Elsewhere, 0, 0, 0, NoAnswer)

Closing(c) == closer[c] \in {"wait", "fail", "gone"}

\* The reader's next round: it looks at closing and then waits in Recvmsg.
Reading(c) == ReaderAt(IF Closing(c) THEN "gone" ELSE "recv")

TypeOK ==
  /\ conn \in 0 .. MaxSocks /\ command \in BOOLEAN
  /\ fd \in [Socks -> {"none", "open", "bad", "closed"}]
  /\ ident \in [Socks -> Ids]
  /\ broken \in SUBSET Socks
  /\ reader \in [Socks -> Readers]
  /\ closer \in [Socks -> {"none", "start", "wait", "fail", "gone"}]
  /\ nextSeq \in [Socks -> Seqs]
  /\ sent \in [Socks -> Nat]
  /\ pending \in [Socks -> [Seqs -> Nat]]
  /\ probe \in [Probes -> Calls]
  /\ calls \in 0 .. MaxCalls /\ net \in SUBSET Requests

Init ==
  /\ conn = 0 /\ command = FALSE
  /\ fd = [c \in Socks |-> "none"]
  /\ ident \in [Socks -> Ids]
  /\ broken = {}
  /\ reader = [c \in Socks |-> ReaderAt("none")]
  /\ closer = [c \in Socks |-> "none"]
  /\ nextSeq = [c \in Socks |-> 0]
  /\ sent = [c \in Socks |-> 0]
  /\ pending = [c \in Socks |-> [s \in Seqs |-> 0]]
  /\ probe = [p \in Probes |-> Idle]
  /\ calls = 0 /\ net = {}

---------------------------------------------------------------------------
(* SingleProber: the socket all probes share                               *)

Step(p, pc, a) ==
  probe' = [probe EXCEPT ![p] =
              Call(pc, probe[p].target, probe[p].sock, probe[p].seq, probe[p].num, a)]

\* connection() returns the open socket ...
UseSocket(p, t) ==
  /\ conn # 0 /\ conn \notin broken
  /\ probe' = [probe EXCEPT ![p] = Call("register", t, conn, 0, 0, NoAnswer)]
  /\ UNCHANGED <<proberVars, tableVars, sockVars>>

\* ... or replaces it.  A failed one is closed by a goroutine of its own.
ForgetOld == closer' = closer  \* mutant: the failed socket is not closed

CloseOld == closer' = IF conn = 0 THEN closer ELSE [closer EXCEPT ![conn] = "start"]

OpenSocket(p, t) ==
  \E c \in Socks :
    /\ fd[c] = "none" /\ \A m \in 1 .. c - 1 : fd[m] # "none"
    /\ conn' = c
    /\ fd' = [fd EXCEPT ![c] = "open"]
    /\ reader' = [reader EXCEPT ![c] = Reading(c)]
    /\ probe' = [probe EXCEPT ![p] = Call("register", t, c, 0, 0, NoAnswer)]
    /\ UNCHANGED <<command, ident, broken, tableVars>>

\* No socket is permitted: from now on the ping command.  Any other error ends
\* this probe only.
OpenFails ==
  /\ conn' = 0
  /\ command' \in BOOLEAN
  /\ UNCHANGED <<fd, ident, broken, reader, tableVars, probe>>

Connect(p, t) ==
  /\ probe[p].pc = "idle" /\ calls < MaxCalls
  /\ calls' = calls + 1
  /\ \/ UseSocket(p, t)
     \/ /\ conn = 0 \/ conn \in broken
        /\ ~command
        /\ CloseOld
        /\ OpenSocket(p, t) \/ OpenFails
  /\ UNCHANGED net

\* SingleProber.Close
Close ==
  /\ conn # 0
  /\ closer' = [closer EXCEPT ![conn] = "start"]
  /\ conn' = 0
  /\ UNCHANGED <<command, fd, ident, broken, reader, tableVars, probe, calls, net>>

---------------------------------------------------------------------------
(* A probe                                                                 *)

\* The free sequence number that comes first after the last one, modulo 2^16.
NextFree(c) ==
  LET Dist(s) == (s + SeqSpace - nextSeq[c] - 1) % SeqSpace
      free == {s \in Seqs : pending[c][s] = 0}
  IN CHOOSE s \in free : \A t \in free : Dist(s) <= Dist(t)

Full(c) == \A s \in Seqs : pending[c][s] # 0

Register(p) ==
  LET c == probe[p].sock
      s == NextFree(c) IN
  /\ probe[p].pc = "register"
  /\ \/ /\ Closing(c) \/ Full(c)
        /\ probe' = [probe EXCEPT ![p] = Idle]
        /\ UNCHANGED tableVars
     \/ /\ ~Closing(c) /\ ~Full(c)
        /\ sent' = [sent EXCEPT ![c] = @ + 1]
        /\ nextSeq' = [nextSeq EXCEPT ![c] = s]
        /\ pending' = [pending EXCEPT ![c] = [@ EXCEPT ![s] = sent[c] + 1]]
        /\ probe' = [probe EXCEPT ![p] =
                       Call("send", probe[p].target, c, s, sent[c] + 1, NoAnswer)]
  /\ UNCHANGED <<proberVars, sockVars, calls, net>>

RequestOf(p) == [sock |-> probe[p].sock, seq |-> probe[p].seq,
                 num |-> probe[p].num, target |-> probe[p].target]

\* sendto succeeds, or the kernel refuses (no route, no buffer space) ...
Sendto(p) ==
  \/ /\ fd[probe[p].sock] # "bad"
     /\ net' = net \cup {RequestOf(p)}
     /\ Step(p, "wait", probe[p].answer)
     /\ UNCHANGED broken
  \/ /\ fd[probe[p].sock] # "bad"
     /\ Step(p, "leave", probe[p].answer)
     /\ UNCHANGED <<net, broken>>
  \/ /\ fd[probe[p].sock] = "bad"  \* ... or the descriptor is no good: EBADF
     /\ broken' = broken \cup {probe[p].sock}
     /\ Step(p, "leave", probe[p].answer)
     /\ UNCHANGED net

Send(p) ==
  /\ probe[p].pc = "send"
  /\ \/ /\ Closing(probe[p].sock)
        /\ Step(p, "leave", probe[p].answer)
        /\ UNCHANGED <<net, broken>>
     \/ /\ ~Closing(probe[p].sock)
        /\ Sendto(p)
  /\ UNCHANGED <<proberVars, tableVars, fd, ident, reader, closer, calls>>

\* The reader has an answer, the timeout is over, or the context is cancelled.
EndWait(p) ==
  /\ probe[p].pc = "wait"
  /\ Step(p, "leave", NoAnswer)
  /\ UNCHANGED <<proberVars, tableVars, sockVars, calls, net>>

Remove(c, s) == pending' = [pending EXCEPT ![c] = [@ EXCEPT ![s] = 0]]

UnregisterBlindly(p) ==  \* mutant: whoever has the sequence number now
  /\ probe[p].pc = "leave"
  /\ Remove(probe[p].sock, probe[p].seq)
  /\ probe' = [probe EXCEPT ![p] = Idle]
  /\ UNCHANGED <<proberVars, nextSeq, sent, sockVars, calls, net>>

Unregister(p) ==
  /\ probe[p].pc = "leave"
  /\ IF pending[probe[p].sock][probe[p].seq] = probe[p].num
     THEN Remove(probe[p].sock, probe[p].seq)
     ELSE UNCHANGED pending
  /\ probe' = [probe EXCEPT ![p] = Idle]
  /\ UNCHANGED <<proberVars, nextSeq, sent, sockVars, calls, net>>

---------------------------------------------------------------------------
(* The reader of socket c                                                  *)

\* Puts answer a into the channel of probe n of socket c.  The channel holds
\* one: if it is full, the sender waits.
Answer(c, ns, a) ==
  LET to == {p \in Probes : probe[p].sock = c /\ probe[p].num \in ns} IN
  /\ \A p \in to : probe[p].answer = NoAnswer
  /\ probe' = [p \in Probes |->
       IF p \in to
       THEN Call(probe[p].pc, probe[p].target, probe[p].sock, probe[p].seq, probe[p].num, a)
       ELSE probe[p]]

\* The checks of an echo reply from an address, or of an ICMP error about request
\* m, against probe p.  The payload has the socket's token and the probe number;
\* an error is compared with it (full) only on a ping socket, and only if the
\* router quotes more than the first bytes of the request.
MatchesSeqOnly(p, m, kind, full, from) ==  \* mutant: without the probe number
  IF kind = "reply" THEN from = probe[p].target ELSE m.target = probe[p].target

Matches(p, m, kind, full, from) ==
  LET mine == m.sock = probe[p].sock /\ m.num = probe[p].num
  IN IF kind = "reply" THEN mine /\ from = probe[p].target
     ELSE m.target = probe[p].target /\ (full => mine)

AnswerOf(m, kind, from) ==
  IF kind = "reply" THEN [kind |-> "reply", of |-> m, from |-> from]
  ELSE IF kind = "error" THEN [kind |-> "error", target |-> m.target]
  ELSE LocalAnswer

\* deliver
TakeWaiter(c, s) == Remove(c, s)

\* Recvmsg and handlePacket or handleQueuedError: nothing for a probe that
\* waits, an answer, or EBADF.  A socket gets answers to requests with its
\* identifier, also to those of an earlier socket, or of another program, that
\* happens to use the same.
Receive(c) ==
  /\ reader[c].pc = "recv"
  /\ \/ /\ fd[c] = "open"
        /\ reader' = [reader EXCEPT ![c] = Reading(c)]
        /\ UNCHANGED <<broken, pending>>
     \/ /\ fd[c] = "open"
        /\ \E m \in net \cup Foreign, kind \in {"reply", "error", "local"}, full \in BOOLEAN, from \in Addresses, p \in Probes :
             /\ m.sock # 0 => ident[m.sock] = ident[c]
             /\ probe[p].sock = c /\ pending[c][m.seq] = probe[p].num /\ probe[p].num # 0
             /\ Matches(p, m, kind, full, from)
             /\ reader' = [reader EXCEPT ![c] =
                  [pc |-> "give", num |-> probe[p].num, answer |-> AnswerOf(m, kind, from)]]
             /\ TakeWaiter(c, m.seq)
        /\ UNCHANGED broken
     \/ /\ fd[c] = "bad"
        /\ broken' = broken \cup {c}
        /\ reader' = [reader EXCEPT ![c] = ReaderAt("fail")]
        /\ UNCHANGED pending
  /\ UNCHANGED <<proberVars, nextSeq, sent, fd, ident, closer, probe, calls, net>>

Give(c) ==
  /\ reader[c].pc = "give"
  /\ Answer(c, {reader[c].num}, reader[c].answer)
  /\ reader' = [reader EXCEPT ![c] = Reading(c)]
  /\ UNCHANGED <<proberVars, tableVars, fd, ident, broken, closer, calls, net>>

\* failPending takes the table and ends the probes in it.  That the channels are
\* filled later, one by one, makes no difference: only their own probes read them.
FailPending(c) ==
  /\ Answer(c, {pending[c][s] : s \in Seqs} \ {0}, LocalAnswer)
  /\ pending' = [pending EXCEPT ![c] = [s \in Seqs |-> 0]]

ReaderFails(c) ==
  /\ reader[c].pc = "fail"
  /\ FailPending(c)
  /\ reader' = [reader EXCEPT ![c] = ReaderAt("gone")]
  /\ UNCHANGED <<proberVars, nextSeq, sent, fd, ident, broken, closer, calls, net>>

Reader(c) == Receive(c) \/ Give(c) \/ ReaderFails(c)

---------------------------------------------------------------------------
(* icmpConn.close                                                          *)

\* It sets closing, waits for the reader, closes the descriptor and ends the
\* probes that still wait.
Closer(c) ==
  \/ /\ closer[c] = "start"
     /\ closer' = [closer EXCEPT ![c] = "wait"]
     /\ UNCHANGED <<tableVars, fd, probe>>
  \/ /\ closer[c] = "wait" /\ reader[c].pc = "gone"
     /\ fd' = [fd EXCEPT ![c] = "closed"]
     /\ closer' = [closer EXCEPT ![c] = "fail"]
     /\ UNCHANGED <<tableVars, probe>>
  \/ /\ closer[c] = "fail"
     /\ FailPending(c)
     /\ closer' = [closer EXCEPT ![c] = "gone"]
     /\ UNCHANGED <<nextSeq, sent, fd>>

CloseSocket(c) ==
  /\ Closer(c)
  /\ UNCHANGED <<proberVars, ident, broken, reader, calls, net>>

\* The kernel: the descriptor fails.
Break(c) ==
  /\ fd[c] = "open"
  /\ fd' = [fd EXCEPT ![c] = "bad"]
  /\ UNCHANGED <<proberVars, tableVars, ident, broken, reader, closer, probe, calls, net>>

---------------------------------------------------------------------------
Probe(p) == Register(p) \/ Send(p) \/ EndWait(p) \/ Unregister(p)

Next ==
  \/ \E p \in Probes, t \in Targets : Connect(p, t)
  \/ \E p \in Probes : Probe(p)
  \/ Close
  \/ \E c \in Socks : Reader(c) \/ CloseSocket(c) \/ Break(c)

Spec == Init /\ [][Next]_vars

---------------------------------------------------------------------------
(* What the prober promises                                                *)

OwnAnswer(p, a) ==
  /\ a.kind = "reply" => a.of = RequestOf(p) /\ a.from = probe[p].target
  /\ a.kind = "error" => a.target = probe[p].target

\* The answer a probe gets is its own: a reply answers this very request of
\* this socket and comes from the target, so that a late reply to a sequence
\* number that is used again, or to a socket that was replaced, does not count;
\* an ICMP error is at least about a request to the same target.
AnswerIsOwn == \A p \in Probes : OwnAnswer(p, probe[p].answer)

\* A probe that waits is not forgotten: its answer is there or on its way, or it
\* is in the table, and a reader or a closer will still look into the table.
\* Else a failed socket would count as a loss of the host.
WaiterIsAnswerable ==
  \A p \in Probes :
    LET c == probe[p].sock
        n == probe[p].num IN
    probe[p].pc = "wait" =>
      \/ probe[p].answer # NoAnswer
      \/ reader[c].pc = "give" /\ reader[c].num = n
      \/ /\ pending[c][probe[p].seq] = n
         /\ reader[c].pc \in {"recv", "give", "fail"} \/ closer[c] \in {"wait", "fail"}

\* Whoever hands over an answer finds the probe's channel empty: it holds one
\* answer, and a reader that waited there would stop all probes and never let
\* the socket be closed.
HandOverNeverBlocks ==
  \A p \in Probes :
    LET c == probe[p].sock IN
    probe[p].num # 0 /\ probe[p].answer # NoAnswer =>
      /\ ~(reader[c].pc = "give" /\ reader[c].num = probe[p].num)
      /\ \A s \in Seqs : pending[c][s] # probe[p].num

\* No request goes out on a descriptor that was closed: the kernel may have given
\* its number to another file.
SendsOnOpenSocket == [][\A m \in net' \ net : fd[m.sock] = "open"]_vars

\* Every socket the prober no longer uses is being closed.
NoLeakedSocket ==
  \A c \in Socks : fd[c] \in {"open", "bad"} => c = conn \/ closer[c] \notin {"none", "gone"}
=============================================================================
