------------------------------ MODULE Streams ------------------------------
(***************************************************************************)
(* The event streams of the dashboards (pkg/server/server.go).  Goroutines *)
(* of the engine and of requests change something and broadcast an event;  *)
(* the heartbeat broadcasts every second.  Each stream has a channel with  *)
(* a fixed room and a handler that writes its messages to a client, which  *)
(* may be slow or go away.                                                 *)
(*                                                                         *)
(* broadcastMu and the read lock of clientsMu are held from Lock to the    *)
(* end of a broadcast; sseClients changes only while nobody holds it.      *)
(***************************************************************************)
EXTENDS Naturals, FiniteSets, Sequences, SequencesExt

CONSTANTS
  Clients,      \* requests for /api/stream
  Casters,      \* goroutines that change something and broadcast it
  Heart,        \* the heartbeat
  Room,         \* the room of a channel: 100
  MaxStreams,   \* maxSSEClients
  MaxChanges,   \* bound: changes in one behaviour
  MaxBeats      \* bound: summaries and keepalives of the heartbeat

ASSUME StreamsAssumption ==
  /\ Room \in Nat \ {0} /\ MaxStreams \in Nat /\ MaxChanges \in Nat
  /\ MaxBeats \in Nat
  /\ Heart \notin Casters

VARIABLES
  beats,          \* messages of the heartbeat so far
  changes,        \* changes made so far: they are numbered 1 .. changes
  stream,         \* handleSSE of each client
  sseClients,     \* Coordinator.sseClients
  streamsDone,    \* Coordinator.streamsDone
  channel,        \* what waits in the channel of each client
  closed,         \* the channels that are closed
  panicked,       \* a send on a closed channel, or a second close
  caster,         \* the goroutines that broadcast
  owed            \* changes made while a client was registered and not told to it yet

clientVars == <<stream, sseClients, streamsDone, channel, closed, panicked>>
vars == <<beats, changes, clientVars, caster, owed>>

Processes == Casters \cup {Heart}

\* Messages: a change, desync, or one that tells of no change (summary, keepalive).
Desync == 0
Tick == MaxChanges + 1
Changes == 1 .. MaxChanges
Messages == 0 .. MaxChanges + 1

Quiet == [pc |-> "idle", event |-> Tick, keepalive |-> FALSE, todo |-> {}, drain |-> {}]
Outside == [pc |-> "out", msg |-> Tick]

TypeOK ==
  /\ beats \in 0 .. MaxBeats /\ changes \in 0 .. MaxChanges
  /\ stream \in [Clients ->
       [pc : {"out", "register", "read", "write", "leave", "gone"}, msg : Messages]]
  /\ sseClients \subseteq Clients /\ closed \subseteq Clients
  /\ streamsDone \in BOOLEAN /\ panicked \in BOOLEAN
  /\ channel \in [Clients -> Seq(Messages)]
  /\ caster \in [Processes ->
       [pc : {"idle", "check", "lock", "cast"}, event : Messages, keepalive : BOOLEAN,
        todo : SUBSET Clients, drain : SUBSET Clients]]
  /\ owed \in [Clients -> SUBSET Changes]

Init ==
  /\ beats = 0 /\ changes = 0
  /\ stream = [c \in Clients |-> Outside]
  /\ sseClients = {} /\ streamsDone = FALSE
  /\ channel = [c \in Clients |-> <<>>] /\ closed = {} /\ panicked = FALSE
  /\ caster = [b \in Processes |-> Quiet]
  /\ owed = [c \in Clients |-> {}]

\* Who holds broadcastMu, and the read lock of clientsMu.
Unlocked == \A b \in Processes : caster[b].pc # "cast"

---------------------------------------------------------------------------
(* Broadcasts                                                              *)

\* A transition of a host, an alert or an acknowledgement is in the engine or the
\* alert manager: its event follows.
Change(b) ==
  /\ caster[b].pc = "idle" /\ changes < MaxChanges
  /\ changes' = changes + 1
  /\ caster' = [caster EXCEPT ![b] = [@ EXCEPT !.pc = "check", !.event = changes + 1]]
  /\ owed' = [c \in Clients |-> IF c \in sseClients THEN owed[c] \cup {changes + 1} ELSE owed[c]]
  /\ UNCHANGED <<beats, clientVars>>

\* The heartbeat: a summary for open streams, and now and then a keepalive.
Beat ==
  /\ caster[Heart].pc = "idle" /\ beats < MaxBeats
  /\ beats' = beats + 1
  /\ \/ /\ sseClients # {}
        /\ caster' = [caster EXCEPT ![Heart] = [@ EXCEPT !.pc = "check"]]
     \/ caster' = [caster EXCEPT ![Heart] = [@ EXCEPT !.pc = "lock", !.keepalive = TRUE]]
  /\ UNCHANGED <<changes, clientVars, owed>>

\* broadcastEvent looks for clients and encodes the event outside the locks.
Check(b) ==
  /\ caster[b].pc = "check"
  /\ caster' = [caster EXCEPT ![b] =
       IF sseClients = {} THEN Quiet ELSE [@ EXCEPT !.pc = "lock"]]
  /\ UNCHANGED <<beats, changes, clientVars, owed>>

\* Variant: an event is given up while another broadcast runs.
LockOrGiveUp(b) ==
  /\ caster[b].pc = "lock"
  /\ caster' = [caster EXCEPT ![b] =
       IF Unlocked THEN [@ EXCEPT !.pc = "cast", !.todo = sseClients] ELSE Quiet]
  /\ UNCHANGED <<beats, changes, clientVars, owed>>

Lock(b) ==
  /\ caster[b].pc = "lock" /\ Unlocked
  /\ caster' = [caster EXCEPT ![b] = [@ EXCEPT !.pc = "cast", !.todo = sseClients]]
  /\ UNCHANGED <<beats, changes, clientVars, owed>>

\* A send: the value goes to the end of the channel. On a closed one it panics.
Put(c, m) ==
  /\ channel' = [channel EXCEPT ![c] = Append(@, m)]
  /\ panicked' = (panicked \/ c \in closed)

Full(c) == Len(channel[c]) = Room

\* The next client in the map: the message, if there is room. A keepalive is not
\* sent otherwise; for an event the channel is drained first.
Send(b, c) ==
  /\ caster[b].pc = "cast" /\ caster[b].drain = {} /\ c \in caster[b].todo
  /\ \/ /\ ~Full(c) /\ Put(c, caster[b].event)
        /\ caster' = [caster EXCEPT ![b].todo = @ \ {c}]
     \/ /\ Full(c)
        /\ caster' = [caster EXCEPT ![b] =
             IF @.keepalive THEN [@ EXCEPT !.todo = caster[b].todo \ {c}]
             ELSE [@ EXCEPT !.drain = {c}]]
        /\ UNCHANGED <<channel, panicked>>
  /\ UNCHANGED <<beats, changes, stream, sseClients, streamsDone, closed, owed>>

\* Variant: after the drain the event itself is sent.
DrainAndSend(b, c) ==
  /\ c \in caster[b].drain
  /\ \/ /\ channel[c] # <<>>
        /\ channel' = [channel EXCEPT ![c] = Tail(@)]
        /\ UNCHANGED <<caster, panicked>>
     \/ /\ channel[c] = <<>> /\ Put(c, caster[b].event)
        /\ caster' = [caster EXCEPT ![b] = [@ EXCEPT !.drain = {}, !.todo = caster[b].todo \ {c}]]
  /\ UNCHANGED <<beats, changes, stream, sseClients, streamsDone, closed, owed>>

\* The drain takes what is there, while the handler may take some of it too; one
\* desync takes its place.
Drain(b, c) ==
  /\ c \in caster[b].drain
  /\ \/ /\ channel[c] # <<>>
        /\ channel' = [channel EXCEPT ![c] = Tail(@)]
        /\ UNCHANGED <<caster, panicked>>
     \/ /\ channel[c] = <<>> /\ Put(c, Desync)
        /\ caster' = [caster EXCEPT ![b] = [@ EXCEPT !.drain = {}, !.todo = caster[b].todo \ {c}]]
  /\ UNCHANGED <<beats, changes, stream, sseClients, streamsDone, closed, owed>>

\* All clients had their turn: the locks are free.
Unlock(b) ==
  /\ caster[b].pc = "cast" /\ caster[b].todo = {}
  /\ caster' = [caster EXCEPT ![b] = Quiet]
  /\ UNCHANGED <<beats, changes, clientVars, owed>>

---------------------------------------------------------------------------
(* Streams                                                                 *)

\* An authorised request.
Open(c) ==
  /\ stream[c].pc = "out"
  /\ stream' = [stream EXCEPT ![c].pc = "register"]
  /\ UNCHANGED <<beats, changes, sseClients, streamsDone, channel, closed, panicked, caster, owed>>

\* Under clientsMu: refused during a shutdown and above the limit. The handler goes on
\* with writing a first summary.
Register(c) ==
  /\ stream[c].pc = "register" /\ Unlocked
  /\ IF streamsDone \/ Cardinality(sseClients) >= MaxStreams
     THEN stream' = [stream EXCEPT ![c].pc = "gone"] /\ UNCHANGED sseClients
     ELSE stream' = [stream EXCEPT ![c].pc = "write"] /\ sseClients' = sseClients \cup {c}
  /\ UNCHANGED <<beats, changes, streamsDone, channel, closed, panicked, caster, owed>>

\* A receive; a closed channel still gives what it holds.
Read(c) ==
  /\ stream[c].pc = "read"
  /\ \/ /\ channel[c] # <<>>
        /\ channel' = [channel EXCEPT ![c] = Tail(@)]
        /\ stream' = [stream EXCEPT ![c] = [@ EXCEPT !.pc = "write", !.msg = Head(channel[c])]]
     \/ /\ channel[c] = <<>> /\ c \in closed
        /\ stream' = [stream EXCEPT ![c].pc = "leave"]
        /\ UNCHANGED channel
  /\ UNCHANGED <<beats, changes, sseClients, streamsDone, closed, panicked, caster, owed>>

\* A write ends within 10 s. After a desync the client loads all data again.
Write(c) ==
  /\ stream[c].pc = "write"
  /\ stream' = [stream EXCEPT ![c] = [@ EXCEPT !.pc = "read", !.msg = Tick]]
  /\ owed' = [owed EXCEPT ![c] = IF stream[c].msg = Desync THEN {} ELSE @ \ {stream[c].msg}]
  /\ UNCHANGED <<beats, changes, sseClients, streamsDone, channel, closed, panicked, caster>>

\* The client has gone: its context is done, or a write fails.
Disconnect(c) ==
  /\ stream[c].pc \in {"read", "write"}
  /\ stream' = [stream EXCEPT ![c] = [@ EXCEPT !.pc = "leave", !.msg = Tick]]
  /\ UNCHANGED <<beats, changes, sseClients, streamsDone, channel, closed, panicked, caster, owed>>

\* Variant: the handler closes its channel without waiting for the lock.
LeaveUnlocked(c) ==
  /\ stream[c].pc = "leave"
  /\ stream' = [stream EXCEPT ![c].pc = "gone"]
  /\ owed' = [owed EXCEPT ![c] = {}]
  /\ IF c \in sseClients
     THEN /\ sseClients' = sseClients \ {c} /\ closed' = closed \cup {c}
          /\ panicked' = (panicked \/ c \in closed)
     ELSE UNCHANGED <<sseClients, closed, panicked>>
  /\ UNCHANGED <<beats, changes, streamsDone, channel, caster>>

\* The deferred function of handleSSE, under clientsMu.
Leave(c) ==
  /\ stream[c].pc = "leave" /\ Unlocked
  /\ stream' = [stream EXCEPT ![c].pc = "gone"]
  /\ owed' = [owed EXCEPT ![c] = {}]
  /\ IF c \in sseClients
     THEN /\ sseClients' = sseClients \ {c} /\ closed' = closed \cup {c}
          /\ panicked' = (panicked \/ c \in closed)
     ELSE UNCHANGED <<sseClients, closed, panicked>>
  /\ UNCHANGED <<beats, changes, streamsDone, channel, caster>>

\* Variant: the streams leave the map, but their channels stay open.
CloseStreamsForgets ==
  /\ Unlocked
  /\ streamsDone' = TRUE /\ sseClients' = {}
  /\ owed' = [c \in Clients |-> {}]
  /\ UNCHANGED <<beats, changes, stream, channel, closed, panicked, caster>>

\* By the shutdown of the HTTP server and by Coordinator.Stop, under clientsMu.
CloseStreams ==
  /\ Unlocked
  /\ streamsDone' = TRUE
  /\ sseClients' = {} /\ closed' = closed \cup sseClients
  /\ panicked' = (panicked \/ sseClients \cap closed # {})
  /\ owed' = [c \in Clients |-> {}]
  /\ UNCHANGED <<beats, changes, stream, channel, caster>>

---------------------------------------------------------------------------
Cast(b) == Check(b) \/ Lock(b) \/ Unlock(b)
           \/ \E c \in Clients : Send(b, c) \/ Drain(b, c)

Handler(c) == Register(c) \/ Read(c) \/ Write(c) \/ Leave(c)

Next ==
  \/ \E b \in Casters : Change(b)
  \/ Beat
  \/ \E b \in Processes : Cast(b)
  \/ \E c \in Clients : Open(c) \/ Handler(c) \/ Disconnect(c)
  \/ CloseStreams

Spec == Init /\ [][Next]_vars

\* Goroutines run, a write ends within its deadline, and who waits for a lock gets it
\* when nobody asks for it any more.
Fairness ==
  /\ \A b \in Processes : WF_vars(Cast(b))
  /\ \A c \in Clients : WF_vars(Handler(c))

FairSpec == Spec /\ Fairness

---------------------------------------------------------------------------
(* Properties                                                              *)

\* No message is sent on a closed channel and no channel is closed twice, although
\* broadcasts, the handlers that leave and the shutdown all act on the same map.
NoPanic == ~panicked

\* Where a change that a client was not told yet still is.
OnItsWay(c, n) ==
  \/ \E b \in Processes :
       /\ caster[b].event = n
       /\ \/ caster[b].pc \in {"check", "lock"}
          \/ caster[b].pc = "cast" /\ c \in caster[b].todo
  \/ \E b \in Processes : c \in caster[b].drain
  \/ n \in Range(channel[c]) \/ Desync \in Range(channel[c])
  \/ stream[c].pc = "write" /\ stream[c].msg \in {n, Desync}

\* An open stream never loses an event silently: each change made since it opened
\* was written, or its event or a desync is still on its way.
NothingMissedSilently ==
  \A c \in sseClients : stream[c].pc # "leave" => \A n \in owed[c] : OnItsWay(c, n)

\* Each change reaches each open stream, by its event or a desync, or the stream
\* ends.
ChangesReachClients ==
  \A c \in Clients, n \in Changes : n \in owed[c] ~> n \notin owed[c]

\* After CloseStreams all streams end, without waiting for a message or a client.
StreamsEnd ==
  streamsDone ~> \A c \in Clients : stream[c].pc \in {"out", "gone"}
=============================================================================
