------------------------------- MODULE Writer -------------------------------
(***************************************************************************)
(* The InfluxDB writer (pkg/influxdb/writer.go).  The workers of the       *)
(* engine append one line for each probe result to a bounded buffer.  The  *)
(* goroutine flushLoop takes the whole buffer as one payload when a ticker *)
(* fires or a batch is full, sets the database up before the first write,  *)
(* sends the payload with retries, and puts it back in front of the buffer *)
(* when the database fails.  Stop ends the loop and flushes once more.     *)
(*                                                                         *)
(* A line is the number of its result; LineSize is its length.  The        *)
(* requests of the goroutine take time: lines are appended meanwhile.  The *)
(* database is external: any request may fail, with or without an effect.  *)
(***************************************************************************)
EXTENDS Naturals, FiniteSets, Sequences, SequencesExt

CONSTANTS
  LineSize,      \* LineSize[p]: the bytes of the line of result p
  MaxBufferSize, \* maxBufferSize, in the same unit
  BatchSize,     \* batchSize
  MaxAttempts,   \* attempts of one write: 3
  Retention,     \* a retention period is configured
  Databases,     \* what may be at the server when DINIS starts
  MaxPoints,     \* bound: probe results in one behaviour
  MaxFaults      \* bound: requests that fail or are refused

ASSUME WriterAssumption ==
  /\ MaxPoints \in Nat /\ MaxFaults \in Nat /\ MaxBufferSize \in Nat
  /\ LineSize \in [1 .. MaxPoints -> Nat \ {0}]
  /\ BatchSize \in Nat \ {0} /\ MaxAttempts \in Nat \ {0}
  /\ Retention \in BOOLEAN
  /\ Databases \subseteq {"absent", "plain"} /\ Databases # {}

VARIABLES
  recorded,      \* probe results so far
  buf,           \* Writer.buf
  count,         \* Writer.count
  flushSignal,   \* the one token of flushSignal
  flusher,       \* the flush under way: its payload, where it is, the attempt
  stage,         \* the loop and Stop
  dbReady,       \* Writer.dbReady
  droppedLines,  \* Writer.droppedLines
  stored,        \* the lines the database has
  database,      \* absent, plain (no retention period set by DINIS), retained
  refused,       \* the database refused the retention period
  faults         \* failed and refused requests so far

vars == <<recorded, buf, count, flushSignal, flusher, stage, dbReady, droppedLines,
          stored, database, refused, faults>>

serverVars == <<stored, database, refused>>
bufVars == <<recorded, buf, count>>

Points == 1 .. MaxPoints
Idle == [pc |-> "idle", payload |-> <<>>, attempt |-> 0]

\* Len() of a buffer, in bytes.
Bytes(lines) ==
  LET first[n \in 0 .. Len(lines)] == IF n = 0 THEN 0 ELSE first[n - 1] + LineSize[lines[n]]
  IN  first[Len(lines)]

TypeOK ==
  /\ recorded \in 0 .. MaxPoints
  /\ buf \in Seq(Points) /\ count \in 0 .. MaxPoints
  /\ flushSignal \in BOOLEAN
  /\ flusher \in [pc : {"idle", "create", "update", "send"}, payload : Seq(Points),
                  attempt : 0 .. MaxAttempts - 1]
  /\ stage \in {"running", "stopping", "lastFlush", "stopped"}
  /\ dbReady \in BOOLEAN /\ refused \in BOOLEAN
  /\ droppedLines \in Nat
  /\ stored \subseteq Points
  /\ database \in {"absent", "plain", "retained"}
  /\ faults \in 0 .. MaxFaults

---------------------------------------------------------------------------
(* The buffer                                                              *)

\* The first bytes that must go so that both parts fit; whole lines go.
Excess(payload) == Bytes(buf) + Bytes(payload) - MaxBufferSize

\* Variant: only the payload is held against the limit.
DroppedFromPayloadAlone(payload) ==
  Min({n \in 0 .. Len(payload) :
         Bytes(SubSeq(payload, n + 1, Len(payload))) <= MaxBufferSize})

DroppedFrom(payload) ==
  IF Bytes(buf) + Bytes(payload) <= MaxBufferSize THEN 0
  ELSE Min({n \in 0 .. Len(payload) :
              n = Len(payload) \/ Bytes(SubSeq(payload, 1, n)) >= Excess(payload)})

Kept(payload) == SubSeq(payload, DroppedFrom(payload) + 1, Len(payload))

\* The flush is over; in Stop, the writer is stopped.
FlushEnds ==
  /\ flusher' = Idle
  /\ stage' = IF stage = "lastFlush" THEN "stopped" ELSE stage

\* Variant: the payload goes behind the lines that came meanwhile.
RetainBehind ==
  /\ buf' = buf \o Kept(flusher.payload)
  /\ droppedLines' = droppedLines + DroppedFrom(flusher.payload)
  /\ FlushEnds
  /\ UNCHANGED <<recorded, count, flushSignal, dbReady>>

\* retainFailedPayload: count stays, only lines that come later fill a batch.
Retain ==
  /\ buf' = Kept(flusher.payload) \o buf
  /\ droppedLines' = droppedLines + DroppedFrom(flusher.payload)
  /\ FlushEnds
  /\ UNCHANGED <<recorded, count, flushSignal, dbReady>>

\* WriteProbe, by a worker of the engine. main.go stops the engine before it
\* stops the writer. At the limit the new line is dropped. The token is sent
\* after the unlock: the select takes it at any later time.
WriteProbe ==
  /\ stage = "running" /\ recorded < MaxPoints
  /\ recorded' = recorded + 1
  /\ IF Bytes(buf) + LineSize[recorded + 1] <= MaxBufferSize
     THEN buf' = Append(buf, recorded + 1) /\ count' = count + 1 /\ UNCHANGED droppedLines
     ELSE droppedLines' = droppedLines + 1 /\ UNCHANGED <<buf, count>>
  /\ flushSignal' = (flushSignal \/ count' >= BatchSize)
  /\ UNCHANGED <<flusher, stage, dbReady, serverVars, faults>>

---------------------------------------------------------------------------
(* A flush                                                                 *)

\* The start of flush: the whole buffer becomes the payload.
Take ==
  /\ buf # <<>>
  /\ flusher' = [pc |-> IF dbReady THEN "send" ELSE "create", payload |-> buf, attempt |-> 0]
  /\ buf' = <<>> /\ count' = 0
  /\ UNCHANGED <<recorded, dbReady, droppedLines, serverVars, faults>>

\* Variant: the ticker flushes full batches only.
TickFlushOfBatch ==
  /\ stage \in {"running", "stopping"} /\ flusher.pc = "idle"
  /\ count >= BatchSize /\ Take
  /\ UNCHANGED <<flushSignal, stage>>

TickFlush ==
  /\ stage \in {"running", "stopping"} /\ flusher.pc = "idle"
  /\ Take
  /\ UNCHANGED <<flushSignal, stage>>

SignalFlush ==
  /\ stage \in {"running", "stopping"} /\ flusher.pc = "idle" /\ flushSignal
  /\ flushSignal' = FALSE
  /\ \/ Take
     \/ buf = <<>> /\ UNCHANGED <<bufVars, flusher, dbReady, droppedLines, serverVars, faults>>
  /\ UNCHANGED stage

\* A request fails: the connection, a timeout, or a status of 500 and more. What
\* it asked for may have been done.
Fault == faults < MaxFaults /\ faults' = faults + 1
NoFault == UNCHANGED faults

DatabaseReady ==
  /\ dbReady' = TRUE
  /\ flusher' = [flusher EXCEPT !.pc = "send"]
  /\ UNCHANGED <<bufVars, flushSignal, stage, droppedLines, stored>>

\* ensureDatabase: POST creates a missing database with the retention period; an
\* existing one answers 409, and PUT sets it.
CreateDatabase ==
  /\ flusher.pc = "create"
  /\ \/ database = "absent" /\ database' = "retained" /\ UNCHANGED refused
        /\ NoFault /\ DatabaseReady
     \/ database # "absent" /\ flusher' = [flusher EXCEPT !.pc = "update"]
        /\ NoFault
        /\ UNCHANGED <<bufVars, flushSignal, stage, dbReady, droppedLines, serverVars>>

UpdateDatabase ==
  /\ flusher.pc = "update"
  /\ database' = "retained" /\ UNCHANGED refused
  /\ NoFault /\ DatabaseReady

\* Another status: a warning, and DINIS writes without the retention period.
RefuseDatabase ==
  /\ flusher.pc \in {"create", "update"}
  /\ refused' = TRUE /\ UNCHANGED database
  /\ Fault /\ DatabaseReady

\* Variant: the database counts as set up whatever the answer was.
FailDatabaseReady ==
  /\ flusher.pc \in {"create", "update"}
  /\ buf' = Kept(flusher.payload) \o buf
  /\ droppedLines' = droppedLines + DroppedFrom(flusher.payload)
  /\ FlushEnds /\ Fault
  /\ dbReady' = TRUE
  /\ UNCHANGED <<recorded, count, flushSignal, serverVars>>

\* The setup fails: no line is sent, all of them stay buffered.
FailDatabase ==
  /\ flusher.pc \in {"create", "update"}
  /\ database' \in {database, IF flusher.pc = "create" /\ database # "absent"
                              THEN database ELSE "retained"}
  /\ Fault /\ Retain
  /\ UNCHANGED <<stored, refused>>

\* InfluxDB stores the payload, and creates a missing database without a
\* retention period.
Stores ==
  /\ stored' = stored \cup Range(flusher.payload)
  /\ database' = IF database = "absent" THEN "plain" ELSE database
  /\ UNCHANGED refused

\* Status 2xx.
SendConfirmed ==
  /\ flusher.pc = "send"
  /\ Stores
  /\ FlushEnds /\ NoFault
  /\ UNCHANGED <<bufVars, flushSignal, dbReady, droppedLines>>

MayRetry == flusher.attempt < MaxAttempts - 1

Retry ==
  /\ flusher' = [flusher EXCEPT !.attempt = @ + 1]
  /\ UNCHANGED <<bufVars, flushSignal, stage, dbReady, droppedLines>>

\* No answer, or a status of 500 and more.
SendFailed ==
  /\ flusher.pc = "send"
  /\ Stores \/ UNCHANGED serverVars
  /\ Fault
  /\ IF MayRetry THEN Retry ELSE Retain

\* Too many requests: retried like a failure, but given up after the last attempt.
GiveUp ==
  /\ droppedLines' = droppedLines + Len(flusher.payload)
  /\ FlushEnds
  /\ UNCHANGED <<bufVars, flushSignal, dbReady>>

SendThrottled ==
  /\ flusher.pc = "send"
  /\ Fault
  /\ IF MayRetry THEN Retry ELSE GiveUp
  /\ UNCHANGED serverVars

\* Any other status: InfluxDB refuses the lines.
SendRefused ==
  /\ flusher.pc = "send"
  /\ Fault /\ GiveUp
  /\ UNCHANGED serverVars

---------------------------------------------------------------------------
(* Stop                                                                    *)

StopRequested ==
  /\ stage = "running"
  /\ stage' = "stopping"
  /\ UNCHANGED <<bufVars, flushSignal, flusher, dbReady, droppedLines, serverVars, faults>>

\* The loop sees stopChan; Stop, which waited for it, flushes the rest.
LoopExit ==
  /\ stage = "stopping" /\ flusher.pc = "idle"
  /\ \/ stage' = "lastFlush" /\ Take
     \/ buf = <<>> /\ stage' = "stopped"
        /\ UNCHANGED <<bufVars, flusher, dbReady, droppedLines, serverVars, faults>>
  /\ UNCHANGED flushSignal

Init ==
  /\ recorded = 0 /\ buf = <<>> /\ count = 0
  /\ flushSignal = FALSE /\ flusher = Idle
  /\ stage = "running"
  /\ dbReady = ~Retention
  /\ droppedLines = 0 /\ stored = {}
  /\ database \in Databases /\ refused = FALSE
  /\ faults = 0

Flush ==
  \/ TickFlush \/ SignalFlush
  \/ CreateDatabase \/ UpdateDatabase \/ RefuseDatabase \/ FailDatabase
  \/ SendConfirmed \/ SendFailed \/ SendThrottled \/ SendRefused
  \/ LoopExit

Next == WriteProbe \/ Flush \/ StopRequested

Spec == Init /\ [][Next]_vars

\* The goroutine runs: its ticker fires, a request ends (dial and client
\* timeouts), and a closed stopChan is seen.
FairSpec == Spec /\ WF_vars(Flush) /\ WF_vars(LoopExit)

---------------------------------------------------------------------------
(* Properties                                                              *)

\* What waits: the payload of the flush, then the buffer.
Waiting == flusher.payload \o buf

Queue == INSTANCE LossyQueue WITH waiting <- Waiting, dropped <- droppedLines

\* The buffer, the payload in flight, the retries and the lines that go at the
\* limit amount to one queue: results reach the database oldest first, one that
\* leaves without a confirmation is counted, and a failed flush that meets lines
\* that came meanwhile neither loses, reorders nor repeats any.
ImplementsQueue == Queue!Spec

\* The buffer never passes its limit, although workers fill it while a payload
\* that may come back is in flight.
BufferBounded == Bytes(buf) <= MaxBufferSize

\* No line is stored before the retention period is set, unless the database
\* refused to set it: a first write would create the database without one.
RetentionFirst ==
  Retention /\ stored # {} => database = "retained" \/ refused

\* When the database recovers, each line leaves: also the one that fills no batch
\* and the ones put back after a failure, which count no longer knows.
Drains ==
  \A p \in Points :
    p \in Range(Waiting) ~> p \notin Range(Waiting) \/ stage = "stopped"
=============================================================================
