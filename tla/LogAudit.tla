------------------------------- MODULE LogAudit ------------------------------
(***************************************************************************)
(* The life of the two Go services, and the audit log they write on the    *)
(* way.  The application builder starts a service step by step; once the   *)
(* sink is added to the default logger, every message of that logger is    *)
(* published to the fanout exchange log_audit, which copies it to queue    *)
(* logs.api, consumed with auto-ack into the table of the API (and to      *)
(* logs.blockchain, whose consumer is in SolanaStore).  The handlers of    *)
(* GET /v1/logs page through the table.                                    *)
(***************************************************************************)
EXTENDS Integers, Sequences, FiniteSets, Functions

CONSTANTS
  MaxRetries,   \* dials before ConnectToRabbitmq gives up
  MaxLimit,     \* the largest page the handlers allow
  Levels,       \* levels of messages that reach the sink
  SecondOf(_),  \* the second in which the n-th message is logged
  Asks,         \* the filters and limits readers ask for
  MaxCalls,     \* bound on the messages
  MaxStarts,    \* bound on the starts of each service
  MaxBroker,    \* bound on the restarts of the broker
  MaxScans      \* bound on the scans of a reader

Services == {"api", "blockchain"}

ASSUME LimitsAssumption == MaxRetries \in Nat \ {0} /\ MaxLimit \in Nat
ASSUME AsksAssumption == \A ask \in Asks : ask.limit \in Int
ASSUME SecondsAssumption == \A n \in 1 .. MaxCalls : SecondOf(n) \in Nat
ASSUME BoundsAssumption ==
  MaxCalls \in Nat /\ MaxStarts \in [Services -> Nat] /\ MaxBroker \in Nat /\ MaxScans \in Nat

Phases == {"down", "config", "dial", "registries", "sink", "workers", "start",
           "running", "draining", "closing"}

VARIABLES
  phase,    \* how far each service has come
  starts,   \* how often it was started
  dials,    \* attempts to connect
  conn,     \* whether its connection to the broker is open
  sinks,    \* the loggers of the process that have the sink
  queue,    \* the queue logs.api
  buffer,   \* messages the API has taken with auto-ack and not yet handled
  calls,    \* messages logged so far
  rows,     \* the table log_audit_entries, by id
  sent,     \* messages the broker has accepted
  lost,     \* those lost by a failed insert or by the end of the API
  broker,   \* restarts of the broker
  reader    \* a scan of the table

vars == <<phase, starts, dials, conn, sinks, queue, buffer, calls, rows, sent, lost, broker, reader>>
life == <<phase, starts, dials, conn, sinks>>
audit == <<queue, buffer, calls, rows, sent, lost>>

NoReader == [at |-> "idle", filter |-> "all", limit |-> 0, offset |-> 0,
             start |-> {}, seen |-> {}, scans |-> 0]

Init ==
  /\ phase = [s \in Services |-> "down"]
  /\ starts = [s \in Services |-> 0]
  /\ dials = [s \in Services |-> 0]
  /\ conn = [s \in Services |-> FALSE]
  /\ sinks = [s \in Services |-> {}]
  /\ queue = <<>> /\ buffer = <<>> /\ rows = <<>>
  /\ calls = 0 /\ sent = {} /\ lost = {} /\ broker = 0
  /\ reader = NoReader

-----------------------------------------------------------------------------
(***************************************************************************)
(* Starting a service (app_builder.go and the two main.go).                *)
(***************************************************************************)
Goto(s, p) == phase' = [phase EXCEPT ![s] = p]

\* The process ends: what it had taken from its queue is gone.
Die(s) ==
  /\ Goto(s, "down")
  /\ conn' = [conn EXCEPT ![s] = FALSE]
  /\ sinks' = [sinks EXCEPT ![s] = {}]
  /\ buffer' = IF s = "api" THEN <<>> ELSE buffer
  /\ lost' = IF s = "api" THEN lost \cup Range(buffer) ELSE lost

InitLogger(s) ==
  /\ phase[s] = "down" /\ starts[s] < MaxStarts[s]
  /\ starts' = [starts EXCEPT ![s] = @ + 1]
  /\ Goto(s, "config")
  /\ UNCHANGED <<dials, conn, sinks, audit, broker, reader>>

\* An unreadable config file panics; the API's options also open the database.
LoadConfig(s) ==
  /\ phase[s] = "config"
  /\ \E p \in {"dial", "down"} : Goto(s, p)
  /\ UNCHANGED <<starts, dials, conn, sinks, audit, broker, reader>>

\* ConnectToRabbitmq, whose counter ends with it; InitRabbitmqConnection
\* panics when it gives up.
Dial(s) ==
  /\ phase[s] = "dial"
  /\ \/ conn' = [conn EXCEPT ![s] = TRUE] /\ dials' = [dials EXCEPT ![s] = 0]
        /\ Goto(s, "registries")
     \/ /\ dials[s] + 1 < MaxRetries
        /\ dials' = [dials EXCEPT ![s] = @ + 1] /\ UNCHANGED <<conn, phase>>
     \/ /\ dials[s] + 1 = MaxRetries
        /\ dials' = [dials EXCEPT ![s] = 0] /\ Goto(s, "down") /\ UNCHANGED conn
  /\ UNCHANGED <<starts, sinks, audit, broker, reader>>

\* One channel per consumer and publisher, or Panicf.
InitRegistries(s) ==
  /\ phase[s] = "registries"
  /\ \/ conn[s] /\ Goto(s, "sink") /\ UNCHANGED <<conn, sinks, buffer, lost>>
     \/ Die(s)
  /\ UNCHANGED <<starts, dials, queue, calls, rows, sent, broker, reader>>

\* Mutant: the logger of package rabbitmq gets the sink too.
AddSinkToAll(s) ==
  /\ phase[s] = "sink" /\ Goto(s, "workers")
  /\ sinks' = [sinks EXCEPT ![s] = {"default", "rabbitmq"}]
  /\ UNCHANGED <<starts, dials, conn, audit, broker, reader>>

\* AddSinkToLoggerInstance on logger.Default() only.
AddSink(s) ==
  /\ phase[s] = "sink" /\ Goto(s, "workers")
  /\ sinks' = [sinks EXCEPT ![s] = {"default"}]
  /\ UNCHANGED <<starts, dials, conn, audit, broker, reader>>

\* The constructors: missing Solana keys panic.
AddWorkerServices(s) ==
  /\ phase[s] = "workers"
  /\ \/ Goto(s, "start") /\ UNCHANGED <<conn, sinks, buffer, lost>>
     \/ s = "blockchain" /\ Die(s)
  /\ UNCHANGED <<starts, dials, queue, calls, rows, sent, broker, reader>>

\* Start: one goroutine per worker service, and the HTTP server.
Start(s) ==
  /\ phase[s] = "start" /\ Goto(s, "running")
  /\ UNCHANGED <<starts, dials, conn, sinks, audit, broker, reader>>

-----------------------------------------------------------------------------
(***************************************************************************)
(* Stopping it (application.go).                                           *)
(***************************************************************************)
Signal(s) ==
  /\ phase[s] = "running" /\ Goto(s, "draining")
  /\ UNCHANGED <<starts, dials, conn, sinks, audit, broker, reader>>

\* srv.Shutdown waits for requests, not for consumers; then Conn.Close.
CloseConnection(s) ==
  /\ phase[s] = "draining" /\ Goto(s, "closing")
  /\ conn' = [conn EXCEPT ![s] = FALSE]
  /\ UNCHANGED <<starts, dials, sinks, audit, broker, reader>>

Exit(s) ==
  /\ phase[s] = "closing" /\ Die(s)
  /\ UNCHANGED <<starts, dials, queue, calls, rows, sent, broker, reader>>

\* The process is killed, or Fatalf ends it before its message reaches the sink.
Fatal(s) ==
  /\ phase[s] = "running" /\ Die(s)
  /\ UNCHANGED <<starts, dials, queue, calls, rows, sent, broker, reader>>

-----------------------------------------------------------------------------
(***************************************************************************)
(* Logging: a logger with the sink publishes, and the exchange copies.     *)
(***************************************************************************)

\* Mutant: the message is not marked persistent.
MessageTransient(source, level) ==
  [n |-> calls + 1, source |-> source, level |-> level, persistent |-> FALSE]

\* The LoggerMessage of a call, in an amqp.Publishing; it does not say which
\* service logged it.
Message(source, level) ==
  [n |-> calls + 1, source |-> source, level |-> level, persistent |-> TRUE]

\* activateSink and Publish: on a closed connection the message is dropped.
Publish(s, source, level) ==
  LET m == Message(source, level) IN
  IF source \in sinks[s] /\ calls < MaxCalls
  THEN /\ calls' = calls + 1
       /\ queue' = IF conn[s] THEN Append(queue, m) ELSE queue
       /\ sent' = IF conn[s] THEN sent \cup {m} ELSE sent
  ELSE UNCHANGED <<calls, queue, sent>>

LogCall(s, level) ==
  /\ phase[s] \in {"workers", "start", "running", "draining", "closing"}
  /\ calls < MaxCalls
  /\ Publish(s, "default", level)
  /\ UNCHANGED <<life, buffer, rows, lost, broker, reader>>

Connected == phase["api"] \in {"running", "draining"} /\ conn["api"]

\* Mutant: the message stays in the queue until it is handled.
DeliverPeek ==
  /\ Connected /\ queue # <<>> /\ Len(buffer) < 2
  /\ buffer' = Append(buffer, Head(queue))
  /\ UNCHANGED <<life, queue, calls, rows, sent, lost, broker, reader>>

\* The broker pushes; auto-ack removes the message from the queue.
Deliver ==
  /\ Connected /\ queue # <<>>
  /\ buffer' = Append(buffer, Head(queue))
  /\ queue' = Tail(queue)
  /\ UNCHANGED <<life, calls, rows, sent, lost, broker, reader>>

\* ProcessLogMessage names every row "api".
Row(m) == [n |-> m.n, level |-> m.level, service |-> "api", second |-> SecondOf(m.n)]

\* Mutant: a failed insert puts the message back behind the others.
StoreLogRequeue ==
  \/ rows' = Append(rows, Row(Head(buffer))) /\ buffer' = Tail(buffer) /\ UNCHANGED lost
  \/ buffer' = Append(Tail(buffer), Head(buffer)) /\ UNCHANGED <<rows, lost>>

\* The table takes the row, or the insert fails and the message is gone.
StoreLog ==
  /\ buffer' = Tail(buffer)
  /\ \/ rows' = Append(rows, Row(Head(buffer))) /\ UNCHANGED lost
     \/ lost' = lost \cup {Head(buffer)} /\ UNCHANGED rows

\* StartConsuming logs each message with its own logger, then calls the handler.
HandleLog ==
  /\ phase["api"] \in {"running", "draining", "closing"} /\ buffer # <<>>
  /\ Publish("api", "rabbitmq", "info")
  /\ StoreLog
  /\ UNCHANGED <<life, broker, reader>>

\* External: a durable queue keeps its persistent messages; the services mark
\* all their messages alike, so it keeps all or none.  No service opens a lost
\* connection again.
BrokerRestart ==
  /\ broker < MaxBroker /\ broker' = broker + 1
  /\ conn' = [s \in Services |-> FALSE]
  /\ queue' = IF \A m \in Range(queue) : m.persistent THEN queue ELSE <<>>
  /\ UNCHANGED <<phase, starts, dials, sinks, buffer, calls, rows, sent, lost, reader>>

-----------------------------------------------------------------------------
(***************************************************************************)
(* Reading the table page by page (handler.go, repository.go).             *)
(***************************************************************************)
Matches(r, filter) == filter \in {"all", r.level, r.service}
Found(filter) == {r \in Range(rows) : Matches(r, filter)}
Least(a, b) == IF a < b THEN a ELSE b

\* Mutant: no ORDER BY.
PagesUnordered(R, limit, offset) ==
  LET N == Cardinality(R)
      rest == N - Least(offset, N) IN
  {A \in SUBSET R : Cardinality(A) = IF limit < 0 THEN rest ELSE Least(limit, rest)}

\* What ORDER BY timestamp DESC LIMIT OFFSET may answer: rows of one second
\* come in any order, and a negative limit is none.
Pages(R, limit, offset) ==
  LET N == Cardinality(R)
      rest == N - Least(offset, N)
      NotBefore(A, B) == \A a \in A, b \in B : a.second >= b.second IN
  {A \in SUBSET R :
     /\ Cardinality(A) = IF limit < 0 THEN rest ELSE Least(limit, rest)
     /\ \E B \in SUBSET (R \ A) :
          /\ Cardinality(B) = Least(offset, N)
          /\ NotBefore(B, A) /\ NotBefore(A \cup B, R \ (A \cup B))}

\* A limit above MaxLimit is refused with 400.
StartScan(filter, limit) ==
  /\ reader.at = "idle" /\ reader.scans < MaxScans
  /\ phase["api"] \in {"running", "draining"}
  /\ reader' = [at |-> IF limit > MaxLimit THEN "refused" ELSE "scanning",
                filter |-> filter, limit |-> limit, offset |-> 0,
                start |-> Found(filter), seen |-> {}, scans |-> reader.scans + 1]
  /\ UNCHANGED <<life, audit, broker>>

\* One request: a page, or 500; a page that is not full is the last.
ReadPage ==
  /\ reader.at = "scanning" /\ phase["api"] \in {"running", "draining"}
  /\ \/ reader' = [reader EXCEPT !.at = "refused"]
     \/ \E A \in Pages(Found(reader.filter), reader.limit, reader.offset) :
          reader' = [reader EXCEPT !.seen = @ \cup A, !.offset = @ + reader.limit,
                                   !.at = IF reader.limit <= 0 \/ Cardinality(A) < reader.limit
                                          THEN "read" ELSE "scanning"]
  /\ UNCHANGED <<life, audit, broker>>

\* The reader is done with the answer.
EndScan ==
  /\ reader.at \in {"read", "refused"}
  /\ reader' = [NoReader EXCEPT !.scans = reader.scans]
  /\ UNCHANGED <<life, audit, broker>>

-----------------------------------------------------------------------------
Lifecycle(s) ==
  \/ InitLogger(s) \/ LoadConfig(s) \/ Dial(s) \/ InitRegistries(s) \/ AddSink(s)
  \/ AddWorkerServices(s) \/ Start(s) \/ Signal(s) \/ CloseConnection(s) \/ Exit(s) \/ Fatal(s)

Next ==
  \/ \E s \in Services : Lifecycle(s) \/ \E level \in Levels : LogCall(s, level)
  \/ Deliver \/ HandleLog \/ BrokerRestart
  \/ \E ask \in Asks : StartScan(ask.filter, ask.limit)
  \/ ReadPage \/ EndScan

Spec == Init /\ [][Next]_vars

\* The broker delivers while the connection is open, the consumer runs.
FairSpec == Spec /\ WF_vars(Deliver) /\ WF_vars(HandleLog)

-----------------------------------------------------------------------------
(***************************************************************************)
(* Properties.                                                             *)
(***************************************************************************)
\* Every variable holds a value of its kind, and a connection is open only
\* between the dial and the shutdown.
TypeOK ==
  /\ phase \in [Services -> Phases]
  /\ (\A s \in Services : starts[s] \in 0 .. MaxStarts[s]) /\ dials \in [Services -> 0 .. MaxRetries - 1]
  /\ conn \in [Services -> BOOLEAN]
  /\ \A s \in Services : conn[s] => phase[s] \notin {"down", "config", "dial", "closing"}
  /\ calls \in 0 .. MaxCalls /\ broker \in 0 .. MaxBroker
  /\ Len(rows) <= calls /\ reader.offset \in Int

Queued == Range(queue) \cup Range(buffer)
Stored == {rows[i].n : i \in 1 .. Len(rows)}

\* A message has at most one row, although the exchange copies it, and
\* services stop and start while it is on its way; and a message that has its
\* row is not underway any more.
AuditedOnce ==
  /\ IsInjective([i \in 1 .. Len(rows) |-> rows[i].n])
  /\ \A m \in Queued : m.n \notin Stored

\* A message the broker has accepted is lost on the way to the table only by
\* a failed insert or in the hands of an API process that ended: it stays in
\* the queue while the API is down and when the broker restarts.
LossExplained ==
  \A m \in sent : m \in Queued \cup lost \/ m.n \in Stored

\* Handling a log message logs nothing that is published: the consumer writes
\* with a logger that has no sink, else every message would breed another.
LogsDoNotFeedThemselves ==
  \A m \in Queued : m.source = "default"

\* Reading page after page while the table grows finds every row that was
\* there at the start and shares its second with no other; a row that does
\* share it may be on none of the pages.
PagesCover ==
  reader.at = "read" /\ reader.limit # 0 =>
    \A r \in reader.start :
      (\A q \in Range(rows) : q.second = r.second => q = r) => r \in reader.seen

\* The queue empties again and again while the API stays up and connected.
AuditDrains == []<>(Queued = {} \/ ~Connected)
=============================================================================
