---------------------------- MODULE ProofPipeline ---------------------------
(***************************************************************************)
(* The asynchronous verification pipeline.  POST /v1/identity/verify       *)
(* writes an outbox event and publishes it to the verifiers exchange; an   *)
(* external verifier publishes positive or negative verdicts; the          *)
(* blockchain client turns a positive one into a proof stored on Solana;   *)
(* result or failure goes through the identity exchange back to the API,   *)
(* whose two consumers write the database and close or charge the event.   *)
(*                                                                         *)
(* One action is one database statement (or one transaction whose          *)
(* statements cannot be told apart by another), one publication or one     *)
(* delivery.  A consumer is one goroutine that handles a delivery at a     *)
(* time; deliveries are acknowledged automatically, so what the API had    *)
(* received and not finished is gone when its process dies.                *)
(***************************************************************************)
EXTENDS Integers, Sequences

CONSTANTS
  Requests,     \* calls of POST /v1/identity/verify; also the fresh event ids
  Uuids,        \* uuids that occur as identity_id or schema_id
  KnownSchemas, \* schema ids GetSchemaById finds a row for
  MaxRetries,   \* outbox.MaxRetries
  MaxSent,      \* bound on the messages of the external verifier
  MaxFaults,    \* bound on database errors and kills of the API process
  None          \* absence of a value

\* event_id of a message: an event, a uuid no event has ("stray", what the
\* verifier mock sends) or no uuid at all ("").
EventIds == Requests \cup {"stray", ""}
\* Bodies on the verified queues; "garbage" does not unmarshal.
Bodies == EventIds \cup {"garbage"}
Input == [identity : Uuids, schema : Uuids]
Row == [identity : Uuids, schema : Uuids, retry : Nat, processed : BOOLEAN]
QueueNames == {"unverified", "verified.positive", "verified.negative",
               "proof.results", "proof.failures"}

ASSUME PipelineAssumption ==
  /\ {"stray", "", "garbage"} \cap Requests = {}
  /\ KnownSchemas \subseteq Uuids
  /\ MaxRetries \in Nat
  /\ MaxSent \in Nat
  /\ MaxFaults \in Nat
  /\ None \notin Input
  /\ None \notin Row

VARIABLES
  up,          \* the API process runs
  channel,     \* the API's channel of VerifiersUnverifiedPublisher
  call,        \* where each request stands in QueueVerification
  input,       \* its body
  reply,       \* its HTTP reply
  events,      \* table outbox_events, by event id
  identities,  \* table identities: the identity_id column
  schemaRows,  \* table verified_schemas: the schema column
  proofs,      \* table zero_knowledge_proofs: rows per event they came from
  failures,    \* table zkp_proof_failures: rows per event_id
  queue,       \* the broker's queues
  results,     \* the ProofResultsConsumer goroutine
  failer,      \* the ProofFailuresConsumer goroutine
  signed,      \* signatures Solana has returned to the positive worker, per event
  sent,        \* messages the verifier has published
  faults,      \* database errors and kills so far
  panics       \* deaths of the API process by a panic in a consumer

tables == <<events, identities, schemaRows, proofs, failures>>
requestVars == <<call, input, reply>>
consumers == <<results, failer>>
outside == <<signed, sent>>
bad == <<faults, panics>>
vars == <<up, channel, requestVars, tables, queue, consumers, outside, bad>>

Idle == [at |-> "idle", event |-> "", row |-> None]

Init ==
  /\ up = TRUE
  /\ channel = "open"
  /\ call = [r \in Requests |-> "idle"]
  /\ input = [r \in Requests |-> None]
  /\ reply = [r \in Requests |-> ""]
  /\ events = [r \in Requests |-> None]
  /\ identities = {}
  /\ schemaRows = {}
  /\ proofs = [r \in Requests |-> 0]
  /\ failures = [e \in EventIds |-> 0]
  /\ queue = [q \in QueueNames |-> << >>]
  /\ results = Idle
  /\ failer = Idle
  /\ signed = [e \in EventIds |-> 0]
  /\ sent = 0
  /\ faults = 0
  /\ panics = 0

-----------------------------------------------------------------------------
(***************************************************************************)
(* The broker, as definitions.json sets it up.  No binding key of the      *)
(* topic exchange has a wildcard, so it routes by equality.                *)
(***************************************************************************)
Bindings ==
  {[exchange |-> "verifiers", key |-> "", queue |-> "unverified"],
   [exchange |-> "verifiers", key |-> "positive", queue |-> "verified.positive"],
   [exchange |-> "verifiers", key |-> "negative", queue |-> "verified.negative"],
   [exchange |-> "identity", key |-> "proof.results", queue |-> "proof.results"],
   [exchange |-> "identity", key |-> "proof.failures", queue |-> "proof.failures"]}

\* Exchanges each user's write permission covers: that of the API is
\* "verifiers\..*|log_audit", which the name verifiers does not match.
MayWrite == [id_system_api |-> {"log_audit"},
             id_system_blockchain |-> {"identity", "log_audit"},
             verifier_mock |-> {"verifiers"}]

\* basic.publish: the queues after a message with this key.
Routed(q, user, exchange, key, m) ==
  [n \in QueueNames |->
     IF exchange \in MayWrite[user]
        /\ [exchange |-> exchange, key |-> key, queue |-> n] \in Bindings
     THEN Append(q[n], m) ELSE q[n]]

-----------------------------------------------------------------------------
(***************************************************************************)
(* The API's HTTP side.                                                    *)
(***************************************************************************)

\* CreateIdentity without a parent: a row with a fresh identity_id.
CreateIdentity(u) ==
  /\ up
  /\ u \notin identities
  /\ identities' = identities \cup {u}
  /\ UNCHANGED <<up, channel, requestVars, events, schemaRows, proofs, failures,
                 queue, consumers, outside, bad>>

\* QueueVerification up to NewEvent: both ids are parsed, the schema looked
\* up; validateSchema accepts everything.
QueueVerification(r) ==
  /\ up
  /\ call[r] = "idle"
  /\ \E i \in Input :
       /\ input' = [input EXCEPT ![r] = i]
       /\ IF i.schema \in KnownSchemas
          THEN call' = [call EXCEPT ![r] = "insert"] /\ UNCHANGED reply
          ELSE /\ call' = [call EXCEPT ![r] = "done"]
               /\ reply' = [reply EXCEPT ![r] = "error"]
  /\ UNCHANGED <<up, channel, tables, queue, consumers, outside, bad>>

\* The identity id is parsed from the schema id (identity/service.go:60).
NewEvent(r) ==
  /\ call[r] = "insert"
  /\ events' = [events EXCEPT ![r] = [identity |-> input[r].schema,
                                      schema |-> input[r].schema,
                                      retry |-> 0, processed |-> FALSE]]
  /\ call' = [call EXCEPT ![r] = "publish"]
  /\ UNCHANGED <<up, channel, input, reply, identities, schemaRows, proofs, failures,
                 queue, consumers, outside, bad>>

NewEventFails(r) ==
  /\ call[r] = "insert"
  /\ faults < MaxFaults
  /\ faults' = faults + 1
  /\ call' = [call EXCEPT ![r] = "done"]
  /\ reply' = [reply EXCEPT ![r] = "error"]
  /\ UNCHANGED <<up, channel, input, tables, queue, consumers, outside, panics>>

\* Publish is asynchronous: a refused or unroutable message is no error, but
\* the broker answers a refused one by closing the channel, and Publish on a
\* closed channel fails.
PublishRequest(r) ==
  /\ call[r] = "publish"
  /\ call' = [call EXCEPT ![r] = "done"]
  /\ reply' = [reply EXCEPT ![r] = IF channel = "closed" THEN "error" ELSE "accepted"]
  /\ IF channel = "open"
     THEN /\ queue' = Routed(queue, "id_system_api", "verifiers", "unverified.#", r)
          /\ channel' = IF "verifiers" \in MayWrite["id_system_api"] THEN "open" ELSE "refused"
     ELSE UNCHANGED <<queue, channel>>
  /\ UNCHANGED <<up, input, tables, consumers, outside, bad>>

\* The broker's channel exception arrives.
ChannelCloses ==
  /\ up
  /\ channel = "refused"
  /\ channel' = "closed"
  /\ UNCHANGED <<up, requestVars, tables, queue, consumers, outside, bad>>

-----------------------------------------------------------------------------
(***************************************************************************)
(* The external verifier and the blockchain client's workers.              *)
(***************************************************************************)

VerifierSends(m, key) ==
  /\ sent < MaxSent
  /\ m \in Requests => events[m] # None
  /\ sent' = sent + 1
  /\ queue' = Routed(queue, "verifier_mock", "verifiers", key, m)
  /\ UNCHANGED <<up, channel, requestVars, tables, consumers, signed, bad>>

\* The body's event id, "" when it does not unmarshal.
EventOf(m) == IF m = "garbage" THEN "" ELSE m

Handled(q, n) == [q EXCEPT ![n] = Tail(@)]
PublishFailure(q, e) == Routed(q, "id_system_blockchain", "identity", "proof.failures", e)
PublishResult(q, e) == Routed(q, "id_system_blockchain", "identity", "proof.results", e)

\* The positive worker proves, sends the transaction with the proof and
\* reports its signature; nobody waits for the transaction to be confirmed.
PositiveSigned ==
  LET q == queue["verified.positive"]
      e == Head(q) IN
  /\ q # << >>
  /\ e # "garbage"
  /\ signed' = [signed EXCEPT ![e] = @ + 1]
  /\ queue' = PublishResult(Handled(queue, "verified.positive"), e)
  /\ UNCHANGED <<up, channel, requestVars, tables, consumers, sent, bad>>

\* Mutant: a result is published although the send failed.
PositiveFailedReports ==
  LET q == queue["verified.positive"] IN
  /\ q # << >>
  /\ queue' = PublishResult(Handled(queue, "verified.positive"), EventOf(Head(q)))
  /\ UNCHANGED <<up, channel, requestVars, tables, consumers, outside, bad>>

\* Unmarshalling, proving or storing fails, and the worker reports a failure.
PositiveFailed ==
  LET q == queue["verified.positive"] IN
  /\ q # << >>
  /\ queue' = PublishFailure(Handled(queue, "verified.positive"), EventOf(Head(q)))
  /\ UNCHANGED <<up, channel, requestVars, tables, consumers, outside, bad>>

\* The negative worker reports every message as a failure.
NegativeHandled ==
  LET q == queue["verified.negative"] IN
  /\ q # << >>
  /\ queue' = PublishFailure(Handled(queue, "verified.negative"), EventOf(Head(q)))
  /\ UNCHANGED <<up, channel, requestVars, tables, consumers, outside, bad>>

-----------------------------------------------------------------------------
(***************************************************************************)
(* The API dies and comes back.                                            *)
(***************************************************************************)

\* Both consumers and every open call are gone, and so are the first i
\* results and j failures, those the broker had already delivered (and
\* counts as acknowledged).
Dies(q, i, j) ==
  /\ up' = FALSE
  /\ results' = Idle
  /\ failer' = Idle
  /\ call' = [r \in Requests |-> IF call[r] = "idle" THEN "idle" ELSE "done"]
  /\ queue' = [q EXCEPT !["proof.results"] = SubSeq(@, i + 1, Len(@)),
                        !["proof.failures"] = SubSeq(@, j + 1, Len(@))]

Delivered(q, n) == 0 .. Len(q[n])

\* A panic in a message handler: the deferred recover of StartConsuming is in
\* another goroutine, so the panic ends the process.
Panic(q) ==
  /\ panics' = panics + 1
  /\ \E i \in Delivered(q, "proof.results"), j \in Delivered(q, "proof.failures") :
       Dies(q, i, j)

Killed ==
  /\ up
  /\ faults < MaxFaults
  /\ faults' = faults + 1
  /\ \E i \in Delivered(queue, "proof.results"), j \in Delivered(queue, "proof.failures") :
       Dies(queue, i, j)
  /\ UNCHANGED <<channel, input, reply, tables, outside, panics>>

\* New connection, new channels.
Restart ==
  /\ ~up
  /\ up' = TRUE
  /\ channel' = "open"
  /\ UNCHANGED <<requestVars, tables, queue, consumers, outside, bad>>

-----------------------------------------------------------------------------
(***************************************************************************)
(* outbox.GetEvent: the row unless it is processed.                        *)
(***************************************************************************)
GetEvent(e) ==
  IF e \in Requests /\ events[e] # None /\ ~events[e].processed THEN events[e] ELSE None

(***************************************************************************)
(* ProofResultsConsumer: ProcessVerificationResult.                        *)
(***************************************************************************)

\* Mutant: an event already processed is found again.
ResultGetEventAgain ==
  LET e == Head(queue["proof.results"])
      q == Handled(queue, "proof.results") IN
  /\ up
  /\ results.at = "idle"
  /\ queue["proof.results"] # << >>
  /\ IF e = ""
     THEN Panic(q) /\ UNCHANGED <<channel, input, reply, tables, outside, faults>>
     ELSE /\ results' = [at |-> "identity", event |-> e,
                         row |-> IF e \in Requests THEN events[e] ELSE None]
          /\ queue' = q
          /\ UNCHANGED <<up, channel, requestVars, tables, failer, outside, bad>>

\* uuid.MustParse panics on an empty id; GetEvent's error is overwritten, so
\* a missing event goes on as a zero row.
ResultGetEvent ==
  LET e == Head(queue["proof.results"])
      q == Handled(queue, "proof.results") IN
  /\ up
  /\ results.at = "idle"
  /\ queue["proof.results"] # << >>
  /\ IF e = ""
     THEN Panic(q) /\ UNCHANGED <<channel, input, reply, tables, outside, faults>>
     ELSE /\ results' = [at |-> "identity", event |-> e, row |-> GetEvent(e)]
          /\ queue' = q
          /\ UNCHANGED <<up, channel, requestVars, tables, failer, outside, bad>>

\* GetIdentityByUUID; the zero row's empty identity id is found nowhere.
ResultGetIdentity ==
  /\ results.at = "identity"
  /\ results' = IF results.row # None /\ results.row.identity \in identities
                THEN [results EXCEPT !.at = "schema"] ELSE Idle
  /\ UNCHANGED <<up, channel, requestVars, tables, queue, failer, outside, bad>>

\* FindOrCreateVerifiedSchema, by the schema column.
ResultSchema ==
  /\ results.at = "schema"
  /\ schemaRows' = schemaRows \cup {results.row.schema}
  /\ results' = [results EXCEPT !.at = "save"]
  /\ UNCHANGED <<up, channel, requestVars, events, identities, proofs, failures, queue,
                 failer, outside, bad>>

ResultSave ==
  /\ results.at = "save"
  /\ proofs' = [proofs EXCEPT ![results.event] = @ + 1]
  /\ results' = [results EXCEPT !.at = "mark"]
  /\ UNCHANGED <<up, channel, requestVars, events, identities, schemaRows, failures, queue,
                 failer, outside, bad>>

\* Mutant: the event stays open after its proof was saved.
ResultMarkSkipped ==
  /\ results.at = "mark"
  /\ results' = Idle
  /\ UNCHANGED <<up, channel, requestVars, tables, queue, failer, outside, bad>>

\* MarkEventAsProcessed: nothing happens to an event processed meanwhile.
ResultMark ==
  /\ results.at = "mark"
  /\ events' = IF GetEvent(results.event) # None
               THEN [events EXCEPT ![results.event].processed = TRUE] ELSE events
  /\ results' = Idle
  /\ UNCHANGED <<up, channel, requestVars, identities, schemaRows, proofs, failures, queue,
                 failer, outside, bad>>

\* A statement fails: the handler returns, the message is gone.
ResultFault ==
  /\ results.at # "idle"
  /\ faults < MaxFaults
  /\ faults' = faults + 1
  /\ results' = Idle
  /\ UNCHANGED <<up, channel, requestVars, tables, queue, failer, outside, panics>>

(***************************************************************************)
(* ProofFailuresConsumer: SaveFailedAndUpdateOutbox.                       *)
(***************************************************************************)

\* SaveFailedProof, then uuid.MustParse of the event id.
FailureSave ==
  LET e == Head(queue["proof.failures"])
      q == Handled(queue, "proof.failures") IN
  /\ up
  /\ failer.at = "idle"
  /\ queue["proof.failures"] # << >>
  /\ failures' = [failures EXCEPT ![e] = @ + 1]
  /\ IF e = ""
     THEN Panic(q) /\ UNCHANGED <<channel, input, reply, outside, faults>>
     ELSE /\ failer' = [at |-> "read", event |-> e, row |-> None]
          /\ queue' = q
          /\ UNCHANGED <<up, channel, requestVars, results, outside, bad>>
  /\ UNCHANGED <<events, identities, schemaRows, proofs>>

\* UpdateRetryValue reads the event ...
FailureRead ==
  LET row == GetEvent(failer.event) IN
  /\ failer.at = "read"
  /\ failer' = IF row = None THEN Idle ELSE [failer EXCEPT !.at = "write", !.row = row]
  /\ UNCHANGED <<up, channel, requestVars, tables, queue, results, outside, bad>>

\* Mutant: the event is given up one failure late.
FailureWriteLate ==
  /\ failer.at = "write"
  /\ events' = IF GetEvent(failer.event) = None THEN events
               ELSE [events EXCEPT ![failer.event].retry = failer.row.retry + 1,
                                   ![failer.event].processed = (failer.row.retry > MaxRetries)]
  /\ failer' = Idle
  /\ UNCHANGED <<up, channel, requestVars, identities, schemaRows, proofs, failures, queue,
                 results, outside, bad>>

\* Mutant: the event is given up one failure early.
FailureWriteEarly ==
  /\ failer.at = "write"
  /\ events' = IF GetEvent(failer.event) = None THEN events
               ELSE [events EXCEPT ![failer.event].retry = failer.row.retry + 1,
                                   ![failer.event].processed = (failer.row.retry + 1 >= MaxRetries)]
  /\ failer' = Idle
  /\ UNCHANGED <<up, channel, requestVars, identities, schemaRows, proofs, failures, queue,
                 results, outside, bad>>

\* Mutant: the update is not scoped to unprocessed rows.
FailureWriteUnscoped ==
  /\ failer.at = "write"
  /\ events' = [events EXCEPT ![failer.event].retry = failer.row.retry + 1,
                              ![failer.event].processed = @ \/ failer.row.retry >= MaxRetries]
  /\ failer' = Idle
  /\ UNCHANGED <<up, channel, requestVars, identities, schemaRows, proofs, failures, queue,
                 results, outside, bad>>

\* ... and, in the same transaction, writes the incremented count and gives
\* the event up once the count read had reached MaxRetries.  The update is
\* scoped to unprocessed rows, and finds none if the event was processed
\* in between.
FailureWrite ==
  LET e == failer.event
      k == failer.row.retry IN
  /\ failer.at = "write"
  /\ events' = IF GetEvent(e) = None THEN events
               ELSE [events EXCEPT ![e].retry = k + 1,
                                   ![e].processed = (k >= MaxRetries)]
  /\ failer' = Idle
  /\ UNCHANGED <<up, channel, requestVars, identities, schemaRows, proofs, failures, queue,
                 results, outside, bad>>

FailureFault ==
  /\ failer.at # "idle"
  /\ faults < MaxFaults
  /\ faults' = faults + 1
  /\ failer' = Idle
  /\ UNCHANGED <<up, channel, requestVars, tables, queue, results, outside, panics>>

-----------------------------------------------------------------------------
RequestStep(r) == NewEvent(r) \/ PublishRequest(r)
ResultStep ==
  ResultGetEvent \/ ResultGetIdentity \/ ResultSchema \/ ResultSave \/ ResultMark
FailureStep == FailureSave \/ FailureRead \/ FailureWrite
PositiveStep == PositiveSigned \/ PositiveFailed

Next ==
  \/ \E u \in Uuids : CreateIdentity(u)
  \/ \E r \in Requests : QueueVerification(r) \/ RequestStep(r) \/ NewEventFails(r)
  \/ \E m \in Bodies, key \in {"positive", "negative"} : VerifierSends(m, key)
  \/ PositiveStep \/ NegativeHandled
  \/ ResultStep \/ ResultFault
  \/ FailureStep \/ FailureFault
  \/ ChannelCloses \/ Killed \/ Restart

Spec == Init /\ [][Next]_vars

\* Every goroutine that can run does; nobody promises a restart, a request or
\* a message of the verifier.
Fairness ==
  /\ \A r \in Requests : WF_vars(RequestStep(r))
  /\ WF_vars(PositiveStep)
  /\ WF_vars(NegativeHandled)
  /\ WF_vars(ResultStep)
  /\ WF_vars(FailureStep)
FairSpec == Spec /\ Fairness

-----------------------------------------------------------------------------
Consumer(labels) == [at : labels \cup {"idle"}, event : EventIds, row : Row \cup {None}]

\* Every variable holds a value of its kind.
TypeOK ==
  /\ up \in BOOLEAN
  /\ channel \in {"open", "refused", "closed"}
  /\ call \in [Requests -> {"idle", "insert", "publish", "done"}]
  /\ input \in [Requests -> Input \cup {None}]
  /\ reply \in [Requests -> {"", "error", "accepted"}]
  /\ events \in [Requests -> Row \cup {None}]
  /\ identities \subseteq Uuids
  /\ schemaRows \subseteq Uuids
  /\ proofs \in [Requests -> Nat]
  /\ failures \in [EventIds -> Nat]
  /\ queue \in [QueueNames -> Seq(Bodies)]
  /\ results \in Consumer({"identity", "schema", "save", "mark"})
  /\ failer \in Consumer({"read", "write"})
  /\ signed \in [EventIds -> Nat]
  /\ sent \in Nat
  /\ faults \in Nat
  /\ panics \in Nat

\* The retry count never runs past its limit unnoticed: an event that still
\* waits has at most MaxRetries failed attempts charged to it, and each
\* charge is backed by a row in zkp_proof_failures.
RetryBounded ==
  \A e \in Requests : events[e] # None =>
    /\ events[e].retry <= MaxRetries + 1
    /\ ~events[e].processed => events[e].retry <= MaxRetries
    /\ events[e].retry <= failures[e]

Closed(e) == events[e] # None /\ events[e].processed

\* An event is closed only for cause, whichever consumer got there first: a
\* proof row was saved for it, or more than MaxRetries failures were.
ClosedForCause ==
  \A e \in Requests :
    Closed(e) => proofs[e] > 0 \/ failures[e] > MaxRetries

\* A closed event is final: a late failure does not charge it and a late
\* result does not touch it, even if it was read while still open.
ClosedIsFinal ==
  [][\A e \in Requests : Closed(e) => events'[e] = events[e]]_vars

\* However often the verifier repeats itself, one event yields one proof row,
\* except that every interruption of the API (database error, kill, panic)
\* between saving the row and closing the event may cost one more.
OneProofPerEvent ==
  \A e \in Requests : proofs[e] <= 1 + faults + panics

\* Every proof row carries a signature of its own, one that Solana returned for
\* a transaction of the same event: nothing is stored for a failed send.
ProofsAreSigned ==
  \A e \in Requests : proofs[e] <= signed[e]

\* A result that reaches the API closes its event, if the event's identity
\* exists and neither an error nor the end of the process intervenes.
Deliverable(e) ==
  /\ \E i \in DOMAIN queue["proof.results"] : queue["proof.results"][i] = e
  /\ events[e] # None
  /\ events[e].identity \in identities
ResultClosesEvent ==
  \A e \in Requests :
    (up /\ Deliverable(e)) ~> (Closed(e) \/ ~up \/ faults > 0)

\* A request answered 202 "queued" is on a queue (identity/handler.go:82,101).
AcceptedIsQueued ==
  \A r \in Requests :
    reply[r] = "accepted" =>
      \E n \in QueueNames : \E i \in DOMAIN queue[n] : queue[n][i] = r
=============================================================================
