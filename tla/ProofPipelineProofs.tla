------------------------ MODULE ProofPipelineProofs ------------------------
(***************************************************************************)
(* Proofs about the verification pipeline, for any requests, uuids and     *)
(* bounds.  The inductive invariant ties the two consumers to the tables   *)
(* they write in several statements: Filing says when an event has a row,  *)
(* Charging what the failures consumer knows between reading and writing   *)
(* the retry count, Storing what the results consumer knows between        *)
(* reading and closing the event, Budget how many proof rows the           *)
(* interruptions so far can explain, and Signing that every signature is   *)
(* on the queue, in the consumer's hands or in one proof row at most.      *)
(***************************************************************************)
EXTENDS ProofPipeline, FiniteSets, FiniteSetTheorems, FunctionTheorems, SequenceTheorems, TLAPS

\* What arrives at the API names an event: a body that does not unmarshal never
\* gets past the workers.
TypeInv ==
  /\ TypeOK
  /\ queue["proof.results"] \in Seq(EventIds)
  /\ queue["proof.failures"] \in Seq(EventIds)

\* A request has no row before NewEvent, and has read its input by then.
Filing ==
  \A r \in Requests :
    /\ call[r] \in {"idle", "insert"} => events[r] = None
    /\ call[r] = "insert" => input[r] # None

\* A failure that is being charged is on file already, and nobody else writes
\* the count that it has read.
Charging ==
  /\ failer.at # "idle" =>
       /\ failures[failer.event] > 0
       /\ failer.event \in Requests /\ events[failer.event] # None =>
            events[failer.event].retry < failures[failer.event]
  /\ failer.at = "write" =>
       /\ failer.event \in Requests /\ events[failer.event] # None /\ failer.row # None
       /\ failer.row.retry = events[failer.event].retry
       /\ failer.row.retry <= MaxRetries

\* A result goes on only with the row of its event, and to the mark only with a
\* proof row.
Storing ==
  /\ results.at \in {"schema", "save", "mark"} => results.row # None
  /\ results.at # "idle" /\ results.row # None =>
       results.event \in Requests /\ events[results.event] # None
  /\ results.at = "mark" => proofs[results.event] > 0

\* The event has been read for a proof row that is not written yet.
Pending(e) ==
  results.at \in {"identity", "schema", "save"} /\ results.event = e /\ results.row # None

\* As long as an event is open, or its next proof row is pending, each of its
\* proof rows but the one about to close it goes with an interruption.
Budget ==
  \A e \in Requests :
    Pending(e) \/ (~Closed(e) /\ ~(results.at = "mark" /\ results.event = e)) =>
      proofs[e] <= faults + panics

\* How often x occurs in a queue.
Count(s, x) == Cardinality({i \in 1 .. Len(s) : s[i] = x})

\* Results of an event that the consumer has taken and not stored.
Taken(e) == IF results.at \in {"identity", "schema", "save"} /\ results.event = e THEN 1 ELSE 0

Signing ==
  \A e \in Requests : proofs[e] + Taken(e) + Count(queue["proof.results"], e) <= signed[e]

Inv ==
  /\ TypeInv /\ Filing /\ Charging /\ Storing /\ Budget /\ Signing
  /\ RetryBounded /\ ClosedForCause /\ OneProofPerEvent

-----------------------------------------------------------------------------
(***************************************************************************)
(* Counting in queues.                                                     *)
(***************************************************************************)
Places(s, x) == {i \in 1 .. Len(s) : s[i] = x}

\* A queue is finite.
LEMMA CountType ==
  ASSUME NEW S, NEW s \in Seq(S), NEW x
  PROVE  IsFiniteSet(Places(s, x)) /\ Count(s, x) = Cardinality(Places(s, x)) /\ Count(s, x) \in Nat
<1>1. Len(s) \in Nat
  BY LenProperties
<1>2. IsFiniteSet(1 .. Len(s))
  BY <1>1, FS_Interval
<1>3. Places(s, x) \in SUBSET (1 .. Len(s))
  BY DEF Places
<1>4. IsFiniteSet(Places(s, x))
  BY <1>2, <1>3, FS_Subset
<1>5. Count(s, x) = Cardinality(Places(s, x))
  BY DEF Count, Places
<1> QED
  BY <1>4, <1>5, FS_CardinalityType

\* An empty queue holds no message.
LEMMA CountEmpty ==
  ASSUME NEW x
  PROVE  Count(<< >>, x) = 0
<1>1. {i \in 1 .. Len(<< >>) : << >>[i] = x} = {}
  OBVIOUS
<1> QED
  BY <1>1, FS_EmptySet DEF Count

\* A message put at the end is one more.
LEMMA CountAppend ==
  ASSUME NEW S, NEW s \in Seq(S), NEW y \in S, NEW x
  PROVE  Count(Append(s, y), x) = Count(s, x) + IF y = x THEN 1 ELSE 0
<1> DEFINE t == Append(s, y)
           n == Len(s)
<1>1. n \in Nat
  BY LenProperties
<1>2. t \in Seq(S) /\ Len(t) = n + 1 /\ t[n + 1] = y /\ \A i \in 1 .. n : t[i] = s[i]
  BY AppendProperties
<1> HIDE DEF t, n
<1>3. Places(s, x) = {i \in 1 .. n : s[i] = x}
  BY DEF Places, n
<1>4. CASE y = x
  <2>1. Places(t, x) = Places(s, x) \cup {n + 1}
    BY <1>1, <1>2, <1>3, <1>4 DEF Places
  <2>2. n + 1 \notin Places(s, x)
    BY <1>1, <1>3
  <2>3. Cardinality(Places(t, x)) = Cardinality(Places(s, x)) + 1
    BY <2>1, <2>2, CountType, FS_AddElement
  <2>4. Count(t, x) = Cardinality(Places(t, x)) /\ Count(s, x) = Cardinality(Places(s, x))
    BY <1>2, CountType
  <2> QED
    BY <1>4, <2>3, <2>4 DEF t
<1>5. CASE y # x
  <2>1. Places(t, x) = Places(s, x)
    BY <1>1, <1>2, <1>3, <1>5 DEF Places
  <2>2. Count(t, x) = Cardinality(Places(t, x)) /\ Count(s, x) = Cardinality(Places(s, x))
        /\ Count(s, x) \in Nat
    BY <1>2, CountType
  <2> QED
    BY <1>5, <2>1, <2>2 DEF t
<1> QED
  BY <1>4, <1>5

\* What remains of a queue after the first d messages, shifted into their place.
LEMMA CountShift ==
  ASSUME NEW S, NEW s \in Seq(S), NEW t \in Seq(S), NEW x, NEW d \in Nat, NEW P,
         Len(t) + d <= Len(s), \A i \in 1 .. Len(t) : t[i] = s[i + d],
         P \subseteq Places(s, x), \A i \in 1 .. Len(t) : s[i + d] = x => i + d \in P
  PROVE  Count(t, x) <= Cardinality(P)
<1>1. Len(s) \in Nat /\ Len(t) \in Nat
  BY LenProperties
<1> DEFINE f == [i \in Places(t, x) |-> i + d]
<1>2. Places(t, x) \subseteq 1 .. Len(t) /\ \A i \in Places(t, x) : t[i] = x
  BY DEF Places
<1>3. f \in [Places(t, x) -> P]
  BY <1>2
<1>4. \A a, b \in Places(t, x) : f[a] = f[b] => a = b
  <2> SUFFICES ASSUME NEW a \in Places(t, x), NEW b \in Places(t, x), f[a] = f[b] PROVE a = b
    OBVIOUS
  <2>1. a \in Int /\ b \in Int /\ a + d = b + d
    BY <1>1, <1>2
  <2> QED
    BY <2>1
<1>5. f \in Injection(Places(t, x), P)
  BY <1>3, <1>4, Fun_IsInj
<1>6. IsFiniteSet(P)
  BY CountType, FS_Subset
<1>7. Cardinality(Places(t, x)) <= Cardinality(P)
  BY <1>5, <1>6, FS_Injection
<1>8. Count(t, x) = Cardinality(Places(t, x))
  BY CountType
<1> QED
  BY <1>7, <1>8

\* Taking the first message takes one away from its count.
LEMMA CountTail ==
  ASSUME NEW S, NEW s \in Seq(S), s # << >>, NEW x
  PROVE  Count(Tail(s), x) + (IF Head(s) = x THEN 1 ELSE 0) <= Count(s, x)
<1> DEFINE t == Tail(s)
           P == Places(s, x) \ {1}
<1>1. t \in Seq(S) /\ Len(t) = Len(s) - 1 /\ \A i \in 1 .. Len(t) : t[i] = s[i + 1]
  BY HeadTailProperties
<1>2. Len(s) \in Nat /\ Len(s) > 0 /\ Len(t) \in Nat /\ Head(s) = s[1]
  BY <1>1, LenProperties, EmptySeq
<1> HIDE DEF t
<1>3. P \subseteq Places(s, x) /\ \A i \in 1 .. Len(t) : s[i + 1] = x => i + 1 \in P
  BY <1>1, <1>2 DEF Places
<1>4. Len(t) + 1 <= Len(s)
  BY <1>1, <1>2
<1>5. Count(t, x) <= Cardinality(P)
  BY <1>1, <1>3, <1>4, CountShift
<1>6. Cardinality(P) = IF 1 \in Places(s, x) THEN Count(s, x) - 1 ELSE Count(s, x)
  BY CountType, FS_RemoveElement
<1>7. Head(s) = x => 1 \in Places(s, x)
  BY <1>2 DEF Places
<1>8. Count(t, x) \in Nat /\ Count(s, x) \in Nat
  BY <1>1, CountType
<1> QED
  BY <1>5, <1>6, <1>7, <1>8 DEF t

\* Losing the first messages adds to no count.
LEMMA CountSubSeq ==
  ASSUME NEW S, NEW s \in Seq(S), NEW d \in 0 .. Len(s), NEW x
  PROVE  /\ SubSeq(s, d + 1, Len(s)) \in Seq(S)
         /\ Count(SubSeq(s, d + 1, Len(s)), x) <= Count(s, x)
<1> DEFINE t == SubSeq(s, d + 1, Len(s))
<1>1. Len(s) \in Nat /\ d \in Nat /\ d <= Len(s)
  BY LenProperties
<1>2. \A i \in d + 1 .. Len(s) : s[i] \in S
  BY <1>1, ElementOfSeq
<1>3. /\ t \in Seq(S)
      /\ Len(t) = IF d + 1 <= Len(s) THEN Len(s) - (d + 1) + 1 ELSE 0
      /\ \A i \in 1 .. Len(s) - (d + 1) + 1 : t[i] = s[d + 1 + i - 1]
  BY <1>1, <1>2, SubSeqProperties
<1> HIDE DEF t
<1>4. Len(t) = Len(s) - d
  BY <1>1, <1>3
<1>5. \A i \in 1 .. Len(t) : t[i] = s[i + d]
  BY <1>1, <1>3, <1>4
<1>6. \A i \in 1 .. Len(t) : s[i + d] = x => i + d \in Places(s, x)
  BY <1>1, <1>4 DEF Places
<1>7. Len(t) + d <= Len(s)
  BY <1>1, <1>4
<1>8. Count(t, x) <= Cardinality(Places(s, x))
  BY <1>1, <1>3, <1>5, <1>6, <1>7, CountShift
<1> QED
  BY <1>3, <1>8, CountType DEF t

-----------------------------------------------------------------------------
(***************************************************************************)
(* Routing.                                                                *)
(***************************************************************************)

\* A published message is put on the queues of its binding and on no other; what
\* the API publishes to the verifiers exchange reaches none.
LEMMA RoutedTyped ==
  ASSUME NEW q \in [QueueNames -> Seq(Bodies)], NEW m \in Bodies,
         NEW user, NEW exchange, NEW key
  PROVE  Routed(q, user, exchange, key, m) \in [QueueNames -> Seq(Bodies)]
<1>1. \A n \in QueueNames : q[n] \in Seq(Bodies) /\ Append(q[n], m) \in Seq(Bodies)
  BY AppendProperties
<1> QED
  BY <1>1 DEF Routed

\* A result is put into the queue of results and into no other.
LEMMA ResultRouted ==
  ASSUME NEW q, NEW e, NEW n \in QueueNames
  PROVE  PublishResult(q, e)[n] = IF n = "proof.results" THEN Append(q[n], e) ELSE q[n]
<1>1. "identity" \in MayWrite["id_system_blockchain"]
  BY DEF MayWrite
<1>2. [exchange |-> "identity", key |-> "proof.results", queue |-> n] \in Bindings
        <=> n = "proof.results"
  BY DEF Bindings
<1> QED
  BY <1>1, <1>2 DEF PublishResult, Routed

\* A failure is put into the queue of failures and into no other.
LEMMA FailureRouted ==
  ASSUME NEW q, NEW e, NEW n \in QueueNames
  PROVE  PublishFailure(q, e)[n] = IF n = "proof.failures" THEN Append(q[n], e) ELSE q[n]
<1>1. "identity" \in MayWrite["id_system_blockchain"]
  BY DEF MayWrite
<1>2. [exchange |-> "identity", key |-> "proof.failures", queue |-> n] \in Bindings
        <=> n = "proof.failures"
  BY DEF Bindings
<1> QED
  BY <1>1, <1>2 DEF PublishFailure, Routed

\* What goes to the verifiers exchange is for the verifiers and the workers.
LEMMA VerifiersRouted ==
  ASSUME NEW q, NEW m, NEW user, NEW key, NEW n \in {"proof.results", "proof.failures"}
  PROVE  Routed(q, user, "verifiers", key, m)[n] = q[n]
<1>1. [exchange |-> "verifiers", key |-> key, queue |-> n] \notin Bindings
  BY DEF Bindings
<1> QED
  BY <1>1 DEF Routed, QueueNames

\* Taking a message off a queue leaves the other queues alone.
LEMMA HandledTyped ==
  ASSUME NEW q \in [QueueNames -> Seq(Bodies)], NEW n \in QueueNames, q[n] # << >>
  PROVE  /\ Head(q[n]) \in Bodies
         /\ Handled(q, n) \in [QueueNames -> Seq(Bodies)]
         /\ Handled(q, n)[n] = Tail(q[n])
         /\ \A k \in QueueNames \ {n} : Handled(q, n)[k] = q[k]
<1>1. q[n] \in Seq(Bodies)
  OBVIOUS
<1>2. Head(q[n]) \in Bodies /\ Tail(q[n]) \in Seq(Bodies)
  BY <1>1, HeadTailProperties
<1> QED
  BY <1>2 DEF Handled

-----------------------------------------------------------------------------
(***************************************************************************)
(* The parts of the invariant that a step leaves alone.                    *)
(***************************************************************************)

\* The counters are numbers.
LEMMA Numbers ==
  ASSUME TypeOK
  PROVE  /\ faults \in Nat /\ panics \in Nat /\ MaxRetries \in Nat
         /\ \A e \in Requests :
              proofs[e] \in Nat /\ signed[e] \in Nat /\ failures[e] \in Nat
         /\ \A e \in EventIds : failures[e] \in Nat /\ signed[e] \in Nat
         /\ \A e \in Requests : events[e] # None =>
              events[e] \in Row /\ events[e].retry \in Nat /\ events[e].processed \in BOOLEAN
<1>1. /\ faults \in Nat /\ panics \in Nat /\ MaxRetries \in Nat
      /\ \A e \in EventIds : failures[e] \in Nat /\ signed[e] \in Nat
  BY PipelineAssumption DEF TypeOK
<1>2. \A e \in Requests : proofs[e] \in Nat /\ e \in EventIds
  BY DEF TypeOK, EventIds
<1>3. \A e \in Requests : events[e] # None =>
        events[e] \in Row /\ events[e].retry \in Nat /\ events[e].processed \in BOOLEAN
  BY DEF TypeOK, Row
<1> QED
  BY <1>1, <1>2, <1>3

\* The initial state.
LEMMA InvInit == Init => Inv
<1> SUFFICES ASSUME Init PROVE Inv
  OBVIOUS
<1>1. << >> \in Seq(Bodies) /\ << >> \in Seq(EventIds)
  BY EmptySeq
<1>2. Idle \in Consumer({"identity", "schema", "save", "mark"}) /\ Idle \in Consumer({"read", "write"})
  BY DEF Idle, Consumer, EventIds
<1>3. TypeOK
  BY <1>1, <1>2 DEF Init, TypeOK
<1>4. TypeInv
  BY <1>1, <1>3 DEF Init, TypeInv, QueueNames
<1>5. Filing /\ Charging /\ Storing
  BY DEF Init, Filing, Charging, Storing, Idle
<1>6. Budget /\ OneProofPerEvent
  <2>1. ASSUME NEW e \in Requests PROVE proofs[e] <= faults + panics /\ proofs[e] <= 1 + faults + panics
    <3>1. proofs[e] = 0 /\ faults = 0 /\ panics = 0
      BY DEF Init
    <3> QED
      BY <3>1
  <2> QED
    BY <2>1 DEF Budget, OneProofPerEvent
<1>7. Signing
  <2>1. ASSUME NEW e \in Requests
        PROVE  proofs[e] + Taken(e) + Count(queue["proof.results"], e) <= signed[e]
    <3>1. /\ Taken(e) = 0 /\ Count(queue["proof.results"], e) = 0
          /\ proofs[e] = 0 /\ signed[e] = 0
      BY CountEmpty DEF Init, Taken, Idle, QueueNames, EventIds
    <3> QED
      BY <3>1
  <2> QED
    BY <2>1 DEF Signing
<1>8. RetryBounded /\ ClosedForCause
  BY DEF Init, RetryBounded, ClosedForCause, Closed
<1> QED
  BY <1>4, <1>5, <1>6, <1>7, <1>8 DEF Inv

\* The provers do arithmetic best without anything else around.
LEMMA LessTrans ==
  ASSUME NEW a \in Nat, NEW b \in Nat, NEW c \in Nat, NEW i \in Nat, NEW j \in Nat,
         b + c <= i + j
  PROVE  /\ a <= b + c => a <= i + j
         /\ a <= 1 + b + c => a <= 1 + i + j
OBVIOUS

\* A bound of one more than the messages is met when one message more is there.
LEMMA LessAfterOne ==
  ASSUME NEW a \in Nat, NEW b \in Nat, NEW c \in Nat, NEW i \in Nat, NEW j \in Nat,
         i + j = b + c + 1, a <= 1 + b + c
  PROVE  a <= i + j
OBVIOUS

\* The number of interruptions never goes down.
Interruptions == faults' \in Nat /\ panics' \in Nat /\ faults + panics <= faults' + panics'

\* A step that leaves the tables and the consumers alone.
LEMMA TablesStay ==
  ASSUME Inv, events' = events, proofs' = proofs, failures' = failures,
         results' = results, failer' = failer, Interruptions
  PROVE  /\ Charging' /\ Storing' /\ Budget'
         /\ RetryBounded' /\ ClosedForCause' /\ OneProofPerEvent'
<1>1. Charging' /\ Storing'
  BY DEF Inv, Charging, Storing
<1>2. RetryBounded' /\ ClosedForCause'
  BY DEF Inv, RetryBounded, ClosedForCause, Closed
<1>3. faults \in Nat /\ panics \in Nat /\ \A e \in Requests : proofs[e] \in Nat
  BY Numbers DEF Inv, TypeInv
<1>4. Budget'
  <2> SUFFICES ASSUME NEW e \in Requests,
                      Pending(e) \/ (~Closed(e) /\ ~(results.at = "mark" /\ results.event = e))
               PROVE  proofs[e] <= faults' + panics'
    BY DEF Budget, Pending, Closed
  <2>1. proofs[e] <= faults + panics
    BY DEF Inv, Budget
  <2> QED
    BY <1>3, <2>1, LessTrans DEF Interruptions
<1>5. OneProofPerEvent'
  <2> SUFFICES ASSUME NEW e \in Requests PROVE proofs[e] <= 1 + faults' + panics'
    BY DEF OneProofPerEvent
  <2>1. proofs[e] <= 1 + faults + panics
    BY DEF Inv, OneProofPerEvent
  <2> QED
    BY <1>3, <2>1, LessTrans DEF Interruptions
<1> QED
  BY <1>1, <1>2, <1>4, <1>5

\* A step that gives the results consumer no new result and stores none.
LEMMA SigningStays ==
  ASSUME Inv, queue'["proof.results"] = queue["proof.results"], signed' = signed,
         proofs' = proofs, results' = results
  PROVE  Signing'
BY DEF Inv, Signing, Taken

\* A step that leaves the calls and events alone leaves them filed.
LEMMA FilingStays ==
  ASSUME Inv, call' = call, events' = events, input' = input
  PROVE  Filing'
BY DEF Inv, Filing

\* The API gives up what it is doing: a proof row that has not closed its event
\* is accounted for by the interruption, and what was delivered is gone.
LEMMA Interrupted ==
  ASSUME Inv, events' = events, proofs' = proofs, signed' = signed,
         results' = results \/ results' = Idle, failer' = failer \/ failer' = Idle,
         failures' = failures \/ (failer' = Idle /\ \A e \in Requests : failures'[e] = failures[e]),
         \A e \in Requests : Count(queue'["proof.results"], e) <= Count(queue["proof.results"], e),
         \A e \in Requests : Count(queue'["proof.results"], e) \in Nat,
         faults' \in Nat, panics' \in Nat, faults' + panics' = faults + panics + 1
  PROVE  /\ Charging' /\ Storing' /\ Budget' /\ Signing'
         /\ RetryBounded' /\ ClosedForCause' /\ OneProofPerEvent'
<1>1. Charging'
  <2>1. CASE failer' = Idle
    BY <2>1 DEF Charging, Idle
  <2>2. CASE failer' = failer /\ failures' = failures
    BY <2>2 DEF Inv, Charging
  <2> QED
    BY <2>1, <2>2
<1>2. Storing'
  <2>1. CASE results' = results
    BY <2>1 DEF Inv, Storing
  <2>2. CASE results' = Idle
    BY <2>2 DEF Storing, Idle
  <2> QED
    BY <2>1, <2>2
<1>3. /\ faults \in Nat /\ panics \in Nat
      /\ \A e \in Requests : proofs[e] \in Nat /\ signed[e] \in Nat
  BY Numbers DEF Inv, TypeInv
<1>4. ASSUME NEW e \in Requests PROVE proofs[e] <= faults' + panics'
  <2>1. proofs[e] <= 1 + faults + panics /\ proofs[e] \in Nat
    BY <1>3 DEF Inv, OneProofPerEvent
  <2> QED
    BY <1>3, <2>1, LessAfterOne
<1>5. Budget'
  BY <1>4 DEF Budget
<1>6. OneProofPerEvent'
  <2> SUFFICES ASSUME NEW e \in Requests PROVE proofs[e] <= 1 + faults' + panics'
    BY DEF OneProofPerEvent
  <2> QED
    BY <1>3, <1>4
<1>7. Signing'
  <2> SUFFICES ASSUME NEW e \in Requests
               PROVE  proofs[e] + Taken(e)' + Count(queue'["proof.results"], e) <= signed[e]
    BY DEF Signing
  <2>1. proofs[e] + Taken(e) + Count(queue["proof.results"], e) <= signed[e]
    BY DEF Inv, Signing
  <2>2. Taken(e) \in {0, 1} /\ Taken(e)' \in {0, Taken(e)}
    <3>1. CASE results' = results
      BY <3>1 DEF Taken
    <3>2. CASE results' = Idle
      BY <3>2 DEF Taken, Idle
    <3> QED
      BY <3>1, <3>2
  <2>3. Count(queue["proof.results"], e) \in Nat
    BY CountType DEF Inv, TypeInv
  <2> QED
    BY <1>3, <2>1, <2>2, <2>3
<1>8. RetryBounded' /\ ClosedForCause'
  <2>1. \A e \in Requests : failures'[e] = failures[e]
    OBVIOUS
  <2> QED
    BY <2>1 DEF Inv, RetryBounded, ClosedForCause, Closed
<1> QED
  BY <1>1, <1>2, <1>5, <1>6, <1>7, <1>8

\* A step that concerns neither the tables nor the consumers nor the results.
LEMMA QuietStep ==
  ASSUME Inv, TypeInv', Filing', Interruptions,
         events' = events, proofs' = proofs, failures' = failures, signed' = signed,
         results' = results, failer' = failer,
         queue'["proof.results"] = queue["proof.results"]
  PROVE  Inv'
BY TablesStay, SigningStays DEF Inv

-----------------------------------------------------------------------------
(***************************************************************************)
(* The HTTP side, the verifier and the workers.                            *)
(***************************************************************************)

\* A new identity.
LEMMA CreateIdentityKeeps ==
  ASSUME Inv, NEW u \in Uuids, CreateIdentity(u)
  PROVE  Inv'
<1>1. /\ identities' = identities \cup {u} /\ up' = up /\ channel' = channel /\ call' = call
      /\ input' = input /\ reply' = reply /\ events' = events /\ schemaRows' = schemaRows
      /\ proofs' = proofs /\ failures' = failures /\ queue' = queue /\ results' = results
      /\ failer' = failer /\ signed' = signed /\ sent' = sent /\ faults' = faults
      /\ panics' = panics
  BY DEF CreateIdentity, requestVars, consumers, outside, bad
<1>2. TypeInv'
  BY <1>1 DEF Inv, TypeInv, TypeOK
<1>3. Filing'
  BY <1>1, FilingStays
<1>4. Interruptions
  BY <1>1, Numbers DEF Inv, TypeInv, Interruptions
<1> QED
  BY <1>1, <1>2, <1>3, <1>4, QuietStep

\* A request is parsed; it has no row yet.
LEMMA QueueVerificationKeeps ==
  ASSUME Inv, NEW r \in Requests, QueueVerification(r)
  PROVE  Inv'
<1>1. /\ identities' = identities /\ up' = up /\ channel' = channel
      /\ events' = events /\ schemaRows' = schemaRows
      /\ proofs' = proofs /\ failures' = failures /\ queue' = queue /\ results' = results
      /\ failer' = failer /\ signed' = signed /\ sent' = sent /\ faults' = faults
      /\ panics' = panics /\ call[r] = "idle"
  BY DEF QueueVerification, tables, consumers, outside, bad
<1>2. PICK i \in Input :
        /\ input' = [input EXCEPT ![r] = i]
        /\ \/ call' = [call EXCEPT ![r] = "insert"] /\ reply' = reply
           \/ call' = [call EXCEPT ![r] = "done"] /\ reply' = [reply EXCEPT ![r] = "error"]
  BY DEF QueueVerification
<1>3. TypeInv'
  BY <1>1, <1>2 DEF Inv, TypeInv, TypeOK
<1>4. Filing'
  <2>1. i # None
    BY PipelineAssumption
  <2> QED
    BY <1>1, <1>2, <2>1 DEF Inv, Filing, TypeInv, TypeOK
<1>5. Interruptions
  BY <1>1, Numbers DEF Inv, TypeInv, Interruptions
<1> QED
  BY <1>1, <1>3, <1>4, <1>5, QuietStep

\* The insert fails; the request ends without a row.
LEMMA NewEventFailsKeeps ==
  ASSUME Inv, NEW r \in Requests, NewEventFails(r)
  PROVE  Inv'
<1>1. /\ identities' = identities /\ up' = up /\ channel' = channel /\ input' = input
      /\ events' = events /\ schemaRows' = schemaRows
      /\ proofs' = proofs /\ failures' = failures /\ queue' = queue /\ results' = results
      /\ failer' = failer /\ signed' = signed /\ sent' = sent
      /\ panics' = panics /\ faults' = faults + 1
  BY DEF NewEventFails, tables, consumers, outside
<1>2. call' = [call EXCEPT ![r] = "done"] /\ reply' = [reply EXCEPT ![r] = "error"]
  BY DEF NewEventFails
<1>3. TypeInv'
  <2>1. faults \in Nat
    BY DEF Inv, TypeInv, TypeOK
  <2>2. faults' \in Nat
    BY <1>1, <2>1
  <2>3. call' \in [Requests -> {"idle", "insert", "publish", "done"}]
        /\ reply' \in [Requests -> {"", "error", "accepted"}]
    BY <1>2 DEF Inv, TypeInv, TypeOK
  <2> QED
    BY <1>1, <2>2, <2>3 DEF Inv, TypeInv, TypeOK
<1>4. Filing'
  BY <1>1, <1>2 DEF Inv, Filing, TypeInv, TypeOK
<1>5. Interruptions
  <2>1. faults \in Nat /\ panics \in Nat
    BY Numbers DEF Inv, TypeInv
  <2> QED
    BY <1>1, <2>1 DEF Interruptions
<1> QED
  BY <1>1, <1>3, <1>4, <1>5, QuietStep

\* What the API publishes reaches no consumer of its own.
LEMMA PublishRequestKeeps ==
  ASSUME Inv, NEW r \in Requests, PublishRequest(r)
  PROVE  Inv'
<1>1. /\ identities' = identities /\ up' = up /\ input' = input
      /\ events' = events /\ schemaRows' = schemaRows
      /\ proofs' = proofs /\ failures' = failures /\ results' = results
      /\ failer' = failer /\ signed' = signed /\ sent' = sent
      /\ panics' = panics /\ faults' = faults
  BY DEF PublishRequest, tables, consumers, outside, bad
<1>2. /\ call' = [call EXCEPT ![r] = "done"] /\ channel' \in {"open", "refused", "closed"}
      /\ \/ queue' = queue
         \/ queue' = Routed(queue, "id_system_api", "verifiers", "unverified.#", r)
      /\ reply' = [reply EXCEPT ![r] = IF channel = "closed" THEN "error" ELSE "accepted"]
  BY DEF PublishRequest, Inv, TypeInv, TypeOK
<1>3. /\ queue' \in [QueueNames -> Seq(Bodies)]
      /\ queue'["proof.results"] = queue["proof.results"]
      /\ queue'["proof.failures"] = queue["proof.failures"]
  <2>1. queue \in [QueueNames -> Seq(Bodies)] /\ r \in Bodies
    BY DEF Inv, TypeInv, TypeOK, Bodies, EventIds
  <2> QED
    BY <1>2, <2>1, RoutedTyped, VerifiersRouted
<1>4. TypeInv'
  <2>1. call' \in [Requests -> {"idle", "insert", "publish", "done"}]
        /\ reply' \in [Requests -> {"", "error", "accepted"}]
    BY <1>2 DEF Inv, TypeInv, TypeOK
  <2> QED
    BY <1>1, <1>2, <1>3, <2>1 DEF Inv, TypeInv, TypeOK
<1>5. Filing'
  BY <1>1, <1>2 DEF Inv, Filing, TypeInv, TypeOK
<1>6. Interruptions
  BY <1>1, Numbers DEF Inv, TypeInv, Interruptions
<1> QED
  BY <1>1, <1>3, <1>4, <1>5, <1>6, QuietStep

\* The broker closes the channel, or the API comes back.
LEMMA ChannelKeeps ==
  ASSUME Inv, ChannelCloses \/ Restart
  PROVE  Inv'
<1>1. /\ identities' = identities /\ up' \in BOOLEAN /\ input' = input /\ call' = call
      /\ reply' = reply /\ channel' \in {"open", "refused", "closed"}
      /\ events' = events /\ schemaRows' = schemaRows /\ queue' = queue
      /\ proofs' = proofs /\ failures' = failures /\ results' = results
      /\ failer' = failer /\ signed' = signed /\ sent' = sent
      /\ panics' = panics /\ faults' = faults
  BY DEF ChannelCloses, Restart, requestVars, tables, consumers, outside, bad, Inv, TypeInv, TypeOK
<1>2. TypeInv'
  BY <1>1 DEF Inv, TypeInv, TypeOK
<1>3. Filing'
  BY <1>1, FilingStays
<1>4. Interruptions
  BY <1>1, Numbers DEF Inv, TypeInv, Interruptions
<1> QED
  BY <1>1, <1>2, <1>3, <1>4, QuietStep

\* The verifier reaches the workers' queues only.
LEMMA VerifierSendsKeeps ==
  ASSUME Inv, NEW m \in Bodies, NEW key, VerifierSends(m, key)
  PROVE  Inv'
<1>1. /\ identities' = identities /\ up' = up /\ input' = input /\ call' = call
      /\ reply' = reply /\ channel' = channel
      /\ events' = events /\ schemaRows' = schemaRows
      /\ proofs' = proofs /\ failures' = failures /\ results' = results
      /\ failer' = failer /\ signed' = signed
      /\ panics' = panics /\ faults' = faults
  BY DEF VerifierSends, requestVars, tables, consumers, bad
<1>2. queue' = Routed(queue, "verifier_mock", "verifiers", key, m) /\ sent' = sent + 1
  BY DEF VerifierSends
<1>3. /\ queue' \in [QueueNames -> Seq(Bodies)]
      /\ queue'["proof.results"] = queue["proof.results"]
      /\ queue'["proof.failures"] = queue["proof.failures"]
  <2>1. queue \in [QueueNames -> Seq(Bodies)]
    BY DEF Inv, TypeInv, TypeOK
  <2> QED
    BY <1>2, <2>1, RoutedTyped, VerifiersRouted
<1>4. sent' \in Nat
  <2>1. sent \in Nat
    BY DEF Inv, TypeInv, TypeOK
  <2> QED
    BY <1>2, <2>1
<1>5. TypeInv'
  BY <1>1, <1>3, <1>4 DEF Inv, TypeInv, TypeOK
<1>6. Filing'
  BY <1>1, FilingStays
<1>7. Interruptions
  BY <1>1, Numbers DEF Inv, TypeInv, Interruptions
<1> QED
  BY <1>1, <1>3, <1>5, <1>6, <1>7, QuietStep

\* A signature is on its way to the API.
LEMMA PositiveSignedKeeps ==
  ASSUME Inv, PositiveSigned
  PROVE  Inv'
<1> DEFINE e == Head(queue["verified.positive"])
           h == Handled(queue, "verified.positive")
<1>1. /\ identities' = identities /\ up' = up /\ input' = input /\ call' = call
      /\ reply' = reply /\ channel' = channel
      /\ events' = events /\ schemaRows' = schemaRows
      /\ proofs' = proofs /\ failures' = failures /\ results' = results
      /\ failer' = failer /\ sent' = sent
      /\ panics' = panics /\ faults' = faults
  BY DEF PositiveSigned, requestVars, tables, consumers, bad
<1>2. /\ queue["verified.positive"] # << >> /\ e # "garbage"
      /\ signed' = [signed EXCEPT ![e] = @ + 1]
      /\ queue' = PublishResult(h, e)
  BY DEF PositiveSigned
<1>3. queue \in [QueueNames -> Seq(Bodies)] /\ signed \in [EventIds -> Nat]
      /\ queue["proof.results"] \in Seq(EventIds) /\ queue["proof.failures"] \in Seq(EventIds)
  BY DEF Inv, TypeInv, TypeOK
<1>4. /\ e \in EventIds /\ e \in Bodies /\ h \in [QueueNames -> Seq(Bodies)]
      /\ h["proof.results"] = queue["proof.results"]
      /\ h["proof.failures"] = queue["proof.failures"]
  BY <1>2, <1>3, HandledTyped DEF QueueNames, Bodies
<1> HIDE DEF e, h
<1>5. /\ queue' \in [QueueNames -> Seq(Bodies)]
      /\ queue'["proof.results"] = Append(queue["proof.results"], e)
      /\ queue'["proof.failures"] = queue["proof.failures"]
  <2>1. queue' \in [QueueNames -> Seq(Bodies)]
    BY <1>2, <1>4, RoutedTyped DEF PublishResult
  <2> QED
    BY <1>2, <1>4, <2>1, ResultRouted DEF QueueNames
<1>6. /\ signed' \in [EventIds -> Nat]
      /\ signed'[e] = signed[e] + 1 /\ \A x \in EventIds : x # e => signed'[x] = signed[x]
  BY <1>2, <1>3, <1>4
<1>7. Append(queue["proof.results"], e) \in Seq(EventIds)
  BY <1>3, <1>4, AppendProperties
<1>8. TypeInv'
  BY <1>1, <1>3, <1>5, <1>6, <1>7 DEF Inv, TypeInv, TypeOK
<1>9. Signing'
  <2> SUFFICES ASSUME NEW x \in Requests
               PROVE  proofs[x] + Taken(x) + Count(Append(queue["proof.results"], e), x) <= signed'[x]
    BY <1>1, <1>5 DEF Signing, Taken
  <2>1. proofs[x] + Taken(x) + Count(queue["proof.results"], x) <= signed[x]
    BY DEF Inv, Signing
  <2>2. /\ proofs[x] \in Nat /\ signed[x] \in Nat /\ Taken(x) \in Nat /\ x \in EventIds
        /\ Count(queue["proof.results"], x) \in Nat
    BY <1>3, Numbers, CountType DEF Inv, TypeInv, Taken, EventIds
  <2>3. Count(Append(queue["proof.results"], e), x)
          = Count(queue["proof.results"], x) + IF e = x THEN 1 ELSE 0
    BY <1>3, <1>4, CountAppend
  <2>4. CASE e = x
    <3>1. signed'[x] = signed[x] + 1
          /\ Count(Append(queue["proof.results"], e), x) = Count(queue["proof.results"], x) + 1
      BY <1>6, <2>3, <2>4
    <3> QED
      BY <2>1, <2>2, <3>1
  <2>5. CASE e # x
    <3>1. signed'[x] = signed[x]
          /\ Count(Append(queue["proof.results"], e), x) = Count(queue["proof.results"], x)
      BY <1>6, <2>2, <2>3, <2>5
    <3> QED
      BY <2>1, <3>1
  <2> QED
    BY <2>4, <2>5
<1>10. Filing'
  BY <1>1, FilingStays
<1>11. Interruptions
  BY <1>1, Numbers DEF Inv, TypeInv, Interruptions
<1> QED
  BY <1>1, <1>8, <1>9, <1>10, <1>11, TablesStay DEF Inv

\* A failure is on its way to the API.
LEMMA FailureReported ==
  ASSUME Inv, PositiveFailed \/ NegativeHandled
  PROVE  Inv'
<1>1. /\ identities' = identities /\ up' = up /\ input' = input /\ call' = call
      /\ reply' = reply /\ channel' = channel
      /\ events' = events /\ schemaRows' = schemaRows
      /\ proofs' = proofs /\ failures' = failures /\ results' = results
      /\ failer' = failer /\ signed' = signed /\ sent' = sent
      /\ panics' = panics /\ faults' = faults
  BY DEF PositiveFailed, NegativeHandled, requestVars, tables, consumers, outside, bad
<1>2. PICK n \in {"verified.positive", "verified.negative"} :
        /\ queue[n] # << >>
        /\ queue' = PublishFailure(Handled(queue, n), EventOf(Head(queue[n])))
  BY DEF PositiveFailed, NegativeHandled
<1>3. queue \in [QueueNames -> Seq(Bodies)]
      /\ queue["proof.results"] \in Seq(EventIds) /\ queue["proof.failures"] \in Seq(EventIds)
  BY DEF Inv, TypeInv, TypeOK
<1> DEFINE h == Handled(queue, n)
           e == EventOf(Head(queue[n]))
<1>4. /\ e \in EventIds /\ e \in Bodies /\ h \in [QueueNames -> Seq(Bodies)]
      /\ h["proof.results"] = queue["proof.results"]
      /\ h["proof.failures"] = queue["proof.failures"]
  <2>1. n \in QueueNames /\ n # "proof.results" /\ n # "proof.failures"
        /\ "proof.results" \in QueueNames /\ "proof.failures" \in QueueNames
    BY DEF QueueNames
  <2>2. Head(queue[n]) \in Bodies /\ h \in [QueueNames -> Seq(Bodies)]
        /\ \A k \in QueueNames \ {n} : h[k] = queue[k]
    BY <1>2, <1>3, <2>1, HandledTyped
  <2>3. e \in EventIds /\ e \in Bodies
    BY <2>2 DEF EventOf, Bodies, EventIds
  <2> QED
    BY <2>1, <2>2, <2>3
<1>5. queue' = PublishFailure(h, e)
  BY <1>2
<1> HIDE DEF e, h
<1>6. /\ queue' \in [QueueNames -> Seq(Bodies)]
      /\ queue'["proof.results"] = queue["proof.results"]
      /\ queue'["proof.failures"] = Append(queue["proof.failures"], e)
  <2>1. queue' \in [QueueNames -> Seq(Bodies)]
    BY <1>5, <1>4, RoutedTyped DEF PublishFailure
  <2> QED
    BY <1>5, <1>4, <2>1, FailureRouted DEF QueueNames
<1>7. Append(queue["proof.failures"], e) \in Seq(EventIds)
  BY <1>3, <1>4, AppendProperties
<1>8. TypeInv'
  BY <1>1, <1>3, <1>6, <1>7 DEF Inv, TypeInv, TypeOK
<1>9. Filing'
  BY <1>1, FilingStays
<1>10. Interruptions
  BY <1>1, Numbers DEF Inv, TypeInv, Interruptions
<1> QED
  BY <1>1, <1>6, <1>8, <1>9, <1>10, QuietStep

\* The event gets its row: open, with nothing charged to it.
LEMMA NewEventKeeps ==
  ASSUME Inv, NEW r \in Requests, NewEvent(r)
  PROVE  Inv'
<1> DEFINE row == [identity |-> input[r].schema, schema |-> input[r].schema,
                   retry |-> 0, processed |-> FALSE]
<1>1. /\ identities' = identities /\ up' = up /\ input' = input
      /\ reply' = reply /\ channel' = channel /\ schemaRows' = schemaRows
      /\ proofs' = proofs /\ failures' = failures /\ results' = results
      /\ failer' = failer /\ signed' = signed /\ sent' = sent /\ queue' = queue
      /\ panics' = panics /\ faults' = faults
  BY DEF NewEvent, consumers, outside, bad
<1>2. /\ call[r] = "insert"
      /\ call' = [call EXCEPT ![r] = "publish"]
      /\ events' = [events EXCEPT ![r] = row]
  BY DEF NewEvent
<1>3. input[r] \in Input /\ events[r] = None
  BY <1>2 DEF Inv, Filing, TypeInv, TypeOK
<1>4. row \in Row
  BY <1>3 DEF Input, Row
<1>5. row # None /\ row.retry = 0 /\ ~row.processed
  BY <1>4, PipelineAssumption
<1> HIDE DEF row
<1>6. /\ events \in [Requests -> Row \cup {None}]
      /\ call \in [Requests -> {"idle", "insert", "publish", "done"}]
  BY DEF Inv, TypeInv, TypeOK
<1>7. /\ events' \in [Requests -> Row \cup {None}]
      /\ events'[r] = row /\ \A x \in Requests : x # r => events'[x] = events[x]
  BY <1>2, <1>4, <1>6
<1>8. call' \in [Requests -> {"idle", "insert", "publish", "done"}]
  BY <1>2, <1>6
<1>9. TypeInv'
  BY <1>1, <1>7, <1>8 DEF Inv, TypeInv, TypeOK
<1>10. Filing'
  BY <1>1, <1>2, <1>6, <1>7 DEF Inv, Filing
<1>11. Charging'
  <2>1. failer.at = "write" => failer.event # r
    BY <1>3 DEF Inv, Charging
  <2>2. failer.at # "idle" => failures[failer.event] > 0
    BY DEF Inv, Charging
  <2>3. CASE failer.event = r
    BY <1>1, <1>5, <1>7, <2>1, <2>2, <2>3 DEF Charging
  <2>4. CASE failer.event # r
    BY <1>1, <1>7, <2>4 DEF Inv, Charging
  <2> QED
    BY <2>3, <2>4
<1>12. Storing'
  BY <1>1, <1>5, <1>7 DEF Inv, Storing
<1>13. ASSUME NEW e \in Requests PROVE Closed(e)' <=> Closed(e)
  BY <1>3, <1>5, <1>7 DEF Closed
<1>14. Budget' /\ OneProofPerEvent'
  BY <1>1, <1>13 DEF Inv, Budget, OneProofPerEvent, Pending
<1>15. Signing'
  BY <1>1, SigningStays
<1>16. RetryBounded'
  <2> SUFFICES ASSUME NEW e \in Requests, events'[e] # None
               PROVE  /\ events'[e].retry <= MaxRetries + 1
                      /\ ~events'[e].processed => events'[e].retry <= MaxRetries
                      /\ events'[e].retry <= failures[e]
    BY <1>1 DEF RetryBounded
  <2>1. CASE e = r
    <3>1. MaxRetries \in Nat /\ failures[e] \in Nat /\ events'[e].retry = 0
      BY <1>5, <1>7, <2>1, Numbers DEF Inv, TypeInv
    <3> QED
      BY <3>1
  <2>2. CASE e # r
    BY <1>7, <2>2 DEF Inv, RetryBounded
  <2> QED
    BY <2>1, <2>2
<1>17. ClosedForCause'
  BY <1>1, <1>13 DEF Inv, ClosedForCause
<1> QED
  BY <1>9, <1>10, <1>11, <1>12, <1>14, <1>15, <1>16, <1>17 DEF Inv

-----------------------------------------------------------------------------
(***************************************************************************)
(* Interruptions.                                                          *)
(***************************************************************************)

\* The API dies with queues q, of which a consumer may have taken its message.
LEMMA DiesKeeps ==
  ASSUME Inv, NEW q \in [QueueNames -> Seq(Bodies)],
         q["proof.results"] \in Seq(EventIds), q["proof.failures"] \in Seq(EventIds),
         \A e \in Requests : Count(q["proof.results"], e) <= Count(queue["proof.results"], e),
         NEW i \in Delivered(q, "proof.results"), NEW j \in Delivered(q, "proof.failures"),
         Dies(q, i, j),
         channel' = channel, input' = input, reply' = reply, events' = events,
         identities' = identities, schemaRows' = schemaRows, proofs' = proofs,
         failures' \in [EventIds -> Nat], \A e \in Requests : failures'[e] = failures[e],
         signed' = signed, sent' = sent,
         faults' \in Nat, panics' \in Nat, faults' + panics' = faults + panics + 1
  PROVE  Inv'
<1>1. /\ up' = FALSE /\ results' = Idle /\ failer' = Idle
      /\ call' = [r \in Requests |-> IF call[r] = "idle" THEN "idle" ELSE "done"]
  BY DEF Dies
<1> DEFINE R == SubSeq(q["proof.results"], i + 1, Len(q["proof.results"]))
           F == SubSeq(q["proof.failures"], j + 1, Len(q["proof.failures"]))
<1>2. queue' = [q EXCEPT !["proof.results"] = R, !["proof.failures"] = F]
  BY DEF Dies
<1>3. /\ R \in Seq(EventIds) /\ R \in Seq(Bodies)
      /\ \A e \in Requests : Count(R, e) <= Count(q["proof.results"], e)
  BY CountSubSeq DEF Delivered, QueueNames
<1>4. F \in Seq(EventIds) /\ F \in Seq(Bodies)
  BY CountSubSeq DEF Delivered, QueueNames
<1> HIDE DEF R, F
<1>5. /\ queue' \in [QueueNames -> Seq(Bodies)]
      /\ queue'["proof.results"] = R /\ queue'["proof.failures"] = F
  BY <1>2, <1>3, <1>4 DEF QueueNames
<1>6. call' \in [Requests -> {"idle", "insert", "publish", "done"}]
  BY <1>1
<1>7. TypeInv'
  <2>1. Idle \in Consumer({"identity", "schema", "save", "mark"})
        /\ Idle \in Consumer({"read", "write"})
    BY DEF Idle, Consumer, EventIds
  <2> QED
    BY <1>1, <1>3, <1>4, <1>5, <1>6, <2>1 DEF Inv, TypeInv, TypeOK
<1>8. Filing'
  BY <1>1 DEF Inv, Filing
<1>9. ASSUME NEW e \in Requests
      PROVE  /\ Count(queue'["proof.results"], e) <= Count(queue["proof.results"], e)
             /\ Count(queue'["proof.results"], e) \in Nat
  <2>1. /\ Count(R, e) \in Nat /\ Count(q["proof.results"], e) \in Nat
        /\ Count(queue["proof.results"], e) \in Nat
    BY <1>3, CountType DEF Inv, TypeInv
  <2>2. Count(R, e) <= Count(q["proof.results"], e)
        /\ Count(q["proof.results"], e) <= Count(queue["proof.results"], e)
    BY <1>3
  <2>3. Count(R, e) <= Count(queue["proof.results"], e)
    BY <2>1, <2>2
  <2> QED
    BY <1>5, <2>1, <2>3
<1> QED
  BY <1>1, <1>7, <1>8, <1>9, Interrupted DEF Inv

\* The process is killed.
LEMMA KilledKeeps ==
  ASSUME Inv, Killed
  PROVE  Inv'
<1>1. /\ channel' = channel /\ input' = input /\ reply' = reply /\ events' = events
      /\ identities' = identities /\ schemaRows' = schemaRows /\ proofs' = proofs
      /\ failures' = failures /\ signed' = signed /\ sent' = sent
      /\ faults' = faults + 1 /\ panics' = panics
  BY DEF Killed, tables, outside
<1>2. PICK i \in Delivered(queue, "proof.results"), j \in Delivered(queue, "proof.failures") :
        Dies(queue, i, j)
  BY DEF Killed
<1>3. /\ queue \in [QueueNames -> Seq(Bodies)] /\ queue["proof.results"] \in Seq(EventIds)
      /\ queue["proof.failures"] \in Seq(EventIds) /\ failures \in [EventIds -> Nat]
  BY DEF Inv, TypeInv, TypeOK
<1>4. faults' \in Nat /\ panics' \in Nat /\ faults' + panics' = faults + panics + 1
  <2>1. faults \in Nat /\ panics \in Nat
    BY DEF Inv, TypeInv, TypeOK
  <2> QED
    BY <1>1, <2>1
<1>5. \A e \in Requests : Count(queue["proof.results"], e) <= Count(queue["proof.results"], e)
  BY <1>3, CountType
<1> QED
  BY <1>1, <1>2, <1>3, <1>4, <1>5, DiesKeeps

\* A statement of a consumer fails and its handler returns.
LEMMA FaultKeeps ==
  ASSUME Inv, ResultFault \/ FailureFault
  PROVE  Inv'
<1>1. /\ up' = up /\ call' = call /\ queue' = queue
      /\ channel' = channel /\ input' = input /\ reply' = reply /\ events' = events
      /\ identities' = identities /\ schemaRows' = schemaRows /\ proofs' = proofs
      /\ failures' = failures /\ signed' = signed /\ sent' = sent
      /\ faults' = faults + 1 /\ panics' = panics
  BY DEF ResultFault, FailureFault, requestVars, tables, outside
<1>2. (results' = results \/ results' = Idle) /\ (failer' = failer \/ failer' = Idle)
  BY DEF ResultFault, FailureFault
<1>3. faults' \in Nat /\ panics' \in Nat /\ faults' + panics' = faults + panics + 1
  <2>1. faults \in Nat /\ panics \in Nat
    BY DEF Inv, TypeInv, TypeOK
  <2> QED
    BY <1>1, <2>1
<1>4. /\ results' \in Consumer({"identity", "schema", "save", "mark"})
      /\ failer' \in Consumer({"read", "write"})
  <2>1. Idle \in Consumer({"identity", "schema", "save", "mark"})
        /\ Idle \in Consumer({"read", "write"})
    BY DEF Idle, Consumer, EventIds
  <2> QED
    BY <1>2, <2>1 DEF Inv, TypeInv, TypeOK
<1>5. TypeInv'
  BY <1>1, <1>3, <1>4 DEF Inv, TypeInv, TypeOK
<1>6. Filing'
  BY <1>1, FilingStays
<1>7. \A e \in Requests : Count(queue'["proof.results"], e) <= Count(queue["proof.results"], e)
                          /\ Count(queue'["proof.results"], e) \in Nat
  BY <1>1, CountType DEF Inv, TypeInv
<1> QED
  BY <1>1, <1>2, <1>3, <1>5, <1>6, <1>7, Interrupted DEF Inv

-----------------------------------------------------------------------------
(***************************************************************************)
(* The results consumer.                                                   *)
(***************************************************************************)

\* A message that a consumer takes names an event.
LEMMA DeliveryTyped ==
  ASSUME TypeInv, NEW n \in {"proof.results", "proof.failures"}, queue[n] # << >>
  PROVE  /\ Head(queue[n]) \in EventIds
         /\ Handled(queue, n) \in [QueueNames -> Seq(Bodies)]
         /\ Handled(queue, n)["proof.results"] \in Seq(EventIds)
         /\ Handled(queue, n)["proof.failures"] \in Seq(EventIds)
         /\ Handled(queue, n)[n] = Tail(queue[n])
         /\ \A k \in QueueNames \ {n} : Handled(queue, n)[k] = queue[k]
<1>1. /\ queue \in [QueueNames -> Seq(Bodies)] /\ n \in QueueNames
      /\ queue[n] \in Seq(EventIds)
      /\ queue["proof.results"] \in Seq(EventIds) /\ queue["proof.failures"] \in Seq(EventIds)
      /\ {"proof.results", "proof.failures"} \subseteq QueueNames
  BY DEF TypeInv, TypeOK, QueueNames
<1>2. Head(queue[n]) \in EventIds /\ Tail(queue[n]) \in Seq(EventIds)
  BY <1>1, HeadTailProperties
<1>3. /\ Handled(queue, n) \in [QueueNames -> Seq(Bodies)]
      /\ Handled(queue, n)[n] = Tail(queue[n])
      /\ \A k \in QueueNames \ {n} : Handled(queue, n)[k] = queue[k]
  BY <1>1, HandledTyped
<1> QED
  BY <1>1, <1>2, <1>3

\* What the results consumer holds, and what it may come to hold.
LEMMA GetEventCases ==
  ASSUME TypeOK, NEW e \in EventIds
  PROVE  /\ GetEvent(e) \in Row \cup {None}
         /\ GetEvent(e) # None =>
              e \in Requests /\ events[e] # None /\ ~Closed(e) /\ GetEvent(e) = events[e]
                /\ GetEvent(e) \in Row /\ ~events[e].processed
         /\ e \in Requests /\ events[e] # None /\ GetEvent(e) = None => Closed(e)
<1>1. \A x \in Requests : events[x] \in Row \cup {None}
  BY DEF TypeOK
<1> QED
  BY <1>1 DEF GetEvent, Closed

\* An open event is read, or a missing one goes on as a zero row.
LEMMA ResultGetEventKeeps ==
  ASSUME Inv, ResultGetEvent
  PROVE  Inv'
<1> DEFINE e == Head(queue["proof.results"])
           h == Handled(queue, "proof.results")
<1>1. results.at = "idle" /\ queue["proof.results"] # << >>
  BY DEF ResultGetEvent
<1>2. /\ e \in EventIds /\ h \in [QueueNames -> Seq(Bodies)]
      /\ h["proof.results"] \in Seq(EventIds) /\ h["proof.failures"] \in Seq(EventIds)
      /\ h["proof.results"] = Tail(queue["proof.results"])
  BY <1>1, DeliveryTyped DEF Inv
<1>3. ASSUME NEW x \in Requests
      PROVE  /\ Count(h["proof.results"], x) + (IF e = x THEN 1 ELSE 0)
                   <= Count(queue["proof.results"], x)
             /\ Count(h["proof.results"], x) \in Nat
             /\ Count(queue["proof.results"], x) \in Nat
  <2>1. queue["proof.results"] \in Seq(EventIds)
    BY DEF Inv, TypeInv
  <2>2. Count(Tail(queue["proof.results"]), x) + (IF e = x THEN 1 ELSE 0)
          <= Count(queue["proof.results"], x)
    BY <1>1, <2>1, CountTail
  <2> QED
    BY <1>2, <2>1, <2>2, CountType
<1>4. CASE e = ""
  <2>1. Panic(h) /\ UNCHANGED <<channel, input, reply, tables, outside, faults>>
    BY <1>4 DEF ResultGetEvent
  <2>2. /\ channel' = channel /\ input' = input /\ reply' = reply /\ events' = events
        /\ identities' = identities /\ schemaRows' = schemaRows /\ proofs' = proofs
        /\ failures' = failures /\ signed' = signed /\ sent' = sent
        /\ faults' = faults /\ panics' = panics + 1
    BY <2>1 DEF Panic, tables, outside
  <2>3. PICK i \in Delivered(h, "proof.results"), j \in Delivered(h, "proof.failures") :
          Dies(h, i, j)
    BY <2>1 DEF Panic
  <2> HIDE DEF e, h
  <2>4. faults' \in Nat /\ panics' \in Nat /\ faults' + panics' = faults + panics + 1
    <3>1. faults \in Nat /\ panics \in Nat
      BY DEF Inv, TypeInv, TypeOK
    <3> QED
      BY <2>2, <3>1
  <2>5. ASSUME NEW x \in Requests
        PROVE  Count(h["proof.results"], x) <= Count(queue["proof.results"], x)
    <3>1. CASE e = x
      BY <1>3, <3>1
    <3>2. CASE e # x
      BY <1>3, <3>2
    <3> QED
      BY <3>1, <3>2
  <2>6. failures' \in [EventIds -> Nat]
    BY <2>2 DEF Inv, TypeInv, TypeOK
  <2> QED
    BY <1>2, <2>2, <2>3, <2>4, <2>5, <2>6, DiesKeeps
<1>5. CASE e # ""
  <2>1. /\ results' = [at |-> "identity", event |-> e, row |-> GetEvent(e)]
        /\ queue' = h
    BY <1>5 DEF ResultGetEvent
  <2>2. /\ up' = up /\ call' = call /\ channel' = channel /\ input' = input
        /\ reply' = reply /\ events' = events
        /\ identities' = identities /\ schemaRows' = schemaRows /\ proofs' = proofs
        /\ failures' = failures /\ failer' = failer /\ signed' = signed /\ sent' = sent
        /\ faults' = faults /\ panics' = panics
    BY <1>5 DEF ResultGetEvent, requestVars, tables, outside, bad
  <2> DEFINE row == GetEvent(e)
  <2>3. /\ row \in Row \cup {None}
        /\ row # None => e \in Requests /\ events[e] # None /\ ~Closed(e)
    BY <1>2, GetEventCases DEF Inv, TypeInv
  <2>4. /\ results'.at = "identity" /\ results'.event = e /\ results'.row = row
        /\ results' \in Consumer({"identity", "schema", "save", "mark"})
    BY <1>2, <2>1, <2>3 DEF Consumer
  <2> HIDE DEF e, h, row
  <2>5. TypeInv'
    BY <1>2, <2>1, <2>2, <2>4 DEF Inv, TypeInv, TypeOK
  <2>6. Filing' /\ Charging' /\ RetryBounded' /\ ClosedForCause' /\ OneProofPerEvent'
    BY <2>2 DEF Inv, Filing, Charging, RetryBounded, ClosedForCause, OneProofPerEvent, Closed
  <2>7. Storing'
    BY <2>2, <2>3, <2>4 DEF Storing
  <2>8. Budget'
    <3> SUFFICES ASSUME NEW x \in Requests, (Pending(x) \/ ~Closed(x))'
                 PROVE  proofs[x] <= faults + panics
      BY <2>2 DEF Budget
    <3>1. ~Closed(x)
      BY <2>2, <2>3, <2>4 DEF Pending, Closed
    <3> QED
      BY <1>1, <3>1 DEF Inv, Budget
  <2>9. Signing'
    <3> SUFFICES ASSUME NEW x \in Requests
                 PROVE  proofs[x] + Taken(x)' + Count(h["proof.results"], x) <= signed[x]
      BY <2>1, <2>2 DEF Signing
    <3>1. /\ proofs[x] + Taken(x) + Count(queue["proof.results"], x) <= signed[x]
          /\ proofs[x] \in Nat /\ signed[x] \in Nat /\ Taken(x) = 0
      BY <1>1, Numbers DEF Inv, TypeInv, Signing, Taken
    <3>2. CASE e = x
      <4>1. Taken(x)' = 1 /\ Count(h["proof.results"], x) + 1 <= Count(queue["proof.results"], x)
        BY <1>3, <2>4, <3>2 DEF Taken
      <4> QED
        BY <1>3, <3>1, <4>1
    <3>3. CASE e # x
      <4>1. Taken(x)' = 0 /\ Count(h["proof.results"], x) <= Count(queue["proof.results"], x)
        BY <1>3, <2>4, <3>3 DEF Taken
      <4> QED
        BY <1>3, <3>1, <4>1
    <3> QED
      BY <3>2, <3>3
  <2> QED
    BY <2>5, <2>6, <2>7, <2>8, <2>9 DEF Inv
<1> QED
  BY <1>4, <1>5

\* What the results consumer has in hand.
LEMMA ResultTyped ==
  ASSUME TypeOK
  PROVE  /\ results.at \in {"identity", "schema", "save", "mark", "idle"}
         /\ results.event \in EventIds
         /\ results.row # None => results.row \in Row /\ results.row.schema \in Uuids
         /\ results = [at |-> results.at, event |-> results.event, row |-> results.row]
<1>1. results \in [at : {"identity", "schema", "save", "mark"} \cup {"idle"}, event : EventIds,
                  row : Row \cup {None}]
  BY DEF TypeOK, Consumer
<1> QED
  BY <1>1 DEF Row

\* Without the identity the result is dropped, and its event stays open.
LEMMA ResultGetIdentityKeeps ==
  ASSUME Inv, ResultGetIdentity
  PROVE  Inv'
<1>1. /\ up' = up /\ call' = call /\ channel' = channel /\ input' = input
      /\ reply' = reply /\ events' = events /\ queue' = queue
      /\ identities' = identities /\ schemaRows' = schemaRows /\ proofs' = proofs
      /\ failures' = failures /\ failer' = failer /\ signed' = signed /\ sent' = sent
      /\ faults' = faults /\ panics' = panics /\ results.at = "identity"
  BY DEF ResultGetIdentity, requestVars, tables, outside, bad
<1>2. \/ results.row # None /\ results' = [results EXCEPT !.at = "schema"]
      \/ results' = Idle
  BY DEF ResultGetIdentity
<1>3. \/ results.row # None /\ results' = [at |-> "schema", event |-> results.event, row |-> results.row]
      \/ results' = Idle
  BY <1>2, ResultTyped DEF Inv, TypeInv
<1>4. results' \in Consumer({"identity", "schema", "save", "mark"})
  <2>1. results.event \in EventIds /\ (results.row # None => results.row \in Row)
    BY ResultTyped DEF Inv, TypeInv
  <2>2. CASE results' = Idle
    BY <2>2 DEF Consumer, Idle, EventIds
  <2>3. CASE results.row # None
             /\ results' = [at |-> "schema", event |-> results.event, row |-> results.row]
    BY <2>1, <2>3 DEF Consumer
  <2> QED
    BY <1>3, <2>2, <2>3
<1>5. TypeInv'
  BY <1>1, <1>4 DEF Inv, TypeInv, TypeOK
<1>6. Filing' /\ Charging' /\ RetryBounded' /\ ClosedForCause' /\ OneProofPerEvent'
  BY <1>1 DEF Inv, Filing, Charging, RetryBounded, ClosedForCause, OneProofPerEvent, Closed
<1>7. CASE results.row # None /\ results' = [at |-> "schema", event |-> results.event, row |-> results.row]
  <2>1. results'.at = "schema" /\ results'.event = results.event /\ results'.row = results.row
    BY <1>7
  <2>2. Storing'
    BY <1>1, <1>7, <2>1 DEF Inv, Storing
  <2>3. Budget' /\ Signing'
    BY <1>1, <2>1 DEF Inv, Budget, Pending, Closed, Signing, Taken
  <2> QED
    BY <1>5, <1>6, <2>2, <2>3 DEF Inv
<1>8. CASE results' = Idle
  <2>1. results'.at = "idle"
    BY <1>8 DEF Idle
  <2>2. Storing'
    BY <2>1 DEF Storing
  <2>3. Budget'
    BY <1>1, <2>1 DEF Inv, Budget, Pending, Closed
  <2>4. Signing'
    <3> SUFFICES ASSUME NEW x \in Requests
                 PROVE  proofs[x] + Taken(x)' + Count(queue["proof.results"], x) <= signed[x]
      BY <1>1 DEF Signing
    <3>1. /\ proofs[x] + Taken(x) + Count(queue["proof.results"], x) <= signed[x]
          /\ proofs[x] \in Nat /\ signed[x] \in Nat /\ Taken(x) \in {0, 1} /\ Taken(x)' = 0
          /\ Count(queue["proof.results"], x) \in Nat
      BY <2>1, Numbers, CountType DEF Inv, TypeInv, Signing, Taken
    <3> QED
      BY <3>1
  <2> QED
    BY <1>5, <1>6, <2>2, <2>3, <2>4 DEF Inv
<1> QED
  BY <1>3, <1>7, <1>8

\* The schema row is there.
LEMMA ResultSchemaKeeps ==
  ASSUME Inv, ResultSchema
  PROVE  Inv'
<1>1. /\ up' = up /\ call' = call /\ channel' = channel /\ input' = input
      /\ reply' = reply /\ events' = events /\ queue' = queue
      /\ identities' = identities /\ proofs' = proofs
      /\ failures' = failures /\ failer' = failer /\ signed' = signed /\ sent' = sent
      /\ faults' = faults /\ panics' = panics /\ results.at = "schema"
      /\ results' = [results EXCEPT !.at = "save"]
      /\ schemaRows' = schemaRows \cup {results.row.schema}
  BY DEF ResultSchema, requestVars, outside, bad
<1>2. results' = [at |-> "save", event |-> results.event, row |-> results.row]
  BY <1>1, ResultTyped DEF Inv, TypeInv
<1>3. /\ results.row # None /\ results.row \in Row /\ results.row.schema \in Uuids
      /\ results.event \in EventIds
  BY <1>1, ResultTyped DEF Inv, TypeInv, Storing
<1>4. /\ results'.at = "save" /\ results'.event = results.event /\ results'.row = results.row
      /\ results' \in Consumer({"identity", "schema", "save", "mark"})
  BY <1>2, <1>3 DEF Consumer
<1>5. TypeInv'
  BY <1>1, <1>3, <1>4 DEF Inv, TypeInv, TypeOK
<1>6. Filing' /\ Charging' /\ RetryBounded' /\ ClosedForCause' /\ OneProofPerEvent'
  BY <1>1 DEF Inv, Filing, Charging, RetryBounded, ClosedForCause, OneProofPerEvent, Closed
<1>7. Storing'
  BY <1>1, <1>3, <1>4 DEF Inv, Storing
<1>8. Budget' /\ Signing'
  BY <1>1, <1>4 DEF Inv, Budget, Pending, Closed, Signing, Taken
<1> QED
  BY <1>5, <1>6, <1>7, <1>8 DEF Inv

\* A proof row more, which is about to close its event.
LEMMA ResultSaveKeeps ==
  ASSUME Inv, ResultSave
  PROVE  Inv'
<1> DEFINE e == results.event
<1>1. /\ up' = up /\ call' = call /\ channel' = channel /\ input' = input
      /\ reply' = reply /\ events' = events /\ queue' = queue
      /\ identities' = identities /\ schemaRows' = schemaRows
      /\ failures' = failures /\ failer' = failer /\ signed' = signed /\ sent' = sent
      /\ faults' = faults /\ panics' = panics /\ results.at = "save"
      /\ results' = [results EXCEPT !.at = "mark"]
      /\ proofs' = [proofs EXCEPT ![e] = @ + 1]
  BY DEF ResultSave, requestVars, outside, bad
<1>2. results' = [at |-> "mark", event |-> results.event, row |-> results.row]
  BY <1>1, ResultTyped DEF Inv, TypeInv
<1>3. /\ results.row # None /\ results.row \in Row /\ results.event \in EventIds
      /\ e \in Requests /\ events[e] # None
  BY <1>1, ResultTyped DEF Inv, TypeInv, Storing
<1>4. /\ results'.at = "mark" /\ results'.event = e /\ results'.row = results.row
      /\ results' \in Consumer({"identity", "schema", "save", "mark"})
  BY <1>2, <1>3 DEF Consumer
<1>5. /\ proofs' \in [Requests -> Nat] /\ proofs'[e] = proofs[e] + 1
      /\ \A x \in Requests : x # e => proofs'[x] = proofs[x]
  <2>1. proofs \in [Requests -> Nat]
    BY DEF Inv, TypeInv, TypeOK
  <2> QED
    BY <1>1, <1>3, <2>1
<1>6. TypeInv'
  BY <1>1, <1>4, <1>5 DEF Inv, TypeInv, TypeOK
<1>7. Filing' /\ Charging' /\ RetryBounded'
  BY <1>1 DEF Inv, Filing, Charging, RetryBounded
<1>8. proofs[e] <= faults + panics /\ proofs[e] \in Nat /\ faults \in Nat /\ panics \in Nat
  BY <1>1, <1>3, Numbers DEF Inv, TypeInv, Budget, Pending
<1>9. proofs'[e] > 0 /\ proofs'[e] <= 1 + faults + panics
  BY <1>5, <1>8
<1>10. Storing'
  BY <1>1, <1>3, <1>4, <1>9 DEF Storing
<1>11. Budget'
  <2> SUFFICES ASSUME NEW x \in Requests, x # e, ~Closed(x)
               PROVE  proofs[x] <= faults + panics
    BY <1>1, <1>4, <1>5 DEF Budget, Pending, Closed
  <2> QED
    BY <1>1 DEF Inv, Budget
<1>12. OneProofPerEvent'
  BY <1>1, <1>5, <1>9 DEF Inv, OneProofPerEvent
<1>13. ClosedForCause'
  BY <1>1, <1>5, <1>9 DEF Inv, ClosedForCause, Closed
<1>14. Signing'
  <2> SUFFICES ASSUME NEW x \in Requests
               PROVE  proofs'[x] + Taken(x)' + Count(queue["proof.results"], x) <= signed[x]
    BY <1>1 DEF Signing
  <2>1. /\ proofs[x] + Taken(x) + Count(queue["proof.results"], x) <= signed[x]
        /\ proofs[x] \in Nat /\ signed[x] \in Nat /\ Taken(x)' = 0
        /\ Count(queue["proof.results"], x) \in Nat
    BY <1>4, Numbers, CountType DEF Inv, TypeInv, Signing, Taken
  <2>2. CASE x = e
    <3>1. Taken(x) = 1 /\ proofs'[x] = proofs[x] + 1
      BY <1>1, <1>5, <2>2 DEF Taken
    <3> QED
      BY <2>1, <3>1
  <2>3. CASE x # e
    <3>1. Taken(x) = 0 /\ proofs'[x] = proofs[x]
      BY <1>1, <1>5, <2>3 DEF Taken
    <3> QED
      BY <2>1, <3>1
  <2> QED
    BY <2>2, <2>3
<1> QED
  BY <1>6, <1>7, <1>10, <1>11, <1>12, <1>13, <1>14 DEF Inv

\* A row after an update of its processed column.
LEMMA RowProcessed ==
  ASSUME NEW x \in Row, NEW b
  PROVE  [x EXCEPT !.processed = b]
           = [identity |-> x.identity, schema |-> x.schema, retry |-> x.retry, processed |-> b]
<1>1. x = [identity |-> x.identity, schema |-> x.schema, retry |-> x.retry,
           processed |-> x.processed]
  BY DEF Row
<1>2. ASSUME NEW y, y = [x EXCEPT !.processed = b]
      PROVE  y = [identity |-> x.identity, schema |-> x.schema, retry |-> x.retry, processed |-> b]
  BY <1>1, <1>2
<1> QED
  BY <1>2

\* A row after an update of its retry and processed columns.
LEMMA RowCharged ==
  ASSUME NEW x \in Row, NEW k, NEW b, NEW y, y = [x EXCEPT !.retry = k, !.processed = b]
  PROVE  y = [identity |-> x.identity, schema |-> x.schema, retry |-> k, processed |-> b]
<1>1. x = [identity |-> x.identity, schema |-> x.schema, retry |-> x.retry,
           processed |-> x.processed]
  BY DEF Row
<1> QED
  BY <1>1

\* The event is closed, unless that has happened meanwhile.
LEMMA ResultMarkKeeps ==
  ASSUME Inv, ResultMark
  PROVE  Inv'
<1> DEFINE e == results.event
<1>1. /\ up' = up /\ call' = call /\ channel' = channel /\ input' = input
      /\ reply' = reply /\ proofs' = proofs /\ queue' = queue
      /\ identities' = identities /\ schemaRows' = schemaRows
      /\ failures' = failures /\ failer' = failer /\ signed' = signed /\ sent' = sent
      /\ faults' = faults /\ panics' = panics /\ results.at = "mark" /\ results' = Idle
      /\ events' = IF GetEvent(e) # None
                   THEN [events EXCEPT ![e].processed = TRUE] ELSE events
  BY DEF ResultMark, requestVars, outside, bad
<1>2. /\ results' \in Consumer({"identity", "schema", "save", "mark"})
      /\ results'.at = "idle"
  BY <1>1 DEF Consumer, Idle, EventIds
<1>3. e \in EventIds /\ e \in Requests /\ events[e] # None /\ proofs[e] > 0
  BY <1>1, ResultTyped DEF Inv, TypeInv, Storing
<1>4. events \in [Requests -> Row \cup {None}] /\ events[e] \in Row
  BY <1>3 DEF Inv, TypeInv, TypeOK
<1>5. /\ events' \in [Requests -> Row \cup {None}]
      /\ \A x \in Requests : x # e => events'[x] = events[x]
      /\ events'[e] # None /\ events'[e].processed /\ events'[e].retry = events[e].retry
  <2>1. CASE GetEvent(e) = None
    <3>1. events' = events
      BY <1>1, <2>1
    <3>2. Closed(e)
      BY <1>3, <2>1, GetEventCases DEF Inv, TypeInv
    <3> QED
      BY <1>3, <1>4, <3>1, <3>2 DEF Closed
  <2>2. CASE GetEvent(e) # None
    <3>1. events' = [events EXCEPT ![e].processed = TRUE]
      BY <1>1, <2>2
    <3> DEFINE row == [identity |-> events[e].identity, schema |-> events[e].schema,
                       retry |-> events[e].retry, processed |-> TRUE]
    <3>2. events' = [events EXCEPT ![e] = row]
      <4>1. events' = [events EXCEPT ![e] = [events[e] EXCEPT !.processed = TRUE]]
        BY <3>1
      <4>2. [events[e] EXCEPT !.processed = TRUE] = row
        BY <1>4, RowProcessed
      <4> QED
        BY <4>1, <4>2
    <3>3. row \in Row
      BY <1>4 DEF Row
    <3>4. row # None /\ row.processed /\ row.retry = events[e].retry
      BY <3>3, PipelineAssumption
    <3> HIDE DEF row
    <3>5. events'[e] = row /\ \A x \in Requests : x # e => events'[x] = events[x]
      BY <1>3, <1>4, <3>2
    <3>6. events' \in [Requests -> Row \cup {None}]
      BY <1>3, <1>4, <3>2, <3>3
    <3> QED
      BY <3>4, <3>5, <3>6
  <2> QED
    BY <2>1, <2>2
<1> HIDE DEF e
<1>6. TypeInv'
  <2>1. events' \in [Requests -> Row \cup {None}]
    BY <1>5
  <2>2. results' \in Consumer({"identity", "schema", "save", "mark"})
    BY <1>2
  <2>3. UNCHANGED <<up, call, channel, input, reply, proofs, queue, identities, schemaRows,
                    failures, failer, signed, sent, faults, panics>>
    BY <1>1
  <2> QED
    BY <2>1, <2>2, <2>3 DEF Inv, TypeInv, TypeOK
<1>7. Filing'
  BY <1>1, <1>3, <1>5 DEF Inv, Filing
<1>8. Charging'
  <2>1. ASSUME NEW x \in Requests
        PROVE  (events'[x] # None <=> events[x] # None) /\ events'[x].retry = events[x].retry
    BY <1>3, <1>5
  <2>2. failures' = failures /\ failer' = failer
    BY <1>1
  <2> QED
    BY <2>1, <2>2 DEF Inv, Charging
<1>9. Storing'
  BY <1>2 DEF Storing
<1>10. Budget'
  <2> SUFFICES ASSUME NEW x \in Requests, ~Closed(x)'
               PROVE  proofs[x] <= faults + panics
    BY <1>1, <1>2 DEF Budget, Pending
  <2>1. x # e /\ ~Closed(x)
    BY <1>5 DEF Closed
  <2> QED
    BY <1>1, <2>1 DEF Inv, Budget, e
<1>11. OneProofPerEvent'
  BY <1>1 DEF Inv, OneProofPerEvent
<1>12. RetryBounded'
  <2> SUFFICES ASSUME NEW x \in Requests, events'[x] # None
               PROVE  /\ events'[x].retry <= MaxRetries + 1
                      /\ ~events'[x].processed => events'[x].retry <= MaxRetries
                      /\ events'[x].retry <= failures[x]
    BY <1>1 DEF RetryBounded
  <2> QED
    BY <1>3, <1>5 DEF Inv, RetryBounded
<1>13. ClosedForCause'
  BY <1>1, <1>3, <1>5 DEF Inv, ClosedForCause, Closed
<1>14. Signing'
  <2> SUFFICES ASSUME NEW x \in Requests
               PROVE  proofs[x] + Taken(x)' + Count(queue["proof.results"], x) <= signed[x]
    BY <1>1 DEF Signing
  <2>1. /\ proofs[x] + Taken(x) + Count(queue["proof.results"], x) <= signed[x]
        /\ Taken(x)' = 0 /\ Taken(x) = 0
    BY <1>1, <1>2 DEF Inv, Signing, Taken
  <2> QED
    BY <2>1
<1> QED
  BY <1>6, <1>7, <1>8, <1>9, <1>10, <1>11, <1>12, <1>13, <1>14 DEF Inv

-----------------------------------------------------------------------------
(***************************************************************************)
(* The failures consumer.                                                  *)
(***************************************************************************)

\* What the failures consumer has in hand.
LEMMA FailureTyped ==
  ASSUME TypeOK
  PROVE  /\ failer.at \in {"read", "write", "idle"}
         /\ failer.event \in EventIds
         /\ failer.row # None => failer.row \in Row /\ failer.row.retry \in Nat
         /\ failer = [at |-> failer.at, event |-> failer.event, row |-> failer.row]
<1>1. failer \in [at : {"read", "write"} \cup {"idle"}, event : EventIds, row : Row \cup {None}]
  BY DEF TypeOK, Consumer
<1> QED
  BY <1>1 DEF Row

\* A step that only moves the failures consumer.
LEMMA FailureMoves ==
  ASSUME Inv, up' = up, call' = call, channel' = channel, input' = input,
         reply' = reply, proofs' = proofs, identities' = identities, schemaRows' = schemaRows,
         events' = events, failures' = failures, queue' = queue, results' = results,
         signed' = signed, sent' = sent, faults' = faults, panics' = panics,
         failer' \in Consumer({"read", "write"}), Charging'
  PROVE  Inv'
<1>1. TypeInv'
  BY DEF Inv, TypeInv, TypeOK
<1>2. Filing' /\ Storing' /\ RetryBounded' /\ ClosedForCause' /\ OneProofPerEvent'
  BY DEF Inv, Filing, Storing, RetryBounded, ClosedForCause, OneProofPerEvent, Closed
<1>3. Budget' /\ Signing'
  BY DEF Inv, Budget, Pending, Closed, Signing, Taken
<1> QED
  BY <1>1, <1>2, <1>3 DEF Inv

\* The event is read if it is open.
LEMMA FailureReadKeeps ==
  ASSUME Inv, FailureRead
  PROVE  Inv'
<1> DEFINE e == failer.event
           row == GetEvent(e)
<1>1. /\ up' = up /\ call' = call /\ channel' = channel /\ input' = input
      /\ reply' = reply /\ proofs' = proofs /\ queue' = queue /\ events' = events
      /\ identities' = identities /\ schemaRows' = schemaRows
      /\ failures' = failures /\ results' = results /\ signed' = signed /\ sent' = sent
      /\ faults' = faults /\ panics' = panics /\ failer.at = "read"
  BY DEF FailureRead, requestVars, tables, outside, bad
<1>2. CASE row = None
  <2>1. failer' = Idle
    BY <1>2 DEF FailureRead
  <2>2. failer' \in Consumer({"read", "write"})
    BY <2>1 DEF Consumer, Idle, EventIds
  <2>3. Charging'
    BY <2>1 DEF Charging, Idle
  <2> QED
    BY <1>1, <2>2, <2>3, FailureMoves
<1>3. CASE row # None
  <2>1. failer' = [failer EXCEPT !.at = "write", !.row = row]
    BY <1>3 DEF FailureRead
  <2>2. failer' = [at |-> "write", event |-> e, row |-> row]
    BY <2>1, FailureTyped DEF Inv, TypeInv
  <2>3. /\ e \in EventIds /\ e \in Requests /\ events[e] # None /\ row = events[e]
        /\ row \in Row /\ ~events[e].processed
    BY <1>3, FailureTyped, GetEventCases DEF Inv, TypeInv
  <2> HIDE DEF e, row
  <2>4. /\ failer'.at = "write" /\ failer'.event = e /\ failer'.row = row
        /\ failer' \in Consumer({"read", "write"})
    BY <2>2, <2>3 DEF Consumer
  <2>5. row.retry <= MaxRetries
    BY <2>3 DEF Inv, RetryBounded
  <2>6. failures[e] > 0 /\ events[e].retry < failures[e]
    BY <1>1, <2>3 DEF Inv, Charging, e
  <2>7. Charging'
    BY <1>1, <1>3, <2>3, <2>4, <2>5, <2>6 DEF Charging
  <2> QED
    BY <1>1, <2>4, <2>7, FailureMoves
<1> QED
  BY <1>2, <1>3

\* A failure is on file before it is charged.
LEMMA FailureSaveKeeps ==
  ASSUME Inv, FailureSave
  PROVE  Inv'
<1> DEFINE e == Head(queue["proof.failures"])
           h == Handled(queue, "proof.failures")
<1>1. /\ queue["proof.failures"] # << >>
      /\ failures' = [failures EXCEPT ![e] = @ + 1]
      /\ events' = events /\ identities' = identities /\ schemaRows' = schemaRows
      /\ proofs' = proofs
  BY DEF FailureSave
<1>2. /\ e \in EventIds /\ h \in [QueueNames -> Seq(Bodies)]
      /\ h["proof.results"] \in Seq(EventIds) /\ h["proof.failures"] \in Seq(EventIds)
      /\ h["proof.results"] = queue["proof.results"]
  <2>1. "proof.results" \in QueueNames \ {"proof.failures"}
    BY DEF QueueNames
  <2> QED
    BY <1>1, <2>1, DeliveryTyped DEF Inv
<1>3. /\ failures' \in [EventIds -> Nat] /\ failures'[e] = failures[e] + 1
      /\ \A x \in EventIds : x # e => failures'[x] = failures[x]
  <2>1. failures \in [EventIds -> Nat]
    BY DEF Inv, TypeInv, TypeOK
  <2> QED
    BY <1>1, <1>2, <2>1
<1>4. CASE e = ""
  <2>1. Panic(h) /\ UNCHANGED <<channel, input, reply, outside, faults>>
    BY <1>4 DEF FailureSave
  <2>2. /\ channel' = channel /\ input' = input /\ reply' = reply
        /\ signed' = signed /\ sent' = sent /\ faults' = faults /\ panics' = panics + 1
    BY <2>1 DEF Panic, outside
  <2>3. PICK i \in Delivered(h, "proof.results"), j \in Delivered(h, "proof.failures") :
          Dies(h, i, j)
    BY <2>1 DEF Panic
  <2> HIDE DEF e, h
  <2>4. faults' \in Nat /\ panics' \in Nat /\ faults' + panics' = faults + panics + 1
    <3>1. faults \in Nat /\ panics \in Nat
      BY DEF Inv, TypeInv, TypeOK
    <3> QED
      BY <2>2, <3>1
  <2>5. \A x \in Requests : Count(h["proof.results"], x) <= Count(queue["proof.results"], x)
    BY <1>2, CountType
  <2>6. \A x \in Requests : failures'[x] = failures[x]
    BY <1>3, <1>4, PipelineAssumption DEF EventIds
  <2> QED
    BY <1>1, <1>2, <1>3, <2>2, <2>3, <2>4, <2>5, <2>6, DiesKeeps
<1>5. CASE e # ""
  <2>1. failer' = [at |-> "read", event |-> e, row |-> None] /\ queue' = h
    BY <1>5 DEF FailureSave
  <2>2. /\ up' = up /\ call' = call /\ channel' = channel /\ input' = input
        /\ reply' = reply /\ results' = results /\ signed' = signed /\ sent' = sent
        /\ faults' = faults /\ panics' = panics
    BY <1>5 DEF FailureSave, requestVars, outside, bad
  <2>3. /\ failer'.at = "read" /\ failer'.event = e
        /\ failer' \in Consumer({"read", "write"})
    BY <1>2, <2>1 DEF Consumer
  <2> HIDE DEF e, h
  <2>4. TypeInv'
    BY <1>1, <1>2, <1>3, <2>1, <2>2, <2>3 DEF Inv, TypeInv, TypeOK
  <2>5. Filing' /\ Storing' /\ OneProofPerEvent'
    BY <1>1, <2>2 DEF Inv, Filing, Storing, OneProofPerEvent
  <2>6. Budget'
    BY <1>1, <2>2 DEF Inv, Budget, Pending, Closed
  <2>7. Signing'
    BY <1>1, <1>2, <2>1, <2>2 DEF Inv, Signing, Taken
  <2>8. ASSUME NEW x \in EventIds PROVE failures[x] <= failures'[x] /\ failures'[x] \in Nat
    <3>1. failures[x] \in Nat
      BY Numbers DEF Inv, TypeInv
    <3>2. failures'[x] = failures[x] + 1 \/ failures'[x] = failures[x]
      BY <1>3
    <3> QED
      BY <3>1, <3>2
  <2>9. RetryBounded'
    <3> SUFFICES ASSUME NEW x \in Requests, events[x] # None
                 PROVE  /\ events[x].retry <= MaxRetries + 1
                        /\ ~events[x].processed => events[x].retry <= MaxRetries
                        /\ events[x].retry <= failures'[x]
      BY <1>1 DEF RetryBounded
    <3>1. /\ events[x].retry <= MaxRetries + 1
          /\ ~events[x].processed => events[x].retry <= MaxRetries
          /\ events[x].retry <= failures[x]
      BY DEF Inv, RetryBounded
    <3>2. events[x].retry \in Nat /\ failures[x] \in Nat /\ x \in EventIds
      BY Numbers DEF Inv, TypeInv, EventIds
    <3>3. failures[x] <= failures'[x] /\ failures'[x] \in Nat
      BY <2>8, <3>2
    <3> QED
      BY <3>1, <3>2, <3>3
  <2>10. ClosedForCause'
    <3> SUFFICES ASSUME NEW x \in Requests, Closed(x)
                 PROVE  proofs[x] > 0 \/ failures'[x] > MaxRetries
      BY <1>1 DEF ClosedForCause, Closed
    <3>1. proofs[x] > 0 \/ failures[x] > MaxRetries
      BY DEF Inv, ClosedForCause
    <3>2. failures[x] \in Nat /\ x \in EventIds /\ MaxRetries \in Nat
      BY Numbers DEF Inv, TypeInv, EventIds
    <3>3. failures[x] <= failures'[x] /\ failures'[x] \in Nat
      BY <2>8, <3>2
    <3> QED
      BY <3>1, <3>2, <3>3
  <2>11. Charging'
    <3>1. failures[e] \in Nat
      BY <1>2, Numbers DEF Inv, TypeInv
    <3>2. failures'[e] > 0
      BY <1>3, <3>1
    <3>3. ASSUME e \in Requests, events[e] # None PROVE events[e].retry < failures'[e]
      <4>1. events[e].retry \in Nat /\ events[e].retry <= failures[e]
        BY <3>3, Numbers DEF Inv, TypeInv, RetryBounded
      <4> QED
        BY <1>3, <3>1, <4>1
    <3> QED
      BY <1>1, <2>3, <3>2, <3>3 DEF Charging
  <2> QED
    BY <2>4, <2>5, <2>6, <2>7, <2>9, <2>10, <2>11 DEF Inv
<1> QED
  BY <1>4, <1>5

\* The incremented count is written, and the event given up at the limit.
LEMMA FailureWriteKeeps ==
  ASSUME Inv, FailureWrite
  PROVE  Inv'
<1> DEFINE e == failer.event
           k == failer.row.retry
           over == (k >= MaxRetries)
<1>1. /\ up' = up /\ call' = call /\ channel' = channel /\ input' = input
      /\ reply' = reply /\ proofs' = proofs /\ queue' = queue
      /\ identities' = identities /\ schemaRows' = schemaRows
      /\ failures' = failures /\ results' = results /\ signed' = signed /\ sent' = sent
      /\ faults' = faults /\ panics' = panics /\ failer.at = "write" /\ failer' = Idle
  BY DEF FailureWrite, requestVars, outside, bad
<1>2. failer' \in Consumer({"read", "write"}) /\ Charging'
  BY <1>1 DEF Consumer, Idle, EventIds, Charging
<1>3. CASE GetEvent(e) = None
  <2>1. events' = events
    BY <1>3 DEF FailureWrite
  <2> QED
    BY <1>1, <1>2, <2>1, FailureMoves
<1>4. CASE GetEvent(e) # None
  <2>1. events' = [events EXCEPT ![e].retry = k + 1, ![e].processed = over]
    BY <1>4 DEF FailureWrite
  <2>2. /\ e \in EventIds /\ e \in Requests /\ events[e] # None /\ events[e] \in Row
        /\ ~events[e].processed /\ ~Closed(e)
    BY <1>4, FailureTyped, GetEventCases DEF Inv, TypeInv
  <2>3. /\ k = events[e].retry /\ k <= MaxRetries /\ events[e].retry < failures[e]
    BY <1>1, <2>2 DEF Inv, Charging
  <2>4. k \in Nat /\ MaxRetries \in Nat /\ failures[e] \in Nat
    BY <2>2, <2>3, Numbers DEF Inv, TypeInv
  <2>5. events \in [Requests -> Row \cup {None}]
    BY DEF Inv, TypeInv, TypeOK
  <2>6. over \in BOOLEAN /\ k + 1 \in Nat
    BY <2>4
  <2> HIDE DEF over, k
  <2> DEFINE row == [identity |-> events[e].identity, schema |-> events[e].schema,
                     retry |-> k + 1, processed |-> over]
  <2>7. events' = [events EXCEPT ![e] = row]
    <3>1. events' = [events EXCEPT ![e] = [events[e] EXCEPT !.retry = k + 1, !.processed = over]]
      BY <2>1
    <3>2. [events[e] EXCEPT !.retry = k + 1, !.processed = over] = row
      <4>1. ASSUME NEW y, y = [events[e] EXCEPT !.retry = k + 1, !.processed = over]
            PROVE  y = row
        BY <2>2, <4>1, RowCharged
      <4> QED
        BY <4>1
    <3> QED
      BY <3>1, <3>2
  <2>8. row \in Row
    BY <2>2, <2>6 DEF Row
  <2>9. row # None /\ row.retry = k + 1 /\ row.processed = over
    BY <2>8, PipelineAssumption
  <2> HIDE DEF row, e
  <2>10. /\ events' \in [Requests -> Row \cup {None}]
         /\ events'[e] = row /\ \A x \in Requests : x # e => events'[x] = events[x]
    BY <2>2, <2>5, <2>7, <2>8
  <2>11. /\ k + 1 <= MaxRetries + 1 /\ k + 1 <= failures[e]
         /\ ~over => k + 1 <= MaxRetries
         /\ over => failures[e] > MaxRetries
    BY <2>3, <2>4 DEF over
  <2>12. TypeInv'
    BY <1>1, <1>2, <2>10 DEF Inv, TypeInv, TypeOK
  <2>13. Filing'
    BY <1>1, <2>2, <2>10 DEF Inv, Filing
  <2>14. Storing'
    BY <1>1, <2>9, <2>10 DEF Inv, Storing
  <2>15. Budget' /\ OneProofPerEvent'
    <3>1. ASSUME NEW x \in Requests PROVE Closed(x) => Closed(x)'
      BY <2>2, <2>10 DEF Closed
    <3> QED
      BY <1>1, <3>1 DEF Inv, Budget, Pending, OneProofPerEvent
  <2>16. Signing'
    BY <1>1, SigningStays
  <2>17. RetryBounded'
    <3> SUFFICES ASSUME NEW x \in Requests, events'[x] # None
                 PROVE  /\ events'[x].retry <= MaxRetries + 1
                        /\ ~events'[x].processed => events'[x].retry <= MaxRetries
                        /\ events'[x].retry <= failures[x]
      BY <1>1 DEF RetryBounded
    <3>1. CASE x = e
      BY <2>9, <2>10, <2>11, <3>1
    <3>2. CASE x # e
      BY <2>10, <3>2 DEF Inv, RetryBounded
    <3> QED
      BY <3>1, <3>2
  <2>18. ClosedForCause'
    <3> SUFFICES ASSUME NEW x \in Requests, Closed(x)'
                 PROVE  proofs[x] > 0 \/ failures[x] > MaxRetries
      BY <1>1 DEF ClosedForCause
    <3>1. CASE x = e
      BY <2>9, <2>10, <2>11, <3>1 DEF Closed
    <3>2. CASE x # e
      BY <2>10, <3>2 DEF Inv, ClosedForCause, Closed
    <3> QED
      BY <3>1, <3>2
  <2> QED
    BY <1>2, <2>12, <2>13, <2>14, <2>15, <2>16, <2>17, <2>18 DEF Inv
<1> QED
  BY <1>3, <1>4

-----------------------------------------------------------------------------
(***************************************************************************)
(* The theorems.                                                           *)
(***************************************************************************)

\* Every step of the system keeps the invariant.
LEMMA InvStep == Inv /\ [Next]_vars => Inv'
<1> SUFFICES ASSUME Inv, [Next]_vars PROVE Inv'
  OBVIOUS
<1>1. CASE UNCHANGED vars
  <2>1. /\ up' = up /\ call' = call /\ channel' = channel /\ input' = input
        /\ reply' = reply /\ proofs' = proofs /\ queue' = queue /\ events' = events
        /\ identities' = identities /\ schemaRows' = schemaRows
        /\ failures' = failures /\ results' = results /\ signed' = signed /\ sent' = sent
        /\ faults' = faults /\ panics' = panics /\ failer' = failer
    BY <1>1 DEF vars, requestVars, tables, consumers, outside, bad
  <2>2. failer' \in Consumer({"read", "write"}) /\ Charging'
    BY <2>1 DEF Inv, TypeInv, TypeOK, Charging
  <2> QED
    BY <2>1, <2>2, FailureMoves
<1>2. CASE \E u \in Uuids : CreateIdentity(u)
  BY <1>2, CreateIdentityKeeps
<1>3. ASSUME NEW r \in Requests,
             QueueVerification(r) \/ RequestStep(r) \/ NewEventFails(r)
      PROVE  Inv'
  BY <1>3, QueueVerificationKeeps, NewEventKeeps, PublishRequestKeeps, NewEventFailsKeeps
     DEF RequestStep
<1>4. CASE \E m \in Bodies, key \in {"positive", "negative"} : VerifierSends(m, key)
  BY <1>4, VerifierSendsKeeps
<1>5. CASE PositiveStep \/ NegativeHandled
  BY <1>5, PositiveSignedKeeps, FailureReported DEF PositiveStep
<1>6. CASE ResultStep \/ ResultFault
  BY <1>6, ResultGetEventKeeps, ResultGetIdentityKeeps, ResultSchemaKeeps, ResultSaveKeeps,
     ResultMarkKeeps, FaultKeeps DEF ResultStep
<1>7. CASE FailureStep \/ FailureFault
  BY <1>7, FailureSaveKeeps, FailureReadKeeps, FailureWriteKeeps, FaultKeeps DEF FailureStep
<1>8. CASE ChannelCloses \/ Killed \/ Restart
  BY <1>8, ChannelKeeps, KilledKeeps
<1> QED
  BY <1>1, <1>2, <1>3, <1>4, <1>5, <1>6, <1>7, <1>8 DEF Next

\* The invariant holds in every state.
LEMMA Invariance == Spec => []Inv
BY InvInit, InvStep, PTL DEF Spec

\* Every variable keeps its type, and only ids of events, never a body that does
\* not unmarshal, reach the API's two queues.
THEOREM PipelineTypeCorrect == Spec => [](TypeOK /\ TypeInv)
<1>1. Inv => TypeOK /\ TypeInv
  BY DEF Inv, TypeInv
<1> QED
  BY <1>1, Invariance, PTL

\* UpdateRetryValue never lets a waiting event run past MaxRetries, for any
\* limit, and every charge has a row in zkp_proof_failures.
THEOREM RetriesBounded == Spec => []RetryBounded
<1>1. Inv => RetryBounded
  BY DEF Inv
<1> QED
  BY <1>1, Invariance, PTL

\* Whichever consumer closes an event has a proof row, or more failures than
\* MaxRetries, to show for it.
THEOREM EventsClosedForCause == Spec => []ClosedForCause
<1>1. Inv => ClosedForCause
  BY DEF Inv
<1> QED
  BY <1>1, Invariance, PTL

\* However often the verifier repeats itself and however often the API is
\* interrupted, an event has at most one proof row more than interruptions.
THEOREM OneProof == Spec => []OneProofPerEvent
<1>1. Inv => OneProofPerEvent
  BY DEF Inv
<1> QED
  BY <1>1, Invariance, PTL

\* No proof row is stored without a signature of its own: signatures are never
\* duplicated on the way from the worker to the table.
THEOREM StoredProofsSigned == Spec => []ProofsAreSigned
<1>1. ASSUME Inv PROVE ProofsAreSigned
  <2> SUFFICES ASSUME NEW e \in Requests PROVE proofs[e] <= signed[e]
    BY DEF ProofsAreSigned
  <2>1. /\ proofs[e] + Taken(e) + Count(queue["proof.results"], e) <= signed[e]
        /\ proofs[e] \in Nat /\ signed[e] \in Nat /\ Taken(e) \in Nat
        /\ Count(queue["proof.results"], e) \in Nat
    BY <1>1, Numbers, CountType DEF Inv, TypeInv, Signing, Taken
  <2> QED
    BY <2>1
<1> QED
  BY <1>1, Invariance, PTL

\* The two consumers' writes are scoped to open events: what was read while an
\* event was open changes nothing once it is closed.
THEOREM ClosedStaysClosed == Spec => ClosedIsFinal
<1>1. ASSUME Inv, [Next]_vars, NEW e \in Requests, Closed(e)
      PROVE  events'[e] = events[e]
  <2>1. /\ events \in [Requests -> Row \cup {None}] /\ call[e] \notin {"idle", "insert"}
        /\ GetEvent(e) = None
    BY <1>1 DEF Inv, TypeInv, TypeOK, Filing, Closed, GetEvent
  <2>2. CASE events' = events
    BY <2>2
  <2>3. CASE \E r \in Requests : NewEvent(r)
    <3>1. PICK r \in Requests : NewEvent(r)
      BY <2>3
    <3>2. call[r] = "insert"
      BY <3>1 DEF NewEvent
    <3>3. events' = [events EXCEPT ![r] = [identity |-> input[r].schema,
                                           schema |-> input[r].schema,
                                           retry |-> 0, processed |-> FALSE]]
      BY <3>1 DEF NewEvent
    <3>4. r # e
      BY <2>1, <3>2
    <3> QED
      BY <2>1, <3>3, <3>4
  <2>4. CASE ResultMark
    <3>1. CASE GetEvent(results.event) = None
      BY <2>4, <3>1 DEF ResultMark
    <3>2. CASE GetEvent(results.event) # None
      <4>1. results.event # e
        BY <2>1, <3>2
      <4>2. events' = [events EXCEPT ![results.event]
                                       = [events[results.event] EXCEPT !.processed = TRUE]]
        BY <2>4, <3>2 DEF ResultMark
      <4> QED
        BY <2>1, <4>1, <4>2
    <3> QED
      BY <3>1, <3>2
  <2>5. CASE FailureWrite
    <3>1. CASE GetEvent(failer.event) = None
      BY <2>5, <3>1 DEF FailureWrite
    <3>2. CASE GetEvent(failer.event) # None
      <4>1. failer.event # e
        BY <2>1, <3>2
      <4>2. events' = [events EXCEPT ![failer.event]
                         = [events[failer.event] EXCEPT
                              !.retry = failer.row.retry + 1,
                              !.processed = (failer.row.retry >= MaxRetries)]]
        BY <2>5, <3>2 DEF FailureWrite
      <4> QED
        BY <2>1, <4>1, <4>2
    <3> QED
      BY <3>1, <3>2
  <2> QED
    BY <1>1, <2>2, <2>3, <2>4, <2>5
       DEF Next, vars, CreateIdentity, QueueVerification, RequestStep, PublishRequest,
           NewEventFails, VerifierSends, PositiveStep, PositiveSigned, PositiveFailed,
           NegativeHandled, ResultStep, ResultGetEvent, ResultGetIdentity, ResultSchema,
           ResultSave, ResultFault, FailureStep, FailureSave, FailureRead, FailureFault,
           ChannelCloses, Killed, Restart, tables
<1>2. Inv /\ [Next]_vars => [\A e \in Requests : Closed(e) => events'[e] = events[e]]_vars
  BY <1>1
<1> QED
  BY <1>2, Invariance, PTL DEF Spec, ClosedIsFinal
=============================================================================
