--------------------------- MODULE LogAuditProofs ---------------------------
(***************************************************************************)
(* Theorems about the log audit, for all bounds, limits and ways in which  *)
(* messages share seconds.  A message is in the queue, in the hands of the *)
(* API or in the table, and the three are one sequence in the order of     *)
(* logging; a scan that has come to an offset has seen every row of its    *)
(* own second that does not have at least that many rows before it.        *)
(***************************************************************************)
EXTENDS LogAudit, SequenceTheorems, FiniteSetTheorems, TLAPS

-----------------------------------------------------------------------------
(***************************************************************************)
(* The inductive invariant.                                                *)
(***************************************************************************)
Messages == [n : Nat, source : {"default"}, level : Levels, persistent : {TRUE}]
RowSet == [n : Nat, level : Levels, service : {"api"}, second : Nat]
Readers ==
  [at : {"idle", "scanning", "read", "refused"}, filter : {"all"} \cup {ask.filter : ask \in Asks},
   limit : Int, offset : Int, start : SUBSET RowSet, seen : SUBSET RowSet, scans : 0 .. MaxScans]

\* Only the default logger has the sink, and what is on its way came from it.
Sinking == sinks \in [Services -> SUBSET {"default"}]
Carried ==
  /\ queue \in Seq(Messages) /\ buffer \in Seq(Messages) /\ rows \in Seq(RowSet)
  /\ calls \in 0 .. MaxCalls

\* The items of q are numbered upwards, and none has a number below its place.
Rising(q) ==
  \A i \in 1 .. Len(q) : q[i].n >= i /\ \A j \in 1 .. Len(q) : i < j => q[i].n < q[j].n
Earlier(P, Q) == \A p \in P, q \in Q : p.n < q.n
Past(P) == \A p \in P : p.n \in 1 .. calls

\* Table, hands and queue hold the messages in the order of logging.
InOrder ==
  /\ Rising(rows) /\ Rising(buffer) /\ Rising(queue)
  /\ Earlier(Range(rows), Range(buffer)) /\ Earlier(Range(rows), Range(queue))
  /\ Earlier(Range(buffer), Range(queue))
  /\ Past(Range(rows)) /\ Past(Range(buffer)) /\ Past(Range(queue))

\* r is the only row of its second; the rows of R before it, newest first.
Alone(r) == \A q \in Range(rows) : q.second = r.second => q = r
Ahead(R, r) == {q \in R : q.second > r.second}

\* A scan has seen what it has passed.
Passed(r) == r \in reader.seen \/ Cardinality(Ahead(Found(reader.filter), r)) >= reader.offset
Scanning ==
  /\ reader \in Readers /\ IsFiniteSet(Range(rows))
  /\ reader.start \subseteq Found(reader.filter)
  /\ reader.at = "scanning" =>
       /\ reader.offset \in Nat /\ (reader.limit <= 0 => reader.offset = 0)
       /\ \A r \in reader.start : Alone(r) => Passed(r)

AuditInv == Sinking /\ Carried /\ InOrder /\ LossExplained
ScanInv == Scanning /\ PagesCover

-----------------------------------------------------------------------------
(***************************************************************************)
(* Sequences.                                                              *)
(***************************************************************************)
\* What a sequence holds when an item is put at its end.
LEMMA RangeAppend ==
  ASSUME NEW S, NEW q \in Seq(S), NEW e \in S
  PROVE  Range(Append(q, e)) = Range(q) \cup {e}
  BY AppendProperties, LenProperties DEF Range

\* What it holds when the first is taken away.
LEMMA RangeTail ==
  ASSUME NEW S, NEW q \in Seq(S), q # <<>>
  PROVE  /\ Range(q) = Range(Tail(q)) \cup {Head(q)}
         /\ Head(q) = q[1] /\ 1 \in 1 .. Len(q)
         /\ Range(q) \subseteq S
<1>1. /\ Len(q) \in Nat \ {0} /\ DOMAIN q = 1 .. Len(q)
      /\ \A i \in 1 .. Len(q) : q[i] \in S
  BY EmptySeq, LenProperties, ElementOfSeq
<1>2. Head(q) = q[1]
  OBVIOUS
<1>3. /\ Tail(q) \in Seq(S) /\ Len(Tail(q)) = Len(q) - 1
      /\ \A i \in 1 .. Len(Tail(q)) : Tail(q)[i] = q[i + 1]
  BY HeadTailProperties
<1>4. DOMAIN Tail(q) = 1 .. Len(q) - 1
  BY <1>3, LenProperties
<1>5. ASSUME NEW i \in 1 .. Len(q)
      PROVE  q[i] \in Range(Tail(q)) \cup {Head(q)}
  <2>1. CASE i = 1
    BY <1>2, <2>1
  <2>2. CASE i # 1
    <3>1. i - 1 \in 1 .. Len(q) - 1 /\ (i - 1) + 1 = i
      BY <1>1, <2>2
    <3> QED BY <3>1, <1>3, <1>4 DEF Range
  <2> QED BY <2>1, <2>2
<1>6. ASSUME NEW i \in 1 .. Len(q) - 1
      PROVE  Tail(q)[i] \in Range(q)
  <2>1. i + 1 \in 1 .. Len(q)
    BY <1>1
  <2> QED BY <2>1, <1>1, <1>3 DEF Range
<1> QED BY <1>1, <1>2, <1>4, <1>5, <1>6 DEF Range

\* A later item may be put at the end.
LEMMA RisingAppend ==
  ASSUME NEW S, \A m \in S : m.n \in Nat, NEW q \in Seq(S), NEW e \in S,
         Rising(q), Earlier(Range(q), {e}), e.n >= 1
  PROVE  Rising(Append(q, e))
<1>1. /\ Len(q) \in Nat /\ DOMAIN q = 1 .. Len(q)
      /\ \A i \in 1 .. Len(q) : q[i] \in S
  BY LenProperties, ElementOfSeq
<1>2. /\ Len(Append(q, e)) = Len(q) + 1
      /\ \A i \in 1 .. Len(q) : Append(q, e)[i] = q[i]
      /\ Append(q, e)[Len(q) + 1] = e
  BY AppendProperties
<1>3. \A i \in 1 .. Len(q) : q[i].n < e.n
  BY <1>1 DEF Earlier, Range
<1>4. e.n >= Len(q) + 1
  <2>1. CASE Len(q) = 0
    BY <2>1
  <2>2. CASE Len(q) # 0
    <3>1. Len(q) \in 1 .. Len(q)
      BY <1>1, <2>2
    <3>2. q[Len(q)].n >= Len(q) /\ q[Len(q)].n < e.n
      BY <3>1, <1>3 DEF Rising
    <3>3. q[Len(q)].n \in Nat /\ e.n \in Nat
      BY <3>1, <1>1
    <3> QED BY <3>2, <3>3, <1>1
  <2> QED BY <2>1, <2>2
<1> DEFINE a == Append(q, e)
<1>5. ASSUME NEW i \in 1 .. Len(q) + 1
      PROVE  a[i].n >= i /\ \A j \in 1 .. Len(q) + 1 : i < j => a[i].n < a[j].n
  <2>1. CASE i = Len(q) + 1
    BY <2>1, <1>1, <1>2, <1>4
  <2>2. CASE i # Len(q) + 1
    <3>1. i \in 1 .. Len(q)
      BY <2>2, <1>1
    <3>2. a[i].n >= i
      BY <3>1, <1>2 DEF Rising
    <3>3. ASSUME NEW j \in 1 .. Len(q) + 1, i < j
          PROVE  a[i].n < a[j].n
      <4>1. CASE j = Len(q) + 1
        BY <4>1, <3>1, <1>2, <1>3
      <4>2. CASE j # Len(q) + 1
        <5>1. j \in 1 .. Len(q)
          BY <4>2, <1>1
        <5> QED BY <5>1, <3>1, <3>3, <1>2 DEF Rising
      <4> QED BY <4>1, <4>2
    <3> QED BY <3>2, <3>3
  <2> QED BY <2>1, <2>2
<1> QED BY <1>2, <1>5 DEF Rising

\* The first item may be taken away, and is before the others.
LEMMA RisingTail ==
  ASSUME NEW S, \A m \in S : m.n \in Nat, NEW q \in Seq(S), q # <<>>, Rising(q)
  PROVE  Rising(Tail(q)) /\ Earlier({Head(q)}, Range(Tail(q)))
<1>1. /\ Len(q) \in Nat \ {0} /\ \A i \in 1 .. Len(q) : q[i].n \in Nat
  BY EmptySeq, LenProperties, ElementOfSeq
<1>2. /\ Len(Tail(q)) = Len(q) - 1 /\ Tail(q) \in Seq(S)
      /\ \A i \in 1 .. Len(q) - 1 : Tail(q)[i] = q[i + 1]
  BY HeadTailProperties
<1>3. DOMAIN Tail(q) = 1 .. Len(q) - 1
  BY <1>2, LenProperties
<1>4. Head(q) = q[1]
  OBVIOUS
<1>5. \A i \in 1 .. Len(q) - 1 : i + 1 \in 1 .. Len(q) /\ 1 < i + 1
  BY <1>1
<1>6. Earlier({Head(q)}, Range(Tail(q)))
  <2>1. 1 \in 1 .. Len(q)
    BY <1>1
  <2>2. \A i \in 1 .. Len(q) - 1 : q[1].n < q[i + 1].n
    BY <2>1, <1>5 DEF Rising
  <2> QED BY <2>2, <1>2, <1>3, <1>4 DEF Earlier, Range
<1>7. ASSUME NEW i \in 1 .. Len(q) - 1
      PROVE  /\ q[i + 1].n >= i
             /\ \A j \in 1 .. Len(q) - 1 : i < j => q[i + 1].n < q[j + 1].n
  <2>1. q[i + 1].n >= i + 1 /\ q[i + 1].n \in Nat
    BY <1>1, <1>5 DEF Rising
  <2>2. q[i + 1].n >= i
    BY <2>1
  <2>3. ASSUME NEW j \in 1 .. Len(q) - 1, i < j
        PROVE  q[i + 1].n < q[j + 1].n
    <3>1. i + 1 < j + 1 /\ i + 1 \in 1 .. Len(q) /\ j + 1 \in 1 .. Len(q)
      BY <2>3, <1>5
    <3> QED BY <3>1 DEF Rising
  <2> QED BY <2>2, <2>3
<1>8. Rising(Tail(q))
  BY <1>2, <1>7 DEF Rising
<1> QED BY <1>6, <1>8
-----------------------------------------------------------------------------
(***************************************************************************)
(* Pages.                                                                  *)
(***************************************************************************)
\* The rows before r are finitely many, without r, and not fewer in a larger
\* table.
LEMMA AheadBounds ==
  ASSUME NEW R \in SUBSET RowSet, NEW r \in R, IsFiniteSet(R)
  PROVE  /\ Cardinality(R) \in Nat /\ Cardinality(Ahead(R, r)) \in Nat
         /\ Cardinality(Ahead(R, r)) < Cardinality(R)
         /\ \A Q \in SUBSET R : Cardinality(Ahead(Q, r)) <= Cardinality(Ahead(R, r))
<1>1. Ahead(R, r) \in SUBSET (R \ {r})
  BY DEF Ahead, RowSet
<1>2. IsFiniteSet(R \ {r}) /\ Cardinality(R \ {r}) = Cardinality(R) - 1
  BY FS_RemoveElement
<1>3. IsFiniteSet(Ahead(R, r)) /\ Cardinality(Ahead(R, r)) <= Cardinality(R \ {r})
  BY <1>1, <1>2, FS_Subset
<1>4. Cardinality(R) \in Nat /\ Cardinality(Ahead(R, r)) \in Nat
  BY <1>3, FS_CardinalityType
<1>5. ASSUME NEW Q \in SUBSET R
      PROVE  Cardinality(Ahead(Q, r)) <= Cardinality(Ahead(R, r))
  <2>1. Ahead(Q, r) \in SUBSET Ahead(R, r)
    BY DEF Ahead
  <2> QED BY <2>1, <1>3, FS_Subset
<1>6. Cardinality(Ahead(R, r)) < Cardinality(R)
  BY <1>2, <1>3, <1>4
<1> QED BY <1>4, <1>5, <1>6

\* A row alone in its second that is not before the offset is on the page at
\* the offset, or the page is full and the row is not before the next offset.
LEMMA PageReaches ==
  ASSUME NEW R \in SUBSET RowSet, IsFiniteSet(R), NEW r \in R,
         NEW limit \in Int, NEW offset \in Nat, limit # 0,
         \A q \in R : q.second = r.second => q = r,
         Cardinality(Ahead(R, r)) >= offset,
         NEW A \in Pages(R, limit, offset), r \notin A
  PROVE  limit > 0 /\ Cardinality(A) = limit /\ Cardinality(Ahead(R, r)) >= offset + limit
<1> DEFINE N == Cardinality(R)
           H == Ahead(R, r)
<1>1. /\ N \in Nat /\ Cardinality(H) \in Nat /\ Cardinality(H) < N
  BY AheadBounds
<1>2. /\ Least(offset, N) = offset /\ N - offset \in Nat /\ offset < N
  BY <1>1 DEF Least
<1>3. /\ A \in SUBSET R
      /\ Cardinality(A) = IF limit < 0 THEN N - offset ELSE Least(limit, N - offset)
  BY <1>2 DEF Pages
<1>4. PICK B \in SUBSET (R \ A) :
        /\ Cardinality(B) = offset
        /\ \A b \in B, a \in A : b.second >= a.second
        /\ \A a \in A \cup B, b \in R \ (A \cup B) : a.second >= b.second
  BY <1>2 DEF Pages
<1>5. IsFiniteSet(A) /\ IsFiniteSet(B) /\ IsFiniteSet(A \cup B) /\ IsFiniteSet(H)
  <2>1. A \in SUBSET R /\ B \in SUBSET R /\ A \cup B \in SUBSET R /\ H \in SUBSET R
    BY <1>3 DEF Ahead
  <2> QED BY <2>1, FS_Subset
<1>6. Cardinality(A) \in Nat /\ Cardinality(A \cup B) = Cardinality(A) + offset
  <2>1. A \cap B = {}
    OBVIOUS
  <2>2. Cardinality(A \cup B) = Cardinality(A) + Cardinality(B) - Cardinality(A \cap B)
    BY <1>5, FS_Union
  <2>3. Cardinality(A \cap B) = 0
    BY <2>1, FS_EmptySet
  <2>4. Cardinality(A) \in Nat
    BY <1>5, FS_CardinalityType
  <2> QED BY <2>2, <2>3, <2>4, <1>4
<1>7. r \notin B
  <2> SUFFICES ASSUME r \in B
               PROVE  FALSE
    OBVIOUS
  <2>1. \A q \in R \ B : ~(q.second > r.second)
    <3> SUFFICES ASSUME NEW q \in R \ B
                 PROVE  ~(q.second > r.second)
      OBVIOUS
    <3>1. r.second >= q.second
      BY <1>4
    <3>2. r.second \in Nat /\ q.second \in Nat
      BY DEF RowSet
    <3> QED BY <3>1, <3>2
  <2>2. H \in SUBSET (B \ {r})
    BY <2>1 DEF Ahead, RowSet
  <2>3. IsFiniteSet(B \ {r}) /\ Cardinality(B \ {r}) = offset - 1
    BY <1>4, <1>5, FS_RemoveElement
  <2>4. Cardinality(H) <= offset - 1
    BY <2>2, <2>3, FS_Subset
  <2> QED BY <2>4, <1>1
<1>8. A \cup B \in SUBSET H
  <2> SUFFICES ASSUME NEW a \in A \cup B
               PROVE  a \in H
    OBVIOUS
  <2>1. a \in R /\ a # r /\ a.second >= r.second
    BY <1>3, <1>4, <1>7
  <2>2. a.second # r.second
    BY <2>1
  <2>3. a.second \in Nat /\ r.second \in Nat
    BY <2>1 DEF RowSet
  <2>4. a.second > r.second
    BY <2>1, <2>2, <2>3
  <2> QED BY <2>1, <2>4 DEF Ahead
<1>9. Cardinality(A) + offset <= Cardinality(H)
  BY <1>5, <1>6, <1>8, FS_Subset
<1>10. Cardinality(A) # N - offset
  BY <1>1, <1>6, <1>9
<1>11. limit > 0 /\ Cardinality(A) = limit
  BY <1>2, <1>3, <1>10 DEF Least
<1> QED BY <1>9, <1>11, <1>1
-----------------------------------------------------------------------------
(***************************************************************************)
(* What a step does to the messages.                                       *)
(***************************************************************************)
\* The API ends with what it had taken.
Dropped ==
  /\ buffer' = <<>> /\ lost' = lost \cup Range(buffer)
  /\ UNCHANGED <<queue, calls, rows, sent>>

\* A message of the default logger gets the next number; it is accepted or dropped.
Logged(m) ==
  /\ m \in Messages /\ m.n = calls + 1 /\ calls < MaxCalls /\ calls' = calls + 1
  /\ \/ queue' = Append(queue, m) /\ sent' = sent \cup {m}
     \/ UNCHANGED <<queue, sent>>
  /\ UNCHANGED <<buffer, rows, lost>>

Taken ==
  /\ queue # <<>> /\ buffer' = Append(buffer, Head(queue)) /\ queue' = Tail(queue)
  /\ UNCHANGED <<calls, rows, sent, lost>>

Handled == buffer # <<>> /\ StoreLog /\ UNCHANGED <<queue, calls, sent>>

\* A step leaves the messages alone, or is one of these.
MessagesMove ==
  UNCHANGED audit \/ Dropped \/ Taken \/ Handled \/ \E m \in Messages : Logged(m)

\* Only the steps of a reader move the reader, and they move nothing else.
ReaderMoves ==
  \/ UNCHANGED reader
  \/ /\ UNCHANGED audit
     /\ (\E ask \in Asks : StartScan(ask.filter, ask.limit)) \/ ReadPage \/ EndScan

\* The end of a process.
LEMMA DieMoves ==
  ASSUME Sinking, NEW s \in Services, Die(s), UNCHANGED <<queue, calls, rows, sent>>
  PROVE  Sinking' /\ MessagesMove
<1>1. Sinking'
  BY DEF Die, Sinking
<1>2. CASE s = "api"
  BY <1>1, <1>2 DEF Die, Dropped, MessagesMove
<1>3. CASE s # "api"
  BY <1>1, <1>3 DEF Die, MessagesMove, audit
<1> QED BY <1>2, <1>3

\* The steps of starting and stopping a service.
LEMMA LifecycleMoves ==
  ASSUME Sinking, NEW s \in Services, Lifecycle(s)
  PROVE  Sinking' /\ MessagesMove /\ UNCHANGED reader
<1>1. CASE InitLogger(s)
  BY <1>1 DEF InitLogger, Sinking, MessagesMove
<1>2. CASE LoadConfig(s)
  BY <1>2 DEF LoadConfig, Sinking, MessagesMove
<1>3. CASE Dial(s)
  BY <1>3 DEF Dial, Sinking, MessagesMove
<1>4. CASE InitRegistries(s)
  <2>1. UNCHANGED <<queue, calls, rows, sent, reader>>
    BY <1>4 DEF InitRegistries
  <2>2. CASE Die(s)
    BY <2>1, <2>2, DieMoves
  <2>3. CASE UNCHANGED <<sinks, buffer, lost>>
    BY <2>1, <2>3 DEF Sinking, MessagesMove, audit
  <2> QED BY <1>4, <2>2, <2>3 DEF InitRegistries
<1>5. CASE AddSink(s)
  BY <1>5 DEF AddSink, Sinking, MessagesMove
<1>6. CASE AddWorkerServices(s)
  <2>1. UNCHANGED <<queue, calls, rows, sent, reader>>
    BY <1>6 DEF AddWorkerServices
  <2>2. CASE Die(s)
    BY <2>1, <2>2, DieMoves
  <2>3. CASE UNCHANGED <<sinks, buffer, lost>>
    BY <2>1, <2>3 DEF Sinking, MessagesMove, audit
  <2> QED BY <1>6, <2>2, <2>3 DEF AddWorkerServices
<1>7. CASE Start(s)
  BY <1>7 DEF Start, Sinking, MessagesMove
<1>8. CASE Signal(s)
  BY <1>8 DEF Signal, Sinking, MessagesMove
<1>9. CASE CloseConnection(s)
  BY <1>9 DEF CloseConnection, Sinking, MessagesMove
<1>10. CASE Exit(s)
  BY <1>10, DieMoves DEF Exit
<1>11. CASE Fatal(s)
  BY <1>11, DieMoves DEF Fatal
<1> QED BY <1>1, <1>2, <1>3, <1>4, <1>5, <1>6, <1>7, <1>8, <1>9, <1>10, <1>11 DEF Lifecycle

\* Every step keeps the sink at the default logger; the consumer's own logger
\* publishes nothing, and a restart of the broker loses no persistent message.
LEMMA StepKinds ==
  ASSUME Sinking, Carried, [Next]_vars
  PROVE  Sinking' /\ MessagesMove /\ ReaderMoves
<1>1. CASE UNCHANGED vars
  BY <1>1 DEF vars, Sinking, MessagesMove, ReaderMoves, audit
<1>2. ASSUME NEW s \in Services, Lifecycle(s)
      PROVE  Sinking' /\ MessagesMove /\ ReaderMoves
  BY <1>2, LifecycleMoves DEF ReaderMoves
<1>3. ASSUME NEW s \in Services, NEW level \in Levels, LogCall(s, level)
      PROVE  Sinking' /\ MessagesMove /\ ReaderMoves
  <2>1. /\ calls < MaxCalls /\ Publish(s, "default", level)
        /\ UNCHANGED <<sinks, buffer, rows, lost, reader>>
    BY <1>3 DEF LogCall, life
  <2> DEFINE m == Message("default", level)
  <2>2. m \in Messages /\ m.n = calls + 1
    BY DEF Messages, Message, Carried
  <2> HIDE DEF m
  <2>3. CASE UNCHANGED <<calls, queue, sent>>
    BY <2>1, <2>3 DEF Sinking, MessagesMove, ReaderMoves, audit
  <2>4. CASE /\ calls' = calls + 1
             /\ queue' = IF conn[s] THEN Append(queue, m) ELSE queue
             /\ sent' = IF conn[s] THEN sent \cup {m} ELSE sent
    <3>1. Logged(m)
      BY <2>1, <2>2, <2>4 DEF Logged
    <3> QED BY <2>1, <2>2, <3>1 DEF Sinking, MessagesMove, ReaderMoves
  <2> QED BY <2>1, <2>3, <2>4 DEF Publish, m
<1>4. CASE Deliver
  BY <1>4 DEF Deliver, life, Sinking, MessagesMove, Taken, ReaderMoves
<1>5. CASE HandleLog
  <2>1. UNCHANGED <<calls, queue, sent>>
    <3>1. "rabbitmq" \notin sinks["api"]
      BY DEF Sinking, Services
    <3> QED BY <1>5, <3>1 DEF HandleLog, Publish
  <2> QED BY <1>5, <2>1 DEF HandleLog, life, Sinking, MessagesMove, Handled, ReaderMoves
<1>6. CASE BrokerRestart
  <2>1. \A i \in 1 .. Len(queue) : queue[i] \in Messages
    BY ElementOfSeq DEF Carried
  <2>2. \A m \in Range(queue) : m.persistent
    BY <2>1, LenProperties DEF Range, Messages, Carried
  <2> QED BY <1>6, <2>2 DEF BrokerRestart, Sinking, MessagesMove, ReaderMoves, audit
<1>7. ASSUME NEW ask \in Asks, StartScan(ask.filter, ask.limit)
      PROVE  Sinking' /\ MessagesMove /\ ReaderMoves
  <2>1. UNCHANGED <<audit, sinks>>
    BY <1>7 DEF StartScan, life
  <2> QED BY <1>7, <2>1 DEF Sinking, MessagesMove, ReaderMoves
<1>8. CASE ReadPage
  <2>1. UNCHANGED <<audit, sinks>>
    BY <1>8 DEF ReadPage, life
  <2> QED BY <1>8, <2>1 DEF Sinking, MessagesMove, ReaderMoves
<1>9. CASE EndScan
  <2>1. UNCHANGED <<audit, sinks>>
    BY <1>9 DEF EndScan, life
  <2> QED BY <1>9, <2>1 DEF Sinking, MessagesMove, ReaderMoves
<1> QED BY <1>1, <1>2, <1>3, <1>4, <1>5, <1>6, <1>7, <1>8, <1>9 DEF Next
-----------------------------------------------------------------------------
(***************************************************************************)
(* The messages stay in order, and none is lost without a cause.           *)
(***************************************************************************)
\* Numbers and kinds of what is on its way.
LEMMA Kinds ==
  ASSUME Carried
  PROVE  /\ \A m \in Messages : m.n \in Nat
         /\ \A r \in RowSet : r.n \in Nat /\ r.second \in Nat
         /\ Range(queue) \subseteq Messages /\ Range(buffer) \subseteq Messages
         /\ Range(rows) \subseteq RowSet
         /\ calls \in Nat /\ MaxCalls \in Nat
<1>1. /\ \A m \in Messages : m.n \in Nat
      /\ \A r \in RowSet : r.n \in Nat /\ r.second \in Nat
  BY DEF Messages, RowSet
<1>2. /\ Range(queue) \subseteq Messages /\ Range(buffer) \subseteq Messages
      /\ Range(rows) \subseteq RowSet
  BY LenProperties, ElementOfSeq DEF Carried, Range
<1> QED BY <1>1, <1>2, BoundsAssumption DEF Carried

\* The numbers of the rows are those of the items of the table.
LEMMA StoredAre ==
  ASSUME Carried
  PROVE  Stored = {r.n : r \in Range(rows)}
  BY LenProperties DEF Stored, Range, Carried

\* The initial state.
LEMMA AuditInit ==
  ASSUME Init
  PROVE  AuditInv
<1>1. Range(<<>>) = {}
  BY DEF Range
<1>2. Sinking
  BY DEF Init, Sinking
<1>3. Carried
  BY EmptySeq, BoundsAssumption DEF Init, Carried
<1>4. InOrder
  BY <1>1 DEF Init, InOrder, Rising, Earlier, Past
<1>5. LossExplained
  BY DEF Init, LossExplained
<1> QED BY <1>2, <1>3, <1>4, <1>5 DEF AuditInv

\* When the API ends.
LEMMA DroppedKeeps ==
  ASSUME AuditInv, Dropped
  PROVE  (Carried /\ InOrder /\ LossExplained)'
<1> USE DEF AuditInv
<1>1. Carried'
  BY EmptySeq DEF Dropped, Carried
<1>2. Range(buffer') = {} /\ Len(buffer') = 0
  BY DEF Range, Dropped
<1>3. InOrder'
  BY <1>2 DEF InOrder, Rising, Earlier, Past, Dropped
<1>4. Stored' = Stored
  BY DEF Stored, Dropped
<1>5. Queued' \cup lost' = Queued \cup lost
  BY <1>2 DEF Queued, Dropped
<1>6. LossExplained'
  BY <1>4, <1>5 DEF LossExplained, Dropped
<1> QED BY <1>1, <1>3, <1>6

\* When a message is logged.
LEMMA LoggedKeeps ==
  ASSUME AuditInv, NEW m \in Messages, Logged(m)
  PROVE  (Carried /\ InOrder /\ LossExplained)'
<1> USE DEF AuditInv
<1>1. /\ calls' = calls + 1 /\ calls' \in 0 .. MaxCalls /\ m.n = calls'
      /\ calls \in Nat /\ UNCHANGED <<buffer, rows, lost>>
  BY BoundsAssumption DEF Logged, Carried
<1>2. \A P : Past(P) => Past(P)' /\ \A p \in P : p.n \in 1 .. calls'
  BY <1>1 DEF Past
<1>3. /\ Past(Range(rows)) /\ Past(Range(buffer)) /\ Past(Range(queue))
  BY DEF InOrder
<1>4. Stored' = Stored
  BY <1>1 DEF Stored
<1>5. CASE queue' = Append(queue, m) /\ sent' = sent \cup {m}
  <2>1. Range(queue') = Range(queue) \cup {m}
    BY <1>5, RangeAppend DEF Carried
  <2>2. Carried'
    BY <1>1, <1>5, AppendProperties DEF Carried
  <2>3. \A P : Past(P) => Earlier(P, {m})
    BY <1>1 DEF Past, Earlier
  <2>4. m.n >= 1 /\ m.n \in 1 .. calls'
    BY <1>1
  <2>5. Rising(queue')
    BY <1>3, <1>5, <2>3, <2>4, Kinds, RisingAppend DEF Carried, InOrder
  <2>6. /\ Earlier(Range(rows), Range(queue')) /\ Earlier(Range(buffer), Range(queue'))
    BY <1>3, <2>1, <2>3 DEF Earlier, InOrder
  <2>7. \A p \in Range(rows) \cup Range(buffer) \cup Range(queue') : p.n \in 1 .. calls'
    BY <1>2, <1>3, <2>1, <2>4
  <2>8. InOrder'
    BY <1>1, <2>5, <2>6, <2>7 DEF InOrder, Earlier, Rising, Past
  <2>9. LossExplained'
    BY <1>1, <1>4, <1>5, <2>1 DEF LossExplained, Queued
  <2> QED BY <2>2, <2>8, <2>9
<1>6. CASE UNCHANGED <<queue, sent>>
  <2>1. Carried'
    BY <1>1, <1>6 DEF Carried
  <2>2. \A p \in Range(rows) \cup Range(buffer) \cup Range(queue) : p.n \in 1 .. calls'
    BY <1>2, <1>3
  <2>3. InOrder'
    BY <1>1, <1>6, <2>2 DEF InOrder, Earlier, Rising, Past
  <2>4. LossExplained'
    BY <1>1, <1>4, <1>6 DEF LossExplained, Queued
  <2> QED BY <2>1, <2>3, <2>4
<1> QED BY <1>5, <1>6 DEF Logged

\* When the API takes a message from the queue.
LEMMA TakenKeeps ==
  ASSUME AuditInv, Taken
  PROVE  (Carried /\ InOrder /\ LossExplained)'
<1> USE DEF AuditInv
<1> DEFINE m == Head(queue)
<1>1. /\ queue # <<>> /\ buffer' = Append(buffer, m) /\ queue' = Tail(queue)
      /\ UNCHANGED <<calls, rows, sent, lost>>
  BY DEF Taken
<1>2. /\ m \in Messages /\ queue' \in Seq(Messages) /\ buffer \in Seq(Messages)
      /\ queue \in Seq(Messages)
  BY <1>1, HeadTailProperties DEF Carried
<1>3. Range(queue) = Range(queue') \cup {m}
  BY <1>1, <1>2, RangeTail
<1> HIDE DEF m
<1>4. Range(buffer') = Range(buffer) \cup {m}
  BY <1>1, <1>2, RangeAppend
<1>5. Carried'
  BY <1>1, <1>2, AppendProperties DEF Carried
<1>6. Rising(queue') /\ Earlier({m}, Range(queue'))
  BY <1>1, <1>2, Kinds, RisingTail DEF InOrder, m
<1>7. Earlier(Range(buffer), {m}) /\ Earlier(Range(rows), {m}) /\ m.n \in 1 .. calls
  BY <1>3 DEF InOrder, Earlier, Past
<1>8. m.n >= 1
  BY <1>7, Kinds
<1>9. Rising(buffer')
  BY <1>1, <1>2, <1>7, <1>8, Kinds, RisingAppend DEF InOrder
<1>10. /\ Earlier(Range(rows), Range(buffer')) /\ Earlier(Range(rows), Range(queue'))
       /\ Earlier(Range(buffer'), Range(queue'))
  BY <1>3, <1>4, <1>6, <1>7 DEF InOrder, Earlier
<1>11. /\ Past(Range(rows)) /\ Past(Range(buffer')) /\ Past(Range(queue'))
  BY <1>3, <1>4, <1>7 DEF InOrder, Past
<1>12. InOrder'
  BY <1>1, <1>6, <1>9, <1>10, <1>11 DEF InOrder, Earlier, Rising, Past
<1>13. Queued' = Queued
  BY <1>3, <1>4 DEF Queued
<1>14. LossExplained'
  BY <1>1, <1>13 DEF LossExplained, Stored
<1> QED BY <1>5, <1>12, <1>14

\* When the API handles a message: it has a row, or is lost.
LEMMA HandledKeeps ==
  ASSUME AuditInv, Handled
  PROVE  (Carried /\ InOrder /\ LossExplained)'
<1> USE DEF AuditInv
<1> DEFINE m == Head(buffer)
<1>1. /\ buffer # <<>> /\ buffer' = Tail(buffer) /\ UNCHANGED <<queue, calls, sent>>
      /\ \/ rows' = Append(rows, Row(m)) /\ UNCHANGED lost
         \/ lost' = lost \cup {m} /\ UNCHANGED rows
  BY DEF Handled, StoreLog
<1>2. m \in Messages /\ buffer' \in Seq(Messages) /\ buffer \in Seq(Messages)
  BY <1>1, HeadTailProperties DEF Carried
<1>3. Range(buffer) = Range(buffer') \cup {m}
  BY <1>1, <1>2, RangeTail
<1>4. Rising(buffer') /\ Earlier({m}, Range(buffer'))
  BY <1>1, <1>2, Kinds, RisingTail DEF InOrder
<1> HIDE DEF m
<1>5. /\ Earlier(Range(rows), {m}) /\ Earlier({m}, Range(queue)) /\ m.n \in 1 .. calls
      /\ Earlier(Range(rows), Range(buffer')) /\ Earlier(Range(buffer'), Range(queue))
      /\ Past(Range(buffer'))
  BY <1>3 DEF InOrder, Earlier, Past
<1>6. CASE lost' = lost \cup {m} /\ UNCHANGED rows
  <2>1. Carried'
    BY <1>1, <1>2, <1>6 DEF Carried
  <2>2. InOrder'
    BY <1>1, <1>4, <1>5, <1>6 DEF InOrder, Earlier, Rising, Past
  <2>3. Queued' \cup lost' = Queued \cup lost \cup {m}
    BY <1>1, <1>3, <1>6 DEF Queued
  <2>4. LossExplained'
    BY <1>1, <1>6, <2>3 DEF LossExplained, Stored
  <2> QED BY <2>1, <2>2, <2>4
<1>7. CASE rows' = Append(rows, Row(m)) /\ UNCHANGED lost
  <2> DEFINE r == Row(m)
  <2>1. m.n \in 1 .. MaxCalls
    BY <1>5, BoundsAssumption DEF Carried
  <2>2. r \in RowSet /\ r.n = m.n
    BY <1>2, <2>1, SecondsAssumption DEF Row, RowSet, Messages
  <2>3. rows' = Append(rows, r)
    BY <1>7
  <2> HIDE DEF r
  <2>4. Carried'
    BY <1>1, <1>2, <2>2, <2>3, AppendProperties DEF Carried
  <2>5. Range(rows') = Range(rows) \cup {r}
    BY <2>2, <2>3, RangeAppend DEF Carried
  <2>6. Earlier(Range(rows), {r}) /\ r.n >= 1
    BY <1>5, <2>2, Kinds DEF Earlier
  <2>7. Rising(rows')
    BY <2>2, <2>3, <2>6, Kinds, RisingAppend DEF Carried, InOrder
  <2>8. /\ Earlier(Range(rows'), Range(buffer')) /\ Earlier(Range(rows'), Range(queue))
        /\ Past(Range(rows'))
    BY <1>4, <1>5, <2>2, <2>5 DEF InOrder, Earlier, Past
  <2>9. InOrder'
    BY <1>1, <1>4, <1>5, <2>7, <2>8 DEF InOrder, Earlier, Rising, Past
  <2>10. Stored = {q.n : q \in Range(rows)} /\ Stored' = {q.n : q \in Range(rows')}
    BY <2>4, StoredAre, LenProperties DEF Stored, Range, Carried
  <2>11. Stored' = Stored \cup {m.n}
    BY <2>2, <2>5, <2>10
  <2>12. Queued \cup lost = Queued' \cup lost' \cup {m}
    BY <1>1, <1>3, <1>7 DEF Queued
  <2>13. LossExplained'
    BY <1>1, <2>11, <2>12 DEF LossExplained
  <2> QED BY <2>4, <2>9, <2>13
<1> QED BY <1>1, <1>6, <1>7

\* Every step keeps the invariant.
LEMMA AuditStep ==
  ASSUME AuditInv, [Next]_vars
  PROVE  AuditInv'
<1>1. Sinking' /\ MessagesMove
  BY StepKinds DEF AuditInv
<1>2. CASE UNCHANGED audit
  BY <1>1, <1>2 DEF AuditInv, audit, Carried, InOrder, Earlier, Rising, Past, LossExplained, Queued, Stored
<1> QED BY <1>1, <1>2, DroppedKeeps, TakenKeeps, HandledKeeps, LoggedKeeps DEF MessagesMove, AuditInv

\* Spec => []AuditInv, from which the theorems on the messages follow.
LEMMA AuditHolds == Spec => []AuditInv
  BY AuditInit, AuditStep, PTL DEF Spec

\* A message has at most one row, and none while it is on its way: for every
\* number of messages, starts and restarts, the table is written in the order
\* of logging, ahead of what the API holds and the queue.
THEOREM RowsUnique == Spec => []AuditedOnce
<1>1. ASSUME AuditInv
      PROVE  AuditedOnce
  <2>1. IsInjective([i \in 1 .. Len(rows) |-> rows[i].n])
    <3> DEFINE f == [i \in 1 .. Len(rows) |-> rows[i].n]
    <3>1. Len(rows) \in Nat /\ \A i \in 1 .. Len(rows) : rows[i].n \in Nat
      BY <1>1, Kinds, LenProperties, ElementOfSeq DEF AuditInv, Carried
    <3>2. ASSUME NEW i \in 1 .. Len(rows), NEW j \in 1 .. Len(rows), rows[i].n = rows[j].n
          PROVE  i = j
      <4>1. ~(i < j) /\ ~(j < i)
        BY <1>1, <3>1, <3>2 DEF AuditInv, InOrder, Rising
      <4> QED BY <4>1
    <3> QED BY <3>2 DEF IsInjective
  <2>2. ASSUME NEW m \in Queued
        PROVE  m.n \notin Stored
    <3>1. \A r \in Range(rows) : r.n < m.n /\ r.n \in Nat /\ m.n \in Nat
      BY <1>1, Kinds DEF AuditInv, InOrder, Earlier, Queued
    <3> QED BY <1>1, <3>1, StoredAre DEF AuditInv
  <2> QED BY <2>1, <2>2 DEF AuditedOnce
<1> QED BY <1>1, AuditHolds, PTL

\* A message the broker has accepted is on its way, has its row, or was lost
\* by a failed insert or the end of the API: never by a restart of the broker
\* or while the API is down.
THEOREM LossesHaveCause == Spec => []LossExplained
  BY AuditHolds, PTL DEF AuditInv

\* What is on its way to the table was written by a default logger: handling
\* it publishes nothing.
THEOREM LogsDoNotBreed == Spec => []LogsDoNotFeedThemselves
<1>1. ASSUME AuditInv
      PROVE  LogsDoNotFeedThemselves
  BY <1>1, Kinds DEF AuditInv, LogsDoNotFeedThemselves, Queued, Messages
<1> QED BY <1>1, AuditHolds, PTL
-----------------------------------------------------------------------------
(***************************************************************************)
(* Paging through the table while it grows.                                *)
(***************************************************************************)
\* The table only grows, and stays finite.
LEMMA RowsGrow ==
  ASSUME AuditInv, Scanning, [Next]_vars
  PROVE  /\ Range(rows) \subseteq Range(rows') /\ Range(rows') \subseteq RowSet
         /\ IsFiniteSet(Range(rows'))
<1>1. MessagesMove /\ AuditInv'
  BY StepKinds, AuditStep DEF AuditInv
<1>2. Range(rows') \subseteq RowSet
  <2>1. rows' \in Seq(RowSet)
    BY <1>1 DEF AuditInv, Carried
  <2> QED BY <2>1, LenProperties, ElementOfSeq DEF Range
<1>3. CASE UNCHANGED rows
  BY <1>2, <1>3 DEF Scanning
<1>4. CASE Handled /\ rows' = Append(rows, Row(Head(buffer)))
  <2> DEFINE r == Row(Head(buffer))
  <2>1. rows \in Seq(RowSet) /\ rows' \in Seq(RowSet)
    BY <1>1 DEF AuditInv, Carried
  <2>2. Len(rows') = Len(rows) + 1 /\ Len(rows) \in Nat /\ rows' = Append(rows, r)
    BY <1>4, <2>1, LenProperties
  <2>3. r \in RowSet
    <3>1. rows'[Len(rows) + 1] = r
      BY <2>1, <2>2
    <3>2. Len(rows) + 1 \in 1 .. Len(rows')
      BY <2>2
    <3> QED BY <2>1, <3>1, <3>2, ElementOfSeq
  <2> HIDE DEF r
  <2>4. Range(rows') = Range(rows) \cup {r}
    BY <2>1, <2>2, <2>3, RangeAppend
  <2> QED BY <1>2, <2>4, FS_AddElement DEF Scanning
<1> QED BY <1>1, <1>3, <1>4 DEF MessagesMove, audit, Dropped, Taken, Logged, Handled, StoreLog

\* A step that leaves the reader alone.
LEMMA ReaderWaits ==
  ASSUME AuditInv, ScanInv, [Next]_vars, UNCHANGED reader
  PROVE  ScanInv'
<1> USE DEF ScanInv
<1>1. /\ Range(rows) \subseteq Range(rows') /\ Range(rows') \subseteq RowSet
      /\ IsFiniteSet(Range(rows'))
  BY RowsGrow
<1> DEFINE R == Found(reader.filter)
<1>2. R \subseteq Found(reader.filter)' /\ Found(reader.filter)' \subseteq Range(rows')
  BY <1>1 DEF Found
<1>3. PICK Q : Q = Found(reader.filter)'
  OBVIOUS
<1>4. Q \in SUBSET RowSet /\ IsFiniteSet(Q) /\ R \in SUBSET Q
  BY <1>1, <1>2, <1>3, FS_Subset
<1>5. \A r \in reader.start : Alone(r)' => Alone(r)
  BY <1>1 DEF Alone
<1>6. ASSUME reader.at = "scanning", NEW r \in reader.start, Alone(r)'
      PROVE  Passed(r)'
  <2>1. Passed(r)
    BY <1>5, <1>6 DEF Scanning
  <2>2. CASE r \in reader.seen
    BY <2>2 DEF Passed
  <2>3. CASE Cardinality(Ahead(R, r)) >= reader.offset
    <3>1. r \in R /\ r \in Q
      BY <1>4 DEF Scanning
    <3>2. IsFiniteSet(R) /\ R \in SUBSET RowSet
      BY <1>4, FS_Subset
    <3>3. Cardinality(Ahead(R, r)) <= Cardinality(Ahead(Q, r)) /\ Cardinality(Ahead(Q, r)) \in Nat
      BY <1>4, <3>1, AheadBounds
    <3>4. Cardinality(Ahead(R, r)) \in Nat /\ reader.offset \in Nat
      BY <1>6, <3>1, <3>2, AheadBounds DEF Scanning
    <3>5. Cardinality(Ahead(Q, r)) >= reader.offset
      BY <2>3, <3>3, <3>4
    <3>6. Cardinality(Ahead(Found(reader.filter)', r)) >= reader'.offset
      BY <1>3, <3>5
    <3> QED BY <3>6 DEF Passed, Ahead
  <2> QED BY <2>1, <2>2, <2>3 DEF Passed
<1>7. Scanning'
  BY <1>1, <1>2, <1>6 DEF Scanning
<1>8. PagesCover'
  BY <1>5 DEF PagesCover, Alone
<1> QED BY <1>7, <1>8

\* The start of a scan: nothing is before the first offset.
LEMMA StartScanKeeps ==
  ASSUME AuditInv, ScanInv, NEW ask \in Asks, StartScan(ask.filter, ask.limit), UNCHANGED audit
  PROVE  ScanInv'
<1>1. rows' = rows /\ \A f : Found(f)' = Found(f)
  BY DEF audit, Found
<1>2. /\ reader' = [at |-> IF ask.limit > MaxLimit THEN "refused" ELSE "scanning",
                    filter |-> ask.filter, limit |-> ask.limit, offset |-> 0,
                    start |-> Found(ask.filter), seen |-> {}, scans |-> reader.scans + 1]
      /\ reader.scans < MaxScans
  BY DEF StartScan
<1>3. ask.limit \in Int /\ ask.filter \in {x.filter : x \in Asks}
  BY AsksAssumption
<1>4. reader.scans + 1 \in 0 .. MaxScans
  BY <1>2, BoundsAssumption DEF ScanInv, Scanning, Readers
<1>5. Found(ask.filter) \in SUBSET RowSet /\ IsFiniteSet(Found(ask.filter))
  <2>1. Found(ask.filter) \in SUBSET Range(rows)
    BY DEF Found
  <2>2. Range(rows) \subseteq RowSet
    BY Kinds DEF AuditInv
  <2> QED BY <2>1, <2>2, FS_Subset DEF ScanInv, Scanning
<1>6. reader' \in Readers
  BY <1>2, <1>3, <1>4, <1>5 DEF Readers
<1>7. /\ reader'.at \in {"refused", "scanning"} /\ reader'.offset = 0
      /\ reader'.filter = ask.filter /\ reader'.start = Found(ask.filter)
  BY <1>2
<1>8. ASSUME NEW r \in reader'.start
      PROVE  Passed(r)'
  <2>1. Cardinality(Ahead(Found(ask.filter), r)) \in Nat
    BY <1>5, <1>7, AheadBounds
  <2>2. Cardinality(Ahead(Found(ask.filter), r)) >= 0
    BY <2>1
  <2> QED BY <1>1, <1>7, <2>2 DEF Passed, Ahead
<1>9. Scanning'
  BY <1>1, <1>6, <1>7, <1>8 DEF ScanInv, Scanning
<1>10. PagesCover'
  BY <1>7 DEF PagesCover
<1> QED BY <1>9, <1>10 DEF ScanInv

\* A page: it has what the offset passes, and all the rest if it is the last.
LEMMA ReadPageKeeps ==
  ASSUME AuditInv, ScanInv, ReadPage, UNCHANGED audit
  PROVE  ScanInv'
<1>1. rows' = rows /\ \A f : Found(f)' = Found(f)
  BY DEF audit, Found
<1>2. reader \in Readers /\ reader.at = "scanning"
  BY DEF ScanInv, Scanning, ReadPage
<1>3. CASE reader' = [reader EXCEPT !.at = "refused"]
  <2>1. /\ reader' \in Readers /\ reader'.at = "refused"
        /\ reader'.start = reader.start /\ reader'.filter = reader.filter
    BY <1>2, <1>3 DEF Readers
  <2>2. Scanning'
    BY <1>1, <2>1 DEF ScanInv, Scanning
  <2> QED BY <2>1, <2>2 DEF ScanInv, PagesCover
<1>4. ASSUME NEW A \in Pages(Found(reader.filter), reader.limit, reader.offset),
             reader' = [reader EXCEPT !.seen = @ \cup A, !.offset = @ + reader.limit,
                                      !.at = IF reader.limit <= 0 \/ Cardinality(A) < reader.limit
                                             THEN "read" ELSE "scanning"]
      PROVE  ScanInv'
  <2> DEFINE R == Found(reader.filter)
  <2>1. R \in SUBSET RowSet /\ IsFiniteSet(R)
    <3>1. R \in SUBSET Range(rows)
      BY DEF Found
    <3>2. Range(rows) \subseteq RowSet
      BY Kinds DEF AuditInv
    <3> QED BY <3>1, <3>2, FS_Subset DEF ScanInv, Scanning
  <2>2. A \in SUBSET RowSet
    BY <2>1 DEF Pages
  <2>3. /\ reader.limit \in Int /\ reader.offset \in Nat
        /\ reader.limit <= 0 => reader.offset = 0
    BY <1>2 DEF ScanInv, Scanning, Readers
  <2>4. reader.offset + reader.limit \in Int
    BY <2>3
  <2>5. /\ reader' \in Readers /\ reader'.limit = reader.limit
        /\ reader'.filter = reader.filter /\ reader'.start = reader.start
        /\ reader'.seen = reader.seen \cup A /\ reader'.offset = reader.offset + reader.limit
        /\ reader'.at = IF reader.limit <= 0 \/ Cardinality(A) < reader.limit
                        THEN "read" ELSE "scanning"
    BY <1>2, <1>4, <2>2, <2>4 DEF Readers
  <2>6. ASSUME NEW r \in reader.start, Alone(r), reader.limit # 0, r \notin reader'.seen
        PROVE  /\ reader'.at = "scanning"
               /\ Cardinality(Ahead(R, r)) >= reader'.offset
    <3>1. r \in R /\ r \notin A /\ r \notin reader.seen
      BY <2>5, <2>6 DEF ScanInv, Scanning
    <3>2. \A q \in R : q.second = r.second => q = r
      BY <2>6 DEF Alone, Found
    <3>3. Cardinality(Ahead(R, r)) >= reader.offset
      BY <1>2, <2>6, <3>1 DEF ScanInv, Scanning, Passed
    <3>4. /\ reader.limit > 0 /\ Cardinality(A) = reader.limit
          /\ Cardinality(Ahead(R, r)) >= reader.offset + reader.limit
      BY <2>1, <2>3, <2>6, <3>1, <3>2, <3>3, PageReaches
    <3> QED BY <2>3, <2>5, <3>4
  <2>7. reader'.at = "scanning" => reader.limit > 0
    BY <2>3, <2>5
  <2>8. reader'.at = "scanning" =>
          reader'.offset \in Nat /\ (reader'.limit <= 0 => reader'.offset = 0)
    BY <2>3, <2>5, <2>7
  <2>9. ASSUME reader'.at = "scanning", NEW r \in reader'.start, Alone(r)'
        PROVE  Passed(r)'
    <3>1. r \in reader.start /\ Alone(r) /\ reader.limit # 0
      BY <1>1, <2>3, <2>5, <2>7, <2>9 DEF Alone
    <3>2. r \in reader'.seen \/ Cardinality(Ahead(R, r)) >= reader'.offset
      BY <2>6, <3>1
    <3> QED BY <1>1, <2>5, <3>2 DEF Passed, Ahead
  <2>10. Scanning'
    BY <1>1, <2>5, <2>8, <2>9 DEF ScanInv, Scanning
  <2>11. PagesCover'
    BY <1>1, <2>5, <2>6 DEF PagesCover, Alone
  <2> QED BY <2>10, <2>11 DEF ScanInv
<1> QED BY <1>3, <1>4 DEF ReadPage

\* The end of a scan.
LEMMA EndScanKeeps ==
  ASSUME AuditInv, ScanInv, EndScan, UNCHANGED audit
  PROVE  ScanInv'
<1>1. rows' = rows
  BY DEF audit
<1>2. /\ reader' \in Readers /\ reader'.at = "idle" /\ reader'.start = {}
  BY DEF EndScan, NoReader, Readers, ScanInv, Scanning
<1> QED BY <1>1, <1>2 DEF ScanInv, Scanning, PagesCover

\* The initial state, and every step.
LEMMA ScanInit ==
  ASSUME Init
  PROVE  ScanInv
<1>1. reader \in Readers /\ reader.at = "idle" /\ reader.start = {}
  BY BoundsAssumption DEF Init, NoReader, Readers
<1>2. IsFiniteSet(Range(rows))
  <2>1. Range(<<>>) = {}
    BY DEF Range
  <2> QED BY <2>1, FS_EmptySet DEF Init
<1> QED BY <1>1, <1>2 DEF ScanInv, Scanning, PagesCover

\* Every step keeps the invariant of the reader.
LEMMA ScanStep ==
  ASSUME AuditInv, ScanInv, [Next]_vars
  PROVE  ScanInv'
<1>1. ReaderMoves
  BY StepKinds DEF AuditInv
<1> QED BY <1>1, ReaderWaits, StartScanKeeps, ReadPageKeeps, EndScanKeeps DEF ReaderMoves

\* Reading page after page of any size, with any filter, while the table
\* grows, finds every row that was there at the start and shares its second
\* with no other.
THEOREM ScansCover == Spec => []PagesCover
<1>1. Init => AuditInv /\ ScanInv
  BY AuditInit, ScanInit
<1>2. (AuditInv /\ ScanInv) /\ [Next]_vars => (AuditInv /\ ScanInv)'
  BY AuditStep, ScanStep
<1>3. ScanInv => PagesCover
  BY DEF ScanInv
<1> QED BY <1>1, <1>2, <1>3, PTL DEF Spec
-----------------------------------------------------------------------------
(***************************************************************************)
(* The life of the services.                                               *)
(***************************************************************************)
\* A connection is open only between the dial and the shutdown.
Living ==
  /\ phase \in [Services -> Phases] /\ conn \in [Services -> BOOLEAN]
  /\ starts \in [Services -> Nat] /\ \A s \in Services : starts[s] \in 0 .. MaxStarts[s]
  /\ dials \in [Services -> 0 .. MaxRetries - 1]
  /\ \A s \in Services : conn[s] => phase[s] \notin {"down", "config", "dial", "closing"}
  /\ broker \in 0 .. MaxBroker

\* The initial state.
LEMMA LivingInit ==
  ASSUME Init
  PROVE  Living
<1>1. \A s \in Services : 0 \in 0 .. MaxStarts[s]
  BY BoundsAssumption
<1>2. 0 \in 0 .. MaxRetries - 1 /\ 0 \in 0 .. MaxBroker
  BY LimitsAssumption, BoundsAssumption
<1> QED BY <1>1, <1>2 DEF Init, Living, Phases

\* A step that moves one service: the phase it goes to and its connection.
LEMMA LivingMoves ==
  ASSUME Living, NEW s \in Services, NEW p \in Phases, Goto(s, p),
         UNCHANGED <<starts, dials, broker>>,
         \/ conn' = [conn EXCEPT ![s] = FALSE]
         \/ conn' = conn /\ ~conn[s]
         \/ conn' = conn /\ p \notin {"down", "config", "dial", "closing"}
  PROVE  Living'
<1>1. phase' = [phase EXCEPT ![s] = p]
  BY DEF Goto
<1>2. phase' \in [Services -> Phases] /\ conn' \in [Services -> BOOLEAN]
  BY <1>1 DEF Living
<1>3. \A t \in Services : conn'[t] => phase'[t] \notin {"down", "config", "dial", "closing"}
  BY <1>1 DEF Living
<1> QED BY <1>2, <1>3 DEF Living

\* Every step of a service.
LEMMA LivingLifecycle ==
  ASSUME Living, NEW s \in Services, Lifecycle(s)
  PROVE  Living'
<1>1. CASE InitLogger(s)
  <2>1. /\ phase[s] = "down" /\ starts[s] < MaxStarts[s] /\ Goto(s, "config")
        /\ starts' = [starts EXCEPT ![s] = @ + 1] /\ UNCHANGED <<dials, conn, broker>>
    BY <1>1 DEF InitLogger
  <2>2. starts[s] \in Nat /\ MaxStarts[s] \in Nat
    BY BoundsAssumption DEF Living
  <2>3. starts[s] + 1 \in Nat /\ starts[s] + 1 \in 0 .. MaxStarts[s]
    BY <2>1, <2>2
  <2>4. starts' \in [Services -> Nat] /\ \A t \in Services : starts'[t] \in 0 .. MaxStarts[t]
    BY <2>1, <2>3 DEF Living
  <2>5. phase' = [phase EXCEPT ![s] = "config"] /\ ~conn[s]
    BY <2>1 DEF Goto, Living
  <2>6. /\ phase' \in [Services -> Phases]
        /\ \A t \in Services : conn[t] => phase'[t] \notin {"down", "config", "dial", "closing"}
    BY <2>5 DEF Living, Phases
  <2> QED BY <2>1, <2>4, <2>6 DEF Living
<1>2. CASE LoadConfig(s)
  <2>1. ~conn[s] /\ UNCHANGED <<starts, dials, conn, broker>>
    BY <1>2 DEF LoadConfig, Living
  <2>2. "dial" \in Phases /\ "down" \in Phases
    BY DEF Phases
  <2> QED BY <1>2, <2>1, <2>2, LivingMoves DEF LoadConfig
<1>3. CASE Dial(s)
  <2>1. phase[s] = "dial" /\ ~conn[s] /\ UNCHANGED <<starts, broker>>
    BY <1>3 DEF Dial, Living
  <2>2. dials[s] \in Nat /\ MaxRetries \in Nat \ {0}
    BY LimitsAssumption DEF Living
  <2>3. 0 \in 0 .. MaxRetries - 1
    BY <2>2
  <2>4. CASE /\ conn' = [conn EXCEPT ![s] = TRUE] /\ dials' = [dials EXCEPT ![s] = 0]
             /\ Goto(s, "registries")
    BY <2>1, <2>3, <2>4 DEF Living, Goto, Phases
  <2>5. CASE /\ dials[s] + 1 < MaxRetries
             /\ dials' = [dials EXCEPT ![s] = @ + 1] /\ UNCHANGED <<conn, phase>>
    <3>1. dials[s] + 1 \in 0 .. MaxRetries - 1
      BY <2>2, <2>5
    <3> QED BY <2>1, <2>5, <3>1 DEF Living
  <2>6. CASE dials' = [dials EXCEPT ![s] = 0] /\ Goto(s, "down") /\ UNCHANGED conn
    BY <2>1, <2>3, <2>6 DEF Living, Goto, Phases
  <2> QED BY <1>3, <2>4, <2>5, <2>6 DEF Dial
<1>4. CASE Die(s) /\ UNCHANGED <<starts, dials, broker>>
  <2>1. "down" \in Phases
    BY DEF Phases
  <2> QED BY <1>4, <2>1, LivingMoves DEF Die
<1>5. CASE \E p \in {"sink", "workers", "start", "running", "draining"} :
             Goto(s, p) /\ UNCHANGED <<starts, dials, conn, broker>>
  <2>1. PICK p \in {"sink", "workers", "start", "running", "draining"} :
          Goto(s, p) /\ UNCHANGED <<starts, dials, conn, broker>>
    BY <1>5
  <2>2. p \in Phases /\ p \notin {"down", "config", "dial", "closing"}
    BY DEF Phases
  <2> QED BY <2>1, <2>2, LivingMoves
<1>6. CASE CloseConnection(s)
  <2>1. "closing" \in Phases
    BY DEF Phases
  <2> QED BY <1>6, <2>1, LivingMoves DEF CloseConnection
<1>7. CASE InitRegistries(s)
  BY <1>4, <1>5, <1>7 DEF InitRegistries
<1>8. CASE AddSink(s)
  BY <1>5, <1>8 DEF AddSink
<1>9. CASE AddWorkerServices(s)
  BY <1>4, <1>5, <1>9 DEF AddWorkerServices
<1>10. CASE Start(s)
  BY <1>5, <1>10 DEF Start
<1>11. CASE Signal(s)
  BY <1>5, <1>11 DEF Signal
<1>12. CASE Exit(s)
  BY <1>4, <1>12 DEF Exit
<1>13. CASE Fatal(s)
  BY <1>4, <1>13 DEF Fatal
<1> QED BY <1>1, <1>2, <1>3, <1>6, <1>7, <1>8, <1>9, <1>10, <1>11, <1>12, <1>13 DEF Lifecycle

\* Every step; the broker's restart closes the connections.
LEMMA LivingStep ==
  ASSUME Living, [Next]_vars
  PROVE  Living'
<1>1. CASE UNCHANGED <<life, broker>>
  BY <1>1 DEF life, Living
<1>2. CASE BrokerRestart
  <2>1. /\ broker' = broker + 1 /\ broker < MaxBroker
        /\ conn' = [s \in Services |-> FALSE] /\ UNCHANGED <<phase, starts, dials>>
    BY <1>2 DEF BrokerRestart
  <2>2. broker' \in 0 .. MaxBroker
    BY <2>1, BoundsAssumption DEF Living
  <2> QED BY <2>1, <2>2 DEF Living
<1>3. CASE Deliver \/ HandleLog \/ ReadPage \/ EndScan
  BY <1>1, <1>3 DEF Deliver, HandleLog, ReadPage, EndScan
<1>4. ASSUME NEW ask \in Asks, StartScan(ask.filter, ask.limit)
      PROVE  Living'
  BY <1>1, <1>4 DEF StartScan
<1>5. ASSUME NEW s \in Services, NEW level \in Levels, LogCall(s, level)
      PROVE  Living'
  BY <1>1, <1>5 DEF LogCall
<1>6. CASE UNCHANGED vars
  BY <1>1, <1>6 DEF vars, life
<1> QED BY <1>2, <1>3, <1>4, <1>5, <1>6, LivingLifecycle DEF Next

\* The variables keep their kinds, a connection is open only between the dial
\* and the shutdown, and the table has no more rows than messages were logged.
THEOREM AuditTypeCorrect == Spec => []TypeOK
<1>1. Init => Living /\ AuditInv /\ ScanInv
  BY LivingInit, AuditInit, ScanInit
<1>2. (Living /\ AuditInv /\ ScanInv) /\ [Next]_vars => (Living /\ AuditInv /\ ScanInv)'
  BY LivingStep, AuditStep, ScanStep
<1>3. ASSUME Living, AuditInv, ScanInv
      PROVE  TypeOK
  <2>1. Len(rows) \in Nat /\ calls \in Nat
    BY <1>3, Kinds, LenProperties DEF AuditInv, Carried
  <2>2. Len(rows) <= calls
    <3>1. CASE Len(rows) = 0
      BY <2>1, <3>1
    <3>2. CASE Len(rows) # 0
      <4>1. Len(rows) \in 1 .. Len(rows)
        BY <2>1, <3>2
      <4>2. rows[Len(rows)] \in Range(rows)
        BY <1>3, <4>1, LenProperties DEF AuditInv, Carried, Range
      <4>3. rows[Len(rows)].n >= Len(rows) /\ rows[Len(rows)].n \in 1 .. calls
        BY <1>3, <4>1, <4>2 DEF AuditInv, InOrder, Rising, Past
      <4> QED BY <2>1, <4>3
    <3> QED BY <3>1, <3>2
  <2>3. calls \in 0 .. MaxCalls /\ reader.offset \in Int
    BY <1>3 DEF AuditInv, Carried, ScanInv, Scanning, Readers
  <2> QED BY <1>3, <2>2, <2>3 DEF TypeOK, Living
<1> QED BY <1>1, <1>2, <1>3, PTL DEF Spec
=============================================================================
