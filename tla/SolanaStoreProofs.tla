-------------------------- MODULE SolanaStoreProofs --------------------------
(***************************************************************************)
(* Proofs about the storing of proofs on Solana, for any events, proof     *)
(* sizes and bounds, and any instruction the cluster can carry.  The       *)
(* inductive invariant follows a proof from the goroutine through its      *)
(* transaction into its account: Working says what the goroutine has       *)
(* computed, Sent what the transactions carry and what was published for   *)
(* them, Stored what the accounts hold, Reading what a reader may rely on. *)
(***************************************************************************)
EXTENDS SolanaStore, TLAPS

Computed == {"rent", "key", "blockhash", "sign", "simulate", "send"}
Outcomes == {"none", "result", "ERR_PROOF_GENERATION", "ERR_SOLANA"}

ReaderRecord ==
  [at : {"idle", "tx", "account", "answered"}, event : Events \cup {None}, size : Int,
   code : {0, 200, 400, 404, 422, 500}, excused : BOOLEAN]

TypeInv ==
  /\ waiting \subseteq Events
  /\ worker \in Events \cup {None}
  /\ storer \in [at : {"none", "serialize"} \cup Computed, event : Events \cup {None},
                 size : Sizes \cup {0}, space : Nat]
  /\ published \in [Events -> Outcomes]
  /\ inflight \subseteq [event : Events, size : Sizes, space : Nat]
  /\ landed \subseteq Events /\ expired \subseteq Events
  /\ account \in [Events -> [length : Nat \cup {-1}, event : Events \cup {None},
                             size : Sizes \cup {0}]]
  /\ logger \in {"idle", "blockhash", "simulate"} /\ logs \in 0 .. MaxLogs
  /\ reader \in ReaderRecord
  /\ reads \in 0 .. MaxReads

\* The goroutine works for the event its handler waits with, which has not been
\* answered, and from Serialize on it has the size and the space of its proof.
Working ==
  /\ storer.at = "none" => storer = NoStorer /\ worker = None
  /\ storer.at # "none" =>
       /\ storer.event \in Events /\ worker = storer.event
       /\ worker \notin waiting /\ published[worker] = "none"
  /\ storer.at \in Computed =>
       /\ storer.size \in Sizes
       /\ storer.space = CalculateRequiredAccountSpace(storer.size)

\* Nothing of an event that waits or is not answered is on its way; what is on its
\* way has the space its size asks for.
Sent ==
  /\ \A e \in waiting : published[e] = "none"
  /\ \A tx \in inflight :
       /\ tx.space = CalculateRequiredAccountSpace(tx.size)
       /\ published[tx.event] \in {"result", "ERR_SOLANA"}
  /\ \A e \in landed : published[e] \in {"result", "ERR_SOLANA"}
  /\ \A e \in Events :
       published[e] = "result" => e \in landed \cup expired \cup {tx.event : tx \in inflight}

\* The account of an event exists when its transaction has landed, and holds its proof.
Stored ==
  /\ payer = None
  /\ \A e \in Events \ landed : account[e] = NoAccount
  /\ \A e \in landed :
       /\ account[e].event = e /\ account[e].size \in Sizes
       /\ account[e].length = CalculateRequiredAccountSpace(account[e].size)

\* A reader asks for the account only after it has seen the transaction.
Reading ==
  /\ reader.at \in {"tx", "account"} => reader.event \in Events
  /\ reader.at = "account" => reader.event \in landed
  /\ reader.at = "answered" /\ reader.event # None /\ ~reader.excused =>
       /\ reader.event \in landed
       /\ reader.code = IF reader.size \in account[reader.event].size .. account[reader.event].length
                        THEN 200 ELSE 500

Inv == TypeInv /\ Working /\ Sent /\ Stored /\ Reading

-----------------------------------------------------------------------------
\* The space asked for is at least the size of the proof, for every size: no
\* branch of calculateRequiredAccountSpace and no rounding takes from it.
LEMMA SpaceCovers ==
  ASSUME NEW n \in Nat
  PROVE  CalculateRequiredAccountSpace(n) \in Nat /\ CalculateRequiredAccountSpace(n) >= n
<1> DEFINE b == Buffered(n)
<1>1. b \in Nat /\ b >= n
  BY DEF Buffered
<1>2. RoundUp8(b) \in Nat /\ RoundUp8(b) >= b
  <2> HIDE DEF b
  <2> QED BY <1>1 DEF RoundUp8
<1> QED
  BY <1>1, <1>2 DEF CalculateRequiredAccountSpace

\* The initial state.
LEMMA InvInit == Init => Inv
<1> SUFFICES ASSUME Init PROVE Inv
  OBVIOUS
<1> USE DEF Init, NoStorer, NoAccount, NoReader
<1>1. TypeInv
  BY BoundsAssumption DEF TypeInv, Outcomes, ReaderRecord
<1>2. Working /\ Sent /\ Stored /\ Reading
  BY DEF Working, Sent, Stored, Reading, Computed
<1> QED
  BY <1>1, <1>2 DEF Inv

-----------------------------------------------------------------------------
(***************************************************************************)
(* The worker's steps.                                                     *)
(***************************************************************************)

\* The chain and its readers are left alone by a step that neither sends nor
\* answers for an event that is on its way.
LEMMA ConsumeKeeps ==
  ASSUME Inv, NEW e \in Events, Consume(e)
  PROVE  Inv'
<1> USE NoneAssumption DEF chain, logging, reading
<1>1. /\ worker = None /\ storer = NoStorer /\ e \in waiting /\ waiting' = waiting \ {e}
      /\ UNCHANGED <<chain, logging, reading>>
  BY DEF Consume
<1>2. published[e] = "none" /\ e \notin landed /\ \A tx \in inflight : tx.event # e
  BY <1>1 DEF Inv, TypeInv, Sent
<1>3. CASE /\ published' = [published EXCEPT ![e] = "ERR_PROOF_GENERATION"]
           /\ UNCHANGED <<worker, storer>>
  <2>1. TypeInv'
    BY <1>1, <1>3 DEF Inv, TypeInv, Outcomes
  <2>2. Working'
    BY <1>1, <1>3 DEF Working, NoStorer, Computed
  <2>3. Sent'
    BY <1>1, <1>2, <1>3 DEF Inv, TypeInv, Sent
  <2>4. Stored' /\ Reading'
    BY <1>1 DEF Inv, Stored, Reading
  <2> QED
    BY <2>1, <2>2, <2>3, <2>4 DEF Inv
<1>4. CASE /\ worker' = e
           /\ storer' = [NoStorer EXCEPT !.at = "serialize", !.event = e]
           /\ UNCHANGED published
  <2>1. storer' = [at |-> "serialize", event |-> e, size |-> 0, space |-> 0]
    BY <1>4 DEF NoStorer
  <2>2. TypeInv'
    BY <1>1, <1>4, <2>1 DEF Inv, TypeInv
  <2>3. Working'
    BY <1>1, <1>2, <1>4, <2>1 DEF Working, Computed
  <2>4. Sent' /\ Stored' /\ Reading'
    BY <1>1, <1>4 DEF Inv, Sent, Stored, Reading
  <2> QED
    BY <2>2, <2>3, <2>4 DEF Inv
<1> QED
  BY <1>3, <1>4 DEF Consume

\* A step of the goroutine that only moves on to the next.
LEMMA StepKeeps ==
  ASSUME Inv, NEW at \in Computed, NEW next \in Computed, Step(at, next)
  PROVE  Inv'
<1> USE DEF Step, chain, logging, reading
<1>1. TypeInv'
  BY DEF Inv, TypeInv, Computed
<1>2. Working'
  BY DEF Inv, TypeInv, Working, NoStorer, Computed
<1>3. Sent' /\ Stored' /\ Reading'
  BY DEF Inv, Sent, Stored, Reading
<1> QED
  BY <1>1, <1>2, <1>3 DEF Inv

\* An error is published for an event that had no answer, and of which nothing
\* has been sent.
LEMMA SendErrorKeeps ==
  ASSUME Inv, NEW at \in {"serialize"} \cup Computed, SendError(at)
  PROVE  Inv'
<1> USE NoneAssumption DEF SendError, chain, logging, reading
<1>1. storer.event \in Events /\ published[storer.event] = "none" /\ storer.event \notin waiting
  BY DEF Inv, Working, Computed
<1>2. TypeInv'
  BY <1>1 DEF Inv, TypeInv, NoStorer, Outcomes
<1>3. Working'
  BY DEF Working, NoStorer, Computed
<1>4. Sent'
  BY <1>1 DEF Inv, TypeInv, Sent
<1>5. Stored' /\ Reading'
  BY DEF Inv, Stored, Reading
<1> QED
  BY <1>2, <1>3, <1>4, <1>5 DEF Inv

\* The size of the proof is known, and the space asked for it.
LEMMA SerializeKeeps ==
  ASSUME Inv, Serialize
  PROVE  Inv'
<1>1. CASE SendError("serialize")
  BY <1>1, SendErrorKeeps
<1>2. CASE /\ storer.at = "serialize"
           /\ \E size \in Sizes :
                storer' = [storer EXCEPT !.at = "rent", !.size = size,
                                         !.space = CalculateRequiredAccountSpace(size)]
           /\ UNCHANGED <<waiting, worker, published, chain, logging, reading>>
  <2>0. PICK size \in Sizes :
          storer' = [storer EXCEPT !.at = "rent", !.size = size,
                                   !.space = CalculateRequiredAccountSpace(size)]
    BY <1>2
  <2>1. storer' = [at |-> "rent", event |-> storer.event, size |-> size,
                   space |-> CalculateRequiredAccountSpace(size)]
    BY <2>0 DEF Inv, TypeInv
  <2>2. /\ storer.at = "serialize"
        /\ UNCHANGED <<waiting, worker, published, chain, logging, reading>>
        /\ CalculateRequiredAccountSpace(size) \in Nat
    BY <1>2, SpaceCovers, SizesAssumption
  <2> USE <2>1, <2>2 DEF chain, logging, reading
  <2>3. TypeInv'
    BY DEF Inv, TypeInv, Computed
  <2>4. Working'
    BY DEF Inv, TypeInv, Working, NoStorer, Computed
  <2>5. Sent' /\ Stored' /\ Reading'
    BY DEF Inv, Sent, Stored, Reading
  <2> QED
    BY <2>3, <2>4, <2>5 DEF Inv
<1> QED
  BY <1>1, <1>2 DEF Serialize

\* The transaction takes its size and space from the goroutine; with it, the event
\* is answered.
LEMMA SendTransactionKeeps ==
  ASSUME Inv, SendTransaction
  PROVE  Inv'
<1> USE NoneAssumption
<1>1. /\ storer.event \in Events /\ published[storer.event] = "none" /\ storer.event \notin waiting
      /\ storer.size \in Sizes /\ storer.space = CalculateRequiredAccountSpace(storer.size)
      /\ storer.space \in Nat
  BY DEF Inv, TypeInv, Working, Computed, SendTransaction
<1>2. PICK accepted, answered \in BOOLEAN :
        /\ answered => accepted
        /\ inflight' = IF accepted THEN inflight \cup {Transaction} ELSE inflight
        /\ published' = [published EXCEPT ![storer.event] =
                           IF answered THEN "result" ELSE "ERR_SOLANA"]
  BY DEF SendTransaction
<1>3. /\ storer' = NoStorer /\ worker' = None
      /\ UNCHANGED <<waiting, landed, expired, account, payer, logging, reading>>
  BY DEF SendTransaction
<1>4. TypeInv'
  BY <1>1, <1>2, <1>3 DEF Inv, TypeInv, NoStorer, Outcomes, Transaction, logging, reading
<1>5. Working'
  BY <1>3 DEF Working, NoStorer, Computed
<1>6. Sent'
  <2>1. \A e \in waiting' : published'[e] = "none"
    BY <1>1, <1>2, <1>3 DEF Inv, TypeInv, Sent
  <2>2. \A tx \in inflight' :
          /\ tx.space = CalculateRequiredAccountSpace(tx.size)
          /\ published'[tx.event] \in {"result", "ERR_SOLANA"}
    <3> SUFFICES ASSUME NEW tx \in inflight'
                 PROVE  /\ tx.space = CalculateRequiredAccountSpace(tx.size)
                        /\ published'[tx.event] \in {"result", "ERR_SOLANA"}
      OBVIOUS
    <3>1. CASE tx \in inflight
      BY <1>1, <1>2, <3>1 DEF Inv, TypeInv, Sent
    <3>2. CASE tx = Transaction
      BY <1>1, <1>2, <3>2 DEF Inv, TypeInv, Transaction
    <3> QED
      BY <1>2, <3>1, <3>2
  <2>3. \A e \in landed' : published'[e] \in {"result", "ERR_SOLANA"}
    BY <1>1, <1>2, <1>3 DEF Inv, TypeInv, Sent
  <2>4. \A e \in Events : published'[e] = "result" =>
          e \in landed' \cup expired' \cup {tx.event : tx \in inflight'}
    <3> SUFFICES ASSUME NEW e \in Events, published'[e] = "result"
                 PROVE  e \in landed \cup expired \cup {tx.event : tx \in inflight'}
      BY <1>3
    <3>1. CASE e = storer.event
      <4>1. Transaction \in inflight' /\ Transaction.event = e
        BY <1>1, <1>2, <3>1 DEF Inv, TypeInv, Transaction
      <4> QED
        BY <4>1
    <3>2. CASE e # storer.event
      BY <1>1, <1>2, <3>2 DEF Inv, TypeInv, Sent
    <3> QED
      BY <3>1, <3>2
  <2> QED
    BY <2>1, <2>2, <2>3, <2>4 DEF Sent
<1>7. Stored' /\ Reading'
  BY <1>3 DEF Inv, Stored, Reading, reading
<1> QED
  BY <1>4, <1>5, <1>6, <1>7 DEF Inv

-----------------------------------------------------------------------------
(***************************************************************************)
(* The cluster, the log sink, and the reader.                              *)
(***************************************************************************)

\* A transaction creates the account of its event, so that it can land once only.
LEMMA LandKeeps ==
  ASSUME Inv, NEW tx \in inflight, Land(tx)
  PROVE  Inv'
<1> DEFINE new == [length |-> tx.space, event |-> tx.event, size |-> tx.size]
<1>1. /\ tx.event \in Events /\ tx.size \in Sizes /\ tx.space \in Nat
      /\ tx.space = CalculateRequiredAccountSpace(tx.size)
      /\ published[tx.event] \in {"result", "ERR_SOLANA"}
  BY DEF Inv, TypeInv, Sent
<1>2. /\ account[tx.event].length = -1
      /\ inflight' = inflight \ {tx} /\ landed' = landed \cup {tx.event}
      /\ account' = [account EXCEPT ![tx.event] = new]
      /\ UNCHANGED <<waiting, worker, storer, published, expired, payer, logging, reading>>
  BY DEF Land, StoreSucceeds
<1>3. tx.event \notin landed
  <2>1. \A e \in landed : /\ account[e].length = CalculateRequiredAccountSpace(account[e].size)
                            /\ account[e].size \in Sizes
    BY DEF Inv, Stored
  <2>2. \A e \in landed : account[e].length \in Nat
    BY <2>1, SpaceCovers, SizesAssumption
  <2> QED
    BY <1>2, <2>2
<1>4. TypeInv'
  BY <1>1, <1>2 DEF Inv, TypeInv, logging, reading
<1>5. Working'
  BY <1>2 DEF Inv, Working
<1>6. Sent'
  <2>1. \A e \in Events : published[e] = "result" =>
          e \in landed' \cup expired \cup {t.event : t \in inflight'}
    BY <1>1, <1>2 DEF Inv, Sent
  <2> QED
    BY <1>1, <1>2, <2>1 DEF Inv, Sent
<1>7. Stored'
  BY <1>1, <1>2 DEF Inv, TypeInv, Stored
<1>8. Reading'
  BY <1>2, <1>3 DEF Inv, TypeInv, Reading, reading
<1> QED
  BY <1>4, <1>5, <1>6, <1>7, <1>8 DEF Inv

\* A transaction that expires takes nothing with it.
LEMMA ExpireKeeps ==
  ASSUME Inv, NEW tx \in inflight, Expire(tx)
  PROVE  Inv'
<1> USE DEF Expire, logging, reading
<1>1. TypeInv'
  BY DEF Inv, TypeInv
<1>2. Sent'
  BY DEF Inv, Sent
<1>3. Working' /\ Stored' /\ Reading'
  BY DEF Inv, Working, Stored, Reading
<1> QED
  BY <1>1, <1>2, <1>3 DEF Inv

\* The program refuses a log message, so the payer's account stays as it is.
LEMMA LogKeeps ==
  ASSUME Inv, TakeLog \/ LogBlockhash \/ LogSimulate
  PROVE  Inv'
<1>1. payer' = payer
  BY DEF TakeLog, LogBlockhash, LogStep, LogSimulate, chain, ProgramWrites, Deserializes,
         LogInstruction
<1>2. /\ UNCHANGED <<waiting, worker, storer, published, inflight, landed, expired, account, reading>>
      /\ logger' \in {"idle", "blockhash", "simulate"} /\ logs' \in 0 .. MaxLogs
  BY BoundsAssumption
  DEF Inv, TypeInv, TakeLog, LogBlockhash, LogStep, LogSimulate, chain
<1> USE <1>1, <1>2 DEF reading
<1>3. TypeInv'
  BY DEF Inv, TypeInv
<1>4. Working' /\ Sent' /\ Stored' /\ Reading'
  BY DEF Inv, Working, Sent, Stored, Reading
<1> QED
  BY <1>3, <1>4 DEF Inv

\* A step of the reader leaves all but the reader alone.
LEMMA ReaderKeeps ==
  ASSUME Inv, Reader
  PROVE  Inv'
<1> USE DEF chain, logging
<1>1. ASSUME UNCHANGED <<waiting, worker, storer, published, chain, logging>>,
             reader' \in ReaderRecord, reads' \in 0 .. MaxReads, Reading'
      PROVE  Inv'
  <2> USE <1>1
  <2>1. TypeInv'
    BY DEF Inv, TypeInv
  <2>2. Working' /\ Sent' /\ Stored'
    BY DEF Inv, Working, Sent, Stored
  <2> QED
    BY <2>1, <2>2 DEF Inv
<1>2. ASSUME NEW e \in Events, NEW size \in AskedSizes(e), Verify(e, size)
      PROVE  Inv'
  <2>1. size \in Int
    BY SizesAssumption DEF AskedSizes, Inv, TypeInv
  <2>2. reader' = [at |-> "tx", event |-> e, size |-> size, code |-> 0, excused |-> FALSE]
    BY <1>2 DEF Verify, NoReader
  <2>3. reads' \in 0 .. MaxReads /\ UNCHANGED <<waiting, worker, storer, published, chain, logging>>
    BY <1>2, BoundsAssumption DEF Verify, Inv, TypeInv
  <2> QED
    BY <1>1, <2>1, <2>2, <2>3 DEF Reading, ReaderRecord
<1>3. ASSUME NEW code \in {400, 422}, VerifyMalformed(code)
      PROVE  Inv'
  <2>1. reader' = [at |-> "answered", event |-> None, size |-> 0, code |-> code, excused |-> FALSE]
    BY <1>3 DEF VerifyMalformed, NoReader
  <2>2. reads' \in 0 .. MaxReads /\ UNCHANGED <<waiting, worker, storer, published, chain, logging>>
    BY <1>3, BoundsAssumption DEF VerifyMalformed, Inv, TypeInv
  <2> QED
    BY <1>1, <2>1, <2>2 DEF Reading, ReaderRecord
<1>4. CASE GetTransaction
  <2>1. reads' = reads /\ UNCHANGED <<waiting, worker, storer, published, chain, logging>>
    BY <1>4 DEF GetTransaction
  <2>2. CASE reader.event \in landed /\ reader' = [reader EXCEPT !.at = "account"]
    <3>1. reader' \in ReaderRecord /\ Reading'
      BY <2>1, <2>2 DEF Inv, TypeInv, Reading, ReaderRecord
    <3> QED
      BY <1>1, <2>1, <3>1 DEF Inv, TypeInv
  <2>3. CASE Respond(404, TRUE)
    <3>1. reader' \in ReaderRecord /\ Reading'
      BY <2>3 DEF Respond, Inv, TypeInv, Reading, ReaderRecord
    <3> QED
      BY <1>1, <2>1, <3>1 DEF Inv, TypeInv
  <2> QED
    BY <1>4, <2>2, <2>3 DEF GetTransaction
<1>5. CASE GetAccountInfo
  <2> DEFINE a == account[reader.event]
             read == IF a.length = -1 THEN 404
                     ELSE IF reader.size \in 0 .. a.length /\ Reconstructs(a, reader.size)
                     THEN 200 ELSE 500
  <2>1. reads' = reads /\ UNCHANGED <<waiting, worker, storer, published, chain, logging>>
    BY <1>5 DEF GetAccountInfo
  <2>2. CASE Respond(404, TRUE)
    <3>1. reader' \in ReaderRecord /\ Reading'
      BY <2>2 DEF Respond, Inv, TypeInv, Reading, ReaderRecord
    <3> QED
      BY <1>1, <2>1, <3>1 DEF Inv, TypeInv
  <2>3. CASE Respond(read, FALSE)
    <3>1. reader.event \in landed /\ reader.event \in Events
      BY <1>5 DEF GetAccountInfo, Inv, TypeInv, Reading
    <3>2. /\ a.event = reader.event /\ a.size \in Nat
          /\ a.length = CalculateRequiredAccountSpace(a.size)
      BY <3>1, SizesAssumption DEF Inv, Stored
    <3>3. a.length \in Nat /\ a.length >= a.size
      BY <3>2, SpaceCovers
    <3>4. reader.size \in Int
      BY DEF Inv, TypeInv, ReaderRecord
    <3>5. read = IF reader.size \in a.size .. a.length THEN 200 ELSE 500
      <4> HIDE DEF a
      <4> QED BY <3>1, <3>2, <3>3, <3>4, NoneAssumption DEF Reconstructs
    <3>6. reader' = [at |-> "answered", event |-> reader.event, size |-> reader.size,
                     code |-> read, excused |-> FALSE]
      BY <2>3 DEF Respond
    <3>7. reader' \in ReaderRecord
      <4> HIDE DEF read
      <4> QED BY <3>1, <3>4, <3>5, <3>6 DEF ReaderRecord
    <3>8. Reading'
      <4> HIDE DEF read
      <4> QED BY <2>1, <3>1, <3>5, <3>6 DEF Reading
    <3> QED
      BY <1>1, <2>1, <3>7, <3>8 DEF Inv, TypeInv
  <2> QED
    BY <1>5, <2>2, <2>3 DEF GetAccountInfo
<1>6. CASE Answered
  <2>1. reader' = [at |-> "idle", event |-> None, size |-> 0, code |-> 0, excused |-> FALSE]
    BY <1>6 DEF Answered, NoReader
  <2> QED
    BY <1>1, <1>6, <2>1 DEF Answered, Reading, ReaderRecord, Inv, TypeInv
<1> QED
  BY <1>2, <1>3, <1>4, <1>5, <1>6 DEF Reader

-----------------------------------------------------------------------------
\* The steps of the worker and its goroutine.
LEMMA WorkerKeeps ==
  ASSUME Inv, Worker
  PROVE  Inv'
<1>1. ASSUME NEW e \in Events, Consume(e) PROVE Inv'
  BY <1>1, ConsumeKeeps
<1>2. CASE Serialize
  BY <1>2, SerializeKeeps
<1>3. CASE GetMinimumBalance
  BY <1>3, StepKeeps, SendErrorKeeps DEF GetMinimumBalance, Computed
<1>4. CASE NewRandomPrivateKey
  BY <1>4, StepKeeps, SendErrorKeeps DEF NewRandomPrivateKey, Computed
<1>5. CASE GetLatestBlockhash
  BY <1>5, StepKeeps, SendErrorKeeps DEF GetLatestBlockhash, Computed
<1>6. CASE SignTransaction
  BY <1>6, StepKeeps, SendErrorKeeps DEF SignTransaction, Computed
<1>7. CASE SimulateTransaction
  BY <1>7, StepKeeps, SendErrorKeeps DEF SimulateTransaction, Computed
<1>8. CASE SendTransaction
  BY <1>8, SendTransactionKeeps
<1> QED
  BY <1>1, <1>2, <1>3, <1>4, <1>5, <1>6, <1>7, <1>8 DEF Worker

\* Every step keeps the invariant.
LEMMA InvStep == Inv /\ [Next]_vars => Inv'
<1> SUFFICES ASSUME Inv, [Next]_vars PROVE Inv'
  OBVIOUS
<1>1. CASE Worker
  BY <1>1, WorkerKeeps
<1>2. CASE Reader
  BY <1>2, ReaderKeeps
<1>3. CASE \E tx \in inflight : Land(tx) \/ Expire(tx)
  BY <1>3, LandKeeps, ExpireKeeps
<1>4. CASE TakeLog \/ LogBlockhash \/ LogSimulate
  BY <1>4, LogKeeps
<1>5. CASE UNCHANGED vars
  BY <1>5 DEF vars, Inv, TypeInv, Working, Sent, Stored, Reading
<1> QED
  BY <1>1, <1>2, <1>3, <1>4, <1>5 DEF Next

\* The invariant holds throughout.
LEMMA Invariance == Spec => []Inv
BY InvInit, InvStep, PTL DEF Spec

-----------------------------------------------------------------------------
\* The simulation of a proof that a transaction can carry succeeds, whatever the
\* size of the proof: its account is new and large enough.
THEOREM SpaceAlwaysSuffices == Spec => []SpaceSuffices
<1>1. Inv => SpaceSuffices
  <2> SUFFICES ASSUME Inv, storer.at = "simulate", storer.size <= MaxInstruction
               PROVE  StoreSucceeds(Transaction)
    BY DEF SpaceSuffices
  <2>1. /\ storer.event \in Events /\ published[storer.event] = "none"
        /\ storer.size \in Nat /\ storer.space = CalculateRequiredAccountSpace(storer.size)
    BY SizesAssumption DEF Inv, Working, Computed
  <2>2. account[storer.event].length = -1
    BY <2>1 DEF Inv, Sent, Stored, NoAccount
  <2>3. storer.space >= storer.size
    BY <2>1, SpaceCovers
  <2> QED
    BY <2>1, <2>2, <2>3
    DEF StoreSucceeds, Transaction, ProgramWrites, Deserializes, ProofInstruction
<1> QED
  BY <1>1, Invariance, PTL

\* Accounts hold whole proofs of their own events and nothing else is written.
THEOREM OnlyWholeProofs == Spec => []OnlyWholeProofsStored
<1>1. Inv => OnlyWholeProofsStored
  <2> SUFFICES ASSUME Inv PROVE OnlyWholeProofsStored
    OBVIOUS
  <2>1. \A e \in landed : /\ account[e].event = e /\ account[e].size \in Sizes
                          /\ account[e].length = CalculateRequiredAccountSpace(account[e].size)
    BY DEF Inv, Stored
  <2>2. \A e \in landed : account[e].length >= account[e].size
    BY <2>1, SpaceCovers, SizesAssumption
  <2> QED
    BY <2>1, <2>2 DEF OnlyWholeProofsStored, Inv, Stored
<1> QED
  BY <1>1, Invariance, PTL

\* Whoever follows a published reference to a final transaction gets the proof.
THEOREM PublishedStaysReadable == Spec => []PublishedIsReadable
<1>1. Inv => PublishedIsReadable
  BY DEF PublishedIsReadable, Inv, Reading
<1> QED
  BY <1>1, Invariance, PTL

\* No result is published for a transaction that no node has taken.
THEOREM ResultsWereSent == Spec => []ResultMeansSent
<1>1. Inv => ResultMeansSent
  BY DEF ResultMeansSent, Inv, Sent
<1> QED
  BY <1>1, Invariance, PTL

\* The variables keep their kinds, and exactly the landed accounts exist.
THEOREM StoreTypeCorrect == Spec => []TypeOK
<1>1. Inv => TypeOK
  <2> SUFFICES ASSUME Inv PROVE TypeOK
    OBVIOUS
  <2>1. \A e \in landed : account[e].length # -1
    <3>1. \A e \in landed : /\ account[e].size \in Nat
                            /\ account[e].length = CalculateRequiredAccountSpace(account[e].size)
      BY SizesAssumption DEF Inv, Stored
    <3> QED
      BY <3>1, SpaceCovers
  <2>2. \A e \in Events : account[e].length = -1 <=> e \notin landed
    BY <2>1 DEF Inv, Stored, NoAccount
  <2> QED
    BY <2>2 DEF TypeOK, Inv, TypeInv, ReaderRecord, Working, NoStorer, Outcomes
<1> QED
  BY <1>1, Invariance, PTL
=============================================================================
