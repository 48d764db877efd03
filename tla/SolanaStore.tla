----------------------------- MODULE SolanaStore -----------------------------
(***************************************************************************)
(* Proofs on Solana.  The positive worker of the blockchain client makes a *)
(* proof for each event it consumes, hands it to a goroutine that stores   *)
(* it in a new account by way of six RPC calls, and waits on two unbuffered*)
(* channels for the signature or the error.  The program of the            *)
(* smart-contract crate writes the account; the log sink of the same       *)
(* client sends log messages to the same program; SolanaReader.Verify      *)
(* reads an account back and verifies the proof in it.                     *)
(*                                                                         *)
(* A transaction that was sent may land later, never, or even after the    *)
(* RPC call that sent it reported an error.  Every RPC call may fail.      *)
(***************************************************************************)
EXTENDS Integers, Sequences, FiniteSets

CONSTANTS
  Events,          \* messages of verified.positive; each gets an account of its own
  Sizes,           \* lengths a serialized proof may have
  MaxInstruction,  \* external: longest instruction a transaction can carry
  MaxLogs,         \* bound on the messages of logs.blockchain
  MaxReads,        \* bound on the calls of Verify
  None

ASSUME SizesAssumption == Sizes \subseteq Nat /\ MaxInstruction \in Nat
ASSUME BoundsAssumption == MaxLogs \in Nat /\ MaxReads \in Nat
ASSUME NoneAssumption == None \notin Events

VARIABLES
  waiting,    \* events still queued
  worker,     \* the handler: idle, or waiting on its channels
  storer,     \* the goroutine publishZkpToSolana
  published,  \* what the handler published for an event
  inflight,   \* transactions accepted by a node and not yet executed
  landed,     \* accounts whose transaction is finalized
  expired,    \* accounts whose transaction will never be executed
  account,    \* data of each account: its length, the proof's event and size
  payer,      \* data the program wrote to the payer's account
  logger,     \* the log sink's handler
  logs,       \* log messages still to come
  reader,     \* one call of Verify
  reads       \* calls still to come

vars == <<waiting, worker, storer, published, inflight, landed, expired, account,
          payer, logger, logs, reader, reads>>
chain == <<inflight, landed, expired, account, payer>>
logging == <<logger, logs>>
reading == <<reader, reads>>

NoStorer == [at |-> "none", event |-> None, size |-> 0, space |-> 0]
NoAccount == [length |-> -1, event |-> None, size |-> 0]
NoReader == [at |-> "idle", event |-> None, size |-> 0, code |-> 0, excused |-> FALSE]

Init ==
  /\ waiting = Events
  /\ worker = None
  /\ storer = NoStorer
  /\ published = [e \in Events |-> "none"]
  /\ inflight = {} /\ landed = {} /\ expired = {}
  /\ account = [e \in Events |-> NoAccount]
  /\ payer = None
  /\ logger = "idle" /\ logs = MaxLogs
  /\ reader = NoReader /\ reads = MaxReads

-----------------------------------------------------------------------------
(***************************************************************************)
(* calculateRequiredAccountSpace.                                          *)
(***************************************************************************)

\* Mutant: rounds down to a multiple of 8 and adds no buffer to large proofs.
CalculateRequiredAccountSpaceTight(size) ==
  IF size > 10000 THEN 8 * (size \div 8) ELSE size + 1024

Buffered(size) ==
  IF size > 10000 THEN (3 * size) \div 2
  ELSE IF size > 1000 THEN size + 2048
  ELSE size + 1024

RoundUp8(n) == IF n % 8 # 0 THEN n + (8 - (n % 8)) ELSE n

CalculateRequiredAccountSpace(size) ==
  LET total == RoundUp8(Buffered(size)) IN IF total < 2048 THEN 2048 ELSE total

-----------------------------------------------------------------------------
(***************************************************************************)
(* The program: process_instruction.  Borsh accepts what SerializeBorsh    *)
(* wrote; "LOG:" in front of a log message reads as a length of 900 MB.    *)
(***************************************************************************)
ProofInstruction(event, size) == [kind |-> "proof", event |-> event, size |-> size]
LogInstruction == [kind |-> "log", event |-> None, size |-> 0]

\* Mutant: bytes that do not deserialize are stored as they come.
DeserializesAny(instruction) == TRUE

Deserializes(instruction) == instruction.kind = "proof"

ProgramWrites(length, instruction) ==
  Deserializes(instruction) /\ length >= instruction.size

\* The worker's transaction creates the account and calls the program on it.
StoreSucceeds(tx) ==
  /\ tx.size <= MaxInstruction
  /\ account[tx.event].length = -1
  /\ ProgramWrites(tx.space, ProofInstruction(tx.event, tx.size))

-----------------------------------------------------------------------------
(***************************************************************************)
(* VerifiedPositiveWorker: the handler and its goroutine.                  *)
(***************************************************************************)

\* The message is taken (auto-ack), CreateZKP makes a proof or fails.
Consume(e) ==
  /\ worker = None /\ storer = NoStorer
  /\ e \in waiting /\ waiting' = waiting \ {e}
  /\ \/ /\ published' = [published EXCEPT ![e] = "ERR_PROOF_GENERATION"]
        /\ UNCHANGED <<worker, storer>>
     \/ /\ worker' = e
        /\ storer' = [NoStorer EXCEPT !.at = "serialize", !.event = e]
        /\ UNCHANGED published
  /\ UNCHANGED <<chain, logging, reading>>

Step(at, next) ==
  /\ storer.at = at
  /\ storer' = [storer EXCEPT !.at = next]
  /\ UNCHANGED <<waiting, worker, published, chain, logging, reading>>

\* errCh <- err: the handler is in its select and receives.
SendError(at) ==
  /\ storer.at = at
  /\ storer' = NoStorer /\ worker' = None
  /\ published' = [published EXCEPT ![storer.event] = "ERR_SOLANA"]
  /\ UNCHANGED <<waiting, chain, logging, reading>>

\* SerializeBorsh, then the space the account will have.
Serialize ==
  \/ SendError("serialize")
  \/ /\ storer.at = "serialize"
     /\ \E size \in Sizes :
          storer' = [storer EXCEPT !.at = "rent", !.size = size,
                                   !.space = CalculateRequiredAccountSpace(size)]
     /\ UNCHANGED <<waiting, worker, published, chain, logging, reading>>

GetMinimumBalance == Step("rent", "key") \/ SendError("rent")
NewRandomPrivateKey == Step("key", "blockhash") \/ SendError("key")
GetLatestBlockhash == Step("blockhash", "sign") \/ SendError("blockhash")

\* NewTransaction and Sign.
SignTransaction == Step("sign", "simulate") \/ SendError("sign")

Transaction == [event |-> storer.event, size |-> storer.size, space |-> storer.space]

\* Mutant: a failed simulation ends the goroutine without a word.
SimulateTransactionSilent ==
  \/ /\ storer.at = "simulate"
     /\ Step("simulate", IF StoreSucceeds(Transaction) THEN "send" ELSE "gone")
  \/ SendError("simulate")

\* The call may fail, and so may the transaction it tries.
SimulateTransaction ==
  \/ storer.at = "simulate" /\ StoreSucceeds(Transaction) /\ Step("simulate", "send")
  \/ SendError("simulate")

\* Mutant: a call that failed is answered with the signature of the transaction.
SendTransactionBlind ==
  /\ storer.at = "send"
  /\ \E accepted \in {TRUE, FALSE} :
       /\ inflight' = IF accepted THEN inflight \cup {Transaction} ELSE inflight
       /\ published' = [published EXCEPT ![storer.event] = "result"]
  /\ storer' = NoStorer /\ worker' = None
  /\ UNCHANGED <<waiting, landed, expired, account, payer, logging, reading>>

\* A node that answers with the signature has the transaction; one whose
\* answer is an error may have it too.
SendTransaction ==
  /\ storer.at = "send"
  /\ \E accepted, answered \in BOOLEAN :
       /\ answered => accepted
       /\ inflight' = IF accepted THEN inflight \cup {Transaction} ELSE inflight
       /\ published' = [published EXCEPT ![storer.event] =
                          IF answered THEN "result" ELSE "ERR_SOLANA"]
  /\ storer' = NoStorer /\ worker' = None
  /\ UNCHANGED <<waiting, landed, expired, account, payer, logging, reading>>

-----------------------------------------------------------------------------
(***************************************************************************)
(* The cluster executes a transaction or lets its blockhash expire.        *)
(***************************************************************************)
Land(tx) ==
  /\ tx \in inflight /\ StoreSucceeds(tx)
  /\ inflight' = inflight \ {tx}
  /\ landed' = landed \cup {tx.event}
  /\ account' = [account EXCEPT ![tx.event] =
                   [length |-> tx.space, event |-> tx.event, size |-> tx.size]]
  /\ UNCHANGED <<waiting, worker, storer, published, expired, payer, logging, reading>>

Expire(tx) ==
  /\ tx \in inflight /\ inflight' = inflight \ {tx}
  /\ expired' = expired \cup {tx.event}
  /\ UNCHANGED <<waiting, worker, storer, published, landed, account, payer, logging, reading>>

-----------------------------------------------------------------------------
(***************************************************************************)
(* BlockchainClientLogSink: storeLogToSolana under the Mu of a Config of   *)
(* its own, which nobody else locks.                                       *)
(***************************************************************************)
TakeLog ==
  /\ logger = "idle" /\ logs > 0
  /\ logger' = "blockhash" /\ logs' = logs - 1
  /\ UNCHANGED <<waiting, worker, storer, published, chain, reading>>

LogStep(at, next) ==
  /\ logger = at /\ logger' = next
  /\ UNCHANGED <<waiting, worker, storer, published, chain, logs, reading>>

LogBlockhash == \E next \in {"simulate", "idle"} : LogStep("blockhash", next)

\* The simulation runs the program on the payer's account; only what it takes
\* is sent.
LogSimulate ==
  /\ logger = "simulate" /\ logger' = "idle"
  /\ payer' \in IF ProgramWrites(0, LogInstruction) THEN {payer, "log"} ELSE {payer}
  /\ UNCHANGED <<waiting, worker, storer, published, inflight, landed, expired, account, logs, reading>>

-----------------------------------------------------------------------------
(***************************************************************************)
(* SolanaReader.Verify.  "excused" remembers whether an RPC call failed or *)
(* the transaction was not final when it was asked for.                    *)
(***************************************************************************)

\* The sizes a caller may pass: what was stored, one less, the whole account,
\* one more, and a negative number.
AskedSizes(e) ==
  {account[e].size, account[e].size - 1, account[e].length, account[e].length + 1, -1}

Respond(code, excused) ==
  reader' = [at |-> "answered", event |-> reader.event, size |-> reader.size,
             code |-> code, excused |-> excused]

Verify(e, size) ==
  /\ reader.at = "idle" /\ reads > 0 /\ reads' = reads - 1
  /\ published[e] = "result"
  /\ reader' = [NoReader EXCEPT !.at = "tx", !.event = e, !.size = size]
  /\ UNCHANGED <<waiting, worker, storer, published, chain, logging>>

\* An empty parameter, or one that does not parse.
VerifyMalformed(code) ==
  /\ reader.at = "idle" /\ reads > 0 /\ reads' = reads - 1
  /\ reader' = [NoReader EXCEPT !.at = "answered", !.code = code]
  /\ UNCHANGED <<waiting, worker, storer, published, chain, logging>>

GetTransaction ==
  /\ reader.at = "tx"
  /\ \/ reader.event \in landed /\ reader' = [reader EXCEPT !.at = "account"]
     \/ Respond(404, TRUE)
  /\ UNCHANGED <<waiting, worker, storer, published, chain, logging, reads>>

\* Mutant: bytes after the proof are an error.
ReconstructsExact(a, size) == a.event # None /\ size = a.size

\* ReconstructZkpResult reads a prefix that holds the whole proof, and ignores
\* what follows it.
Reconstructs(a, size) == a.event # None /\ size >= a.size

\* A negative size makes the slice expression panic; gin answers 500.
GetAccountInfo ==
  /\ reader.at = "account"
  /\ LET a == account[reader.event] IN
     \/ Respond(404, TRUE)
     \/ Respond(IF a.length = -1 THEN 404
                ELSE IF reader.size \in 0 .. a.length /\ Reconstructs(a, reader.size)
                THEN 200 ELSE 500, FALSE)
  /\ UNCHANGED <<waiting, worker, storer, published, chain, logging, reads>>

Answered ==
  /\ reader.at = "answered" /\ reader' = NoReader
  /\ UNCHANGED <<waiting, worker, storer, published, chain, logging, reads>>

-----------------------------------------------------------------------------
Worker ==
  \/ \E e \in Events : Consume(e)
  \/ Serialize \/ GetMinimumBalance \/ NewRandomPrivateKey \/ GetLatestBlockhash
  \/ SignTransaction \/ SimulateTransaction \/ SendTransaction

Reader ==
  \/ \E e \in Events : \E size \in AskedSizes(e) : Verify(e, size)
  \/ \E code \in {400, 422} : VerifyMalformed(code)
  \/ GetTransaction \/ GetAccountInfo \/ Answered

Next ==
  \/ Worker \/ Reader
  \/ \E tx \in inflight : Land(tx) \/ Expire(tx)
  \/ TakeLog \/ LogBlockhash \/ LogSimulate

Spec == Init /\ [][Next]_vars

\* The handler and its goroutine run, and an RPC call returns: the client's
\* HTTP timeout ends a call the node never answers.
FairSpec == Spec /\ WF_vars(Worker)

-----------------------------------------------------------------------------
(***************************************************************************)
(* Properties.                                                             *)
(***************************************************************************)
\* Every variable holds a value of its kind, the goroutine works for the event
\* the handler waits with, and exactly the landed accounts exist.
TypeOK ==
  /\ waiting \subseteq Events
  /\ worker \in Events \cup {None}
  /\ storer.event \in Events \cup {None} /\ storer.size \in Sizes \cup {0}
  /\ storer # NoStorer => storer.event = worker
  /\ published \in [Events -> {"none", "result", "ERR_PROOF_GENERATION", "ERR_SOLANA"}]
  /\ \A tx \in inflight : tx.event \in Events /\ tx.size \in Sizes
  /\ \A e \in Events : account[e].length = -1 <=> e \notin landed
  /\ logger \in {"idle", "blockhash", "simulate"} /\ logs \in 0 .. MaxLogs
  /\ reader.code \in {0, 200, 400, 404, 422, 500} /\ reads \in 0 .. MaxReads

\* The space calculateRequiredAccountSpace asks for always holds the proof: a
\* simulation of a transaction the cluster can carry never fails for want of
\* space, whichever size the proof has (verified_positive_worker.go).
SpaceSuffices ==
  storer.at = "simulate" /\ storer.size <= MaxInstruction => StoreSucceeds(Transaction)

\* Whatever reaches the chain is a whole proof of the event whose account it
\* is: log messages, which the same client sends to the same program, leave
\* no trace there, and no account holds a part of a proof.
OnlyWholeProofsStored ==
  /\ payer = None
  /\ \A e \in landed :
       account[e].event = e /\ account[e].size \in Sizes /\ account[e].length >= account[e].size

\* A published reference leads to the proof: once its transaction is final,
\* Verify answers 200 for every size from the proof's to the account's and 500
\* for the others; the reader's two calls may see the chain at two moments.
PublishedIsReadable ==
  reader.at = "answered" /\ reader.event # None /\ ~reader.excused =>
    LET a == account[reader.event] IN
    reader.code = IF reader.size \in a.size .. a.length THEN 200 ELSE 500

\* A result is published only for a transaction a node has accepted, and a
\* proof that could not even be made is on no account.  (The converse fails: a
\* proof may be on the chain although ERR_SOLANA was published for it.)
ResultMeansSent ==
  /\ \A e \in Events :
       published[e] = "result" => e \in landed \cup expired \cup {tx.event : tx \in inflight}
  /\ \A e \in landed : published[e] \in {"result", "ERR_SOLANA"}

\* Every consumed event is answered: the goroutine sends on exactly one of the
\* channels on each of its paths, so the handler's select never hangs.
EventsAnswered ==
  \A e \in Events : e \notin waiting ~> published[e] # "none"
=============================================================================
