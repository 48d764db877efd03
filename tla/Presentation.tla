---------------------------- MODULE Presentation ----------------------------
(***************************************************************************)
(* The presentation service of the API (system/api/src/zkprequest): a      *)
(* relying party creates a presentation request for a schema, a wallet     *)
(* proves the schema and submits the proof, and readers poll the outcome.  *)
(* Everything the service keeps is process memory: the request store (a    *)
(* sync.Map), the key caches (one RWMutex), the verdicts (one Mutex) and   *)
(* the waiters (one Mutex).  No lock is held across two of them.           *)
(*                                                                         *)
(* Every HTTP call is a goroutine of its own and one element of the        *)
(* constants below; a call runs its handler once.  One action is one       *)
(* access to shared memory together with the purely local code around it.  *)
(* A RequestID is a fresh uuid drawn by the creating call, so the creating *)
(* call itself names the request; a key pair is named by the call that ran *)
(* the Groth16 setup.                                                      *)
(***************************************************************************)
EXTENDS Integers

CONSTANTS
  Creates,     \* calls of POST /v1/presentations/create
  Blockings,   \* calls of POST /v1/presentations/verify-blocking
  Verifies,    \* calls of POST /v1/presentations/verify
  Reads,       \* calls of GET /v1/presentations/:id{,/descriptor,/status,/result}
  Schemas,     \* canonical schema JSON texts (equivalently, their hashes)
  BadSchemas,  \* the schemas no circuit can be built from
  Callbacks,   \* callback_url values a relying party may send
  TTL,         \* Service.TTL: lifetime of a request
  VerdictTTL,  \* how long setVerdict keeps a verdict
  MaxTime,     \* bound on the clock
  None         \* absence of a value

Ids == Creates \cup Blockings
Calls == Ids \cup Verifies \cup Reads

\* "" is no callback_url, "url" a usable one, "malformed" one that
\* http.NewRequest cannot parse.
CallbackKinds == {"", "url", "malformed"}
ReadKinds == {"show", "descriptor", "status", "result"}

Request == [schema : Schemas, expires : Nat, callback : CallbackKinds]
CreateArg == [schema : Schemas, callback : CallbackKinds]
\* echoes: public_inputs is absent or repeats aud and nonce; key: the setup the
\* proof was made with, None for a blob that is no valid proof of anything.
Submission == [id : Ids, echoes : BOOLEAN, key : Ids \cup {None}]
ReadArg == [id : Ids, kind : ReadKinds]
Timer == [id : Ids, at : Nat, by : Verifies]

ASSUME CallsAssumption ==
  /\ Creates \cap Blockings = {}
  /\ Creates \cap Verifies = {}
  /\ Creates \cap Reads = {}
  /\ Blockings \cap Verifies = {}
  /\ Blockings \cap Reads = {}
  /\ Verifies \cap Reads = {}
ASSUME DataAssumption ==
  /\ BadSchemas \subseteq Schemas
  /\ Callbacks \subseteq CallbackKinds
ASSUME NoneAssumption ==
  /\ None \notin Ids
  /\ None \notin Request
  /\ None \notin CreateArg
  /\ None \notin Submission
  /\ None \notin ReadArg
\* 5 minutes against 15 minutes in the code: a verdict outlives its request.
ASSUME TimeAssumption ==
  /\ TTL \in Nat \ {0}
  /\ VerdictTTL \in Nat
  /\ MaxTime \in Nat
  /\ TTL < VerdictTTL

VARIABLES
  clock,     \* time.Now().Unix()
  pc,        \* where each call stands in its handler
  reply,     \* the HTTP reply of a call, "" while there is none
  arg,       \* input of a creating call
  since,     \* the time.Now() a creating call took before its setup
  sub,       \* input of a verify call
  rd,        \* input of a reading call
  loaded,    \* the request a call has loaded from the store (a copy)
  store,     \* InMemoryStore.m
  keys,      \* vkCache, pkCache and schemaCache: the setup held per schema
  verdicts,  \* Service.verdicts
  timers,    \* the goroutines setVerdict has started
  waiters,   \* Service.waiters: blocking calls with a registered channel
  chan,      \* the one-slot channel of a blocking call
  published, \* history: every setup ever held for a schema
  told       \* history: the replies about a request when a read of it began

callVars == <<pc, reply, arg, since, sub, rd, loaded>>
inputVars == <<arg, since, sub, rd>>
verdictVars == <<verdicts, timers>>
waitVars == <<waiters, chan>>
history == <<published, told>>
vars == <<clock, callVars, store, keys, verdictVars, waitVars, history>>

Init ==
  /\ clock = 0
  /\ pc = [c \in Calls |-> "idle"]
  /\ reply = [c \in Calls |-> ""]
  /\ arg = [c \in Ids |-> None]
  /\ since = [c \in Ids |-> 0]
  /\ sub = [c \in Verifies |-> None]
  /\ rd = [c \in Reads |-> None]
  /\ loaded = [c \in Calls |-> None]
  /\ store = [c \in Ids |-> None]
  /\ keys = [s \in Schemas |-> None]
  /\ verdicts = [c \in Ids |-> "none"]
  /\ timers = {}
  /\ waiters = {}
  /\ chan = [c \in Blockings |-> "empty"]
  /\ published = [s \in Schemas |-> {}]
  /\ told = [c \in Reads |-> {}]

\* Mutant: the id is known outside as soon as the request is saved.
DisclosedOnSave ==
  {c \in Ids : pc[c] \notin {"idle", "ensure", "setup", "save"} /\ reply[c] # "rejected"}

\* A request's id reaches the outside only in the reply of its creating call.
Disclosed == {c \in Ids : reply[c] \in {"created", "ok", "failed", "timeout"}}

Goto(c, label) == pc' = [pc EXCEPT ![c] = label]
\* The handler returns, and its local copy of the request with it.
Answer(c, r) ==
  /\ Goto(c, "done")
  /\ reply' = [reply EXCEPT ![c] = r]
  /\ loaded' = [loaded EXCEPT ![c] = None]

-----------------------------------------------------------------------------
(***************************************************************************)
(* CreateRequestFromSchema, shared by CreatePresentation and               *)
(* VerifyBlocking.                                                         *)
(***************************************************************************)

\* The handler takes time.Now() first, then the schema is canonicalised.
StartCreate(c) ==
  /\ pc[c] = "idle"
  /\ \E s \in Schemas, cb \in (IF c \in Creates THEN Callbacks ELSE {""}) :
       arg' = [arg EXCEPT ![c] = [schema |-> s, callback |-> cb]]
  /\ since' = [since EXCEPT ![c] = clock]
  /\ Goto(c, "ensure")
  /\ UNCHANGED <<clock, reply, sub, rd, loaded, store, keys, verdictVars, waitVars, history>>

\* Mutant: the setup runs whether or not the keys are cached.
EnsureCheckAlways(c) ==
  /\ pc[c] = "ensure"
  /\ Goto(c, "setup")
  /\ UNCHANGED <<clock, reply, inputVars, loaded, store, keys, verdictVars, waitVars, history>>

\* ensureVKForSchema, the look under RLock.
EnsureCheck(c) ==
  /\ pc[c] = "ensure"
  /\ Goto(c, IF keys[arg[c].schema] # None THEN "save" ELSE "setup")
  /\ UNCHANGED <<clock, reply, inputVars, loaded, store, keys, verdictVars, waitVars, history>>

\* Mutant: the setup error is dropped.
EnsureFailsIgnored(c) ==
  /\ pc[c] = "setup"
  /\ arg[c].schema \in BadSchemas
  /\ Goto(c, "save")
  /\ UNCHANGED <<clock, reply, inputVars, loaded, store, keys, verdictVars, waitVars, history>>

\* Parsing, compilation or setup fails: the handler answers 400.
EnsureFails(c) ==
  /\ pc[c] = "setup"
  /\ arg[c].schema \in BadSchemas
  /\ Answer(c, "rejected")
  /\ UNCHANGED <<clock, inputVars, store, keys, verdictVars, waitVars, history>>

\* A fresh key pair, written under Lock over whatever is there by now.
EnsureStore(c) ==
  LET s == arg[c].schema IN
  /\ pc[c] = "setup"
  /\ s \notin BadSchemas
  /\ keys' = [keys EXCEPT ![s] = c]
  /\ published' = [published EXCEPT ![s] = @ \cup {c}]
  /\ Goto(c, "save")
  /\ UNCHANGED <<clock, reply, inputVars, loaded, store, verdictVars, waitVars, told>>

\* Mutant: the lifetime is subtracted.
SaveRequestBackdated(c) ==
  /\ pc[c] = "save"
  /\ store' = [store EXCEPT ![c] = [schema |-> arg[c].schema,
                                    expires |-> since[c] - TTL,
                                    callback |-> ""]]
  /\ Goto(c, "respond")
  /\ UNCHANGED <<clock, reply, inputVars, loaded, keys, verdictVars, waitVars, history>>

\* Store.Save of the new request; its callback is attached later.
SaveRequest(c) ==
  /\ pc[c] = "save"
  /\ store' = [store EXCEPT ![c] = [schema |-> arg[c].schema,
                                    expires |-> since[c] + TTL,
                                    callback |-> ""]]
  /\ Goto(c, IF c \in Blockings THEN "register"
             ELSE IF arg[c].callback = "" THEN "respond" ELSE "attach")
  /\ UNCHANGED <<clock, reply, inputVars, loaded, keys, verdictVars, waitVars, history>>

\* CreatePresentation attaches the callback by loading the request ...
AttachLoad(c) ==
  /\ pc[c] = "attach"
  /\ loaded' = [loaded EXCEPT ![c] = store[c]]
  /\ Goto(c, IF store[c] = None THEN "respond" ELSE "attachSave")
  /\ UNCHANGED <<clock, reply, inputVars, store, keys, verdictVars, waitVars, history>>

\* ... and saving the changed copy.
AttachSave(c) ==
  /\ pc[c] = "attachSave"
  /\ store' = [store EXCEPT ![c] = [loaded[c] EXCEPT !.callback = arg[c].callback]]
  /\ Goto(c, "respond")
  /\ UNCHANGED <<clock, reply, inputVars, loaded, keys, verdictVars, waitVars, history>>

RespondCreated(c) ==
  /\ pc[c] = "respond"
  /\ Answer(c, "created")
  /\ UNCHANGED <<clock, inputVars, store, keys, verdictVars, waitVars, history>>

-----------------------------------------------------------------------------
(***************************************************************************)
(* VerifyBlocking waits for the request it has created.                    *)
(***************************************************************************)

WaitRegister(c) ==
  /\ pc[c] = "register"
  /\ waiters' = waiters \cup {c}
  /\ Goto(c, "select")
  /\ UNCHANGED <<clock, reply, inputVars, loaded, store, keys, verdictVars, chan, history>>

\* Mutant: the wait has no timer.
SelectOutcomesUntimed(c) == {chan[c]} \ {"empty"}

\* The select of WaitForResult: a delivered result, or the timer (whose
\* duration the caller chooses), which also takes the channel off the list.
SelectOutcomes(c) ==
  {"timeout"} \cup (IF chan[c] = "empty" THEN {} ELSE {chan[c]})

WaitSelect(c) ==
  /\ pc[c] = "select"
  /\ \E r \in SelectOutcomes(c) :
       /\ waiters' = IF r = "timeout" THEN waiters \ {c} ELSE waiters
       /\ chan' = IF r = "timeout" THEN chan ELSE [chan EXCEPT ![c] = "empty"]
       /\ Answer(c, r)
  /\ UNCHANGED <<clock, inputVars, store, keys, verdictVars, history>>

-----------------------------------------------------------------------------
(***************************************************************************)
(* VerifySubmission.                                                       *)
(***************************************************************************)

\* The sender knows the id from a reply; its proof was made with a key that
\* GetPK served at some moment, or with none.
StartVerify(c) ==
  /\ pc[c] = "idle"
  /\ \E id \in Disclosed, e \in BOOLEAN :
     \E k \in published[arg[id].schema] \cup {None} :
       sub' = [sub EXCEPT ![c] = [id |-> id, echoes |-> e, key |-> k]]
  /\ Goto(c, "load")
  /\ UNCHANGED <<clock, reply, arg, since, rd, loaded, store, keys, verdictVars, waitVars, history>>

VerifyLoad(c) ==
  LET r == store[sub[c].id] IN
  /\ pc[c] = "load"
  /\ IF r = None
     THEN Answer(c, "notfound")
     ELSE Goto(c, "expiry") /\ loaded' = [loaded EXCEPT ![c] = r] /\ UNCHANGED reply
  /\ UNCHANGED <<clock, inputVars, store, keys, verdictVars, waitVars, history>>

\* The expiry check, then the echo check of aud and nonce.
VerifyExpiry(c) ==
  /\ pc[c] = "expiry"
  /\ Goto(c, IF clock > loaded[c].expires THEN "drop"
             ELSE IF sub[c].echoes THEN "proof" ELSE "fail")
  /\ UNCHANGED <<clock, reply, inputVars, loaded, store, keys, verdictVars, waitVars, history>>

DropExpired(c) ==
  /\ pc[c] = "drop"
  /\ store' = [store EXCEPT ![sub[c].id] = None]
  /\ Goto(c, "fail")
  /\ UNCHANGED <<clock, reply, inputVars, loaded, keys, verdictVars, waitVars, history>>

\* Decode the blob, look up the server's VK under RLock, verify the proof.
\* A proof verifies under the VK of the setup whose PK made it and no other.
VerifyProof(c) ==
  LET vk == keys[loaded[c].schema] IN
  /\ pc[c] = "proof"
  /\ Goto(c, IF sub[c].key # None /\ vk # None /\ sub[c].key = vk
             THEN "consume" ELSE "fail")
  /\ UNCHANGED <<clock, reply, inputVars, loaded, store, keys, verdictVars, waitVars, history>>

\* Mutant: the accepted request stays in the store.
ConsumeForgotten(c) ==
  /\ pc[c] = "consume"
  /\ Goto(c, "accept")
  /\ UNCHANGED <<clock, reply, inputVars, loaded, store, keys, verdictVars, waitVars, history>>

Consume(c) ==
  /\ pc[c] = "consume"
  /\ store' = [store EXCEPT ![sub[c].id] = None]
  /\ Goto(c, "accept")
  /\ UNCHANGED <<clock, reply, inputVars, loaded, keys, verdictVars, waitVars, history>>

\* Mutant: nothing will delete the verdict.
SetVerdictForever(c, v) ==
  /\ verdicts' = [verdicts EXCEPT ![sub[c].id] = v]
  /\ UNCHANGED timers

\* setVerdict: overwrite under the lock, then start the forgetting goroutine.
SetVerdict(c, v) ==
  /\ verdicts' = [verdicts EXCEPT ![sub[c].id] = v]
  /\ timers' = timers \cup {[id |-> sub[c].id, at |-> clock + VerdictTTL, by |-> c]}

RecordVerified(c) ==
  /\ pc[c] = "accept"
  /\ SetVerdict(c, "verified")
  /\ Goto(c, "hookOk")
  /\ UNCHANGED <<clock, reply, inputVars, loaded, store, keys, waitVars, history>>

\* Mutant: a failed request is put back for another attempt.
RecordFailedRestores(c) ==
  /\ pc[c] = "fail"
  /\ SetVerdict(c, "failed")
  /\ store' = [store EXCEPT ![sub[c].id] = loaded[c]]
  /\ Goto(c, "hookFail")
  /\ UNCHANGED <<clock, reply, inputVars, loaded, keys, waitVars, history>>

\* recordFail: the request stays in the store unless it had expired.
RecordFailed(c) ==
  /\ pc[c] = "fail"
  /\ SetVerdict(c, "failed")
  /\ Goto(c, "hookFail")
  /\ UNCHANGED <<clock, reply, inputVars, loaded, store, keys, waitVars, history>>

\* postWebhook returns: at once without a callback, otherwise when the
\* relying party's server has answered or refused.
WebhookReturns(c) ==
  /\ pc[c] \in {"hookOk", "hookFail"}
  /\ loaded[c].callback # "malformed"
  /\ Goto(c, IF pc[c] = "hookOk" THEN "notifyOk" ELSE "notifyFail")
  /\ UNCHANGED <<clock, reply, inputVars, loaded, store, keys, verdictVars, waitVars, history>>

\* http.NewRequest returned nil and its error is dropped: the handler panics
\* on the nil request, and gin's recovery answers 500.
WebhookPanics(c) ==
  /\ pc[c] \in {"hookOk", "hookFail"}
  /\ loaded[c].callback = "malformed"
  /\ Answer(c, "panic")
  /\ UNCHANGED <<clock, inputVars, store, keys, verdictVars, waitVars, history>>

\* notifyWaiters takes the list off the map and sends without blocking;
\* VerifyPresentation then answers 200 or 401.
NotifyWaiters(c) ==
  LET id == sub[c].id
      r == IF pc[c] = "notifyOk" THEN "ok" ELSE "failed" IN
  /\ pc[c] \in {"notifyOk", "notifyFail"}
  /\ waiters' = waiters \ {id}
  /\ chan' = [b \in Blockings |->
                IF b = id /\ b \in waiters /\ chan[b] = "empty" THEN r ELSE chan[b]]
  /\ Answer(c, r)
  /\ UNCHANGED <<clock, inputVars, store, keys, verdictVars, history>>

\* Mutant: the goroutine does not sleep.
ForgetVerdictAtOnce(t) ==
  /\ t \in timers
  /\ timers' = timers \ {t}
  /\ verdicts' = [verdicts EXCEPT ![t.id] = "none"]
  /\ UNCHANGED <<clock, callVars, store, keys, waitVars, history>>

\* The goroutine of setVerdict wakes and deletes whatever verdict is there.
ForgetVerdict(t) ==
  /\ t \in timers
  /\ clock >= t.at
  /\ timers' = timers \ {t}
  /\ verdicts' = [verdicts EXCEPT ![t.id] = "none"]
  /\ UNCHANGED <<clock, callVars, store, keys, waitVars, history>>

-----------------------------------------------------------------------------
(***************************************************************************)
(* The reading handlers.                                                   *)
(***************************************************************************)

About(c, id) == \/ c \in Verifies /\ sub[c] # None /\ sub[c].id = id
                \/ c \in Reads /\ rd[c] # None /\ rd[c].id = id
RepliesAbout(id) == {reply[c] : c \in {d \in Verifies \cup Reads : About(d, id)}}

StartRead(c) ==
  /\ pc[c] = "idle"
  /\ \E id \in Disclosed, k \in ReadKinds :
       /\ rd' = [rd EXCEPT ![c] = [id |-> id, kind |-> k]]
       /\ told' = [told EXCEPT ![c] = RepliesAbout(id)]
       /\ Goto(c, IF k = "result" THEN "verdict" ELSE "rload")
  /\ UNCHANGED <<clock, reply, arg, since, sub, loaded, store, keys, verdictVars, waitVars, published>>

\* Result looks for a verdict first.
ResultVerdict(c) ==
  LET v == verdicts[rd[c].id] IN
  /\ pc[c] = "verdict"
  /\ IF v # "none" THEN Answer(c, v) ELSE Goto(c, "rload") /\ UNCHANGED <<reply, loaded>>
  /\ UNCHANGED <<clock, inputVars, store, keys, verdictVars, waitVars, history>>

MissReply(kind) ==
  CASE kind = "result" -> "unknown"
    [] kind = "status" -> "unknown_or_consumed"
    [] OTHER -> "unknown request"

\* Store.Load in ShowPresentation, Descriptor, Status and Result.
ReadLoad(c) ==
  LET r == store[rd[c].id] IN
  /\ pc[c] = "rload"
  /\ IF r = None
     THEN Answer(c, MissReply(rd[c].kind))
     ELSE Goto(c, "rtime") /\ loaded' = [loaded EXCEPT ![c] = r] /\ UNCHANGED reply
  /\ UNCHANGED <<clock, inputVars, store, keys, verdictVars, waitVars, history>>

\* Their expiry check; a request that is still open is reported pending
\* (Status, Result) or rendered (ShowPresentation, Descriptor).
ReadTime(c) ==
  /\ pc[c] = "rtime"
  /\ Answer(c, IF clock > loaded[c].expires THEN "expired" ELSE "pending")
  /\ UNCHANGED <<clock, inputVars, store, keys, verdictVars, waitVars, history>>

-----------------------------------------------------------------------------
Tick ==
  /\ clock < MaxTime
  /\ clock' = clock + 1
  /\ UNCHANGED <<callVars, store, keys, verdictVars, waitVars, history>>

CreateStep(c) ==
  \/ EnsureCheck(c)  \/ EnsureFails(c) \/ EnsureStore(c) \/ SaveRequest(c)
  \/ AttachLoad(c)   \/ AttachSave(c)  \/ RespondCreated(c)
WaitStep(c) == WaitRegister(c) \/ WaitSelect(c)
VerifyStep(c) ==
  \/ VerifyLoad(c)     \/ VerifyExpiry(c) \/ DropExpired(c) \/ VerifyProof(c) \/ Consume(c)
  \/ RecordVerified(c) \/ RecordFailed(c) \/ WebhookPanics(c) \/ NotifyWaiters(c)
ReadStep(c) == ResultVerdict(c) \/ ReadLoad(c) \/ ReadTime(c)

Next ==
  \/ Tick
  \/ \E c \in Ids : StartCreate(c) \/ CreateStep(c)
  \/ \E c \in Blockings : WaitStep(c)
  \/ \E c \in Verifies : StartVerify(c) \/ VerifyStep(c) \/ WebhookReturns(c)
  \/ \E c \in Reads : StartRead(c) \/ ReadStep(c)
  \/ \E t \in timers : ForgetVerdict(t)

Spec == Init /\ [][Next]_vars

(***************************************************************************)
(* Fairness: the Go scheduler runs every goroutine that can run, time goes *)
(* on and a sleeping goroutine wakes.  A webhook with a callback URL is    *)
(* not fair: http.DefaultClient has no timeout and the peer may hang.      *)
(***************************************************************************)
WebhookSkipped(c) ==
  /\ pc[c] \in {"hookOk", "hookFail"}
  /\ loaded[c].callback = ""
  /\ WebhookReturns(c)
Fairness ==
  /\ WF_vars(Tick)
  /\ \A c \in Ids : WF_vars(CreateStep(c))
  /\ \A c \in Blockings : WF_vars(WaitStep(c))
  /\ \A c \in Verifies : WF_vars(VerifyStep(c)) /\ WF_vars(WebhookSkipped(c))
  /\ \A c \in Reads : WF_vars(ReadStep(c))
  /\ \A c \in Verifies : WF_vars(\E t \in timers : t.by = c /\ ForgetVerdict(t))
FairSpec == Spec /\ Fairness

-----------------------------------------------------------------------------
CreateLabels == {"idle", "ensure", "setup", "save", "attach", "attachSave",
                 "respond", "register", "select", "done"}
VerifyLabels == {"idle", "load", "expiry", "drop", "proof", "consume", "accept", "fail",
                 "hookOk", "hookFail", "notifyOk", "notifyFail", "done"}
ReadLabels == {"idle", "verdict", "rload", "rtime", "done"}
Replies == {"", "created", "rejected", "timeout", "ok", "failed", "notfound", "panic",
            "verified", "unknown", "unknown_or_consumed", "unknown request",
            "expired", "pending"}

\* The calls: each is only ever at a label of its own handler.
CallsOK ==
  /\ pc \in [Calls -> CreateLabels \cup VerifyLabels \cup ReadLabels]
  /\ \A c \in Ids : pc[c] \in CreateLabels
  /\ \A c \in Verifies : pc[c] \in VerifyLabels
  /\ \A c \in Reads : pc[c] \in ReadLabels
  /\ reply \in [Calls -> Replies]
  /\ arg \in [Ids -> CreateArg \cup {None}]
  /\ since \in [Ids -> Nat]
  /\ sub \in [Verifies -> Submission \cup {None}]
  /\ rd \in [Reads -> ReadArg \cup {None}]
  /\ loaded \in [Calls -> Request \cup {None}]

\* What the calls share.
SharedOK ==
  /\ clock \in Nat
  /\ store \in [Ids -> Request \cup {None}]
  /\ keys \in [Schemas -> Ids \cup {None}]
  /\ verdicts \in [Ids -> {"none", "verified", "failed"}]
  /\ timers \subseteq Timer
  /\ waiters \subseteq Blockings
  /\ chan \in [Blockings -> {"empty", "ok", "failed"}]
  /\ published \in [Schemas -> SUBSET Ids]
  /\ told \in [Reads -> SUBSET Replies]

\* Every variable holds a value of its kind; in particular no handler stores or
\* copies a request, a verdict or a timer that is not whole.
TypeOK == CallsOK /\ SharedOK

\* A request whose proof was accepted - its verdict says verified, or a
\* submission of it was answered 200 - is in the store no more, and no later
\* step (the Load/Save pair that attaches a callback above all) brings it back.
ConsumedIsGone ==
  \A id \in Ids :
    (\/ verdicts[id] = "verified"
     \/ \E c \in Verifies : About(c, id) /\ reply[c] = "ok") => store[id] = None

\* VerifySubmission finds the server's VK for every request it has loaded:
\* "server VK not found" is unreachable, whatever setups run meanwhile.
VKHeld ==
  \A c \in Verifies :
    pc[c] \in {"expiry", "proof"} => keys[loaded[c].schema] # None

\* Attaching the callback is a Load and a Save after the first Save, yet no
\* submission ever works on a copy of the request that lacks the callback:
\* no webhook is lost to that window.
CallbackSeen ==
  \A c \in Verifies :
    loaded[c] # None => loaded[c].callback = arg[sub[c].id].callback

\* Once a schema has a key pair and no call is between the cache check and
\* the cache write for it, the pair is never replaced: proofs made with a PK
\* fetched from then on cannot be invalidated by another create.
Settled(s) ==
  /\ keys[s] # None
  /\ \A c \in Ids : pc[c] = "setup" => arg[c].schema # s
KeySettles ==
  [][\A s \in Schemas : Settled(s) => Settled(s)' /\ keys'[s] = keys[s]]_vars

\* What clients are told about a request never goes back to pending: not
\* after some reply said it is gone, expired or verified, and on /result not
\* after any submission was answered on its merits either (the verdict
\* outlives the request).
Final == {"ok", "verified", "unknown", "unknown_or_consumed", "unknown request", "expired"}
NeverPendingAgain ==
  \A c \in Reads :
    reply[c] = "pending" =>
      /\ told[c] \cap Final = {}
      /\ rd[c].kind = "result" => "failed" \notin told[c]

\* verify-blocking discloses its request id only in its reply, so nobody can
\* submit to it while it waits: it is never answered by a verification.
BlockingOnlyTimesOut ==
  \A c \in Blockings : reply[c] \in {"", "rejected", "timeout"}

\* Every call that has begun is answered, unless it waits for the server
\* behind a callback URL.
InWebhook(c) == pc[c] \in {"hookOk", "hookFail"} /\ loaded[c].callback = "url"
CallsComplete ==
  \A c \in Calls :
    pc[c] # "idle" ~> (pc[c] = "done" \/ (c \in Verifies /\ InWebhook(c)))

\* A verdict does not stay in memory: one recorded early enough for the model's
\* clock to see its deadline is deleted.
VerdictsForgotten ==
  \A id \in Ids :
    (verdicts[id] # "none" /\ clock + VerdictTTL <= MaxTime) ~> verdicts[id] = "none"

\* CreateRequestFromSchema "returns a one-shot request" (service.go:109): at
\* most one submission of a request is answered 200.
OneShot ==
  \A c, d \in Verifies :
    c # d /\ reply[c] = "ok" /\ reply[d] = "ok" => sub[c].id # sub[d].id

-----------------------------------------------------------------------------
\* The promise behind all this: every request goes new, open, closed, and is
\* verified only once closed.
Phase(id) ==
  IF store[id] # None THEN "open"
  ELSE IF pc[id] \in {"idle", "ensure", "setup", "save"} \/ reply[id] = "rejected"
       THEN "new" ELSE "closed"
Lifecycle == INSTANCE RequestLifecycle
               WITH phase <- [id \in Ids |-> Phase(id)], verdict <- verdicts

\* The service implements the request life cycle.
ImplementsLifecycle == Lifecycle!Spec
=============================================================================
