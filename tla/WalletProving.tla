---------------------------- MODULE WalletProving ----------------------------
(***************************************************************************)
(* The wallet server as prover (zk-wallet-go/internal/app/handlers/        *)
(* zkp_prove.go, zkp_descriptor.go and zkp/prove_dynamic.go), composed     *)
(* with the presentation service it talks to.  POST /wallet/zkp/create     *)
(* fetches descriptor, schema and proving key of a request in three HTTP   *)
(* calls, fills the schema from the stored credentials, proves, and posts  *)
(* the proof; POST /wallet/zkp/fetch-descriptor stops after the schema.    *)
(*                                                                         *)
(* Each call of the wallet is one of the submissions of Presentation: from *)
(* "submit" on, the verify handler runs under the same name.  The first    *)
(* three calls read the service's state in one step each (of Descriptor's  *)
(* Load and expiry check the later moment counts; only time passes between *)
(* them).  Every URL the service hands out is already in the form          *)
(* normalizeWeirdURL produces, its audience being "http://host:9000".      *)
(***************************************************************************)
EXTENDS Presentation, FiniteSets

CONSTANTS
  Credentials,  \* credentials that can be imported into the wallet
  Fields,       \* claim names (other than aud and nonce)
  Needs,        \* Needs[s]: the fields of a schema
  Claims,       \* Claims[v][f]: "fit" or "unfit" for the constraints, or "absent"
  Visible,      \* Visible[s]: "secret" without public fields, "bound" if aud and
                \* nonce are among the public ones, "unbound" otherwise
  AgeSchemas    \* schemas with an age_verification constraint

ASSUME WalletAssumption ==
  /\ Needs \in [Schemas -> SUBSET Fields]
  /\ Claims \in [Credentials -> [Fields -> {"fit", "unfit", "absent"}]]
  /\ Visible \in [Schemas -> {"secret", "bound", "unbound"}]
  /\ AgeSchemas \subseteq Schemas

VARIABLES
  w,      \* the wallet's calls
  held,   \* VCStore: the credentials in the wallet
  setAt   \* the time.Now() compiled into the circuit a key pair was made for

walletVars == <<w, held, setAt>>
allVars == <<vars, walletVars>>

Kinds == {"create", "fetch-descriptor"}
WalletCall ==
  [at : {"idle", "descriptor", "schema", "pk", "claims", "prove", "submit", "await", "done"},
   kind : Kinds, id : Ids \cup {None}, key : Ids \cup {None},
   fits : BOOLEAN, proof : Ids \cup {None}, told : {"", "ok", "refused"},
   fault : BOOLEAN, settled : BOOLEAN, lacking : BOOLEAN, agedAt : Nat]

WInit ==
  /\ Init
  /\ w = [c \in Verifies |->
            [at |-> "idle", kind |-> "create", id |-> None, key |-> None, fits |-> FALSE,
             proof |-> None, told |-> "", fault |-> FALSE, settled |-> TRUE,
             lacking |-> FALSE, agedAt |-> 0]]
  /\ held = {}
  /\ setAt = [c \in Ids |-> 0]

SchemaOf(c) == arg[w[c].id].schema
Tell(c, r) == w' = [w EXCEPT ![c].at = "done", ![c].told = r]

-----------------------------------------------------------------------------
\* A credential arrives from the issuer (WalletIssuance has the way there).
Import(v) ==
  /\ v \notin held
  /\ held' = held \cup {v}
  /\ UNCHANGED <<vars, w, setAt>>

\* The user hands over a request id that a relying party has shown.
StartWallet(c) ==
  /\ w[c].at = "idle"
  /\ \E id \in Disclosed, k \in Kinds :
       w' = [w EXCEPT ![c].at = "descriptor", ![c].kind = k, ![c].id = id]
  /\ UNCHANGED <<vars, held, setAt>>

\* The descriptor is 404 once the request is gone, 410 once it has expired.
NoDescriptor(c) ==
  LET r == store[w[c].id] IN r = None \/ clock > r.expires

\* The schema is served from the cache the keys are in.
NoSchema(c) == keys[SchemaOf(c)] = None

\* GET descriptor.
FetchDescriptor(c) ==
  /\ w[c].kind = "create" /\ w[c].at = "descriptor"
  /\ IF NoDescriptor(c) THEN Tell(c, "refused") ELSE w' = [w EXCEPT ![c].at = "schema"]
  /\ UNCHANGED <<vars, held, setAt>>

\* GET schema, and ParseSchema of what the service has compiled itself.
FetchSchema(c) ==
  /\ w[c].kind = "create" /\ w[c].at = "schema"
  /\ IF NoSchema(c) THEN Tell(c, "refused") ELSE w' = [w EXCEPT ![c].at = "pk"]
  /\ UNCHANGED <<vars, held, setAt>>

\* POST /wallet/zkp/fetch-descriptor asks the same in a handler of its own.
HandleFetchDescriptor(c) ==
  /\ w[c].kind = "fetch-descriptor" /\ w[c].at = "descriptor"
  /\ IF NoDescriptor(c) THEN Tell(c, "refused") ELSE w' = [w EXCEPT ![c].at = "schema"]
  /\ UNCHANGED <<vars, held, setAt>>

ShowSchema(c) ==
  /\ w[c].kind = "fetch-descriptor" /\ w[c].at = "schema"
  /\ Tell(c, IF NoSchema(c) THEN "refused" ELSE "ok")
  /\ UNCHANGED <<vars, held, setAt>>

\* GET pk: the pair the service holds at this moment.
FetchPK(c) ==
  /\ w[c].at = "pk"
  /\ IF NoSchema(c)
     THEN Tell(c, "refused")
     ELSE w' = [w EXCEPT ![c].at = "claims", ![c].key = keys[SchemaOf(c)],
                         ![c].settled = Settled(SchemaOf(c))]
  /\ UNCHANGED <<vars, held, setAt>>

\* Any of the calls may fail on the way; http.Get has no timeout, so it may
\* also never return.
FetchFault(c) ==
  /\ w[c].at \in {"descriptor", "schema", "pk"}
  /\ w' = [w EXCEPT ![c].at = "done", ![c].told = "refused", ![c].fault = TRUE]
  /\ UNCHANGED <<vars, held, setAt>>

\* The credentials a field can be filled from.
Sources(f) == {v \in held : Claims[v][f] # "absent"}

\* List returns the credentials in the order of a map, and each field takes
\* the first one that has it: different fields may come from different
\* credentials.  No credential at all, or none for some field, is refused.
Orders == {p \in [held -> 1 .. Cardinality(held)] :
             \A u, v \in held : p[u] = p[v] => u = v}
First(f, order) ==
  CHOOSE v \in Sources(f) : \A u \in Sources(f) : order[v] <= order[u]

FillClaims(c) ==
  LET needed == Needs[SchemaOf(c)] IN
  /\ w[c].at = "claims"
  /\ IF held = {} \/ \E f \in needed : Sources(f) = {}
     THEN w' = [w EXCEPT ![c].at = "done", ![c].told = "refused", ![c].lacking = TRUE]
     ELSE \E order \in Orders :
            w' = [w EXCEPT ![c].at = "prove",
                           ![c].fits = \A f \in needed : Claims[First(f, order)][f] = "fit"]
  /\ UNCHANGED <<vars, held, setAt>>

\* The age bound compiled here is that of another second than the key's.
OtherSecond(c) == SchemaOf(c) \in AgeSchemas /\ setAt[w[c].key] # clock

\* ProveDynamicFromSchema: values that break a constraint have no proof.  A
\* circuit compiled in another second has other bits in its age bound; with the
\* old key it yields an error, or a proof that may or may not verify.
Prove(c) ==
  /\ w[c].at = "prove"
  /\ \/ /\ ~w[c].fits \/ OtherSecond(c)
        /\ w' = [w EXCEPT ![c].at = "done", ![c].told = "refused", ![c].agedAt = clock]
     \/ /\ w[c].fits
        /\ \E k \in (IF OtherSecond(c) THEN {w[c].key, None} ELSE {w[c].key}) :
             w' = [w EXCEPT ![c].at = "submit", ![c].proof = k, ![c].agedAt = clock]
  /\ UNCHANGED <<vars, held, setAt>>

\* Mutant: the nonce is not copied into public_inputs.
EchoesWithoutNonce(s) == Visible[s] = "secret"

\* public_inputs holds the public fields; the service compares aud and nonce
\* as soon as there is any.
Echoes(s) == Visible[s] # "unbound"

\* POST submit_url; from here VerifySubmission runs.
Submit(c) ==
  /\ w[c].at = "submit"
  /\ pc[c] = "idle"
  /\ sub' = [sub EXCEPT ![c] = [id |-> w[c].id, echoes |-> Echoes(SchemaOf(c)),
                                key |-> w[c].proof]]
  /\ Goto(c, "load")
  /\ w' = [w EXCEPT ![c].at = "await"]
  /\ UNCHANGED <<clock, reply, arg, since, rd, loaded, store, keys, verdictVars, waitVars,
                 history, held, setAt>>

\* Mutant: the status of the response is not looked at.
ReceiveVerdictUnchecked(c) ==
  /\ w[c].at = "await"
  /\ reply[c] # ""
  /\ Tell(c, "ok")
  /\ UNCHANGED <<vars, held, setAt>>

\* Anything but 2xx is passed on as 400.
ReceiveVerdict(c) ==
  /\ w[c].at = "await"
  /\ reply[c] # ""
  /\ Tell(c, IF reply[c] = "ok" THEN "ok" ELSE "refused")
  /\ UNCHANGED <<vars, held, setAt>>

\* The post fails before it arrives, or its response is lost.
SubmitFault(c) ==
  /\ w[c].at \in {"submit", "await"}
  /\ w' = [w EXCEPT ![c].at = "done", ![c].told = "refused", ![c].fault = TRUE]
  /\ UNCHANGED <<vars, held, setAt>>

-----------------------------------------------------------------------------
\* A create compiles the circuit between its look at the cache and its write.
CreateService(c) ==
  /\ CreateStep(c)
  /\ IF pc[c] = "setup" /\ pc'[c] = "save" /\ arg[c].schema \in AgeSchemas
     THEN \E t \in since[c]..clock : setAt' = [setAt EXCEPT ![c] = t]
     ELSE UNCHANGED setAt
  /\ UNCHANGED <<w, held>>

\* The rest of the service is as in Presentation, without its readers.
Service ==
  /\ \/ Tick
     \/ \E c \in Ids : StartCreate(c)
     \/ \E c \in Blockings : WaitStep(c)
     \/ \E c \in Verifies : VerifyStep(c) \/ WebhookReturns(c)
     \/ \E t \in timers : ForgetVerdict(t)
  /\ UNCHANGED walletVars

WalletStep(c) ==
  \/ FetchDescriptor(c) \/ FetchSchema(c) \/ FetchPK(c) \/ HandleFetchDescriptor(c)
  \/ ShowSchema(c) \/ FillClaims(c) \/ Prove(c) \/ Submit(c) \/ ReceiveVerdict(c)

WNext ==
  \/ Service
  \/ \E c \in Ids : CreateService(c)
  \/ \E v \in Credentials : Import(v)
  \/ \E c \in Verifies : StartWallet(c) \/ WalletStep(c) \/ FetchFault(c) \/ SubmitFault(c)

WSpec == WInit /\ [][WNext]_allVars

(***************************************************************************)
(* Fairness as in Presentation, and for the wallet's own steps: the        *)
(* service answers its GETs, whose handlers wait for nothing.              *)
(***************************************************************************)
WFairSpec ==
  /\ WSpec
  /\ WF_allVars(Tick /\ UNCHANGED walletVars)
  /\ \A c \in Ids : WF_allVars(CreateService(c))
  /\ \A c \in Blockings : WF_allVars(WaitStep(c) /\ UNCHANGED walletVars)
  /\ \A c \in Verifies :
       /\ WF_allVars((VerifyStep(c) \/ WebhookSkipped(c)) /\ UNCHANGED walletVars)
       /\ WF_allVars((\E t \in timers : t.by = c /\ ForgetVerdict(t)) /\ UNCHANGED walletVars)
       /\ WF_allVars(WalletStep(c))

-----------------------------------------------------------------------------
\* Every variable of the wallet holds a value of its kind.
WTypeOK ==
  /\ w \in [Verifies -> WalletCall]
  /\ held \subseteq Credentials
  /\ setAt \in [Ids -> Nat]

\* What can stand between an honest wallet and its acceptance once it has proved.
Late(c) == clock > since[w[c].id] + TTL
Consumed(c) == store[w[c].id] = None
WrongSecond(c) == SchemaOf(c) \in AgeSchemas /\ w[c].agedAt # setAt[w[c].key]
Unfit(c) == \E f \in Needs[SchemaOf(c)] : \E v \in held : Claims[v][f] = "unfit"

\* A wallet that was not disturbed on the way is told "refused" only if the
\* request is late or used up, the wallet lacks a field or holds an unfit value
\* for one, the schema has public fields without aud and nonce, its age bound is
\* of another second, the relying party's callback cannot be called, or the
\* proving key was fetched while some create was between its look at the cache
\* and its write.  In particular no create that begins after the fetch
\* invalidates the proof.
HonestRefusedForCause ==
  \A c \in Verifies :
    (w[c].told = "refused" /\ ~w[c].fault) =>
      \/ Late(c) \/ Consumed(c)
      \/ w[c].lacking \/ Unfit(c)
      \/ Visible[SchemaOf(c)] = "unbound"
      \/ WrongSecond(c)
      \/ reply[c] = "panic"
      \/ ~w[c].settled

\* What the wallet tells its user agrees with what the relying party sees: it says
\* ok only if the service accepted this proof and used the request up for it, and
\* a proof accepted by the service is reported refused only if the response was lost on the way.
WalletTellsVerdict ==
  \A c \in Verifies :
    /\ w[c].told = "ok" /\ w[c].kind = "create" => reply[c] = "ok" /\ Consumed(c)
    /\ w[c].told = "refused" /\ reply[c] = "ok" => w[c].fault

=============================================================================
