------------------------ MODULE WalletProvingProofs ------------------------
(***************************************************************************)
(* Proofs about the proving wallet and the service it talks to, for any    *)
(* calls, schemas, credentials and claims.  First: whatever the wallet     *)
(* does, the service sees one of the submissions Presentation allows, so   *)
(* that everything proved of the service holds beside the wallet.  Then:   *)
(* what the wallet says agrees with what the service did, and an honest    *)
(* wallet is refused for a cause only.  The invariant follows a wallet     *)
(* call through its handler and then through the submission handler that   *)
(* runs under the same name.                                               *)
(***************************************************************************)
EXTENDS WalletProving, PresentationProofs, FiniteSetTheorems

\* Every copy of a request has the schema it was created for, whose keys are held
\* once the creating call is past its setup; a pair that is held was published,
\* and by a call that is past its setup.
Drawn ==
  /\ \A id \in Ids :
       pc[id] = "save" \/ pc[id] \in Issued \/ id \in Disclosed => keys[arg[id].schema] # None
  /\ \A id \in Ids : store[id] # None => store[id].schema = arg[id].schema
  /\ \A id \in Ids : loaded[id] # None => loaded[id].schema = arg[id].schema
  /\ \A s \in Schemas : keys[s] # None => keys[s] \in published[s]
  /\ \A s \in Schemas : \A k \in published[s] : pc[k] \notin {"idle", "ensure", "setup"}

\* The wallet works on a request it was shown, with a key that was served for it;
\* a key served while nobody was drawing another is still the one held.
Keyed(c) ==
  /\ w[c].at # "idle" => w[c].id \in Disclosed
  /\ w[c].at \in {"claims", "prove", "submit", "await"} => w[c].key # None
  /\ w[c].key # None =>
       /\ w[c].at # "idle"
       /\ w[c].key \in published[SchemaOf(c)]
       /\ w[c].settled => Settled(SchemaOf(c)) /\ keys[SchemaOf(c)] = w[c].key

\* What can be wrong with a proof that was submitted.
Doubtful(c) ==
  \/ Expired(w[c].id)
  \/ Visible[SchemaOf(c)] = "unbound"
  \/ w[c].key # None /\ WrongSecond(c)
  \/ ~w[c].settled

\* From "submit" on: the proof is made with the key of the call, or with another
\* circuit than the key's; what is submitted is that proof.
Sending(c) ==
  /\ w[c].proof \in {None, w[c].key}
  /\ w[c].proof # None => w[c].at \in {"submit", "await", "done"}
  /\ w[c].at \in {"submit", "await"} \/ pc[c] # "idle" =>
       w[c].key # None /\ (w[c].proof = None => WrongSecond(c))
  /\ pc[c] # "idle" =>
       /\ w[c].at \in {"await", "done"}
       /\ sub[c] = [id |-> w[c].id, echoes |-> Echoes(SchemaOf(c)), key |-> w[c].proof]
  /\ w[c].at = "await" => pc[c] # "idle"

\* The submission handler works on a true copy of the request, and fails for a reason.
Judged(c) ==
  /\ loaded[c] # None =>
       loaded[c].schema = SchemaOf(c) /\ loaded[c].expires = since[w[c].id] + TTL
  /\ pc[c] = "drop" => Expired(w[c].id)
  /\ pc[c] \in {"fail", "hookFail", "notifyFail"} \/ reply[c] = "failed" => Doubtful(c)
  /\ reply[c] = "notfound" => Ended(w[c].id)
  /\ reply[c] \in {"", "ok", "failed", "notfound", "panic"}

\* Why the wallet was refused.
Cause(c) ==
  \/ Ended(w[c].id) \/ w[c].lacking \/ Unfit(c) \/ Doubtful(c) \/ reply[c] = "panic"

\* What the user is told.
Heard(c) ==
  /\ w[c].told # "" => w[c].at = "done"
  /\ w[c].at = "prove" /\ ~w[c].fits => Unfit(c)
  /\ w[c].told = "refused" /\ ~w[c].fault =>
       Cause(c) /\ (pc[c] # "idle" => reply[c] # "" /\ reply[c] # "ok")
  /\ w[c].told = "ok" /\ w[c].kind = "create" => reply[c] = "ok"

Course(c) == Keyed(c) /\ Sending(c) /\ Judged(c) /\ Heard(c)
Courses == \A c \in Verifies : Course(c)
WInv == WTypeOK /\ TypeInv /\ Inv /\ TellInv /\ Drawn /\ Courses

-----------------------------------------------------------------------------
(***************************************************************************)
(* The service beside the wallet.                                          *)
(***************************************************************************)

\* Whether a server echoes a schema is a truth value.
LEMMA Boolean ==
  ASSUME NEW s
  PROVE  Echoes(s) \in BOOLEAN
BY DEF Echoes

\* Everything holds initially.
LEMMA WInvInit == WInit => WInv
<1> SUFFICES ASSUME WInit PROVE WInv
  OBVIOUS
<1>1. Init
  BY DEF WInit
<1>2. TypeInv /\ Inv /\ TellInv
  BY <1>1, TypeInit, InvInit, TellInit
<1>3. WTypeOK
  <2>1. [at |-> "idle", kind |-> "create", id |-> None, key |-> None, fits |-> FALSE,
         proof |-> None, told |-> "", fault |-> FALSE, settled |-> TRUE,
         lacking |-> FALSE, agedAt |-> 0] \in WalletCall
    BY DEF WalletCall, Kinds
  <2> QED
    BY <2>1 DEF WInit, WTypeOK
<1>4. /\ \A c \in Calls : pc[c] = "idle" /\ reply[c] = "" /\ loaded[c] = None
      /\ \A id \in Ids : store[id] = None
      /\ \A s \in Schemas : keys[s] = None /\ published[s] = {}
  BY <1>1 DEF Init
<1>5. Drawn
  BY <1>4, CallKinds DEF Drawn, Issued, Disclosed
<1>6. ASSUME NEW c \in Verifies PROVE Course(c)
  <2>1. w[c].at = "idle" /\ w[c].key = None /\ w[c].proof = None /\ w[c].told = ""
    BY DEF WInit
  <2>2. pc[c] = "idle" /\ reply[c] = "" /\ loaded[c] = None
    BY <1>4, CallKinds
  <2> QED
    BY <2>1, <2>2 DEF Course, Keyed, Sending, Judged, Heard
<1> QED
  BY <1>2, <1>3, <1>5, <1>6 DEF WInv, Courses

\* Whatever the wallet does, the service makes a step of its own or none: in
\* particular what the wallet posts is a submission Presentation allows.
LEMMA ServiceSteps ==
  ASSUME TypeInv, Courses, [WNext]_allVars
  PROVE  [Next]_vars
<1>1. ASSUME Service PROVE Next
  BY <1>1 DEF Service, Next
<1>2. ASSUME NEW c \in Ids, CreateService(c) PROVE Next
  BY <1>2 DEF CreateService, Next
<1>3. ASSUME NEW c \in Verifies, Submit(c) PROVE Next
  <2>1. /\ w[c].id \in Disclosed
        /\ w[c].proof \in published[arg[w[c].id].schema] \cup {None}
    BY <1>3 DEF Submit, Courses, Course, Keyed, Sending, SchemaOf
  <2>2. Echoes(SchemaOf(c)) \in BOOLEAN
    BY Boolean
  <2>3. /\ pc[c] = "idle" /\ Goto(c, "load")
        /\ sub' = [sub EXCEPT ![c] = [id |-> w[c].id, echoes |-> Echoes(SchemaOf(c)),
                                      key |-> w[c].proof]]
    BY <1>3 DEF Submit
  <2>4. \E id \in Disclosed, e \in BOOLEAN :
        \E k \in published[arg[id].schema] \cup {None} :
          sub' = [sub EXCEPT ![c] = [id |-> id, echoes |-> e, key |-> k]]
    BY <2>1, <2>2, <2>3
  <2>5. UNCHANGED <<clock, reply, arg, since, rd, loaded, store, keys, verdictVars, waitVars, history>>
    BY <1>3 DEF Submit
  <2>6. StartVerify(c)
    BY <2>3, <2>4, <2>5 DEF StartVerify
  <2> QED
    BY <2>6 DEF Next
<1>4. ASSUME NEW v \in Credentials, Import(v) PROVE UNCHANGED vars
  BY <1>4 DEF Import
<1>5. ASSUME NEW c \in Verifies,
             StartWallet(c) \/ FetchDescriptor(c) \/ FetchSchema(c) \/ FetchPK(c)
             \/ HandleFetchDescriptor(c) \/ ShowSchema(c) \/ FillClaims(c) \/ Prove(c)
             \/ ReceiveVerdict(c) \/ FetchFault(c) \/ SubmitFault(c)
      PROVE  UNCHANGED vars
  BY <1>5 DEF StartWallet, FetchDescriptor, FetchSchema, FetchPK, HandleFetchDescriptor,
     ShowSchema, FillClaims, Prove, ReceiveVerdict, FetchFault, SubmitFault
<1>6. CASE UNCHANGED allVars
  BY <1>6 DEF allVars
<1> QED
  BY <1>1, <1>2, <1>3, <1>4, <1>5, <1>6 DEF WNext, WalletStep

\* Every step of the service keeps schemas, keys and requests together.
LEMMA DrawnNext ==
  ASSUME TypeInv, Inv, Drawn, [Next]_vars
  PROVE  Drawn'
<1>1. ASSUME CreatesRest, \A id \in Ids : store'[id] \in {store[id], None} PROVE Drawn'
  <2>1. Disclosed' = Disclosed
    BY <1>1 DEF CreatesRest, Disclosed
  <2>2. \A s \in Schemas : \A k \in published[s] : pc'[k] = pc[k]
    BY <1>1 DEF CreatesRest, TypeInv, SharedOK
  <2> QED
    BY <1>1, <2>1, <2>2 DEF CreatesRest, Drawn
<1>2. CASE Serving
  <2>1. CreatesRest
    BY <1>2, ServingRests
  <2>2. \A id \in Ids : store'[id] \in {store[id], None}
    BY <1>2, VerifyAlone, ReadAlone DEF Serving
  <2> QED
    BY <1>1, <2>1, <2>2
<1>3. CASE Passing
  BY <1>1, <1>3, PassingRests
<1>4. CASE Creating
  <2>1. PICK c \in Ids : StartCreate(c) \/ CreateStep(c) \/ WaitStep(c)
    BY <1>4, CallKinds DEF Creating
  <2>2. /\ \A d \in Ids : d # c => pc'[d] = pc[d]
        /\ \A d \in Ids : d # c => reply'[d] = reply[d]
        /\ \A d \in Ids : d # c => loaded'[d] = loaded[d]
    BY <2>1, Shape, CallKinds DEF StartCreate, CreateStep, EnsureCheck, EnsureFails, EnsureStore,
       SaveRequest, AttachLoad, AttachSave, RespondCreated, WaitStep, WaitRegister, WaitSelect,
       Answer, Goto
  <2>3. \A d \in Ids : d # c => arg'[d] = arg[d] /\ store'[d] = store[d]
    BY <2>1, Shape DEF StartCreate, CreateStep, EnsureCheck, EnsureFails, EnsureStore, SaveRequest,
       AttachLoad, AttachSave, RespondCreated, WaitStep, WaitRegister, WaitSelect, inputVars
  <2>4. \A d \in Ids : d # c => (d \in Disclosed' <=> d \in Disclosed)
    BY <2>2 DEF Disclosed
  <2>5. \A s \in Schemas : published[s] \subseteq Ids
    BY DEF TypeInv, SharedOK
  \* Calls that draw no keys.
  <2>6. ASSUME keys' = keys, published' = published,
               pc'[c] = "save" \/ pc'[c] \in Issued \/ c \in Disclosed' => keys[arg'[c].schema] # None,
               store'[c] # None => store'[c].schema = arg'[c].schema,
               loaded'[c] # None => loaded'[c].schema = arg'[c].schema,
               pc'[c] \in {"idle", "ensure", "setup"} => pc[c] \in {"idle", "ensure", "setup"}
        PROVE  Drawn'
    <3>1. \A id \in Ids :
            pc'[id] = "save" \/ pc'[id] \in Issued \/ id \in Disclosed' => keys'[arg'[id].schema] # None
      BY <2>2, <2>3, <2>4, <2>6 DEF Drawn
    <3>2. /\ \A id \in Ids : store'[id] # None => store'[id].schema = arg'[id].schema
          /\ \A id \in Ids : loaded'[id] # None => loaded'[id].schema = arg'[id].schema
      BY <2>2, <2>3, <2>6 DEF Drawn
    <3>3. \A s \in Schemas : \A k \in published[s] : pc'[k] \notin {"idle", "ensure", "setup"}
      BY <2>2, <2>5, <2>6 DEF Drawn
    <3> QED
      BY <2>6, <3>1, <3>2, <3>3 DEF Drawn
  <2>7. CASE StartCreate(c)
    <3>1. keys' = keys /\ published' = published /\ store' = store /\ loaded' = loaded
          /\ reply' = reply /\ pc[c] = "idle" /\ pc'[c] = "ensure"
      BY <2>7, Shape, CallKinds DEF StartCreate, Goto, history
    <3>2. store[c] = None /\ loaded[c] = None /\ c \notin Disclosed'
      BY <3>1, Shape, CallKinds, Untouched DEF Inv, Private, Fresh, Disclosed
    <3> QED
      BY <2>6, <3>1, <3>2 DEF Issued
  <2>8. CASE EnsureCheck(c)
    <3>1. keys' = keys /\ published' = published /\ store' = store /\ loaded' = loaded
          /\ reply' = reply /\ arg' = arg /\ pc[c] = "ensure"
      BY <2>8 DEF EnsureCheck, history, inputVars
    <3>2. pc'[c] \in {"save", "setup"} /\ (pc'[c] = "save" => keys[arg[c].schema] # None)
      BY <2>8, Shape, CallKinds DEF EnsureCheck, Goto
    <3>3. c \notin Disclosed'
      BY <3>1, Untouched DEF Inv, Disclosed
    <3> QED
      BY <2>6, <3>1, <3>2, <3>3 DEF Issued, Drawn
  <2>9. CASE EnsureFails(c)
    <3>1. keys' = keys /\ published' = published /\ store' = store /\ arg' = arg
          /\ reply'[c] = "rejected" /\ pc'[c] = "done" /\ loaded'[c] = None
      BY <2>9, Shape, CallKinds DEF EnsureFails, Answer, Goto, history, inputVars
    <3>2. c \notin Disclosed'
      BY <3>1 DEF Disclosed
    <3> QED
      BY <2>6, <3>1, <3>2 DEF Issued, Drawn
  <2>10. CASE EnsureStore(c)
    <3>1. PICK s \in Schemas : s = arg[c].schema
      BY <2>10, Shape DEF EnsureStore
    <3>2. /\ keys' = [keys EXCEPT ![s] = c] /\ published' = [published EXCEPT ![s] = @ \cup {c}]
          /\ store' = store /\ arg' = arg /\ loaded' = loaded /\ reply' = reply
          /\ pc[c] = "setup" /\ pc'[c] = "save"
      BY <2>10, <3>1, Shape, CallKinds DEF EnsureStore, Goto, inputVars
    <3>3. /\ keys'[s] = c /\ \A x \in Schemas : x # s => keys'[x] = keys[x]
          /\ published'[s] = published[s] \cup {c}
          /\ \A x \in Schemas : x # s => published'[x] = published[x]
      BY <3>2 DEF TypeInv, SharedOK
    <3>4. c # None
      BY NoneAssumption
    <3>5. \A id \in Ids :
            pc[id] # "idle" /\ keys[arg[id].schema] # None => keys'[arg[id].schema] # None
      BY <3>3, <3>4, Shape
    <3>6. \A id \in Ids :
            pc'[id] = "save" \/ pc'[id] \in Issued \/ id \in Disclosed' => keys'[arg[id].schema] # None
      BY <2>2, <3>1, <3>2, <3>3, <3>4, <3>5, Untouched DEF Drawn, Issued, Disclosed, Inv
    <3>7. \A x \in Schemas : keys'[x] # None => keys'[x] \in published'[x]
      BY <3>3 DEF Drawn
    <3>8. \A x \in Schemas : \A k \in published'[x] : pc'[k] \notin {"idle", "ensure", "setup"}
      BY <2>2, <2>5, <3>2, <3>3 DEF Drawn
    <3> QED
      BY <3>2, <3>6, <3>7, <3>8 DEF Drawn
  <2>11. CASE SaveRequest(c)
    <3>1. /\ keys' = keys /\ published' = published /\ arg' = arg /\ loaded' = loaded
          /\ reply' = reply /\ pc[c] = "save" /\ pc'[c] \notin {"idle", "ensure", "setup"}
          /\ store'[c].schema = arg[c].schema
      BY <2>11, Shape, CallKinds DEF SaveRequest, Goto, history, inputVars
    <3> QED
      BY <2>6, <3>1 DEF Drawn
  <2>12. CASE AttachLoad(c)
    <3>1. /\ keys' = keys /\ published' = published /\ arg' = arg /\ store' = store
          /\ reply' = reply /\ pc[c] = "attach" /\ pc'[c] \notin {"idle", "ensure", "setup"}
          /\ loaded'[c] = store[c]
      BY <2>12, Shape, CallKinds DEF AttachLoad, Goto, history, inputVars
    <3> QED
      BY <2>6, <3>1 DEF Drawn, Issued
  <2>13. CASE AttachSave(c)
    <3>1. loaded[c] \in Request
      BY <2>13, CallKinds DEF AttachSave, TypeInv, CallsInv, Progress, Holding
    <3>2. /\ keys' = keys /\ published' = published /\ arg' = arg /\ loaded' = loaded
          /\ reply' = reply /\ pc[c] = "attachSave" /\ pc'[c] = "respond"
          /\ store'[c] = [loaded[c] EXCEPT !.callback = arg[c].callback]
      BY <2>13, Shape, CallKinds DEF AttachSave, Goto, history, inputVars
    <3>3. store'[c].schema = loaded[c].schema /\ loaded[c] # None
      BY <3>1, <3>2, NoneAssumption DEF Request
    <3> QED
      BY <2>6, <3>2, <3>3 DEF Drawn, Issued
  <2>14. CASE RespondCreated(c) \/ WaitStep(c)
    <3>1. keys' = keys /\ published' = published /\ arg' = arg /\ store' = store
      BY <2>14 DEF RespondCreated, WaitStep, WaitRegister, WaitSelect, history, inputVars
    <3>2. pc[c] \in Issued /\ pc'[c] \notin {"idle", "ensure", "setup"}
          /\ loaded'[c] \in {loaded[c], None}
      BY <2>14, Shape, CallKinds DEF RespondCreated, WaitStep, WaitRegister, WaitSelect, Answer,
         Goto, Issued
    <3> QED
      BY <2>6, <3>1, <3>2 DEF Drawn
  <2> QED
    BY <2>1, <2>7, <2>8, <2>9, <2>10, <2>11, <2>12, <2>13, <2>14 DEF CreateStep
<1> QED
  BY <1>2, <1>3, <1>4, StepKinds

-----------------------------------------------------------------------------
(***************************************************************************)
(* What a step leaves to the wallet's calls.                               *)
(***************************************************************************)

\* A request that was disclosed keeps its schema, what was published stays, settled
\* keys stay, the time compiled into a published key stays, and credentials are
\* never removed.
Steady ==
  /\ Onward
  /\ \A id \in Disclosed : arg'[id] = arg[id]
  /\ \A s \in Schemas : published[s] \subseteq published'[s]
  /\ \A s \in Schemas : Settled(s) => Settled(s)' /\ keys'[s] = keys[s]
  /\ \A s \in Schemas : \A k \in published[s] : setAt'[k] = setAt[k]
  /\ held \subseteq held'

\* The schema of a disclosed request is one.
LEMMA DisclosedSchema ==
  ASSUME TypeInv, Inv, NEW id \in Disclosed
  PROVE  id \in Ids /\ pc[id] = "done" /\ arg[id].schema \in Schemas
<1>1. id \in Ids
  BY DEF Disclosed
<1>2. pc[id] = "done"
  BY <1>1, Untouched DEF Inv
<1> QED
  BY <1>1, <1>2, Shape

\* Every step is steady.
LEMMA SteadyStep ==
  ASSUME WInv, TypeInv', [WNext]_allVars
  PROVE  Steady
<1>1. [Next]_vars
  BY ServiceSteps DEF WInv
<1>2. Onward
  BY <1>1, OnwardStep DEF WInv, TellInv
<1>3. \A s \in Schemas : Settled(s) => Settled(s)' /\ keys'[s] = keys[s]
  BY <1>1, SettledStays DEF WInv
<1>4. \A id \in Disclosed : arg'[id] = arg[id]
  <2>1. CASE Creating
    <3>1. PICK c \in Ids : StartCreate(c) \/ CreateStep(c) \/ WaitStep(c)
      BY <2>1, CallKinds DEF Creating
    <3>2. pc[c] # "done" /\ \A d \in Ids : d # c => arg'[d] = arg[d]
      BY <3>1, Shape DEF WInv, StartCreate, CreateStep, EnsureCheck, EnsureFails, EnsureStore,
         SaveRequest, AttachLoad, AttachSave, RespondCreated, WaitStep, WaitRegister, WaitSelect,
         inputVars
    <3> QED
      BY <3>2, DisclosedSchema DEF WInv
  <2> QED
    BY <1>1, <2>1, StepKinds, ServingRests, PassingRests DEF CreatesRest, WInv
<1>5. \A s \in Schemas : published[s] \subseteq published'[s]
  <2>1. CASE Creating
    <3>1. PICK c \in Ids : StartCreate(c) \/ CreateStep(c) \/ WaitStep(c)
      BY <2>1, CallKinds DEF Creating
    <3>2. CASE EnsureStore(c)
      BY <3>2 DEF EnsureStore, WInv, TypeInv, SharedOK
    <3>3. CASE ~EnsureStore(c)
      <4>1. published' = published
        BY <3>1, <3>3 DEF StartCreate, CreateStep, EnsureCheck, EnsureFails,
           SaveRequest, AttachLoad, AttachSave, RespondCreated, WaitStep, WaitRegister, WaitSelect,
           history
      <4> QED
        BY <4>1
    <3> QED
      BY <3>2, <3>3
  <2> QED
    BY <1>1, <2>1, StepKinds, ServingRests, PassingRests DEF CreatesRest, WInv
<1>6. \A s \in Schemas : \A k \in published[s] : setAt'[k] = setAt[k]
  <2>1. ASSUME NEW c \in Ids, CreateService(c), NEW s \in Schemas, NEW k \in published[s]
        PROVE  setAt'[k] = setAt[k]
    <3>1. pc[k] # "setup"
      BY <2>1 DEF WInv, Drawn
    <3>2. pc[c] = "setup" => k # c
      BY <3>1
    <3>3. \/ setAt' = setAt
          \/ pc[c] = "setup" /\ \E t \in since[c] .. clock : setAt' = [setAt EXCEPT ![c] = t]
      BY <2>1 DEF CreateService
    <3>4. k \in Ids /\ DOMAIN setAt = Ids
      BY <2>1 DEF WInv, TypeInv, SharedOK, WTypeOK
    <3> QED
      BY <3>2, <3>3, <3>4
  <2>2. ASSUME NEW c \in Verifies, StartWallet(c) \/ WalletStep(c) \/ FetchFault(c) \/ SubmitFault(c)
        PROVE  setAt' = setAt
    BY <2>2 DEF StartWallet, WalletStep, FetchDescriptor, FetchSchema, FetchPK, Submit,
       HandleFetchDescriptor, ShowSchema, FillClaims, Prove, ReceiveVerdict, FetchFault, SubmitFault
  <2>3. ASSUME Service \/ UNCHANGED allVars PROVE setAt' = setAt
    BY <2>3 DEF Service, walletVars, allVars
  <2>4. ASSUME NEW v \in Credentials, Import(v) PROVE setAt' = setAt
    BY <2>4 DEF Import
  <2> QED
    BY <2>1, <2>2, <2>3, <2>4 DEF WNext
<1>7. held \subseteq held'
  <2>2. ASSUME NEW c \in Verifies, StartWallet(c) \/ WalletStep(c) \/ FetchFault(c) \/ SubmitFault(c)
        PROVE  held' = held
    BY <2>2 DEF StartWallet, WalletStep, FetchDescriptor, FetchSchema, FetchPK, Submit,
       HandleFetchDescriptor, ShowSchema, FillClaims, Prove, ReceiveVerdict, FetchFault, SubmitFault
  <2>3. ASSUME Service \/ (\E c \in Ids : CreateService(c)) \/ UNCHANGED allVars PROVE held' = held
    BY <2>3 DEF Service, CreateService, walletVars, allVars
  <2>4. ASSUME NEW v \in Credentials, Import(v) PROVE held \subseteq held'
    BY <2>4 DEF Import
  <2> QED
    BY <2>2, <2>3, <2>4 DEF WNext
<1> QED
  BY <1>2, <1>3, <1>4, <1>5, <1>6, <1>7 DEF Steady

\* The grounds on which a call of the wallet is refused stay.
LEMMA GroundsStay ==
  ASSUME TypeInv, Inv, Steady, NEW c \in Verifies, w[c].id \in Disclosed,
         w[c].key # None => w[c].key \in published[SchemaOf(c)],
         w'[c].id = w[c].id, w'[c].key = w[c].key,
         w'[c].agedAt = w[c].agedAt, w'[c].settled = w[c].settled
  PROVE  /\ SchemaOf(c)' = SchemaOf(c) /\ SchemaOf(c) \in Schemas
         /\ w[c].id \in Disclosed'
         /\ since'[w[c].id] = since[w[c].id]
         /\ Expired(w[c].id) => Expired(w[c].id)'
         /\ Ended(w[c].id) => Ended(w[c].id)'
         /\ w[c].key # None /\ WrongSecond(c) => WrongSecond(c)'
         /\ Doubtful(c) => Doubtful(c)'
         /\ Unfit(c) => Unfit(c)'
<1>1. PICK i \in Disclosed : i = w[c].id
  OBVIOUS
<1>2. /\ arg'[i] = arg[i] /\ i \in Disclosed' /\ since'[i] = since[i]
      /\ (Expired(i) => Expired(i)') /\ (Ended(i) => Ended(i)')
  BY DEF Steady, Onward
<1>3. SchemaOf(c)' = SchemaOf(c) /\ SchemaOf(c) \in Schemas
  BY <1>1, <1>2, DisclosedSchema DEF SchemaOf
<1>4. /\ Expired(w[c].id) <=> Expired(i)
      /\ Expired(w[c].id)' <=> Expired(i)'
      /\ Ended(w[c].id) <=> Ended(i)
      /\ Ended(w[c].id)' <=> Ended(i)'
  BY <1>1 DEF Ended, Expired
<1>5. w[c].key # None => setAt'[w[c].key] = setAt[w[c].key]
  BY <1>3 DEF Steady
<1>6. w[c].key # None /\ WrongSecond(c) => WrongSecond(c)'
  BY <1>3, <1>5 DEF WrongSecond
<1>7. Unfit(c) => Unfit(c)'
  BY <1>3 DEF Steady, Unfit
<1>8. Doubtful(c) => Doubtful(c)'
  <2>1. CASE Expired(w[c].id)
    BY <1>2, <1>4, <2>1 DEF Doubtful
  <2>2. CASE Visible[SchemaOf(c)] = "unbound" \/ ~w[c].settled
    BY <1>3, <2>2 DEF Doubtful
  <2>3. CASE w[c].key # None /\ WrongSecond(c)
    BY <1>6, <2>3 DEF Doubtful
  <2> QED
    BY <2>1, <2>2, <2>3 DEF Doubtful
<1> QED
  BY <1>1, <1>2, <1>3, <1>4, <1>6, <1>7, <1>8

\* So does what is known of its key.
LEMMA KeyedStays ==
  ASSUME TypeInv, Inv, Steady, NEW c \in Verifies, Keyed(c), w'[c] = w[c]
  PROVE  Keyed(c)'
<1>1. CASE w[c].at = "idle"
  BY <1>1 DEF Keyed
<1>2. CASE w[c].at # "idle"
  <2>1. SchemaOf(c)' = SchemaOf(c) /\ SchemaOf(c) \in Schemas /\ w[c].id \in Disclosed'
    BY <1>2, GroundsStay DEF Keyed
  <2>2. PICK s \in Schemas : s = SchemaOf(c) /\ s = SchemaOf(c)'
    BY <2>1
  <2>3. /\ published[s] \subseteq published'[s]
        /\ Settled(s) => Settled(s)' /\ keys'[s] = keys[s]
    BY DEF Steady
  <2>4. (Settled(SchemaOf(c)) <=> Settled(s)) /\ (Settled(SchemaOf(c))' <=> Settled(s)')
    BY <2>2 DEF Settled
  <2> QED
    BY <1>2, <2>1, <2>2, <2>3, <2>4 DEF Keyed
<1> QED
  BY <1>1, <1>2

\* And everything about a call that neither moves in the wallet nor at the service.
LEMMA CourseStays ==
  ASSUME TypeInv, Inv, Steady, NEW c \in Verifies, Course(c), w'[c] = w[c],
         pc'[c] = pc[c], reply'[c] = reply[c], loaded'[c] = loaded[c], sub'[c] = sub[c]
  PROVE  Course(c)'
<1>1. Keyed(c)'
  BY KeyedStays DEF Course
<1>2. CASE w[c].at = "idle"
  <2>1. w[c].key = None /\ w[c].told = "" /\ pc[c] = "idle" /\ w[c].proof = None
    BY <1>2 DEF Course, Keyed, Sending, Heard
  <2>2. loaded[c] = None /\ reply[c] = ""
    BY <2>1, Shape, CallKinds
  <2> QED
    BY <1>1, <1>2, <2>1, <2>2 DEF Course, Sending, Judged, Heard
<1>3. CASE w[c].at # "idle"
  <2>1. /\ SchemaOf(c)' = SchemaOf(c)
        /\ since'[w[c].id] = since[w[c].id]
        /\ Expired(w[c].id) => Expired(w[c].id)'
        /\ Ended(w[c].id) => Ended(w[c].id)'
        /\ w[c].key # None /\ WrongSecond(c) => WrongSecond(c)'
        /\ Doubtful(c) => Doubtful(c)'
        /\ Unfit(c) => Unfit(c)'
    BY <1>3, GroundsStay DEF Course, Keyed
  <2>2. Sending(c)'
    BY <2>1 DEF Course, Sending, Echoes
  <2>3. Judged(c)'
    BY <2>1 DEF Course, Judged
  <2>4. Cause(c) => Cause(c)'
    BY <2>1 DEF Cause
  <2>5. Heard(c)'
    BY <2>1, <2>4 DEF Course, Heard
  <2> QED
    BY <1>1, <2>2, <2>3, <2>5 DEF Course
<1> QED
  BY <1>2, <1>3

-----------------------------------------------------------------------------
(***************************************************************************)
(* The submission handler, under the name of the wallet's call.            *)
(***************************************************************************)

\* A move of the handler changes only what Judged says.
LEMMA HandlerMoves ==
  ASSUME TypeInv, Inv, Steady, NEW c \in Verifies, Course(c), w'[c] = w[c], sub'[c] = sub[c],
         pc[c] \notin {"idle", "done"}, pc'[c] # "idle", Judged(c)'
  PROVE  Course(c)'
<1>1. Keyed(c)'
  BY KeyedStays DEF Course
<1>2. w[c].at \in {"await", "done"} /\ reply[c] = ""
  BY Shape, CallKinds DEF Course, Sending
<1>3. /\ SchemaOf(c)' = SchemaOf(c)
      /\ w[c].key # None /\ WrongSecond(c) => WrongSecond(c)'
  BY <1>2, GroundsStay DEF Course, Keyed
<1>4. Sending(c)'
  BY <1>2, <1>3 DEF Course, Sending, Echoes
<1>5. ~(w[c].told = "refused" /\ ~w[c].fault) /\ ~(w[c].told = "ok" /\ w[c].kind = "create")
  BY <1>2 DEF Course, Heard
<1>6. Heard(c)'
  BY <1>2, <1>5 DEF Course, Heard
<1> QED
  BY <1>1, <1>4, <1>6 DEF Course

\* The handler judges a submission on its merits.
LEMMA HandlerJudges ==
  ASSUME WInv, Steady, NEW c \in Verifies, VerifyStep(c) \/ WebhookReturns(c), w' = w
  PROVE  Course(c)'
<1> USE DEF WInv
<1>1. Course(c) /\ pc[c] \notin {"idle", "done"} /\ sub' = sub /\ clock' = clock
  BY DEF Courses, VerifyStep, VerifyLoad, VerifyExpiry, DropExpired, VerifyProof, Consume,
     RecordVerified, RecordFailed, WebhookPanics, NotifyWaiters, WebhookReturns, inputVars
<1>2. PICK i \in Disclosed : /\ i = w[c].id /\ i = sub[c].id /\ i \in Ids
  BY <1>1, DisclosedSchema DEF Course, Keyed, Sending
<1>3. /\ sub[c].key = w[c].proof /\ sub[c].echoes = Echoes(SchemaOf(c))
      /\ w[c].at # "idle" /\ w[c].key # None
  BY <1>1 DEF Course, Sending
<1>4. /\ SchemaOf(c)' = SchemaOf(c) /\ SchemaOf(c) \in Schemas
      /\ since'[w[c].id] = since[w[c].id]
      /\ Expired(w[c].id) => Expired(w[c].id)'
      /\ Ended(w[c].id) => Ended(w[c].id)'
      /\ Doubtful(c) => Doubtful(c)'
  BY <1>1, <1>3, GroundsStay DEF Course, Keyed
<1>5. SchemaOf(c) = arg[i].schema
  BY <1>2 DEF SchemaOf
<1>6. ASSUME pc'[c] # "idle",
             loaded'[c] # None =>
               loaded'[c].schema = SchemaOf(c) /\ loaded'[c].expires = since[w[c].id] + TTL,
             pc'[c] = "drop" => Expired(w[c].id),
             pc'[c] \in {"fail", "hookFail", "notifyFail"} \/ reply'[c] = "failed" => Doubtful(c),
             reply'[c] = "notfound" => Ended(w[c].id),
             reply'[c] \in {"", "ok", "failed", "notfound", "panic"}
      PROVE  Course(c)'
  <2>1. Judged(c)'
    BY <1>4, <1>6 DEF Judged
  <2> QED
    BY <1>1, <1>6, <2>1, HandlerMoves
<1>7. reply[c] = "" /\ pc[c] # "done"
  BY <1>1, Shape, CallKinds
<1>8. CASE VerifyLoad(c)
  <2>1. CASE store[i] = None
    <3>0. /\ pc' = [pc EXCEPT ![c] = "done"] /\ reply' = [reply EXCEPT ![c] = "notfound"]
          /\ loaded' = [loaded EXCEPT ![c] = None]
      BY <1>2, <1>8, <2>1 DEF VerifyLoad, Answer, Goto
    <3>1. pc'[c] = "done" /\ reply'[c] = "notfound" /\ loaded'[c] = None
      BY <3>0, Shape, CallKinds
    <3>2. Ended(w[c].id)
      BY <1>2, <2>1 DEF Ended
    <3> QED
      BY <1>6, <3>1, <3>2
  <2>2. CASE store[i] # None
    <3>0. /\ pc' = [pc EXCEPT ![c] = "expiry"] /\ reply' = reply
          /\ loaded' = [loaded EXCEPT ![c] = store[i]]
      BY <1>2, <1>8, <2>2 DEF VerifyLoad, Goto
    <3>1. pc'[c] = "expiry" /\ reply'[c] = "" /\ loaded'[c] = store[i]
      BY <1>7, <3>0, Shape, CallKinds
    <3>2. store[i].schema = arg[i].schema /\ store[i].expires = since[i] + TTL
      BY <1>2, <2>2 DEF Drawn, TellInv, Lifetimes
    <3> QED
      BY <1>2, <1>5, <1>6, <3>1, <3>2
  <2> QED
    BY <2>1, <2>2
<1>9. ASSUME VerifyExpiry(c) \/ DropExpired(c) \/ VerifyProof(c) \/ Consume(c)
             \/ RecordVerified(c) \/ RecordFailed(c) \/ WebhookReturns(c)
      PROVE  reply' = reply /\ loaded' = loaded
  BY <1>9 DEF VerifyExpiry, DropExpired, VerifyProof, Consume, RecordVerified, RecordFailed,
     WebhookReturns
<1>10. /\ loaded[c] # None =>
            loaded[c].schema = SchemaOf(c) /\ loaded[c].expires = since[w[c].id] + TTL
       /\ pc[c] = "drop" => Expired(w[c].id)
       /\ pc[c] \in {"fail", "hookFail", "notifyFail"} => Doubtful(c)
       /\ pc[c] \in Holding => loaded[c] # None
  BY <1>1, CallKinds, NoneAssumption DEF Course, Judged, TypeInv, CallsInv, Progress
<1>11. CASE VerifyExpiry(c)
  <2>1. /\ pc[c] = "expiry"
        /\ pc'[c] = IF clock > loaded[c].expires THEN "drop"
                    ELSE IF sub[c].echoes THEN "proof" ELSE "fail"
    BY <1>11, Shape, CallKinds DEF VerifyExpiry, Goto
  <2>2. loaded[c] # None /\ loaded[c].expires = since[w[c].id] + TTL
    BY <1>10, <2>1 DEF Holding
  <2>3. pc'[c] = "drop" => Expired(w[c].id)
    BY <2>1, <2>2 DEF Expired
  <2>4. pc'[c] = "fail" => Doubtful(c)
    BY <1>3, <2>1 DEF Doubtful, Echoes
  <2>5. pc'[c] \in {"drop", "proof", "fail"}
    BY <2>1
  <2> QED
    BY <1>6, <1>7, <1>9, <1>10, <1>11, <2>3, <2>4, <2>5
<1>12. CASE DropExpired(c)
  <2>1. pc[c] = "drop" /\ pc'[c] = "fail"
    BY <1>12, Shape, CallKinds DEF DropExpired, Goto
  <2>2. Doubtful(c)
    BY <1>10, <2>1 DEF Doubtful
  <2> QED
    BY <1>6, <1>7, <1>9, <1>10, <1>12, <2>1, <2>2
<1>13. CASE VerifyProof(c)
  <2>1. pc[c] = "proof" /\ loaded[c] # None /\ loaded[c].schema = SchemaOf(c)
    BY <1>10, <1>13 DEF VerifyProof, Holding
  <2>2. PICK k : k = keys[SchemaOf(c)]
    OBVIOUS
  <2>3. pc'[c] = IF sub[c].key # None /\ k # None /\ sub[c].key = k THEN "consume" ELSE "fail"
    BY <1>13, <2>1, <2>2, Shape, CallKinds DEF VerifyProof, Goto
  <2>4. k # None
    BY <1>2, <1>5, <2>2 DEF Drawn
  <2>5. CASE w[c].proof = None
    <3>1. Doubtful(c)
      BY <1>1, <1>3, <2>5 DEF Course, Sending, Doubtful
    <3> QED
      BY <1>6, <1>7, <1>9, <1>10, <1>13, <2>3, <3>1
  <2>6. CASE w[c].proof # None
    <3>1. w[c].proof = w[c].key
      BY <1>1, <2>6 DEF Course, Sending
    <3>2. w[c].settled => w[c].key = k
      BY <1>1, <1>3, <2>2 DEF Course, Keyed
    <3>3. pc'[c] \in {"consume", "fail"} /\ (pc'[c] = "fail" => Doubtful(c))
      BY <1>3, <2>3, <2>4, <2>6, <3>1, <3>2 DEF Doubtful
    <3> QED
      BY <1>6, <1>7, <1>9, <1>10, <1>13, <3>3
  <2> QED
    BY <2>5, <2>6
<1>14. CASE Consume(c) \/ RecordVerified(c)
  <2>1. pc'[c] \in {"accept", "hookOk"}
    BY <1>14, Shape, CallKinds DEF Consume, RecordVerified, Goto
  <2> QED
    BY <1>6, <1>7, <1>9, <1>10, <1>14, <2>1
<1>15. CASE RecordFailed(c)
  <2>1. pc[c] = "fail" /\ pc'[c] = "hookFail"
    BY <1>15, Shape, CallKinds DEF RecordFailed, Goto
  <2> QED
    BY <1>6, <1>7, <1>9, <1>10, <1>15, <2>1
<1>16. CASE WebhookReturns(c)
  <2>1. /\ pc'[c] \in {"notifyOk", "notifyFail"}
        /\ pc'[c] = "notifyFail" => pc[c] = "hookFail"
    BY <1>16, Shape, CallKinds DEF WebhookReturns, Goto
  <2> QED
    BY <1>6, <1>7, <1>9, <1>10, <1>16, <2>1
<1>17. CASE WebhookPanics(c)
  <2>1. pc'[c] = "done" /\ reply'[c] = "panic" /\ loaded'[c] = None
    BY <1>17, Shape, CallKinds DEF WebhookPanics, Answer, Goto
  <2> QED
    BY <1>6, <2>1
<1>18. CASE NotifyWaiters(c)
  <2>1. /\ pc'[c] = "done" /\ loaded'[c] = None
        /\ pc[c] \in {"notifyOk", "notifyFail"}
        /\ reply'[c] = IF pc[c] = "notifyOk" THEN "ok" ELSE "failed"
    BY <1>18, Shape, CallKinds DEF NotifyWaiters, Answer, Goto
  <2>2. reply'[c] \in {"ok", "failed"} /\ (reply'[c] = "failed" => Doubtful(c))
    BY <1>10, <2>1
  <2> QED
    BY <1>6, <2>1, <2>2
<1> QED
  BY <1>8, <1>11, <1>12, <1>13, <1>14, <1>15, <1>16, <1>17, <1>18 DEF VerifyStep

-----------------------------------------------------------------------------
(***************************************************************************)
(* The wallet's own steps.                                                 *)
(***************************************************************************)

\* A step of call c of the wallet alone.
Walks(c, y) ==
  /\ w' = [w EXCEPT ![c] = y]
  /\ UNCHANGED vars /\ held' = held /\ setAt' = setAt

\* It leaves the other calls, the service and the credentials as they are.
LEMMA WalkAlone ==
  ASSUME WInv, Steady, NEW c \in Verifies, NEW y \in WalletCall, Walks(c, y), Course(c)'
  PROVE  WTypeOK' /\ Courses'
<1>1. /\ pc' = pc /\ reply' = reply /\ loaded' = loaded /\ sub' = sub
  BY DEF Walks, vars, callVars
<1>2. WTypeOK' /\ \A d \in Verifies : d # c => w'[d] = w[d]
  BY DEF WInv, WTypeOK, Walks
<1>3. \A d \in Verifies : d # c => Course(d)'
  BY <1>1, <1>2, CourseStays DEF WInv, Courses
<1> QED
  BY <1>2, <1>3 DEF Courses

\* What a step of the wallet alone does not change.
LEMMA WalkFrame ==
  ASSUME WInv, NEW c \in Verifies, NEW y \in WalletCall, Walks(c, y), y.id = w[c].id
  PROVE  /\ w'[c] = y /\ SchemaOf(c)' = SchemaOf(c) /\ Disclosed' = Disclosed
         /\ pc' = pc /\ reply' = reply /\ loaded' = loaded /\ sub' = sub /\ keys' = keys
         /\ published' = published /\ arg' = arg /\ since' = since /\ store' = store
         /\ clock' = clock
         /\ (Ended(w[c].id)' <=> Ended(w[c].id)) /\ (Expired(w[c].id)' <=> Expired(w[c].id))
         /\ (Unfit(c)' <=> Unfit(c))
         /\ (Settled(SchemaOf(c))' <=> Settled(SchemaOf(c)))
<1>1. w'[c] = y
  BY DEF Walks, WInv, WTypeOK
<1>2. /\ pc' = pc /\ reply' = reply /\ loaded' = loaded /\ sub' = sub /\ keys' = keys
      /\ published' = published /\ arg' = arg /\ since' = since /\ store' = store
      /\ clock' = clock /\ held' = held
  BY DEF Walks, vars, callVars, history
<1>3. SchemaOf(c)' = SchemaOf(c)
  BY <1>1, <1>2 DEF SchemaOf
<1> QED
  BY <1>1, <1>2, <1>3 DEF Disclosed, Ended, Expired, Unfit, Settled

\* Before anything is submitted, there is nothing to judge.
LEMMA WalkEarly ==
  ASSUME WInv, Steady, NEW c \in Verifies, NEW y \in WalletCall, Walks(c, y),
         w[c].at \notin {"await", "done"}, Keyed(c)', Heard(c)',
         y.proof \in {None, y.key}, y.proof # None => y.at \in {"submit", "done"},
         y.at # "await", y.at = "submit" => y.key # None /\ (y.proof = None => WrongSecond(c)')
  PROVE  WTypeOK' /\ Courses'
<1>1. pc[c] = "idle" /\ loaded[c] = None /\ reply[c] = ""
  BY Shape, CallKinds DEF WInv, Courses, Course, Sending
<1>2. w'[c] = y /\ pc'[c] = "idle" /\ loaded'[c] = None /\ reply'[c] = ""
  BY <1>1 DEF Walks, vars, callVars, WInv, WTypeOK
<1>3. Sending(c)' /\ Judged(c)'
  BY <1>2 DEF Sending, Judged
<1> QED
  BY <1>3, WalkAlone DEF Course

\* The call ends with a refusal, for a cause or by a fault on the way.
LEMMA WalkRefused ==
  ASSUME WInv, Steady, NEW c \in Verifies, NEW y \in WalletCall, Walks(c, y),
         w[c].at \notin {"idle", "await", "done"},
         y.at = "done", y.told = "refused", y.id = w[c].id, y.key = w[c].key,
         y.proof = w[c].proof, y.settled = w[c].settled,
         y.fault \/ Cause(c)'
  PROVE  WTypeOK' /\ Courses'
<1>1. /\ w'[c] = y /\ SchemaOf(c)' = SchemaOf(c) /\ pc' = pc /\ keys' = keys
      /\ published' = published /\ Disclosed' = Disclosed
      /\ (Settled(SchemaOf(c))' <=> Settled(SchemaOf(c)))
  BY WalkFrame
<1>2. Course(c)
  BY DEF WInv, Courses
<1>3. Keyed(c)'
  BY <1>1, <1>2 DEF Course, Keyed
<1>4. pc[c] = "idle"
  BY <1>2 DEF Course, Sending
<1>5. Heard(c)'
  BY <1>1, <1>4 DEF Heard
<1> QED
  BY <1>2, <1>3, <1>5, WalkEarly DEF Course, Sending

\* The call goes on, with all it has.
LEMMA WalkOn ==
  ASSUME WInv, Steady, NEW c \in Verifies, NEW y \in WalletCall, Walks(c, y),
         w[c].at \in {"descriptor", "schema"}, y.at \in {"schema", "pk", "done"},
         y.told = "" \/ (y.at = "done" /\ y.told = "ok" /\ y.kind # "create"),
         y.id = w[c].id, y.key = w[c].key, y.proof = w[c].proof, y.settled = w[c].settled
  PROVE  WTypeOK' /\ Courses'
<1>1. /\ w'[c] = y /\ SchemaOf(c)' = SchemaOf(c) /\ pc' = pc /\ keys' = keys
      /\ published' = published /\ Disclosed' = Disclosed
      /\ (Settled(SchemaOf(c))' <=> Settled(SchemaOf(c)))
  BY WalkFrame
<1>2. Course(c)
  BY DEF WInv, Courses
<1>3. Keyed(c)'
  BY <1>1, <1>2 DEF Course, Keyed
<1>4. Heard(c)'
  BY <1>1 DEF Heard
<1> QED
  BY <1>2, <1>3, <1>4, WalkEarly DEF Course, Sending

\* A record of a call, changed as the wallet's handlers change it.
LEMMA Edits ==
  ASSUME WTypeOK, NEW c \in Verifies
  PROVE  /\ w[c] \in WalletCall
         /\ \A y : w' = [w EXCEPT ![c] = y] => w'[c] = y
BY DEF WTypeOK

\* Handlers that refuse.
LEMMA Refusals ==
  ASSUME WInv, Steady, NEW c \in Verifies, w[c].at \notin {"idle", "await", "done"},
         Tell(c, "refused"), UNCHANGED <<vars, held, setAt>>, Cause(c)
  PROVE  WTypeOK' /\ Courses'
<1> DEFINE y == [w[c] EXCEPT !.at = "done", !.told = "refused"]
<1>1. w[c] \in WalletCall
  BY Edits DEF WInv
<1>2. y \in WalletCall
  BY <1>1 DEF WalletCall
<1>3. /\ y.at = "done" /\ y.told = "refused" /\ y.id = w[c].id /\ y.key = w[c].key
      /\ y.proof = w[c].proof /\ y.settled = w[c].settled /\ y.lacking = w[c].lacking
      /\ y.agedAt = w[c].agedAt
  BY <1>1 DEF WalletCall
<1>4. Walks(c, y)
  BY DEF Tell, Walks, WInv, WTypeOK
<1> HIDE DEF y
<1>5. w'[c] = y /\ SchemaOf(c)' = SchemaOf(c) /\ reply' = reply
      /\ (Ended(w[c].id)' <=> Ended(w[c].id)) /\ (Expired(w[c].id)' <=> Expired(w[c].id))
      /\ (Unfit(c)' <=> Unfit(c))
  BY <1>2, <1>3, <1>4, WalkFrame
<1>6. Doubtful(c) => Doubtful(c)'
  BY <1>3, <1>5 DEF Doubtful, WrongSecond, Walks
<1>7. Cause(c)'
  BY <1>3, <1>5, <1>6 DEF Cause
<1> QED
  BY <1>2, <1>3, <1>4, <1>7, WalkRefused

\* Any of the calls may fail on the way, at any stage.
LEMMA Faults ==
  ASSUME WInv, Steady, NEW c \in Verifies, FetchFault(c) \/ SubmitFault(c)
  PROVE  WTypeOK' /\ Courses'
<1> DEFINE y == [w[c] EXCEPT !.at = "done", !.told = "refused", !.fault = TRUE]
<1>1. w[c] \in WalletCall /\ Course(c)
  BY Edits DEF WInv, Courses
<1>2. y \in WalletCall
  BY <1>1 DEF WalletCall
<1>3. /\ y.at = "done" /\ y.told = "refused" /\ y.id = w[c].id /\ y.key = w[c].key
      /\ y.proof = w[c].proof /\ y.settled = w[c].settled /\ y.fault
      /\ y.agedAt = w[c].agedAt
  BY <1>1 DEF WalletCall
<1>4. Walks(c, y) /\ w[c].at \in {"descriptor", "schema", "pk", "submit", "await"}
  BY DEF FetchFault, SubmitFault, Walks, WInv, WTypeOK
<1> HIDE DEF y
<1>5. CASE w[c].at # "await"
  BY <1>2, <1>3, <1>4, <1>5, WalkRefused
<1>6. CASE w[c].at = "await"
  <2>1. /\ w'[c] = y /\ SchemaOf(c)' = SchemaOf(c) /\ Disclosed' = Disclosed
        /\ pc' = pc /\ reply' = reply /\ loaded' = loaded /\ sub' = sub /\ keys' = keys
        /\ published' = published /\ since' = since
        /\ (Settled(SchemaOf(c))' <=> Settled(SchemaOf(c)))
        /\ (Ended(w[c].id)' <=> Ended(w[c].id)) /\ (Expired(w[c].id)' <=> Expired(w[c].id))
        /\ setAt' = setAt
    BY <1>2, <1>3, <1>4, WalkFrame DEF Walks
  <2>2. Keyed(c)'
    BY <1>1, <1>3, <1>6, <2>1 DEF Course, Keyed
  <2>3. WrongSecond(c)' <=> WrongSecond(c)
    BY <1>3, <2>1 DEF WrongSecond
  <2>4. Doubtful(c)' <=> Doubtful(c)
    BY <1>3, <2>1, <2>3 DEF Doubtful
  <2>5. Sending(c)'
    BY <1>1, <1>3, <1>6, <2>1, <2>3 DEF Course, Sending, Echoes
  <2>6. Judged(c)'
    BY <1>1, <1>3, <2>1, <2>4 DEF Course, Judged
  <2>7. Heard(c)'
    BY <1>3, <2>1 DEF Heard
  <2> QED
    BY <1>2, <1>4, <2>2, <2>5, <2>6, <2>7, WalkAlone DEF Course
<1> QED
  BY <1>5, <1>6

\* The user shows a request to the wallet.
LEMMA Starts ==
  ASSUME WInv, Steady, NEW c \in Verifies, StartWallet(c)
  PROVE  WTypeOK' /\ Courses'
<1>1. w[c] \in WalletCall /\ Course(c) /\ w[c].at = "idle"
  BY Edits DEF WInv, Courses, StartWallet
<1>2. PICK i \in Disclosed, k \in Kinds :
        w' = [w EXCEPT ![c].at = "descriptor", ![c].kind = k, ![c].id = i]
  BY DEF StartWallet
<1> DEFINE y == [w[c] EXCEPT !.at = "descriptor", !.kind = k, !.id = i]
<1>3. y \in WalletCall
  <2>1. i \in Ids
    BY DEF Disclosed
  <2> QED
    BY <1>1, <2>1 DEF WalletCall
<1>4. y.at = "descriptor" /\ y.id = i /\ y.key = w[c].key /\ y.proof = w[c].proof /\ y.told = w[c].told
  BY <1>1 DEF WalletCall
<1>5. Walks(c, y)
  BY <1>2 DEF StartWallet, Walks, WInv, WTypeOK
<1> HIDE DEF y
<1>6. w[c].key = None /\ w[c].proof = None /\ w[c].told = ""
  BY <1>1 DEF Course, Keyed, Sending, Heard
<1>7. w'[c] = y /\ Disclosed' = Disclosed
  BY <1>5 DEF Walks, vars, callVars, Disclosed, WInv, WTypeOK
<1>8. Keyed(c)' /\ Heard(c)'
  BY <1>4, <1>6, <1>7 DEF Keyed, Heard
<1> QED
  BY <1>1, <1>3, <1>4, <1>5, <1>6, <1>8, WalkEarly

\* A request whose descriptor is not served has ended, and a schema is served
\* for every request that was disclosed.
LEMMA Served ==
  ASSUME WInv, NEW c \in Verifies, w[c].at # "idle"
  PROVE  (NoDescriptor(c) => Cause(c)) /\ ~NoSchema(c)
<1>1. PICK i \in Disclosed : i = w[c].id /\ i \in Ids
  BY DisclosedSchema DEF WInv, Courses, Course, Keyed
<1>2. store[i] # None => store[i].expires = since[i] + TTL
  BY <1>1 DEF WInv, TellInv, Lifetimes
<1>3. NoDescriptor(c) => Ended(i)
  BY <1>1, <1>2 DEF NoDescriptor, Ended, Expired
<1>4. NoDescriptor(c) => Cause(c)
  BY <1>1, <1>3 DEF Cause
<1>5. ~NoSchema(c)
  BY <1>1 DEF NoSchema, SchemaOf, WInv, Drawn
<1> QED
  BY <1>4, <1>5

\* The two handlers fetch descriptor and schema.
LEMMA Fetches ==
  ASSUME WInv, Steady, NEW c \in Verifies,
         FetchDescriptor(c) \/ FetchSchema(c) \/ HandleFetchDescriptor(c) \/ ShowSchema(c)
  PROVE  WTypeOK' /\ Courses'
<1>1. /\ w[c] \in WalletCall /\ Course(c)
      /\ w[c].at \in {"descriptor", "schema"} /\ UNCHANGED <<vars, held, setAt>>
  BY Edits DEF WInv, Courses, FetchDescriptor, FetchSchema, HandleFetchDescriptor, ShowSchema
<1>2. w[c].told = ""
  BY <1>1 DEF Course, Heard
<1>3. CASE Tell(c, "refused") /\ NoDescriptor(c)
  BY <1>1, <1>3, Served, Refusals
<1>4. ASSUME NEW a \in {"schema", "pk"}, w' = [w EXCEPT ![c].at = a]
      PROVE  WTypeOK' /\ Courses'
  <2> DEFINE y == [w[c] EXCEPT !.at = a]
  <2>1. y \in WalletCall
    BY <1>1 DEF WalletCall
  <2>2. /\ y.at = a /\ y.told = "" /\ y.id = w[c].id /\ y.key = w[c].key
        /\ y.proof = w[c].proof /\ y.settled = w[c].settled
    BY <1>1, <1>2 DEF WalletCall
  <2>3. Walks(c, y)
    BY <1>1, <1>4 DEF Walks, WInv, WTypeOK
  <2> HIDE DEF y
  <2> QED
    BY <1>1, <2>1, <2>2, <2>3, WalkOn
<1>5. CASE Tell(c, "ok") /\ w[c].kind = "fetch-descriptor"
  <2> DEFINE y == [w[c] EXCEPT !.at = "done", !.told = "ok"]
  <2>1. y \in WalletCall
    BY <1>1 DEF WalletCall
  <2>2. /\ y.at = "done" /\ y.told = "ok" /\ y.id = w[c].id /\ y.key = w[c].key
        /\ y.kind # "create" /\ y.proof = w[c].proof /\ y.settled = w[c].settled
    BY <1>1, <1>5 DEF WalletCall
  <2>3. Walks(c, y)
    BY <1>1, <1>5 DEF Tell, Walks, WInv, WTypeOK
  <2> HIDE DEF y
  <2> QED
    BY <1>1, <2>1, <2>2, <2>3, WalkOn
<1>6. ~NoSchema(c)
  BY <1>1, Served
<1>7. CASE FetchDescriptor(c) \/ HandleFetchDescriptor(c)
  BY <1>3, <1>4, <1>7 DEF FetchDescriptor, HandleFetchDescriptor
<1>8. CASE FetchSchema(c)
  BY <1>4, <1>6, <1>8 DEF FetchSchema
<1>9. CASE ShowSchema(c)
  BY <1>5, <1>6, <1>9 DEF ShowSchema
<1> QED
  BY <1>7, <1>8, <1>9

\* The key that is served was published, and is settled unless somebody draws.
LEMMA KeyFetched ==
  ASSUME WInv, Steady, NEW c \in Verifies, FetchPK(c)
  PROVE  WTypeOK' /\ Courses'
<1>1. w[c] \in WalletCall /\ Course(c) /\ w[c].at = "pk" /\ ~NoSchema(c)
  BY Edits, Served DEF WInv, Courses, FetchPK
<1>2. PICK i \in Disclosed : i = w[c].id /\ i \in Ids /\ arg[i].schema \in Schemas
  BY <1>1, DisclosedSchema DEF WInv, Course, Keyed
<1>3. PICK k \in Ids : k = keys[SchemaOf(c)] /\ k \in published[SchemaOf(c)]
  <2>1. SchemaOf(c) \in Schemas
    BY <1>2 DEF SchemaOf
  <2> QED
    BY <1>1, <2>1 DEF NoSchema, WInv, Drawn, TypeInv, SharedOK
<1>4. PICK b \in BOOLEAN : b <=> Settled(SchemaOf(c))
  OBVIOUS
<1> DEFINE y == [w[c] EXCEPT !.at = "claims", !.key = k, !.settled = b]
<1>5. y \in WalletCall
  BY <1>1 DEF WalletCall
<1>6. /\ y.at = "claims" /\ y.key = k /\ y.settled = b /\ y.id = w[c].id
      /\ y.proof = w[c].proof /\ y.told = w[c].told
  BY <1>1 DEF WalletCall
<1>7. Settled(SchemaOf(c)) = b
  BY <1>4 DEF Settled
<1>8. w' = [w EXCEPT ![c].at = "claims", ![c].key = k, ![c].settled = b]
  BY <1>1, <1>3, <1>7 DEF FetchPK
<1>9. Walks(c, y)
  BY <1>8 DEF FetchPK, Walks, WInv, WTypeOK
<1> HIDE DEF y
<1>10. /\ w'[c] = y /\ SchemaOf(c)' = SchemaOf(c) /\ Disclosed' = Disclosed /\ keys' = keys
       /\ published' = published
       /\ (Settled(SchemaOf(c))' <=> Settled(SchemaOf(c)))
  BY <1>5, <1>6, <1>9, WalkFrame
<1>11. Keyed(c)'
  <2>1. w[c].id \in Disclosed
    BY <1>2
  <2>2. k # None
    BY NoneAssumption
  <2> QED
    BY <1>3, <1>4, <1>6, <1>10, <2>1, <2>2 DEF Keyed
<1>12. w[c].proof = None /\ w[c].told = ""
  BY <1>1 DEF Course, Sending, Heard
<1>13. Heard(c)'
  BY <1>6, <1>10, <1>12 DEF Heard
<1> QED
  BY <1>1, <1>5, <1>6, <1>9, <1>11, <1>12, <1>13, WalkEarly

\* A set of natural numbers has a least one: the intervals up to its elements
\* are well ordered by inclusion.
LEMMA LeastNumber ==
  ASSUME NEW S, S \subseteq Nat, S # {}
  PROVE  \E x \in S : \A y \in S : x <= y
<1> DEFINE T == {0 .. x : x \in S}
<1>1. IsWellFoundedOn(StrictSubsetOrdering(Nat), FiniteSubsetsOf(Nat))
  BY FS_StrictSubsetOrderingWellFounded
<1>2. T \subseteq FiniteSubsetsOf(Nat)
  <2> SUFFICES ASSUME NEW x \in S PROVE 0 .. x \subseteq Nat /\ IsFiniteSet(0 .. x)
    BY DEF FiniteSubsetsOf
  <2>1. x \in Nat
    OBVIOUS
  <2> QED
    BY <2>1, FS_Interval
<1>3. T # {}
  OBVIOUS
<1>4. PICK t \in T : \A u \in T : ~(<<u, t>> \in StrictSubsetOrdering(Nat))
  <2> HIDE DEF T
  <2> QED
    BY <1>1, <1>2, <1>3, WFMin
<1>5. PICK x \in S : t = 0 .. x
  OBVIOUS
<1>6. ASSUME NEW y \in S, ~(x <= y) PROVE FALSE
  <2>1. x \in Nat /\ y \in Nat
    BY <1>6
  <2>2. 0 .. y \in SUBSET Nat /\ 0 .. x \in SUBSET Nat /\ 0 .. y \subseteq 0 .. x
    BY <1>6, <2>1
  <2>3. x \in 0 .. x /\ x \notin 0 .. y
    BY <1>6, <2>1
  <2>4. <<0 .. y, t>> \in StrictSubsetOrdering(Nat)
    BY <1>5, <2>2, <2>3 DEF StrictSubsetOrdering
  <2> QED
    BY <1>4, <2>4
<1> QED
  BY <1>6

\* The credential a field is filled from is one that has it.
LEMMA FirstHas ==
  ASSUME NEW f, NEW order \in Orders, Sources(f) # {}
  PROVE  First(f, order) \in Sources(f)
<1> DEFINE S == {order[v] : v \in Sources(f)}
<1>1. S \subseteq Nat /\ S # {}
  BY DEF Orders, Sources
<1>2. PICK n \in S : \A m \in S : n <= m
  <2> HIDE DEF S
  <2> QED
    BY <1>1, LeastNumber
<1>3. \E v \in Sources(f) : \A u \in Sources(f) : order[v] <= order[u]
  BY <1>2
<1> QED
  BY <1>3 DEF First

\* The wallet fills the schema: values that do not fit are values it holds.
LEMMA Filled ==
  ASSUME WInv, Steady, NEW c \in Verifies, FillClaims(c)
  PROVE  WTypeOK' /\ Courses'
<1> DEFINE needed == Needs[SchemaOf(c)]
<1>1. w[c] \in WalletCall /\ Course(c) /\ w[c].at = "claims"
  BY Edits DEF WInv, Courses, FillClaims
<1>2. SchemaOf(c) \in Schemas
  BY <1>1, DisclosedSchema DEF WInv, Course, Keyed, SchemaOf
<1>3. w[c].told = "" /\ w[c].proof = None
  BY <1>1 DEF Course, Sending, Heard
<1>4. CASE held = {} \/ \E f \in needed : Sources(f) = {}
  <2> DEFINE y == [w[c] EXCEPT !.at = "done", !.told = "refused", !.lacking = TRUE]
  <2>1. y \in WalletCall
    BY <1>1 DEF WalletCall
  <2>2. /\ y.at = "done" /\ y.told = "refused" /\ y.id = w[c].id /\ y.key = w[c].key
        /\ y.proof = w[c].proof /\ y.settled = w[c].settled /\ y.lacking
    BY <1>1 DEF WalletCall
  <2>3. w' = [w EXCEPT ![c].at = "done", ![c].told = "refused", ![c].lacking = TRUE]
    BY <1>4 DEF FillClaims
  <2>4. Walks(c, y)
    BY <2>3 DEF FillClaims, Walks, WInv, WTypeOK
  <2> HIDE DEF y
  <2>5. w'[c] = y
    BY <2>1, <2>2, <2>4, WalkFrame
  <2>6. Cause(c)'
    BY <2>2, <2>5 DEF Cause
  <2> QED
    BY <1>1, <2>1, <2>2, <2>4, <2>6, WalkRefused
<1>5. CASE ~(held = {} \/ \E f \in needed : Sources(f) = {})
  <2>1. PICK order \in Orders :
          w' = [w EXCEPT ![c].at = "prove",
                         ![c].fits = \A f \in needed : Claims[First(f, order)][f] = "fit"]
    BY <1>5 DEF FillClaims
  <2>2. PICK b \in BOOLEAN : b = (\A f \in needed : Claims[First(f, order)][f] = "fit")
    OBVIOUS
  <2>3. ~b => Unfit(c)
    <3>1. ASSUME NEW f \in needed, Claims[First(f, order)][f] # "fit" PROVE Unfit(c)
      <4>1. First(f, order) \in Sources(f)
        BY <1>5, FirstHas
      <4>2. /\ First(f, order) \in held /\ First(f, order) \in Credentials /\ f \in Fields
            /\ Claims[First(f, order)][f] # "absent"
        BY <1>2, <4>1, WalletAssumption DEF Sources, WInv, WTypeOK
      <4>3. Claims[First(f, order)][f] \in {"fit", "unfit", "absent"}
        BY <4>2, WalletAssumption
      <4>4. Claims[First(f, order)][f] = "unfit"
        BY <3>1, <4>2, <4>3
      <4> QED
        BY <4>2, <4>4 DEF Unfit
    <3> QED
      BY <2>2, <3>1
  <2> DEFINE y == [w[c] EXCEPT !.at = "prove", !.fits = b]
  <2>4. y \in WalletCall
    BY <1>1 DEF WalletCall
  <2>5. /\ y.at = "prove" /\ y.fits = b /\ y.id = w[c].id /\ y.key = w[c].key
        /\ y.proof = w[c].proof /\ y.settled = w[c].settled /\ y.told = w[c].told
    BY <1>1 DEF WalletCall
  <2>6. w' = [w EXCEPT ![c].at = "prove", ![c].fits = b]
    BY <2>1, <2>2
  <2>7. Walks(c, y)
    BY <2>6 DEF FillClaims, Walks, WInv, WTypeOK
  <2> HIDE DEF y
  <2>8. /\ w'[c] = y /\ SchemaOf(c)' = SchemaOf(c) /\ Disclosed' = Disclosed /\ keys' = keys
        /\ published' = published /\ (Unfit(c)' <=> Unfit(c))
        /\ (Settled(SchemaOf(c))' <=> Settled(SchemaOf(c)))
    BY <2>4, <2>5, <2>7, WalkFrame
  <2>9. Keyed(c)'
    BY <1>1, <2>5, <2>8 DEF Course, Keyed
  <2>10. Heard(c)'
    BY <1>3, <2>3, <2>5, <2>8 DEF Heard
  <2> QED
    BY <1>1, <1>3, <2>4, <2>5, <2>7, <2>9, <2>10, WalkEarly
<1> QED
  BY <1>4, <1>5

\* The wallet proves, or cannot.
LEMMA Proved ==
  ASSUME WInv, Steady, NEW c \in Verifies, Prove(c)
  PROVE  WTypeOK' /\ Courses'
<1>1. w[c] \in WalletCall /\ Course(c) /\ w[c].at = "prove"
  BY Edits DEF WInv, Courses, Prove
<1>2. /\ w[c].told = "" /\ w[c].proof = None /\ w[c].key # None /\ (~w[c].fits => Unfit(c))
  BY <1>1 DEF Course, Keyed, Sending, Heard
<1>3. clock \in Nat
  BY DEF WInv, TypeInv, SharedOK
<1>4. CASE /\ ~w[c].fits \/ OtherSecond(c)
           /\ w' = [w EXCEPT ![c].at = "done", ![c].told = "refused", ![c].agedAt = clock]
  <2> DEFINE y == [w[c] EXCEPT !.at = "done", !.told = "refused", !.agedAt = clock]
  <2>1. y \in WalletCall
    BY <1>1, <1>3 DEF WalletCall
  <2>2. /\ y.at = "done" /\ y.told = "refused" /\ y.id = w[c].id /\ y.key = w[c].key
        /\ y.proof = w[c].proof /\ y.settled = w[c].settled /\ y.agedAt = clock
    BY <1>1 DEF WalletCall
  <2>3. Walks(c, y)
    BY <1>4 DEF Prove, Walks, WInv, WTypeOK
  <2> HIDE DEF y
  <2>4. w'[c] = y /\ SchemaOf(c)' = SchemaOf(c) /\ (Unfit(c)' <=> Unfit(c)) /\ setAt' = setAt
    BY <2>1, <2>2, <2>3, WalkFrame DEF Walks
  <2>5. OtherSecond(c) => WrongSecond(c)'
    BY <2>2, <2>4 DEF OtherSecond, WrongSecond
  <2>6. Cause(c)'
    BY <1>2, <1>4, <2>2, <2>4, <2>5 DEF Cause, Doubtful
  <2> QED
    BY <1>1, <2>1, <2>2, <2>3, <2>6, WalkRefused
<1>5. ASSUME NEW k \in {w[c].key, None}, k = None => OtherSecond(c),
             w' = [w EXCEPT ![c].at = "submit", ![c].proof = k, ![c].agedAt = clock]
      PROVE  WTypeOK' /\ Courses'
  <2> DEFINE y == [w[c] EXCEPT !.at = "submit", !.proof = k, !.agedAt = clock]
  <2>1. y \in WalletCall
    <3>1. k \in Ids \cup {None}
      BY <1>1 DEF WalletCall
    <3> QED
      BY <1>1, <1>3, <3>1 DEF WalletCall
  <2>2. /\ y.at = "submit" /\ y.id = w[c].id /\ y.key = w[c].key /\ y.told = w[c].told
        /\ y.proof = k /\ y.settled = w[c].settled /\ y.agedAt = clock
    BY <1>1 DEF WalletCall
  <2>3. Walks(c, y)
    BY <1>5 DEF Prove, Walks, WInv, WTypeOK
  <2> HIDE DEF y
  <2>4. /\ w'[c] = y /\ SchemaOf(c)' = SchemaOf(c) /\ Disclosed' = Disclosed /\ keys' = keys
        /\ published' = published /\ setAt' = setAt
        /\ (Settled(SchemaOf(c))' <=> Settled(SchemaOf(c)))
    BY <2>1, <2>2, <2>3, WalkFrame DEF Walks
  <2>5. OtherSecond(c) => WrongSecond(c)'
    BY <2>2, <2>4 DEF OtherSecond, WrongSecond
  <2>6. Keyed(c)' /\ Heard(c)'
    BY <1>1, <1>2, <2>2, <2>4 DEF Course, Keyed, Heard
  <2> QED
    BY <1>1, <1>2, <1>5, <2>1, <2>2, <2>3, <2>5, <2>6, WalkEarly
<1>6. CASE ~OtherSecond(c) /\ \E k \in {w[c].key} :
             w' = [w EXCEPT ![c].at = "submit", ![c].proof = k, ![c].agedAt = clock]
  BY <1>2, <1>5, <1>6
<1>7. CASE OtherSecond(c) /\ \E k \in {w[c].key, None} :
             w' = [w EXCEPT ![c].at = "submit", ![c].proof = k, ![c].agedAt = clock]
  BY <1>5, <1>7
<1> QED
  BY <1>4, <1>6, <1>7 DEF Prove

\* The wallet posts its proof, and the submission handler begins.
LEMMA Posted ==
  ASSUME WInv, Steady, NEW c \in Verifies, Submit(c)
  PROVE  WTypeOK' /\ Courses'
<1>1. w[c] \in WalletCall /\ Course(c) /\ w[c].at = "submit" /\ pc[c] = "idle"
  BY Edits DEF WInv, Courses, Submit
<1> DEFINE y == [w[c] EXCEPT !.at = "await"]
<1>2. y \in WalletCall
  BY <1>1 DEF WalletCall
<1>3. /\ y.at = "await" /\ y.id = w[c].id /\ y.key = w[c].key /\ y.proof = w[c].proof
      /\ y.settled = w[c].settled /\ y.agedAt = w[c].agedAt /\ y.told = w[c].told
  BY <1>1 DEF WalletCall
<1>4. w' = [w EXCEPT ![c] = y]
  BY DEF Submit, WInv, WTypeOK
<1> HIDE DEF y
<1>5. /\ sub' = [sub EXCEPT ![c] = [id |-> w[c].id, echoes |-> Echoes(SchemaOf(c)),
                                    key |-> w[c].proof]]
      /\ pc' = [pc EXCEPT ![c] = "load"]
      /\ reply' = reply /\ loaded' = loaded /\ arg' = arg /\ keys' = keys
      /\ held' = held /\ setAt' = setAt /\ published' = published
  BY DEF Submit, Goto, history
<1>6. WTypeOK' /\ w'[c] = y /\ \A d \in Verifies : d # c => w'[d] = w[d]
  BY <1>2, <1>4, <1>5 DEF WInv, WTypeOK
<1>7. /\ pc'[c] = "load"
      /\ sub'[c] = [id |-> w[c].id, echoes |-> Echoes(SchemaOf(c)), key |-> w[c].proof]
      /\ \A d \in Verifies : d # c => pc'[d] = pc[d] /\ sub'[d] = sub[d]
  BY <1>5, Shape, CallKinds DEF WInv
<1>8. \A d \in Verifies : d # c => Course(d)'
  BY <1>5, <1>6, <1>7, CourseStays DEF WInv, Courses
<1>9. SchemaOf(c)' = SchemaOf(c) /\ Disclosed' = Disclosed
  BY <1>3, <1>5, <1>6 DEF SchemaOf, Disclosed
<1>10. WrongSecond(c)' <=> WrongSecond(c)
  BY <1>3, <1>5, <1>6, <1>9 DEF WrongSecond
<1>11. Keyed(c)'
  <2>1. PICK s \in Schemas : s = SchemaOf(c) /\ s = SchemaOf(c)'
    BY <1>1, <1>9, DisclosedSchema DEF WInv, Course, Keyed, SchemaOf
  <2>2. Settled(s) => Settled(s)'
    BY DEF Steady
  <2>3. (Settled(SchemaOf(c)) <=> Settled(s)) /\ (Settled(SchemaOf(c))' <=> Settled(s)')
    BY <2>1 DEF Settled
  <2> QED
    BY <1>1, <1>3, <1>5, <1>6, <1>9, <2>2, <2>3 DEF Course, Keyed
<1>12. Sending(c)'
  BY <1>1, <1>3, <1>6, <1>7, <1>9, <1>10 DEF Course, Sending, Echoes
<1>13. loaded'[c] = None /\ reply'[c] = ""
  BY <1>1, <1>5, Shape, CallKinds DEF WInv
<1>14. Judged(c)'
  BY <1>7, <1>13 DEF Judged
<1>15. Heard(c)'
  BY <1>1, <1>3, <1>6 DEF Course, Heard
<1> QED
  BY <1>6, <1>8, <1>11, <1>12, <1>14, <1>15 DEF Courses, Course

\* The wallet passes on what the service has answered.
LEMMA Received ==
  ASSUME WInv, Steady, NEW c \in Verifies, ReceiveVerdict(c)
  PROVE  WTypeOK' /\ Courses'
<1>1. /\ w[c] \in WalletCall /\ Course(c) /\ w[c].at = "await" /\ reply[c] # "" /\ pc[c] # "idle"
  BY Edits DEF WInv, Courses, ReceiveVerdict, Course, Sending
<1>2. PICK r \in {"ok", "refused"} : r = IF reply[c] = "ok" THEN "ok" ELSE "refused"
  OBVIOUS
<1> DEFINE y == [w[c] EXCEPT !.at = "done", !.told = r]
<1>3. y \in WalletCall
  BY <1>1 DEF WalletCall
<1>4. /\ y.at = "done" /\ y.told = r /\ y.id = w[c].id /\ y.key = w[c].key
      /\ y.proof = w[c].proof /\ y.settled = w[c].settled /\ y.agedAt = w[c].agedAt
  BY <1>1 DEF WalletCall
<1>5. Tell(c, r)
  BY <1>2 DEF ReceiveVerdict
<1>6. Walks(c, y)
  BY <1>5 DEF ReceiveVerdict, Tell, Walks, WInv, WTypeOK
<1> HIDE DEF y
<1>7. /\ w'[c] = y /\ SchemaOf(c)' = SchemaOf(c) /\ Disclosed' = Disclosed
      /\ pc' = pc /\ reply' = reply /\ loaded' = loaded /\ sub' = sub /\ keys' = keys
      /\ published' = published /\ since' = since
      /\ (Settled(SchemaOf(c))' <=> Settled(SchemaOf(c)))
      /\ (Ended(w[c].id)' <=> Ended(w[c].id)) /\ (Expired(w[c].id)' <=> Expired(w[c].id))
      /\ setAt' = setAt
  BY <1>3, <1>4, <1>6, WalkFrame DEF Walks
<1>8. Keyed(c)'
  BY <1>1, <1>4, <1>7 DEF Course, Keyed
<1>9. WrongSecond(c)' <=> WrongSecond(c)
  BY <1>4, <1>7 DEF WrongSecond
<1>10. Doubtful(c)' <=> Doubtful(c)
  BY <1>4, <1>7, <1>9 DEF Doubtful
<1>11. Sending(c)'
  BY <1>1, <1>4, <1>7, <1>9 DEF Course, Sending, Echoes
<1>12. Judged(c)'
  BY <1>1, <1>4, <1>7, <1>10 DEF Course, Judged
<1>13. reply[c] # "ok" => Cause(c)'
  <2>1. reply[c] # "ok" => reply[c] \in {"failed", "notfound", "panic"}
    BY <1>1 DEF Course, Judged
  <2> QED
    BY <1>1, <1>4, <1>7, <1>10, <2>1 DEF Course, Judged, Cause
<1>14. Heard(c)'
  BY <1>1, <1>2, <1>4, <1>7, <1>13 DEF Heard
<1> QED
  BY <1>3, <1>6, <1>8, <1>11, <1>12, <1>14, WalkAlone DEF Course

-----------------------------------------------------------------------------
(***************************************************************************)
(* The theorems.                                                           *)
(***************************************************************************)

\* Every step of wallet and service keeps the invariant.
LEMMA WInvNext == WInv /\ [WNext]_allVars => WInv'
<1> SUFFICES ASSUME WInv, [WNext]_allVars PROVE WInv'
  OBVIOUS
<1>1. [Next]_vars
  BY ServiceSteps DEF WInv
<1>2. TypeInv' /\ Inv' /\ TellInv' /\ Drawn'
  BY <1>1, TypeNext, InvNext, TellNext, DrawnNext DEF WInv
<1>3. Steady
  BY <1>2, SteadyStep
<1>4. ASSUME w' = w, held' \subseteq Credentials, setAt' \in [Ids -> Nat],
             \A d \in Verifies :
               \/ Course(d)'
               \/ pc'[d] = pc[d] /\ reply'[d] = reply[d] /\ loaded'[d] = loaded[d] /\ sub'[d] = sub[d]
      PROVE  WTypeOK' /\ Courses'
  <2>1. WTypeOK'
    BY <1>4 DEF WInv, WTypeOK
  <2>2. Courses'
    BY <1>3, <1>4, CourseStays DEF WInv, Courses
  <2> QED
    BY <2>1, <2>2
<1>5. held \subseteq Credentials /\ setAt \in [Ids -> Nat]
  BY DEF WInv, WTypeOK
<1>6. ASSUME NEW c \in Verifies, VerifyStep(c) \/ WebhookReturns(c), UNCHANGED walletVars
      PROVE  WTypeOK' /\ Courses'
  <2>1. w' = w /\ held' = held /\ setAt' = setAt
    BY <1>6 DEF walletVars
  <2>2. Course(c)'
    BY <1>3, <1>6, <2>1, HandlerJudges
  <2>3. \A d \in Verifies : d # c => pc'[d] = pc[d] /\ reply'[d] = reply[d] /\ sub'[d] = sub[d]
    BY <1>6, VerifyAlone DEF WInv
  <2>4. \A d \in Verifies : d # c => loaded'[d] = loaded[d]
    BY <1>6, Shape, CallKinds DEF WInv, VerifyStep, VerifyLoad, VerifyExpiry, DropExpired,
       VerifyProof, Consume, RecordVerified, RecordFailed, WebhookReturns, WebhookPanics,
       NotifyWaiters, Answer
  <2> QED
    BY <1>4, <1>5, <2>1, <2>2, <2>3, <2>4
<1>7. ASSUME Creating \/ Passing, w' = w, held' = held, setAt' \in [Ids -> Nat]
      PROVE  WTypeOK' /\ Courses'
  <2>1. \A d \in Verifies :
          pc'[d] = pc[d] /\ reply'[d] = reply[d] /\ loaded'[d] = loaded[d] /\ sub'[d] = sub[d]
    BY <1>7, CreatingAlone, PassingRests DEF WInv
  <2> QED
    BY <1>4, <1>5, <1>7, <2>1
<1>8. ASSUME Service PROVE WTypeOK' /\ Courses'
  <2>1. w' = w /\ held' = held /\ setAt' = setAt
    BY <1>8 DEF Service, walletVars
  <2>2. CASE \E c \in Verifies : VerifyStep(c) \/ WebhookReturns(c)
    <3>1. UNCHANGED walletVars
      BY <1>8 DEF Service
    <3> QED
      BY <1>6, <2>2, <3>1
  <2>3. CASE ~\E c \in Verifies : VerifyStep(c) \/ WebhookReturns(c)
    <3>1. Creating \/ Passing
      BY <1>8, <2>3 DEF Service, Creating, Passing
    <3> QED
      BY <1>5, <1>7, <2>1, <3>1
  <2> QED
    BY <2>2, <2>3
<1>9. ASSUME NEW c \in Ids, CreateService(c) PROVE WTypeOK' /\ Courses'
  <2>1. Creating /\ w' = w /\ held' = held
    BY <1>9 DEF CreateService, Creating
  <2>2. setAt' \in [Ids -> Nat]
    <3>1. CASE setAt' = setAt
      BY <1>5, <3>1
    <3>2. ASSUME NEW t \in since[c] .. clock, setAt' = [setAt EXCEPT ![c] = t]
          PROVE  setAt' \in [Ids -> Nat]
      <4>1. since[c] \in Nat /\ clock \in Nat
        BY DEF WInv, TypeInv, CallsInv, CallsOK, SharedOK
      <4>2. t \in Nat
        BY <4>1
      <4> QED
        BY <1>5, <3>2, <4>2
    <3> QED
      BY <1>9, <3>1, <3>2 DEF CreateService
  <2> QED
    BY <1>7, <2>1, <2>2
<1>10. ASSUME NEW v \in Credentials, Import(v) PROVE WTypeOK' /\ Courses'
  <2>1. /\ w' = w /\ setAt' = setAt /\ held' = held \cup {v}
        /\ pc' = pc /\ reply' = reply /\ loaded' = loaded /\ sub' = sub
    BY <1>10 DEF Import, vars, callVars
  <2>2. held' \subseteq Credentials
    BY <1>5, <2>1
  <2> QED
    BY <1>4, <1>5, <2>1, <2>2
<1>11. ASSUME NEW c \in Verifies, StartWallet(c) \/ WalletStep(c) \/ FetchFault(c) \/ SubmitFault(c)
       PROVE  WTypeOK' /\ Courses'
  BY <1>3, <1>11, Starts, Fetches, KeyFetched, Filled, Proved, Posted, Received, Faults
     DEF WalletStep
<1>12. ASSUME UNCHANGED allVars PROVE WTypeOK' /\ Courses'
  <2>1. w' = w /\ held' = held /\ setAt' = setAt /\ UNCHANGED vars
    BY <1>12 DEF allVars, walletVars
  <2> QED
    BY <1>5, <1>7, <2>1 DEF Passing
<1>13. WTypeOK' /\ Courses'
  BY <1>8, <1>9, <1>10, <1>11, <1>12 DEF WNext
<1> QED
  BY <1>2, <1>13 DEF WInv

\* So it holds in every behaviour.
LEMMA WInvariant == WSpec => []WInv
BY WInvInit, WInvNext, PTL DEF WSpec

\* The variables of the wallet hold values of their kinds.
THEOREM WalletTypeCorrect == WSpec => []WTypeOK
<1>1. WInv => WTypeOK
  BY DEF WInv
<1> QED
  BY <1>1, WInvariant, PTL

\* Beside the wallet the service is the one Presentation describes: each step of
\* the composition is a step of the service or none, so that everything proved of
\* Spec, the life cycle of requests included, holds of WSpec.
THEOREM ServiceBesideWallet == WSpec => Spec
<1>1. WInit => Init
  BY DEF WInit
<1>2. WInv /\ [WNext]_allVars => [Next]_vars
  BY ServiceSteps DEF WInv
<1> QED
  BY <1>1, <1>2, WInvariant, PTL DEF WSpec, Spec

\* So no create that begins after a wallet has fetched a settled key invalidates
\* the proof it makes with it.
THEOREM KeysSettleForWallet == WSpec => KeySettles
BY ServiceBesideWallet, KeysSettle

\* WalletTellsVerdict holds in every behaviour: ok only for a proof the service
\* accepted and used the request up for; refused for an accepted proof only if the
\* response was lost.
THEOREM WalletTellsTruth == WSpec => []WalletTellsVerdict
<1>1. WInv => WalletTellsVerdict
  <2> SUFFICES ASSUME WInv, NEW c \in Verifies
               PROVE  /\ w[c].told = "ok" /\ w[c].kind = "create" => reply[c] = "ok" /\ Consumed(c)
                      /\ w[c].told = "refused" /\ reply[c] = "ok" => w[c].fault
    BY DEF WalletTellsVerdict
  <2>1. Heard(c) /\ Sending(c)
    BY DEF WInv, Courses, Course
  <2>2. reply[c] # "" => pc[c] # "idle"
    BY Shape, CallKinds DEF WInv
  <2>3. reply[c] = "ok" => sub[c].id = w[c].id /\ store[sub[c].id] = None
    BY <2>1, <2>2 DEF Sending, WInv, Inv, Accepted
  <2>4. w[c].told = "ok" /\ w[c].kind = "create" => reply[c] = "ok" /\ Consumed(c)
    BY <2>1, <2>3 DEF Heard, Consumed
  <2>5. w[c].told = "refused" /\ reply[c] = "ok" => w[c].fault
    BY <2>1, <2>2 DEF Heard
  <2> QED
    BY <2>4, <2>5
<1> QED
  BY <1>1, WInvariant, PTL

\* HonestRefusedForCause holds in every behaviour: an undisturbed wallet is refused
\* only for one of the listed causes, whatever other creates, submissions, deletions
\* and imports happen between its three fetches, its proof and its submission.
THEOREM RefusalsHaveCause == WSpec => []HonestRefusedForCause
<1>1. WInv => HonestRefusedForCause
  <2> SUFFICES ASSUME WInv, NEW c \in Verifies, w[c].told = "refused", ~w[c].fault
               PROVE  \/ Late(c) \/ Consumed(c)
                      \/ w[c].lacking \/ Unfit(c)
                      \/ Visible[SchemaOf(c)] = "unbound"
                      \/ WrongSecond(c)
                      \/ reply[c] = "panic"
                      \/ ~w[c].settled
    BY DEF HonestRefusedForCause
  <2>1. Cause(c)
    BY DEF WInv, Courses, Course, Heard
  <2>2. /\ Ended(w[c].id) <=> Late(c) \/ Consumed(c)
        /\ Expired(w[c].id) <=> Late(c)
    BY DEF Ended, Expired, Late, Consumed
  <2> QED
    BY <2>1, <2>2 DEF Cause, Doubtful
<1> QED
  BY <1>1, WInvariant, PTL
=============================================================================
