------------------------- MODULE PresentationProofs -------------------------
(***************************************************************************)
(* Proofs about the presentation service, for any sets of calls, schemas   *)
(* and callbacks and any lifetimes.  The inductive invariant has two       *)
(* layers: TypeInv says what a call holds at each label of its handler,    *)
(* and Inv what the shared structures say about a request before and after *)
(* its id is disclosed.  The one fact everything rests on is that nobody   *)
(* but the creating call touches a request until that call has answered.   *)
(***************************************************************************)
EXTENDS Presentation, TLAPS

\* Labels at which a call works on its copy of a request.
Holding == {"attachSave", "expiry", "drop", "proof", "consume", "accept", "fail",
            "hookOk", "hookFail", "notifyOk", "notifyFail", "rtime"}

\* A call that has begun has its input.
Inputs ==
  /\ \A c \in Ids : pc[c] # "idle" => arg[c] \in CreateArg
  /\ \A c \in Verifies : pc[c] # "idle" => sub[c] \in Submission
  /\ \A c \in Reads : pc[c] # "idle" => rd[c] \in ReadArg

\* Only a call that has returned has a reply, only one that has begun has a copy
\* of a request, and one that works on such a copy has it.
Progress ==
  /\ \A c \in Calls : reply[c] # "" => pc[c] = "done"
  /\ \A c \in Calls : pc[c] = "idle" => loaded[c] = None
  /\ \A c \in Calls : pc[c] \in Holding => loaded[c] \in Request

CallsInv == CallsOK /\ Inputs /\ Progress
TypeInv == CallsInv /\ SharedOK

-----------------------------------------------------------------------------
\* What the assumptions on the constants say of the calls: the kinds are apart.
LEMMA CallKinds ==
  /\ Ids \subseteq Calls /\ Verifies \subseteq Calls /\ Reads \subseteq Calls
  /\ Calls = Ids \cup Verifies \cup Reads
  /\ Blockings \subseteq Ids /\ Creates \subseteq Ids
  /\ \A c \in Ids : c \notin Verifies /\ c \notin Reads
  /\ \A c \in Verifies : c \notin Reads
  /\ \A c \in Blockings : c \notin Creates
BY CallsAssumption DEF Ids, Calls

\* The service starts well typed.
LEMMA TypeInit == Init => TypeInv
<1> SUFFICES ASSUME Init PROVE TypeInv
  OBVIOUS
<1>1. CallsOK
  BY CallKinds DEF Init, CallsOK, CreateLabels, VerifyLabels, ReadLabels, Replies
<1>2. Inputs
  BY CallKinds DEF Init, Inputs
<1>3. Progress
  BY DEF Init, Progress, Holding
<1>4. SharedOK
  BY DEF Init, SharedOK
<1> QED
  BY <1>1, <1>2, <1>3, <1>4 DEF TypeInv, CallsInv

Labels(c) ==
  {l \in CreateLabels : c \in Ids} \cup {l \in VerifyLabels : c \in Verifies}
    \cup {l \in ReadLabels : c \in Reads}

\* A call that returns keeps the calls well typed.
LEMMA AnswerKeeps ==
  ASSUME CallsInv, NEW c \in Calls, NEW r \in Replies, pc[c] # "idle",
         Answer(c, r), UNCHANGED inputVars
  PROVE  CallsInv'
<1> USE CallKinds DEF Answer, Goto, inputVars
<1>1. CallsOK'
  BY DEF CallsInv, CallsOK, CreateLabels, VerifyLabels, ReadLabels
<1>2. Inputs'
  BY DEF CallsInv, CallsOK, Inputs
<1>3. Progress'
  BY DEF CallsInv, CallsOK, Progress, Holding
<1> QED
  BY <1>1, <1>2, <1>3 DEF CallsInv

\* So does a call that goes on to a label of its handler, with the copy of a
\* request that the label stands for.
LEMMA GotoKeeps ==
  ASSUME CallsInv, NEW c \in Calls, NEW l \in Labels(c),
         pc[c] # "idle", pc[c] # "done", l # "idle",
         Goto(c, l), UNCHANGED <<reply, inputVars>>,
         NEW q \in Request \cup {None}, loaded' = [loaded EXCEPT ![c] = q],
         l \in Holding => q \in Request
  PROVE  CallsInv'
<1> USE CallKinds DEF Goto, inputVars
<1>1. CallsOK'
  BY DEF CallsInv, CallsOK, Labels
<1>2. Inputs'
  BY DEF CallsInv, CallsOK, Inputs
<1>3. Progress'
  BY DEF CallsInv, CallsOK, Progress
<1> QED
  BY <1>1, <1>2, <1>3 DEF CallsInv

\* The same for a call whose copy does not change.
LEMMA StayKeeps ==
  ASSUME CallsInv, NEW c \in Calls, NEW l \in Labels(c),
         pc[c] # "idle", pc[c] # "done", l # "idle",
         Goto(c, l), UNCHANGED <<reply, loaded, inputVars>>,
         l \in Holding => pc[c] \in Holding
  PROVE  CallsInv'
<1>1. loaded[c] \in Request \cup {None} /\ (l \in Holding => loaded[c] \in Request)
  BY DEF CallsInv, CallsOK, Progress
<1>2. loaded' = [loaded EXCEPT ![c] = loaded[c]]
  BY DEF CallsInv, CallsOK
<1> QED
  BY <1>1, <1>2, GotoKeeps

\* Every step of the service keeps its variables well typed.
LEMMA TypeNext == TypeInv /\ [Next]_vars => TypeInv'
<1> SUFFICES ASSUME TypeInv, [Next]_vars PROVE TypeInv'
  OBVIOUS
<1> USE CallKinds DEF TypeInv
<1>1. ASSUME Tick PROVE TypeInv'
  <2>1. CallsInv'
    BY <1>1 DEF Tick, callVars, CallsInv, CallsOK, Inputs, Progress
  <2>2. SharedOK'
    BY <1>1 DEF Tick, SharedOK, verdictVars, waitVars, history
  <2> QED
    BY <2>1, <2>2
<1>2. ASSUME NEW c \in Ids, StartCreate(c) PROVE TypeInv'
  <2>1. PICK s \in Schemas, cb \in CallbackKinds :
          arg' = [arg EXCEPT ![c] = [schema |-> s, callback |-> cb]]
    BY <1>2, DataAssumption DEF StartCreate, CallbackKinds
  <2>2. [schema |-> s, callback |-> cb] \in CreateArg
    BY DEF CreateArg
  <2>3. CallsOK'
    <3>1. CallsOK /\ clock \in Nat
      BY DEF CallsInv, SharedOK
    <3>2. /\ pc' = [pc EXCEPT ![c] = "ensure"]
          /\ since' = [since EXCEPT ![c] = clock]
          /\ UNCHANGED <<reply, sub, rd, loaded>>
      BY <1>2 DEF StartCreate, Goto
    <3>3. /\ arg' \in [Ids -> CreateArg \cup {None}]
          /\ since' \in [Ids -> Nat]
      BY <2>1, <2>2, <3>1, <3>2 DEF CallsOK
    <3>4. /\ pc' \in [Calls -> CreateLabels \cup VerifyLabels \cup ReadLabels]
          /\ \A d \in Ids : pc'[d] \in CreateLabels
          /\ \A d \in Verifies : pc'[d] \in VerifyLabels
          /\ \A d \in Reads : pc'[d] \in ReadLabels
      BY <3>1, <3>2 DEF CallsOK, CreateLabels
    <3> QED
      BY <3>1, <3>2, <3>3, <3>4 DEF CallsOK
  <2>4. Inputs'
    BY <1>2, <2>1, <2>2 DEF StartCreate, Goto, CallsInv, CallsOK, Inputs
  <2>5. Progress'
    BY <1>2 DEF StartCreate, Goto, CallsInv, CallsOK, Progress, Holding
  <2>6. SharedOK'
    BY <1>2 DEF StartCreate, SharedOK, verdictVars, waitVars, history
  <2> QED
    BY <2>3, <2>4, <2>5, <2>6 DEF CallsInv
<1>3. ASSUME NEW c \in Ids, EnsureCheck(c) PROVE TypeInv'
  <2>1. (IF keys[arg[c].schema] # None THEN "save" ELSE "setup") \in Labels(c)
    BY <1>3 DEF Labels, CreateLabels
  <2>2. CallsInv'
    BY <1>3, <2>1, StayKeeps DEF EnsureCheck, Holding
  <2>3. SharedOK'
    BY <1>3 DEF EnsureCheck, SharedOK, verdictVars, waitVars, history
  <2> QED
    BY <2>2, <2>3
<1>4. ASSUME NEW c \in Ids, EnsureFails(c) PROVE TypeInv'
  <2>1. CallsInv'
    BY <1>4, AnswerKeeps DEF EnsureFails, Replies
  <2>2. SharedOK'
    BY <1>4 DEF EnsureFails, SharedOK, verdictVars, waitVars, history
  <2> QED
    BY <2>1, <2>2
<1>5. ASSUME NEW c \in Ids, EnsureStore(c) PROVE TypeInv'
  <2>1. arg[c].schema \in Schemas
    BY <1>5 DEF EnsureStore, CallsInv, Inputs, CreateArg
  <2>2. "save" \in Labels(c)
    BY <1>5 DEF Labels, CreateLabels
  <2>3. CallsInv'
    BY <1>5, <2>2, StayKeeps DEF EnsureStore, Holding
  <2>4. SharedOK'
    BY <1>5, <2>1 DEF EnsureStore, SharedOK, verdictVars, waitVars
  <2> QED
    BY <2>3, <2>4
<1>6. ASSUME NEW c \in Ids, SaveRequest(c) PROVE TypeInv'
  <2>1. arg[c].schema \in Schemas
    BY <1>6 DEF SaveRequest, CallsInv, Inputs, CreateArg
  <2>2. since[c] + TTL \in Nat
    BY TimeAssumption DEF CallsInv, CallsOK
  <2>3. [schema |-> arg[c].schema, expires |-> since[c] + TTL, callback |-> ""] \in Request
    BY <2>1, <2>2 DEF Request, CallbackKinds
  <2>4. (IF c \in Blockings THEN "register" ELSE IF arg[c].callback = "" THEN "respond" ELSE "attach") \in Labels(c)
    BY <1>6 DEF Labels, CreateLabels
  <2>5. CallsInv'
    BY <1>6, <2>4, StayKeeps DEF SaveRequest, Holding
  <2>6. SharedOK'
    BY <1>6, <2>3 DEF SaveRequest, SharedOK, verdictVars, waitVars, history
  <2> QED
    BY <2>5, <2>6
<1>7. ASSUME NEW c \in Ids, AttachLoad(c) PROVE TypeInv'
  <2>1. store[c] \in Request \cup {None}
    BY DEF SharedOK
  <2>2. (IF store[c] = None THEN "respond" ELSE "attachSave") \in Labels(c)
    BY <1>7 DEF Labels, CreateLabels
  <2>3. CallsInv'
    BY <1>7, <2>1, <2>2, GotoKeeps DEF AttachLoad, Holding
  <2>4. SharedOK'
    BY <1>7 DEF AttachLoad, SharedOK, verdictVars, waitVars, history
  <2> QED
    BY <2>3, <2>4
<1>8. ASSUME NEW c \in Ids, AttachSave(c) PROVE TypeInv'
  <2>1. loaded[c] \in Request /\ arg[c] \in CreateArg
    BY <1>8 DEF AttachSave, CallsInv, Inputs, Progress, Holding
  <2>2. [loaded[c] EXCEPT !.callback = arg[c].callback] \in Request
    BY <2>1 DEF Request, CreateArg
  <2>3. "respond" \in Labels(c)
    BY <1>8 DEF Labels, CreateLabels
  <2>4. CallsInv'
    BY <1>8, <2>3, StayKeeps DEF AttachSave, Holding
  <2>5. SharedOK'
    BY <1>8, <2>2 DEF AttachSave, SharedOK, verdictVars, waitVars, history
  <2> QED
    BY <2>4, <2>5
<1>9. ASSUME NEW c \in Ids, RespondCreated(c) PROVE TypeInv'
  <2>1. CallsInv'
    BY <1>9, AnswerKeeps DEF RespondCreated, Replies
  <2>2. SharedOK'
    BY <1>9 DEF RespondCreated, SharedOK, verdictVars, waitVars, history
  <2> QED
    BY <2>1, <2>2
<1>10. ASSUME NEW c \in Blockings, WaitRegister(c) PROVE TypeInv'
  <2>1. "select" \in Labels(c)
    BY <1>10 DEF Labels, CreateLabels
  <2>2. CallsInv'
    BY <1>10, <2>1, StayKeeps DEF WaitRegister, Holding
  <2>3. SharedOK'
    BY <1>10 DEF WaitRegister, SharedOK, verdictVars, history
  <2> QED
    BY <2>2, <2>3
<1>11. ASSUME NEW c \in Blockings, WaitSelect(c) PROVE TypeInv'
  <2>1. PICK r \in {"timeout", "ok", "failed"} :
          /\ waiters' = IF r = "timeout" THEN waiters \ {c} ELSE waiters
          /\ chan' = IF r = "timeout" THEN chan ELSE [chan EXCEPT ![c] = "empty"]
          /\ Answer(c, r)
    BY <1>11 DEF WaitSelect, SelectOutcomes, SharedOK
  <2>2. CallsInv'
    BY <1>11, <2>1, AnswerKeeps DEF WaitSelect, Replies
  <2>3. SharedOK'
    BY <1>11, <2>1 DEF WaitSelect, SharedOK, verdictVars, history
  <2> QED
    BY <2>2, <2>3
<1>12. ASSUME NEW c \in Verifies, StartVerify(c) PROVE TypeInv'
  <2>1. PICK id \in Disclosed, e \in BOOLEAN : \E k \in published[arg[id].schema] \cup {None} :
          sub' = [sub EXCEPT ![c] = [id |-> id, echoes |-> e, key |-> k]]
    BY <1>12 DEF StartVerify
  <2>2. id \in Ids /\ arg[id] \in CreateArg
    BY <2>1 DEF Disclosed, CallsInv, Inputs, Progress
  <2>3. published[arg[id].schema] \subseteq Ids
    BY <2>2 DEF SharedOK, CreateArg
  <2>4. PICK k \in Ids \cup {None} :
          sub' = [sub EXCEPT ![c] = [id |-> id, echoes |-> e, key |-> k]]
    BY <2>1, <2>3
  <2>5. [id |-> id, echoes |-> e, key |-> k] \in Submission
    BY <2>2 DEF Submission
  <2>6. CallsOK'
    <3>1. CallsOK
      BY DEF CallsInv
    <3>2. /\ pc' = [pc EXCEPT ![c] = "load"]
          /\ UNCHANGED <<reply, arg, since, rd, loaded>>
      BY <1>12 DEF StartVerify, Goto
    <3>3. sub' \in [Verifies -> Submission \cup {None}]
      BY <2>4, <2>5, <3>1 DEF CallsOK
    <3>4. /\ pc' \in [Calls -> CreateLabels \cup VerifyLabels \cup ReadLabels]
          /\ \A d \in Ids : pc'[d] \in CreateLabels
          /\ \A d \in Verifies : pc'[d] \in VerifyLabels
          /\ \A d \in Reads : pc'[d] \in ReadLabels
      BY <3>1, <3>2 DEF CallsOK, VerifyLabels
    <3> QED
      BY <3>1, <3>2, <3>3, <3>4 DEF CallsOK
  <2>7. Inputs'
    BY <1>12, <2>4, <2>5 DEF StartVerify, Goto, CallsInv, CallsOK, Inputs
  <2>8. Progress'
    BY <1>12 DEF StartVerify, Goto, CallsInv, CallsOK, Progress, Holding
  <2>9. SharedOK'
    BY <1>12 DEF StartVerify, SharedOK, verdictVars, waitVars, history
  <2> QED
    BY <2>6, <2>7, <2>8, <2>9 DEF CallsInv
<1>13. ASSUME NEW c \in Verifies, VerifyLoad(c) PROVE TypeInv'
  <2>1. store[sub[c].id] \in Request \cup {None}
    BY <1>13 DEF VerifyLoad, SharedOK, CallsInv, Inputs, Submission
  <2>2. CASE store[sub[c].id] = None
    <3>1. "notfound" \in Replies
      BY DEF Replies
    <3> QED
      BY <1>13, <2>2, <3>1, AnswerKeeps DEF VerifyLoad, SharedOK, verdictVars, waitVars, history
  <2>3. CASE store[sub[c].id] # None
    <3>1. "expiry" \in Labels(c)
      BY <1>13 DEF Labels, VerifyLabels
    <3>2. CallsInv'
      BY <1>13, <2>1, <2>3, <3>1, GotoKeeps DEF VerifyLoad
    <3> QED
      BY <1>13, <3>2 DEF VerifyLoad, SharedOK, verdictVars, waitVars, history
  <2> QED
    BY <2>2, <2>3
<1>14. ASSUME NEW c \in Verifies, VerifyExpiry(c) PROVE TypeInv'
  <2>1. (IF clock > loaded[c].expires THEN "drop" ELSE IF sub[c].echoes THEN "proof" ELSE "fail") \in Labels(c)
    BY <1>14 DEF Labels, VerifyLabels
  <2>2. CallsInv'
    BY <1>14, <2>1, StayKeeps DEF VerifyExpiry, Holding
  <2>3. SharedOK'
    BY <1>14 DEF VerifyExpiry, SharedOK, verdictVars, waitVars, history
  <2> QED
    BY <2>2, <2>3
<1>15. ASSUME NEW c \in Verifies, DropExpired(c) PROVE TypeInv'
  <2>1. sub[c].id \in Ids
    BY <1>15 DEF DropExpired, CallsInv, Inputs, Submission
  <2>2. "fail" \in Labels(c)
    BY <1>15 DEF Labels, VerifyLabels
  <2>3. CallsInv'
    BY <1>15, <2>2, StayKeeps DEF DropExpired, Holding
  <2>4. SharedOK'
    BY <1>15, <2>1 DEF DropExpired, SharedOK, verdictVars, waitVars, history
  <2> QED
    BY <2>3, <2>4
<1>16. ASSUME NEW c \in Verifies, VerifyProof(c) PROVE TypeInv'
  <2>1. PICK l \in {"consume", "fail"} : Goto(c, l)
    BY <1>16 DEF VerifyProof
  <2>2. l \in Labels(c)
    BY DEF Labels, VerifyLabels
  <2>3. CallsInv'
    BY <1>16, <2>1, <2>2, StayKeeps DEF VerifyProof, Holding
  <2>4. SharedOK'
    BY <1>16 DEF VerifyProof, SharedOK, verdictVars, waitVars, history
  <2> QED
    BY <2>3, <2>4
<1>17. ASSUME NEW c \in Verifies, Consume(c) PROVE TypeInv'
  <2>1. sub[c].id \in Ids
    BY <1>17 DEF Consume, CallsInv, Inputs, Submission
  <2>2. "accept" \in Labels(c)
    BY <1>17 DEF Labels, VerifyLabels
  <2>3. CallsInv'
    BY <1>17, <2>2, StayKeeps DEF Consume, Holding
  <2>4. SharedOK'
    BY <1>17, <2>1 DEF Consume, SharedOK, verdictVars, waitVars, history
  <2> QED
    BY <2>3, <2>4
<1>18. ASSUME NEW c \in Verifies, RecordVerified(c) PROVE TypeInv'
  <2>1. sub[c].id \in Ids
    BY <1>18 DEF RecordVerified, CallsInv, Inputs, Submission
  <2>2. [id |-> sub[c].id, at |-> clock + VerdictTTL, by |-> c] \in Timer
    BY <2>1, TimeAssumption DEF SharedOK, Timer
  <2>3. "hookOk" \in Labels(c)
    BY <1>18 DEF Labels, VerifyLabels
  <2>4. CallsInv'
    BY <1>18, <2>3, StayKeeps DEF RecordVerified, Holding
  <2>5. SharedOK'
    BY <1>18, <2>1, <2>2 DEF RecordVerified, SharedOK, waitVars, history, SetVerdict
  <2> QED
    BY <2>4, <2>5
<1>19. ASSUME NEW c \in Verifies, RecordFailed(c) PROVE TypeInv'
  <2>1. sub[c].id \in Ids
    BY <1>19 DEF RecordFailed, CallsInv, Inputs, Submission
  <2>2. [id |-> sub[c].id, at |-> clock + VerdictTTL, by |-> c] \in Timer
    BY <2>1, TimeAssumption DEF SharedOK, Timer
  <2>3. "hookFail" \in Labels(c)
    BY <1>19 DEF Labels, VerifyLabels
  <2>4. CallsInv'
    BY <1>19, <2>3, StayKeeps DEF RecordFailed, Holding
  <2>5. SharedOK'
    BY <1>19, <2>1, <2>2 DEF RecordFailed, SharedOK, waitVars, history, SetVerdict
  <2> QED
    BY <2>4, <2>5
<1>20. ASSUME NEW c \in Verifies, WebhookReturns(c) PROVE TypeInv'
  <2>1. (IF pc[c] = "hookOk" THEN "notifyOk" ELSE "notifyFail") \in Labels(c)
    BY <1>20 DEF Labels, VerifyLabels
  <2>2. CallsInv'
    BY <1>20, <2>1, StayKeeps DEF WebhookReturns, Holding
  <2>3. SharedOK'
    BY <1>20 DEF WebhookReturns, SharedOK, verdictVars, waitVars, history
  <2> QED
    BY <2>2, <2>3
<1>21. ASSUME NEW c \in Verifies, WebhookPanics(c) PROVE TypeInv'
  <2>1. CallsInv'
    BY <1>21, AnswerKeeps DEF WebhookPanics, Replies
  <2>2. SharedOK'
    BY <1>21 DEF WebhookPanics, SharedOK, verdictVars, waitVars, history
  <2> QED
    BY <2>1, <2>2
<1>22. ASSUME NEW c \in Verifies, NotifyWaiters(c) PROVE TypeInv'
  <2>1. CallsInv'
    BY <1>22, AnswerKeeps DEF NotifyWaiters, Replies
  <2>2. SharedOK'
    BY <1>22 DEF NotifyWaiters, SharedOK, verdictVars, history
  <2> QED
    BY <2>1, <2>2
<1>23. ASSUME NEW c \in Reads, StartRead(c) PROVE TypeInv'
  <2>1. PICK id \in Ids, kind \in ReadKinds :
          /\ rd' = [rd EXCEPT ![c] = [id |-> id, kind |-> kind]]
          /\ told' = [told EXCEPT ![c] = RepliesAbout(id)]
          /\ Goto(c, IF kind = "result" THEN "verdict" ELSE "rload")
    BY <1>23 DEF StartRead, Disclosed
  <2>2. [id |-> id, kind |-> kind] \in ReadArg
    BY DEF ReadArg
  <2>3. RepliesAbout(id) \subseteq Replies
    BY DEF RepliesAbout, CallsInv, CallsOK
  <2>4. CallsOK'
    BY <1>23, <2>1, <2>2 DEF StartRead, Goto, CallsInv, CallsOK, ReadLabels
  <2>5. Inputs'
    BY <1>23, <2>1, <2>2 DEF StartRead, Goto, CallsInv, CallsOK, Inputs
  <2>6. Progress'
    BY <1>23, <2>1 DEF StartRead, Goto, CallsInv, CallsOK, Progress, Holding
  <2>7. SharedOK'
    BY <1>23, <2>1, <2>3 DEF StartRead, SharedOK, verdictVars, waitVars
  <2> QED
    BY <2>4, <2>5, <2>6, <2>7 DEF CallsInv
<1>24. ASSUME NEW c \in Reads, ResultVerdict(c) PROVE TypeInv'
  <2>1. verdicts[rd[c].id] \in {"none", "verified", "failed"}
    BY <1>24 DEF ResultVerdict, SharedOK, CallsInv, Inputs, ReadArg
  <2>2. CASE verdicts[rd[c].id] # "none"
    <3>1. verdicts[rd[c].id] \in Replies
      BY <2>1, <2>2 DEF Replies
    <3>2. CallsInv'
      BY <1>24, <2>2, <3>1, AnswerKeeps DEF ResultVerdict
    <3> QED
      BY <1>24, <3>2 DEF ResultVerdict, SharedOK, verdictVars, waitVars, history
  <2>3. CASE verdicts[rd[c].id] = "none"
    <3>1. "rload" \in Labels(c)
      BY <1>24 DEF Labels, ReadLabels
    <3>2. CallsInv'
      BY <1>24, <2>3, <3>1, StayKeeps DEF ResultVerdict, Holding
    <3> QED
      BY <1>24, <3>2 DEF ResultVerdict, SharedOK, verdictVars, waitVars, history
  <2> QED
    BY <2>1, <2>2, <2>3
<1>25. ASSUME NEW c \in Reads, ReadLoad(c) PROVE TypeInv'
  <2>1. store[rd[c].id] \in Request \cup {None}
    BY <1>25 DEF ReadLoad, SharedOK, CallsInv, Inputs, ReadArg
  <2>2. CASE store[rd[c].id] = None
    <3>1. MissReply(rd[c].kind) \in Replies
      BY DEF Replies, MissReply
    <3> QED
      BY <1>25, <2>2, <3>1, AnswerKeeps DEF ReadLoad, SharedOK, verdictVars, waitVars, history
  <2>3. CASE store[rd[c].id] # None
    <3>1. "rtime" \in Labels(c)
      BY <1>25 DEF Labels, ReadLabels
    <3>2. CallsInv'
      BY <1>25, <2>1, <2>3, <3>1, GotoKeeps DEF ReadLoad
    <3> QED
      BY <1>25, <3>2 DEF ReadLoad, SharedOK, verdictVars, waitVars, history
  <2> QED
    BY <2>2, <2>3
<1>26. ASSUME NEW c \in Reads, ReadTime(c) PROVE TypeInv'
  <2>1. CallsInv'
    BY <1>26, AnswerKeeps DEF ReadTime, Replies
  <2>2. SharedOK'
    BY <1>26 DEF ReadTime, SharedOK, verdictVars, waitVars, history
  <2> QED
    BY <2>1, <2>2
<1>27. ASSUME NEW t \in timers, ForgetVerdict(t) PROVE TypeInv'
  <2>1. CallsInv'
    BY <1>27 DEF ForgetVerdict, callVars, CallsInv, CallsOK, Inputs, Progress
  <2>2. SharedOK'
    BY <1>27 DEF ForgetVerdict, SharedOK, waitVars, history, Timer
  <2> QED
    BY <2>1, <2>2
<1>28. ASSUME UNCHANGED vars PROVE TypeInv'
  BY <1>28 DEF CallsInv, CallsOK, Inputs, Progress, SharedOK, vars, callVars, verdictVars,
     waitVars, history
<1> QED
  BY <1>1, <1>2, <1>3, <1>4, <1>5, <1>6, <1>7, <1>8, <1>9, <1>10, <1>11, <1>12, <1>13,
     <1>14, <1>15, <1>16, <1>17, <1>18, <1>19, <1>20, <1>21, <1>22, <1>23, <1>24,
     <1>25, <1>26, <1>27, <1>28 DEF Next, CreateStep, WaitStep, VerifyStep, ReadStep

\* TypeOK holds in every behaviour of the service.
THEOREM TypeCorrect == Spec => []TypeOK
<1>1. TypeInv => TypeOK
  BY DEF TypeInv, CallsInv, TypeOK
<1> QED
  BY <1>1, TypeInit, TypeNext, PTL DEF Spec

-----------------------------------------------------------------------------
\* Labels of a creating call before its request is saved, and from then until
\* the call returns.
Fresh == {"idle", "ensure", "setup", "save"}
Issued == {"attach", "attachSave", "respond", "register", "select"}

\* Until its creating call returns, a request is in the store exactly from the
\* moment that call saves it.
Private ==
  \A id \in Ids :
    /\ pc[id] \in Fresh => store[id] = None
    /\ pc[id] \in Issued => store[id] # None

\* Submissions and verdicts are about disclosed requests.
Known ==
  /\ \A c \in Verifies : sub[c] # None => sub[c].id \in Disclosed
  /\ \A id \in Ids : verdicts[id] # "none" => id \in Disclosed

\* The schema of every request, stored, copied or about to be, has its keys.
KeysHeld ==
  /\ \A id \in Ids : pc[id] = "save" => keys[arg[id].schema] # None
  /\ \A id \in Ids : store[id] # None => keys[store[id].schema] # None
  /\ \A c \in Ids \cup Verifies : loaded[c] # None => keys[loaded[c].schema] # None

\* A stored request has its callback unless its creating call is about to attach
\* it, and a submission's copy always has.
Attached ==
  /\ \A c \in Blockings : pc[c] # "idle" => arg[c].callback = ""
  /\ \A id \in Ids :
       store[id] # None /\ pc[id] \notin {"attach", "attachSave"} =>
         store[id].callback = arg[id].callback
  /\ \A c \in Verifies :
       loaded[c] # None => loaded[c].callback = arg[sub[c].id].callback

\* An accepted request is gone from the moment it is consumed.
Accepted ==
  /\ \A c \in Verifies :
       pc[c] \in {"accept", "hookOk", "notifyOk"} \/ reply[c] = "ok" => store[sub[c].id] = None
  /\ \A id \in Ids : verdicts[id] = "verified" => store[id] = None

\* A blocking call is registered only while it waits, and nothing reaches it.
Waiting ==
  \A b \in Blockings :
    /\ b \in waiters => pc[b] = "select"
    /\ pc[b] \notin {"attach", "attachSave", "respond"}
    /\ chan[b] = "empty"
    /\ reply[b] \in {"", "rejected", "timeout"}

Inv == Private /\ Known /\ KeysHeld /\ Attached /\ Accepted /\ Waiting

\* It holds initially.
LEMMA InvInit == Init => Inv
<1> SUFFICES ASSUME Init PROVE Inv
  OBVIOUS
<1>1. Private /\ Known /\ Accepted
  BY CallKinds DEF Init, Private, Known, Accepted, Fresh, Issued
<1>2. KeysHeld /\ Attached /\ Waiting
  BY CallKinds DEF Init, KeysHeld, Attached, Waiting
<1> QED
  BY <1>1, <1>2 DEF Inv

\* What TypeInv says, in the form the following proofs use it.
LEMMA Shape ==
  ASSUME TypeInv
  PROVE  /\ DOMAIN pc = Calls /\ DOMAIN reply = Calls /\ DOMAIN loaded = Calls
         /\ DOMAIN arg = Ids /\ DOMAIN sub = Verifies /\ DOMAIN store = Ids
         /\ DOMAIN keys = Schemas /\ DOMAIN verdicts = Ids /\ DOMAIN chan = Blockings
         /\ \A c \in Calls : reply[c] # "" => pc[c] = "done"
         /\ \A c \in Calls : pc[c] = "idle" => loaded[c] = None
         /\ \A c \in Ids : pc[c] # "idle" => arg[c].schema \in Schemas
         /\ \A c \in Verifies : pc[c] # "idle" => sub[c] # None /\ sub[c].id \in Ids
<1>1. /\ \A c \in Ids : pc[c] # "idle" => arg[c].schema \in Schemas
      /\ \A c \in Verifies : pc[c] # "idle" => sub[c].id \in Ids
  BY DEF TypeInv, CallsInv, Inputs, CreateArg, Submission
<1>2. \A c \in Verifies : pc[c] # "idle" => sub[c] # None
  BY NoneAssumption DEF TypeInv, CallsInv, Inputs
<1> QED
  BY <1>1, <1>2 DEF TypeInv, CallsInv, CallsOK, SharedOK, Progress

\* A request that is stored or copied has a schema.
LEMMA Whole ==
  ASSUME TypeInv
  PROVE  /\ \A id \in Ids : store[id] # None => store[id].schema \in Schemas
         /\ \A c \in Calls : loaded[c] # None => loaded[c].schema \in Schemas
BY DEF TypeInv, CallsInv, CallsOK, SharedOK, Request

\* As long as its creating call has not returned, nobody submits to a request
\* and it has no verdict.
LEMMA Untouched ==
  ASSUME TypeInv, Known, NEW c \in Ids, pc[c] # "done"
  PROVE  /\ c \notin Disclosed
         /\ verdicts[c] = "none"
         /\ \A d \in Verifies : pc[d] # "idle" => sub[d].id # c
<1>1. c \notin Disclosed
  BY CallKinds, Shape DEF Disclosed
<1> QED
  BY <1>1, Shape DEF Known

\* So the creating call of a request that is submitted to has returned.
LEMMA Submitted ==
  ASSUME TypeInv, Known, NEW c \in Verifies, pc[c] # "idle"
  PROVE  sub[c].id \in Ids /\ sub[c].id \in Disclosed /\ pc[sub[c].id] = "done"
<1>1. sub[c].id \in Ids /\ sub[c].id \in Disclosed
  BY Shape DEF Known
<1> QED
  BY <1>1, CallKinds, Shape DEF Disclosed

\* Only call c moves, returns or changes its copy of a request.
Alone(c) ==
  \A d \in Calls : d # c => pc'[d] = pc[d] /\ reply'[d] = reply[d] /\ loaded'[d] = loaded[d]

\* A reading call disturbs nothing.
LEMMA ReadsKeep ==
  ASSUME Inv, NEW c \in Reads, Alone(c),
         UNCHANGED <<arg, sub, store, keys, verdicts, waiters, chan>>
  PROVE  Inv'
<1>1. \A d \in Ids \cup Verifies : pc'[d] = pc[d] /\ reply'[d] = reply[d] /\ loaded'[d] = loaded[d]
  BY CallKinds DEF Alone
<1>2. Private'
  BY <1>1 DEF Inv, Private
<1>3. Known'
  BY <1>1 DEF Inv, Known, Disclosed
<1>4. KeysHeld'
  BY <1>1 DEF Inv, KeysHeld
<1>5. Attached'
  BY <1>1, CallKinds DEF Inv, Attached
<1>6. Accepted'
  BY <1>1 DEF Inv, Accepted
<1>7. Waiting'
  BY <1>1, CallKinds DEF Inv, Waiting
<1> QED
  BY <1>2, <1>3, <1>4, <1>5, <1>6, <1>7 DEF Inv

\* Nor does a submission that moves on, unless it moves on to acceptance.
LEMMA MovesKeep ==
  ASSUME Inv, NEW c \in Verifies, Alone(c),
         UNCHANGED <<arg, sub, store, keys, verdicts, waiters, chan>>,
         loaded'[c] \in {loaded[c], None}, reply'[c] = "ok" => reply[c] = "ok",
         pc'[c] \in {"accept", "hookOk", "notifyOk"} => pc[c] \in {"accept", "hookOk", "notifyOk"}
  PROVE  Inv'
<1>1. /\ \A d \in Ids : pc'[d] = pc[d] /\ reply'[d] = reply[d] /\ loaded'[d] = loaded[d]
      /\ \A d \in Verifies : loaded'[d] \in {loaded[d], None}
  BY CallKinds DEF Alone
<1>2. Private'
  BY <1>1 DEF Inv, Private
<1>3. Known'
  BY <1>1 DEF Inv, Known, Disclosed
<1>4. KeysHeld'
  BY <1>1 DEF Inv, KeysHeld
<1>5. Attached'
  BY <1>1, CallKinds DEF Inv, Attached
<1>6. Accepted'
  BY CallKinds DEF Inv, Alone, Accepted
<1>7. Waiting'
  BY <1>1, CallKinds DEF Inv, Waiting
<1> QED
  BY <1>2, <1>3, <1>4, <1>5, <1>6, <1>7 DEF Inv

\* Every step keeps the invariant.
LEMMA InvNext == TypeInv /\ Inv /\ [Next]_vars => Inv'
<1> SUFFICES ASSUME TypeInv, Inv, [Next]_vars PROVE Inv'
  OBVIOUS
<1> USE DEF Inv
<1>1. ASSUME Tick PROVE Inv'
  <2>1. Private'
    BY <1>1 DEF Tick, callVars, verdictVars, waitVars, Private, Fresh, Issued
  <2>2. Known'
    BY <1>1 DEF Tick, callVars, verdictVars, waitVars, Known, Disclosed
  <2>3. KeysHeld'
    BY <1>1 DEF Tick, callVars, verdictVars, waitVars, KeysHeld
  <2>4. Attached'
    BY <1>1 DEF Tick, callVars, verdictVars, waitVars, Attached
  <2>5. Accepted'
    BY <1>1 DEF Tick, callVars, verdictVars, waitVars, Accepted
  <2>6. Waiting'
    BY <1>1 DEF Tick, callVars, verdictVars, waitVars, Waiting
  <2> QED
    BY <2>1, <2>2, <2>3, <2>4, <2>5, <2>6
<1>2. ASSUME NEW c \in Ids, StartCreate(c) PROVE Inv'
  <2>1. PICK s \in Schemas, cb \in CallbackKinds :
          /\ arg' = [arg EXCEPT ![c] = [schema |-> s, callback |-> cb]]
          /\ c \in Blockings => cb = ""
    <3>1. CASE c \in Creates
      BY <1>2, <3>1, DataAssumption, CallKinds DEF StartCreate
    <3>2. CASE c \notin Creates
      BY <1>2, <3>2 DEF StartCreate, CallbackKinds
    <3> QED
      BY <3>1, <3>2
  <2>2. /\ c \notin Disclosed /\ verdicts[c] = "none"
        /\ \A d \in Verifies : pc[d] # "idle" => sub[d].id # c
    BY <1>2, Untouched DEF StartCreate
  <2>3. /\ Alone(c)
        /\ pc[c] = "idle"
        /\ pc'[c] = "ensure"
        /\ reply'[c] = reply[c]
        /\ loaded'[c] = loaded[c]
    BY <1>2, Shape, CallKinds DEF StartCreate, Goto, Alone
  <2>4. /\ \A d \in Ids : d # c => pc'[d] = pc[d] /\ reply'[d] = reply[d] /\ loaded'[d] = loaded[d]
        /\ \A d \in Verifies : pc'[d] = pc[d] /\ reply'[d] = reply[d] /\ loaded'[d] = loaded[d]
    BY <2>3, CallKinds DEF Alone
  <2>5. /\ \A d \in Ids : d # c => arg'[d] = arg[d]
        /\ c \in Blockings => arg'[c].callback = ""
    BY <1>2, <2>1, Shape DEF StartCreate
  <2>6. UNCHANGED <<sub, store, keys, verdicts, waiters, chan>>
    BY <1>2 DEF StartCreate, verdictVars, waitVars
  <2>7. Private'
    BY <2>3, <2>4, <2>6 DEF Private, Fresh, Issued
  <2>8. Known'
    BY <2>3, <2>4, <2>6 DEF Known, Disclosed
  <2>9. KeysHeld'
    <3>1. \A d \in Ids : pc'[d] = "save" => d # c /\ pc[d] = "save" /\ arg'[d] = arg[d]
      BY <2>4, <2>3, <2>5
    <3>2. \A d \in Ids : pc'[d] = "save" => keys'[arg'[d].schema] # None
      BY <3>1, <2>6 DEF KeysHeld
    <3>3. \A d \in Ids : store'[d] # None => keys'[store'[d].schema] # None
      BY <2>6 DEF KeysHeld
    <3>4. \A d \in Ids \cup Verifies : loaded'[d] # None => keys'[loaded'[d].schema] # None
      <4>1. \A d \in Ids \cup Verifies : loaded'[d] = loaded[d]
        BY <2>4, <2>3
      <4> QED
        BY <4>1, <2>6 DEF KeysHeld
    <3> QED
      BY <3>2, <3>3, <3>4 DEF KeysHeld
  <2>10. Attached'
    <3>1. \A b \in Blockings : pc'[b] # "idle" => arg'[b].callback = ""
      BY <2>4, <2>5, CallKinds DEF Attached
    <3>2. \A d \in Ids : store'[d] # None /\ pc'[d] \notin {"attach", "attachSave"} =>
            store'[d].callback = arg'[d].callback
      BY <2>4, <2>3, <2>5, <2>6 DEF Attached, Private, Fresh
    <3>3. ASSUME NEW d \in Verifies, loaded'[d] # None
          PROVE  loaded'[d].callback = arg'[sub'[d].id].callback
      <4>1. loaded[d] # None /\ loaded'[d] = loaded[d] /\ sub'[d] = sub[d]
        BY <3>3, <2>4, <2>6
      <4>2. pc[d] # "idle"
        BY <4>1, Shape, CallKinds
      <4>3. arg'[sub[d].id] = arg[sub[d].id]
        BY <4>2, <2>2, <2>5, Submitted
      <4> QED
        BY <4>1, <4>3 DEF Attached
    <3> QED
      BY <3>1, <3>2, <3>3 DEF Attached
  <2>11. Accepted'
    BY <2>3, <2>4, <2>6 DEF Accepted
  <2>12. Waiting'
    BY <2>3, <2>4, <2>6, CallKinds DEF Waiting
  <2> QED
    BY <2>7, <2>8, <2>9, <2>10, <2>11, <2>12
<1>3. ASSUME NEW c \in Ids, EnsureCheck(c) PROVE Inv'
  <2>1. /\ Alone(c)
        /\ pc[c] = "ensure"
        /\ (pc'[c] = "setup" \/ (pc'[c] = "save" /\ keys[arg[c].schema] # None))
        /\ reply'[c] = reply[c]
        /\ loaded'[c] = loaded[c]
    BY <1>3, Shape, CallKinds DEF EnsureCheck, Goto, Alone
  <2>2. /\ \A d \in Ids : d # c => pc'[d] = pc[d] /\ reply'[d] = reply[d] /\ loaded'[d] = loaded[d]
        /\ \A d \in Verifies : pc'[d] = pc[d] /\ reply'[d] = reply[d] /\ loaded'[d] = loaded[d]
    BY <2>1, CallKinds DEF Alone
  <2>3. UNCHANGED <<arg, sub, store, keys, verdicts, waiters, chan>>
    BY <1>3 DEF EnsureCheck, inputVars, verdictVars, waitVars
  <2>4. Private'
    BY <2>1, <2>2, <2>3 DEF Private, Fresh, Issued
  <2>5. Known'
    BY <2>1, <2>2, <2>3 DEF Known, Disclosed
  <2>6. KeysHeld'
    BY <2>1, <2>2, <2>3 DEF KeysHeld
  <2>7. Attached'
    BY <2>1, <2>2, <2>3, CallKinds DEF Attached
  <2>8. Accepted'
    BY <2>1, <2>2, <2>3 DEF Accepted
  <2>9. Waiting'
    BY <2>1, <2>2, <2>3, CallKinds DEF Waiting
  <2> QED
    BY <2>4, <2>5, <2>6, <2>7, <2>8, <2>9
<1>4. ASSUME NEW c \in Ids, EnsureFails(c) PROVE Inv'
  <2>1. /\ c \notin Disclosed /\ verdicts[c] = "none"
        /\ \A d \in Verifies : pc[d] # "idle" => sub[d].id # c
    BY <1>4, Untouched DEF EnsureFails
  <2>2. /\ Alone(c)
        /\ pc[c] = "setup"
        /\ pc'[c] = "done"
        /\ reply'[c] = "rejected"
        /\ loaded'[c] = None
    BY <1>4, Shape, CallKinds DEF EnsureFails, Answer, Goto, Alone
  <2>3. /\ \A d \in Ids : d # c => pc'[d] = pc[d] /\ reply'[d] = reply[d] /\ loaded'[d] = loaded[d]
        /\ \A d \in Verifies : pc'[d] = pc[d] /\ reply'[d] = reply[d] /\ loaded'[d] = loaded[d]
    BY <2>2, CallKinds DEF Alone
  <2>4. UNCHANGED <<arg, sub, store, keys, verdicts, waiters, chan>>
    BY <1>4 DEF EnsureFails, inputVars, verdictVars, waitVars
  <2>5. Private'
    BY <2>2, <2>3, <2>4 DEF Private, Fresh, Issued
  <2>6. Known'
    BY <2>2, <2>3, <2>4, <2>1 DEF Known, Disclosed
  <2>7. KeysHeld'
    BY <2>2, <2>3, <2>4 DEF KeysHeld
  <2>8. Attached'
    BY <2>2, <2>3, <2>4, CallKinds DEF Attached
  <2>9. Accepted'
    BY <2>2, <2>3, <2>4 DEF Accepted
  <2>10. Waiting'
    BY <2>2, <2>3, <2>4, CallKinds DEF Waiting
  <2> QED
    BY <2>5, <2>6, <2>7, <2>8, <2>9, <2>10
<1>5. ASSUME NEW c \in Ids, EnsureStore(c) PROVE Inv'
  <2>1. c # None /\ arg[c].schema \in Schemas
    BY <1>5, NoneAssumption, Shape DEF EnsureStore
  <2>2. /\ Alone(c)
        /\ pc[c] = "setup"
        /\ pc'[c] = "save"
        /\ reply'[c] = reply[c]
        /\ loaded'[c] = loaded[c]
    BY <1>5, Shape, CallKinds DEF EnsureStore, Goto, Alone
  <2>3. /\ \A d \in Ids : d # c => pc'[d] = pc[d] /\ reply'[d] = reply[d] /\ loaded'[d] = loaded[d]
        /\ \A d \in Verifies : pc'[d] = pc[d] /\ reply'[d] = reply[d] /\ loaded'[d] = loaded[d]
    BY <2>2, CallKinds DEF Alone
  <2>4. \A s \in Schemas : keys'[s] # None <=> keys[s] # None \/ s = arg[c].schema
    BY <1>5, <2>1, Shape DEF EnsureStore
  <2>5. UNCHANGED <<arg, sub, store, verdicts, waiters, chan>>
    BY <1>5 DEF EnsureStore, inputVars, verdictVars, waitVars
  <2>6. Private'
    BY <2>2, <2>3, <2>5 DEF Private, Fresh, Issued
  <2>7. Known'
    BY <2>2, <2>3, <2>5 DEF Known, Disclosed
  <2>8. KeysHeld'
    <3>1. \A d \in Ids : pc'[d] = "save" => keys'[arg'[d].schema] # None
      BY <2>1, <2>3, <2>2, <2>4, <2>5, Shape DEF KeysHeld
    <3>2. \A d \in Ids : store'[d] # None => keys'[store'[d].schema] # None
      BY <2>4, <2>5, Whole DEF KeysHeld
    <3>3. \A d \in Ids \cup Verifies : loaded'[d] # None => keys'[loaded'[d].schema] # None
      <4>1. \A d \in Ids \cup Verifies : loaded'[d] = loaded[d]
        BY <2>3, <2>2
      <4>2. \A d \in Ids \cup Verifies : loaded[d] # None => loaded[d].schema \in Schemas
        BY Whole, CallKinds
      <4> QED
        BY <4>1, <4>2, <2>4 DEF KeysHeld
    <3> QED
      BY <3>1, <3>2, <3>3 DEF KeysHeld
  <2>9. Attached'
    BY <2>2, <2>3, <2>5, CallKinds DEF Attached
  <2>10. Accepted'
    BY <2>2, <2>3, <2>5 DEF Accepted
  <2>11. Waiting'
    BY <2>2, <2>3, <2>5, CallKinds DEF Waiting
  <2> QED
    BY <2>6, <2>7, <2>8, <2>9, <2>10, <2>11
<1>6. ASSUME NEW c \in Ids, SaveRequest(c) PROVE Inv'
  <2>1. arg[c] \in CreateArg
    BY <1>6 DEF SaveRequest, TypeInv, CallsInv, Inputs
  <2>2. since[c] \in Nat
    BY DEF TypeInv, CallsInv, CallsOK
  <2>3. since[c] + TTL \in Nat
    BY <2>2, TimeAssumption
  <2>4. [schema |-> arg[c].schema, expires |-> since[c] + TTL, callback |-> ""] \in Request
    BY <2>1, <2>3 DEF CreateArg, Request, CallbackKinds
  <2>5. PICK q : /\ q # None /\ q.schema = arg[c].schema /\ q.callback = ""
                /\ store' = [store EXCEPT ![c] = q]
    BY <1>6, <2>4, NoneAssumption DEF SaveRequest
  <2>6. /\ c \notin Disclosed /\ verdicts[c] = "none"
        /\ \A d \in Verifies : pc[d] # "idle" => sub[d].id # c
    BY <1>6, Untouched DEF SaveRequest
  <2>7. /\ Alone(c)
        /\ pc[c] = "save"
        /\ pc'[c] \in {"register", "respond", "attach"}
        /\ (pc'[c] \in {"register", "respond"} => arg[c].callback = "")
        /\ (c \in Blockings => pc'[c] = "register")
        /\ reply'[c] = reply[c]
        /\ loaded'[c] = loaded[c]
    BY <1>6, Shape, CallKinds DEF SaveRequest, Goto, Alone, Attached
  <2>8. /\ \A d \in Ids : d # c => pc'[d] = pc[d] /\ reply'[d] = reply[d] /\ loaded'[d] = loaded[d]
        /\ \A d \in Verifies : pc'[d] = pc[d] /\ reply'[d] = reply[d] /\ loaded'[d] = loaded[d]
    BY <2>7, CallKinds DEF Alone
  <2>9. /\ store'[c] = q
        /\ \A d \in Ids : d # c => store'[d] = store[d]
    BY <1>6, <2>5, Shape DEF SaveRequest
  <2>10. UNCHANGED <<arg, sub, keys, verdicts, waiters, chan>>
    BY <1>6 DEF SaveRequest, inputVars, verdictVars, waitVars
  <2>11. Private'
    BY <2>7, <2>8, <2>9, <2>10, <2>5 DEF Private, Fresh, Issued
  <2>12. Known'
    BY <2>7, <2>8, <2>10 DEF Known, Disclosed
  <2>13. KeysHeld'
    <3>1. \A d \in Ids : pc'[d] = "save" => keys'[arg'[d].schema] # None
      BY <2>8, <2>7, <2>10 DEF KeysHeld
    <3>2. keys'[q.schema] # None
      BY <2>5, <2>7, <2>10 DEF KeysHeld
    <3>3. \A d \in Ids : store'[d] # None => keys'[store'[d].schema] # None
      BY <3>2, <2>9, <2>10 DEF KeysHeld
    <3>4. \A d \in Ids \cup Verifies : loaded'[d] # None => keys'[loaded'[d].schema] # None
      <4>1. \A d \in Ids \cup Verifies : loaded'[d] = loaded[d]
        BY <2>8, <2>7
      <4> QED
        BY <4>1, <2>10 DEF KeysHeld
    <3> QED
      BY <3>1, <3>3, <3>4 DEF KeysHeld
  <2>14. Attached'
    <3>1. \A b \in Blockings : pc'[b] # "idle" => arg'[b].callback = ""
      BY <2>8, <2>7, <2>10, CallKinds DEF Attached
    <3>2. pc'[c] \notin {"attach", "attachSave"} => store'[c].callback = arg'[c].callback
      <4>1. pc'[c] \notin {"attach", "attachSave"} => arg[c].callback = ""
        BY <2>7
      <4> QED
        BY <4>1, <2>5, <2>9, <2>10
    <3>3. \A d \in Ids \ {c} : store'[d] # None /\ pc'[d] \notin {"attach", "attachSave"} =>
            store'[d].callback = arg'[d].callback
      BY <2>8, <2>9, <2>10 DEF Attached
    <3>4. \A d \in Verifies : loaded'[d] # None => loaded'[d].callback = arg'[sub'[d].id].callback
      BY <2>8, <2>10 DEF Attached
    <3> QED
      BY <3>1, <3>2, <3>3, <3>4 DEF Attached
  <2>15. Accepted'
    <3>1. ASSUME NEW d \in Verifies,
                 pc'[d] \in {"accept", "hookOk", "notifyOk"} \/ reply'[d] = "ok"
          PROVE  store'[sub'[d].id] = None
      <4>1. /\ sub'[d] = sub[d] /\ store[sub[d].id] = None
            /\ pc[d] # "idle"
        BY <3>1, <2>8, <2>10, Shape, CallKinds DEF Accepted
      <4>2. sub[d].id \in Ids /\ sub[d].id # c
        BY <4>1, <2>6, Shape
      <4> QED
        BY <4>1, <4>2, <2>9
    <3>2. \A d \in Ids : verdicts'[d] = "verified" => store'[d] = None
      BY <2>6, <2>9, <2>10 DEF Accepted
    <3> QED
      BY <3>1, <3>2 DEF Accepted
  <2>16. Waiting'
    BY <2>7, <2>8, <2>10, CallKinds DEF Waiting
  <2> QED
    BY <2>11, <2>12, <2>13, <2>14, <2>15, <2>16
<1>7. ASSUME NEW c \in Ids, AttachLoad(c) PROVE Inv'
  <2>1. /\ Alone(c)
        /\ pc[c] = "attach"
        /\ pc'[c] = "attachSave"
        /\ loaded'[c] = store[c]
        /\ reply'[c] = reply[c]
    BY <1>7, Shape, CallKinds DEF AttachLoad, Goto, Alone, Private, Issued
  <2>2. /\ \A d \in Ids : d # c => pc'[d] = pc[d] /\ reply'[d] = reply[d] /\ loaded'[d] = loaded[d]
        /\ \A d \in Verifies : pc'[d] = pc[d] /\ reply'[d] = reply[d] /\ loaded'[d] = loaded[d]
    BY <2>1, CallKinds DEF Alone
  <2>3. UNCHANGED <<arg, sub, store, keys, verdicts, waiters, chan>>
    BY <1>7 DEF AttachLoad, inputVars, verdictVars, waitVars
  <2>4. Private'
    BY <2>1, <2>2, <2>3 DEF Private, Fresh, Issued
  <2>5. Known'
    BY <2>1, <2>2, <2>3 DEF Known, Disclosed
  <2>6. KeysHeld'
    BY <2>1, <2>2, <2>3 DEF KeysHeld
  <2>7. Attached'
    BY <2>1, <2>2, <2>3, CallKinds DEF Attached
  <2>8. Accepted'
    BY <2>1, <2>2, <2>3 DEF Accepted
  <2>9. Waiting'
    BY <2>1, <2>2, <2>3, CallKinds DEF Waiting
  <2> QED
    BY <2>4, <2>5, <2>6, <2>7, <2>8, <2>9
<1>8. ASSUME NEW c \in Ids, AttachSave(c) PROVE Inv'
  <2>1. loaded[c] \in Request /\ arg[c] \in CreateArg
    <3>1. pc[c] = "attachSave"
      BY <1>8 DEF AttachSave
    <3>2. arg[c] \in CreateArg
      BY <3>1 DEF TypeInv, CallsInv, Inputs
    <3> QED
      BY <3>1, <3>2, CallKinds DEF TypeInv, CallsInv, Progress, Holding
  <2>2. /\ [loaded[c] EXCEPT !.callback = arg[c].callback] \in Request
        /\ [loaded[c] EXCEPT !.callback = arg[c].callback].schema = loaded[c].schema
        /\ [loaded[c] EXCEPT !.callback = arg[c].callback].callback = arg[c].callback
    BY <2>1 DEF CreateArg, Request
  <2>3. PICK q : /\ q # None /\ loaded[c] # None
                /\ q.schema = loaded[c].schema /\ q.callback = arg[c].callback
                /\ store' = [store EXCEPT ![c] = q]
    BY <1>8, <2>1, <2>2, NoneAssumption DEF AttachSave
  <2>4. /\ c \notin Disclosed /\ verdicts[c] = "none"
        /\ \A d \in Verifies : pc[d] # "idle" => sub[d].id # c
    BY <1>8, Untouched DEF AttachSave
  <2>5. /\ Alone(c)
        /\ pc[c] = "attachSave"
        /\ pc'[c] = "respond"
        /\ reply'[c] = reply[c]
        /\ loaded'[c] = loaded[c]
    BY <1>8, Shape, CallKinds DEF AttachSave, Goto, Alone
  <2>6. /\ \A d \in Ids : d # c => pc'[d] = pc[d] /\ reply'[d] = reply[d] /\ loaded'[d] = loaded[d]
        /\ \A d \in Verifies : pc'[d] = pc[d] /\ reply'[d] = reply[d] /\ loaded'[d] = loaded[d]
    BY <2>5, CallKinds DEF Alone
  <2>7. /\ store'[c] = q
        /\ \A d \in Ids : d # c => store'[d] = store[d]
    BY <1>8, <2>3, Shape DEF AttachSave
  <2>8. UNCHANGED <<arg, sub, keys, verdicts, waiters, chan>>
    BY <1>8 DEF AttachSave, inputVars, verdictVars, waitVars
  <2>9. Private'
    BY <2>5, <2>6, <2>7, <2>8, <2>3 DEF Private, Fresh, Issued
  <2>10. Known'
    BY <2>5, <2>6, <2>8 DEF Known, Disclosed
  <2>11. KeysHeld'
    <3>1. \A d \in Ids : pc'[d] = "save" => keys'[arg'[d].schema] # None
      BY <2>6, <2>5, <2>8 DEF KeysHeld
    <3>2. \A d \in Ids : store'[d] # None => keys'[store'[d].schema] # None
      BY <2>3, <2>5, <2>7, <2>8 DEF KeysHeld
    <3>3. \A d \in Ids \cup Verifies : loaded'[d] # None => keys'[loaded'[d].schema] # None
      <4>1. \A d \in Ids \cup Verifies : loaded'[d] = loaded[d]
        BY <2>6, <2>5
      <4> QED
        BY <4>1, <2>8 DEF KeysHeld
    <3> QED
      BY <3>1, <3>2, <3>3 DEF KeysHeld
  <2>12. Attached'
    <3>1. \A b \in Blockings : pc'[b] # "idle" => arg'[b].callback = ""
      BY <2>6, <2>5, <2>8, CallKinds DEF Attached
    <3>2. \A d \in Ids : store'[d] # None /\ pc'[d] \notin {"attach", "attachSave"} =>
            store'[d].callback = arg'[d].callback
      BY <2>3, <2>6, <2>5, <2>7, <2>8 DEF Attached
    <3>3. \A d \in Verifies : loaded'[d] # None => loaded'[d].callback = arg'[sub'[d].id].callback
      BY <2>6, <2>8 DEF Attached
    <3> QED
      BY <3>1, <3>2, <3>3 DEF Attached
  <2>13. Accepted'
    <3>1. ASSUME NEW d \in Verifies,
                 pc'[d] \in {"accept", "hookOk", "notifyOk"} \/ reply'[d] = "ok"
          PROVE  store'[sub'[d].id] = None
      <4>1. /\ sub'[d] = sub[d] /\ store[sub[d].id] = None
            /\ pc[d] # "idle"
        BY <3>1, <2>6, <2>8, Shape, CallKinds DEF Accepted
      <4>2. sub[d].id \in Ids /\ sub[d].id # c
        BY <4>1, <2>4, Shape
      <4> QED
        BY <4>1, <4>2, <2>7
    <3>2. \A d \in Ids : verdicts'[d] = "verified" => store'[d] = None
      BY <2>4, <2>7, <2>8 DEF Accepted
    <3> QED
      BY <3>1, <3>2 DEF Accepted
  <2>14. Waiting'
    BY <2>5, <2>6, <2>8, CallKinds DEF Waiting
  <2> QED
    BY <2>9, <2>10, <2>11, <2>12, <2>13, <2>14
<1>9. ASSUME NEW c \in Ids, RespondCreated(c) PROVE Inv'
  <2>1. /\ Alone(c)
        /\ pc[c] = "respond"
        /\ pc'[c] = "done"
        /\ reply'[c] = "created"
        /\ loaded'[c] = None
    BY <1>9, Shape, CallKinds DEF RespondCreated, Answer, Goto, Alone
  <2>2. /\ \A d \in Ids : d # c => pc'[d] = pc[d] /\ reply'[d] = reply[d] /\ loaded'[d] = loaded[d]
        /\ \A d \in Verifies : pc'[d] = pc[d] /\ reply'[d] = reply[d] /\ loaded'[d] = loaded[d]
    BY <2>1, CallKinds DEF Alone
  <2>3. UNCHANGED <<arg, sub, store, keys, verdicts, waiters, chan>>
    BY <1>9 DEF RespondCreated, inputVars, verdictVars, waitVars
  <2>4. Private'
    BY <2>1, <2>2, <2>3 DEF Private, Fresh, Issued
  <2>5. Known'
    BY <2>1, <2>2, <2>3 DEF Known, Disclosed
  <2>6. KeysHeld'
    BY <2>1, <2>2, <2>3 DEF KeysHeld
  <2>7. Attached'
    BY <2>1, <2>2, <2>3, CallKinds DEF Attached
  <2>8. Accepted'
    BY <2>1, <2>2, <2>3 DEF Accepted
  <2>9. Waiting'
    BY <2>1, <2>2, <2>3, CallKinds DEF Waiting
  <2> QED
    BY <2>4, <2>5, <2>6, <2>7, <2>8, <2>9
<1>10. ASSUME NEW c \in Blockings, WaitRegister(c) PROVE Inv'
  <2>1. /\ Alone(c)
        /\ pc[c] = "register"
        /\ pc'[c] = "select"
        /\ reply'[c] = reply[c]
        /\ loaded'[c] = loaded[c]
    BY <1>10, Shape, CallKinds DEF WaitRegister, Goto, Alone
  <2>2. /\ \A d \in Ids : d # c => pc'[d] = pc[d] /\ reply'[d] = reply[d] /\ loaded'[d] = loaded[d]
        /\ \A d \in Verifies : pc'[d] = pc[d] /\ reply'[d] = reply[d] /\ loaded'[d] = loaded[d]
    BY <2>1, CallKinds DEF Alone
  <2>3. waiters' = waiters \cup {c}
    BY <1>10, Shape DEF WaitRegister
  <2>4. UNCHANGED <<arg, sub, store, keys, verdicts, chan>>
    BY <1>10 DEF WaitRegister, inputVars, verdictVars
  <2>5. Private'
    BY <2>1, <2>2, <2>4, CallKinds DEF Private, Fresh, Issued
  <2>6. Known'
    BY <2>1, <2>2, <2>4, CallKinds DEF Known, Disclosed
  <2>7. KeysHeld'
    BY <2>1, <2>2, <2>4, CallKinds DEF KeysHeld
  <2>8. Attached'
    BY <2>1, <2>2, <2>4, CallKinds DEF Attached
  <2>9. Accepted'
    BY <2>1, <2>2, <2>4, CallKinds DEF Accepted
  <2>10. Waiting'
    BY <2>1, <2>2, <2>3, <2>4, CallKinds DEF Waiting
  <2> QED
    BY <2>5, <2>6, <2>7, <2>8, <2>9, <2>10
<1>11. ASSUME NEW c \in Blockings, WaitSelect(c) PROVE Inv'
  <2>1. SelectOutcomes(c) = {"timeout"}
    BY DEF SelectOutcomes, Waiting
  <2>2. waiters' = waiters \ {c} /\ chan' = chan /\ Answer(c, "timeout")
    BY <1>11, <2>1 DEF WaitSelect
  <2>3. /\ Alone(c)
        /\ pc[c] = "select"
        /\ pc'[c] = "done"
        /\ reply'[c] = "timeout"
        /\ loaded'[c] = None
    BY <1>11, <2>2, Shape, CallKinds DEF WaitSelect, Answer, Goto, Alone
  <2>4. /\ \A d \in Ids : d # c => pc'[d] = pc[d] /\ reply'[d] = reply[d] /\ loaded'[d] = loaded[d]
        /\ \A d \in Verifies : pc'[d] = pc[d] /\ reply'[d] = reply[d] /\ loaded'[d] = loaded[d]
    BY <2>3, CallKinds DEF Alone
  <2>5. /\ waiters' = waiters \ {c}
        /\ chan' = chan
    BY <1>11, <2>2, Shape DEF WaitSelect
  <2>6. UNCHANGED <<arg, sub, store, keys, verdicts>>
    BY <1>11 DEF WaitSelect, inputVars, verdictVars
  <2>7. Private'
    BY <2>3, <2>4, <2>6, CallKinds DEF Private, Fresh, Issued
  <2>8. Known'
    BY <2>3, <2>4, <2>6, CallKinds DEF Known, Disclosed
  <2>9. KeysHeld'
    BY <2>3, <2>4, <2>6, CallKinds DEF KeysHeld
  <2>10. Attached'
    BY <2>3, <2>4, <2>6, CallKinds DEF Attached
  <2>11. Accepted'
    BY <2>3, <2>4, <2>6, CallKinds DEF Accepted
  <2>12. Waiting'
    BY <2>3, <2>4, <2>5, <2>6, CallKinds DEF Waiting
  <2> QED
    BY <2>7, <2>8, <2>9, <2>10, <2>11, <2>12
<1>12. ASSUME NEW c \in Verifies, StartVerify(c) PROVE Inv'
  <2>0. PICK id \in Disclosed, e \in BOOLEAN :
          \E k : sub' = [sub EXCEPT ![c] = [id |-> id, echoes |-> e, key |-> k]]
    BY <1>12 DEF StartVerify
  <2>1. PICK k : sub' = [sub EXCEPT ![c] = [id |-> id, echoes |-> e, key |-> k]]
    BY <2>0
  <2>2. /\ Alone(c)
        /\ pc[c] = "idle"
        /\ pc'[c] = "load"
        /\ reply'[c] = reply[c]
        /\ reply[c] # "ok"
        /\ loaded'[c] = loaded[c]
        /\ loaded[c] = None
    BY <1>12, Shape, CallKinds DEF StartVerify, Goto, Alone
  <2>3. /\ \A d \in Ids : pc'[d] = pc[d] /\ reply'[d] = reply[d] /\ loaded'[d] = loaded[d]
        /\ \A d \in Verifies : d # c => pc'[d] = pc[d] /\ reply'[d] = reply[d] /\ loaded'[d] = loaded[d]
    BY <2>2, CallKinds DEF Alone
  <2>4. /\ sub'[c].id = id
        /\ \A d \in Verifies : d # c => sub'[d] = sub[d]
    BY <1>12, <2>1, Shape DEF StartVerify
  <2>5. UNCHANGED <<arg, store, keys, verdicts, waiters, chan>>
    BY <1>12 DEF StartVerify, verdictVars, waitVars
  <2>6. Private'
    BY <2>2, <2>3, <2>5 DEF Private, Fresh, Issued
  <2>7. Known'
    BY <2>2, <2>3, <2>4, <2>5, <2>1 DEF Known, Disclosed
  <2>8. KeysHeld'
    BY <2>2, <2>3, <2>4, <2>5 DEF KeysHeld
  <2>9. Attached'
    BY <2>2, <2>3, <2>4, <2>5, CallKinds DEF Attached
  <2>10. Accepted'
    BY <2>2, <2>3, <2>4, <2>5 DEF Accepted
  <2>11. Waiting'
    BY <2>2, <2>3, <2>5, CallKinds DEF Waiting
  <2> QED
    BY <2>6, <2>7, <2>8, <2>9, <2>10, <2>11
<1>13. ASSUME NEW c \in Verifies, VerifyLoad(c) PROVE Inv'
  <2>1. sub[c].id \in Ids /\ sub[c].id \in Disclosed /\ pc[sub[c].id] = "done"
    BY <1>13, Submitted DEF VerifyLoad
  <2>2. /\ Alone(c)
        /\ pc[c] = "load"
        /\ pc'[c] \in {"expiry", "done"}
        /\ reply'[c] # "ok"
        /\ loaded'[c] = store[sub[c].id]
    <3>1. CASE store[sub[c].id] = None
      <4>1. /\ pc[c] = "load" /\ pc' = [pc EXCEPT ![c] = "done"]
            /\ reply' = [reply EXCEPT ![c] = "notfound"] /\ loaded' = [loaded EXCEPT ![c] = None]
        BY <1>13, <3>1 DEF VerifyLoad, Answer, Goto
      <4> QED
        BY <4>1, <3>1, Shape, CallKinds DEF Alone
    <3>2. CASE store[sub[c].id] # None
      <4>1. /\ pc[c] = "load" /\ pc' = [pc EXCEPT ![c] = "expiry"]
            /\ reply' = reply /\ loaded' = [loaded EXCEPT ![c] = store[sub[c].id]]
        BY <1>13, <3>2 DEF VerifyLoad, Goto
      <4> QED
        BY <4>1, Shape, CallKinds DEF Alone
    <3> QED
      BY <3>1, <3>2
  <2>3. /\ \A d \in Ids : pc'[d] = pc[d] /\ reply'[d] = reply[d] /\ loaded'[d] = loaded[d]
        /\ \A d \in Verifies : d # c => pc'[d] = pc[d] /\ reply'[d] = reply[d] /\ loaded'[d] = loaded[d]
    BY <2>2, CallKinds DEF Alone
  <2>4. UNCHANGED <<arg, sub, store, keys, verdicts, waiters, chan>>
    BY <1>13 DEF VerifyLoad, inputVars, verdictVars, waitVars
  <2>5. Private'
    BY <2>2, <2>3, <2>4 DEF Private, Fresh, Issued
  <2>6. Known'
    BY <2>2, <2>3, <2>4 DEF Known, Disclosed
  <2>7. KeysHeld'
    BY <2>2, <2>3, <2>4, <2>1 DEF KeysHeld
  <2>8. Attached'
    <3>1. \A b \in Blockings : pc'[b] # "idle" => arg'[b].callback = ""
      BY <2>3, <2>4, CallKinds DEF Attached
    <3>2. \A d \in Ids : store'[d] # None /\ pc'[d] \notin {"attach", "attachSave"} =>
            store'[d].callback = arg'[d].callback
      BY <2>3, <2>4 DEF Attached
    <3>3. \A d \in Verifies : loaded'[d] # None => loaded'[d].callback = arg'[sub'[d].id].callback
      <4>1. loaded'[c] # None => loaded'[c].callback = arg'[sub'[c].id].callback
        BY <2>1, <2>2, <2>4 DEF Attached
      <4>2. \A d \in Verifies \ {c} : loaded'[d] # None => loaded'[d].callback = arg'[sub'[d].id].callback
        BY <2>3, <2>4 DEF Attached
      <4> QED
        BY <4>1, <4>2
    <3> QED
      BY <3>1, <3>2, <3>3 DEF Attached
  <2>9. Accepted'
    BY <2>2, <2>3, <2>4 DEF Accepted
  <2>10. Waiting'
    BY <2>2, <2>3, <2>4, CallKinds DEF Waiting
  <2> QED
    BY <2>5, <2>6, <2>7, <2>8, <2>9, <2>10
<1>14. ASSUME NEW c \in Verifies, VerifyExpiry(c) PROVE Inv'
  <2>1. Alone(c) /\ loaded' = loaded /\ reply' = reply
    BY <1>14, Shape, CallKinds DEF VerifyExpiry, Goto, Alone
  <2>2. pc'[c] \in {"drop", "proof", "fail"}
    BY <1>14, Shape, CallKinds DEF VerifyExpiry, Goto
  <2>3. UNCHANGED <<arg, sub, store, keys, verdicts, waiters, chan>>
    BY <1>14 DEF VerifyExpiry, inputVars, verdictVars, waitVars
  <2> QED
    BY <2>1, <2>2, <2>3, MovesKeep
<1>15. ASSUME NEW c \in Verifies, DropExpired(c) PROVE Inv'
  <2>1. sub[c].id \in Ids /\ sub[c].id \in Disclosed /\ pc[sub[c].id] = "done"
    BY <1>15, Submitted DEF DropExpired
  <2>2. /\ Alone(c)
        /\ pc[c] = "drop"
        /\ pc'[c] = "fail"
        /\ reply'[c] = reply[c]
        /\ loaded'[c] = loaded[c]
    BY <1>15, Shape, CallKinds DEF DropExpired, Goto, Alone
  <2>3. /\ \A d \in Ids : pc'[d] = pc[d] /\ reply'[d] = reply[d] /\ loaded'[d] = loaded[d]
        /\ \A d \in Verifies : d # c => pc'[d] = pc[d] /\ reply'[d] = reply[d] /\ loaded'[d] = loaded[d]
    BY <2>2, CallKinds DEF Alone
  <2>4. \A d \in Ids : store'[d] = IF d = sub[c].id THEN None ELSE store[d]
    BY <1>15, <2>1, Shape DEF DropExpired
  <2>5. UNCHANGED <<arg, sub, keys, verdicts, waiters, chan>>
    BY <1>15 DEF DropExpired, inputVars, verdictVars, waitVars
  <2>6. Private'
    BY <2>2, <2>3, <2>4, <2>5, <2>1 DEF Private, Fresh, Issued
  <2>7. Known'
    BY <2>2, <2>3, <2>5 DEF Known, Disclosed
  <2>8. KeysHeld'
    BY <2>2, <2>3, <2>4, <2>5, <2>1 DEF KeysHeld
  <2>9. Attached'
    <3>1. \A b \in Blockings : pc'[b] # "idle" => arg'[b].callback = ""
      BY <2>3, <2>5, CallKinds DEF Attached
    <3>2. \A d \in Ids : store'[d] # None /\ pc'[d] \notin {"attach", "attachSave"} =>
            store'[d].callback = arg'[d].callback
      BY <2>3, <2>4, <2>5 DEF Attached
    <3>3. \A d \in Verifies : loaded'[d] = loaded[d]
      BY <2>3, <2>2
    <3>4. \A d \in Verifies : loaded'[d] # None => loaded'[d].callback = arg'[sub'[d].id].callback
      BY <3>3, <2>5 DEF Attached
    <3> QED
      BY <3>1, <3>2, <3>4 DEF Attached
  <2>10. Accepted'
    <3>1. ASSUME NEW d \in Verifies,
                 pc'[d] \in {"accept", "hookOk", "notifyOk"} \/ reply'[d] = "ok"
          PROVE  store'[sub'[d].id] = None
      <4>1. sub'[d] = sub[d] /\ pc[d] # "idle"
        BY <3>1, <2>3, <2>2, <2>5, Shape, CallKinds
      <4>2. sub[d].id \in Ids
        BY <4>1, Shape
      <4>3. d # c => store[sub[d].id] = None
        BY <3>1, <2>3 DEF Accepted
      <4> QED
        BY <4>1, <4>2, <4>3, <2>4
    <3>2. \A d \in Ids : verdicts'[d] = "verified" => store'[d] = None
      BY <2>4, <2>5 DEF Accepted
    <3> QED
      BY <3>1, <3>2 DEF Accepted
  <2>11. Waiting'
    BY <2>2, <2>3, <2>5, CallKinds DEF Waiting
  <2> QED
    BY <2>6, <2>7, <2>8, <2>9, <2>10, <2>11
<1>16. ASSUME NEW c \in Verifies, VerifyProof(c) PROVE Inv'
  <2>1. Alone(c) /\ loaded' = loaded /\ reply' = reply
    BY <1>16, Shape, CallKinds DEF VerifyProof, Goto, Alone
  <2>2. pc'[c] \in {"consume", "fail"}
    BY <1>16, Shape, CallKinds DEF VerifyProof, Goto
  <2>3. UNCHANGED <<arg, sub, store, keys, verdicts, waiters, chan>>
    BY <1>16 DEF VerifyProof, inputVars, verdictVars, waitVars
  <2> QED
    BY <2>1, <2>2, <2>3, MovesKeep
<1>17. ASSUME NEW c \in Verifies, Consume(c) PROVE Inv'
  <2>1. sub[c].id \in Ids /\ sub[c].id \in Disclosed /\ pc[sub[c].id] = "done"
    BY <1>17, Submitted DEF Consume
  <2>2. /\ Alone(c)
        /\ pc[c] = "consume"
        /\ pc'[c] = "accept"
        /\ reply'[c] = reply[c]
        /\ loaded'[c] = loaded[c]
    BY <1>17, Shape, CallKinds DEF Consume, Goto, Alone
  <2>3. /\ \A d \in Ids : pc'[d] = pc[d] /\ reply'[d] = reply[d] /\ loaded'[d] = loaded[d]
        /\ \A d \in Verifies : d # c => pc'[d] = pc[d] /\ reply'[d] = reply[d] /\ loaded'[d] = loaded[d]
    BY <2>2, CallKinds DEF Alone
  <2>4. \A d \in Ids : store'[d] = IF d = sub[c].id THEN None ELSE store[d]
    BY <1>17, <2>1, Shape DEF Consume
  <2>5. UNCHANGED <<arg, sub, keys, verdicts, waiters, chan>>
    BY <1>17 DEF Consume, inputVars, verdictVars, waitVars
  <2>6. Private'
    BY <2>2, <2>3, <2>4, <2>5, <2>1 DEF Private, Fresh, Issued
  <2>7. Known'
    BY <2>2, <2>3, <2>5 DEF Known, Disclosed
  <2>8. KeysHeld'
    BY <2>2, <2>3, <2>4, <2>5, <2>1 DEF KeysHeld
  <2>9. Attached'
    <3>1. \A b \in Blockings : pc'[b] # "idle" => arg'[b].callback = ""
      BY <2>3, <2>5, CallKinds DEF Attached
    <3>2. \A d \in Ids : store'[d] # None /\ pc'[d] \notin {"attach", "attachSave"} =>
            store'[d].callback = arg'[d].callback
      BY <2>3, <2>4, <2>5 DEF Attached
    <3>3. \A d \in Verifies : loaded'[d] = loaded[d]
      BY <2>3, <2>2
    <3>4. \A d \in Verifies : loaded'[d] # None => loaded'[d].callback = arg'[sub'[d].id].callback
      BY <3>3, <2>5 DEF Attached
    <3> QED
      BY <3>1, <3>2, <3>4 DEF Attached
  <2>10. Accepted'
    <3>1. ASSUME NEW d \in Verifies,
                 pc'[d] \in {"accept", "hookOk", "notifyOk"} \/ reply'[d] = "ok"
          PROVE  store'[sub'[d].id] = None
      <4>1. sub'[d] = sub[d] /\ pc[d] # "idle"
        BY <3>1, <2>3, <2>2, <2>5, Shape, CallKinds
      <4>2. sub[d].id \in Ids
        BY <4>1, Shape
      <4>3. d # c => store[sub[d].id] = None
        BY <3>1, <2>3 DEF Accepted
      <4> QED
        BY <4>1, <4>2, <4>3, <2>4
    <3>2. \A d \in Ids : verdicts'[d] = "verified" => store'[d] = None
      BY <2>4, <2>5 DEF Accepted
    <3> QED
      BY <3>1, <3>2 DEF Accepted
  <2>11. Waiting'
    BY <2>2, <2>3, <2>5, CallKinds DEF Waiting
  <2> QED
    BY <2>6, <2>7, <2>8, <2>9, <2>10, <2>11
<1>18. ASSUME NEW c \in Verifies, RecordVerified(c) PROVE Inv'
  <2>1. sub[c].id \in Ids /\ sub[c].id \in Disclosed /\ pc[sub[c].id] = "done"
    BY <1>18, Submitted DEF RecordVerified
  <2>2. /\ Alone(c)
        /\ pc[c] = "accept"
        /\ pc'[c] = "hookOk"
        /\ reply'[c] = reply[c]
        /\ loaded'[c] = loaded[c]
    BY <1>18, Shape, CallKinds DEF RecordVerified, Goto, SetVerdict, Alone
  <2>3. /\ \A d \in Ids : pc'[d] = pc[d] /\ reply'[d] = reply[d] /\ loaded'[d] = loaded[d]
        /\ \A d \in Verifies : d # c => pc'[d] = pc[d] /\ reply'[d] = reply[d] /\ loaded'[d] = loaded[d]
    BY <2>2, CallKinds DEF Alone
  <2>4. /\ verdicts'[sub[c].id] = "verified"
        /\ \A d \in Ids : d # sub[c].id => verdicts'[d] = verdicts[d]
    BY <1>18, <2>1, Shape DEF RecordVerified, SetVerdict
  <2>5. UNCHANGED <<arg, sub, store, keys, waiters, chan>>
    BY <1>18 DEF RecordVerified, inputVars, waitVars
  <2>6. Private'
    BY <2>2, <2>3, <2>5 DEF Private, Fresh, Issued
  <2>7. Known'
    BY <2>2, <2>3, <2>4, <2>5, <2>1 DEF Known, Disclosed
  <2>8. KeysHeld'
    BY <2>2, <2>3, <2>5 DEF KeysHeld
  <2>9. Attached'
    <3>1. \A b \in Blockings : pc'[b] # "idle" => arg'[b].callback = ""
      BY <2>3, <2>5, CallKinds DEF Attached
    <3>2. \A d \in Ids : store'[d] # None /\ pc'[d] \notin {"attach", "attachSave"} =>
            store'[d].callback = arg'[d].callback
      BY <2>3, <2>4, <2>5 DEF Attached
    <3>3. \A d \in Verifies : loaded'[d] = loaded[d]
      BY <2>3, <2>2
    <3>4. \A d \in Verifies : loaded'[d] # None => loaded'[d].callback = arg'[sub'[d].id].callback
      BY <3>3, <2>5 DEF Attached
    <3> QED
      BY <3>1, <3>2, <3>4 DEF Attached
  <2>10. Accepted'
    BY <2>2, <2>3, <2>4, <2>5, <2>1 DEF Accepted
  <2>11. Waiting'
    BY <2>2, <2>3, <2>5, CallKinds DEF Waiting
  <2> QED
    BY <2>6, <2>7, <2>8, <2>9, <2>10, <2>11
<1>19. ASSUME NEW c \in Verifies, RecordFailed(c) PROVE Inv'
  <2>1. sub[c].id \in Ids /\ sub[c].id \in Disclosed /\ pc[sub[c].id] = "done"
    BY <1>19, Submitted DEF RecordFailed
  <2>2. /\ Alone(c)
        /\ pc[c] = "fail"
        /\ pc'[c] = "hookFail"
        /\ reply'[c] = reply[c]
        /\ loaded'[c] = loaded[c]
    BY <1>19, Shape, CallKinds DEF RecordFailed, Goto, SetVerdict, Alone
  <2>3. /\ \A d \in Ids : pc'[d] = pc[d] /\ reply'[d] = reply[d] /\ loaded'[d] = loaded[d]
        /\ \A d \in Verifies : d # c => pc'[d] = pc[d] /\ reply'[d] = reply[d] /\ loaded'[d] = loaded[d]
    BY <2>2, CallKinds DEF Alone
  <2>4. /\ verdicts'[sub[c].id] = "failed"
        /\ \A d \in Ids : d # sub[c].id => verdicts'[d] = verdicts[d]
    BY <1>19, <2>1, Shape DEF RecordFailed, SetVerdict
  <2>5. UNCHANGED <<arg, sub, store, keys, waiters, chan>>
    BY <1>19 DEF RecordFailed, inputVars, waitVars
  <2>6. Private'
    BY <2>2, <2>3, <2>5 DEF Private, Fresh, Issued
  <2>7. Known'
    BY <2>2, <2>3, <2>4, <2>5, <2>1 DEF Known, Disclosed
  <2>8. KeysHeld'
    BY <2>2, <2>3, <2>5 DEF KeysHeld
  <2>9. Attached'
    <3>1. \A b \in Blockings : pc'[b] # "idle" => arg'[b].callback = ""
      BY <2>3, <2>5, CallKinds DEF Attached
    <3>2. \A d \in Ids : store'[d] # None /\ pc'[d] \notin {"attach", "attachSave"} =>
            store'[d].callback = arg'[d].callback
      BY <2>3, <2>4, <2>5 DEF Attached
    <3>3. \A d \in Verifies : loaded'[d] = loaded[d]
      BY <2>3, <2>2
    <3>4. \A d \in Verifies : loaded'[d] # None => loaded'[d].callback = arg'[sub'[d].id].callback
      BY <3>3, <2>5 DEF Attached
    <3> QED
      BY <3>1, <3>2, <3>4 DEF Attached
  <2>10. Accepted'
    BY <2>2, <2>3, <2>4, <2>5, <2>1 DEF Accepted
  <2>11. Waiting'
    BY <2>2, <2>3, <2>5, CallKinds DEF Waiting
  <2> QED
    BY <2>6, <2>7, <2>8, <2>9, <2>10, <2>11
<1>20. ASSUME NEW c \in Verifies, WebhookReturns(c) PROVE Inv'
  <2>1. Alone(c) /\ loaded' = loaded /\ reply' = reply
    BY <1>20, Shape, CallKinds DEF WebhookReturns, Goto, Alone
  <2>2. pc'[c] = "notifyFail" \/ (pc'[c] = "notifyOk" /\ pc[c] = "hookOk")
    BY <1>20, Shape, CallKinds DEF WebhookReturns, Goto
  <2>3. UNCHANGED <<arg, sub, store, keys, verdicts, waiters, chan>>
    BY <1>20 DEF WebhookReturns, inputVars, verdictVars, waitVars
  <2> QED
    BY <2>1, <2>2, <2>3, <1>20, MovesKeep
<1>21. ASSUME NEW c \in Verifies, WebhookPanics(c) PROVE Inv'
  <2>1. Alone(c)
    BY <1>21, Shape, CallKinds DEF WebhookPanics, Answer, Goto, Alone
  <2>2. pc'[c] = "done" /\ loaded'[c] = None /\ reply'[c] = "panic"
    BY <1>21, Shape, CallKinds DEF WebhookPanics, Answer, Goto
  <2>3. UNCHANGED <<arg, sub, store, keys, verdicts, waiters, chan>>
    BY <1>21 DEF WebhookPanics, inputVars, verdictVars, waitVars
  <2> QED
    BY <2>1, <2>2, <2>3, MovesKeep
<1>22. ASSUME NEW c \in Verifies, NotifyWaiters(c) PROVE Inv'
  <2>1. sub[c].id \in Ids /\ sub[c].id \in Disclosed /\ pc[sub[c].id] = "done"
    BY <1>22, Submitted DEF NotifyWaiters
  <2>2. /\ Alone(c)
        /\ pc[c] \in {"notifyOk", "notifyFail"}
        /\ pc'[c] = "done"
        /\ reply'[c] = (IF pc[c] = "notifyOk" THEN "ok" ELSE "failed")
        /\ loaded'[c] = None
    BY <1>22, Shape, CallKinds DEF NotifyWaiters, Answer, Goto, Alone
  <2>3. /\ \A d \in Ids : pc'[d] = pc[d] /\ reply'[d] = reply[d] /\ loaded'[d] = loaded[d]
        /\ \A d \in Verifies : d # c => pc'[d] = pc[d] /\ reply'[d] = reply[d] /\ loaded'[d] = loaded[d]
    BY <2>2, CallKinds DEF Alone
  <2>4. /\ waiters' \subseteq waiters
        /\ \A b \in Blockings : chan'[b] = "empty"
    BY <1>22, <2>1, Shape DEF NotifyWaiters, Waiting
  <2>5. UNCHANGED <<arg, sub, store, keys, verdicts>>
    BY <1>22 DEF NotifyWaiters, inputVars, verdictVars
  <2>6. Private'
    BY <2>2, <2>3, <2>5 DEF Private, Fresh, Issued
  <2>7. Known'
    BY <2>2, <2>3, <2>5 DEF Known, Disclosed
  <2>8. KeysHeld'
    BY <2>2, <2>3, <2>5 DEF KeysHeld
  <2>9. Attached'
    BY <2>2, <2>3, <2>5, CallKinds DEF Attached
  <2>10. Accepted'
    BY <2>2, <2>3, <2>5 DEF Accepted
  <2>11. Waiting'
    BY <2>2, <2>3, <2>4, <2>5, CallKinds DEF Waiting
  <2> QED
    BY <2>6, <2>7, <2>8, <2>9, <2>10, <2>11
<1>23. ASSUME NEW c \in Reads, StartRead(c) PROVE Inv'
  <2>1. PICK l : Goto(c, l)
    BY <1>23 DEF StartRead
  <2>2. Alone(c)
    BY <1>23, <2>1, Shape DEF StartRead, Goto, Alone
  <2>3. UNCHANGED <<arg, sub, store, keys, verdicts, waiters, chan>>
    BY <1>23 DEF StartRead, verdictVars, waitVars
  <2> QED
    BY <2>2, <2>3, ReadsKeep
<1>24. ASSUME NEW c \in Reads, ResultVerdict(c) PROVE Inv'
  <2>1. Alone(c)
    <3>1. CASE verdicts[rd[c].id] # "none"
      BY <1>24, <3>1, Shape DEF ResultVerdict, Goto, Answer, Alone
    <3>2. CASE verdicts[rd[c].id] = "none"
      BY <1>24, <3>2, Shape DEF ResultVerdict, Goto, Alone
    <3> QED
      BY <3>1, <3>2
  <2>2. UNCHANGED <<arg, sub, store, keys, verdicts, waiters, chan>>
    BY <1>24 DEF ResultVerdict, inputVars, verdictVars, waitVars
  <2> QED
    BY <2>1, <2>2, ReadsKeep
<1>25. ASSUME NEW c \in Reads, ReadLoad(c) PROVE Inv'
  <2>1. Alone(c)
    <3>1. CASE store[rd[c].id] = None
      BY <1>25, <3>1, Shape DEF ReadLoad, Goto, Answer, Alone
    <3>2. CASE store[rd[c].id] # None
      BY <1>25, <3>2, Shape DEF ReadLoad, Goto, Alone
    <3> QED
      BY <3>1, <3>2
  <2>2. UNCHANGED <<arg, sub, store, keys, verdicts, waiters, chan>>
    BY <1>25 DEF ReadLoad, inputVars, verdictVars, waitVars
  <2> QED
    BY <2>1, <2>2, ReadsKeep
<1>26. ASSUME NEW c \in Reads, ReadTime(c) PROVE Inv'
  <2>1. Alone(c)
    BY <1>26, Shape DEF ReadTime, Answer, Goto, Alone
  <2>2. UNCHANGED <<arg, sub, store, keys, verdicts, waiters, chan>>
    BY <1>26 DEF ReadTime, inputVars, verdictVars, waitVars
  <2> QED
    BY <2>1, <2>2, ReadsKeep
<1>27. ASSUME NEW t \in timers, ForgetVerdict(t) PROVE Inv'
  <2>1. \A id \in Ids : verdicts'[id] \in {verdicts[id], "none"}
    BY <1>27, Shape DEF ForgetVerdict
  <2>2. UNCHANGED <<pc, reply, loaded, arg, sub, store, keys, waiters, chan>>
    BY <1>27 DEF ForgetVerdict, callVars, waitVars
  <2>3. Private'
    BY <2>1, <2>2 DEF Private, Fresh, Issued
  <2>4. Known'
    BY <2>1, <2>2 DEF Known, Disclosed
  <2>5. KeysHeld'
    BY <2>1, <2>2 DEF KeysHeld
  <2>6. Attached'
    BY <2>1, <2>2 DEF Attached
  <2>7. Accepted'
    BY <2>1, <2>2 DEF Accepted
  <2>8. Waiting'
    BY <2>1, <2>2 DEF Waiting
  <2> QED
    BY <2>3, <2>4, <2>5, <2>6, <2>7, <2>8
<1>28. ASSUME UNCHANGED vars PROVE Inv'
  BY <1>28 DEF Private, Known, KeysHeld, Attached, Accepted, Waiting, Disclosed, vars,
     callVars, verdictVars, waitVars
<1> QED
  BY <1>1, <1>2, <1>3, <1>4, <1>5, <1>6, <1>7, <1>8, <1>9, <1>10, <1>11, <1>12, <1>13,
     <1>14, <1>15, <1>16, <1>17, <1>18, <1>19, <1>20, <1>21, <1>22, <1>23, <1>24,
     <1>25, <1>26, <1>27, <1>28 DEF Next, CreateStep, WaitStep, VerifyStep, ReadStep

\* The invariant of the service.
LEMMA Invariant == Spec => [](TypeInv /\ Inv)
BY TypeInit, TypeNext, InvInit, InvNext, PTL DEF Spec

-----------------------------------------------------------------------------
\* ConsumedIsGone holds in every behaviour: once a proof of a request has been
\* accepted, no interleaving of submissions and of the Load/Save pair that
\* attaches the callback leaves the request in the store.
THEOREM ConsumedStaysGone == Spec => []ConsumedIsGone
<1>1. TypeInv /\ Inv => ConsumedIsGone
  <2> SUFFICES ASSUME TypeInv, Inv, NEW id \in Ids,
                      \/ verdicts[id] = "verified"
                      \/ \E c \in Verifies : About(c, id) /\ reply[c] = "ok"
               PROVE  store[id] = None
    BY DEF ConsumedIsGone
  <2>1. \A c \in Verifies : About(c, id) => sub[c].id = id
    BY CallKinds DEF About
  <2> QED
    BY <2>1 DEF Inv, Accepted
<1> QED
  BY <1>1, Invariant, PTL

\* VKHeld holds in every behaviour: the schema of a request that a submission
\* has loaded has its keys, however many setups race in ensureVKForSchema.
THEOREM KeysAreThere == Spec => []VKHeld
<1>1. TypeInv /\ Inv => VKHeld
  <2> SUFFICES ASSUME TypeInv, Inv, NEW c \in Verifies, pc[c] \in {"expiry", "proof"}
               PROVE  keys[loaded[c].schema] # None
    BY DEF VKHeld
  <2>1. loaded[c] \in Request
    BY CallKinds DEF TypeInv, CallsInv, Progress, Holding
  <2>2. loaded[c] # None
    BY <2>1, NoneAssumption
  <2> QED
    BY <2>2 DEF Inv, KeysHeld
<1> QED
  BY <1>1, Invariant, PTL

\* CallbackSeen holds in every behaviour: attaching the callback after the first
\* Save loses no webhook, since nobody knows the id before the handler replies.
THEOREM NoWebhookLost == Spec => []CallbackSeen
<1>1. TypeInv /\ Inv => CallbackSeen
  BY DEF Inv, Attached, CallbackSeen
<1> QED
  BY <1>1, Invariant, PTL

\* BlockingOnlyTimesOut holds in every behaviour: no submission can reach the
\* channel of a verify-blocking call.
THEOREM BlockingNeverSucceeds == Spec => []BlockingOnlyTimesOut
<1>1. TypeInv /\ Inv => BlockingOnlyTimesOut
  BY DEF Inv, Waiting, BlockingOnlyTimesOut
<1> QED
  BY <1>1, Invariant, PTL

-----------------------------------------------------------------------------
(***************************************************************************)
(* What a step does to the creating calls and to the requests.             *)
(***************************************************************************)

\* The steps of creating calls, and the others.
Creating == \/ \E c \in Ids : StartCreate(c) \/ CreateStep(c)
            \/ \E c \in Blockings : WaitStep(c)
Serving == \/ \E c \in Verifies : StartVerify(c) \/ VerifyStep(c) \/ WebhookReturns(c)
           \/ \E c \in Reads : StartRead(c) \/ ReadStep(c)
Passing == Tick \/ (\E t \in timers : ForgetVerdict(t)) \/ UNCHANGED vars

\* A step creates a request, serves one, or passes time.
LEMMA StepKinds == [Next]_vars => Creating \/ Serving \/ Passing
BY DEF Next, Creating, Serving, Passing

\* Only creating calls move creating calls and draw keys.
CreatesRest ==
  /\ arg' = arg /\ since' = since /\ keys' = keys /\ published' = published
  /\ \A d \in Ids : pc'[d] = pc[d] /\ reply'[d] = reply[d] /\ loaded'[d] = loaded[d]

\* Submissions and reads leave the creating calls alone.
LEMMA ServingRests ==
  ASSUME TypeInv, Serving
  PROVE  CreatesRest
<1>1. ASSUME NEW c \in Verifies, StartVerify(c) \/ VerifyStep(c) \/ WebhookReturns(c)
      PROVE  CreatesRest
  <2>1. /\ arg' = arg /\ since' = since /\ keys' = keys /\ published' = published
    BY <1>1 DEF StartVerify, VerifyStep, VerifyLoad, VerifyExpiry, DropExpired, VerifyProof,
       Consume, RecordVerified, RecordFailed, WebhookReturns, WebhookPanics, NotifyWaiters,
       inputVars, history
  <2>2. /\ \A d \in Calls : d # c => pc'[d] = pc[d]
        /\ \A d \in Calls : d # c => reply'[d] = reply[d]
        /\ \A d \in Calls : d # c => loaded'[d] = loaded[d]
    BY <1>1, Shape DEF StartVerify, VerifyStep, VerifyLoad, VerifyExpiry, DropExpired,
       VerifyProof, Consume, RecordVerified, RecordFailed, WebhookReturns, WebhookPanics,
       NotifyWaiters, Answer, Goto
  <2> QED
    BY <2>1, <2>2, CallKinds DEF CreatesRest
<1>2. ASSUME NEW c \in Reads, StartRead(c) \/ ReadStep(c)
      PROVE  CreatesRest
  <2>1. /\ arg' = arg /\ since' = since /\ keys' = keys /\ published' = published
    BY <1>2 DEF StartRead, ReadStep, ResultVerdict, ReadLoad, ReadTime, inputVars, history
  <2>2. /\ \A d \in Calls : d # c => pc'[d] = pc[d]
        /\ \A d \in Calls : d # c => reply'[d] = reply[d]
        /\ \A d \in Calls : d # c => loaded'[d] = loaded[d]
    BY <1>2, Shape DEF StartRead, ReadStep, ResultVerdict, ReadLoad, ReadTime, Answer, Goto
  <2> QED
    BY <2>1, <2>2, CallKinds DEF CreatesRest
<1> QED
  BY <1>1, <1>2 DEF Serving

\* Nor do time and the forgetting of verdicts move any call.
LEMMA PassingRests ==
  ASSUME Passing
  PROVE  /\ CreatesRest
         /\ pc' = pc /\ reply' = reply /\ loaded' = loaded /\ sub' = sub /\ rd' = rd
         /\ store' = store /\ told' = told
BY DEF Passing, Tick, ForgetVerdict, vars, callVars, inputVars, history, CreatesRest

\* A create that begins after a schema has its keys finds them in the cache, so that
\* only calls which were already past the look at the cache can replace a pair.
LEMMA SettledStays ==
  ASSUME TypeInv, [Next]_vars, NEW s \in Schemas, Settled(s)
  PROVE  Settled(s)' /\ keys'[s] = keys[s]
<1>1. keys[s] # None /\ \A c \in Ids : pc[c] = "setup" => arg[c].schema # s
  BY  DEF Settled
<1>2. CASE CreatesRest
  BY <1>1, <1>2 DEF CreatesRest, Settled
<1>3. ASSUME NEW c \in Ids, keys' = keys,
             \A d \in Ids : d # c => pc'[d] = pc[d] /\ arg'[d] = arg[d],
             pc'[c] = "setup" => arg'[c].schema # s
      PROVE  Settled(s)' /\ keys'[s] = keys[s]
  BY <1>1, <1>3 DEF Settled
<1>4. ASSUME NEW c \in Ids, StartCreate(c) PROVE Settled(s)' /\ keys'[s] = keys[s]
  <2>1. /\ keys' = keys /\ pc'[c] = "ensure"
        /\ \A d \in Ids : d # c => pc'[d] = pc[d] /\ arg'[d] = arg[d]
    BY <1>4, Shape, CallKinds DEF StartCreate, Goto
  <2> QED
    BY <1>3, <2>1
<1>5. ASSUME NEW c \in Ids, EnsureCheck(c) PROVE Settled(s)' /\ keys'[s] = keys[s]
  <2>1. /\ keys' = keys /\ arg' = arg
        /\ pc'[c] = "setup" => keys[arg[c].schema] = None
        /\ \A d \in Ids : d # c => pc'[d] = pc[d]
    BY <1>5, Shape, CallKinds DEF EnsureCheck, Goto, inputVars
  <2> QED
    BY <1>1, <1>3, <2>1
<1>6. ASSUME NEW c \in Ids, EnsureStore(c) PROVE Settled(s)' /\ keys'[s] = keys[s]
  <2>1. /\ arg' = arg /\ pc'[c] = "save" /\ arg[c].schema # s
        /\ \A d \in Ids : d # c => pc'[d] = pc[d]
        /\ keys'[s] = keys[s]
    BY <1>1, <1>6, Shape, CallKinds DEF EnsureStore, Goto, inputVars
  <2> QED
    BY <1>1, <2>1 DEF Settled
<1>7. ASSUME NEW c \in Ids, EnsureFails(c) \/ SaveRequest(c) \/ AttachLoad(c) \/ AttachSave(c)
                           \/ RespondCreated(c) \/ WaitStep(c)
      PROVE  Settled(s)' /\ keys'[s] = keys[s]
  <2>1. keys' = keys /\ arg' = arg
    BY <1>7 DEF EnsureFails, SaveRequest, AttachLoad, AttachSave, RespondCreated, WaitStep,
       WaitRegister, WaitSelect, inputVars
  <2>2. pc'[c] # "setup" /\ \A d \in Ids : d # c => pc'[d] = pc[d]
    BY <1>7, Shape, CallKinds DEF EnsureFails, SaveRequest, AttachLoad, AttachSave,
       RespondCreated, WaitStep, WaitRegister, WaitSelect, Answer, Goto
  <2> QED
    BY <1>3, <2>1, <2>2
<1>8. CASE Creating
  BY <1>4, <1>5, <1>6, <1>7, <1>8, CallKinds DEF Creating, CreateStep
<1> QED
  BY <1>2, <1>8, StepKinds, ServingRests, PassingRests

\* KeySettles holds in every behaviour: once its keys are settled, no step of any call
\* replaces the pair of a schema.
THEOREM KeysSettle == Spec => KeySettles
<1>1. TypeInv /\ [Next]_vars =>
        [\A s \in Schemas : Settled(s) => Settled(s)' /\ keys'[s] = keys[s]]_vars
  BY SettledStays
<1> QED
  BY <1>1, Invariant, PTL DEF Spec, KeySettles

-----------------------------------------------------------------------------
(***************************************************************************)
(* The service implements the request life cycle.                          *)
(***************************************************************************)

\* The refinement mapping of Lifecycle.
PhaseMap == [id \in Ids |-> Phase(id)]

\* The phases after a step that changes at most one of them.
LEMMA PhasesAfter ==
  ASSUME NEW i \in Ids, NEW v, Phase(i)' = v, \A d \in Ids : d # i => Phase(d)' = Phase(d)
  PROVE  PhaseMap' = [PhaseMap EXCEPT ![i] = v]
BY DEF PhaseMap

\* A request's phase depends on its place in the store and on its creating call.
LEMMA PhaseStays ==
  ASSUME NEW d \in Ids, pc'[d] = pc[d], reply'[d] = reply[d],
         store'[d] = None <=> store[d] = None
  PROVE  Phase(d)' = Phase(d)
BY DEF Phase

\* A request whose id is known is open or closed.
LEMMA DisclosedPhase ==
  ASSUME TypeInv, NEW d \in Ids, d \in Disclosed
  PROVE  Phase(d) = IF store[d] # None THEN "open" ELSE "closed"
<1>1. reply[d] # "rejected" /\ reply[d] # ""
  BY DEF Disclosed
<1>2. pc[d] = "done"
  BY <1>1, Shape, CallKinds
<1> QED
  BY <1>1, <1>2 DEF Phase

\* A creating call issues its request when it saves it and changes no phase otherwise.
LEMMA CreatingRefines ==
  ASSUME TypeInv, Inv, Inv', Creating
  PROVE  /\ verdicts' = verdicts
         /\ \/ PhaseMap' = PhaseMap
            \/ \E c \in Ids : Phase(c) = "new" /\ PhaseMap' = [PhaseMap EXCEPT ![c] = "open"]
<1>1. verdicts' = verdicts
  BY DEF Creating, StartCreate, CreateStep, EnsureCheck, EnsureFails, EnsureStore, SaveRequest,
     AttachLoad, AttachSave, RespondCreated, WaitStep, WaitRegister, WaitSelect, verdictVars
<1>2. ASSUME NEW c \in Ids, \A d \in Ids : d # c => pc'[d] = pc[d] /\ reply'[d] = reply[d]
                                                   /\ store'[d] = store[d]
      PROVE  \A d \in Ids : d # c => Phase(d)' = Phase(d)
  BY <1>2, PhaseStays
<1>3. ASSUME NEW c \in Ids, \A d \in Ids : Phase(d)' = Phase(d)
      PROVE  PhaseMap' = PhaseMap
  BY <1>3 DEF PhaseMap
<1>4. ASSUME NEW c \in Ids, StartCreate(c) \/ EnsureCheck(c) \/ EnsureStore(c) \/ EnsureFails(c)
      PROVE  PhaseMap' = PhaseMap
  <2>1. /\ pc[c] \in Fresh /\ store' = store
        /\ pc'[c] \in Fresh \/ reply'[c] = "rejected"
        /\ \A d \in Ids : d # c => pc'[d] = pc[d] /\ reply'[d] = reply[d]
    BY <1>4, Shape, CallKinds DEF StartCreate, EnsureCheck, EnsureStore, EnsureFails, Answer,
       Goto, Fresh
  <2>2. Phase(c)' = Phase(c)
    BY <2>1 DEF Phase, Fresh
  <2> QED
    BY <1>2, <1>3, <2>1, <2>2
<1>5. ASSUME NEW c \in Ids, SaveRequest(c)
      PROVE  Phase(c) = "new" /\ PhaseMap' = [PhaseMap EXCEPT ![c] = "open"]
  <2>1. /\ pc[c] = "save" /\ pc'[c] \in Issued /\ reply' = reply
        /\ \A d \in Ids : d # c => pc'[d] = pc[d] /\ store'[d] = store[d]
    BY <1>5, Shape, CallKinds DEF SaveRequest, Goto, Issued
  <2>2. store[c] = None /\ store'[c] # None
    BY <2>1 DEF Inv, Private, Fresh
  <2>3. Phase(c) = "new" /\ Phase(c)' = "open"
    BY <2>1, <2>2 DEF Phase
  <2> QED
    BY <1>2, <2>1, <2>3, PhasesAfter
<1>6. ASSUME NEW c \in Ids, AttachLoad(c) \/ AttachSave(c) \/ RespondCreated(c) \/ WaitStep(c)
      PROVE  PhaseMap' = PhaseMap
  <2>1. /\ pc[c] \in Issued
        /\ \A d \in Ids : d # c => pc'[d] = pc[d] /\ reply'[d] = reply[d] /\ store'[d] = store[d]
    BY <1>6, Shape, CallKinds DEF AttachLoad, AttachSave, RespondCreated, WaitStep, WaitRegister,
       WaitSelect, Answer, Goto, Issued
  <2>2. store' = store \/ pc'[c] \in Issued
    BY <1>6, Shape, CallKinds DEF AttachLoad, AttachSave, RespondCreated, WaitStep, WaitRegister,
       WaitSelect, Goto, Issued
  <2>3. store[c] # None /\ store'[c] # None
    BY <2>1, <2>2 DEF Inv, Private
  <2>4. Phase(c)' = Phase(c)
    BY <2>3 DEF Phase
  <2> QED
    BY <1>2, <1>3, <2>1, <2>4
<1> QED
  BY <1>1, <1>4, <1>5, <1>6, CallKinds DEF Creating, CreateStep

\* A submission that deletes a request closes it, if nobody has before.
LEMMA DeletingRefines ==
  ASSUME TypeInv, Inv, NEW c \in Verifies, DropExpired(c) \/ Consume(c)
  PROVE  /\ verdicts' = verdicts
         /\ \/ PhaseMap' = PhaseMap
            \/ Phase(sub[c].id) = "open" /\ PhaseMap' = [PhaseMap EXCEPT ![sub[c].id] = "closed"]
<1>1. CreatesRest
  BY ServingRests DEF Serving, VerifyStep
<1>2. /\ verdicts' = verdicts /\ pc[c] # "idle"
      /\ store' = [store EXCEPT ![sub[c].id] = None]
  BY DEF DropExpired, Consume, verdictVars
<1>3. PICK i \in Ids : i = sub[c].id /\ i \in Disclosed
  BY <1>2, Submitted DEF Inv
<1>4. store'[i] = None /\ \A d \in Ids : d # i => store'[d] = store[d]
  BY <1>2, <1>3, Shape
<1>5. \A d \in Ids : d # i => Phase(d)' = Phase(d)
  BY <1>1, <1>4, PhaseStays DEF CreatesRest
<1>6. CASE store[i] = None
  <2>1. Phase(i)' = Phase(i)
    BY <1>1, <1>3, <1>4, <1>6, PhaseStays DEF CreatesRest
  <2> QED
    BY <1>2, <1>5, <2>1 DEF PhaseMap
<1>7. CASE store[i] # None
  <2>1. Phase(i) = "open"
    BY <1>3, <1>7, DisclosedPhase
  <2>2. reply[i] # "rejected" /\ reply[i] # "" /\ pc[i] = "done"
    BY <1>3, Shape, CallKinds DEF Disclosed
  <2>3. Phase(i)' = "closed"
    BY <1>1, <1>3, <1>4, <2>2 DEF Phase, CreatesRest
  <2> QED
    BY <1>2, <1>3, <1>5, <2>1, <2>3, PhasesAfter
<1> QED
  BY <1>6, <1>7

\* A step that leaves the store and the creating calls alone changes no phase.
LEMMA PhasesRest ==
  ASSUME CreatesRest, store' = store
  PROVE  PhaseMap' = PhaseMap
<1>1. \A d \in Ids : Phase(d)' = Phase(d)
  BY PhaseStays DEF CreatesRest
<1> QED
  BY <1>1 DEF PhaseMap

\* ImplementsLifecycle holds of every behaviour: each step of the service is a step
\* of RequestLifecycle or leaves phases and verdicts as they are.
THEOREM LifecycleImplemented == Spec => ImplementsLifecycle
<1>1. Init => Lifecycle!Init
  <2> SUFFICES ASSUME Init PROVE Lifecycle!Init
    OBVIOUS
  <2>1. \A d \in Ids : Phase(d) = "new"
    BY CallKinds DEF Init, Phase
  <2> QED
    BY <2>1 DEF Init, Lifecycle!Init
<1>2. ASSUME TypeInv, Inv, Inv', [Next]_vars
      PROVE  Lifecycle!Next \/ (PhaseMap' = PhaseMap /\ verdicts' = verdicts)
  <2>1. CASE Creating
    <3>1. verdicts' = verdicts
      BY <1>2, <2>1, CreatingRefines
    <3>2. CASE PhaseMap' = PhaseMap
      BY <3>1, <3>2
    <3>3. ASSUME NEW c \in Ids, Phase(c) = "new", PhaseMap' = [PhaseMap EXCEPT ![c] = "open"]
          PROVE  Lifecycle!Next
      <4>1. Lifecycle!Issue(c)
        BY <3>1, <3>3 DEF Lifecycle!Issue, PhaseMap
      <4> QED
        BY <4>1 DEF Lifecycle!Next
    <3> QED
      BY <1>2, <2>1, <3>1, <3>2, <3>3, CreatingRefines
  <2>2. ASSUME NEW c \in Verifies, DropExpired(c) \/ Consume(c)
        PROVE  Lifecycle!Next \/ (PhaseMap' = PhaseMap /\ verdicts' = verdicts)
    <3>1. verdicts' = verdicts
      BY <1>2, <2>2, DeletingRefines
    <3>2. sub[c].id \in Ids
      BY <1>2, <2>2, Submitted DEF DropExpired, Consume, Inv
    <3>3. ASSUME Phase(sub[c].id) = "open", PhaseMap' = [PhaseMap EXCEPT ![sub[c].id] = "closed"]
          PROVE  Lifecycle!Next
      <4>1. Lifecycle!Close(sub[c].id)
        BY <3>1, <3>2, <3>3 DEF Lifecycle!Close, PhaseMap
      <4> QED
        BY <3>2, <4>1 DEF Lifecycle!Next
    <3> QED
      BY <1>2, <2>2, <3>1, <3>3, DeletingRefines
  <2>3. ASSUME NEW c \in Verifies, RecordVerified(c) \/ RecordFailed(c)
        PROVE  Lifecycle!Next
    <3>1. CreatesRest /\ store' = store /\ pc[c] \in {"accept", "fail"}
      BY <1>2, <2>3, ServingRests DEF Serving, VerifyStep, RecordVerified, RecordFailed
    <3>2. PhaseMap' = PhaseMap
      BY <3>1, PhasesRest
    <3>3. sub[c].id \in Ids /\ sub[c].id \in Disclosed
      BY <1>2, <3>1, Submitted DEF Inv
    <3>4. CASE RecordVerified(c)
      <4>1. store[sub[c].id] = None
        BY <1>2, <3>4 DEF RecordVerified, Inv, Accepted
      <4>2. Phase(sub[c].id) = "closed"
        BY <1>2, <3>3, <4>1, DisclosedPhase
      <4>3. Lifecycle!Verify(sub[c].id)
        BY <3>2, <3>3, <3>4, <4>2 DEF Lifecycle!Verify, RecordVerified, SetVerdict, PhaseMap
      <4> QED
        BY <3>3, <4>3 DEF Lifecycle!Next
    <3>5. CASE RecordFailed(c)
      <4>1. Phase(sub[c].id) # "new"
        BY <1>2, <3>3, DisclosedPhase
      <4>2. Lifecycle!Fail(sub[c].id)
        BY <3>2, <3>3, <3>5, <4>1 DEF Lifecycle!Fail, RecordFailed, SetVerdict, PhaseMap
      <4> QED
        BY <3>3, <4>2 DEF Lifecycle!Next
    <3> QED
      BY <2>3, <3>4, <3>5
  <2>4. ASSUME NEW c \in Verifies,
               \/ StartVerify(c) \/ VerifyLoad(c) \/ VerifyExpiry(c) \/ VerifyProof(c)
               \/ WebhookPanics(c) \/ WebhookReturns(c) \/ NotifyWaiters(c)
        PROVE  PhaseMap' = PhaseMap /\ verdicts' = verdicts
    <3>1. CreatesRest
      BY <1>2, <2>4, ServingRests DEF Serving, VerifyStep
    <3>2. store' = store /\ verdicts' = verdicts
      BY <2>4 DEF StartVerify, VerifyLoad, VerifyExpiry, VerifyProof, WebhookPanics,
         WebhookReturns, NotifyWaiters, verdictVars
    <3> QED
      BY <3>1, <3>2, PhasesRest
  <2>5. ASSUME NEW c \in Reads, StartRead(c) \/ ReadStep(c)
        PROVE  PhaseMap' = PhaseMap /\ verdicts' = verdicts
    <3>1. CreatesRest
      BY <1>2, <2>5, ServingRests DEF Serving
    <3>2. store' = store /\ verdicts' = verdicts
      BY <2>5 DEF StartRead, ReadStep, ResultVerdict, ReadLoad, ReadTime, verdictVars
    <3> QED
      BY <3>1, <3>2, PhasesRest
  <2>6. ASSUME NEW t \in timers, ForgetVerdict(t) PROVE Lifecycle!Next
    <3>1. PhaseMap' = PhaseMap
      BY <2>6, PassingRests, PhasesRest DEF Passing
    <3>2. t.id \in Ids
      BY <1>2 DEF TypeInv, SharedOK, Timer
    <3>3. Lifecycle!Forget(t.id)
      BY <2>6, <3>1 DEF Lifecycle!Forget, ForgetVerdict, PhaseMap
    <3> QED
      BY <3>2, <3>3 DEF Lifecycle!Next
  <2>7. CASE Tick \/ UNCHANGED vars
    <3>1. PhaseMap' = PhaseMap
      BY <2>7, PassingRests, PhasesRest DEF Passing
    <3>2. verdicts' = verdicts
      BY <2>7 DEF Tick, vars, verdictVars
    <3> QED
      BY <3>1, <3>2
  <2> QED
    BY <1>2, <2>1, <2>2, <2>3, <2>4, <2>5, <2>6, <2>7, StepKinds
       DEF Serving, Passing, VerifyStep
<1>3. TypeInv /\ Inv /\ Inv' /\ [Next]_vars =>
        [Lifecycle!Next]_<<PhaseMap, verdicts>>
  BY <1>2
<1>4. Spec => [][Lifecycle!Next]_<<PhaseMap, verdicts>>
  BY <1>3, Invariant, PTL DEF Spec
<1> QED
  BY <1>1, <1>4, PTL DEF Spec, ImplementsLifecycle, Lifecycle!Spec, PhaseMap

-----------------------------------------------------------------------------
(***************************************************************************)
(* What clients have been told.                                            *)
(***************************************************************************)

\* The lifetime of a request has passed; it has passed or the request is used up.
Expired(id) == clock > since[id] + TTL
Ended(id) == store[id] = None \/ Expired(id)
\* A failed submission shows on /result until the request has expired.
Marked(id) == verdicts[id] # "none" \/ Expired(id)

\* Every copy of a request has the expiry it was created with, and no verdict is
\* forgotten before it.
Lifetimes ==
  /\ \A id \in Ids : pc[id] # "idle" => since[id] <= clock
  /\ \A id \in Ids : store[id] # None => store[id].expires = since[id] + TTL
  /\ \A c \in Ids : loaded[c] # None => loaded[c].expires = since[c] + TTL
  /\ \A c \in Reads, id \in Ids :
       loaded[c] # None /\ rd[c].id = id => loaded[c].expires = since[id] + TTL
  /\ \A t \in timers : t.id \in Disclosed /\ since[t.id] + TTL < t.at

\* Whom call d is about, once it has begun: a disclosed request that has ended if d
\* was told so, and is marked if d has failed.
Telling(d, id) ==
  /\ id \in Disclosed
  /\ reply[d] \in Final => Ended(id)
  /\ reply[d] = "failed" \/ pc[d] \in {"hookFail", "notifyFail"} => Marked(id)
Informed ==
  /\ \A d \in Verifies, id \in Ids : sub[d] # None /\ sub[d].id = id => Telling(d, id)
  /\ \A d \in Reads, id \in Ids : rd[d] # None /\ rd[d].id = id => Telling(d, id)

\* What a read that began after such a reply will find.
Finding(c, id) ==
  /\ told[c] \cap Final # {} =>
       /\ pc[c] \in {"verdict", "rload"} => Ended(id)
       /\ pc[c] = "rtime" => Expired(id)
       /\ reply[c] # "pending"
  /\ "failed" \in told[c] /\ rd[c].kind = "result" =>
       /\ pc[c] = "verdict" => Marked(id)
       /\ pc[c] \in {"rload", "rtime"} => Expired(id)
       /\ reply[c] # "pending"
Reading ==
  \A c \in Reads, id \in Ids : pc[c] # "idle" /\ rd[c].id = id => Finding(c, id)

TellInv == Lifetimes /\ Informed /\ Reading

\* It holds initially.
LEMMA TellInit == Init => TellInv
<1> SUFFICES ASSUME Init PROVE TellInv
  OBVIOUS
<1>1. /\ \A c \in Calls : pc[c] = "idle" /\ loaded[c] = None /\ reply[c] = ""
      /\ \A c \in Ids : store[c] = None
      /\ \A c \in Verifies : sub[c] = None
      /\ \A c \in Reads : rd[c] = None
      /\ timers = {}
  BY DEF Init
<1> QED
  BY <1>1, CallKinds DEF TellInv, Lifetimes, Informed, Reading

\* The numbers behind it.
LEMMA Times ==
  ASSUME TypeInv
  PROVE  /\ clock \in Nat /\ TTL \in Nat /\ VerdictTTL \in Nat /\ TTL < VerdictTTL
         /\ \A id \in Ids : since[id] \in Nat
         /\ \A t \in timers : t.id \in Ids /\ t.at \in Nat
<1>1. clock \in Nat /\ \A id \in Ids : since[id] \in Nat
  BY DEF TypeInv, CallsInv, CallsOK, SharedOK
<1>2. \A t \in timers : t.id \in Ids /\ t.at \in Nat
  BY DEF TypeInv, SharedOK, Timer
<1> QED
  BY <1>1, <1>2, TimeAssumption

\* Nothing that was disclosed is taken back, and no request gets younger.
Onward ==
  /\ \A id \in Disclosed : id \in Disclosed' /\ since'[id] = since[id]
  /\ \A id \in Disclosed : Expired(id) => Expired(id)'
  /\ \A id \in Disclosed : Ended(id) => Ended(id)'
  /\ \A id \in Disclosed : Marked(id) => Marked(id)'

\* A step that forgets no verdict and reopens nothing, at the same time.
LEMMA SameTime ==
  ASSUME clock' = clock,
         \A id \in Disclosed : id \in Disclosed' /\ since'[id] = since[id],
         \A id \in Disclosed : store[id] = None => store'[id] = None,
         \A id \in Disclosed : verdicts[id] # "none" => verdicts'[id] # "none"
  PROVE  Onward
<1>1. \A id \in Disclosed : Expired(id)' <=> Expired(id)
  BY DEF Expired
<1> HIDE DEF Expired
<1> QED
  BY <1>1 DEF Onward, Ended, Marked

\* What a creating call leaves alone.
LEMMA CreatingAlone ==
  ASSUME TypeInv, Inv, Creating
  PROVE  /\ clock' = clock /\ sub' = sub /\ rd' = rd /\ told' = told
         /\ verdicts' = verdicts /\ timers' = timers
         /\ \A d \in Verifies \cup Reads :
              pc'[d] = pc[d] /\ reply'[d] = reply[d] /\ loaded'[d] = loaded[d]
         /\ \A d \in Disclosed :
              reply'[d] = reply[d] /\ since'[d] = since[d] /\ store'[d] = store[d]
<1>1. clock' = clock /\ sub' = sub /\ rd' = rd /\ told' = told /\ verdicts' = verdicts
      /\ timers' = timers
  BY DEF Creating, StartCreate, CreateStep, EnsureCheck, EnsureFails, EnsureStore, SaveRequest,
     AttachLoad, AttachSave, RespondCreated, WaitStep, WaitRegister, WaitSelect, inputVars,
     verdictVars, history
<1>2. PICK c \in Ids : StartCreate(c) \/ CreateStep(c) \/ WaitStep(c)
  BY CallKinds DEF Creating
<1>3. /\ pc[c] # "done"
      /\ \A d \in Calls : d # c => pc'[d] = pc[d]
      /\ \A d \in Calls : d # c => reply'[d] = reply[d]
      /\ \A d \in Calls : d # c => loaded'[d] = loaded[d]
  BY <1>2, Shape DEF StartCreate, CreateStep, EnsureCheck, EnsureFails, EnsureStore, SaveRequest,
     AttachLoad, AttachSave, RespondCreated, WaitStep, WaitRegister, WaitSelect, Answer, Goto
<1>4. \A d \in Ids : d # c => since'[d] = since[d] /\ store'[d] = store[d]
  <2>1. DOMAIN since = Ids /\ DOMAIN store = Ids
    BY DEF TypeInv, CallsInv, CallsOK, SharedOK
  <2> QED
    BY <1>2, <2>1 DEF StartCreate, CreateStep, EnsureCheck, EnsureFails, EnsureStore, SaveRequest,
       AttachLoad, AttachSave, RespondCreated, WaitStep, WaitRegister, WaitSelect, inputVars
<1>5. c \notin Disclosed
  BY <1>3, Untouched DEF Inv
<1>6. \A d \in Disclosed : d \in Ids /\ d # c /\ d \in Calls
  BY <1>5, CallKinds DEF Disclosed
<1>7. \A d \in Verifies \cup Reads : d \in Calls /\ d # c
  BY CallKinds
<1> QED
  BY <1>1, <1>3, <1>4, <1>6, <1>7

\* The submission c leaves the others alone, and deletes requests only.
LEMMA VerifyAlone ==
  ASSUME TypeInv, Inv, NEW c \in Verifies, StartVerify(c) \/ VerifyStep(c) \/ WebhookReturns(c)
  PROVE  /\ clock' = clock /\ since' = since /\ rd' = rd /\ told' = told
         /\ \A d \in Ids : pc'[d] = pc[d] /\ reply'[d] = reply[d] /\ loaded'[d] = loaded[d]
         /\ \A d \in Verifies : d # c => pc'[d] = pc[d] /\ reply'[d] = reply[d] /\ sub'[d] = sub[d]
         /\ \A d \in Reads : pc'[d] = pc[d] /\ reply'[d] = reply[d] /\ loaded'[d] = loaded[d]
         /\ \A d \in Ids : store'[d] \in {store[d], None}
         /\ \A d \in Ids : verdicts[d] # "none" => verdicts'[d] # "none"
<1>1. clock' = clock /\ since' = since /\ rd' = rd /\ told' = told
  BY DEF StartVerify, VerifyStep, VerifyLoad, VerifyExpiry, DropExpired, VerifyProof,
     Consume, RecordVerified, RecordFailed, WebhookReturns, WebhookPanics, NotifyWaiters,
     inputVars, history
<1>2. /\ \A d \in Calls : d # c => pc'[d] = pc[d]
      /\ \A d \in Calls : d # c => reply'[d] = reply[d]
      /\ \A d \in Calls : d # c => loaded'[d] = loaded[d]
      /\ \A d \in Verifies : d # c => sub'[d] = sub[d]
  BY Shape DEF StartVerify, VerifyStep, VerifyLoad, VerifyExpiry, DropExpired,
     VerifyProof, Consume, RecordVerified, RecordFailed, WebhookReturns, WebhookPanics,
     NotifyWaiters, Answer, Goto, inputVars
<1>3. \A d \in Ids : store'[d] \in {store[d], None}
  BY Shape DEF StartVerify, VerifyStep, VerifyLoad, VerifyExpiry, DropExpired,
     VerifyProof, Consume, RecordVerified, RecordFailed, WebhookReturns, WebhookPanics,
     NotifyWaiters
<1>4. \A d \in Ids : verdicts[d] # "none" => verdicts'[d] # "none"
  BY Shape DEF StartVerify, VerifyStep, VerifyLoad, VerifyExpiry, DropExpired,
     VerifyProof, Consume, RecordVerified, RecordFailed, WebhookReturns, WebhookPanics,
     NotifyWaiters, SetVerdict, verdictVars
<1> QED
  BY <1>1, <1>2, <1>3, <1>4, CallKinds

\* The read c leaves everything alone but itself.
LEMMA ReadAlone ==
  ASSUME TypeInv, NEW c \in Reads, StartRead(c) \/ ReadStep(c)
  PROVE  /\ clock' = clock /\ since' = since /\ sub' = sub /\ store' = store
         /\ verdicts' = verdicts /\ timers' = timers
         /\ \A d \in Ids : pc'[d] = pc[d] /\ reply'[d] = reply[d] /\ loaded'[d] = loaded[d]
         /\ \A d \in Verifies : pc'[d] = pc[d] /\ reply'[d] = reply[d]
         /\ \A d \in Reads : d # c => pc'[d] = pc[d] /\ reply'[d] = reply[d]
              /\ loaded'[d] = loaded[d] /\ rd'[d] = rd[d] /\ told'[d] = told[d]
<1>1. clock' = clock /\ since' = since /\ sub' = sub /\ store' = store
      /\ verdicts' = verdicts /\ timers' = timers
  BY DEF StartRead, ReadStep, ResultVerdict, ReadLoad, ReadTime, inputVars, verdictVars
<1>2. /\ \A d \in Calls : d # c => pc'[d] = pc[d]
      /\ \A d \in Calls : d # c => reply'[d] = reply[d]
      /\ \A d \in Calls : d # c => loaded'[d] = loaded[d]
  BY Shape DEF StartRead, ReadStep, ResultVerdict, ReadLoad, ReadTime, Answer, Goto
<1>3. \A d \in Reads : d # c => rd'[d] = rd[d] /\ told'[d] = told[d]
  <2>1. DOMAIN rd = Reads /\ DOMAIN told = Reads
    BY DEF TypeInv, CallsInv, CallsOK, SharedOK
  <2> QED
    BY <2>1 DEF StartRead, ReadStep, ResultVerdict, ReadLoad, ReadTime, inputVars, history
<1> QED
  BY <1>1, <1>2, <1>3, CallKinds

\* Every step goes onward; the goroutine that forgets a verdict sleeps long enough.
LEMMA OnwardStep ==
  ASSUME TypeInv, TypeInv', Inv, Lifetimes, [Next]_vars
  PROVE  Onward
<1>1. CASE Creating
  <2>1. \A d \in Disclosed : d \in Disclosed'
    BY <1>1, CreatingAlone DEF Disclosed
  <2> QED
    BY <1>1, <2>1, CreatingAlone, SameTime
<1>2. ASSUME NEW c \in Verifies, StartVerify(c) \/ VerifyStep(c) \/ WebhookReturns(c)
      PROVE  Onward
  <2>1. \A d \in Disclosed : d \in Ids /\ d \in Disclosed'
    BY <1>2, VerifyAlone DEF Disclosed
  <2>2. /\ \A d \in Disclosed : store[d] = None => store'[d] = None
        /\ \A d \in Disclosed : verdicts[d] # "none" => verdicts'[d] # "none"
        /\ clock' = clock /\ since' = since
    BY <1>2, <2>1, VerifyAlone
  <2> QED
    BY <2>1, <2>2, SameTime
<1>3. ASSUME NEW c \in Reads, StartRead(c) \/ ReadStep(c)
      PROVE  Onward
  <2>1. \A d \in Disclosed : d \in Ids /\ d \in Disclosed'
    BY <1>3, ReadAlone DEF Disclosed
  <2>2. store' = store /\ verdicts' = verdicts /\ clock' = clock /\ since' = since
    BY <1>3, ReadAlone
  <2> QED
    BY <2>1, <2>2, SameTime
<1>4. CASE Passing
  <2>1. since' = since /\ store' = store /\ reply' = reply
    BY <1>4, PassingRests DEF CreatesRest
  <2>2. Disclosed' = Disclosed /\ Disclosed \subseteq Ids
    BY <2>1 DEF Disclosed
  <2>3. CASE Tick
    <3>1. verdicts' = verdicts /\ clock' = clock + 1
      BY <2>3 DEF Tick, verdictVars
    <3>2. ASSUME NEW id \in Disclosed, Expired(id) PROVE Expired(id)'
      <4>1. clock \in Nat /\ TTL \in Nat /\ since[id] \in Nat
        BY <2>2, Times
      <4>2. clock > since[id] + TTL
        BY <3>2 DEF Expired
      <4>3. clock' > since[id] + TTL
        BY <3>1, <4>1, <4>2
      <4> QED
        BY <2>1, <4>3 DEF Expired
    <3> HIDE DEF Expired
    <3> QED
      BY <2>1, <2>2, <3>1, <3>2 DEF Onward, Ended, Marked
  <2>4. ASSUME NEW t \in timers, ForgetVerdict(t) PROVE Onward
    <3>1. /\ clock' = clock /\ clock >= t.at
          /\ \A d \in Ids : d # t.id => verdicts'[d] = verdicts[d]
      BY <2>4, Shape DEF ForgetVerdict
    <3>2. Expired(t.id)
      <4>1. since[t.id] + TTL < t.at
        BY DEF Lifetimes
      <4>2. clock \in Nat /\ TTL \in Nat /\ since[t.id] \in Nat /\ t.at \in Nat
        BY Times
      <4>3. clock > since[t.id] + TTL
        BY <3>1, <4>1, <4>2
      <4> QED
        BY <4>3 DEF Expired
    <3>3. \A d \in Disclosed : Expired(d)' <=> Expired(d)
      BY <2>1, <3>1 DEF Expired
    <3> HIDE DEF Expired
    <3>4. ASSUME NEW d \in Disclosed, Marked(d) PROVE Marked(d)'
      <4>1. CASE d = t.id
        <5>1. Expired(d)
          BY <3>2, <4>1
        <5> QED
          BY <3>3, <5>1 DEF Marked
      <4>2. CASE d # t.id
        BY <2>2, <3>1, <3>3, <3>4, <4>2 DEF Marked
      <4> QED
        BY <4>1, <4>2
    <3> QED
      BY <2>1, <2>2, <3>3, <3>4 DEF Onward, Ended
  <2>5. CASE UNCHANGED vars
    <3>1. clock' = clock /\ verdicts' = verdicts
      BY <2>5 DEF vars, verdictVars
    <3> QED
      BY <2>1, <2>2, <3>1, SameTime
  <2> QED
    BY <1>4, <2>3, <2>4, <2>5 DEF Passing
<1> QED
  BY <1>1, <1>2, <1>3, <1>4, StepKinds DEF Serving

\* What a call that does not move was told stays true.
LEMMA TellingStays ==
  ASSUME Onward, NEW d, NEW id, Telling(d, id), pc'[d] = pc[d], reply'[d] = reply[d]
  PROVE  Telling(d, id)'
<1> HIDE DEF Expired, Ended, Marked
<1> QED
  BY DEF Onward, Telling

\* Nor is it disturbed by a move that tells the call nothing new.
LEMMA TellingMoves ==
  ASSUME Onward, NEW d, NEW id, Telling(d, id),
         reply'[d] \in Final => reply[d] \in Final \/ Ended(id)',
         reply'[d] = "failed" \/ pc'[d] \in {"hookFail", "notifyFail"} =>
           reply[d] = "failed" \/ pc[d] \in {"hookFail", "notifyFail"} \/ Marked(id)'
  PROVE  Telling(d, id)'
BY DEF Onward, Telling

\* What awaits a read that does not move stays true.
LEMMA FindingStays ==
  ASSUME Onward, NEW c, NEW id \in Disclosed, Finding(c, id), pc'[c] = pc[c],
         reply'[c] = reply[c], told'[c] = told[c], rd'[c] = rd[c]
  PROVE  Finding(c, id)'
BY DEF Onward, Finding

\* The calls other than c keep what they were told and what they will find.
LEMMA OthersTold ==
  ASSUME TypeInv, Informed, Reading, Onward, NEW c,
         \A d \in Verifies : d # c => pc'[d] = pc[d] /\ reply'[d] = reply[d] /\ sub'[d] = sub[d],
         \A d \in Reads : d # c => pc'[d] = pc[d] /\ reply'[d] = reply[d] /\ rd'[d] = rd[d]
                                     /\ told'[d] = told[d]
  PROVE  /\ \A d \in Verifies, id \in Ids :
              d # c /\ sub'[d] # None /\ sub'[d].id = id => Telling(d, id)'
         /\ \A d \in Reads, id \in Ids :
              d # c /\ rd'[d] # None /\ rd'[d].id = id => Telling(d, id)'
         /\ \A d \in Reads, id \in Ids :
              d # c /\ pc'[d] # "idle" /\ rd'[d].id = id => Finding(d, id)'
<1>1. ASSUME NEW d \in Verifies, NEW id \in Ids, d # c, sub'[d] # None, sub'[d].id = id
      PROVE  Telling(d, id)'
  BY <1>1, TellingStays DEF Informed
<1>2. ASSUME NEW d \in Reads, NEW id \in Ids, d # c, rd'[d] # None, rd'[d].id = id
      PROVE  Telling(d, id)'
  BY <1>2, TellingStays DEF Informed
<1>3. ASSUME NEW d \in Reads, NEW id \in Ids, d # c, pc'[d] # "idle", rd'[d].id = id
      PROVE  Finding(d, id)'
  <2>1. rd[d] # None /\ rd[d].id = id /\ pc[d] # "idle"
    BY <1>3, NoneAssumption DEF TypeInv, CallsInv, Inputs
  <2>2. id \in Disclosed
    BY <2>1 DEF Informed, Telling
  <2> QED
    BY <1>3, <2>1, <2>2, FindingStays DEF Reading
<1> QED
  BY <1>1, <1>2, <1>3

\* The lifetimes after the steps that neither create requests nor copy them for reads.
LEMMA LifetimesStay ==
  ASSUME TypeInv, TypeInv', Lifetimes, Onward, clock <= clock', since' = since, rd' = rd,
         \A d \in Ids : pc'[d] = pc[d] /\ loaded'[d] = loaded[d],
         \A d \in Reads : loaded'[d] = loaded[d],
         \A d \in Ids : store'[d] \in {store[d], None},
         \A t \in timers' : t \in timers \/ (t.id \in Disclosed' /\ since[t.id] + TTL < t.at)
  PROVE  Lifetimes'
<1>1. ASSUME NEW d \in Ids, pc'[d] # "idle" PROVE since'[d] <= clock'
  <2>1. since[d] <= clock /\ since[d] \in Nat /\ clock \in Nat /\ clock' \in Nat
    BY <1>1, Times DEF Lifetimes, TypeInv, SharedOK
  <2>2. since[d] <= clock'
    BY <2>1
  <2> QED
    BY <2>2
<1>2. ASSUME NEW t \in timers' PROVE t.id \in Disclosed' /\ since'[t.id] + TTL < t.at
  BY DEF Lifetimes, Onward
<1>3. \A d \in Ids : store'[d] # None => store'[d].expires = since'[d] + TTL
  BY DEF Lifetimes
<1>4. \A d \in Ids : loaded'[d] # None => loaded'[d].expires = since'[d] + TTL
  BY DEF Lifetimes
<1>5. \A d \in Reads, id \in Ids :
        loaded'[d] # None /\ rd'[d].id = id => loaded'[d].expires = since'[id] + TTL
  BY DEF Lifetimes
<1> QED
  BY <1>1, <1>2, <1>3, <1>4, <1>5 DEF Lifetimes

\* A creating call gives its request a lifetime, and tells nobody else.
LEMMA CreatingTells ==
  ASSUME TypeInv, TypeInv', Inv, TellInv, Onward, Creating
  PROVE  TellInv'
<1>1. PICK c \in Ids : StartCreate(c) \/ CreateStep(c) \/ WaitStep(c)
  BY CallKinds DEF Creating
<1>2. /\ clock' = clock /\ sub' = sub /\ rd' = rd /\ told' = told /\ timers' = timers
      /\ \A d \in Verifies \cup Reads :
           pc'[d] = pc[d] /\ reply'[d] = reply[d] /\ loaded'[d] = loaded[d]
      /\ \A d \in Disclosed : since'[d] = since[d]
  BY CreatingAlone
<1>3. Informed' /\ Reading'
  <2>1. \A d \in Verifies \cup Reads : d # c
    BY CallKinds
  <2>2. /\ \A d \in Verifies, id \in Ids :
             d # c /\ sub'[d] # None /\ sub'[d].id = id => Telling(d, id)'
        /\ \A d \in Reads, id \in Ids :
             d # c /\ rd'[d] # None /\ rd'[d].id = id => Telling(d, id)'
        /\ \A d \in Reads, id \in Ids :
             d # c /\ pc'[d] # "idle" /\ rd'[d].id = id => Finding(d, id)'
    BY <1>2, OthersTold DEF TellInv
  <2> QED
    BY <2>1, <2>2 DEF Informed, Reading
<1>4. \A t \in timers' : t.id \in Disclosed' /\ since'[t.id] + TTL < t.at
  BY <1>2 DEF TellInv, Lifetimes, Onward
<1>5. \A d \in Reads, id \in Ids :
        loaded'[d] # None /\ rd'[d].id = id => loaded'[d].expires = since'[id] + TTL
  <2> SUFFICES ASSUME NEW d \in Reads, NEW id \in Ids, loaded[d] # None, rd[d].id = id
               PROVE  loaded[d].expires = since'[id] + TTL
    BY <1>2
  <2>1. rd[d] # None
    <3>1. pc[d] # "idle"
      BY Shape, CallKinds
    <3>2. rd[d] \in ReadArg
      BY <3>1 DEF TypeInv, CallsInv, Inputs
    <3> QED
      BY <3>2, NoneAssumption
  <2>2. id \in Disclosed
    BY <2>1 DEF TellInv, Informed, Telling
  <2> QED
    BY <1>2, <2>2 DEF TellInv, Lifetimes
<1>6. DOMAIN since = Ids /\ DOMAIN store = Ids /\ DOMAIN loaded = Calls
  BY DEF TypeInv, CallsInv, CallsOK, SharedOK
<1>7. /\ \A d \in Ids : d # c => pc'[d] = pc[d] /\ loaded'[d] = loaded[d]
      /\ \A d \in Ids : d # c => since'[d] = since[d] /\ store'[d] = store[d]
  BY <1>1, <1>6, Shape, CallKinds DEF StartCreate, CreateStep, EnsureCheck, EnsureFails,
     EnsureStore, SaveRequest, AttachLoad, AttachSave, RespondCreated, WaitStep, WaitRegister,
     WaitSelect, inputVars, Answer, Goto
<1>8. ASSUME pc'[c] # "idle" => since'[c] <= clock,
             store'[c] # None => store'[c].expires = since'[c] + TTL,
             loaded'[c] # None => loaded'[c].expires = since'[c] + TTL
      PROVE  Lifetimes'
  BY <1>2, <1>4, <1>5, <1>7, <1>8 DEF TellInv, Lifetimes
<1>9. CASE StartCreate(c)
  <2>1. since'[c] = clock /\ store'[c] = store[c] /\ loaded'[c] = loaded[c]
    BY <1>6, <1>9 DEF StartCreate
  <2>2. store[c] = None /\ loaded[c] = None /\ clock <= clock
    <3>1. pc[c] = "idle"
      BY <1>9 DEF StartCreate
    <3>2. store[c] = None
      BY <3>1 DEF Inv, Private, Fresh
    <3>3. loaded[c] = None
      BY <3>1, Shape, CallKinds
    <3>4. clock \in Nat
      BY Times
    <3>5. clock <= clock
      BY <3>4
    <3> QED
      BY <3>2, <3>3, <3>5
  <2> QED
    BY <1>3, <1>8, <2>1, <2>2 DEF TellInv
<1>10. CASE CreateStep(c) \/ WaitStep(c)
  <2>1. since' = since /\ pc[c] # "idle"
    BY <1>10 DEF CreateStep, EnsureCheck, EnsureFails, EnsureStore, SaveRequest,
       AttachLoad, AttachSave, RespondCreated, WaitStep, WaitRegister, WaitSelect, inputVars
  <2>2. /\ since[c] <= clock
        /\ store[c] # None => store[c].expires = since[c] + TTL
        /\ loaded[c] # None => loaded[c].expires = since[c] + TTL
    BY <2>1 DEF TellInv, Lifetimes
  <2>3. store'[c] # None => store'[c].expires = since[c] + TTL
    <3>1. CASE SaveRequest(c)
      BY <1>6, <3>1 DEF SaveRequest
    <3>2. CASE AttachSave(c)
      <4>1. loaded[c] \in Request
        BY <3>2, CallKinds DEF AttachSave, TypeInv, CallsInv, Progress, Holding
      <4>2. loaded[c] # None
        BY <4>1, NoneAssumption
      <4>3. store'[c] = [loaded[c] EXCEPT !.callback = arg[c].callback]
        BY <1>6, <3>2 DEF AttachSave
      <4>4. store'[c].expires = loaded[c].expires
        BY <4>1, <4>3 DEF Request
      <4> QED
        BY <2>2, <4>2, <4>4
    <3>3. CASE store' = store
      BY <2>2, <3>3
    <3> QED
      BY <1>10, <3>1, <3>2, <3>3 DEF CreateStep, EnsureCheck, EnsureFails, EnsureStore,
         AttachLoad, RespondCreated, WaitStep, WaitRegister, WaitSelect
  <2>4. loaded'[c] # None => loaded'[c].expires = since[c] + TTL
    <3>1. CASE AttachLoad(c)
      BY <1>6, <2>2, <3>1, CallKinds DEF AttachLoad
    <3>2. CASE loaded'[c] \in {loaded[c], None}
      BY <2>2, <3>2
    <3> QED
      BY <1>6, <1>10, <3>1, <3>2, CallKinds DEF CreateStep, EnsureCheck, EnsureFails, EnsureStore,
         SaveRequest, AttachSave, RespondCreated, WaitStep, WaitRegister, WaitSelect, Answer
  <2> QED
    BY <1>3, <1>8, <2>1, <2>2, <2>3, <2>4 DEF TellInv
<1> QED
  BY <1>1, <1>9, <1>10

\* A submission tells its caller ok only when the request is used up, and failed
\* only when its verdict is there or the request has expired.
LEMMA VerifyTells ==
  ASSUME TypeInv, TypeInv', Inv, TellInv, Onward,
         NEW c \in Verifies, StartVerify(c) \/ VerifyStep(c) \/ WebhookReturns(c)
  PROVE  TellInv'
<1>1. /\ clock' = clock /\ since' = since /\ rd' = rd /\ told' = told
      /\ \A d \in Ids : pc'[d] = pc[d] /\ reply'[d] = reply[d] /\ loaded'[d] = loaded[d]
      /\ \A d \in Verifies : d # c => pc'[d] = pc[d] /\ reply'[d] = reply[d] /\ sub'[d] = sub[d]
      /\ \A d \in Reads : pc'[d] = pc[d] /\ reply'[d] = reply[d] /\ loaded'[d] = loaded[d]
      /\ \A d \in Ids : store'[d] \in {store[d], None}
  BY VerifyAlone
<1>2. ASSUME NEW t \in timers' PROVE t \in timers \/ (t.id \in Disclosed' /\ since[t.id] + TTL < t.at)
  <2>1. CASE timers' = timers
    BY <2>1
  <2>2. CASE RecordVerified(c) \/ RecordFailed(c)
    <3>1. /\ pc[c] # "idle"
          /\ timers' = timers \cup {[id |-> sub[c].id, at |-> clock + VerdictTTL, by |-> c]}
      BY <2>2 DEF RecordVerified, RecordFailed, SetVerdict
    <3>2. sub[c].id \in Ids /\ sub[c].id \in Disclosed /\ pc[sub[c].id] = "done"
      BY <3>1, Submitted DEF Inv
    <3>3. CASE t = [id |-> sub[c].id, at |-> clock + VerdictTTL, by |-> c]
      <4>1. t.id = sub[c].id /\ t.at = clock + VerdictTTL
        BY <3>3
      <4>2. since[t.id] <= clock /\ t.id \in Disclosed'
        BY <3>2, <4>1 DEF TellInv, Lifetimes, Onward
      <4>3. /\ since[t.id] \in Nat /\ clock \in Nat /\ TTL \in Nat /\ VerdictTTL \in Nat
            /\ TTL < VerdictTTL
        BY <3>2, <4>1, Times
      <4>4. since[t.id] + TTL < clock + VerdictTTL
        BY <4>2, <4>3
      <4> QED
        BY <4>1, <4>2, <4>4
    <3> QED
      BY <3>1, <3>3
  <2> QED
    BY <2>1, <2>2 DEF StartVerify, VerifyStep, VerifyLoad, VerifyExpiry, DropExpired,
       VerifyProof, Consume, WebhookReturns, WebhookPanics, NotifyWaiters, verdictVars
<1>3. Lifetimes'
  <2>1. clock <= clock'
    BY <1>1, Times
  <2> QED
    BY <1>1, <1>2, <2>1, LifetimesStay DEF TellInv
<1>4. ASSUME NEW id \in Ids, sub'[c] # None, sub'[c].id = id PROVE Telling(c, id)'
  <2>1. CASE StartVerify(c)
    <3>1. PICK i \in Disclosed, e \in BOOLEAN, k \in Ids \cup {None} :
            sub' = [sub EXCEPT ![c] = [id |-> i, echoes |-> e, key |-> k]]
      <4>1. ASSUME NEW i \in Disclosed, NEW k \in published[arg[i].schema] PROVE k \in Ids
        <5>1. i \in Ids /\ pc[i] = "done"
          BY Shape, CallKinds DEF Disclosed
        <5>2. arg[i].schema \in Schemas
          BY <5>1, Shape
        <5> QED
          BY <5>2 DEF TypeInv, SharedOK
      <4> QED
        BY <2>1, <4>1 DEF StartVerify
    <3>2. id \in Disclosed /\ reply' = reply /\ pc[c] = "idle" /\ pc'[c] = "load"
      <4>1. sub'[c].id = i
        BY <3>1, Shape
      <4>2. reply' = reply /\ pc[c] = "idle" /\ pc' = [pc EXCEPT ![c] = "load"]
        BY <2>1 DEF StartVerify, Goto
      <4> QED
        BY <1>4, <4>1, <4>2, Shape, CallKinds
    <3>3. reply[c] = ""
      BY <3>2, Shape, CallKinds
    <3> QED
      BY <3>2, <3>3 DEF Telling, Onward, Final
  <2>2. CASE VerifyStep(c) \/ WebhookReturns(c)
    <3>1. sub' = sub /\ pc[c] # "idle" /\ pc[c] # "done"
      BY <2>2 DEF VerifyStep, VerifyLoad, VerifyExpiry, DropExpired,
         VerifyProof, Consume, RecordVerified, RecordFailed, WebhookReturns, WebhookPanics,
         NotifyWaiters, inputVars
    <3>2. Telling(c, id) /\ sub[c].id = id /\ id \in Disclosed
      BY <1>4, <3>1 DEF TellInv, Informed, Telling
    <3>3. reply[c] = ""
      BY <3>1, Shape, CallKinds
    <3>4. \/ reply'[c] \in {reply[c], "notfound", "panic"}
          \/ NotifyWaiters(c) /\ pc[c] = "notifyOk" /\ reply'[c] = "ok"
          \/ NotifyWaiters(c) /\ pc[c] = "notifyFail" /\ reply'[c] = "failed"
      <4>1. CASE VerifyLoad(c)
        BY <4>1, Shape, CallKinds DEF VerifyLoad, Answer
      <4>2. CASE NotifyWaiters(c)
        BY <4>2, Shape, CallKinds DEF NotifyWaiters, Answer
      <4>3. CASE WebhookPanics(c)
        BY <4>3, Shape, CallKinds DEF WebhookPanics, Answer
      <4>4. CASE reply' = reply
        BY <4>4
      <4> QED
        BY <2>2, <4>1, <4>2, <4>3, <4>4 DEF VerifyStep, VerifyExpiry, DropExpired, VerifyProof,
           Consume, RecordVerified, RecordFailed, WebhookReturns
    <3>5. \/ RecordFailed(c)
          \/ pc'[c] \notin {"hookFail", "notifyFail"}
          \/ pc[c] = "hookFail"
      <4>1. CASE WebhookReturns(c)
        BY <4>1, Shape, CallKinds DEF WebhookReturns, Goto
      <4>2. CASE VerifyStep(c) /\ ~RecordFailed(c)
        <5>1. CASE VerifyLoad(c)
          <6>1. \E l \in {"done", "expiry"} : pc' = [pc EXCEPT ![c] = l]
            BY <5>1 DEF VerifyLoad, Answer, Goto
          <6> QED
            BY <6>1, Shape, CallKinds
        <5>2. CASE VerifyExpiry(c) \/ VerifyProof(c)
          <6>1. \E l \in {"drop", "proof", "consume", "fail"} : pc' = [pc EXCEPT ![c] = l]
            BY <5>2 DEF VerifyExpiry, VerifyProof, Goto
          <6> QED
            BY <6>1, Shape, CallKinds
        <5>3. CASE DropExpired(c) \/ Consume(c) \/ RecordVerified(c)
          BY <5>3, Shape, CallKinds DEF DropExpired, Consume, RecordVerified, Goto
        <5>4. CASE WebhookPanics(c) \/ NotifyWaiters(c)
          BY <5>4, Shape, CallKinds DEF WebhookPanics, NotifyWaiters, Answer, Goto
        <5> QED
          BY <4>2, <5>1, <5>2, <5>3, <5>4 DEF VerifyStep
      <4> QED
        BY <2>2, <4>1, <4>2
    <3>6. ASSUME reply'[c] \in Final PROVE Ended(id)'
      <4>1. NotifyWaiters(c) /\ pc[c] = "notifyOk"
        BY <3>3, <3>6, <3>4 DEF Final
      <4>2. store[id] = None /\ store' = store
        BY <3>2, <4>1 DEF NotifyWaiters, Inv, Accepted
      <4> QED
        BY <4>2 DEF Ended
    <3>7. ASSUME reply'[c] = "failed" \/ pc'[c] \in {"hookFail", "notifyFail"}
          PROVE  reply[c] = "failed" \/ pc[c] \in {"hookFail", "notifyFail"} \/ Marked(id)'
      <4>1. CASE RecordFailed(c)
        <5>1. verdicts'[id] = "failed"
          BY <3>2, <4>1, Shape DEF RecordFailed, SetVerdict
        <5> QED
          BY <5>1 DEF Marked
      <4>2. CASE ~RecordFailed(c)
        BY <3>3, <3>7, <3>4, <3>5, <4>2
      <4> QED
        BY <4>1, <4>2
    <3> QED
      BY <3>2, <3>6, <3>7, TellingMoves
  <2> QED
    BY <2>1, <2>2
<1>5. Informed' /\ Reading'
  <2>1. \A d \in Reads : d # c
    BY CallKinds
  <2>2. /\ \A d \in Verifies, id \in Ids :
             d # c /\ sub'[d] # None /\ sub'[d].id = id => Telling(d, id)'
        /\ \A d \in Reads, id \in Ids :
             d # c /\ rd'[d] # None /\ rd'[d].id = id => Telling(d, id)'
        /\ \A d \in Reads, id \in Ids :
             d # c /\ pc'[d] # "idle" /\ rd'[d].id = id => Finding(d, id)'
    BY <1>1, OthersTold DEF TellInv
  <2> QED
    BY <1>4, <2>1, <2>2 DEF Informed, Reading
<1> QED
  BY <1>3, <1>5 DEF TellInv

\* Time and forgetting change nothing that anybody was told.
LEMMA PassingTells ==
  ASSUME TypeInv, TypeInv', Inv, TellInv, Onward, Passing
  PROVE  TellInv'
<1>1. /\ CreatesRest /\ pc' = pc /\ reply' = reply /\ loaded' = loaded /\ sub' = sub /\ rd' = rd
      /\ store' = store /\ told' = told /\ since' = since
  BY PassingRests DEF CreatesRest
<1>2. timers' \subseteq timers /\ (clock' = clock \/ clock' = clock + 1)
  BY DEF Passing, Tick, ForgetVerdict, vars, verdictVars
<1>3. clock <= clock'
  <2>1. clock \in Nat
    BY Times
  <2> QED
    BY <1>2, <2>1
<1>4. Lifetimes'
  BY <1>1, <1>2, <1>3, LifetimesStay DEF TellInv
<1>5. /\ \A d \in Verifies, id \in Ids :
           d # None /\ sub'[d] # None /\ sub'[d].id = id => Telling(d, id)'
      /\ \A d \in Reads, id \in Ids :
           d # None /\ rd'[d] # None /\ rd'[d].id = id => Telling(d, id)'
      /\ \A d \in Reads, id \in Ids :
           d # None /\ pc'[d] # "idle" /\ rd'[d].id = id => Finding(d, id)'
  BY <1>1, OthersTold DEF TellInv
<1>6. ASSUME NEW d \in Verifies, NEW id \in Ids, sub'[d] # None, sub'[d].id = id
      PROVE  Telling(d, id)'
  BY <1>1, <1>6, TellingStays DEF TellInv, Informed
<1>7. ASSUME NEW d \in Reads, NEW id \in Ids, rd'[d] # None, rd'[d].id = id
      PROVE  Telling(d, id)'
  BY <1>1, <1>7, TellingStays DEF TellInv, Informed
<1>8. ASSUME NEW d \in Reads, NEW id \in Ids, pc'[d] # "idle", rd'[d].id = id
      PROVE  Finding(d, id)'
  <2>1. rd[d] \in ReadArg
    BY <1>1, <1>8 DEF TypeInv, CallsInv, Inputs
  <2>2. id \in Disclosed
    BY <1>1, <1>8, <2>1, NoneAssumption DEF TellInv, Informed, Telling
  <2> QED
    BY <1>1, <1>8, <2>2, FindingStays DEF TellInv, Reading
<1> QED
  BY <1>4, <1>6, <1>7, <1>8 DEF TellInv, Informed, Reading

\* Some call has been told about request id what the read c hears when it begins.
LEMMA ToldBefore ==
  ASSUME Informed, NEW id \in Ids
  PROVE  /\ RepliesAbout(id) \cap Final # {} => Ended(id)
         /\ "failed" \in RepliesAbout(id) => Marked(id)
<1>1. ASSUME NEW d \in Verifies \cup Reads, About(d, id)
      PROVE  (reply[d] \in Final => Ended(id)) /\ (reply[d] = "failed" => Marked(id))
  BY <1>1 DEF About, Informed, Telling
<1> QED
  BY <1>1 DEF RepliesAbout

\* A read hears nothing that was not so, and is answered pending only if nobody had
\* been told otherwise before it began.
LEMMA ReadTells ==
  ASSUME TypeInv, TypeInv', Inv, TellInv, Onward, NEW c \in Reads, StartRead(c) \/ ReadStep(c)
  PROVE  TellInv'
<1>1. /\ clock' = clock /\ since' = since /\ sub' = sub /\ store' = store
      /\ verdicts' = verdicts /\ timers' = timers
      /\ \A d \in Ids : pc'[d] = pc[d] /\ reply'[d] = reply[d] /\ loaded'[d] = loaded[d]
      /\ \A d \in Verifies : pc'[d] = pc[d] /\ reply'[d] = reply[d]
      /\ \A d \in Reads : d # c => pc'[d] = pc[d] /\ reply'[d] = reply[d]
           /\ loaded'[d] = loaded[d] /\ rd'[d] = rd[d] /\ told'[d] = told[d]
  BY ReadAlone
<1>2. /\ \A d \in Verifies, id \in Ids :
           d # c /\ sub'[d] # None /\ sub'[d].id = id => Telling(d, id)'
      /\ \A d \in Reads, id \in Ids :
           d # c /\ rd'[d] # None /\ rd'[d].id = id => Telling(d, id)'
      /\ \A d \in Reads, id \in Ids :
           d # c /\ pc'[d] # "idle" /\ rd'[d].id = id => Finding(d, id)'
  BY <1>1, OthersTold DEF TellInv
<1>3. \A d \in Verifies : d # c
  BY CallKinds
<1>4. \A id \in Ids : (Expired(id)' <=> Expired(id)) /\ (Ended(id)' <=> Ended(id))
                       /\ (Marked(id)' <=> Marked(id))
  BY <1>1 DEF Expired, Ended, Marked
<1>5. ASSUME NEW i \in Ids, rd'[c].id = i, Telling(c, i)', Finding(c, i)',
             loaded'[c] # None => loaded'[c].expires = since[i] + TTL
      PROVE  TellInv'
  <2>1. Informed' /\ Reading'
    BY <1>2, <1>3, <1>5 DEF Informed, Reading
  <2>2. \A d \in Reads, id \in Ids :
          loaded'[d] # None /\ rd'[d].id = id => loaded'[d].expires = since[id] + TTL
    BY <1>1, <1>5 DEF TellInv, Lifetimes
  <2>3. Lifetimes'
    BY <1>1, <2>2 DEF TellInv, Lifetimes, Disclosed
  <2> QED
    BY <2>1, <2>3 DEF TellInv
<1>6. CASE StartRead(c)
  <2>1. PICK i \in Disclosed, k \in ReadKinds :
          /\ rd' = [rd EXCEPT ![c] = [id |-> i, kind |-> k]]
          /\ told' = [told EXCEPT ![c] = RepliesAbout(i)]
          /\ pc' = [pc EXCEPT ![c] = IF k = "result" THEN "verdict" ELSE "rload"]
    BY <1>6 DEF StartRead, Goto
  <2>2. /\ DOMAIN rd = Reads /\ DOMAIN told = Reads /\ i \in Ids
        /\ pc[c] = "idle" /\ reply' = reply /\ loaded' = loaded
    BY <1>6 DEF StartRead, TypeInv, CallsInv, CallsOK, SharedOK, Disclosed
  <2>3. /\ rd'[c].id = i /\ rd'[c].kind = k /\ told'[c] = RepliesAbout(i)
        /\ pc'[c] = IF k = "result" THEN "verdict" ELSE "rload"
    BY <2>1, <2>2, Shape, CallKinds
  <2>4. reply[c] = "" /\ loaded[c] = None
    BY <2>2, Shape, CallKinds
  <2>5. Telling(c, i)'
    BY <2>2, <2>3, <2>4 DEF Telling, Onward, Final
  <2>6. /\ told'[c] \cap Final # {} => Ended(i)'
        /\ "failed" \in told'[c] => Marked(i)'
    BY <1>4, <2>2, <2>3, ToldBefore DEF TellInv
  <2>7. Finding(c, i)'
    BY <2>2, <2>3, <2>4, <2>6 DEF Finding
  <2> QED
    BY <1>5, <2>2, <2>3, <2>4, <2>5, <2>7
<1>7. CASE ReadStep(c)
  <2>1. rd' = rd /\ told' = told /\ pc[c] # "idle"
    BY <1>7 DEF ReadStep, ResultVerdict, ReadLoad, ReadTime, inputVars, history
  <2>2. rd[c] \in ReadArg /\ rd[c] # None
    BY <2>1, NoneAssumption DEF TypeInv, CallsInv, Inputs
  <2>3. PICK i \in Ids : i = rd[c].id
    BY <2>2 DEF ReadArg
  <2>4. Telling(c, i) /\ Finding(c, i) /\ i \in Disclosed
    BY <2>1, <2>2, <2>3 DEF TellInv, Informed, Reading, Telling
  <2>5. ASSUME reply'[c] \in Final => Ended(i),
               reply'[c] = "failed" => Marked(i),
               pc'[c] \notin {"hookFail", "notifyFail"}
        PROVE  Telling(c, i)'
    BY <1>4, <2>4, <2>5, TellingMoves
  <2>6. ASSUME pc'[c] = "done", reply'[c] # "pending" PROVE Finding(c, i)'
    BY <2>6 DEF Finding
  <2>7. loaded[c] # None => loaded[c].expires = since[i] + TTL
    BY <2>3 DEF TellInv, Lifetimes
  <2>8. CASE ResultVerdict(c)
    <3>1. CASE verdicts[i] # "none"
      <4>0. /\ pc' = [pc EXCEPT ![c] = "done"]
            /\ reply' = [reply EXCEPT ![c] = verdicts[i]]
            /\ loaded' = [loaded EXCEPT ![c] = None]
        BY <2>3, <2>8, <3>1 DEF ResultVerdict, Answer, Goto
      <4>1. pc'[c] = "done" /\ reply'[c] = verdicts[i] /\ loaded'[c] = None
        BY <4>0, Shape, CallKinds
      <4>2. verdicts[i] \in {"none", "verified", "failed"}
        BY DEF TypeInv, SharedOK
      <4>3. verdicts[i] = "verified" => store[i] = None
        BY DEF Inv, Accepted
      <4>4. (reply'[c] \in Final => Ended(i)) /\ (reply'[c] = "failed" => Marked(i))
        BY <3>1, <4>1, <4>2, <4>3 DEF Ended, Marked, Final
      <4> QED
        BY <1>5, <2>1, <2>3, <2>5, <2>6, <4>1, <4>2, <4>4
    <3>2. CASE verdicts[i] = "none"
      <4>1. pc[c] = "verdict" /\ pc'[c] = "rload" /\ reply' = reply /\ loaded' = loaded
        BY <2>3, <2>8, <3>2, Shape, CallKinds DEF ResultVerdict, Goto
      <4>2. reply[c] = ""
        BY <4>1, Shape, CallKinds
      <4>3. Marked(i) => Expired(i)
        BY <3>2 DEF Marked
      <4>4. Finding(c, i)'
        BY <1>4, <2>1, <2>4, <4>1, <4>2, <4>3 DEF Finding
      <4>5. Telling(c, i)'
        BY <2>5, <4>1, <4>2 DEF Final
      <4> QED
        BY <1>5, <2>1, <2>3, <2>7, <4>1, <4>4, <4>5
    <3> QED
      BY <3>1, <3>2
  <2>9. CASE ReadLoad(c)
    <3>1. CASE store[i] = None
      <4>0. /\ pc' = [pc EXCEPT ![c] = "done"]
            /\ reply' = [reply EXCEPT ![c] = MissReply(rd[c].kind)]
            /\ loaded' = [loaded EXCEPT ![c] = None]
        BY <2>3, <2>9, <3>1 DEF ReadLoad, Answer, Goto
      <4>1. pc'[c] = "done" /\ reply'[c] = MissReply(rd[c].kind) /\ loaded'[c] = None
        BY <4>0, Shape, CallKinds
      <4>2. MissReply(rd[c].kind) \in {"unknown", "unknown_or_consumed", "unknown request"}
        BY DEF MissReply
      <4>3. Ended(i)
        BY <3>1 DEF Ended
      <4> QED
        BY <1>5, <2>1, <2>3, <2>5, <2>6, <4>1, <4>2, <4>3
    <3>2. CASE store[i] # None
      <4>0. /\ pc' = [pc EXCEPT ![c] = "rtime"] /\ pc[c] = "rload"
            /\ loaded' = [loaded EXCEPT ![c] = store[i]] /\ reply' = reply
        BY <2>3, <2>9, <3>2 DEF ReadLoad, Goto
      <4>1. pc[c] = "rload" /\ pc'[c] = "rtime" /\ reply' = reply /\ loaded'[c] = store[i]
        BY <4>0, Shape, CallKinds
      <4>2. reply[c] = ""
        BY <4>1, Shape, CallKinds
      <4>3. Ended(i) => Expired(i)
        BY <3>2 DEF Ended
      <4>4. Finding(c, i)'
        BY <1>4, <2>1, <2>4, <4>1, <4>2, <4>3 DEF Finding
      <4>5. Telling(c, i)'
        BY <2>5, <4>1, <4>2 DEF Final
      <4>6. loaded'[c].expires = since[i] + TTL
        BY <3>2, <4>1 DEF TellInv, Lifetimes
      <4> QED
        BY <1>5, <2>1, <2>3, <4>4, <4>5, <4>6
    <3> QED
      BY <3>1, <3>2
  <2>10. CASE ReadTime(c)
    <3>1. /\ pc[c] = "rtime" /\ pc'[c] = "done" /\ loaded'[c] = None
          /\ reply'[c] = IF clock > loaded[c].expires THEN "expired" ELSE "pending"
      BY <2>10, Shape, CallKinds DEF ReadTime, Answer, Goto
    <3>2. loaded[c] # None
      BY <3>1, CallKinds, NoneAssumption DEF TypeInv, CallsInv, Progress, Holding
    <3>3. (clock > loaded[c].expires) <=> Expired(i)
      BY <2>7, <3>2 DEF Expired
    <3>4. reply'[c] \in {"expired", "pending"} /\ (reply'[c] = "expired" <=> Expired(i))
      BY <3>1, <3>3
    <3>5. Telling(c, i)'
      BY <2>5, <3>1, <3>4 DEF Ended, Final
    <3>6. Finding(c, i)'
      BY <2>1, <2>4, <3>1, <3>4 DEF Finding
    <3> QED
      BY <1>5, <2>1, <2>3, <3>1, <3>5, <3>6
  <2> QED
    BY <1>7, <2>8, <2>9, <2>10 DEF ReadStep
<1> QED
  BY <1>6, <1>7

\* Every step keeps what clients were told true.
LEMMA TellNext == TypeInv /\ TypeInv' /\ Inv /\ TellInv /\ [Next]_vars => TellInv'
<1> SUFFICES ASSUME TypeInv, TypeInv', Inv, TellInv, [Next]_vars PROVE TellInv'
  OBVIOUS
<1>1. Onward
  BY OnwardStep DEF TellInv
<1> QED
  BY <1>1, StepKinds, CreatingTells, VerifyTells, ReadTells, PassingTells DEF Serving

\* NeverPendingAgain holds in every behaviour: no client is told pending after another
\* was told that the request is over, nor on /result after a failed submission was
\* answered; for the latter a verdict must outlive its request, TTL < VerdictTTL.
THEOREM PendingIsOver == Spec => []NeverPendingAgain
<1>1. TypeInv /\ TellInv => NeverPendingAgain
  <2> SUFFICES ASSUME TypeInv, TellInv, NEW c \in Reads, reply[c] = "pending"
               PROVE  /\ told[c] \cap Final = {}
                      /\ rd[c].kind = "result" => "failed" \notin told[c]
    BY DEF NeverPendingAgain
  <2>1. pc[c] = "done"
    BY Shape, CallKinds
  <2>2. rd[c].id \in Ids
    BY <2>1 DEF TypeInv, CallsInv, Inputs, ReadArg
  <2>3. Finding(c, rd[c].id)
    BY <2>1, <2>2 DEF TellInv, Reading
  <2> QED
    BY <2>3 DEF Finding
<1> QED
  BY <1>1, TypeInit, TypeNext, InvInit, InvNext, TellInit, TellNext, PTL DEF Spec
=============================================================================
