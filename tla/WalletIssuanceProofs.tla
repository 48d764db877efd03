------------------------ MODULE WalletIssuanceProofs ------------------------
(***************************************************************************)
(* Proofs about the wallet as issuer, for any users, offers and imports,   *)
(* any lifetimes and any bound on the clock.  The inductive invariant      *)
(* follows an offer through the imports that race for it: Codes says why a *)
(* code is or is not in the store, Redeeming what an import has at each    *)
(* place of its code, Tokens whose a token is and since when, Issued what  *)
(* the credential it received says.  RefusedForCause and TracesBack say    *)
(* what is left of that once the import has been answered and the          *)
(* credential is stored, and are inductive on top of it.                   *)
(***************************************************************************)
EXTENDS WalletIssuance, TLAPS

\* A code in the store is as it was offered; an offered one that is gone was
\* taken out by an import that had got its token.
Codes ==
  \A o \in Offers :
    /\ preauth[o] # None => preauth[o] = offered[o]
    /\ offered[o] # None /\ preauth[o] = None =>
         \E j \in Imports : code[j] = o /\ access[j] # None

\* An import that is under way redeems an offer that was made, mints for the
\* record of that offer, and has an answer only at its end.
Redeeming ==
  \A i \in Imports :
    /\ pc[i] # "idle" => code[i] \in Offers /\ offered[code[i]] # None
    /\ pc[i] = "mint" => pa[i] = offered[code[i]]
    /\ reply[i] # "" => pc[i] = "done"

\* There is a token from TokenMint on; it is for the user who made the offer,
\* and once the token handler is through, the code is gone.
Tokens ==
  \A i \in Imports :
    /\ pc[i] \in {"idle", "offer", "token", "mint"} => access[i] = None
    /\ pc[i] \in {"invalidate", "credential", "save"} \/ reply[i] = "credential failed" =>
         access[i] # None
    /\ access[i] # None =>
         /\ access[i].user = offered[code[i]].user
         /\ access[i].exp - TokenTTL <= clock
    /\ TokenAnswered(i) => preauth[code[i]] = None

\* A credential that was received is the issuer's, for the token's user and
\* within the token's life.
Issued ==
  \A i \in Imports :
    /\ pc[i] = "save" => cred[i] # None
    /\ cred[i] # None =>
         /\ access[i] # None
         /\ cred[i].signed /\ cred[i].sub = access[i].user
         /\ access[i].exp - TokenTTL <= cred[i].iat
         /\ cred[i].iat <= access[i].exp

Inv == TypeOK /\ Codes /\ Redeeming /\ Tokens /\ Issued /\ RefusedForCause /\ TracesBack

-----------------------------------------------------------------------------
\* The invariant holds before anything has been offered.
LEMMA InvInit == Init => Inv
<1> SUFFICES ASSUME Init PROVE Inv
  OBVIOUS
<1>1. TypeOK
  BY TimeAssumption DEF Init, TypeOK
<1>2. Codes /\ Redeeming /\ Tokens /\ Issued
  BY DEF Init, Codes, Redeeming, Tokens, TokenAnswered, Issued
<1>3. RefusedForCause /\ TracesBack
  BY DEF Init, RefusedForCause, TracesBack
<1> QED
  BY <1>1, <1>2, <1>3 DEF Inv

\* Nothing is taken back: time goes on, an offer, a token and the code of an
\* import stay what they were, a loss stays a loss.
Onward ==
  /\ clock <= clock'
  /\ \A o \in Offers : offered[o] # None => offered'[o] = offered[o]
  /\ \A i \in Imports : access[i] # None => access'[i] = access[i]
  /\ \A i \in Imports : pc[i] # "idle" => code'[i] = code[i]
  /\ lost \subseteq lost'

\* The stores the issuer adds to are never taken from by a step of the system.
LEMMA StepsOnward ==
  ASSUME Inv, Next
  PROVE  Onward
<1> DEFINE Kept == /\ \A o \in Offers : offered[o] # None => offered'[o] = offered[o]
                   /\ \A i \in Imports : access[i] # None => access'[i] = access[i]
                   /\ \A i \in Imports : pc[i] # "idle" => code'[i] = code[i]
                   /\ lost \subseteq lost'
<1> USE DEF importVars, Goto, Answer
<1>t. /\ clock \in Nat
      /\ offered \in [Offers -> Preauth \cup {None}]
      /\ access \in [Imports -> AccessRec \cup {None}]
      /\ code \in [Imports -> Offers \cup {None}]
  BY DEF Inv, TypeOK
<1>1. CASE Tick
  <2>1. clock' = clock + 1 /\ Kept
    BY <1>1 DEF Tick
  <2> QED
    BY <1>t, <2>1 DEF Onward
<1>2. ASSUME NEW o \in Offers, HandleCreateOffer(o) PROVE Onward
  <2>1. clock' = clock /\ Kept
    BY <1>t, <1>2 DEF HandleCreateOffer
  <2> QED
    BY <1>t, <2>1 DEF Onward
<1>3. ASSUME NEW i \in Imports, StartImport(i) PROVE Onward
  <2>1. clock' = clock /\ Kept
    BY <1>t, <1>3 DEF StartImport
  <2> QED
    BY <1>t, <2>1 DEF Onward
<1>4. ASSUME NEW i \in Imports, TokenMint(i) PROVE Onward
  <2>1. access[i] = None
    BY <1>4 DEF TokenMint, Inv, Tokens
  <2>2. clock' = clock /\ Kept
    BY <1>t, <1>4, <2>1 DEF TokenMint
  <2> QED
    BY <1>t, <2>2 DEF Onward
<1>5. ASSUME NEW i \in Imports,
             \/ HandleOfferByCode(i) \/ TokenCheck(i) \/ TokenInvalidate(i)
             \/ HandleVciCredential(i) \/ SaveCredential(i) \/ ReplyLost(i)
      PROVE  Onward
  <2>1. clock' = clock /\ Kept
    BY <1>5 DEF HandleOfferByCode, TokenCheck, TokenInvalidate, HandleVciCredential, SaveCredential,
                ReplyLost
  <2> QED
    BY <1>t, <2>1 DEF Onward
<1>6. ASSUME NEW raw, HandleWalletIngest(raw) PROVE Onward
  <2>1. clock' = clock /\ Kept
    BY <1>6 DEF HandleWalletIngest
  <2> QED
    BY <1>t, <2>1 DEF Onward
<1> QED
  BY <1>1, <1>2, <1>3, <1>4, <1>5, <1>6 DEF Next, ImportStep

\* What RefusedForCause says of one import.
Excused(i) ==
  /\ reply[i] \in {"offer fetch failed", "token failed"} =>
       \/ i \in lost
       \/ clock > offered[code[i]].expires
       \/ \E j \in Imports \ {i} : SameOffer(i, j) /\ access[j] # None
  /\ reply[i] = "credential failed" => i \in lost \/ clock > access[i].exp

\* The cause of a refusal stays one as long as the import's answer does.
LEMMA CauseStays ==
  ASSUME Inv, Onward, TypeOK', NEW i \in Imports, reply'[i] = reply[i]
  PROVE  Excused(i)'
<1>1. Excused(i)
  BY DEF Inv, RefusedForCause, Excused
<1>2. CASE reply[i] \in {"offer fetch failed", "token failed"}
  <2>1. pc[i] = "done" /\ code[i] \in Offers /\ offered[code[i]] # None
    BY <1>2 DEF Inv, Redeeming
  <2>2. code'[i] = code[i] /\ offered'[code[i]] = offered[code[i]]
    BY <2>1 DEF Onward
  <2>3. offered[code[i]].expires \in Nat /\ clock \in Nat /\ clock' \in Nat
    BY <2>1 DEF Inv, TypeOK, Preauth
  <2>4. clock > offered[code[i]].expires => clock' > offered'[code'[i]].expires
    BY <2>2, <2>3 DEF Onward
  <2>5. ASSUME NEW j \in Imports \ {i}, SameOffer(i, j), access[j] # None
        PROVE  SameOffer(i, j)' /\ access'[j] # None
    BY <2>1, <2>2, <2>5 DEF Onward, SameOffer, Inv, Tokens
  <2> QED
    BY <1>1, <1>2, <2>4, <2>5 DEF Excused, Onward
<1>3. CASE reply[i] = "credential failed"
  <2>1. i \in lost \/ clock > access[i].exp
    BY <1>1, <1>3 DEF Excused
  <2>2. access'[i] = access[i] /\ access[i].exp \in Nat /\ clock \in Nat /\ clock' \in Nat
    BY <1>3 DEF Onward, Inv, Tokens, TypeOK, AccessRec
  <2>3. i \in lost' \/ clock' > access'[i].exp
    BY <2>1, <2>2 DEF Onward
  <2> QED
    BY <1>3, <2>3 DEF Excused
<1> QED
  BY <1>2, <1>3 DEF Excused

\* What TracesBack says of one stored credential.
Traced(v) ==
  v.subject # None =>
    \E i \in Imports :
      /\ access[i] # None
      /\ offered[code[i]].user = v.subject
      /\ access[i].exp - TokenTTL <= v.raw.iat
      /\ v.raw.iat <= access[i].exp

\* The offer and the token behind a stored credential stay where they are.
LEMMA TraceStays ==
  ASSUME Inv, Onward, NEW v \in vcs
  PROVE  Traced(v)'
<1> SUFFICES ASSUME v.subject # None PROVE Traced(v)'
  BY DEF Traced
<1>1. PICK i \in Imports :
        /\ access[i] # None
        /\ offered[code[i]].user = v.subject
        /\ access[i].exp - TokenTTL <= v.raw.iat
        /\ v.raw.iat <= access[i].exp
  BY DEF Inv, TracesBack
<1>2. pc[i] # "idle" /\ code[i] \in Offers /\ offered[code[i]] # None
  BY <1>1 DEF Inv, Tokens, Redeeming
<1>3. access'[i] = access[i] /\ code'[i] = code[i] /\ offered'[code[i]] = offered[code[i]]
  BY <1>1, <1>2 DEF Onward
<1> QED
  BY <1>1, <1>3 DEF Traced

\* A step that neither offers nor redeems leaves the reasons of Codes as they are.
LEMMA CodesStay ==
  ASSUME Inv, Onward, preauth' = preauth, offered' = offered
  PROVE  Codes'
<1>1. ASSUME NEW j \in Imports, access[j] # None PROVE code'[j] = code[j] /\ access'[j] # None
  BY <1>1 DEF Inv, Tokens, Onward
<1> QED
  BY <1>1 DEF Inv, Codes

-----------------------------------------------------------------------------
\* A new offer is a fresh code: nobody can have redeemed it yet.
LEMMA HandleCreateOfferKeeps ==
  ASSUME Inv, NEW o \in Offers, HandleCreateOffer(o)
  PROVE  Inv'
<1>o. Onward
  BY StepsOnward DEF Next
<1>t. TypeOK /\ clock \in Nat
  BY DEF Inv, TypeOK
<1>1. PICK u \in Users : 
        /\ preauth' = [preauth EXCEPT ![o] = [user |-> u, expires |-> clock + CodeTTL]]
        /\ offered' = [offered EXCEPT ![o] = [user |-> u, expires |-> clock + CodeTTL]]
  BY DEF HandleCreateOffer
<1> DEFINE rec == [user |-> u, expires |-> clock + CodeTTL]
<1>2. rec \in Preauth /\ rec # None
  BY <1>t, TimeAssumption, NoneAssumption DEF Preauth
<1>3. preauth' = [preauth EXCEPT ![o] = rec] /\ offered' = [offered EXCEPT ![o] = rec]
  BY <1>1
<1> HIDE DEF rec
<1>4. UNCHANGED <<clock, access, vcs, pc, code, keep, pa, cred, reply, lost>>
  BY DEF HandleCreateOffer, importVars
<1>5. TypeOK'
  BY <1>t, <1>2, <1>3, <1>4 DEF TypeOK
<1>6. Codes'
  <2> SUFFICES ASSUME NEW x \in Offers
               PROVE  /\ preauth'[x] # None => preauth'[x] = offered'[x]
                      /\ offered'[x] # None /\ preauth'[x] = None =>
                           \E j \in Imports : code[j] = x /\ access[j] # None
    BY <1>4 DEF Codes
  <2> QED
    BY <1>t, <1>2, <1>3 DEF Inv, Codes, TypeOK
<1>7. \A i \in Imports : pc[i] # "idle" => code[i] # o /\ offered'[code[i]] = offered[code[i]]
                                        /\ preauth'[code[i]] = preauth[code[i]]
  BY <1>t, <1>3 DEF Inv, Redeeming, HandleCreateOffer, TypeOK
<1>8. Redeeming' /\ Issued'
  BY <1>4, <1>7 DEF Inv, Redeeming, Issued
<1>9. Tokens'
  BY <1>4, <1>7 DEF Inv, Tokens, TokenAnswered
<1>10. RefusedForCause'
  BY <1>o, <1>4, <1>5, CauseStays DEF RefusedForCause, Excused
<1>11. TracesBack'
  BY <1>o, <1>4, TraceStays DEF TracesBack, Traced
<1> QED
  BY <1>5, <1>6, <1>8, <1>9, <1>10, <1>11 DEF Inv

\* An import that starts has an offer that was made, and nothing else yet.
LEMMA StartImportKeeps ==
  ASSUME Inv, NEW i \in Imports, StartImport(i)
  PROVE  Inv'
<1>o. Onward
  BY StepsOnward DEF Next
<1>t. TypeOK
  BY DEF Inv
<1>1. PICK o \in Offers, store \in BOOLEAN :
        /\ offered[o] # None
        /\ code' = [code EXCEPT ![i] = o]
        /\ keep' = [keep EXCEPT ![i] = store]
  BY DEF StartImport
<1>2. pc[i] = "idle" /\ pc' = [pc EXCEPT ![i] = "offer"]
  BY DEF StartImport, Goto
<1>3. UNCHANGED <<clock, offered, preauth, access, vcs, pa, cred, reply, lost>>
  BY DEF StartImport
<1>4. TypeOK'
  BY <1>t, <1>1, <1>2, <1>3 DEF TypeOK
<1>5. Codes'
  BY <1>o, <1>3, CodesStay
<1>6. access[i] = None
  BY <1>2 DEF Inv, Tokens
<1>7. Redeeming'
  BY <1>t, <1>1, <1>2, <1>3 DEF Inv, Redeeming, TypeOK
<1>8. Tokens'
  BY <1>t, <1>1, <1>2, <1>3, <1>6 DEF Inv, Tokens, TokenAnswered, TypeOK
<1>9. Issued'
  BY <1>t, <1>2, <1>3 DEF Inv, Issued, TypeOK
<1>10. RefusedForCause'
  BY <1>o, <1>3, <1>4, CauseStays DEF RefusedForCause, Excused
<1>11. TracesBack'
  BY <1>o, <1>3, TraceStays DEF TracesBack, Traced
<1> QED
  BY <1>4, <1>5, <1>7, <1>8, <1>9, <1>10, <1>11 DEF Inv

\* A code that is not live when an import without a token presents it has
\* expired, or another import has redeemed it.
LEMMA DeadForCause ==
  ASSUME Inv, NEW i \in Imports, pc[i] \in {"offer", "token"}, ~Live(preauth[code[i]])
  PROVE  \/ clock > offered[code[i]].expires
         \/ \E j \in Imports \ {i} : SameOffer(i, j) /\ access[j] # None
<1>1. code[i] \in Offers /\ offered[code[i]] # None /\ access[i] = None /\ code[i] # None
  BY NoneAssumption DEF Inv, Redeeming, Tokens
<1>2. CASE preauth[code[i]] = None
  BY <1>1, <1>2 DEF Inv, Codes, SameOffer
<1>3. CASE preauth[code[i]] # None
  <2>1. preauth[code[i]] = offered[code[i]] /\ ~(clock <= offered[code[i]].expires)
    BY <1>1, <1>3 DEF Inv, Codes, Live
  <2>2. clock \in Nat /\ offered[code[i]].expires \in Nat
    BY <1>1 DEF Inv, TypeOK, Preauth
  <2> QED
    BY <2>1, <2>2
<1> QED
  BY <1>2, <1>3

\* The offer is looked at, and an import that cannot have it has a cause.
LEMMA HandleOfferByCodeKeeps ==
  ASSUME Inv, NEW i \in Imports, HandleOfferByCode(i)
  PROVE  Inv'
<1>o. Onward
  BY StepsOnward DEF Next, ImportStep
<1>t. TypeOK
  BY DEF Inv
<1>1. pc[i] = "offer" /\ access[i] = None
  BY DEF HandleOfferByCode, Inv, Tokens
<1>2. \/ pc' = [pc EXCEPT ![i] = "token"] /\ reply' = reply
      \/ /\ ~Live(preauth[code[i]])
         /\ pc' = [pc EXCEPT ![i] = "done"] /\ reply' = [reply EXCEPT ![i] = "offer fetch failed"]
  BY DEF HandleOfferByCode, Goto, Answer
<1>3. UNCHANGED <<clock, offered, preauth, access, vcs, code, keep, pa, cred, lost>>
  BY DEF HandleOfferByCode
<1>4. TypeOK'
  BY <1>t, <1>2, <1>3 DEF TypeOK
<1>5. Codes'
  BY <1>o, <1>3, CodesStay
<1>6. Redeeming'
  BY <1>t, <1>1, <1>2, <1>3 DEF Inv, Redeeming, TypeOK
<1>7. Tokens'
  BY <1>t, <1>1, <1>2, <1>3 DEF Inv, Tokens, TokenAnswered, TypeOK
<1>8. Issued'
  BY <1>t, <1>2, <1>3 DEF Inv, Issued, TypeOK
<1>9. RefusedForCause'
  <2> SUFFICES ASSUME NEW k \in Imports PROVE Excused(k)'
    BY DEF RefusedForCause, Excused
  <2>1. CASE reply'[k] = reply[k]
    BY <1>o, <1>4, <2>1, CauseStays
  <2>2. CASE reply'[k] # reply[k]
    <3>1. k = i /\ ~Live(preauth[code[i]]) /\ reply'[i] = "offer fetch failed"
      BY <1>t, <1>2, <2>2 DEF TypeOK
    <3> QED
      BY <1>1, <1>3, <3>1, DeadForCause DEF Excused, SameOffer
  <2> QED
    BY <2>1, <2>2
<1>10. TracesBack'
  BY <1>o, <1>3, TraceStays DEF TracesBack, Traced
<1> QED
  BY <1>4, <1>5, <1>6, <1>7, <1>8, <1>9, <1>10 DEF Inv

\* The token handler reads the record of the offer, or refuses for a cause.
LEMMA TokenCheckKeeps ==
  ASSUME Inv, NEW i \in Imports, TokenCheck(i)
  PROVE  Inv'
<1>o. Onward
  BY StepsOnward DEF Next, ImportStep
<1>t. TypeOK
  BY DEF Inv
<1>1. pc[i] = "token" /\ access[i] = None /\ code[i] \in Offers
  BY DEF TokenCheck, Inv, Tokens, Redeeming
<1>2. \/ /\ preauth[code[i]] # None
         /\ pc' = [pc EXCEPT ![i] = "mint"] /\ pa' = [pa EXCEPT ![i] = preauth[code[i]]]
         /\ reply' = reply
      \/ /\ ~Live(preauth[code[i]])
         /\ pc' = [pc EXCEPT ![i] = "done"] /\ reply' = [reply EXCEPT ![i] = "token failed"]
         /\ pa' = pa
  BY DEF TokenCheck, Goto, Answer, Live
<1>3. UNCHANGED <<clock, offered, preauth, access, vcs, code, keep, cred, lost>>
  BY DEF TokenCheck
<1>4. TypeOK'
  <2>1. preauth[code[i]] \in Preauth \cup {None}
    BY <1>t, <1>1 DEF TypeOK
  <2> QED
    BY <1>t, <1>2, <1>3, <2>1 DEF TypeOK
<1>5. Codes'
  BY <1>o, <1>3, CodesStay
<1>6. Redeeming'
  <2>1. preauth[code[i]] # None => preauth[code[i]] = offered[code[i]]
    BY <1>1 DEF Inv, Codes
  <2> QED
    BY <1>t, <1>1, <1>2, <1>3, <2>1 DEF Inv, Redeeming, TypeOK
<1>7. Tokens'
  BY <1>t, <1>1, <1>2, <1>3 DEF Inv, Tokens, TokenAnswered, TypeOK
<1>8. Issued'
  BY <1>t, <1>2, <1>3 DEF Inv, Issued, TypeOK
<1>9. RefusedForCause'
  <2> SUFFICES ASSUME NEW k \in Imports PROVE Excused(k)'
    BY DEF RefusedForCause, Excused
  <2>1. CASE reply'[k] = reply[k]
    BY <1>o, <1>4, <2>1, CauseStays
  <2>2. CASE reply'[k] # reply[k]
    <3>1. k = i /\ ~Live(preauth[code[i]]) /\ reply'[i] = "token failed"
      BY <1>t, <1>2, <2>2 DEF TypeOK
    <3> QED
      BY <1>1, <1>3, <3>1, DeadForCause DEF Excused, SameOffer
  <2> QED
    BY <2>1, <2>2
<1>10. TracesBack'
  BY <1>o, <1>3, TraceStays DEF TracesBack, Traced
<1> QED
  BY <1>4, <1>5, <1>6, <1>7, <1>8, <1>9, <1>10 DEF Inv

\* The token is for the user of the record, which is that of the offer.
LEMMA TokenMintKeeps ==
  ASSUME Inv, NEW i \in Imports, TokenMint(i)
  PROVE  Inv'
<1>o. Onward
  BY StepsOnward DEF Next, ImportStep
<1>t. TypeOK /\ clock \in Nat
  BY DEF Inv, TypeOK
<1>1. /\ pc[i] = "mint" /\ access[i] = None
      /\ code[i] \in Offers /\ offered[code[i]] # None /\ pa[i] = offered[code[i]]
  BY DEF TokenMint, Inv, Tokens, Redeeming
<1> DEFINE rec == [user |-> pa[i].user, exp |-> clock + TokenTTL]
<1>2. /\ access' = [access EXCEPT ![i] = rec]
      /\ pc' = [pc EXCEPT ![i] = "invalidate"]
      /\ UNCHANGED <<clock, offered, preauth, vcs, code, keep, pa, cred, reply, lost>>
  BY DEF TokenMint, Goto
<1>3. pa[i].user \in Users
  BY <1>t, <1>1 DEF TypeOK, Preauth
<1>4. rec \in AccessRec /\ rec # None /\ rec.user = offered[code[i]].user
  BY <1>t, <1>1, <1>3, TimeAssumption, NoneAssumption DEF AccessRec
<1>5. rec.exp - TokenTTL <= clock
  BY <1>t, TimeAssumption
<1> HIDE DEF rec
<1>6. TypeOK'
  BY <1>t, <1>2, <1>4 DEF TypeOK
<1>7. Codes'
  BY <1>o, <1>2, CodesStay
<1>8. Redeeming'
  BY <1>t, <1>1, <1>2 DEF Inv, Redeeming, TypeOK
<1>9. Tokens'
  BY <1>t, <1>1, <1>2, <1>4, <1>5 DEF Inv, Tokens, Redeeming, TokenAnswered, TypeOK
<1>10. Issued'
  BY <1>t, <1>1, <1>2 DEF Inv, Issued, TypeOK
<1>11. RefusedForCause'
  BY <1>o, <1>2, <1>6, CauseStays DEF RefusedForCause, Excused
<1>12. TracesBack'
  BY <1>o, <1>2, TraceStays DEF TracesBack, Traced
<1> QED
  BY <1>6, <1>7, <1>8, <1>9, <1>10, <1>11, <1>12 DEF Inv

\* The code goes once its token is there.
LEMMA TokenInvalidateKeeps ==
  ASSUME Inv, NEW i \in Imports, TokenInvalidate(i)
  PROVE  Inv'
<1>o. Onward
  BY StepsOnward DEF Next, ImportStep
<1>t. TypeOK
  BY DEF Inv
<1>1. pc[i] = "invalidate" /\ access[i] # None /\ code[i] \in Offers
  BY DEF TokenInvalidate, Inv, Tokens, Redeeming
<1>2. /\ preauth' = [preauth EXCEPT ![code[i]] = None]
      /\ pc' = [pc EXCEPT ![i] = "credential"]
      /\ UNCHANGED <<clock, offered, access, vcs, code, keep, pa, cred, reply, lost>>
  BY DEF TokenInvalidate, Goto
<1>3. TypeOK'
  BY <1>t, <1>2 DEF TypeOK
<1>4. Codes'
  <2> SUFFICES ASSUME NEW o \in Offers
               PROVE  /\ preauth'[o] # None => preauth'[o] = offered[o]
                      /\ offered[o] # None /\ preauth'[o] = None =>
                           \E j \in Imports : code[j] = o /\ access[j] # None
    BY <1>2 DEF Codes
  <2>1. CASE o = code[i]
    BY <1>t, <1>1, <1>2, <2>1 DEF TypeOK
  <2>2. CASE o # code[i]
    BY <1>t, <1>2, <2>2 DEF Inv, Codes, TypeOK
  <2> QED
    BY <2>1, <2>2
<1>5. Redeeming'
  BY <1>t, <1>1, <1>2 DEF Inv, Redeeming, TypeOK
<1>6. Tokens'
  <2>1. \A k \in Imports : TokenAnswered(k)' => preauth'[code[k]] = None
    <3> SUFFICES ASSUME NEW k \in Imports, TokenAnswered(k)' PROVE preauth'[code[k]] = None
      OBVIOUS
    <3>1. code[k] \in Offers
      BY <1>1, <1>2 DEF Inv, Tokens, Redeeming, TokenAnswered
    <3>2. CASE code[k] = code[i]
      BY <1>t, <1>2, <3>1, <3>2 DEF TypeOK
    <3>3. CASE code[k] # code[i]
      <4>1. TokenAnswered(k)
        BY <1>t, <1>2, <3>3 DEF TokenAnswered, TypeOK
      <4> QED
        BY <1>t, <1>2, <3>1, <3>3, <4>1 DEF Inv, Tokens, TypeOK
    <3> QED
      BY <3>2, <3>3
  <2> QED
    BY <1>t, <1>1, <1>2, <2>1 DEF Inv, Tokens, TypeOK
<1>7. Issued'
  BY <1>t, <1>2 DEF Inv, Issued, TypeOK
<1>8. RefusedForCause'
  BY <1>o, <1>2, <1>3, CauseStays DEF RefusedForCause, Excused
<1>9. TracesBack'
  BY <1>o, <1>2, TraceStays DEF TracesBack, Traced
<1> QED
  BY <1>3, <1>4, <1>5, <1>6, <1>7, <1>8, <1>9 DEF Inv

\* A credential is made within the life of the token, for its user.
LEMMA HandleVciCredentialKeeps ==
  ASSUME Inv, NEW i \in Imports, HandleVciCredential(i)
  PROVE  Inv'
<1>o. Onward
  BY StepsOnward DEF Next, ImportStep
<1>t. TypeOK /\ clock \in Nat
  BY DEF Inv, TypeOK
<1>1. pc[i] = "credential" /\ access[i] # None
  BY DEF HandleVciCredential, Inv, Tokens
<1>2. access[i].user \in Users /\ access[i].exp \in Nat /\ access[i].exp - TokenTTL <= clock
  BY <1>t, <1>1 DEF Inv, Tokens, TypeOK, AccessRec
<1> DEFINE vc == [sub |-> access[i].user, iat |-> clock, signed |-> TRUE]
<1>3. \/ /\ clock <= access[i].exp
         /\ cred' = [cred EXCEPT ![i] = vc]
         /\ pc' = [pc EXCEPT ![i] = "save"] /\ reply' = reply
      \/ /\ ~(clock <= access[i].exp)
         /\ cred' = cred
         /\ pc' = [pc EXCEPT ![i] = "done"] /\ reply' = [reply EXCEPT ![i] = "credential failed"]
  BY <1>1 DEF HandleVciCredential, Goto, Answer
<1>4. UNCHANGED <<clock, offered, preauth, access, vcs, code, keep, pa, lost>>
  BY DEF HandleVciCredential
<1>5. /\ vc \in Credential /\ vc # None
      /\ vc.signed /\ vc.sub = access[i].user /\ vc.iat = clock
  <2>1. vc.signed /\ vc.sub = access[i].user /\ vc.iat = clock
    OBVIOUS
  <2>2. vc \in Credential
    BY <1>t, <1>2 DEF Credential
  <2> QED
    BY <2>1, <2>2, NoneAssumption
<1> HIDE DEF vc
<1>6. TypeOK'
  BY <1>t, <1>3, <1>4, <1>5 DEF TypeOK
<1>7. Codes'
  BY <1>o, <1>4, CodesStay
<1>8. Redeeming'
  BY <1>t, <1>1, <1>3, <1>4 DEF Inv, Redeeming, TypeOK
<1>9. Tokens'
  BY <1>t, <1>1, <1>3, <1>4 DEF Inv, Tokens, TokenAnswered, TypeOK
<1>10. Issued'
  <2> SUFFICES ASSUME NEW k \in Imports
               PROVE  /\ pc'[k] = "save" => cred'[k] # None
                      /\ cred'[k] # None =>
                           /\ access[k] # None
                           /\ cred'[k].signed /\ cred'[k].sub = access[k].user
                           /\ access[k].exp - TokenTTL <= cred'[k].iat
                           /\ cred'[k].iat <= access[k].exp
    BY <1>4 DEF Issued
  <2>1. CASE cred'[k] = cred[k]
    BY <1>t, <1>3, <1>5, <2>1 DEF Inv, Issued, TypeOK
  <2>2. CASE cred'[k] # cred[k]
    <3>1. k = i /\ cred'[i] = vc /\ clock <= access[i].exp
      BY <1>t, <1>3, <2>2 DEF TypeOK
    <3> QED
      BY <1>1, <1>2, <1>5, <3>1
  <2> QED
    BY <2>1, <2>2
<1>11. RefusedForCause'
  <2> SUFFICES ASSUME NEW k \in Imports PROVE Excused(k)'
    BY DEF RefusedForCause, Excused
  <2>1. CASE reply'[k] = reply[k]
    BY <1>o, <1>6, <2>1, CauseStays
  <2>2. CASE reply'[k] # reply[k]
    <3>1. k = i /\ ~(clock <= access[i].exp) /\ reply'[i] = "credential failed"
      BY <1>t, <1>3, <2>2 DEF TypeOK
    <3>2. clock > access[i].exp
      <4>1. clock \in Nat /\ access[i].exp \in Nat /\ ~(clock <= access[i].exp)
        BY <1>t, <1>2, <3>1
      <4> QED
        BY <4>1
    <3> QED
      BY <1>4, <3>1, <3>2 DEF Excused
  <2> QED
    BY <2>1, <2>2
<1>12. TracesBack'
  BY <1>o, <1>4, TraceStays DEF TracesBack, Traced
<1> QED
  BY <1>6, <1>7, <1>8, <1>9, <1>10, <1>11, <1>12 DEF Inv

\* A lost reply is a cause, whatever its handler had done.
LEMMA ReplyLostKeeps ==
  ASSUME Inv, NEW i \in Imports, ReplyLost(i)
  PROVE  Inv'
<1>o. Onward
  BY StepsOnward DEF Next
<1>t. TypeOK
  BY DEF Inv
<1>1. pc[i] \in {"token", "credential", "save"}
  BY DEF ReplyLost, FailureAt
<1>2. PICK r \in {"offer fetch failed", "token failed", "credential failed"} :
        /\ reply' = [reply EXCEPT ![i] = r]
        /\ r = "credential failed" => pc[i] = "save"
  <2>1. reply' = [reply EXCEPT ![i] = FailureAt[pc[i]]]
    BY DEF ReplyLost, Answer
  <2>2. /\ FailureAt["token"] = "offer fetch failed"
        /\ FailureAt["credential"] = "token failed"
        /\ FailureAt["save"] = "credential failed"
    BY DEF FailureAt
  <2> QED
    BY <1>1, <2>1, <2>2
<1>3. /\ lost' = lost \cup {i}
      /\ pc' = [pc EXCEPT ![i] = "done"]
      /\ cred' = [cred EXCEPT ![i] = None]
      /\ UNCHANGED <<clock, offered, preauth, access, vcs, code, keep, pa>>
  BY DEF ReplyLost, Answer, Goto
<1>4. TypeOK'
  BY <1>t, <1>2, <1>3 DEF TypeOK
<1>5. Codes'
  BY <1>o, <1>3, CodesStay
<1>6. Redeeming'
  BY <1>t, <1>1, <1>2, <1>3 DEF Inv, Redeeming, TypeOK
<1>7. Tokens'
  BY <1>t, <1>1, <1>2, <1>3 DEF Inv, Tokens, TokenAnswered, TypeOK
<1>8. Issued'
  BY <1>t, <1>3 DEF Inv, Issued, TypeOK
<1>9. RefusedForCause'
  <2> SUFFICES ASSUME NEW k \in Imports PROVE Excused(k)'
    BY DEF RefusedForCause, Excused
  <2>1. CASE k = i
    BY <1>3, <2>1 DEF Excused
  <2>2. CASE k # i
    BY <1>o, <1>t, <1>2, <1>4, <2>2, CauseStays DEF TypeOK
  <2> QED
    BY <2>1, <2>2
<1>10. TracesBack'
  BY <1>o, <1>3, TraceStays DEF TracesBack, Traced
<1> QED
  BY <1>4, <1>5, <1>6, <1>7, <1>8, <1>9, <1>10 DEF Inv

\* What is stored traces back if it was received by an import or is not signed.
LEMMA SavedTracesBack ==
  ASSUME Inv, Onward, NEW raw \in Credential,
         raw.signed => \E i \in Imports : cred[i] = raw,
         vcs' \in {vcs, Saved(raw)}
  PROVE  vcs' \subseteq VC /\ TracesBack'
<1> DEFINE new == [raw |-> raw, subject |-> Subject(raw)]
<1>1. new \in VC /\ new.raw = raw /\ new.subject = Subject(raw)
  BY DEF VC, Credential, Subject
<1>2. vcs' \subseteq vcs \cup {new}
  BY DEF Saved
<1> HIDE DEF new
<1>3. ASSUME new.subject # None PROVE Traced(new)'
  <2>1. raw.signed /\ new.subject = raw.sub
    BY <1>1, <1>3 DEF Subject
  <2>2. PICK i \in Imports : cred[i] = raw
    BY <2>1
  <2>3. raw # None
    BY NoneAssumption
  <2>4. /\ access[i] # None
        /\ raw.sub = access[i].user
        /\ access[i].exp - TokenTTL <= raw.iat
        /\ raw.iat <= access[i].exp
    BY <2>2, <2>3 DEF Inv, Issued
  <2>5. /\ access[i].user = offered[code[i]].user
        /\ pc[i] # "idle" /\ code[i] \in Offers /\ offered[code[i]] # None
    BY <2>4 DEF Inv, Tokens, Redeeming
  <2>6. access'[i] = access[i] /\ code'[i] = code[i] /\ offered'[code[i]] = offered[code[i]]
    BY <2>4, <2>5 DEF Onward
  <2> QED
    BY <1>1, <2>1, <2>4, <2>5, <2>6 DEF Traced
<1>4. \A v \in vcs' : Traced(v)'
  BY <1>2, <1>3, TraceStays DEF Traced
<1>5. vcs' \subseteq VC
  BY <1>1, <1>2 DEF Inv, TypeOK
<1> QED
  BY <1>4, <1>5 DEF TracesBack, Traced

\* The import stores what it received.
LEMMA SaveCredentialKeeps ==
  ASSUME Inv, NEW i \in Imports, SaveCredential(i)
  PROVE  Inv'
<1>o. Onward
  BY StepsOnward DEF Next, ImportStep
<1>t. TypeOK
  BY DEF Inv
<1>1. pc[i] = "save" /\ cred[i] \in Credential
  BY <1>t DEF SaveCredential, Inv, Issued, TypeOK
<1>2. PICK r \in {"stored", "shown"} : reply' = [reply EXCEPT ![i] = r]
  BY DEF SaveCredential, Answer
<1>3. /\ pc' = [pc EXCEPT ![i] = "done"]
      /\ vcs' \in {vcs, Saved(cred[i])}
      /\ UNCHANGED <<clock, offered, preauth, access, code, keep, pa, cred, lost>>
  BY DEF SaveCredential, Answer, Goto
<1>4. vcs' \subseteq VC /\ TracesBack'
  BY <1>o, <1>1, <1>3, SavedTracesBack
<1>5. TypeOK'
  BY <1>t, <1>2, <1>3, <1>4 DEF TypeOK
<1>6. Codes'
  BY <1>o, <1>3, CodesStay
<1>7. Redeeming'
  BY <1>t, <1>1, <1>2, <1>3 DEF Inv, Redeeming, TypeOK
<1>8. Tokens'
  BY <1>t, <1>1, <1>2, <1>3 DEF Inv, Tokens, TokenAnswered, TypeOK
<1>9. Issued'
  BY <1>t, <1>3 DEF Inv, Issued, TypeOK
<1>10. RefusedForCause'
  <2> SUFFICES ASSUME NEW k \in Imports PROVE Excused(k)'
    BY DEF RefusedForCause, Excused
  <2>1. CASE k = i
    BY <1>t, <1>2, <2>1 DEF Excused, TypeOK
  <2>2. CASE k # i
    BY <1>o, <1>t, <1>2, <1>5, <2>2, CauseStays DEF TypeOK
  <2> QED
    BY <2>1, <2>2
<1> QED
  BY <1>4, <1>5, <1>6, <1>7, <1>8, <1>9, <1>10 DEF Inv

\* Ingesting changes nothing but the store: what it adds was issued to some
\* import or is not signed and has no subject.
LEMMA HandleWalletIngestKeeps ==
  ASSUME Inv, NEW raw \in Held \cup Unsigned, HandleWalletIngest(raw)
  PROVE  Inv'
<1>o. Onward
  BY StepsOnward DEF Next
<1>t. TypeOK
  BY DEF Inv
<1>1. vcs' = Saved(raw)
      /\ UNCHANGED <<clock, offered, preauth, access, pc, code, keep, pa, cred, reply, lost>>
  BY DEF HandleWalletIngest, importVars
<1>2. raw \in Credential /\ (raw.signed => \E i \in Imports : cred[i] = raw)
  <2>1. CASE raw \in Held
    <3>1. PICK i \in Imports : raw = cred[i] /\ raw # None
      BY <2>1 DEF Held
    <3> QED
      BY <1>t, <3>1 DEF TypeOK
  <2>2. CASE raw \in Unsigned
    <3>1. PICK u \in Claimed : raw = [sub |-> u, iat |-> 0, signed |-> FALSE]
      BY <2>2 DEF Unsigned
    <3>2. raw \in Credential
      BY <3>1, ClaimedAssumption DEF Credential
    <3> QED
      BY <3>1, <3>2
  <2> QED
    BY <2>1, <2>2
<1>3. vcs' \subseteq VC /\ TracesBack'
  BY <1>o, <1>1, <1>2, SavedTracesBack
<1>4. TypeOK'
  BY <1>t, <1>1, <1>3 DEF TypeOK
<1>5. Codes'
  BY <1>o, <1>1, CodesStay
<1>6. Redeeming' /\ Tokens' /\ Issued'
  BY <1>1 DEF Inv, Redeeming, Tokens, TokenAnswered, Issued
<1>7. RefusedForCause'
  BY <1>o, <1>1, <1>4, CauseStays DEF RefusedForCause, Excused
<1> QED
  BY <1>3, <1>4, <1>5, <1>6, <1>7 DEF Inv

\* Time may make a cause, never unmake one.
LEMMA TickKeeps ==
  ASSUME Inv, Tick
  PROVE  Inv'
<1>o. Onward
  BY StepsOnward DEF Next
<1>t. TypeOK /\ clock \in Nat
  BY DEF Inv, TypeOK
<1>1. /\ clock' = clock + 1
      /\ UNCHANGED <<offered, preauth, access, vcs, pc, code, keep, pa, cred, reply, lost>>
  BY DEF Tick, importVars
<1>2. clock' \in Nat
  BY <1>t, <1>1
<1>3. TypeOK'
  BY <1>t, <1>1, <1>2 DEF TypeOK
<1>4. Codes'
  BY <1>o, <1>1, CodesStay
<1>5. Redeeming' /\ Issued'
  BY <1>1 DEF Inv, Redeeming, Issued
<1>6. Tokens'
  <2>1. ASSUME NEW i \in Imports, access[i] # None PROVE access[i].exp - TokenTTL <= clock'
    <3>1. access[i].exp - TokenTTL <= clock
      BY <2>1 DEF Inv, Tokens
    <3>2. access[i].exp \in Nat
      BY <1>t, <2>1 DEF TypeOK, AccessRec
    <3> QED
      BY <1>t, <1>1, <3>1, <3>2, TimeAssumption
  <2> QED
    BY <1>1, <2>1 DEF Inv, Tokens, TokenAnswered
<1>7. RefusedForCause'
  BY <1>o, <1>1, <1>3, CauseStays DEF RefusedForCause, Excused
<1>8. TracesBack'
  BY <1>o, <1>1, TraceStays DEF TracesBack, Traced
<1> QED
  BY <1>3, <1>4, <1>5, <1>6, <1>7, <1>8 DEF Inv

\* Every step of the wallet server keeps the invariant.
LEMMA InvStep == Inv /\ [Next]_vars => Inv'
<1> SUFFICES ASSUME Inv, [Next]_vars PROVE Inv'
  OBVIOUS
<1>1. CASE Next
  <2>1. ASSUME NEW i \in Imports, ImportStep(i) PROVE Inv'
    BY <2>1, HandleOfferByCodeKeeps, TokenCheckKeeps, TokenMintKeeps, TokenInvalidateKeeps,
       HandleVciCredentialKeeps, SaveCredentialKeeps DEF ImportStep
  <2>2. ASSUME NEW i \in Imports, StartImport(i) \/ ReplyLost(i) PROVE Inv'
    BY <2>2, StartImportKeeps, ReplyLostKeeps
  <2>3. ASSUME NEW o \in Offers, HandleCreateOffer(o) PROVE Inv'
    BY <2>3, HandleCreateOfferKeeps
  <2>4. ASSUME NEW raw \in Held \cup Unsigned, HandleWalletIngest(raw) PROVE Inv'
    BY <2>4, HandleWalletIngestKeeps
  <2> QED
    BY <1>1, <2>1, <2>2, <2>3, <2>4, TickKeeps DEF Next
<1>2. CASE UNCHANGED vars
  <2> USE <1>2 DEF vars, importVars, Inv
  <2>1. TypeOK' /\ Codes'
    BY DEF TypeOK, Codes
  <2>2. Redeeming' /\ Issued'
    BY DEF Redeeming, Issued
  <2>3. Tokens'
    BY DEF Tokens, TokenAnswered
  <2>4. RefusedForCause'
    BY DEF RefusedForCause, SameOffer
  <2>5. TracesBack'
    BY DEF TracesBack
  <2> QED
    BY <2>1, <2>2, <2>3, <2>4, <2>5
<1> QED
  BY <1>1, <1>2

-----------------------------------------------------------------------------
\* The invariant holds throughout.
LEMMA Invariance == Spec => []Inv
BY InvInit, InvStep, PTL DEF Spec

\* The stores and the imports keep their kinds; a code in the store is as it
\* was offered, and every token is for the user who made the offer.
THEOREM IssuanceTypeCorrect == Spec => [](TypeOK /\ Codes /\ Tokens)
<1>1. Inv => TypeOK /\ Codes /\ Tokens
  BY DEF Inv
<1> QED
  BY <1>1, Invariance, PTL

\* An import is turned away only because a reply was lost, the code or its
\* token has expired, or another import of the same offer got a token
\* (oidc4vci handlers): imports of other offers are never in its way.
THEOREM RefusalsHaveCause == Spec => []RefusedForCause
<1>1. Inv => RefusedForCause
  BY DEF Inv
<1> QED
  BY <1>1, Invariance, PTL

\* Every credential indexed under a subject (VCStore.Save) was issued for an
\* offer that this user made, within the life of a token for it.
THEOREM IndexedTracesBack == Spec => []TracesBack
<1>1. Inv => TracesBack
  BY DEF Inv
<1> QED
  BY <1>1, Invariance, PTL

\* No token request that starts after another one for the same code has been
\* answered gets a token: HandleVciToken deletes the code before it answers.
THEOREM SpentCodesRefused == Spec => SpentCodeRefused
<1> DEFINE Refuses == \A i, j \in Imports :
                        SameOffer(i, j) /\ TokenAnswered(j) /\ pc[i] = "token" => pc'[i] # "mint"
<1>1. Inv /\ [Next]_vars => [Refuses]_vars
  <2> SUFFICES ASSUME Inv, Next, NEW i \in Imports, NEW j \in Imports,
                      SameOffer(i, j), TokenAnswered(j), pc[i] = "token", pc'[i] = "mint"
               PROVE  FALSE
    BY DEF Refuses
  <2>t. pc \in [Imports -> {"idle", "offer", "token", "mint", "invalidate", "credential",
                            "save", "done"}]
    BY DEF Inv, TypeOK
  <2>1. preauth[code[i]] = None
    BY DEF Inv, Tokens, SameOffer
  <2>2. ~TokenCheck(i)
    BY <2>t, <2>1 DEF TokenCheck, Live, Answer, Goto
  <2>3. ASSUME NEW k \in Imports, TokenCheck(k) PROVE k = i
    BY <2>t, <2>3 DEF TokenCheck, Answer, Goto
  <2>4. ASSUME NEW k \in Imports,
               \/ StartImport(k) \/ HandleOfferByCode(k) \/ TokenMint(k) \/ TokenInvalidate(k)
               \/ HandleVciCredential(k) \/ SaveCredential(k) \/ ReplyLost(k)
        PROVE  FALSE
    BY <2>t, <2>4 DEF StartImport, HandleOfferByCode, TokenMint, TokenInvalidate,
                      HandleVciCredential, SaveCredential, ReplyLost, Answer, Goto
  <2>5. \/ Tick \/ \E o \in Offers : HandleCreateOffer(o)
        \/ \E raw \in Held \cup Unsigned : HandleWalletIngest(raw)
    BY <2>2, <2>3, <2>4 DEF Next, ImportStep
  <2> QED
    BY <2>5 DEF Tick, HandleCreateOffer, HandleWalletIngest, importVars
<1> QED
  BY <1>1, Invariance, PTL DEF Spec, SpentCodeRefused

=============================================================================
