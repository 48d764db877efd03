--------------------------- MODULE WalletIssuance ---------------------------
(***************************************************************************)
(* The wallet server (system/zk-wallet-go) as OIDC4VCI issuer and as       *)
(* wallet.  A logged-in user makes a credential offer; whoever holds the   *)
(* offer's code exchanges it for an access token and the token for a       *)
(* credential, which the wallet stores.  Codes, tokens and credentials are *)
(* kept in maps, each under a mutex of its own that is never held across   *)
(* two accesses.                                                           *)
(*                                                                         *)
(* An import is one call of /wallet/import-offer, or of /wallet/ingest     *)
(* with an offer.  It makes three HTTP requests to the issuer, whose       *)
(* handlers are goroutines that run beside those of every other import;    *)
(* a request's reply may be lost after its handler has done its work.      *)
(* Codes and tokens are random strings, so a code is named by the call     *)
(* that made the offer and a token by the import it was minted for.        *)
(***************************************************************************)
EXTENDS Integers

CONSTANTS
  Users,     \* subjects of login sessions
  Claimed,   \* subjects named by credentials that some other party signed
  Offers,    \* calls of POST /oidc4vci/offer by a logged-in user
  Imports,   \* calls that redeem an offer
  CodeTTL,   \* lifetime of a pre-authorized code (300 s)
  TokenTTL,  \* lifetime of an access token (300 s)
  MaxTime,   \* bound on the clock
  None       \* absence of a value

\* Compact JWSs.  The claims are the user and the second of issue, and EdDSA is
\* deterministic, so claims and signature are all there is to tell apart.
Credential == [sub : Users, iat : Nat, signed : BOOLEAN]
Preauth == [user : Users, expires : Nat]
AccessRec == [user : Users, exp : Nat]
\* A stored credential is keyed by the hash of its JWS, so the store is a set;
\* the subject is indexed only if the signature is ours.
VC == [raw : Credential, subject : Users \cup {None}]

ASSUME TimeAssumption == CodeTTL \in Nat /\ TokenTTL \in Nat /\ MaxTime \in Nat
ASSUME ClaimedAssumption == Claimed \subseteq Users
ASSUME NoneAssumption ==
  /\ None \notin Users
  /\ None \notin Offers
  /\ None \notin Preauth
  /\ None \notin AccessRec
  /\ None \notin Credential

VARIABLES
  clock,     \* time.Now().Unix()
  offered,   \* the reply of an offer call: user and expiry of its code
  preauth,   \* config.PreAuthStore
  access,    \* config.AccessStore
  vcs,       \* InMemoryVCStore.m
  pc,        \* where each import stands, in its own code or in an issuer handler
  code,      \* the code an import redeems
  keep,      \* its store flag
  pa,        \* the record the token handler has read
  cred,      \* the credential it received
  reply,     \* what an import was answered, "" while it is not
  lost       \* the imports that lost a reply

importVars == <<pc, code, keep, pa, cred, reply, lost>>
vars == <<clock, offered, preauth, access, vcs, importVars>>

Init ==
  /\ clock = 0
  /\ offered = [o \in Offers |-> None]
  /\ preauth = [o \in Offers |-> None]
  /\ access = [i \in Imports |-> None]
  /\ vcs = {}
  /\ pc = [i \in Imports |-> "idle"]
  /\ code = [i \in Imports |-> None]
  /\ keep = [i \in Imports |-> TRUE]
  /\ pa = [i \in Imports |-> None]
  /\ cred = [i \in Imports |-> None]
  /\ reply = [i \in Imports |-> ""]
  /\ lost = {}

Goto(i, label) == pc' = [pc EXCEPT ![i] = label]
Answer(i, r) == Goto(i, "done") /\ reply' = [reply EXCEPT ![i] = r]

-----------------------------------------------------------------------------

\* HandleCreateOffer, for the user of the current session.
HandleCreateOffer(o) ==
  /\ offered[o] = None
  /\ \E u \in Users :
       LET rec == [user |-> u, expires |-> clock + CodeTTL] IN
       /\ preauth' = [preauth EXCEPT ![o] = rec]
       /\ offered' = [offered EXCEPT ![o] = rec]
  /\ UNCHANGED <<clock, access, vcs, importVars>>

\* An import is given the offer; only /wallet/ingest has a store flag.
StartImport(i) ==
  /\ pc[i] = "idle"
  /\ \E o \in {x \in Offers : offered[x] # None}, store \in BOOLEAN :
       /\ code' = [code EXCEPT ![i] = o]
       /\ keep' = [keep EXCEPT ![i] = store]
  /\ Goto(i, "offer")
  /\ UNCHANGED <<clock, offered, preauth, access, vcs, pa, cred, reply, lost>>

\* NowUTC().After(ExpiresAt) is false.
Live(rec) == rec # None /\ clock <= rec.expires

\* Mutant: looking at the offer uses it up.
HandleOfferByCodeConsumes(i) ==
  /\ pc[i] = "offer"
  /\ IF Live(preauth[code[i]]) THEN Goto(i, "token") /\ UNCHANGED reply
     ELSE Answer(i, "offer fetch failed")
  /\ preauth' = [preauth EXCEPT ![code[i]] = None]
  /\ UNCHANGED <<clock, offered, access, vcs, code, keep, pa, cred, lost>>

\* GET offer: HandleOfferByCode.
HandleOfferByCode(i) ==
  /\ pc[i] = "offer"
  /\ IF Live(preauth[code[i]]) THEN Goto(i, "token") /\ UNCHANGED reply
     ELSE Answer(i, "offer fetch failed")
  /\ UNCHANGED <<clock, offered, preauth, access, vcs, code, keep, pa, cred, lost>>

-----------------------------------------------------------------------------
(***************************************************************************)
(* HandleVciToken: check the code under RLock, mint the token under the    *)
(* token store's Lock, delete the code under Lock.                         *)
(***************************************************************************)
TokenCheck(i) ==
  LET rec == preauth[code[i]] IN
  /\ pc[i] = "token"
  /\ IF Live(rec)
     THEN Goto(i, "mint") /\ pa' = [pa EXCEPT ![i] = rec] /\ UNCHANGED reply
     ELSE Answer(i, "token failed") /\ UNCHANGED pa
  /\ UNCHANGED <<clock, offered, preauth, access, vcs, code, keep, cred, lost>>

\* Mutant: the token handlers of one code wait for each other.
TokenMintExclusive(i) ==
  /\ pc[i] = "mint"
  /\ \A j \in Imports \ {i} : code[j] = code[i] => pc[j] # "mint"
  /\ access' = [access EXCEPT ![i] = [user |-> pa[i].user, exp |-> clock + TokenTTL]]
  /\ Goto(i, "invalidate")
  /\ UNCHANGED <<clock, offered, preauth, vcs, code, keep, pa, cred, reply, lost>>

TokenMint(i) ==
  /\ pc[i] = "mint"
  /\ access' = [access EXCEPT ![i] = [user |-> pa[i].user, exp |-> clock + TokenTTL]]
  /\ Goto(i, "invalidate")
  /\ UNCHANGED <<clock, offered, preauth, vcs, code, keep, pa, cred, reply, lost>>

\* Mutant: the code is left in the store.
TokenInvalidateForgotten(i) ==
  /\ pc[i] = "invalidate"
  /\ Goto(i, "credential")
  /\ UNCHANGED <<clock, offered, preauth, access, vcs, code, keep, pa, cred, reply, lost>>

TokenInvalidate(i) ==
  /\ pc[i] = "invalidate"
  /\ preauth' = [preauth EXCEPT ![code[i]] = None]
  /\ Goto(i, "credential")
  /\ UNCHANGED <<clock, offered, access, vcs, code, keep, pa, cred, reply, lost>>

\* Mutant: the expiry of the token is not looked at.
HandleVciCredentialUndated(i) ==
  /\ pc[i] = "credential"
  /\ access[i] # None
  /\ cred' = [cred EXCEPT ![i] = [sub |-> access[i].user, iat |-> clock, signed |-> TRUE]]
  /\ Goto(i, "save")
  /\ UNCHANGED <<clock, offered, preauth, access, vcs, code, keep, pa, reply, lost>>

\* HandleVciCredential: a live token yields a signed credential for its user.
HandleVciCredential(i) ==
  LET rec == access[i] IN
  /\ pc[i] = "credential"
  /\ IF rec # None /\ clock <= rec.exp
     THEN /\ cred' = [cred EXCEPT ![i] = [sub |-> rec.user, iat |-> clock, signed |-> TRUE]]
          /\ Goto(i, "save")
          /\ UNCHANGED reply
     ELSE Answer(i, "credential failed") /\ UNCHANGED cred
  /\ UNCHANGED <<clock, offered, preauth, access, vcs, code, keep, pa, lost>>

\* What an import answers if it misses the reply it is waiting for.
FailureAt == [token |-> "offer fetch failed", credential |-> "token failed",
              save |-> "credential failed"]

\* The handler has done its work and the import never learns of it: the
\* HTTP helper returns an error.
ReplyLost(i) ==
  /\ pc[i] \in DOMAIN FailureAt
  /\ lost' = lost \cup {i}
  /\ Answer(i, FailureAt[pc[i]])
  /\ cred' = [cred EXCEPT ![i] = None]
  /\ UNCHANGED <<clock, offered, preauth, access, vcs, code, keep, pa>>

-----------------------------------------------------------------------------
\* The subject the wallet indexes: that of a verified payload, else none.
Subject(raw) == IF raw.signed THEN raw.sub ELSE None

\* VCStore.Save.
Saved(raw) == vcs \cup {[raw |-> raw, subject |-> Subject(raw)]}

\* The import verifies and stores what it received.
SaveCredential(i) ==
  /\ pc[i] = "save"
  /\ vcs' = IF keep[i] THEN Saved(cred[i]) ELSE vcs
  /\ Answer(i, IF keep[i] THEN "stored" ELSE "shown")
  /\ UNCHANGED <<clock, offered, preauth, access, code, keep, pa, cred, lost>>

\* HandleWalletIngest with a credential: one that was issued, or one that
\* the issuer never signed, is stored either way (store = false changes
\* nothing).
HandleWalletIngest(raw) ==
  /\ vcs' = Saved(raw)
  /\ UNCHANGED <<clock, offered, preauth, access, importVars>>

Held == {cred[i] : i \in Imports} \ {None}
Unsigned == [sub : Claimed, iat : {0}, signed : {FALSE}]

-----------------------------------------------------------------------------
Tick ==
  /\ clock < MaxTime
  /\ clock' = clock + 1
  /\ UNCHANGED <<offered, preauth, access, vcs, importVars>>

ImportStep(i) ==
  \/ HandleOfferByCode(i) \/ TokenCheck(i) \/ TokenMint(i) \/ TokenInvalidate(i)
  \/ HandleVciCredential(i) \/ SaveCredential(i)

Next ==
  \/ Tick
  \/ \E o \in Offers : HandleCreateOffer(o)
  \/ \E i \in Imports : StartImport(i) \/ ImportStep(i) \/ ReplyLost(i)
  \/ \E raw \in Held \cup Unsigned : HandleWalletIngest(raw)

Spec == Init /\ [][Next]_vars

\* Every handler goroutine that can run does.
FairSpec == Spec /\ \A i \in Imports : WF_vars(ImportStep(i))

-----------------------------------------------------------------------------
\* Every variable holds a value of its kind.
TypeOK ==
  /\ clock \in Nat
  /\ offered \in [Offers -> Preauth \cup {None}]
  /\ preauth \in [Offers -> Preauth \cup {None}]
  /\ access \in [Imports -> AccessRec \cup {None}]
  /\ vcs \subseteq VC
  /\ pc \in [Imports -> {"idle", "offer", "token", "mint", "invalidate", "credential",
                        "save", "done"}]
  /\ code \in [Imports -> Offers \cup {None}]
  /\ keep \in [Imports -> BOOLEAN]
  /\ pa \in [Imports -> Preauth \cup {None}]
  /\ cred \in [Imports -> Credential \cup {None}]
  /\ reply \in [Imports -> {"", "offer fetch failed", "token failed", "credential failed",
                           "stored", "shown"}]
  /\ lost \subseteq Imports

SameOffer(i, j) == code[i] # None /\ code[j] = code[i]

\* An import is turned away only for a cause: it lost a reply, the code or
\* the token it redeems has expired, or another import got a token for the
\* same code.  Imports of other offers never get in its way.
RefusedForCause ==
  \A i \in Imports :
    /\ reply[i] \in {"offer fetch failed", "token failed"} =>
         \/ i \in lost
         \/ clock > offered[code[i]].expires
         \/ \E j \in Imports \ {i} : SameOffer(i, j) /\ access[j] # None
    /\ reply[i] = "credential failed" => i \in lost \/ clock > access[i].exp

\* Every credential the wallet indexes under a subject traces back to an offer
\* which that user made, through a token that was live when it was issued -
\* whatever is ingested, and however many imports run at once.
TracesBack ==
  \A v \in vcs :
    v.subject # None =>
      \E i \in Imports :
        /\ access[i] # None
        /\ offered[code[i]].user = v.subject
        /\ access[i].exp - TokenTTL <= v.raw.iat
        /\ v.raw.iat <= access[i].exp

\* Once the token request of one import is through, its code buys no other
\* import a token: the deletion comes before the answer.
TokenAnswered(i) == access[i] # None /\ pc[i] # "invalidate"
SpentCodeRefused ==
  [][\A i, j \in Imports :
       SameOffer(i, j) /\ TokenAnswered(j) /\ pc[i] = "token" => pc'[i] # "mint"]_vars

\* However many imports race for one offer, at least one of them ends with the
\* credential, unless the offer or a token expires or a reply is lost: they
\* never all turn each other away.
Presented(o) == Live(preauth[o]) /\ \E i \in Imports : code[i] = o /\ pc[i] = "offer"
OfferRedeemed ==
  \A o \in Offers :
    Presented(o) ~>
      \/ \E i \in Imports : code[i] = o /\ reply[i] \in {"stored", "shown", "credential failed"}
      \/ ~Live(offered[o])
      \/ lost # {}
=============================================================================
