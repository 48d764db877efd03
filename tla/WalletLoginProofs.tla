-------------------------- MODULE WalletLoginProofs --------------------------
(***************************************************************************)
(* Proofs about login, sessions and logout, for any number of browsers,    *)
(* users, requests and restarts.  The inductive invariant says, of each    *)
(* place that a verifier, a code or a session id can be in, what its being *)
(* there means: Filed of PKCEStore, Carried of the cookie jars, Calling    *)
(* and Redeeming of the callbacks under way, Leaving of the logouts,       *)
(* Asking of the requests that are served as a session.                    *)
(***************************************************************************)
EXTENDS WalletLogin, TLAPS

\* The verifier of a login stays filed until its code is spent or a restart
\* drops it.
Filed ==
  \A l \in Logins :
    /\ pkceStore[l] \in {l, None}
    /\ stage[l] # "idle" =>
         at[l] \in Browsers /\ (pkceStore[l] = l \/ l \in spent \cup dropped)

\* A session cookie was set by the response of the callback it names, in the
\* browser of that login; the cookies of a login come and go together.
HasSession(b, k) == cb[k].pc = "done" /\ at[cb[k].login] = b

Carried ==
  \A b \in Browsers :
    /\ jar[b].nonce = jar[b].pkce
    /\ jar[b].session # None => HasSession(b, jar[b].session)

\* A callback is of a login that came back from the OP.  It tries the cookie's
\* verifier or, without one, that of its login, and goes on only with the latter.
UnderWay(k) ==
  /\ cb[k].pc # "idle" =>
       /\ cb[k].login \in Logins /\ stage[cb[k].login] = "code"
       /\ cb[k].cookies.nonce = cb[k].cookies.pkce
  /\ cb[k].pc \in {"exchange", "token"} =>
       cb[k].verifier = IF cb[k].cookies.pkce # None THEN cb[k].cookies.pkce
                        ELSE cb[k].login
  /\ cb[k].pc = "token" => cb[k].verifier = cb[k].login
  /\ cb[k].reply # "" => cb[k].pc \in {"respond", "done", "lost"}

Calling == \A k \in Callbacks : UnderWay(k)

\* The callbacks for which the OP has redeemed a code, as long as a session may
\* come of it: each has a login of its own.
Redeemed(k) ==
  cb[k].pc \in {"token", "session", "forget"} \/ sessStore[k] # None

Redeeming ==
  \A k \in Callbacks :
    /\ sessStore[k] # None => cb[k].pc \in {"forget", "respond", "done"}
    /\ Redeemed(k) =>
         /\ cb[k].login \in spent
         /\ \A j \in Callbacks \ {k} : Redeemed(j) => cb[j].login # cb[k].login

\* A logout ends the session of the browser it came from, and has deleted it
\* when it answers; an ended session is one whose callback is over.
Leaving ==
  /\ \A x \in Logouts :
       /\ out[x].pc # "idle" => out[x].browser \in Browsers
       /\ out[x].sid # None => HasSession(out[x].browser, out[x].sid)
       /\ out[x].pc = "respond" /\ out[x].sid # None => sessStore[out[x].sid] = None
  /\ \A s \in ended : cb[s].pc = "done"

\* A request names a session whose callback is over and which has not ended
\* before the request was sent; it is served as somebody only at its end.
Asking ==
  \A p \in Probes :
    /\ probe[p].sid # None => cb[probe[p].sid].pc = "done"
    /\ probe[p].sid \notin probe[p].stale
    /\ probe[p].user # None => probe[p].pc = "done" /\ probe[p].sid # None

\* The cause of a refusal; that nonces fit follows from Calling.
Excused(k) ==
  cb[k].reply = "refused" =>
    \/ cb[k].fault
    \/ cb[k].login \in spent
    \/ ~Undisturbed(k)
    \/ cb[k].cookies.pkce = None /\ cb[k].login \in dropped

Refusing == \A k \in Callbacks : Excused(k)

Inv ==
  /\ TypeOK /\ Filed /\ Carried /\ Calling /\ Redeeming /\ Leaving /\ Asking
  /\ Refusing /\ LoggedOutStaysOut /\ SessionsAreGenuine

-----------------------------------------------------------------------------
\* The invariant holds before anybody logs in.
LEMMA InvInit == Init => Inv
<1> SUFFICES ASSUME Init PROVE Inv
  OBVIOUS
<1>1. TypeOK
  BY LoginAssumption
  DEF Init, TypeOK, Cookies, NoCookies, Callback, Logout, Probe
<1>2. Filed /\ Calling /\ Redeeming
  BY DEF Init, Filed, Calling, UnderWay, Redeeming, Redeemed, NoCookies
<1>3. Carried /\ Leaving /\ Asking
  BY DEF Init, Carried, Leaving, Asking, NoCookies
<1>4. Refusing /\ LoggedOutStaysOut /\ SessionsAreGenuine
  BY DEF Init, Refusing, Excused, LoggedOutStaysOut, SessionsAreGenuine
<1> QED
  BY <1>1, <1>2, <1>3, <1>4 DEF Inv

\* One callback moves on: what it was sent with stays, the others stay as they are.
Moves(k) ==
  /\ cb' \in [Callbacks -> Callback]
  /\ \A j \in Callbacks \ {k} : cb'[j] = cb[j]
  /\ cb'[k].login = cb[k].login /\ cb'[k].cookies = cb[k].cookies

\* The fields of a callback record.
LEMMA CallbackFields ==
  ASSUME NEW c \in Callback
  PROVE  /\ c.pc \in {"idle", "verifier", "exchange", "token", "session", "forget",
                      "respond", "done", "lost"}
         /\ c.login \in Logins \cup {None} /\ c.cookies \in Cookies
         /\ c.verifier \in Logins \cup {None}
         /\ c.reply \in {"", "ok", "refused"} /\ c.fault \in BOOLEAN
BY DEF Callback

\* What the updates of a callback record leave in it.
LEMMA RefuseMoves ==
  ASSUME TypeOK, NEW k \in Callbacks, NEW fault \in BOOLEAN, Refuse(k, fault)
  PROVE  /\ Moves(k)
         /\ cb'[k].pc = "respond" /\ cb'[k].reply = "refused" /\ cb'[k].fault = fault
<1>1. cb \in [Callbacks -> Callback]
  BY DEF TypeOK
<1>2. cb'[k] = [pc |-> "respond", login |-> cb[k].login, cookies |-> cb[k].cookies,
                verifier |-> cb[k].verifier, reply |-> "refused", fault |-> fault]
  BY <1>1 DEF Refuse, Callback
<1>3. \A j \in Callbacks \ {k} : cb'[j] = cb[j]
  BY <1>1 DEF Refuse
<1>4. cb'[k] \in Callback
  BY <1>1, <1>2, CallbackFields DEF Callback
<1>5. cb' = [j \in Callbacks |-> cb'[j]]
  BY <1>1 DEF Refuse
<1> QED
  BY <1>1, <1>2, <1>3, <1>4, <1>5 DEF Moves

\* A callback that only goes on to its next label.
LEMMA PcMoves ==
  ASSUME TypeOK, NEW k \in Callbacks,
         NEW p \in {"token", "session", "forget", "done"}, cb' = [cb EXCEPT ![k].pc = p]
  PROVE  /\ Moves(k)
         /\ cb'[k].pc = p /\ cb'[k].verifier = cb[k].verifier
         /\ cb'[k].reply = cb[k].reply /\ cb'[k].fault = cb[k].fault
<1>1. cb \in [Callbacks -> Callback]
  BY DEF TypeOK
<1>2. cb'[k] = [pc |-> p, login |-> cb[k].login, cookies |-> cb[k].cookies,
                verifier |-> cb[k].verifier, reply |-> cb[k].reply, fault |-> cb[k].fault]
  BY <1>1 DEF Callback
<1>3. \A j \in Callbacks \ {k} : cb'[j] = cb[j]
  BY <1>1
<1>4. cb'[k] \in Callback
  BY <1>1, <1>2 DEF Callback
<1>5. cb' = [j \in Callbacks |-> cb'[j]]
  BY <1>1
<1> QED
  BY <1>1, <1>2, <1>3, <1>4, <1>5 DEF Moves

\* A callback that has found its verifier.
LEMMA VerifierMoves ==
  ASSUME TypeOK, NEW k \in Callbacks, NEW v \in Logins,
         cb' = [cb EXCEPT ![k].pc = "exchange", ![k].verifier = v]
  PROVE  /\ Moves(k)
         /\ cb'[k].pc = "exchange" /\ cb'[k].verifier = v
         /\ cb'[k].reply = cb[k].reply /\ cb'[k].fault = cb[k].fault
<1>1. cb \in [Callbacks -> Callback]
  BY DEF TypeOK
<1>2. cb'[k] = [pc |-> "exchange", login |-> cb[k].login, cookies |-> cb[k].cookies,
                verifier |-> v, reply |-> cb[k].reply, fault |-> cb[k].fault]
  BY <1>1 DEF Callback
<1>3. \A j \in Callbacks \ {k} : cb'[j] = cb[j]
  BY <1>1
<1>4. cb'[k] \in Callback
  BY <1>1, <1>2 DEF Callback
<1>5. cb' = [j \in Callbacks |-> cb'[j]]
  BY <1>1
<1> QED
  BY <1>1, <1>2, <1>3, <1>4, <1>5 DEF Moves

\* A callback whose session is stored, on its way to its answer.
LEMMA ForgetMoves ==
  ASSUME TypeOK, NEW k \in Callbacks,
         cb' = [cb EXCEPT ![k].pc = "respond", ![k].reply = "ok"]
  PROVE  /\ Moves(k)
         /\ cb'[k].pc = "respond" /\ cb'[k].reply = "ok" /\ cb'[k].fault = cb[k].fault
<1>1. cb \in [Callbacks -> Callback]
  BY DEF TypeOK
<1>2. cb'[k] = [pc |-> "respond", login |-> cb[k].login, cookies |-> cb[k].cookies,
                verifier |-> cb[k].verifier, reply |-> "ok", fault |-> cb[k].fault]
  BY <1>1 DEF Callback
<1>3. \A j \in Callbacks \ {k} : cb'[j] = cb[j]
  BY <1>1
<1>4. cb'[k] \in Callback
  BY <1>1, <1>2 DEF Callback
<1>5. cb' = [j \in Callbacks |-> cb'[j]]
  BY <1>1
<1> QED
  BY <1>1, <1>2, <1>3, <1>4, <1>5 DEF Moves

\* A callback is sent with the cookies its browser has.
LEMMA SendEffect ==
  ASSUME TypeOK, NEW k \in Callbacks, NEW l \in Logins, at[l] \in Browsers, SendCallback(k, l)
  PROVE  /\ cb' \in [Callbacks -> Callback]
         /\ \A j \in Callbacks \ {k} : cb'[j] = cb[j]
         /\ cb'[k].pc = "verifier" /\ cb'[k].login = l /\ cb'[k].cookies = jar[at[l]]
         /\ cb'[k].reply = ""
<1> DEFINE rec == [pc |-> "verifier", login |-> l, cookies |-> jar[at[l]],
                   verifier |-> None, reply |-> "", fault |-> FALSE]
<1>1. cb \in [Callbacks -> Callback] /\ jar[at[l]] \in Cookies
  BY DEF TypeOK
<1>2. cb' = [cb EXCEPT ![k] = rec]
  BY DEF SendCallback
<1>3. rec \in Callback
  BY <1>1 DEF Callback
<1>4. /\ rec.pc = "verifier" /\ rec.login = l /\ rec.cookies = jar[at[l]]
      /\ rec.reply = ""
  OBVIOUS
<1> HIDE DEF rec
<1> QED
  BY <1>1, <1>2, <1>3, <1>4

\* A restart loses what is under way and leaves what is over.
LEMMA RestartEffect ==
  ASSUME TypeOK, Restart
  PROVE  /\ cb' \in [Callbacks -> Callback] /\ out' \in [Logouts -> Logout]
         /\ probe' \in [Probes -> Probe]
         /\ \A k \in Callbacks :
              /\ cb'[k].pc = IF cb[k].pc \in {"idle", "done"} THEN cb[k].pc ELSE "lost"
              /\ cb'[k].login = cb[k].login /\ cb'[k].cookies = cb[k].cookies
              /\ cb'[k].reply = cb[k].reply /\ cb'[k].fault = cb[k].fault
         /\ \A x \in Logouts :
              /\ out'[x].pc = IF out[x].pc \in {"idle", "done"} THEN out[x].pc ELSE "lost"
              /\ out'[x].browser = out[x].browser /\ out'[x].sid = out[x].sid
         /\ \A p \in Probes :
              /\ probe'[p].pc = IF probe[p].pc \in {"idle", "done"} THEN probe[p].pc ELSE "lost"
              /\ probe'[p].sid = probe[p].sid /\ probe'[p].user = probe[p].user
              /\ probe'[p].stale = probe[p].stale
<1>1. /\ cb \in [Callbacks -> Callback] /\ out \in [Logouts -> Logout]
      /\ probe \in [Probes -> Probe]
  BY DEF TypeOK
<1>2. ASSUME NEW c \in Callback
      PROVE  Lose(c) = [pc |-> IF c.pc \in {"idle", "done"} THEN c.pc ELSE "lost",
                        login |-> c.login, cookies |-> c.cookies, verifier |-> c.verifier,
                        reply |-> c.reply, fault |-> c.fault]
  BY DEF Lose, Callback
<1>3. ASSUME NEW c \in Logout
      PROVE  Lose(c) = [pc |-> IF c.pc \in {"idle", "done"} THEN c.pc ELSE "lost",
                        browser |-> c.browser, sid |-> c.sid]
  BY DEF Lose, Logout
<1>4. ASSUME NEW c \in Probe
      PROVE  Lose(c) = [pc |-> IF c.pc \in {"idle", "done"} THEN c.pc ELSE "lost",
                        sid |-> c.sid, user |-> c.user, stale |-> c.stale]
  BY DEF Lose, Probe
<1>5. /\ cb' = [k \in Callbacks |-> Lose(cb[k])]
      /\ out' = [x \in Logouts |-> Lose(out[x])]
      /\ probe' = [p \in Probes |-> Lose(probe[p])]
  BY DEF Restart
<1>6. /\ \A c \in Callback : Lose(c) \in Callback
      /\ \A c \in Logout : Lose(c) \in Logout
      /\ \A c \in Probe : Lose(c) \in Probe
  <2>1. ASSUME NEW c \in Callback PROVE Lose(c) \in Callback
    <3>1. CASE c.pc \in {"idle", "done"}
      BY <3>1 DEF Lose
    <3>2. CASE c.pc \notin {"idle", "done"}
      <4>1. Lose(c) = [pc |-> "lost", login |-> c.login, cookies |-> c.cookies,
                       verifier |-> c.verifier, reply |-> c.reply, fault |-> c.fault]
        BY <1>2, <3>2
      <4> QED
        BY <4>1, CallbackFields DEF Callback
    <3> QED
      BY <3>1, <3>2
  <2>2. ASSUME NEW c \in Logout PROVE Lose(c) \in Logout
    BY <1>3 DEF Logout
  <2>3. ASSUME NEW c \in Probe PROVE Lose(c) \in Probe
    BY <1>4 DEF Probe
  <2> QED
    BY <2>1, <2>2, <2>3
<1>7. /\ cb' \in [Callbacks -> Callback] /\ out' \in [Logouts -> Logout]
      /\ probe' \in [Probes -> Probe]
  BY <1>1, <1>5, <1>6
<1>8. /\ \A k \in Callbacks : cb'[k] = Lose(cb[k]) /\ cb[k] \in Callback
      /\ \A x \in Logouts : out'[x] = Lose(out[x]) /\ out[x] \in Logout
      /\ \A p \in Probes : probe'[p] = Lose(probe[p]) /\ probe[p] \in Probe
  BY <1>1, <1>5
<1>9. ASSUME NEW k \in Callbacks
      PROVE  /\ cb'[k].pc = IF cb[k].pc \in {"idle", "done"} THEN cb[k].pc ELSE "lost"
             /\ cb'[k].login = cb[k].login /\ cb'[k].cookies = cb[k].cookies
             /\ cb'[k].reply = cb[k].reply /\ cb'[k].fault = cb[k].fault
  BY <1>2, <1>8
<1>10. ASSUME NEW x \in Logouts
       PROVE  /\ out'[x].pc = IF out[x].pc \in {"idle", "done"} THEN out[x].pc ELSE "lost"
              /\ out'[x].browser = out[x].browser /\ out'[x].sid = out[x].sid
  BY <1>3, <1>8
<1>11. ASSUME NEW p \in Probes
       PROVE  /\ probe'[p].pc = IF probe[p].pc \in {"idle", "done"} THEN probe[p].pc ELSE "lost"
              /\ probe'[p].sid = probe[p].sid /\ probe'[p].user = probe[p].user
              /\ probe'[p].stale = probe[p].stale
  BY <1>4, <1>8
<1> QED
  BY <1>7, <1>9, <1>10, <1>11

-----------------------------------------------------------------------------
\* Nothing is taken back: a login stays in its browser and with its subject, a
\* code stays spent, a callback keeps what it was sent with, and a callback that
\* is over makes no session.
Onward ==
  /\ \A l \in Logins :
       /\ stage[l] # "idle" => at'[l] = at[l]
       /\ stage[l] = "code" => stage'[l] = "code" /\ subject'[l] = subject[l]
  /\ spent \subseteq spent' /\ dropped \subseteq dropped'
  /\ \A k \in Callbacks :
       /\ cb[k].pc # "idle" => cb'[k].login = cb[k].login /\ cb'[k].cookies = cb[k].cookies
       /\ cb[k].pc = "done" => cb'[k].pc = "done" /\ (sessStore[k] = None => sessStore'[k] = None)

\* A session that a browser has stays the one that its callback made.
LEMMA HasSessionStays ==
  ASSUME Inv, Onward, NEW b, NEW k \in Callbacks, HasSession(b, k)
  PROVE  HasSession(b, k)'
BY DEF Inv, Onward, HasSession, Calling, UnderWay

\* What stays of the invariant when the variables a part is about do.
LEMMA CarriedStays ==
  ASSUME Inv, Onward, jar' = jar
  PROVE  Carried'
<1>1. ASSUME NEW b \in Browsers, jar[b].session # None
      PROVE  jar[b].session \in Callbacks /\ HasSession(b, jar[b].session)
  BY <1>1 DEF Inv, Carried, TypeOK, Cookies
<1>2. ASSUME NEW b \in Browsers, jar[b].session # None
      PROVE  HasSession(b, jar[b].session)'
  BY <1>1, <1>2, HasSessionStays
<1> QED
  BY <1>2 DEF Carried, Inv, HasSession

\* A logout under way still knows whose session it ends.
LEMMA LeavingStays ==
  ASSUME Inv, Onward, out' = out, ended' = ended
  PROVE  Leaving'
<1>1. ASSUME NEW x \in Logouts, out[x].sid # None
      PROVE  out[x].sid \in Callbacks /\ HasSession(out[x].browser, out[x].sid)
  BY <1>1 DEF Inv, Leaving, TypeOK, Logout
<1>2. ASSUME NEW x \in Logouts, out[x].sid # None
      PROVE  HasSession(out[x].browser, out[x].sid)'
  BY <1>1, <1>2, HasSessionStays
<1>3. ASSUME NEW x \in Logouts, out[x].pc = "respond", out[x].sid # None
      PROVE  sessStore'[out[x].sid] = None
  BY <1>1, <1>3 DEF Inv, Leaving, HasSession, Onward
<1>4. \A s \in ended : cb'[s].pc = "done"
  BY DEF Inv, Leaving, TypeOK, Onward
<1> QED
  BY <1>2, <1>3, <1>4 DEF Inv, Leaving, HasSession

\* A probe still asks with a cookie some callback has set.
LEMMA AskingStays ==
  ASSUME Inv, Onward, probe' = probe
  PROVE  Asking'
<1>1. ASSUME NEW p \in Probes, probe[p].sid # None PROVE cb'[probe[p].sid].pc = "done"
  BY <1>1 DEF Inv, Asking, TypeOK, Probe, Onward
<1> QED
  BY <1>1 DEF Inv, Asking

\* Ended sessions stay out of the store when it gains none of them.
LEMMA LoggedOutStays ==
  ASSUME Inv, Onward, jar' = jar, ended' = ended, probe' = probe
  PROVE  LoggedOutStaysOut'
<1>1. \A s \in ended : sessStore'[s] = None
  BY DEF Inv, LoggedOutStaysOut, Leaving, TypeOK, Onward
<1> QED
  BY <1>1 DEF Inv, LoggedOutStaysOut

\* Sessions stay genuine when the store only loses some.
LEMMA GenuineStays ==
  ASSUME Inv, Onward, \A k \in Callbacks : sessStore'[k] \in {sessStore[k], None},
         probe' = probe
  PROVE  SessionsAreGenuine'
<1>1. ASSUME NEW k \in Callbacks, cb[k].pc # "idle"
      PROVE  cb'[k].login = cb[k].login /\ subject'[cb[k].login] = subject[cb[k].login]
  BY <1>1 DEF Inv, Calling, UnderWay, Onward
<1>2. ASSUME NEW k \in Callbacks, sessStore[k] # None PROVE cb[k].pc # "idle"
  BY <1>2 DEF Inv, Redeeming
<1>3. ASSUME NEW k \in Callbacks, sessStore'[k] # None
      PROVE  /\ sessStore'[k] = subject'[cb'[k].login]
             /\ cb'[k].login \in spent'
             /\ \A j \in Callbacks \ {k} : sessStore'[j] # None => cb'[j].login # cb'[k].login
  BY <1>1, <1>2, <1>3 DEF Inv, SessionsAreGenuine, Onward
<1>4. ASSUME NEW p \in Probes, probe[p].user # None
      PROVE  probe[p].user = subject'[cb'[probe[p].sid].login]
  <2>1. probe[p].sid \in Callbacks /\ cb[probe[p].sid].pc = "done"
    BY <1>4 DEF Inv, Asking, TypeOK, Probe
  <2> QED
    BY <1>1, <1>4, <2>1 DEF Inv, SessionsAreGenuine
<1> QED
  BY <1>3, <1>4 DEF SessionsAreGenuine

\* Verifiers stay filed under their own login.
LEMMA FiledStays ==
  ASSUME Inv, Onward, pkceStore' = pkceStore, stage' = stage, at' = at
  PROVE  Filed'
BY DEF Inv, Filed, Onward

\* A callback under way is so whatever the others do.
LEMMA CallingStays ==
  ASSUME Inv, Onward, NEW k \in Callbacks, \A j \in Callbacks \ {k} : cb'[j] = cb[j],
         UnderWay(k)'
  PROVE  Calling'
<1>1. ASSUME NEW j \in Callbacks \ {k} PROVE UnderWay(j)'
  <2>1. UnderWay(j) /\ cb'[j] = cb[j]
    BY DEF Inv, Calling
  <2>2. cb[j].pc # "idle" => stage'[cb[j].login] = "code"
    BY <2>1 DEF UnderWay, Onward
  <2> QED
    BY <2>1, <2>2 DEF UnderWay
<1> QED
  BY <1>1 DEF Calling

\* The cause of a refusal stays one.
LEMMA CauseStays ==
  ASSUME Inv, Onward, NEW k \in Callbacks,
         cb'[k].reply = cb[k].reply, cb'[k].fault = cb[k].fault
  PROVE  Excused(k)'
<1> SUFFICES ASSUME cb[k].reply = "refused" PROVE Excused(k)'
  BY DEF Excused
<1>1. cb'[k].login = cb[k].login /\ cb'[k].cookies = cb[k].cookies
  BY DEF Inv, Calling, UnderWay, Onward
<1>2. \/ cb[k].fault
      \/ cb[k].login \in spent
      \/ ~Undisturbed(k)
      \/ cb[k].cookies.pkce = None /\ cb[k].login \in dropped
  BY DEF Inv, Refusing, Excused
<1> QED
  BY <1>1, <1>2 DEF Excused, Undisturbed, Onward

\* A step of a callback that changes only its own record and the OP's codes.
LEMMA QuietStep ==
  ASSUME Inv, Onward, cb' \in [Callbacks -> Callback], spent' \subseteq Logins,
         UNCHANGED <<jar, stage, at, subject, pkceStore, sessStore, out, probe, restarts,
                     dropped, ended>>
  PROVE  /\ TypeOK' /\ Filed' /\ Carried' /\ Leaving' /\ Asking'
         /\ LoggedOutStaysOut' /\ SessionsAreGenuine'
<1>1. TypeOK'
  BY DEF Inv, TypeOK
<1> QED
  BY <1>1, CarriedStays, LeavingStays, AskingStays, LoggedOutStays, GenuineStays, FiledStays

\* No code is redeemed, or the one that is was not: the rest stays as it is.
LEMMA RedeemingStays ==
  ASSUME Inv, Onward, NEW k \in Callbacks, \A j \in Callbacks \ {k} : cb'[j] = cb[j],
         \A j \in Callbacks : sessStore'[j] \in {sessStore[j], None},
         Redeemed(k)' => Redeemed(k) /\ cb'[k].login = cb[k].login,
         sessStore'[k] # None => cb'[k].pc \in {"forget", "respond", "done"}
  PROVE  Redeeming'
<1>1. ASSUME NEW j \in Callbacks, Redeemed(j)' PROVE Redeemed(j) /\ cb'[j].login = cb[j].login
  BY <1>1 DEF Redeemed
<1>2. ASSUME NEW j \in Callbacks, sessStore'[j] # None
      PROVE  cb'[j].pc \in {"forget", "respond", "done"}
  BY <1>2 DEF Inv, Redeeming
<1>3. ASSUME NEW j \in Callbacks, Redeemed(j)'
      PROVE  /\ cb'[j].login \in spent'
             /\ \A i \in Callbacks \ {j} : Redeemed(i)' => cb'[i].login # cb'[j].login
  BY <1>1, <1>3 DEF Inv, Redeeming, Onward
<1> QED
  BY <1>2, <1>3 DEF Redeeming

\* A refusal ends the callback; it needs its cause.
LEMMA RefuseKeeps ==
  ASSUME Inv, NEW k \in Callbacks, NEW fault \in BOOLEAN, Refuse(k, fault),
         cb[k].pc \in {"verifier", "exchange", "token"},
         spent \subseteq spent', spent' \subseteq Logins,
         UNCHANGED <<jar, stage, at, subject, pkceStore, sessStore, out, probe, restarts,
                     dropped, ended>>,
         \/ fault
         \/ cb[k].login \in spent'
         \/ ~Undisturbed(k)
         \/ cb[k].cookies.pkce = None /\ cb[k].login \in dropped
  PROVE  Inv'
<1>1. /\ Moves(k)
      /\ cb'[k].pc = "respond" /\ cb'[k].reply = "refused" /\ cb'[k].fault = fault
  BY RefuseMoves DEF Inv
<1>2. sessStore[k] = None
  BY DEF Inv, Redeeming
<1>3. Onward
  BY <1>1 DEF Moves, Onward
<1>4. /\ TypeOK' /\ Filed' /\ Carried' /\ Leaving' /\ Asking'
      /\ LoggedOutStaysOut' /\ SessionsAreGenuine'
  BY <1>1, <1>3, QuietStep DEF Moves
<1>5. Calling'
  <2>1. UnderWay(k)'
    BY <1>1 DEF Inv, Calling, UnderWay, Moves
  <2> QED
    BY <1>1, <1>3, <2>1, CallingStays DEF Moves
<1>6. Redeeming'
  BY <1>1, <1>2, <1>3, RedeemingStays DEF Moves, Redeemed
<1>7. Refusing'
  <2>1. Excused(k)'
    BY <1>1 DEF Moves, Excused, Undisturbed
  <2>2. ASSUME NEW j \in Callbacks \ {k} PROVE Excused(j)'
    BY <1>1, <1>3, CauseStays DEF Moves
  <2> QED
    BY <2>1, <2>2 DEF Refusing
<1> QED
  BY <1>4, <1>5, <1>6, <1>7 DEF Inv

\* The browser comes back with a code, and the cookies it has by then.
LEMMA SendCallbackKeeps ==
  ASSUME Inv, NEW k \in Callbacks, NEW l \in Logins, SendCallback(k, l)
  PROVE  Inv'
<1>1. cb[k].pc = "idle" /\ stage[l] = "code" /\ at[l] \in Browsers
  BY DEF SendCallback, Inv, Filed
<1>2. UNCHANGED <<jar, stage, at, subject, spent, pkceStore, sessStore, out, probe, restarts,
                  dropped, ended>>
  BY DEF SendCallback, loginVars, maps, history
<1>3. /\ cb' \in [Callbacks -> Callback]
      /\ \A j \in Callbacks \ {k} : cb'[j] = cb[j]
      /\ cb'[k].pc = "verifier" /\ cb'[k].login = l /\ cb'[k].cookies = jar[at[l]]
      /\ cb'[k].reply = ""
  BY <1>1, SendEffect DEF Inv
<1>4. Onward
  BY <1>1, <1>2, <1>3 DEF Onward
<1>5. /\ TypeOK' /\ Filed' /\ Carried' /\ Leaving' /\ Asking'
      /\ LoggedOutStaysOut' /\ SessionsAreGenuine'
  BY <1>2, <1>3, <1>4, QuietStep DEF Inv, TypeOK
<1>6. Calling'
  <2>1. UnderWay(k)'
    BY <1>1, <1>2, <1>3 DEF Inv, UnderWay, Carried
  <2> QED
    BY <1>3, <1>4, <2>1, CallingStays
<1>7. Redeeming'
  <2>1. sessStore[k] = None
    BY <1>1 DEF Inv, Redeeming
  <2> QED
    BY <1>2, <1>3, <1>4, <2>1, RedeemingStays DEF Redeemed
<1>8. Refusing'
  <2>1. Excused(k)'
    BY <1>3 DEF Excused
  <2>2. ASSUME NEW j \in Callbacks \ {k} PROVE Excused(j)'
    BY <1>3, <1>4, CauseStays
  <2> QED
    BY <2>1, <2>2 DEF Refusing
<1> QED
  BY <1>5, <1>6, <1>7, <1>8 DEF Inv

\* Without a cookie the map has the verifier, unless the code is spent or a
\* restart has dropped it.
LEMMA CallbackVerifierKeeps ==
  ASSUME Inv, NEW k \in Callbacks, CallbackVerifier(k)
  PROVE  Inv'
<1>1. cb[k].pc = "verifier" /\ cb[k].login \in Logins /\ stage[cb[k].login] = "code"
  BY DEF CallbackVerifier, Inv, Calling, UnderWay
<1>2. UNCHANGED <<jar, stage, at, subject, spent, pkceStore, sessStore, out, probe, restarts,
                  dropped, ended>>
  BY DEF CallbackVerifier, loginVars, maps, history
<1>3. /\ pkceStore[cb[k].login] \in {cb[k].login, None}
      /\ pkceStore[cb[k].login] = cb[k].login \/ cb[k].login \in spent \cup dropped
  BY <1>1 DEF Inv, Filed
<1>4. spent \subseteq Logins /\ cb[k] \in Callback
  BY DEF Inv, TypeOK
<1>5. CASE Verifier(k) = None
  <2>1. Refuse(k, FALSE)
    BY <1>5 DEF CallbackVerifier
  <2>2. cb[k].cookies.pkce = None /\ cb[k].login \in spent \cup dropped
    BY <1>1, <1>3, <1>5, LoginAssumption DEF Verifier
  <2> QED
    BY <1>1, <1>2, <1>4, <2>1, <2>2, RefuseKeeps
<1>6. CASE Verifier(k) # None
  <2>1. cb' = [cb EXCEPT ![k].pc = "exchange", ![k].verifier = Verifier(k)]
    BY <1>6 DEF CallbackVerifier
  <2>2. /\ Verifier(k) \in Logins
        /\ Verifier(k) = IF cb[k].cookies.pkce # None THEN cb[k].cookies.pkce
                         ELSE cb[k].login
    <3>1. cb[k].cookies.pkce \in Logins \cup {None}
      BY <1>4 DEF Callback, Cookies
    <3> QED
      BY <1>1, <1>3, <1>6, <3>1 DEF Verifier
  <2>3. /\ Moves(k)
        /\ cb'[k].pc = "exchange" /\ cb'[k].verifier = Verifier(k)
        /\ cb'[k].reply = cb[k].reply /\ cb'[k].fault = cb[k].fault
    BY <2>1, <2>2, VerifierMoves DEF Inv
  <2>4. Onward
    BY <1>1, <1>2, <2>3 DEF Onward, Moves
  <2>5. /\ TypeOK' /\ Filed' /\ Carried' /\ Leaving' /\ Asking'
        /\ LoggedOutStaysOut' /\ SessionsAreGenuine'
    BY <1>2, <1>4, <2>3, <2>4, QuietStep DEF Moves
  <2>6. Calling'
    <3>1. UnderWay(k)'
      BY <1>1, <1>2, <2>2, <2>3 DEF Inv, Calling, UnderWay, Moves
    <3> QED
      BY <2>3, <2>4, <3>1, CallingStays DEF Moves
  <2>7. Redeeming'
    <3>1. sessStore[k] = None
      BY <1>1 DEF Inv, Redeeming
    <3> QED
      BY <1>2, <2>3, <2>4, <3>1, RedeemingStays DEF Redeemed, Moves
  <2>8. Refusing'
    BY <2>3, <2>4, CauseStays DEF Moves, Refusing
  <2> QED
    BY <2>5, <2>6, <2>7, <2>8 DEF Inv
<1> QED
  BY <1>5, <1>6

\* The OP redeems a code once, for the verifier of its login.
LEMMA CallbackExchangeKeeps ==
  ASSUME Inv, NEW k \in Callbacks, CallbackExchange(k)
  PROVE  Inv'
<1> DEFINE l == cb[k].login
<1>1. /\ cb[k].pc = "exchange" /\ l \in Logins /\ sessStore[k] = None
      /\ cb[k].verifier = IF cb[k].cookies.pkce # None THEN cb[k].cookies.pkce ELSE l
  BY DEF CallbackExchange, Inv, Calling, UnderWay, Redeeming
<1>2. UNCHANGED <<jar, stage, at, subject, pkceStore, sessStore, out, probe, restarts,
                  dropped, ended>>
  BY DEF CallbackExchange, loginVars, maps, history
<1>3. spent \subseteq Logins
  BY DEF Inv, TypeOK
<1>4. CASE /\ l \notin spent /\ cb[k].verifier = l /\ spent' = spent \cup {l}
           /\ cb' = [cb EXCEPT ![k].pc = "token"]
  <2>1. /\ Moves(k)
        /\ cb'[k].pc = "token" /\ cb'[k].verifier = cb[k].verifier
        /\ cb'[k].reply = cb[k].reply /\ cb'[k].fault = cb[k].fault
    BY <1>4, PcMoves DEF Inv
  <2>2. Onward
    BY <1>1, <1>2, <1>4, <2>1 DEF Onward, Moves
  <2>3. /\ TypeOK' /\ Filed' /\ Carried' /\ Leaving' /\ Asking'
        /\ LoggedOutStaysOut' /\ SessionsAreGenuine'
    BY <1>1, <1>2, <1>3, <1>4, <2>1, <2>2, QuietStep DEF Moves
  <2>4. Calling'
    <3>1. UnderWay(k)'
      BY <1>1, <1>2, <1>4, <2>1 DEF Inv, Calling, UnderWay, Moves
    <3> QED
      BY <2>1, <2>2, <3>1, CallingStays DEF Moves
  <2>5. Redeeming'
    <3>1. ASSUME NEW j \in Callbacks \ {k}, Redeemed(j)'
          PROVE  Redeemed(j) /\ cb'[j].login = cb[j].login /\ cb[j].login \in spent
      BY <1>2, <2>1, <3>1 DEF Redeemed, Moves, Inv, Redeeming
    <3>2. cb'[k].login = l /\ l \in spent'
      BY <1>4, <2>1 DEF Moves
    <3> QED
      BY <1>1, <1>2, <1>4, <2>1, <3>1, <3>2 DEF Redeeming, Inv, Moves
  <2>6. Refusing'
    BY <2>1, <2>2, CauseStays DEF Moves, Refusing
  <2> QED
    BY <2>3, <2>4, <2>5, <2>6 DEF Inv
<1>5. CASE /\ l \in spent \/ cb[k].verifier # l
           /\ spent' \in {spent, spent \cup {l}} /\ Refuse(k, FALSE)
  <2>1. l \in spent' \/ ~Undisturbed(k)
    BY <1>1, <1>5 DEF Undisturbed
  <2>2. spent \subseteq spent' /\ spent' \subseteq Logins
    BY <1>1, <1>3, <1>5
  <2> QED
    BY <1>1, <1>2, <1>5, <2>1, <2>2, RefuseKeeps
<1> QED
  BY <1>4, <1>5 DEF CallbackExchange

\* The provider may have used the code up although the exchange fails.
LEMMA ExchangeFaultKeeps ==
  ASSUME Inv, NEW k \in Callbacks, ExchangeFault(k)
  PROVE  Inv'
<1>1. cb[k].pc = "exchange" /\ cb[k].login \in Logins /\ Refuse(k, TRUE)
  BY DEF ExchangeFault, Inv, Calling, UnderWay
<1>2. UNCHANGED <<jar, stage, at, subject, pkceStore, sessStore, out, probe, restarts,
                  dropped, ended>>
  BY DEF ExchangeFault, loginVars, maps, history
<1>3. spent \subseteq spent' /\ spent' \subseteq Logins
  BY <1>1 DEF ExchangeFault, Inv, TypeOK
<1> QED
  BY <1>1, <1>2, <1>3, RefuseKeeps

\* A step of a callback after its code was redeemed, up to the session.
LEMMA CallbackTokenKeeps ==
  ASSUME Inv, NEW k \in Callbacks, CallbackToken(k) \/ TokenFault(k)
  PROVE  Inv'
<1>1. cb[k].pc = "token" /\ cb[k].login \in spent /\ sessStore[k] = None /\ spent \subseteq Logins
  BY DEF CallbackToken, TokenFault, Inv, Redeeming, Redeemed, TypeOK
<1>2. UNCHANGED <<jar, stage, at, subject, spent, pkceStore, sessStore, out, probe, restarts,
                  dropped, ended>>
  BY DEF CallbackToken, TokenFault, loginVars, maps, history
<1>3. CASE Refuse(k, FALSE) \/ Refuse(k, TRUE)
  <2>1. PICK fault \in BOOLEAN : Refuse(k, fault)
    BY <1>3
  <2> QED
    BY <1>1, <1>2, <2>1, RefuseKeeps
<1>4. CASE cb' = [cb EXCEPT ![k].pc = "session"]
  <2>1. /\ Moves(k)
        /\ cb'[k].pc = "session" /\ cb'[k].verifier = cb[k].verifier
        /\ cb'[k].reply = cb[k].reply /\ cb'[k].fault = cb[k].fault
    BY <1>4, PcMoves DEF Inv
  <2>2. Onward
    BY <1>1, <1>2, <2>1 DEF Onward, Moves
  <2>3. /\ TypeOK' /\ Filed' /\ Carried' /\ Leaving' /\ Asking'
        /\ LoggedOutStaysOut' /\ SessionsAreGenuine'
    BY <1>1, <1>2, <2>1, <2>2, QuietStep DEF Moves
  <2>4. Calling'
    <3>1. UnderWay(k)'
      BY <1>1, <1>2, <2>1 DEF Inv, Calling, UnderWay, Moves
    <3> QED
      BY <2>1, <2>2, <3>1, CallingStays DEF Moves
  <2>5. Redeeming'
    BY <1>1, <1>2, <2>1, <2>2, RedeemingStays DEF Redeemed, Moves
  <2>6. Refusing'
    BY <2>1, <2>2, CauseStays DEF Moves, Refusing
  <2> QED
    BY <2>3, <2>4, <2>5, <2>6 DEF Inv
<1> QED
  BY <1>3, <1>4 DEF CallbackToken, TokenFault

\* The session is new, under the id of its callback, and for the subject of the
\* login whose code was redeemed.
LEMMA CallbackSessionKeeps ==
  ASSUME Inv, NEW k \in Callbacks, CallbackSession(k)
  PROVE  Inv'
<1>1. /\ cb[k].pc = "session" /\ cb[k].login \in spent /\ sessStore[k] = None
      /\ cb[k].login \in Logins
  BY DEF CallbackSession, Inv, Redeeming, Redeemed, Calling, UnderWay
<1>2. /\ sessStore' = [sessStore EXCEPT ![k] = subject[cb[k].login]]
      /\ cb' = [cb EXCEPT ![k].pc = "forget"]
      /\ UNCHANGED <<jar, stage, at, subject, spent, pkceStore, out, probe, restarts,
                     dropped, ended>>
  BY DEF CallbackSession, loginVars, history
<1>3. /\ Moves(k)
      /\ cb'[k].pc = "forget" /\ cb'[k].verifier = cb[k].verifier
      /\ cb'[k].reply = cb[k].reply /\ cb'[k].fault = cb[k].fault
  BY <1>2, PcMoves DEF Inv
<1>4. /\ sessStore'[k] = subject[cb[k].login]
      /\ \A j \in Callbacks \ {k} : sessStore'[j] = sessStore[j]
      /\ sessStore' \in [Callbacks -> Users \cup {None}]
  BY <1>1, <1>2 DEF Inv, TypeOK
<1>5. Onward
  BY <1>1, <1>2, <1>3, <1>4 DEF Onward, Moves
<1>6. TypeOK'
  BY <1>2, <1>3, <1>4 DEF Inv, TypeOK, Moves
<1>7. Filed' /\ Carried' /\ Leaving' /\ Asking' /\ LoggedOutStaysOut'
  BY <1>2, <1>5, FiledStays, CarriedStays, LeavingStays, AskingStays, LoggedOutStays
<1>8. Calling'
  <2>1. UnderWay(k)'
    BY <1>1, <1>2, <1>3 DEF Inv, Calling, UnderWay, Moves
  <2> QED
    BY <1>3, <1>5, <2>1, CallingStays DEF Moves
<1>9. \A j \in Callbacks : cb'[j].login = cb[j].login /\ (Redeemed(j)' => Redeemed(j))
  BY <1>1, <1>3, <1>4 DEF Redeemed, Moves
<1>10. Redeeming'
  <2>1. ASSUME NEW j \in Callbacks, sessStore'[j] # None
        PROVE  cb'[j].pc \in {"forget", "respond", "done"}
    BY <1>3, <1>4, <2>1 DEF Inv, Redeeming, Moves
  <2> QED
    BY <1>2, <1>9, <2>1 DEF Inv, Redeeming
<1>11. SessionsAreGenuine'
  <2>1. ASSUME NEW j \in Callbacks, sessStore'[j] # None
        PROVE  /\ sessStore'[j] = subject'[cb'[j].login]
               /\ cb'[j].login \in spent'
               /\ \A i \in Callbacks \ {j} : sessStore'[i] # None => cb'[i].login # cb'[j].login
    <3>1. sessStore'[j] = subject[cb[j].login]
      BY <1>4, <2>1 DEF Inv, SessionsAreGenuine
    <3>2. \A i \in Callbacks : sessStore'[i] # None => Redeemed(i)'
      BY DEF Redeemed
    <3> QED
      BY <1>2, <1>9, <1>10, <2>1, <3>1, <3>2 DEF Redeeming
  <2>2. ASSUME NEW p \in Probes, probe[p].user # None
        PROVE  probe[p].user = subject[cb'[probe[p].sid].login]
    <3>1. probe[p].sid \in Callbacks
      BY <2>2 DEF Inv, Asking, TypeOK, Probe
    <3> QED
      BY <1>9, <2>2, <3>1 DEF Inv, SessionsAreGenuine
  <2> QED
    BY <1>2, <2>1, <2>2 DEF SessionsAreGenuine
<1>12. Refusing'
  BY <1>3, <1>5, CauseStays DEF Moves, Refusing
<1> QED
  BY <1>6, <1>7, <1>8, <1>10, <1>11, <1>12 DEF Inv

\* The verifier goes from the map when its code has been redeemed.
LEMMA CallbackForgetKeeps ==
  ASSUME Inv, NEW k \in Callbacks, CallbackForget(k)
  PROVE  Inv'
<1>1. cb[k].pc = "forget" /\ cb[k].login \in spent /\ cb[k].login \in Logins
  BY DEF CallbackForget, Inv, Redeeming, Redeemed, Calling, UnderWay
<1>2. /\ pkceStore' = [pkceStore EXCEPT ![cb[k].login] = None]
      /\ cb' = [cb EXCEPT ![k].pc = "respond", ![k].reply = "ok"]
      /\ UNCHANGED <<jar, stage, at, subject, spent, sessStore, out, probe, restarts,
                     dropped, ended>>
  BY DEF CallbackForget, loginVars, history
<1>3. /\ Moves(k)
      /\ cb'[k].pc = "respond" /\ cb'[k].reply = "ok" /\ cb'[k].fault = cb[k].fault
  BY <1>2, ForgetMoves DEF Inv
<1>4. Onward
  BY <1>1, <1>2, <1>3 DEF Onward, Moves
<1>5. TypeOK'
  BY <1>2, <1>3 DEF Inv, TypeOK, Moves
<1>6. Filed'
  BY <1>1, <1>2 DEF Inv, Filed, TypeOK
<1>7. Carried' /\ Leaving' /\ Asking' /\ LoggedOutStaysOut' /\ SessionsAreGenuine'
  BY <1>2, <1>4, CarriedStays, LeavingStays, AskingStays, LoggedOutStays, GenuineStays
<1>8. Calling'
  <2>1. UnderWay(k) /\ stage' = stage
    BY <1>2 DEF Inv, Calling
  <2>2. UnderWay(k)'
    BY <1>1, <1>3, <2>1 DEF UnderWay, Moves
  <2> QED
    BY <1>3, <1>4, <2>2, CallingStays DEF Moves
<1>9. Redeeming'
  BY <1>1, <1>2, <1>3, <1>4, RedeemingStays DEF Redeemed, Moves
<1>10. Refusing'
  <2>1. Excused(k)'
    BY <1>3 DEF Excused
  <2>2. ASSUME NEW j \in Callbacks \ {k} PROVE Excused(j)'
    BY <1>3, <1>4, CauseStays DEF Moves
  <2> QED
    BY <2>1, <2>2 DEF Refusing
<1> QED
  BY <1>5, <1>6, <1>7, <1>8, <1>9, <1>10 DEF Inv

\* The late response of a callback: its session cannot have ended before, since
\* no browser had it.
LEMMA ReceiveCallbackKeeps ==
  ASSUME Inv, NEW k \in Callbacks, ReceiveCallback(k)
  PROVE  Inv'
<1> DEFINE b == at[cb[k].login]
           fresh == [pkce |-> None, state |-> None, nonce |-> None, session |-> k]
<1>1. /\ cb[k].pc = "respond" /\ cb[k].login \in Logins /\ stage[cb[k].login] = "code"
      /\ b \in Browsers
  BY DEF ReceiveCallback, Inv, Calling, UnderWay, Filed
<1>2. /\ cb' = [cb EXCEPT ![k].pc = "done"]
      /\ jar' = jar \/ jar' = [jar EXCEPT ![b] = fresh]
      /\ UNCHANGED <<stage, at, subject, spent, pkceStore, sessStore, out, probe, restarts,
                     dropped, ended>>
  <2>1. [NoCookies EXCEPT !.session = k] = fresh
    BY DEF NoCookies
  <2> QED
    BY <2>1 DEF ReceiveCallback, loginVars, maps, history
<1>3. /\ Moves(k)
      /\ cb'[k].pc = "done" /\ cb'[k].verifier = cb[k].verifier
      /\ cb'[k].reply = cb[k].reply /\ cb'[k].fault = cb[k].fault
  BY <1>2, PcMoves DEF Inv
<1>4. Onward
  BY <1>1, <1>2, <1>3 DEF Onward, Moves
<1>5. fresh \in Cookies /\ fresh.nonce = fresh.pkce /\ fresh.session = k /\ k # None
  BY LoginAssumption DEF Cookies
<1> HIDE DEF b, fresh
<1>6. jar' \in [Browsers -> Cookies]
      /\ \A c \in Browsers : jar'[c] = jar[c] \/ (c = b /\ jar'[c] = fresh)
  BY <1>1, <1>2, <1>5 DEF Inv, TypeOK
<1>7. TypeOK'
  BY <1>2, <1>3, <1>6 DEF Inv, TypeOK, Moves
<1>8. Filed' /\ Leaving' /\ Asking' /\ SessionsAreGenuine'
  BY <1>2, <1>4, FiledStays, LeavingStays, AskingStays, GenuineStays
<1>9. Carried'
  <2>1. at' = at
    BY <1>2
  <2>2. cb'[k].pc = "done" /\ at'[cb'[k].login] = b
    BY <1>1, <1>3, <2>1 DEF Moves, b
  <2>3. ASSUME NEW c \in Browsers
        PROVE  /\ jar'[c].nonce = jar'[c].pkce
               /\ jar'[c].session \in Callbacks \cup {None}
               /\ (jar'[c].session = k /\ c = b) \/ jar'[c].session = jar[c].session
    BY <1>5, <1>6 DEF Inv, Carried, Cookies
  <2>4. ASSUME NEW c \in Browsers, NEW s \in Callbacks, jar[c].session = s
        PROVE  HasSession(c, s)'
    <3>1. HasSession(c, s)
      BY <2>4, LoginAssumption DEF Inv, Carried
    <3> QED
      BY <1>4, <3>1, HasSessionStays
  <2>5. ASSUME NEW c \in Browsers, NEW s \in Callbacks, jar'[c].session = s
        PROVE  HasSession(c, s)'
    BY <2>2, <2>3, <2>4, <2>5 DEF HasSession
  <2> QED
    BY <2>3, <2>5 DEF Carried, HasSession
<1>10. LoggedOutStaysOut'
  <2>1. k \notin ended
    BY <1>1 DEF Inv, Leaving
  <2>2. \A s \in ended : \A c \in Browsers : jar'[c].session # s
    BY <1>5, <1>6, <2>1 DEF Inv, LoggedOutStaysOut
  <2> QED
    BY <1>2, <2>2 DEF Inv, LoggedOutStaysOut
<1>11. Calling'
  <2>1. UnderWay(k) /\ stage' = stage
    BY <1>2 DEF Inv, Calling
  <2>2. UnderWay(k)'
    BY <1>1, <1>3, <2>1 DEF UnderWay, Moves
  <2> QED
    BY <1>3, <1>4, <2>2, CallingStays DEF Moves
<1>12. Redeeming'
  BY <1>1, <1>2, <1>3, <1>4, RedeemingStays DEF Redeemed, Moves
<1>13. Refusing'
  BY <1>3, <1>4, CauseStays DEF Moves, Refusing
<1> QED
  BY <1>7, <1>8, <1>9, <1>10, <1>11, <1>12, <1>13 DEF Inv

-----------------------------------------------------------------------------
\* The steps outside of callbacks leave the callbacks as they are, and with them
\* what is known of verifiers, codes and refusals.
LEMMA CallbacksStay ==
  ASSUME Inv, Onward, cb' = cb,
         \A k \in Callbacks : sessStore'[k] \in {sessStore[k], None}
  PROVE  Calling' /\ Redeeming' /\ Refusing'
<1>1. ASSUME NEW k \in Callbacks PROVE UnderWay(k)'
  <2>1. UnderWay(k)
    BY DEF Inv, Calling
  <2>2. cb[k].pc # "idle" => stage'[cb[k].login] = "code"
    BY <2>1 DEF UnderWay, Onward
  <2> QED
    BY <2>1, <2>2 DEF UnderWay
<1>2. Calling'
  BY <1>1 DEF Calling
<1>3. Redeeming'
  <2>1. \A k \in Callbacks : Redeemed(k)' => Redeemed(k)
    BY DEF Redeemed
  <2> QED
    BY <2>1 DEF Inv, Redeeming, Onward
<1>4. Refusing'
  BY CauseStays DEF Refusing
<1> QED
  BY <1>2, <1>3, <1>4

\* A login files its verifier before the browser knows of it.
LEMMA HandleLoginKeeps ==
  ASSUME Inv, NEW l \in Logins, NEW b \in Browsers, HandleLogin(l, b)
  PROVE  Inv'
<1>1. /\ stage[l] = "idle"
      /\ stage' = [stage EXCEPT ![l] = "redirected"]
      /\ at' = [at EXCEPT ![l] = b]
      /\ pkceStore' = [pkceStore EXCEPT ![l] = l]
  BY DEF HandleLogin
<1>2. UNCHANGED <<jar, subject, spent, sessStore, cb, out, probe, restarts, dropped, ended>>
  BY DEF HandleLogin, calls, history
<1>3. TypeOK'
  BY <1>1, <1>2 DEF Inv, TypeOK
<1>4. Onward
  BY <1>1, <1>2 DEF Inv, TypeOK, Onward
<1>5. Filed'
  BY <1>1, <1>2 DEF Inv, TypeOK, Filed
<1> QED
  BY <1>2, <1>3, <1>4, <1>5, CallbacksStay, CarriedStays, LeavingStays, AskingStays,
     LoggedOutStays, GenuineStays DEF Inv

\* A login's cookies come over those of an earlier one; the session stays.
LEMMA ReceiveLoginKeeps ==
  ASSUME Inv, NEW l \in Logins, ReceiveLogin(l)
  PROVE  Inv'
<1> DEFINE b == at[l]
           set == [pkce |-> l, state |-> l, nonce |-> l, session |-> jar[b].session]
<1>1. stage[l] = "redirected" /\ b \in Browsers
  BY DEF ReceiveLogin, Inv, Filed
<1>2. stage' = [stage EXCEPT ![l] = "atOP"] /\ jar' = [jar EXCEPT ![b] = set]
  BY DEF ReceiveLogin
<1>3. UNCHANGED <<at, subject, spent, pkceStore, sessStore, cb, out, probe, restarts,
                  dropped, ended>>
  BY DEF ReceiveLogin, maps, calls, history
<1>4. set \in Cookies /\ set.nonce = set.pkce /\ set.session = jar[b].session
  BY <1>1 DEF Inv, TypeOK, Cookies
<1> HIDE DEF b, set
<1>5. /\ jar' \in [Browsers -> Cookies]
      /\ \A c \in Browsers : jar'[c] = jar[c] \/ (c = b /\ jar'[c] = set)
  BY <1>1, <1>2, <1>4 DEF Inv, TypeOK
<1>6. \A c \in Browsers : jar'[c].session = jar[c].session /\ jar'[c].nonce = jar'[c].pkce
  BY <1>4, <1>5 DEF Inv, Carried
<1>7. TypeOK'
  BY <1>2, <1>3, <1>5 DEF Inv, TypeOK
<1>8. Onward
  BY <1>1, <1>2, <1>3 DEF Inv, TypeOK, Onward
<1>9. Filed'
  BY <1>1, <1>2, <1>3 DEF Inv, TypeOK, Filed
<1>10. Carried'
  BY <1>3, <1>6 DEF Inv, Carried, HasSession
<1>11. LoggedOutStaysOut'
  BY <1>3, <1>6 DEF Inv, LoggedOutStaysOut
<1> QED
  BY <1>3, <1>7, <1>8, <1>9, <1>10, <1>11, CallbacksStay, LeavingStays, AskingStays,
     GenuineStays DEF Inv

\* The provider fixes the user of a login.
LEMMA AuthenticateKeeps ==
  ASSUME Inv, NEW l \in Logins, NEW u \in Users, Authenticate(l, u)
  PROVE  Inv'
<1>1. /\ stage[l] = "atOP"
      /\ stage' = [stage EXCEPT ![l] = "code"]
      /\ subject' = [subject EXCEPT ![l] = u]
  BY DEF Authenticate
<1>2. UNCHANGED <<jar, at, spent, pkceStore, sessStore, cb, out, probe, restarts, dropped,
                  ended>>
  BY DEF Authenticate, maps, calls, history
<1>3. TypeOK'
  BY <1>1, <1>2 DEF Inv, TypeOK
<1>4. Onward
  BY <1>1, <1>2 DEF Inv, TypeOK, Onward
<1>5. Filed'
  BY <1>1, <1>2 DEF Inv, TypeOK, Filed
<1> QED
  BY <1>2, <1>3, <1>4, <1>5, CallbacksStay, CarriedStays, LeavingStays, AskingStays,
     LoggedOutStays, GenuineStays DEF Inv

\* A logout takes the session its browser has.
LEMMA SendLogoutKeeps ==
  ASSUME Inv, NEW x \in Logouts, NEW b \in Browsers, SendLogout(x, b)
  PROVE  Inv'
<1> DEFINE rec == [pc |-> "delete", browser |-> b, sid |-> jar[b].session]
<1>1. out' = [out EXCEPT ![x] = rec]
  BY DEF SendLogout
<1>2. UNCHANGED <<jar, stage, at, subject, spent, pkceStore, sessStore, cb, probe, restarts,
                  dropped, ended>>
  BY DEF SendLogout, loginVars, maps, history
<1>3. rec \in Logout /\ rec.pc = "delete" /\ rec.browser = b /\ rec.sid = jar[b].session
  BY DEF Inv, TypeOK, Logout, Cookies
<1> HIDE DEF rec
<1>4. out'[x] = rec /\ (\A y \in Logouts \ {x} : out'[y] = out[y]) /\ TypeOK'
  BY <1>1, <1>2, <1>3 DEF Inv, TypeOK
<1>5. Onward
  BY <1>2 DEF Onward
<1>6. Leaving'
  BY <1>2, <1>3, <1>4 DEF Inv, Leaving, Carried, HasSession
<1> QED
  BY <1>2, <1>4, <1>5, <1>6, FiledStays, CallbacksStay, CarriedStays, AskingStays,
     LoggedOutStays, GenuineStays DEF Inv

\* The session is deleted before the logout is answered.
LEMMA LogoutDeleteKeeps ==
  ASSUME Inv, NEW x \in Logouts, LogoutDelete(x)
  PROVE  Inv'
<1>1. /\ out[x].pc = "delete" /\ out[x] \in Logout
      /\ out' = [out EXCEPT ![x].pc = "respond"]
  BY DEF LogoutDelete, Inv, TypeOK
<1>2. UNCHANGED <<jar, stage, at, subject, spent, pkceStore, cb, probe, restarts,
                  dropped, ended>>
  BY DEF LogoutDelete, loginVars, history
<1>3. /\ sessStore' \in [Callbacks -> Users \cup {None}]
      /\ \A k \in Callbacks : sessStore'[k] \in {sessStore[k], None}
      /\ out[x].sid # None => sessStore'[out[x].sid] = None
  <2>1. out[x].sid \in Callbacks \cup {None}
    BY <1>1 DEF Logout
  <2> QED
    BY <2>1 DEF LogoutDelete, Inv, TypeOK
<1>4. /\ out'[x] = [pc |-> "respond", browser |-> out[x].browser, sid |-> out[x].sid]
      /\ \A y \in Logouts \ {x} : out'[y] = out[y]
      /\ out' = [y \in Logouts |-> out'[y]]
  BY <1>1 DEF Inv, TypeOK, Logout
<1>5. out'[x] \in Logout
  BY <1>1, <1>4 DEF Logout
<1>6. /\ out'[x].pc = "respond" /\ out'[x].browser = out[x].browser /\ out'[x].sid = out[x].sid
      /\ \A y \in Logouts \ {x} : out'[y] = out[y]
  BY <1>4
<1>7. out' \in [Logouts -> Logout]
  BY <1>4, <1>5 DEF Inv, TypeOK
<1>8. TypeOK'
  BY <1>2, <1>3, <1>7 DEF Inv, TypeOK
<1>9. Onward
  BY <1>2, <1>3 DEF Onward
<1>10. Leaving'
  <2>1. \A y \in Logouts : out[y].sid # None => out[y].sid \in Callbacks
    BY DEF Inv, TypeOK, Logout
  <2>2. ASSUME NEW y \in Logouts
        PROVE  /\ out'[y].pc # "idle" => out'[y].browser \in Browsers
               /\ out'[y].sid # None =>
                    /\ cb[out'[y].sid].pc = "done"
                    /\ at[cb[out'[y].sid].login] = out'[y].browser
               /\ out'[y].pc = "respond" /\ out'[y].sid # None => sessStore'[out'[y].sid] = None
    BY <1>1, <1>3, <1>6, <2>1 DEF Inv, Leaving, HasSession
  <2> QED
    BY <1>2, <2>2 DEF Inv, Leaving, HasSession
<1> QED
  BY <1>2, <1>3, <1>8, <1>9, <1>10, FiledStays, CallbacksStay, CarriedStays, AskingStays,
     LoggedOutStays, GenuineStays DEF Inv

\* The answer clears the cookies of the one browser that had the session.
LEMMA ReceiveLogoutKeeps ==
  ASSUME Inv, NEW x \in Logouts, ReceiveLogout(x)
  PROVE  Inv'
<1> DEFINE b == out[x].browser
           sid == out[x].sid
<1>1. /\ out[x].pc = "respond" /\ b \in Browsers /\ sid \in Callbacks \cup {None}
      /\ sid # None => HasSession(b, sid) /\ sessStore[sid] = None
  BY DEF ReceiveLogout, Inv, Leaving, TypeOK, Logout
<1>2. /\ out' = [out EXCEPT ![x].pc = "done"]
      /\ jar' = [jar EXCEPT ![b] = NoCookies]
      /\ ended' = ended \cup ({sid} \ {None})
  BY DEF ReceiveLogout
<1>3. UNCHANGED <<stage, at, subject, spent, pkceStore, sessStore, cb, probe, restarts,
                  dropped>>
  BY DEF ReceiveLogout, loginVars, maps
<1>4. /\ out'[x] = [pc |-> "done", browser |-> out[x].browser, sid |-> out[x].sid]
      /\ \A y \in Logouts \ {x} : out'[y] = out[y]
      /\ out' = [y \in Logouts |-> out'[y]]
  BY <1>2 DEF Inv, TypeOK, Logout
<1>5. out'[x] \in Logout
  BY <1>4 DEF Inv, TypeOK, Logout
<1>6. /\ out'[x].pc = "done" /\ out'[x].browser = b /\ out'[x].sid = sid
      /\ \A y \in Logouts \ {x} : out'[y] = out[y]
      /\ out' \in [Logouts -> Logout]
  BY <1>4, <1>5 DEF Inv, TypeOK
<1>7. /\ NoCookies \in Cookies /\ NoCookies.nonce = NoCookies.pkce
      /\ NoCookies.session = None
  BY DEF NoCookies, Cookies
<1>8. /\ jar' \in [Browsers -> Cookies] /\ jar'[b] = NoCookies
      /\ \A c \in Browsers \ {b} : jar'[c] = jar[c]
  BY <1>1, <1>2, <1>7 DEF Inv, TypeOK
<1> HIDE DEF b, sid
<1>9. ended' = ended \cup ({sid} \ {None}) /\ ended' \subseteq Callbacks
  BY <1>1, <1>2 DEF Inv, TypeOK
<1>10. TypeOK'
  BY <1>3, <1>6, <1>8, <1>9 DEF Inv, TypeOK
<1>11. Onward
  BY <1>3 DEF Onward
<1>12. Carried'
  BY <1>3, <1>7, <1>8 DEF Inv, Carried, HasSession
<1>13. Leaving'
  <2>1. ASSUME NEW y \in Logouts
        PROVE  /\ out'[y].pc # "idle" => out'[y].browser \in Browsers
               /\ out'[y].sid # None =>
                    /\ cb[out'[y].sid].pc = "done"
                    /\ at[cb[out'[y].sid].login] = out'[y].browser
               /\ out'[y].pc = "respond" /\ out'[y].sid # None => sessStore[out'[y].sid] = None
    BY <1>1, <1>6 DEF Inv, Leaving, HasSession
  <2>2. \A s \in ended' : cb[s].pc = "done"
    BY <1>1, <1>9 DEF Inv, Leaving, HasSession
  <2> QED
    BY <1>3, <2>1, <2>2 DEF Leaving, HasSession
<1>14. LoggedOutStaysOut'
  <2>1. ASSUME NEW s \in ended' PROVE sessStore[s] = None /\ \A c \in Browsers : jar'[c].session # s
    <3>1. s \in Callbacks /\ s # None
      BY <1>9, LoginAssumption
    <3>2. CASE s \in ended
      BY <1>7, <1>8, <3>1, <3>2 DEF Inv, LoggedOutStaysOut
    <3>3. CASE s = sid
      <4>1. ASSUME NEW c \in Browsers \ {b} PROVE jar[c].session # s
        BY <1>1, <3>1, <3>3 DEF Inv, Carried, HasSession
      <4> QED
        BY <1>1, <1>7, <1>8, <3>1, <3>3, <4>1
    <3> QED
      BY <1>9, <3>2, <3>3
  <2> QED
    BY <1>3, <2>1 DEF Inv, LoggedOutStaysOut
<1> QED
  BY <1>3, <1>10, <1>11, <1>12, <1>13, <1>14, FiledStays, CallbacksStay, AskingStays,
     GenuineStays DEF Inv

\* A request carries a session that has not ended.
LEMMA SendProbeKeeps ==
  ASSUME Inv, NEW p \in Probes, NEW b \in Browsers, SendProbe(p, b)
  PROVE  Inv'
<1> DEFINE rec == [pc |-> "lookup", sid |-> jar[b].session, user |-> None, stale |-> ended]
<1>1. probe' = [probe EXCEPT ![p] = rec]
  BY DEF SendProbe
<1>2. UNCHANGED <<jar, stage, at, subject, spent, pkceStore, sessStore, cb, out, restarts,
                  dropped, ended>>
  BY DEF SendProbe, loginVars, maps, history
<1>3. rec \in Probe
  BY DEF Inv, TypeOK, Probe, Cookies
<1>4. rec.pc = "lookup" /\ rec.sid = jar[b].session /\ rec.user = None /\ rec.stale = ended
  OBVIOUS
<1> HIDE DEF rec
<1>5. probe'[p] = rec /\ (\A q \in Probes \ {p} : probe'[q] = probe[q]) /\ TypeOK'
  BY <1>1, <1>2, <1>3 DEF Inv, TypeOK
<1>6. Onward
  BY <1>2 DEF Onward
<1>7. jar[b].session \notin ended /\ (jar[b].session # None => cb[jar[b].session].pc = "done")
  BY DEF Inv, Carried, HasSession, LoggedOutStaysOut
<1>8. Asking'
  BY <1>2, <1>4, <1>5, <1>7 DEF Inv, Asking
<1>9. LoggedOutStaysOut'
  BY <1>2, <1>4, <1>5 DEF Inv, LoggedOutStaysOut
<1>10. SessionsAreGenuine'
  BY <1>2, <1>4, <1>5 DEF Inv, SessionsAreGenuine
<1> QED
  BY <1>2, <1>5, <1>6, <1>8, <1>9, <1>10, FiledStays, CallbacksStay, CarriedStays,
     LeavingStays DEF Inv

\* It is served as the subject of that session, or as nobody.
LEMMA CurrentSessionKeeps ==
  ASSUME Inv, NEW p \in Probes, CurrentSession(p)
  PROVE  Inv'
<1> DEFINE sid == probe[p].sid
           user == IF sid = None THEN None ELSE sessStore[sid]
<1>1. probe[p].pc = "lookup" /\ probe[p] \in Probe /\ sid \in Callbacks \cup {None}
  BY DEF CurrentSession, Inv, TypeOK, Probe
<1>2. probe' = [probe EXCEPT ![p].pc = "done", ![p].user = user]
  BY DEF CurrentSession
<1>3. UNCHANGED <<jar, stage, at, subject, spent, pkceStore, sessStore, cb, out, restarts,
                  dropped, ended>>
  BY DEF CurrentSession, loginVars, maps, history
<1>4. user \in Users \cup {None} /\ (user # None => sid # None /\ user = sessStore[sid])
  BY <1>1 DEF Inv, TypeOK
<1> HIDE DEF user
<1>5. /\ probe'[p] = [pc |-> "done", sid |-> sid, user |-> user, stale |-> probe[p].stale]
      /\ \A q \in Probes \ {p} : probe'[q] = probe[q]
      /\ probe' = [q \in Probes |-> probe'[q]]
  BY <1>2 DEF Inv, TypeOK, Probe
<1>6. probe'[p] \in Probe
  BY <1>1, <1>4, <1>5 DEF Probe
<1>7. /\ probe'[p].pc = "done" /\ probe'[p].sid = sid /\ probe'[p].user = user
      /\ probe'[p].stale = probe[p].stale
      /\ \A q \in Probes \ {p} : probe'[q] = probe[q]
      /\ probe' \in [Probes -> Probe]
  BY <1>5, <1>6 DEF Inv, TypeOK
<1>8. TypeOK'
  BY <1>3, <1>7 DEF Inv, TypeOK
<1>9. Onward
  BY <1>3 DEF Onward
<1>10. Asking'
  BY <1>3, <1>4, <1>7 DEF Inv, Asking
<1>11. LoggedOutStaysOut'
  BY <1>3, <1>4, <1>7 DEF Inv, Asking, LoggedOutStaysOut
<1>12. SessionsAreGenuine'
  <2>1. user # None => user = subject[cb[sid].login]
    BY <1>1, <1>4 DEF Inv, SessionsAreGenuine
  <2> QED
    BY <1>3, <1>7, <2>1 DEF Inv, SessionsAreGenuine
<1> QED
  BY <1>3, <1>8, <1>9, <1>10, <1>11, <1>12, FiledStays, CallbacksStay, CarriedStays,
     LeavingStays DEF Inv

\* The browser drops the cookie of its session.
LEMMA CookieExpiresKeeps ==
  ASSUME Inv, NEW b \in Browsers, CookieExpires(b)
  PROVE  Inv'
<1>1. jar' = [jar EXCEPT ![b].session = None]
  BY DEF CookieExpires
<1>2. UNCHANGED <<stage, at, subject, spent, pkceStore, sessStore, cb, out, probe, restarts,
                  dropped, ended>>
  BY DEF CookieExpires, loginVars, maps, calls, history
<1>3. /\ jar'[b] = [pkce |-> jar[b].pkce, state |-> jar[b].state, nonce |-> jar[b].nonce,
                    session |-> None]
      /\ \A c \in Browsers \ {b} : jar'[c] = jar[c]
      /\ jar' = [c \in Browsers |-> jar'[c]]
  BY <1>1 DEF Inv, TypeOK, Cookies
<1>4. jar'[b] \in Cookies
  BY <1>3 DEF Inv, TypeOK, Cookies
<1>5. /\ jar'[b].pkce = jar[b].pkce /\ jar'[b].nonce = jar[b].nonce /\ jar'[b].session = None
      /\ \A c \in Browsers \ {b} : jar'[c] = jar[c]
      /\ jar' \in [Browsers -> Cookies]
  BY <1>3, <1>4 DEF Inv, TypeOK
<1>6. TypeOK'
  BY <1>2, <1>5 DEF Inv, TypeOK
<1>7. Onward
  BY <1>2 DEF Onward
<1>8. Carried'
  BY <1>2, <1>5 DEF Inv, Carried, HasSession
<1>9. LoggedOutStaysOut'
  BY <1>2, <1>5, LoginAssumption DEF Inv, LoggedOutStaysOut, TypeOK
<1> QED
  BY <1>2, <1>6, <1>7, <1>8, <1>9, FiledStays, CallbacksStay, LeavingStays, AskingStays,
     GenuineStays DEF Inv

\* A restart forgets sessions and verifiers, and remembers that it did.
LEMMA RestartKeeps ==
  ASSUME Inv, Restart
  PROVE  Inv'
<1>1. /\ dropped' = dropped \cup {l \in Logins : pkceStore[l] # None}
      /\ pkceStore' = [l \in Logins |-> None]
      /\ sessStore' = [k \in Callbacks |-> None]
  BY DEF Restart
<1>2. UNCHANGED <<jar, stage, at, subject, spent, ended>>
  BY DEF Restart, loginVars
<1>3. restarts' \in Nat
  BY DEF Restart, Inv, TypeOK
<1>4. /\ cb' \in [Callbacks -> Callback] /\ out' \in [Logouts -> Logout]
      /\ probe' \in [Probes -> Probe]
  BY RestartEffect DEF Inv
<1>5. \A k \in Callbacks :
        /\ cb'[k].pc = IF cb[k].pc \in {"idle", "done"} THEN cb[k].pc ELSE "lost"
        /\ cb'[k].login = cb[k].login /\ cb'[k].cookies = cb[k].cookies
        /\ cb'[k].reply = cb[k].reply /\ cb'[k].fault = cb[k].fault
  BY RestartEffect DEF Inv
<1>6. \A x \in Logouts :
        /\ out'[x].pc = IF out[x].pc \in {"idle", "done"} THEN out[x].pc ELSE "lost"
        /\ out'[x].browser = out[x].browser /\ out'[x].sid = out[x].sid
  BY RestartEffect DEF Inv
<1>7. \A p \in Probes :
        /\ probe'[p].pc = IF probe[p].pc \in {"idle", "done"} THEN probe[p].pc ELSE "lost"
        /\ probe'[p].sid = probe[p].sid /\ probe'[p].user = probe[p].user
        /\ probe'[p].stale = probe[p].stale
  BY RestartEffect DEF Inv
<1>8. TypeOK'
  BY <1>1, <1>2, <1>3, <1>4 DEF Inv, TypeOK
<1>9. Onward
  BY <1>1, <1>2, <1>5 DEF Onward
<1>10. Filed'
  BY <1>1, <1>2, LoginAssumption DEF Inv, Filed
<1>11. Carried'
  BY <1>2, <1>9, CarriedStays
<1>12. Calling'
  <2>1. ASSUME NEW k \in Callbacks PROVE UnderWay(k)'
    <3>1. UnderWay(k)
      BY DEF Inv, Calling
    <3>2. cb[k].pc # "idle" => stage'[cb[k].login] = "code"
      BY <1>2, <3>1 DEF UnderWay
    <3> QED
      BY <1>5, <3>1, <3>2 DEF UnderWay
  <2> QED
    BY <2>1 DEF Calling
<1>13. Redeeming'
  BY <1>1, <1>5 DEF Redeeming, Redeemed
<1>14. Leaving'
  <2>1. ASSUME NEW x \in Logouts, out[x].sid # None
        PROVE  out[x].sid \in Callbacks /\ HasSession(out[x].browser, out[x].sid)
    BY <2>1 DEF Inv, Leaving, TypeOK, Logout
  <2>2. ASSUME NEW x \in Logouts, out'[x].sid # None
        PROVE  cb'[out'[x].sid].pc = "done" /\ at'[cb'[out'[x].sid].login] = out'[x].browser
    BY <1>2, <1>5, <1>6, <2>1, <2>2 DEF HasSession
  <2>3. ASSUME NEW x \in Logouts PROVE out'[x].pc # "respond" /\
                                       (out'[x].pc # "idle" => out'[x].browser \in Browsers)
    BY <1>6 DEF Inv, Leaving
  <2>4. \A s \in ended' : cb'[s].pc = "done"
    BY <1>2, <1>5 DEF Inv, Leaving, TypeOK
  <2> QED
    BY <2>2, <2>3, <2>4 DEF Leaving, HasSession
<1>15. Asking'
  <2>1. ASSUME NEW p \in Probes, probe'[p].sid # None PROVE cb'[probe'[p].sid].pc = "done"
    <3>1. probe[p].sid \in Callbacks /\ cb[probe[p].sid].pc = "done"
      BY <1>7, <2>1 DEF Inv, Asking, TypeOK, Probe
    <3> QED
      BY <1>5, <1>7, <3>1
  <2> QED
    BY <1>7, <2>1 DEF Inv, Asking
<1>16. LoggedOutStaysOut'
  BY <1>1, <1>2, <1>7 DEF Inv, LoggedOutStaysOut, TypeOK
<1>17. SessionsAreGenuine'
  <2>1. ASSUME NEW p \in Probes, probe[p].user # None PROVE probe[p].sid \in Callbacks
    BY <2>1 DEF Inv, Asking, TypeOK, Probe
  <2>2. ASSUME NEW p \in Probes, probe'[p].user # None
        PROVE  probe'[p].user = subject'[cb'[probe'[p].sid].login]
    BY <1>2, <1>5, <1>7, <2>1, <2>2 DEF Inv, SessionsAreGenuine
  <2> QED
    BY <1>1, <2>2 DEF SessionsAreGenuine
<1>18. Refusing'
  BY <1>5, <1>9, CauseStays DEF Refusing
<1> QED
  BY <1>8, <1>10, <1>11, <1>12, <1>13, <1>14, <1>15, <1>16, <1>17, <1>18 DEF Inv

\* Every step of server, browsers and OP keeps the invariant.
LEMMA InvStep == Inv /\ [Next]_vars => Inv'
<1> SUFFICES ASSUME Inv, [Next]_vars PROVE Inv'
  OBVIOUS
<1>1. ASSUME NEW l \in Logins,
             (\E b \in Browsers : HandleLogin(l, b)) \/ ReceiveLogin(l)
               \/ \E u \in Users : Authenticate(l, u)
      PROVE  Inv'
  BY <1>1, HandleLoginKeeps, ReceiveLoginKeeps, AuthenticateKeeps
<1>2. ASSUME NEW k \in Callbacks, (\E l \in Logins : SendCallback(k, l)) \/ CallbackStep(k)
      PROVE  Inv'
  BY <1>2, SendCallbackKeeps, CallbackVerifierKeeps, CallbackExchangeKeeps, ExchangeFaultKeeps,
     CallbackTokenKeeps, CallbackSessionKeeps, CallbackForgetKeeps, ReceiveCallbackKeeps
  DEF CallbackStep
<1>3. ASSUME NEW x \in Logouts,
             (\E b \in Browsers : SendLogout(x, b)) \/ LogoutDelete(x) \/ ReceiveLogout(x)
      PROVE  Inv'
  BY <1>3, SendLogoutKeeps, LogoutDeleteKeeps, ReceiveLogoutKeeps
<1>4. ASSUME NEW p \in Probes, (\E b \in Browsers : SendProbe(p, b)) \/ CurrentSession(p)
      PROVE  Inv'
  BY <1>4, SendProbeKeeps, CurrentSessionKeeps
<1>5. ASSUME NEW b \in Browsers, CookieExpires(b) PROVE Inv'
  BY <1>5, CookieExpiresKeeps
<1>6. CASE Next
  BY <1>1, <1>2, <1>3, <1>4, <1>5, <1>6, RestartKeeps DEF Next
<1>7. CASE UNCHANGED vars
  <2>1. UNCHANGED <<jar, stage, at, subject, spent, pkceStore, sessStore, cb, out, probe,
                    restarts, dropped, ended>>
    BY <1>7 DEF vars, loginVars, maps, calls, history
  <2>2. Onward
    BY <2>1 DEF Onward
  <2>3. TypeOK'
    BY <2>1 DEF Inv, TypeOK
  <2> QED
    BY <2>1, <2>2, <2>3, FiledStays, CallbacksStay, CarriedStays, LeavingStays, AskingStays,
       LoggedOutStays, GenuineStays DEF Inv
<1> QED
  BY <1>6, <1>7

-----------------------------------------------------------------------------
\* The invariant holds throughout.
LEMMA Invariance == Spec => []Inv
BY InvInit, InvStep, PTL DEF Spec

\* The maps, cookies and requests keep their kinds, and the two maps and the
\* cookie jars hold only what the login or the callback they name has put there.
THEOREM LoginTypeCorrect == Spec => [](TypeOK /\ Filed /\ Carried)
<1>1. Inv => TypeOK /\ Filed /\ Carried
  BY DEF Inv
<1> QED
  BY <1>1, Invariance, PTL

\* HandleCallback turns a login away only for a fault on the way, a code that is
\* spent, cookies of another login, or a verifier that a restart has dropped; a
\* redeemed code is never lost to the nonce check.
THEOREM RefusalsHaveCause == Spec => []RefusedForCause
<1>1. Inv => RefusedForCause
  <2> SUFFICES ASSUME Inv, NEW k \in Callbacks
               PROVE  Excused(k) /\ (cb[k].pc = "token" => NonceOK(k))
    BY DEF RefusedForCause, Excused
  <2>1. Excused(k)
    BY DEF Inv, Refusing
  <2>2. cb[k].pc = "token" => NonceOK(k)
    BY DEF Inv, Calling, UnderWay, NonceOK
  <2> QED
    BY <2>1, <2>2
<1> QED
  BY <1>1, Invariance, PTL

\* A session whose logout the browser has seen answered is gone from SessStore
\* and from every cookie jar, for good, whatever response comes late.
THEOREM LogoutIsFinal == Spec => []LoggedOutStaysOut
<1>1. Inv => LoggedOutStaysOut
  BY DEF Inv
<1> QED
  BY <1>1, Invariance, PTL

\* Every session, and every request that CurrentSession answers, is of the
\* subject who authenticated in the one login whose code the session's callback
\* redeemed.
THEOREM SessionsGenuine == Spec => []SessionsAreGenuine
<1>1. Inv => SessionsAreGenuine
  BY DEF Inv
<1> QED
  BY <1>1, Invariance, PTL

=============================================================================
