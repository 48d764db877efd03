----------------------------- MODULE WalletLogin -----------------------------
(***************************************************************************)
(* Login, sessions and logout of the wallet server                         *)
(* (zk-wallet-go/internal/app/handlers/auth_handlers.go and                *)
(* server/reqctx.go) as an OIDC client.  The server keeps two maps in      *)
(* memory, PKCEStore and SessStore, each under a lock of its own; the rest *)
(* of a login's state is in the cookies of the browser.                    *)
(*                                                                         *)
(* Several tabs of a browser share its cookies and act independently.  A   *)
(* request carries the cookies of the moment it was sent; the Set-Cookie   *)
(* headers of its response apply when the response arrives, and responses  *)
(* overtake each other.  The OIDC provider (OP) is external: it binds a    *)
(* code to the challenge of its login and redeems it once.                 *)
(*                                                                         *)
(* The verifier, state and nonce one HandleLogin draws are all named by    *)
(* that login, a session id by the callback that creates it.               *)
(***************************************************************************)
EXTENDS Naturals

CONSTANTS
  Browsers,
  Users,        \* subjects known to the OP
  Logins,       \* calls of GET /login
  Callbacks,    \* calls of GET /callback, reloads of the page included
  Logouts,      \* calls of GET or POST /logout
  Probes,       \* calls of GET /me: any handler that asks CurrentSession
  MaxRestarts,  \* bound on restarts of the wallet server
  None          \* absence of a value

Cookies == [pkce : Logins \cup {None}, state : Logins \cup {None},
            nonce : Logins \cup {None}, session : Callbacks \cup {None}]
NoCookies == [pkce |-> None, state |-> None, nonce |-> None, session |-> None]

ASSUME LoginAssumption ==
  /\ MaxRestarts \in Nat
  /\ None \notin Logins \cup Callbacks \cup Users \cup Browsers

VARIABLES
  jar,        \* the cookies of each browser
  stage,      \* how far each login has come
  at,         \* the browser of each login
  subject,    \* who authenticated at the OP in a login
  spent,      \* logins whose code the OP has redeemed or withdrawn
  pkceStore,  \* config.PKCEStore: verifier by state
  sessStore,  \* config.SessStore: subject by session id
  cb,         \* the callback requests
  out,        \* the logout requests
  probe,      \* the /me requests
  restarts,   \* restarts of the server so far
  dropped,    \* history: verifiers a restart has dropped from pkceStore
  ended       \* history: sessions whose logout the browser has seen answered

maps == <<pkceStore, sessStore>>
loginVars == <<stage, at, subject>>
calls == <<cb, out, probe>>
history == <<restarts, dropped, ended>>
vars == <<jar, loginVars, spent, maps, calls, history>>

Callback == [pc : {"idle", "verifier", "exchange", "token", "session", "forget",
                   "respond", "done", "lost"},
             login : Logins \cup {None}, cookies : Cookies,
             verifier : Logins \cup {None}, reply : {"", "ok", "refused"},
             fault : BOOLEAN]
Logout == [pc : {"idle", "delete", "respond", "done", "lost"},
           browser : Browsers \cup {None}, sid : Callbacks \cup {None}]
Probe == [pc : {"idle", "lookup", "done", "lost"}, sid : Callbacks \cup {None},
          user : Users \cup {None}, stale : SUBSET Callbacks]

Init ==
  /\ jar = [b \in Browsers |-> NoCookies]
  /\ stage = [l \in Logins |-> "idle"]
  /\ at = [l \in Logins |-> None]
  /\ subject = [l \in Logins |-> None]
  /\ spent = {}
  /\ pkceStore = [l \in Logins |-> None]
  /\ sessStore = [k \in Callbacks |-> None]
  /\ cb = [k \in Callbacks |-> [pc |-> "idle", login |-> None, cookies |-> NoCookies,
                                verifier |-> None, reply |-> "", fault |-> FALSE]]
  /\ out = [x \in Logouts |-> [pc |-> "idle", browser |-> None, sid |-> None]]
  /\ probe = [p \in Probes |-> [pc |-> "idle", sid |-> None, user |-> None, stale |-> {}]]
  /\ restarts = 0
  /\ dropped = {}
  /\ ended = {}

-----------------------------------------------------------------------------
(***************************************************************************)
(* HandleLogin, and the way through the OP.                                *)
(***************************************************************************)

\* Mutant: the verifier is left to the cookie alone.
HandleLoginCookieOnly(l, b) ==
  /\ stage[l] = "idle"
  /\ stage' = [stage EXCEPT ![l] = "redirected"]
  /\ at' = [at EXCEPT ![l] = b]
  /\ UNCHANGED <<jar, subject, spent, maps, calls, history>>

\* The server draws verifier, state and nonce and files the verifier by state.
HandleLogin(l, b) ==
  /\ stage[l] = "idle"
  /\ stage' = [stage EXCEPT ![l] = "redirected"]
  /\ at' = [at EXCEPT ![l] = b]
  /\ pkceStore' = [pkceStore EXCEPT ![l] = l]
  /\ UNCHANGED <<jar, subject, spent, sessStore, calls, history>>

\* Its response: three cookies, over those of any login begun before in the
\* browser, and the redirect to the OP.
ReceiveLogin(l) ==
  /\ stage[l] = "redirected"
  /\ stage' = [stage EXCEPT ![l] = "atOP"]
  /\ jar' = [jar EXCEPT ![at[l]] = [pkce |-> l, state |-> l, nonce |-> l,
                                    session |-> @.session]]
  /\ UNCHANGED <<at, subject, spent, maps, calls, history>>

\* prompt=login, max_age=0: the OP authenticates whoever sits there and sends
\* the browser back with a code.  A login that stops before is abandoned.
Authenticate(l, u) ==
  /\ stage[l] = "atOP"
  /\ stage' = [stage EXCEPT ![l] = "code"]
  /\ subject' = [subject EXCEPT ![l] = u]
  /\ UNCHANGED <<jar, at, spent, maps, calls, history>>

-----------------------------------------------------------------------------
(***************************************************************************)
(* HandleCallback.                                                         *)
(***************************************************************************)

\* The redirect of the OP, or a reload of its URL.
SendCallback(k, l) ==
  /\ cb[k].pc = "idle"
  /\ stage[l] = "code"
  /\ cb' = [cb EXCEPT ![k] = [pc |-> "verifier", login |-> l, cookies |-> jar[at[l]],
                              verifier |-> None, reply |-> "", fault |-> FALSE]]
  /\ UNCHANGED <<jar, loginVars, spent, maps, out, probe, history>>

Refuse(k, fault) ==
  cb' = [cb EXCEPT ![k].pc = "respond", ![k].reply = "refused", ![k].fault = fault]

\* The cookie's verifier comes first, the one filed under the state second.
Verifier(k) ==
  IF cb[k].cookies.pkce # None THEN cb[k].cookies.pkce ELSE pkceStore[cb[k].login]

\* A state that differs from the cookie's is logged and nothing more.
CallbackVerifier(k) ==
  /\ cb[k].pc = "verifier"
  /\ IF Verifier(k) = None
     THEN Refuse(k, FALSE)
     ELSE cb' = [cb EXCEPT ![k].pc = "exchange", ![k].verifier = Verifier(k)]
  /\ UNCHANGED <<jar, loginVars, spent, maps, out, probe, history>>

\* Exchange: the OP redeems an unspent code for the verifier of its challenge.
\* When it refuses a verifier it may withdraw the code.
CallbackExchange(k) ==
  LET l == cb[k].login IN
  /\ cb[k].pc = "exchange"
  /\ \/ /\ l \notin spent /\ cb[k].verifier = l
        /\ spent' = spent \cup {l}
        /\ cb' = [cb EXCEPT ![k].pc = "token"]
     \/ /\ l \in spent \/ cb[k].verifier # l
        /\ spent' \in {spent, spent \cup {l}}
        /\ Refuse(k, FALSE)
  /\ UNCHANGED <<jar, loginVars, maps, out, probe, history>>

\* Exchange fails on the way: the OP may have redeemed the code.
ExchangeFault(k) ==
  /\ cb[k].pc = "exchange"
  /\ spent' \in {spent, spent \cup {cb[k].login}}
  /\ Refuse(k, TRUE)
  /\ UNCHANGED <<jar, loginVars, maps, out, probe, history>>

\* The nonce check applies only when the request carries the cookie.
NonceOK(k) == cb[k].cookies.nonce \in {None, cb[k].login}

\* With an id_token the nonce is compared; without one the subject comes from
\* /userinfo and there is nothing to compare.
CallbackToken(k) ==
  /\ cb[k].pc = "token"
  /\ \E idToken \in BOOLEAN :
       IF idToken /\ ~NonceOK(k)
       THEN Refuse(k, FALSE)
       ELSE cb' = [cb EXCEPT ![k].pc = "session"]
  /\ UNCHANGED <<jar, loginVars, spent, maps, out, probe, history>>

\* The token does not verify or parse, or /userinfo fails or has no sub.
TokenFault(k) ==
  /\ cb[k].pc = "token"
  /\ Refuse(k, TRUE)
  /\ UNCHANGED <<jar, loginVars, spent, maps, out, probe, history>>

\* Mutant: the session is filed under the browser's old session id.
CallbackSessionReused(k) ==
  LET old == cb[k].cookies.session
      sid == IF old = None THEN k ELSE old IN
  /\ cb[k].pc = "session"
  /\ sessStore' = [sessStore EXCEPT ![sid] = subject[cb[k].login]]
  /\ cb' = [cb EXCEPT ![k].pc = "forget"]
  /\ UNCHANGED <<jar, loginVars, spent, pkceStore, out, probe, history>>

\* A fresh session; one the browser had before stays in the map.
CallbackSession(k) ==
  /\ cb[k].pc = "session"
  /\ sessStore' = [sessStore EXCEPT ![k] = subject[cb[k].login]]
  /\ cb' = [cb EXCEPT ![k].pc = "forget"]
  /\ UNCHANGED <<jar, loginVars, spent, pkceStore, out, probe, history>>

CallbackForget(k) ==
  /\ cb[k].pc = "forget"
  /\ pkceStore' = [pkceStore EXCEPT ![cb[k].login] = None]
  /\ cb' = [cb EXCEPT ![k].pc = "respond", ![k].reply = "ok"]
  /\ UNCHANGED <<jar, loginVars, spent, sessStore, out, probe, history>>

\* Success clears the cookies of the login, whichever login set them, and
\* sets the session; a refusal leaves the cookies alone.
ReceiveCallback(k) ==
  /\ cb[k].pc = "respond"
  /\ cb' = [cb EXCEPT ![k].pc = "done"]
  /\ jar' = IF cb[k].reply = "ok"
            THEN [jar EXCEPT ![at[cb[k].login]] = [NoCookies EXCEPT !.session = k]]
            ELSE jar
  /\ UNCHANGED <<loginVars, spent, maps, out, probe, history>>

-----------------------------------------------------------------------------
(***************************************************************************)
(* HandleLogout, HandleMe, and what happens to cookies and maps besides.   *)
(***************************************************************************)
SendLogout(x, b) ==
  /\ out[x].pc = "idle"
  /\ out' = [out EXCEPT ![x] = [pc |-> "delete", browser |-> b, sid |-> jar[b].session]]
  /\ UNCHANGED <<jar, loginVars, spent, maps, cb, probe, history>>

\* Mutant: the session is left in the map.
LogoutKeepsSession(x) ==
  /\ out[x].pc = "delete"
  /\ out' = [out EXCEPT ![x].pc = "respond"]
  /\ UNCHANGED <<jar, loginVars, spent, maps, cb, probe, history>>

LogoutDelete(x) ==
  /\ out[x].pc = "delete"
  /\ sessStore' = IF out[x].sid = None THEN sessStore
                  ELSE [sessStore EXCEPT ![out[x].sid] = None]
  /\ out' = [out EXCEPT ![x].pc = "respond"]
  /\ UNCHANGED <<jar, loginVars, spent, pkceStore, cb, probe, history>>

\* All four cookies expire, those of a login under way included.
ReceiveLogout(x) ==
  /\ out[x].pc = "respond"
  /\ out' = [out EXCEPT ![x].pc = "done"]
  /\ jar' = [jar EXCEPT ![out[x].browser] = NoCookies]
  /\ ended' = ended \cup ({out[x].sid} \ {None})
  /\ UNCHANGED <<loginVars, spent, maps, cb, probe, restarts, dropped>>

SendProbe(p, b) ==
  /\ probe[p].pc = "idle"
  /\ probe' = [probe EXCEPT ![p] = [pc |-> "lookup", sid |-> jar[b].session,
                                    user |-> None, stale |-> ended]]
  /\ UNCHANGED <<jar, loginVars, spent, maps, cb, out, history>>

\* CurrentSession: no cookie or no session is an error, and 401.
CurrentSession(p) ==
  /\ probe[p].pc = "lookup"
  /\ probe' = [probe EXCEPT ![p].pc = "done",
                            ![p].user = IF probe[p].sid = None THEN None
                                        ELSE sessStore[probe[p].sid]]
  /\ UNCHANGED <<jar, loginVars, spent, maps, cb, out, history>>

\* The session cookie has MaxAge 3600; the session itself has no age.
CookieExpires(b) ==
  /\ jar[b].session # None
  /\ jar' = [jar EXCEPT ![b].session = None]
  /\ UNCHANGED <<loginVars, spent, maps, calls, history>>

\* Both maps are process memory; requests in flight get no response.
Lose(c) == IF c.pc \in {"idle", "done"} THEN c ELSE [c EXCEPT !.pc = "lost"]
Restart ==
  /\ restarts < MaxRestarts
  /\ restarts' = restarts + 1
  /\ dropped' = dropped \cup {l \in Logins : pkceStore[l] # None}
  /\ pkceStore' = [l \in Logins |-> None]
  /\ sessStore' = [k \in Callbacks |-> None]
  /\ cb' = [k \in Callbacks |-> Lose(cb[k])]
  /\ out' = [x \in Logouts |-> Lose(out[x])]
  /\ probe' = [p \in Probes |-> Lose(probe[p])]
  /\ UNCHANGED <<jar, loginVars, spent, ended>>

-----------------------------------------------------------------------------
CallbackStep(k) ==
  \/ CallbackVerifier(k) \/ CallbackExchange(k) \/ ExchangeFault(k) \/ CallbackToken(k)
  \/ TokenFault(k) \/ CallbackSession(k) \/ CallbackForget(k) \/ ReceiveCallback(k)

Next ==
  \/ \E l \in Logins :
       \/ \E b \in Browsers : HandleLogin(l, b)
       \/ ReceiveLogin(l)
       \/ \E u \in Users : Authenticate(l, u)
  \/ \E k \in Callbacks :
       (\E l \in Logins : SendCallback(k, l)) \/ CallbackStep(k)
  \/ \E x \in Logouts :
       (\E b \in Browsers : SendLogout(x, b)) \/ LogoutDelete(x) \/ ReceiveLogout(x)
  \/ \E p \in Probes : (\E b \in Browsers : SendProbe(p, b)) \/ CurrentSession(p)
  \/ \E b \in Browsers : CookieExpires(b)
  \/ Restart

Spec == Init /\ [][Next]_vars

-----------------------------------------------------------------------------
\* Every variable holds a value of its kind.
TypeOK ==
  /\ jar \in [Browsers -> Cookies]
  /\ stage \in [Logins -> {"idle", "redirected", "atOP", "code"}]
  /\ at \in [Logins -> Browsers \cup {None}]
  /\ subject \in [Logins -> Users \cup {None}]
  /\ spent \subseteq Logins
  /\ pkceStore \in [Logins -> Logins \cup {None}]
  /\ sessStore \in [Callbacks -> Users \cup {None}]
  /\ cb \in [Callbacks -> Callback]
  /\ out \in [Logouts -> Logout]
  /\ probe \in [Probes -> Probe]
  /\ restarts \in Nat
  /\ dropped \subseteq Logins
  /\ ended \subseteq Callbacks

\* The cookies with which a callback was sent are those of its own login or gone.
Undisturbed(k) == cb[k].cookies.pkce \in {cb[k].login, None}

\* HandleCallback turns a login away only because the OP or the network failed,
\* because its code was spent before, because another login in the browser had
\* replaced the cookies, or because a restart dropped the verifier the cookie no
\* longer has.  "missing pkce verifier" and "nonce mismatch" alone never stop a
\* login, whatever logouts, reloads and other logins come in between: the map
\* keeps the verifier until the code is redeemed, and a code that was redeemed
\* never meets a foreign nonce, since the nonce cookie comes and goes with the
\* verifier's.
RefusedForCause ==
  \A k \in Callbacks :
    /\ cb[k].reply = "refused" =>
         \/ cb[k].fault
         \/ cb[k].login \in spent
         \/ ~Undisturbed(k)
         \/ cb[k].cookies.pkce = None /\ cb[k].login \in dropped
    /\ cb[k].pc = "token" => NonceOK(k)

\* Once a browser has seen its logout answered, the session is gone from the map
\* and no cookie brings it back, not the late response of a callback either; a
\* request sent from then on is never served as that session.
LoggedOutStaysOut ==
  /\ \A s \in ended :
       sessStore[s] = None /\ \A b \in Browsers : jar[b].session # s
  /\ \A p \in Probes : probe[p].sid \in probe[p].stale => probe[p].user = None

\* A session is the one its callback created: its subject is who authenticated in
\* the login whose code that callback redeemed, and every request is served as
\* such a subject, even when users take turns in the tabs of one browser.
SessionsAreGenuine ==
  /\ \A k \in Callbacks :
       sessStore[k] # None =>
         /\ sessStore[k] = subject[cb[k].login]
         /\ cb[k].login \in spent
         /\ \A j \in Callbacks \ {k} :
              sessStore[j] # None => cb[j].login # cb[k].login
  /\ \A p \in Probes :
       probe[p].user # None => probe[p].user = subject[cb[probe[p].sid].login]
=============================================================================
