------------------------------ MODULE Sessions ------------------------------
(***************************************************************************)
(* Signing in and staying signed in, in the driver's app: its auth store   *)
(* (store/authStore), its one door to the server (services/api), and the   *)
(* handlers behind it (auth.service, middleware/auth).                     *)
(*                                                                         *)
(* A phone is handed from account to account.  Its storage outlives the    *)
(* process; requests, the shared refresh and the store in memory do not.   *)
(* A step is what runs between two answers of the network: reads and       *)
(* writes of the phone's storage in between take no time of their own.     *)
(*                                                                         *)
(* The RefreshToken rows and lastSeenAt, which nothing here reads, are     *)
(* left out, as is the pause after a 429, which only skips requests.       *)
(***************************************************************************)
EXTENDS Naturals, FiniteSets

CONSTANTS
  Accounts,  \* driver accounts used on this phone
  New,       \* BOUND: those that do not exist at the start
  Followed,  \* BOUND: those that are blocked, unblocked and onboarded
  Get,       \* the GET /drivers/me under way: every caller shares it (inFlightGets)
  Posts,     \* BOUND: other requests of the app under way at a time
  None       \* no account

ASSUME NoneAssumption == None \notin Accounts
ASSUME AccountsAssumption == New \subseteq Accounts /\ Followed \subseteq Accounts
ASSUME GetAssumption == Get \notin Posts

Reqs == Posts \cup {Get}

VARIABLES
  status,   \* User.status, NONE before the account exists
  done,     \* does /drivers/me show this account onboarded?
  store,    \* AsyncStorage: tokens, user, rememberMe, onboardingComplete
  mem,      \* useAuthStore: user, onboardingComplete
  sign,     \* the sign-in (or the hydration at start) under way
  refresh,  \* refreshPromise: whose refresh token was sent, and its answer
  req,      \* requests under way
  crossed   \* history: did a request or a refresh outlive its sign-in?

server == <<status, done>>
vars == <<status, done, store, mem, sign, refresh, req, crossed>>

NoToken == [of |-> None, fresh |-> FALSE]
Token(u) == [of |-> u, fresh |-> TRUE]
EmptyStore == [access |-> NoToken, refresh |-> None, user |-> None,
               remember |-> TRUE, onboarded |-> FALSE]
SignedOut == [user |-> None, onboarded |-> FALSE]
NoSign == [pc |-> "none", of |-> None]
NoRefresh == [pc |-> "none", of |-> None]
NoReq == [pc |-> "idle", by |-> None, tok |-> NoToken, runs |-> 0]

Init ==
  /\ status = [u \in Accounts |-> IF u \in New THEN "NONE" ELSE "ACTIVE"]
  /\ done = [u \in Accounts |-> FALSE]
  /\ store = EmptyStore /\ mem = SignedOut
  /\ sign = NoSign /\ refresh = NoRefresh
  /\ req = [q \in Reqs |-> NoReq]
  /\ crossed = FALSE

UnderWay(q) == req[q].pc # "idle"
Waiting == {q \in Reqs : req[q].pc = "waiting"}

-----------------------------------------------------------------------------
(* Signing in: /auth/login, /auth/google, /auth/register.                    *)

CanSignIn == mem.user = None /\ sign = NoSign

Saved(u, remember) ==
  [store EXCEPT !.access = Token(u), !.refresh = u, !.user = u, !.remember = remember]

\* Mutant: the access token of an earlier session stays.
LoginKeepsAccess(u, remember) ==
  /\ CanSignIn /\ status[u] = "ACTIVE"
  /\ store' = [Saved(u, remember) EXCEPT
                 !.access = IF store.access = NoToken THEN @ ELSE store.access]
  /\ sign' = [pc |-> "saved", of |-> u]
  /\ UNCHANGED <<server, mem, refresh, req, crossed>>

\* The answer's tokens are stored; one that does not arrive changes nothing.
Login(u, remember) ==
  /\ CanSignIn /\ status[u] = "ACTIVE"
  /\ store' = Saved(u, remember)
  /\ sign' = [pc |-> "saved", of |-> u]
  /\ UNCHANGED <<server, mem, refresh, req, crossed>>

\* A first Google sign-in creates the account, whether its answer arrives or not.
GoogleLogin(u, remember) ==
  /\ CanSignIn /\ status[u] \in {"NONE", "ACTIVE"}
  /\ status' = [status EXCEPT ![u] = "ACTIVE"]
  /\ \/ /\ store' = Saved(u, remember)
        /\ sign' = [pc |-> "saved", of |-> u]
     \/ UNCHANGED <<store, sign>>
  /\ UNCHANGED <<done, mem, refresh, req, crossed>>

\* A new account is not onboarded, and the stored mark is not looked at.
Register(u) ==
  /\ CanSignIn /\ status[u] = "NONE"
  /\ status' = [status EXCEPT ![u] = "ACTIVE"]
  /\ \/ /\ store' = Saved(u, TRUE)
        /\ mem' = [user |-> u, onboarded |-> FALSE]
     \/ UNCHANGED <<store, mem>>
  /\ UNCHANGED <<done, sign, refresh, req, crossed>>

Enter(onboarded) ==
  /\ store' = [store EXCEPT !.onboarded = @ \/ onboarded]
  /\ mem' = [user |-> sign.of, onboarded |-> onboarded]
  /\ sign' = NoSign

\* The stored answer, if there is one, spares the question to the server.
EnterAsStored ==
  /\ sign.pc = "saved" /\ store.onboarded
  /\ Enter(TRUE)
  /\ UNCHANGED <<server, refresh, req, crossed>>

Sent(q, by) ==
  req' = [req EXCEPT ![q] = [NoReq EXCEPT !.pc = "sent", !.by = by, !.tok = store.access]]

\* GET /drivers/me: one under way is joined, whoever asked for it.
AskOnboarded ==
  /\ sign.pc = "saved" /\ ~store.onboarded
  /\ IF UnderWay(Get) THEN UNCHANGED req ELSE Sent(Get, sign.of)
  /\ sign' = [sign EXCEPT !.pc = "checking"]
  /\ UNCHANGED <<server, store, mem, refresh, crossed>>

-----------------------------------------------------------------------------
(* apiRequest, and requireAuth on the other side.                            *)

\* A screen asks for /drivers/me, or posts something.  With the GET under way
\* another one only joins it.
Call(q) ==
  /\ mem.user # None /\ sign = NoSign /\ ~UnderWay(q)
  /\ Sent(q, mem.user)
  /\ UNCHANGED <<server, store, mem, sign, refresh, crossed>>

\* Only the token is looked at, not the account.
Execute(q) ==
  /\ req[q].pc \in {"sent", "resent"} /\ req[q].tok.fresh
  /\ req' = [req EXCEPT ![q].pc = "served", ![q].runs = @ + 1]
  /\ UNCHANGED <<server, store, mem, sign, refresh, crossed>>

\* The sign-in waits for the GET, and goes on with its answer.
Continue(q, onboarded) ==
  IF sign.pc = "checking" /\ q = Get
    THEN Enter(onboarded)
    ELSE UNCHANGED <<store, mem, sign>>

Return(q) ==
  /\ req[q].pc = "served"
  /\ Continue(q, done[req[q].tok.of])
  /\ req' = [req EXCEPT ![q] = NoReq]
  /\ UNCHANGED <<server, refresh, crossed>>

\* Mutant: a POST whose answer does not arrive is sent again.
LosePosts(q) ==
  /\ req[q].pc \in {"sent", "resent", "served"}
  /\ IF q # Get /\ req[q].runs < 2
       THEN /\ req' = [req EXCEPT ![q].pc = "sent"]
            /\ UNCHANGED <<store, mem, sign>>
       ELSE /\ req' = [req EXCEPT ![q] = NoReq]
            /\ Continue(q, store.onboarded)
  /\ UNCHANGED <<server, refresh, crossed>>

\* No answer: only a GET is sent again, which is as if it had been slow.
Lose(q) ==
  /\ req[q].pc \in {"sent", "resent", "served"}
  /\ req' = [req EXCEPT ![q] = NoReq]
  /\ Continue(q, store.onboarded)
  /\ UNCHANGED <<server, refresh, crossed>>

\* refreshAccessToken: without a refresh token the answer is no.
StartRefresh ==
  refresh' = IF refresh # NoRefresh THEN refresh
             ELSE [pc |-> IF store.refresh = None THEN "refused" ELSE "sent", of |-> store.refresh]

\* 401, for a token that is missing or has expired (on the way, at the latest).
Refuse(q) ==
  /\ req[q].pc = "sent"
  /\ req' = [req EXCEPT ![q].pc = "waiting", ![q].tok = NoToken]
  /\ StartRefresh
  /\ UNCHANGED <<server, store, mem, sign, crossed>>

\* A second 401 is an error like any other.
RefuseAgain(q) ==
  /\ req[q].pc = "resent"
  /\ req' = [req EXCEPT ![q] = NoReq]
  /\ Continue(q, store.onboarded)
  /\ UNCHANGED <<server, refresh, crossed>>

\* The socket was refused: it shares the refresh, and tries again after it.
SocketRefused ==
  /\ mem.user # None /\ refresh = NoRefresh
  /\ StartRefresh
  /\ UNCHANGED <<server, store, mem, sign, req, crossed>>

\* Mutant: the exchange looks at the token only.
ExchangeUnchecked ==
  /\ refresh.pc = "sent"
  /\ refresh' = [refresh EXCEPT !.pc = "granted"]
  /\ UNCHANGED <<server, store, mem, sign, req, crossed>>

\* POST /auth/refresh: a blocked account gets no new tokens.
Exchange ==
  /\ refresh.pc = "sent"
  /\ refresh' = [refresh EXCEPT !.pc = IF status[refresh.of] = "ACTIVE" THEN "granted" ELSE "refused"]
  /\ UNCHANGED <<server, store, mem, sign, req, crossed>>

\* The network fails: the app takes it for a refusal.
LoseExchange ==
  /\ refresh.pc \in {"sent", "granted"}
  /\ refresh' = [refresh EXCEPT !.pc = "refused"]
  /\ UNCHANGED <<server, store, mem, sign, req, crossed>>

\* Mutant: refreshPromise is not reset.  The promise of the first exchange stays, settled:
\* who waits later is told at once that there are new tokens, and sends the old ones again.
RefreshGrantedForGood ==
  /\ \/ /\ refresh.pc = "granted"
        /\ store' = [store EXCEPT !.access = Token(refresh.of), !.refresh = refresh.of]
        /\ refresh' = [refresh EXCEPT !.pc = "settled"]
     \/ /\ refresh.pc = "settled" /\ Waiting # {}
        /\ UNCHANGED <<store, refresh>>
  /\ req' = [q \in Reqs |-> IF q \in Waiting
                              THEN [req[q] EXCEPT !.pc = "resent", !.tok = store'.access]
                              ELSE req[q]]
  /\ UNCHANGED <<server, mem, sign, crossed>>

\* The new tokens are stored, and everyone who waited sends again.
RefreshGranted ==
  /\ refresh.pc = "granted"
  /\ store' = [store EXCEPT !.access = Token(refresh.of), !.refresh = refresh.of]
  /\ req' = [q \in Reqs |-> IF q \in Waiting
                              THEN [req[q] EXCEPT !.pc = "resent", !.tok = Token(refresh.of)]
                              ELSE req[q]]
  /\ refresh' = NoRefresh
  /\ UNCHANGED <<server, mem, sign, crossed>>

\* A request or a refresh is still under way as the phone changes hands.
Crosses(rest) == crossed' = (crossed \/ refresh' # NoRefresh \/ \E q \in rest : UnderWay(q))

\* Everyone who waited removes the tokens, sends the app back to sign-in and
\* fails.  A sign-in or hydration that waited goes on, with the stored answer.
RefreshRefused ==
  /\ refresh.pc = "refused"
  /\ refresh' = NoRefresh
  /\ req' = [q \in Reqs |-> IF q \in Waiting THEN NoReq ELSE req[q]]
  /\ IF Waiting = {}
       THEN UNCHANGED <<store, mem, sign, crossed>>
       ELSE /\ store' = [store EXCEPT !.access = NoToken, !.refresh = None]
            /\ Crosses(Reqs \ Waiting)
            /\ IF sign.pc = "checking" /\ Get \in Waiting
                 THEN mem' = [user |-> sign.of, onboarded |-> store.onboarded] /\ sign' = NoSign
                 ELSE mem' = [mem EXCEPT !.user = None] /\ UNCHANGED sign
  /\ UNCHANGED server

-----------------------------------------------------------------------------
(* Signing out, onboarding, stopping and starting.                           *)

\* Nothing under way is called off.
Logout ==
  /\ mem.user # None
  /\ store' = EmptyStore /\ mem' = SignedOut
  /\ UNCHANGED <<server, sign, refresh, req>>
  /\ Crosses(Reqs)

\* The last step of OnboardingFlow, after the server has the vehicle.
CompleteOnboarding ==
  /\ mem.user \in Followed /\ ~mem.onboarded
  /\ done' = [done EXCEPT ![mem.user] = TRUE]
  /\ store' = [store EXCEPT !.onboarded = TRUE]
  /\ mem' = [mem EXCEPT !.onboarded = TRUE]
  /\ UNCHANGED <<status, sign, refresh, req, crossed>>

\* The process ends and starts again: hydrate restores the stored user, unless
\* told not to remember it, and asks the server like a sign-in does.
Restart ==
  /\ req' = [q \in Reqs |-> NoReq] /\ refresh' = NoRefresh
  /\ mem' = SignedOut
  /\ sign' = IF store.remember /\ store.user # None
               THEN [pc |-> "saved", of |-> store.user]
               ELSE NoSign
  /\ UNCHANGED <<server, store, crossed>>

-----------------------------------------------------------------------------
(* Time, and staff.                                                          *)

Expire ==
  /\ store.access.fresh
  /\ store' = [store EXCEPT !.access.fresh = FALSE]
  /\ UNCHANGED <<server, mem, sign, refresh, req, crossed>>

Block(u, to) ==
  /\ status[u] # "NONE"
  /\ status' = [status EXCEPT ![u] = to]
  /\ UNCHANGED <<done, store, mem, sign, refresh, req, crossed>>

-----------------------------------------------------------------------------
SignStep ==
  \/ \E u \in Accounts : \/ \E remember \in BOOLEAN : Login(u, remember) \/ GoogleLogin(u, remember)
                         \/ Register(u)
  \/ EnterAsStored \/ AskOnboarded

ReqStep(q) ==
  \/ Call(q) \/ Execute(q) \/ Return(q) \/ Lose(q) \/ Refuse(q) \/ RefuseAgain(q)

RefreshStep == SocketRefused \/ Exchange \/ LoseExchange \/ RefreshGranted \/ RefreshRefused

Next ==
  \/ SignStep
  \/ \E q \in Reqs : ReqStep(q)
  \/ RefreshStep
  \/ Logout \/ CompleteOnboarding \/ Restart \/ Expire
  \/ \E u \in Followed, to \in {"ACTIVE", "BLOCKED"} : Block(u, to)

Spec == Init /\ [][Next]_vars

\* A request times out if nothing else, promises resolve, tokens expire, and
\* the app's screens keep asking: the dispatch screen polls, so that this speaks
\* of a driver who keeps it, or a screen like it, open.  A GET under way takes
\* the place of the one a screen would make.
Fairness ==
  /\ WF_vars(Return(Get) \/ Lose(Get) \/ Refuse(Get) \/ RefuseAgain(Get))
  /\ WF_vars(Exchange) /\ WF_vars(RefreshGranted) /\ WF_vars(RefreshRefused)
  /\ WF_vars(EnterAsStored) /\ WF_vars(AskOnboarded)
  /\ WF_vars(Expire)
  /\ SF_vars(Call(Get)) /\ SF_vars(~req[Get].tok.fresh /\ Refuse(Get))

FairSpec == Spec /\ Fairness

-----------------------------------------------------------------------------
\* Whoever is signed in acts with tokens of their own, through sign-ins,
\* refreshes and restarts, as long as nothing outlived an earlier sign-in; and
\* what an account asked for is done in its name, also when it is sent again
\* with the token a refresh has brought.
TokensMatchUser ==
  ~crossed =>
    /\ mem.user # None =>
         store.refresh \in {None, mem.user} /\ store.access.of \in {None, mem.user}
    /\ \A q \in Reqs : req[q].pc = "served" => req[q].tok.of = req[q].by

\* A POST reaches its handler once: the replay after a 401 repeats a request
\* that was turned away at the door (performRequest).
PostsOnce == \A q \in Posts : req[q].runs <= 1

\* An expired access token does not stay: as long as a screen keeps asking, the requests that
\* meet it share one exchange, which renews it, or else the session ends.  An exchange that is
\* over answers for nobody who comes later (refreshPromise is reset).
Expired == mem.user # None /\ store.access # NoToken /\ ~store.access.fresh
ExpiredIsRenewed == Expired ~> ~Expired

\* A session that cannot go on ends on the phone too: of a blocked account, at
\* its next refresh (auth.service: "a block landing mid-session must end it"),
\* and one without tokens, which hydrate restores when a refused refresh has
\* left the user in storage.
Dead == /\ mem.user # None /\ ~crossed
        /\ status[mem.user] = "BLOCKED" \/ store.refresh = None
DeadSessionEnds == Dead ~> ~Dead
=============================================================================
