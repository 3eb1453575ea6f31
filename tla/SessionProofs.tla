--------------------------- MODULE SessionProofs ---------------------------
(***************************************************************************)
(* Sessions, for any accounts and requests: a POST reaches its handler     *)
(* once, whoever is signed in acts with tokens of their own, and the state *)
(* keeps its type.                                                         *)
(***************************************************************************)
EXTENDS Sessions, TLAPS

Users == Accounts \cup {None}
Tokens == [of : Accounts, fresh : BOOLEAN] \cup {NoToken}

Stores == [access : Tokens, refresh : Users, user : Users,
           remember : BOOLEAN, onboarded : BOOLEAN]
Mems == [user : Users, onboarded : BOOLEAN]
Signs == [pc : {"none", "saved", "checking"}, of : Users]
Refreshes == [pc : {"none", "sent", "granted", "refused"}, of : Users]
Requests == [pc : {"idle", "sent", "waiting", "resent", "served"},
             by : Users, tok : Tokens, runs : Nat]

TypeOK ==
  /\ status \in [Accounts -> {"NONE", "ACTIVE", "BLOCKED"}]
  /\ done \in [Accounts -> BOOLEAN]
  /\ store \in Stores /\ mem \in Mems /\ sign \in Signs
  /\ refresh \in Refreshes
  /\ req \in [Reqs -> Requests]
  /\ crossed \in BOOLEAN

-----------------------------------------------------------------------------
(* What makes the properties inductive.                                      *)

\* A request has run once when it is served, and not before; it was served on
\* a token; an exchange is asked for with one.
ReqInv ==
  \A q \in Reqs : /\ req[q].runs = IF req[q].pc = "served" THEN 1 ELSE 0
                  /\ req[q].pc = "served" => req[q].tok.of \in Accounts
RefreshInv == refresh.pc \in {"sent", "granted"} => refresh.of \in Accounts

\* Who holds the phone: signed in, or signing in.
Holder == IF mem.user # None THEN mem.user ELSE sign.of

\* Nobody is signed in and signing in, and whoever signs in has an account.
OneSession == /\ mem.user # None => sign = NoSign
              /\ sign # NoSign => sign.of \in Accounts

\* The tokens in storage are the stored user's, and the holder is that user.
StoreOwn ==
  /\ store.refresh \in {None, store.user}
  /\ store.access.of \in {None, store.user}
  /\ Holder # None => store.user = Holder

\* A refresh and a request under way belong to the holder, and there is one.
RefreshOwn == refresh # NoRefresh => Holder # None /\ refresh.of \in {None, Holder}
ReqOwn ==
  \A q \in Reqs : UnderWay(q) =>
    Holder # None /\ req[q].by = Holder /\ req[q].tok.of \in {None, Holder}

Owned == OneSession /\ (~crossed => StoreOwn /\ RefreshOwn /\ ReqOwn)

Typed == TypeOK /\ ReqInv /\ RefreshInv

-----------------------------------------------------------------------------
(* The records the steps write.                                              *)

LEMMA BlankTypes ==
  /\ NoToken \in Tokens /\ EmptyStore \in Stores /\ SignedOut \in Mems
  /\ NoSign \in Signs /\ NoRefresh \in Refreshes /\ NoReq \in Requests
<1>1. NoToken \in Tokens /\ None \in Users
  BY DEF Tokens, Users
<1> QED
  BY <1>1 DEF EmptyStore, Stores, SignedOut, Mems, NoSign, Signs, NoRefresh, Refreshes,
              NoReq, Requests

\* A token that is fresh is somebody's.
LEMMA FreshToken == \A t \in Tokens : (t.fresh => t.of \in Accounts) /\ t.of \in Users
  BY DEF Tokens, NoToken, Users

LEMMA TokenType == \A u \in Accounts : Token(u) \in Tokens /\ Token(u).of = u
  BY DEF Token, Tokens

LEMMA SavedType ==
  ASSUME store \in Stores, NEW u \in Accounts, NEW remember \in BOOLEAN
  PROVE  /\ Saved(u, remember) \in Stores
         /\ Saved(u, remember).user = u /\ Saved(u, remember).refresh = u
         /\ Saved(u, remember).access = Token(u)
<1>1. u \in Users /\ Token(u) \in Tokens
  BY TokenType DEF Users
<1> QED
  BY <1>1 DEF Saved, Stores

\* The counts and tokens of a request that is served once, and not before.
Sound(r) == /\ r \in Requests
            /\ r.runs = IF r.pc = "served" THEN 1 ELSE 0
            /\ r.pc = "served" => r.tok.of \in Accounts

LEMMA NoReqSound == Sound(NoReq)
  BY BlankTypes DEF Sound, NoReq

LEMMA ReqsSound ==
  ASSUME req' \in [Reqs -> Requests], \A q \in Reqs : Sound(req'[q])
  PROVE  ReqInv'
  BY DEF ReqInv, Sound

LEMMA SoundReqs == TypeOK /\ ReqInv => \A q \in Reqs : Sound(req[q])
  BY DEF TypeOK, ReqInv, Sound

\* One request is written, with a sound record.
LEMMA OneReqSound ==
  ASSUME TypeOK, ReqInv, NEW q \in Reqs, NEW r, Sound(r), req' = [req EXCEPT ![q] = r]
  PROVE  req' \in [Reqs -> Requests] /\ ReqInv'
<1>1. req' \in [Reqs -> Requests]
  BY DEF TypeOK, Sound
<1>2. \A p \in Reqs : req'[p] = IF p = q THEN r ELSE req[p]
  BY DEF TypeOK
<1> QED
  BY <1>1, <1>2, SoundReqs, ReqsSound

LEMMA RunOnce ==
  ASSUME NEW r \in Requests, r.runs = 0
  PROVE  LET s == [r EXCEPT !.pc = "served", !.runs = @ + 1] IN
         s \in Requests /\ s.pc = "served" /\ s.tok = r.tok /\ s.runs = 1
<1>1. r.runs + 1 = 1
  OBVIOUS
<1>2. [r EXCEPT !.pc = "served", !.runs = @ + 1] = [r EXCEPT !.pc = "served", !.runs = 1]
  BY <1>1
<1>3. [r EXCEPT !.pc = "served", !.runs = 1] \in Requests
  BY DEF Requests
<1> QED
  BY <1>1, <1>3 DEF Requests

LEMMA SentSound ==
  ASSUME TypeOK, ReqInv, NEW q \in Reqs, NEW by \in Users, Sent(q, by)
  PROVE  req' \in [Reqs -> Requests] /\ ReqInv'
<1> DEFINE r == [NoReq EXCEPT !.pc = "sent", !.by = by, !.tok = store.access]
<1>1. store.access \in Tokens
  BY DEF TypeOK, Stores
<1>2. Sound(r)
  BY <1>1 DEF Sound, NoReq, Requests
<1>3. req' = [req EXCEPT ![q] = r]
  BY DEF Sent
<1> QED
  BY <1>2, <1>3, OneReqSound

\* A sign-in that goes on leaves storage, memory and itself well-typed.
LEMMA EnterType ==
  ASSUME TypeOK, NEW onboarded \in BOOLEAN, Enter(onboarded)
  PROVE  store' \in Stores /\ mem' \in Mems /\ sign' \in Signs
<1>1. mem' \in Mems /\ sign' \in Signs
  BY BlankTypes DEF Enter, TypeOK, Mems, Signs
<1>2. store' = [store EXCEPT !.onboarded = store.onboarded \/ onboarded]
  BY DEF Enter
<1>3. (store.onboarded \/ onboarded) \in BOOLEAN
  OBVIOUS
<1>4. store \in Stores
  BY DEF TypeOK
<1>5. store' \in Stores
  BY <1>2, <1>3, <1>4, Zenon DEF Stores
<1> QED
  BY <1>1, <1>5

LEMMA ContinueType ==
  ASSUME TypeOK, NEW q \in Reqs, NEW onboarded \in BOOLEAN, Continue(q, onboarded)
  PROVE  store' \in Stores /\ mem' \in Mems /\ sign' \in Signs
<1>1. CASE Enter(onboarded)
  BY <1>1, EnterType
<1>2. CASE UNCHANGED <<store, mem, sign>>
  BY <1>2 DEF TypeOK
<1> QED
  BY <1>1, <1>2 DEF Continue

\* Whatever a refresh starts with, it keeps its type.
LEMMA StartRefreshType ==
  ASSUME TypeOK, RefreshInv, StartRefresh PROVE refresh' \in Refreshes /\ RefreshInv'
<1>1. CASE refresh' = refresh
  BY <1>1 DEF TypeOK, RefreshInv
<1>2. CASE refresh' = [pc |-> IF store.refresh = None THEN "refused" ELSE "sent",
                       of |-> store.refresh]
  <2>1. store.refresh \in Users
    BY DEF TypeOK, Stores
  <2> QED
    BY <1>2, <2>1 DEF Refreshes, RefreshInv, Users
<1> QED
  BY <1>1, <1>2 DEF StartRefresh

-----------------------------------------------------------------------------
(* The type, action by action.                                               *)

LEMMA TypedInit == Init => Typed
<1> SUFFICES ASSUME Init PROVE Typed
  OBVIOUS
<1>1. status \in [Accounts -> {"NONE", "ACTIVE", "BLOCKED"}] /\ done \in [Accounts -> BOOLEAN]
  BY DEF Init
<1>2. req \in [Reqs -> Requests] /\ \A q \in Reqs : Sound(req[q])
  BY BlankTypes, NoReqSound DEF Init
<1>3. TypeOK
  BY <1>1, <1>2, BlankTypes DEF Init, TypeOK
<1>4. ReqInv /\ RefreshInv
  BY <1>2 DEF ReqInv, Sound, Init, NoRefresh, RefreshInv
<1> QED
  BY <1>3, <1>4 DEF Typed

LEMMA TypedSign ==
  ASSUME Typed, SignStep PROVE Typed'
<1> USE DEF Typed
<1>1. ASSUME NEW u \in Accounts, NEW remember \in BOOLEAN,
             Login(u, remember) \/ GoogleLogin(u, remember)
      PROVE  Typed'
  <2>1. /\ status' \in [Accounts -> {"NONE", "ACTIVE", "BLOCKED"}]
        /\ UNCHANGED <<done, mem, refresh, req, crossed>>
    BY <1>1 DEF Login, GoogleLogin, server, TypeOK
  <2>2. store' \in Stores /\ sign' \in Signs
    BY <1>1, SavedType DEF Login, GoogleLogin, TypeOK, Signs, Users
  <2> QED
    BY <2>1, <2>2 DEF TypeOK, ReqInv, RefreshInv
<1>2. ASSUME NEW u \in Accounts, Register(u) PROVE Typed'
  <2>1. /\ status' \in [Accounts -> {"NONE", "ACTIVE", "BLOCKED"}]
        /\ UNCHANGED <<done, sign, refresh, req, crossed>>
    BY <1>2 DEF Register, TypeOK
  <2>2. CASE store' = Saved(u, TRUE) /\ mem' = [user |-> u, onboarded |-> FALSE]
    <3>1. store' \in Stores
      BY <2>2, SavedType DEF TypeOK
    <3>2. mem' \in Mems
      BY <2>2 DEF Mems, Users
    <3> QED
      BY <2>1, <3>1, <3>2 DEF TypeOK, ReqInv, RefreshInv
  <2>3. CASE UNCHANGED <<store, mem>>
    BY <2>1, <2>3 DEF TypeOK, ReqInv, RefreshInv
  <2> QED
    BY <1>2, <2>2, <2>3 DEF Register
<1>3. ASSUME EnterAsStored PROVE Typed'
  <2>1. UNCHANGED <<status, done, refresh, req, crossed>> /\ Enter(TRUE)
    BY <1>3 DEF EnterAsStored, server
  <2> QED
    BY <2>1, EnterType DEF TypeOK, ReqInv, RefreshInv
<1>4. ASSUME AskOnboarded PROVE Typed'
  <2>1. UNCHANGED <<status, done, store, mem, refresh, crossed>>
    BY <1>4 DEF AskOnboarded, server
  <2>2. sign' \in Signs
    BY <1>4 DEF AskOnboarded, TypeOK, Signs
  <2>3. req' \in [Reqs -> Requests] /\ ReqInv'
    <3>1. Get \in Reqs /\ sign.of \in Users
      BY DEF Reqs, TypeOK, Signs
    <3>2. CASE Sent(Get, sign.of)
      BY <3>1, <3>2, SentSound
    <3>3. CASE UNCHANGED req
      BY <3>3 DEF TypeOK, ReqInv
    <3> QED
      BY <1>4, <3>2, <3>3 DEF AskOnboarded
  <2> QED
    BY <2>1, <2>2, <2>3 DEF TypeOK, RefreshInv
<1> QED
  BY <1>1, <1>2, <1>3, <1>4 DEF SignStep

LEMMA TypedReq ==
  ASSUME Typed, NEW q \in Reqs, ReqStep(q) PROVE Typed'
<1> USE DEF Typed
<1>1. CASE Call(q)
  <2>1. UNCHANGED <<status, done, store, mem, sign, refresh, crossed>>
    BY <1>1 DEF Call, server
  <2>2. mem.user \in Users /\ Sent(q, mem.user)
    BY <1>1 DEF Call, TypeOK, Mems
  <2>3. req' \in [Reqs -> Requests] /\ ReqInv'
    BY <2>2, SentSound
  <2> QED
    BY <2>1, <2>3 DEF TypeOK, RefreshInv
<1>2. CASE Execute(q)
  <2>1. UNCHANGED <<status, done, store, mem, sign, refresh, crossed>>
    BY <1>2 DEF Execute, server
  <2> DEFINE r == [req[q] EXCEPT !.pc = "served", !.runs = @ + 1]
  <2>2. req' = [req EXCEPT ![q] = r]
    BY <1>2 DEF Execute
  <2>3. Sound(r)
    <3>1. Sound(req[q]) /\ req[q].pc \in {"sent", "resent"} /\ req[q].tok.fresh
      BY <1>2, SoundReqs DEF Execute
    <3>2. req[q].tok.of \in Accounts
      BY <3>1, FreshToken DEF Sound, Requests
    <3>3. r \in Requests /\ r.pc = "served" /\ r.tok = req[q].tok /\ r.runs = 1
      <4>1. req[q].runs = 0 /\ req[q] \in Requests
        BY <3>1 DEF Sound
      <4> QED
        BY <4>1, RunOnce
    <3> HIDE DEF r
    <3> QED
      BY <3>1, <3>2, <3>3 DEF Sound
  <2>4. req' \in [Reqs -> Requests] /\ ReqInv'
    <3> HIDE DEF r
    <3> QED
      BY <2>2, <2>3, OneReqSound
  <2> QED
    BY <2>1, <2>4 DEF TypeOK, RefreshInv
<1>3. CASE Return(q) \/ Lose(q) \/ RefuseAgain(q)
  <2>1. UNCHANGED <<status, done, refresh, crossed>> /\ req' = [req EXCEPT ![q] = NoReq]
    BY <1>3 DEF Return, Lose, RefuseAgain, server
  <2>2. PICK onboarded \in BOOLEAN : Continue(q, onboarded)
    <3>1. CASE Return(q)
      <4>1. done[req[q].tok.of] \in BOOLEAN
        BY <3>1 DEF Return, ReqInv, TypeOK
      <4> QED
        BY <3>1, <4>1 DEF Return
    <3>2. CASE Lose(q) \/ RefuseAgain(q)
      BY <3>2 DEF Lose, RefuseAgain, TypeOK, Stores
    <3> QED
      BY <1>3, <3>1, <3>2
  <2>3. req' \in [Reqs -> Requests] /\ ReqInv'
    BY <2>1, NoReqSound, OneReqSound
  <2>4. store' \in Stores /\ mem' \in Mems /\ sign' \in Signs
    BY <2>2, ContinueType
  <2> QED
    BY <2>1, <2>3, <2>4 DEF TypeOK, RefreshInv
<1>4. CASE Refuse(q)
  <2>1. UNCHANGED <<status, done, store, mem, sign, crossed>> /\ StartRefresh
    BY <1>4 DEF Refuse, server
  <2> DEFINE r == [req[q] EXCEPT !.pc = "waiting", !.tok = NoToken]
  <2>2. req' = [req EXCEPT ![q] = r]
    BY <1>4 DEF Refuse
  <2>3. Sound(r)
    BY <1>4, SoundReqs, BlankTypes DEF Refuse, Sound, Requests
  <2>4. req' \in [Reqs -> Requests] /\ ReqInv'
    <3> HIDE DEF r
    <3> QED
      BY <2>2, <2>3, OneReqSound
  <2> QED
    BY <2>1, <2>4, StartRefreshType DEF TypeOK
<1> QED
  BY <1>1, <1>2, <1>3, <1>4 DEF ReqStep

LEMMA TypedRefresh ==
  ASSUME Typed, RefreshStep PROVE Typed'
<1> USE DEF Typed
<1>1. CASE SocketRefused
  BY <1>1, StartRefreshType DEF SocketRefused, server, TypeOK, ReqInv
<1>2. CASE Exchange \/ LoseExchange
  <2>1. UNCHANGED <<status, done, store, mem, sign, req, crossed>>
    BY <1>2 DEF Exchange, LoseExchange, server
  <2>2. refresh' \in Refreshes /\ RefreshInv'
    BY <1>2 DEF Exchange, LoseExchange, TypeOK, Refreshes, RefreshInv
  <2> QED
    BY <2>1, <2>2 DEF TypeOK, ReqInv
<1>3. CASE RefreshGranted
  <2>1. UNCHANGED <<status, done, mem, sign, crossed>> /\ refresh' = NoRefresh
    BY <1>3 DEF RefreshGranted, server
  <2>2. refresh.of \in Accounts /\ Token(refresh.of) \in Tokens
    BY <1>3, TokenType DEF RefreshGranted, RefreshInv
  <2>3. store' \in Stores
    BY <1>3, <2>2 DEF RefreshGranted, TypeOK, Stores, Users
  <2>4. ASSUME NEW q \in Reqs PROVE Sound(req'[q])
    <3>1. Sound(req[q])
      BY SoundReqs
    <3>2. CASE q \in Waiting
      <4>1. req'[q] = [req[q] EXCEPT !.pc = "resent", !.tok = Token(refresh.of)]
        BY <1>3, <3>2 DEF RefreshGranted
      <4>2. req[q].pc = "waiting"
        BY <3>2 DEF Waiting
      <4> QED
        BY <2>2, <3>1, <4>1, <4>2 DEF Sound, Requests
    <3>3. CASE q \notin Waiting
      BY <1>3, <3>1, <3>3 DEF RefreshGranted
    <3> QED
      BY <3>2, <3>3
  <2>5. req' \in [Reqs -> Requests]
    BY <1>3, <2>4 DEF RefreshGranted, Sound
  <2>6. ReqInv'
    BY <2>4, <2>5, ReqsSound
  <2> QED
    BY <2>1, <2>3, <2>5, <2>6, BlankTypes DEF TypeOK, RefreshInv, NoRefresh
<1>4. CASE RefreshRefused
  <2>1. UNCHANGED <<status, done>> /\ refresh' = NoRefresh
    BY <1>4 DEF RefreshRefused, server
  <2>2. req' = [q \in Reqs |-> IF q \in Waiting THEN NoReq ELSE req[q]]
    BY <1>4 DEF RefreshRefused
  <2>3. req' \in [Reqs -> Requests] /\ \A q \in Reqs : Sound(req'[q])
    BY <2>2, NoReqSound, SoundReqs DEF Sound
  <2>4. store' \in Stores /\ mem' \in Mems /\ sign' \in Signs /\ crossed' \in BOOLEAN
    <3>1. CASE Waiting = {}
      BY <1>4, <3>1 DEF RefreshRefused, TypeOK
    <3>2. CASE Waiting # {}
      <4>1. store' = [store EXCEPT !.access = NoToken, !.refresh = None]
        BY <1>4, <3>2 DEF RefreshRefused
      <4>2. store' \in Stores
        BY <4>1, BlankTypes DEF TypeOK, Stores, Users
      <4>3. crossed' \in BOOLEAN
        BY <1>4, <3>2 DEF RefreshRefused, Crosses
      <4>4. CASE sign.pc = "checking" /\ Get \in Waiting
        BY <1>4, <3>2, <4>2, <4>3, <4>4, BlankTypes
        DEF RefreshRefused, TypeOK, Mems, Signs, Stores
      <4>5. CASE ~(sign.pc = "checking" /\ Get \in Waiting)
        <5>1. mem' = [mem EXCEPT !.user = None] /\ sign' = sign
          BY <1>4, <3>2, <4>5 DEF RefreshRefused
        <5> QED
          BY <4>2, <4>3, <5>1 DEF TypeOK, Mems, Users
      <4> QED
        BY <4>4, <4>5
    <3> QED
      BY <3>1, <3>2
  <2> QED
    BY <2>1, <2>3, <2>4, ReqsSound, BlankTypes DEF TypeOK, RefreshInv, NoRefresh
<1> QED
  BY <1>1, <1>2, <1>3, <1>4 DEF RefreshStep

LEMMA TypedRest ==
  ASSUME Typed,
         \/ Logout \/ CompleteOnboarding \/ Restart \/ Expire
         \/ \E u \in Followed, to \in {"ACTIVE", "BLOCKED"} : Block(u, to)
  PROVE  Typed'
<1> USE DEF Typed
<1>1. CASE Logout
  <2>1. UNCHANGED <<status, done, sign, refresh, req>>
    BY <1>1 DEF Logout, server
  <2>2. crossed' \in BOOLEAN /\ store' = EmptyStore /\ mem' = SignedOut
    BY <1>1 DEF Logout, Crosses
  <2> QED
    BY <2>1, <2>2, BlankTypes DEF TypeOK, ReqInv, RefreshInv
<1>2. CASE CompleteOnboarding
  BY <1>2, AccountsAssumption
  DEF CompleteOnboarding, TypeOK, ReqInv, RefreshInv, Stores, Mems
<1>3. CASE Restart
  <2>1. UNCHANGED <<status, done, store, crossed>> /\ mem' = SignedOut /\ refresh' = NoRefresh
    BY <1>3 DEF Restart, server
  <2>2. sign' \in Signs
    BY <1>3, BlankTypes DEF Restart, TypeOK, Stores, Signs
  <2>3. req' \in [Reqs -> Requests] /\ \A q \in Reqs : Sound(req'[q])
    BY <1>3, BlankTypes, NoReqSound DEF Restart
  <2> QED
    BY <2>1, <2>2, <2>3, BlankTypes, ReqsSound DEF TypeOK, RefreshInv, NoRefresh
<1>4. CASE Expire
  <2>1. UNCHANGED <<status, done, mem, sign, refresh, req, crossed>>
    BY <1>4 DEF Expire, server
  <2>2. store.access.of \in Accounts
    BY <1>4, FreshToken DEF Expire, TypeOK, Stores
  <2>3. [store.access EXCEPT !.fresh = FALSE] \in Tokens
    BY <2>2 DEF Tokens, NoToken, TypeOK, Stores
  <2>4. store' = [store EXCEPT !.access = [store.access EXCEPT !.fresh = FALSE]]
    BY <1>4 DEF Expire
  <2>5. store' \in Stores
    BY <2>3, <2>4 DEF TypeOK, Stores
  <2> QED
    BY <2>1, <2>5 DEF TypeOK, ReqInv, RefreshInv
<1>5. ASSUME NEW u \in Followed, NEW to \in {"ACTIVE", "BLOCKED"}, Block(u, to) PROVE Typed'
  BY <1>5 DEF Block, TypeOK, ReqInv, RefreshInv
<1> QED
  BY <1>1, <1>2, <1>3, <1>4, <1>5

LEMMA TypedStep == Typed /\ [Next]_vars => Typed'
<1> SUFFICES ASSUME Typed, [Next]_vars PROVE Typed'
  OBVIOUS
<1>1. CASE UNCHANGED vars
  BY <1>1 DEF vars, Typed, TypeOK, ReqInv, RefreshInv
<1> QED
  BY <1>1, TypedSign, TypedReq, TypedRefresh, TypedRest DEF Next

-----------------------------------------------------------------------------
(* Whose phone it is.                                                        *)

\* What a step does not touch of storage.
SameStore ==
  store'.refresh = store.refresh /\ store'.access.of = store.access.of /\ store'.user = store.user

\* The holder stays, and storage: what is left is the refresh and the requests.
LEMMA HolderStays ==
  ASSUME Owned, OneSession', Holder' = Holder, SameStore, UNCHANGED crossed,
         ~crossed /\ RefreshOwn /\ ReqOwn => RefreshOwn' /\ ReqOwn'
  PROVE  Owned'
  BY DEF Owned, SameStore, StoreOwn

LEMMA RefreshUntouched ==
  RefreshOwn /\ Holder' = Holder /\ refresh' = refresh => RefreshOwn'
  BY DEF RefreshOwn

LEMMA ReqUntouched == ReqOwn /\ Holder' = Holder /\ req' = req => ReqOwn'
  BY DEF ReqOwn, UnderWay

\* One request is written, in the holder's name, or ends.
LEMMA ReqWritten ==
  ASSUME TypeOK, ReqOwn, NEW q \in Reqs, NEW r, req' = [req EXCEPT ![q] = r],
         Holder' = Holder,
         \/ r.pc = "idle"
         \/ Holder # None /\ r.by = Holder /\ r.tok.of \in {None, Holder}
  PROVE  ReqOwn'
<1>1. \A p \in Reqs : req'[p] = IF p = q THEN r ELSE req[p]
  BY DEF TypeOK
<1> QED
  BY <1>1 DEF ReqOwn, UnderWay

\* A sign-in that goes on hands the phone to nobody else.
LEMMA EnterHolder ==
  ASSUME Typed, Owned, NEW onboarded, Enter(onboarded), sign.pc # "none"
  PROVE  Holder' = Holder /\ OneSession' /\ SameStore
<1>1. mem.user = None
  BY DEF Owned, OneSession, NoSign
<1>2. mem'.user = sign.of /\ sign' = NoSign
  BY DEF Enter
<1>3. SameStore
  BY DEF Enter, SameStore, Typed, TypeOK, Stores
<1> QED
  BY <1>1, <1>2, <1>3 DEF Holder, OneSession, NoSign

LEMMA ContinueHolder ==
  ASSUME Typed, Owned, NEW q \in Reqs, NEW onboarded, Continue(q, onboarded)
  PROVE  Holder' = Holder /\ OneSession' /\ SameStore
<1>1. CASE Enter(onboarded) /\ sign.pc = "checking"
  BY <1>1, EnterHolder
<1>2. CASE UNCHANGED <<store, mem, sign>>
  BY <1>2 DEF Holder, OneSession, SameStore, Owned
<1> QED
  BY <1>1, <1>2 DEF Continue

\* Only who has no session signs in, and then nothing is under way.
LEMMA NobodySignsIn == CanSignIn => Holder = None
  BY DEF CanSignIn, Holder, NoSign

LEMMA NothingUnderWay ==
  ASSUME Owned, ~crossed, Holder = None
  PROVE  refresh = NoRefresh /\ \A q \in Reqs : ~UnderWay(q)
  BY DEF Owned, RefreshOwn, ReqOwn

LEMMA NewSession ==
  ASSUME Typed, Owned, CanSignIn, UNCHANGED <<refresh, req, crossed>>,
         NEW u \in Accounts, NEW remember \in BOOLEAN, store' = Saved(u, remember),
         \/ sign' = [pc |-> "saved", of |-> u] /\ mem' = mem
         \/ mem' = [user |-> u, onboarded |-> FALSE] /\ sign' = sign
  PROVE  Owned'
<1>1. Holder' = u /\ OneSession'
  BY DEF CanSignIn, Holder, OneSession, NoSign
<1>2. store'.user = u /\ store'.refresh = u /\ store'.access.of = u
  BY SavedType, TokenType DEF Typed, TypeOK
<1>3. ~crossed' => RefreshOwn' /\ ReqOwn'
  BY NobodySignsIn, NothingUnderWay DEF RefreshOwn, ReqOwn, UnderWay
<1> QED
  BY <1>1, <1>2, <1>3 DEF Owned, StoreOwn

LEMMA OwnedInit == Init => Owned
  BY DEF Init, Owned, OneSession, StoreOwn, RefreshOwn, ReqOwn, Holder, UnderWay, EmptyStore,
         NoToken, SignedOut, NoSign, NoRefresh, NoReq

LEMMA OwnedSign ==
  ASSUME Typed, Owned, SignStep PROVE Owned'
<1>1. ASSUME NEW u \in Accounts, NEW remember \in BOOLEAN,
             Login(u, remember) \/ GoogleLogin(u, remember) \/ Register(u)
      PROVE  Owned'
  <2>1. CanSignIn /\ UNCHANGED <<refresh, req, crossed>>
    BY <1>1 DEF Login, GoogleLogin, Register
  <2>2. CASE UNCHANGED <<store, mem, sign>>
    BY <2>1, <2>2 DEF Owned, OneSession, StoreOwn, RefreshOwn, ReqOwn, Holder, UnderWay
  <2>3. CASE ~UNCHANGED <<store, mem, sign>>
    <3>1. PICK b \in BOOLEAN :
            /\ store' = Saved(u, b)
            /\ \/ sign' = [pc |-> "saved", of |-> u] /\ mem' = mem
               \/ mem' = [user |-> u, onboarded |-> FALSE] /\ sign' = sign
      BY <1>1, <2>3 DEF Login, GoogleLogin, Register
    <3> QED
      BY <2>1, <3>1, NewSession
  <2> QED
    BY <2>2, <2>3
<1>2. ASSUME EnterAsStored PROVE Owned'
  <2>1. Enter(TRUE) /\ sign.pc # "none" /\ UNCHANGED <<refresh, req, crossed>>
    BY <1>2 DEF EnterAsStored
  <2> QED
    BY <2>1, EnterHolder, HolderStays, RefreshUntouched, ReqUntouched
<1>3. ASSUME AskOnboarded PROVE Owned'
  <2>1. UNCHANGED <<store, mem, refresh, crossed>> /\ sign.pc = "saved"
    BY <1>3 DEF AskOnboarded
  <2>2. mem.user = None /\ sign'.of = sign.of
    BY <1>3, <2>1 DEF AskOnboarded, Owned, OneSession, NoSign, Typed, TypeOK, Signs
  <2>3. Holder' = Holder /\ OneSession' /\ SameStore /\ Holder = sign.of
    BY <2>1, <2>2 DEF Holder, OneSession, SameStore, Owned, NoSign
  <2>4. ASSUME ~crossed, ReqOwn PROVE ReqOwn'
    <3>1. CASE UNCHANGED req
      BY <2>3, <2>4, <3>1, ReqUntouched
    <3>2. CASE Sent(Get, sign.of)
      <4> DEFINE r == [NoReq EXCEPT !.pc = "sent", !.by = sign.of, !.tok = store.access]
      <4>1. Get \in Reqs /\ req' = [req EXCEPT ![Get] = r]
        BY <3>2 DEF Sent, Reqs
      <4>2. r.pc = "sent" /\ r.by = Holder /\ r.tok = store.access
        BY <2>3 DEF NoReq
      <4>3. Holder # None
        BY <2>1, <2>3, NoneAssumption DEF Owned, OneSession, NoSign
      <4>4. store.access.of \in {None, Holder}
        BY <2>4, <4>3 DEF Owned, StoreOwn
      <4> HIDE DEF r
      <4> QED
        BY <2>3, <2>4, <4>1, <4>2, <4>3, <4>4, ReqWritten DEF Typed
    <3> QED
      BY <1>3, <3>1, <3>2 DEF AskOnboarded
  <2> QED
    BY <2>1, <2>3, <2>4, HolderStays, RefreshUntouched
<1> QED
  BY <1>1, <1>2, <1>3 DEF SignStep

LEMMA OwnedReq ==
  ASSUME Typed, Owned, NEW q \in Reqs, ReqStep(q) PROVE Owned'
<1> USE DEF Typed
<1>1. CASE Call(q)
  <2>1. /\ UNCHANGED <<store, mem, sign, refresh, crossed>>
        /\ mem.user # None /\ Sent(q, mem.user)
    BY <1>1 DEF Call
  <2>2. Holder' = Holder /\ OneSession' /\ SameStore /\ Holder = mem.user
    BY <2>1 DEF Holder, OneSession, SameStore, Owned
  <2>3. ASSUME ~crossed, ReqOwn PROVE ReqOwn'
    <3> DEFINE r == [NoReq EXCEPT !.pc = "sent", !.by = mem.user, !.tok = store.access]
    <3>1. req' = [req EXCEPT ![q] = r]
      BY <2>1 DEF Sent
    <3>2. r.by = Holder /\ r.tok = store.access
      BY <2>2 DEF NoReq
    <3>3. store.access.of \in {None, Holder} /\ Holder # None
      BY <2>1, <2>2, <2>3 DEF Owned, StoreOwn
    <3> HIDE DEF r
    <3> QED
      BY <2>2, <2>3, <3>1, <3>2, <3>3, ReqWritten
  <2> QED
    BY <2>1, <2>2, <2>3, HolderStays, RefreshUntouched
<1>2. CASE Execute(q)
  <2>1. UNCHANGED <<store, mem, sign, refresh, crossed>>
    BY <1>2 DEF Execute
  <2>2. Holder' = Holder /\ OneSession' /\ SameStore
    BY <2>1 DEF Holder, OneSession, SameStore, Owned
  <2>3. ASSUME ReqOwn PROVE ReqOwn'
    <3> DEFINE r == [req[q] EXCEPT !.pc = "served", !.runs = @ + 1]
    <3>1. req' = [req EXCEPT ![q] = r]
      BY <1>2 DEF Execute
    <3>2. r.by = req[q].by /\ r.tok = req[q].tok
      BY DEF TypeOK, Requests
    <3>3. Holder # None /\ req[q].by = Holder /\ req[q].tok.of \in {None, Holder}
      BY <1>2, <2>3 DEF Execute, ReqOwn, UnderWay
    <3> HIDE DEF r
    <3> QED
      BY <2>2, <2>3, <3>1, <3>2, <3>3, ReqWritten
  <2> QED
    BY <2>1, <2>2, <2>3, HolderStays, RefreshUntouched
<1>3. CASE Return(q) \/ Lose(q) \/ RefuseAgain(q)
  <2>1. UNCHANGED <<refresh, crossed>> /\ req' = [req EXCEPT ![q] = NoReq]
    BY <1>3 DEF Return, Lose, RefuseAgain
  <2>2. Holder' = Holder /\ OneSession' /\ SameStore
    BY <1>3, ContinueHolder DEF Return, Lose, RefuseAgain
  <2>3. ReqOwn => ReqOwn'
    BY <2>1, <2>2, ReqWritten DEF NoReq
  <2> QED
    BY <2>1, <2>2, <2>3, HolderStays, RefreshUntouched
<1>4. CASE Refuse(q)
  <2>1. UNCHANGED <<store, mem, sign, crossed>> /\ StartRefresh
    BY <1>4 DEF Refuse
  <2>2. Holder' = Holder /\ OneSession' /\ SameStore
    BY <2>1 DEF Holder, OneSession, SameStore, Owned
  <2>3. ASSUME ReqOwn PROVE Holder # None /\ ReqOwn'
    <3> DEFINE r == [req[q] EXCEPT !.pc = "waiting", !.tok = NoToken]
    <3>1. req' = [req EXCEPT ![q] = r]
      BY <1>4 DEF Refuse
    <3>2. r.by = req[q].by /\ r.tok.of = None
      BY DEF TypeOK, Requests, NoToken
    <3>3. Holder # None /\ req[q].by = Holder
      BY <1>4, <2>3 DEF Refuse, ReqOwn, UnderWay
    <3> HIDE DEF r
    <3> QED
      BY <2>2, <2>3, <3>1, <3>2, <3>3, ReqWritten
  <2>4. ASSUME ~crossed, Holder # None, RefreshOwn PROVE RefreshOwn'
    BY <2>1, <2>2, <2>4 DEF StartRefresh, RefreshOwn, Owned, StoreOwn
  <2> QED
    BY <2>1, <2>2, <2>3, <2>4, HolderStays
<1> QED
  BY <1>1, <1>2, <1>3, <1>4 DEF ReqStep

LEMMA OwnedGranted ==
  ASSUME Typed, Owned, RefreshGranted PROVE Owned'
<1>1. UNCHANGED <<mem, sign, crossed>> /\ refresh' = NoRefresh
  BY DEF RefreshGranted
<1>0. refresh.pc = "granted" /\ refresh.of \in Accounts
  BY DEF RefreshGranted, Typed, RefreshInv
<1>2. /\ store' = [store EXCEPT !.access = Token(refresh.of), !.refresh = refresh.of]
      /\ req' = [q \in Reqs |-> IF q \in Waiting
                                  THEN [req[q] EXCEPT !.pc = "resent", !.tok = Token(refresh.of)]
                                  ELSE req[q]]
  BY DEF RefreshGranted
<1>3. Holder' = Holder /\ OneSession'
  BY <1>1 DEF Holder, OneSession, Owned
<1>4. ASSUME ~crossed PROVE StoreOwn' /\ ReqOwn'
  <2>1. refresh.of = Holder /\ Holder # None
    BY <1>0, <1>4, NoneAssumption DEF Owned, RefreshOwn, NoRefresh
  <2>2. /\ store'.access = Token(Holder) /\ store'.refresh = Holder
        /\ store'.user = store.user /\ store.user = Holder
    BY <1>2, <1>4, <2>1 DEF Owned, StoreOwn, Typed, TypeOK, Stores
  <2>3. StoreOwn'
    BY <1>3, <2>2 DEF StoreOwn, Token
  <2>4. ASSUME NEW q \in Reqs, UnderWay(q)'
        PROVE  /\ req'[q].by = Holder /\ req'[q].tok.of \in {None, Holder}
    <3>1. CASE q \in Waiting
      <4>1. req'[q] = [req[q] EXCEPT !.pc = "resent", !.tok = Token(refresh.of)]
        BY <1>2, <3>1
      <4>2. req[q] \in Requests /\ req[q].by = Holder
        BY <1>4, <3>1 DEF Waiting, Owned, ReqOwn, UnderWay, Typed, TypeOK
      <4> QED
        BY <2>1, <4>1, <4>2 DEF Requests, Token
    <3>2. CASE q \notin Waiting
      BY <1>2, <1>4, <2>4, <3>2 DEF Owned, ReqOwn, UnderWay
    <3> QED
      BY <3>1, <3>2
  <2> QED
    BY <1>3, <2>1, <2>3, <2>4 DEF ReqOwn
<1> QED
  BY <1>1, <1>3, <1>4 DEF Owned, RefreshOwn

LEMMA OwnedRefused ==
  ASSUME Typed, Owned, RefreshRefused PROVE Owned'
<1>1. /\ refresh' = NoRefresh
      /\ req' = [q \in Reqs |-> IF q \in Waiting THEN NoReq ELSE req[q]]
  BY DEF RefreshRefused
<1>2. RefreshOwn'
  BY <1>1 DEF RefreshOwn
<1>3. \A q \in Reqs : UnderWay(q)' => UnderWay(q) /\ q \notin Waiting /\ req'[q] = req[q]
  BY <1>1 DEF UnderWay, NoReq
<1>4. CASE Waiting = {}
  <2>1. UNCHANGED <<store, mem, sign, crossed>>
    BY <1>4 DEF RefreshRefused
  <2>2. Holder' = Holder /\ OneSession' /\ SameStore
    BY <2>1 DEF Holder, OneSession, SameStore, Owned
  <2>3. ReqOwn => ReqOwn'
    BY <1>3, <2>2 DEF ReqOwn
  <2> QED
    BY <1>2, <2>1, <2>2, <2>3, HolderStays
<1>5. CASE Waiting # {}
  <2>1. /\ store' = [store EXCEPT !.access = NoToken, !.refresh = None]
        /\ ~crossed' => ~crossed /\ \A q \in Reqs \ Waiting : ~UnderWay(q)
    BY <1>5 DEF RefreshRefused, Crosses
  <2>2. store'.access.of = None /\ store'.refresh = None /\ store'.user = store.user
    BY <2>1 DEF Typed, TypeOK, Stores, NoToken
  <2>3. OneSession' /\ (Holder' = Holder \/ Holder' = None)
    <3>1. CASE sign.pc = "checking" /\ Get \in Waiting
      <4>1. mem'.user = sign.of /\ sign' = NoSign /\ mem.user = None
        BY <1>5, <3>1 DEF RefreshRefused, Owned, OneSession, NoSign
      <4> QED
        BY <4>1 DEF OneSession, Holder, NoSign
    <3>2. CASE ~(sign.pc = "checking" /\ Get \in Waiting)
      <4>1. mem'.user = None /\ sign' = sign
        BY <1>5, <3>2 DEF RefreshRefused, Typed, TypeOK, Mems
      <4> QED
        BY <4>1 DEF OneSession, Holder, NoSign, Owned
    <3> QED
      BY <3>1, <3>2
  <2>4. ASSUME ~crossed' PROVE StoreOwn' /\ ReqOwn'
    BY <1>3, <2>1, <2>2, <2>3, <2>4 DEF Owned, StoreOwn, ReqOwn
  <2> QED
    BY <1>2, <2>3, <2>4 DEF Owned
<1> QED
  BY <1>4, <1>5

LEMMA OwnedRefresh ==
  ASSUME Typed, Owned, RefreshStep PROVE Owned'
<1>1. CASE SocketRefused \/ Exchange \/ LoseExchange
  <2>1. UNCHANGED <<store, mem, sign, req, crossed>>
    BY <1>1 DEF SocketRefused, Exchange, LoseExchange
  <2>2. Holder' = Holder /\ OneSession' /\ SameStore
    BY <2>1 DEF Holder, OneSession, SameStore, Owned
  <2>3. ASSUME ~crossed, RefreshOwn PROVE RefreshOwn'
    <3>1. CASE SocketRefused
      <4>1. Holder # None /\ StartRefresh
        BY <3>1 DEF SocketRefused, Holder
      <4> QED
        BY <2>2, <2>3, <4>1 DEF StartRefresh, RefreshOwn, Owned, StoreOwn
    <3>2. CASE Exchange \/ LoseExchange
      <4>1. refresh # NoRefresh /\ refresh'.of = refresh.of
        BY <3>2 DEF Exchange, LoseExchange, NoRefresh, Typed, TypeOK, Refreshes
      <4> QED
        BY <2>2, <2>3, <4>1 DEF RefreshOwn
    <3> QED
      BY <1>1, <3>1, <3>2
  <2> QED
    BY <2>1, <2>2, <2>3, HolderStays, ReqUntouched
<1> QED
  BY <1>1, OwnedGranted, OwnedRefused DEF RefreshStep

LEMMA OwnedRest ==
  ASSUME Typed, Owned,
         \/ Logout \/ CompleteOnboarding \/ Restart \/ Expire
         \/ \E u \in Followed, to \in {"ACTIVE", "BLOCKED"} : Block(u, to)
  PROVE  Owned'
<1>1. CASE Logout
  <2>1. /\ store' = EmptyStore /\ mem' = SignedOut /\ UNCHANGED <<sign, refresh, req>>
        /\ ~crossed' => ~crossed /\ refresh' = NoRefresh /\ \A q \in Reqs : ~UnderWay(q)
    BY <1>1 DEF Logout, Crosses
  <2>2. Holder' = None /\ OneSession'
    BY <1>1, <2>1 DEF Logout, Holder, OneSession, SignedOut, NoSign, Owned
  <2>3. StoreOwn'
    BY <2>1, <2>2 DEF StoreOwn, EmptyStore, NoToken
  <2>4. ~crossed' => RefreshOwn' /\ ReqOwn'
    BY <2>1 DEF RefreshOwn, ReqOwn, UnderWay
  <2> QED
    BY <2>2, <2>3, <2>4 DEF Owned
<1>2. CASE CompleteOnboarding
  <2>1. UNCHANGED <<sign, refresh, req, crossed>> /\ mem'.user = mem.user /\ SameStore
    BY <1>2 DEF CompleteOnboarding, SameStore, Typed, TypeOK, Stores, Mems
  <2>2. Holder' = Holder /\ OneSession'
    BY <2>1 DEF Holder, OneSession, Owned
  <2> QED
    BY <2>1, <2>2, HolderStays, RefreshUntouched, ReqUntouched
<1>3. CASE Restart
  <2>1. /\ mem' = SignedOut /\ refresh' = NoRefresh /\ req' = [q \in Reqs |-> NoReq]
        /\ UNCHANGED <<store, crossed>>
        /\ sign' = NoSign \/ (sign' = [pc |-> "saved", of |-> store.user] /\ store.user # None)
    BY <1>3 DEF Restart
  <2>2. OneSession' /\ Holder' \in {None, store.user}
    BY <2>1 DEF OneSession, Holder, SignedOut, NoSign, Typed, TypeOK, Stores, Users
  <2>3. RefreshOwn' /\ ReqOwn'
    BY <2>1 DEF RefreshOwn, ReqOwn, UnderWay, NoReq
  <2> QED
    BY <2>1, <2>2, <2>3 DEF Owned, StoreOwn
<1>4. CASE Expire
  <2>1. UNCHANGED <<mem, sign, refresh, req, crossed>> /\ SameStore
    <3>1. store.access.of \in Accounts /\ store \in Stores
      BY <1>4, FreshToken DEF Expire, Typed, TypeOK, Stores
    <3>2. store.access \in [of : Accounts, fresh : BOOLEAN]
      BY <3>1, NoneAssumption DEF Stores, Tokens, NoToken
    <3> QED
      BY <1>4, <3>1, <3>2 DEF Expire, SameStore, Stores
  <2>2. Holder' = Holder /\ OneSession'
    BY <2>1 DEF Holder, OneSession, Owned
  <2> QED
    BY <2>1, <2>2, HolderStays, RefreshUntouched, ReqUntouched
<1>5. ASSUME NEW u \in Followed, NEW to \in {"ACTIVE", "BLOCKED"}, Block(u, to) PROVE Owned'
  BY <1>5 DEF Block, Owned, OneSession, StoreOwn, RefreshOwn, ReqOwn, Holder, UnderWay
<1> QED
  BY <1>1, <1>2, <1>3, <1>4, <1>5

LEMMA OwnedStep == Typed /\ Owned /\ [Next]_vars => Owned'
<1> SUFFICES ASSUME Typed, Owned, [Next]_vars PROVE Owned'
  OBVIOUS
<1>1. CASE UNCHANGED vars
  BY <1>1 DEF vars, Owned, OneSession, StoreOwn, RefreshOwn, ReqOwn, Holder, UnderWay
<1> QED
  BY <1>1, OwnedSign, OwnedReq, OwnedRefresh, OwnedRest DEF Next

-----------------------------------------------------------------------------
(* What follows from Spec.                                                   *)

LEMMA TypedAlways == Spec => []Typed
  BY TypedInit, TypedStep, PTL DEF Spec

LEMMA OwnedAlways == Spec => []Owned
<1>1. Typed /\ Owned /\ [Next]_vars => Owned'
  BY OwnedStep
<1> QED
  BY <1>1, TypedAlways, OwnedInit, PTL DEF Spec

\* Every variable keeps its type: a token is somebody's or missing, a request
\* and a refresh are at a step of theirs.
THEOREM TypeCorrect == Spec => []TypeOK
  BY TypedAlways, PTL DEF Typed

\* A POST reaches its handler once, refreshed and replayed or not: a 401 turned
\* it away before (performRequest).
THEOREM PostsServedOnce == Spec => []PostsOnce
<1>1. Typed => PostsOnce
  BY DEF Typed, TypeOK, ReqInv, PostsOnce, Reqs, Requests
<1> QED
  BY <1>1, TypedAlways, PTL

\* Through sign-ins, refreshes, losses and restarts, whoever is signed in has
\* tokens of their own, and what is served was asked for by the token's account,
\* as long as nothing outlived an earlier sign-in (authStore, apiRequest).
THEOREM SessionsKeptApart == Spec => []TokensMatchUser
<1>1. ASSUME Typed, Owned PROVE TokensMatchUser
  <2>1. ASSUME ~crossed, mem.user # None
        PROVE  store.refresh \in {None, mem.user} /\ store.access.of \in {None, mem.user}
    BY <1>1, <2>1 DEF Owned, StoreOwn, Holder
  <2>2. ASSUME ~crossed, NEW q \in Reqs, req[q].pc = "served" PROVE req[q].tok.of = req[q].by
    BY <1>1, <2>2, NoneAssumption DEF Typed, ReqInv, Owned, ReqOwn, UnderWay
  <2> QED
    BY <2>1, <2>2 DEF TokensMatchUser
<1> QED
  BY <1>1, TypedAlways, OwnedAlways, PTL
=============================================================================
