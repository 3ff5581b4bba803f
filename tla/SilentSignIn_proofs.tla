------------------------- MODULE SilentSignIn_proofs -------------------------
(* Proofs about SilentSignIn, for any number of tabs, sessions and documents. *)
(*                                                                            *)
(* The invariant has one part besides the types.  Tried: a tab that made its  *)
(* attempt is marked for it, until it sees a session and forgets both, and    *)
(* where the storage throws there are no attempts.                            *)
EXTENDS SilentSignIn, TLAPS

Tried ==
  \A t \in Tab : \/ tries[t] = 0
                 \/ ~blocked /\ attempted[t] /\ tries[t] = 1

IInv == TypeOK /\ Tried

-----------------------------------------------------------------------------
(* What SilentSsoEffect does to the types and to the marks. *)

EffectTypes ==
  /\ at \in [Tab -> Screen \cup {"closed", "away", "error"}]
  /\ view \in [Tab -> Who \cup {Unknown}]
  /\ known \in [Tab -> BOOLEAN]
  /\ signedOut \in BOOLEAN
  /\ attempted \in [Tab -> BOOLEAN]
  /\ trip \in [Tab -> {"none", "silent", "asked"}]
  /\ target \in [Tab -> Page]
  /\ tries \in [Tab -> Nat]

LEMMA EffectLemma ==
  ASSUME IInv, blocked' = blocked,
         NEW t \in Tab, NEW path \in Screen \cup {"closed", "away", "error"},
         NEW who \in Who \cup {Unknown},
         NEW config \in BOOLEAN,
         Effect(t, path, who, config)
  PROVE  EffectTypes' /\ Tried' /\ view' = [view EXCEPT ![t] = who]
<1>0. EffectTypes /\ blocked \in BOOLEAN
  BY DEF IInv, TypeOK, EffectTypes
<1>1. /\ at' \in [Tab -> Screen \cup {"closed", "away", "error"}]
      /\ view' \in [Tab -> Who \cup {Unknown}]
      /\ known' \in [Tab -> BOOLEAN]
      /\ view' = [view EXCEPT ![t] = who]
  BY <1>0 DEF Effect, EffectTypes
<1>2. CASE ClearSilentSsoState(t) /\ UNCHANGED <<trip, target>>
  BY <1>0, <1>1, <1>2 DEF ClearSilentSsoState, WriteFlag, EffectTypes, IInv, Tried
<1>3. CASE ShouldAttempt(t, path) /\ BeginSilentSso(t, path)
  <2>1. path \in Page /\ ~blocked /\ ~attempted[t]
    BY <1>0, <1>3 DEF ShouldAttempt, ReadFlag, EffectTypes
  <2>2. tries[t] = 0
    BY <2>1 DEF IInv, Tried
  <2>3. attempted' = [attempted EXCEPT ![t] = TRUE]
    BY <1>0, <1>3, <2>1 DEF BeginSilentSso, WriteFlag, EffectTypes
  <2>4. tries' = [tries EXCEPT ![t] = 1]
    BY <1>0, <1>3, <2>2 DEF BeginSilentSso, EffectTypes
  <2>5. Tried'
    BY <1>0, <2>1, <2>3, <2>4 DEF EffectTypes, IInv, Tried
  <2>6. /\ trip' = [trip EXCEPT ![t] = "silent"]
        /\ target' = [target EXCEPT ![t] = path]
        /\ signedOut' = signedOut
    BY <1>3 DEF BeginSilentSso
  <2> QED BY <1>0, <1>1, <2>1, <2>3, <2>4, <2>5, <2>6 DEF EffectTypes
<1>4. CASE UNCHANGED <<signedOut, attempted, tries, trip, target>>
  BY <1>0, <1>1, <1>4 DEF EffectTypes, IInv, Tried
<1> QED BY <1>2, <1>3, <1>4 DEF Effect


(* The requests of a document that starts. *)
LEMMA NewRequests ==
  ASSUME IInv
  PROVE  /\ Idle \in SessionRequest
         /\ \A c \in Who : Asked(c) \in SessionRequest
         /\ NoLogout \in LogoutRequest
         /\ cookie \in Who /\ Nobody \in Who
<1>1. /\ Idle \in SessionRequest /\ NoLogout \in LogoutRequest
      /\ \A c \in Who : Asked(c) \in SessionRequest
  BY DEF Idle, Asked, NoLogout, SessionRequest, LogoutRequest, Who
<1>2. cookie \in Who /\ Nobody \in Who
  BY BoundAssumption DEF IInv, TypeOK, Who, Session
<1> QED BY <1>1, <1>2

(* A document that is loaded, or that is gone. *)
LEMMA ForgetsLemma ==
  ASSUME IInv, NEW t \in Tab, NEW request \in SessionRequest,
         NEW path \in Screen \cup {"closed", "away", "error"},
         Forgets(t, path, request)
  PROVE  /\ at' \in [Tab -> Screen \cup {"closed", "away", "error"}]
         /\ view' \in [Tab -> Who \cup {Unknown}]
         /\ known' \in [Tab -> BOOLEAN]
         /\ fetch' \in [Tab -> SessionRequest]
         /\ logout' \in [Tab -> LogoutRequest]
BY NewRequests DEF IInv, TypeOK, Forgets

-----------------------------------------------------------------------------
(* The first state. *)

LEMMA InitInv == Init => IInv
<1> SUFFICES ASSUME Init PROVE IInv
  OBVIOUS
<1>1. Idle \in SessionRequest
  BY DEF Idle, SessionRequest, Who
<1>2. NoLogout \in LogoutRequest
  BY DEF NoLogout, LogoutRequest, Who
<1>3. TypeOK
  <2>1. /\ live \subseteq 1 .. made /\ made \in 0 .. MaxSessions
        /\ cookie \in 1 .. made \cup {Nobody} /\ loads \in 0 .. MaxLoads
        /\ tries \in [Tab -> Nat]
    BY BoundAssumption DEF Init
  <2>2. /\ blocked \in BOOLEAN /\ signedOut \in BOOLEAN
        /\ attempted \in [Tab -> BOOLEAN] /\ known \in [Tab -> BOOLEAN]
    BY DEF Init
  <2>3. /\ at \in [Tab -> Screen \cup {"closed", "away", "error"}]
        /\ view \in [Tab -> Who \cup {Unknown}]
        /\ trip \in [Tab -> {"none", "silent", "asked"}]
        /\ target \in [Tab -> Page]
    BY DEF Init, Page
  <2>4. fetch \in [Tab -> SessionRequest] /\ logout \in [Tab -> LogoutRequest]
    BY <1>1, <1>2 DEF Init
  <2> QED BY <2>1, <2>2, <2>3, <2>4 DEF TypeOK
<1>4. Tried
  BY DEF Init, Tried
<1> QED BY <1>3, <1>4 DEF IInv

(* A step of the loading kind: the marks and the attempts are those before,   *)
(* or both forgotten. *)
LEMMA LoadStep ==
  ASSUME IInv, NEW t \in Tab,
         \/ OpenTab(t) \/ CloseTab(t) \/ Reload(t) \/ Departs(t)
         \/ SilentRefusal(t) \/ TripFails(t)
  PROVE  IInv'
<1>1. PICK request \in SessionRequest,
           path \in Screen \cup {"closed", "away", "error"} :
        Forgets(t, path, request)
  BY NewRequests DEF OpenTab, CloseTab, Reload, Departs, SilentRefusal, TripFails,
                     Load, Page, Screen
<1>2. /\ trip' \in [Tab -> {"none", "silent", "asked"}]
      /\ target' \in [Tab -> Page]
      /\ loads' \in 0 .. MaxLoads
      /\ UNCHANGED shared
      /\ \/ UNCHANGED <<attempted, tries>>
         \/ /\ attempted' = [attempted EXCEPT ![t] = FALSE]
            /\ tries' = [tries EXCEPT ![t] = 0]
  BY BoundAssumption DEF IInv, TypeOK, OpenTab, CloseTab, Reload, Departs, SilentRefusal,
         TripFails, Load, Page
<1>3. /\ attempted' \in [Tab -> BOOLEAN]
      /\ tries' \in [Tab -> Nat]
      /\ Tried'
  <2>1. /\ attempted \in [Tab -> BOOLEAN] /\ tries \in [Tab -> Nat] /\ Tried
        /\ blocked' = blocked
    BY <1>2 DEF IInv, TypeOK, shared
  <2>2. CASE UNCHANGED <<attempted, tries>>
    BY <2>1, <2>2 DEF Tried
  <2>3. CASE /\ attempted' = [attempted EXCEPT ![t] = FALSE]
             /\ tries' = [tries EXCEPT ![t] = 0]
    <3>1. attempted' \in [Tab -> BOOLEAN] /\ tries' \in [Tab -> Nat]
      BY <2>1, <2>3
    <3>2. \A u \in Tab : u # t => tries'[u] = tries[u] /\ attempted'[u] = attempted[u]
      BY <2>1, <2>3
    <3>3. tries'[t] = 0
      BY <2>1, <2>3
    <3> QED BY <2>1, <3>1, <3>2, <3>3 DEF Tried
  <2> QED BY <1>2, <2>2, <2>3
<1>4. TypeOK'
  BY <1>1, <1>2, <1>3, ForgetsLemma DEF IInv, TypeOK, shared
<1> QED BY <1>3, <1>4 DEF IInv

(* A session that is made, and the request that carries it. *)
LEMMA NewSession ==
  ASSUME IInv, MakeSession
  PROVE  /\ made' \in 0 .. MaxSessions
         /\ live' \subseteq 1 .. made'
         /\ cookie' \in 1 .. made' /\ cookie' \in Who
         /\ Asked(cookie') \in SessionRequest
<1>1. made \in Nat /\ made < MaxSessions /\ made' = made + 1 /\ cookie' = made + 1
      /\ live \subseteq 1 .. made /\ live' = live \cup {made + 1}
  BY BoundAssumption DEF IInv, TypeOK, MakeSession
<1>2. /\ made' \in 0 .. MaxSessions
      /\ live' \subseteq 1 .. made' /\ cookie' \in 1 .. made'
  BY <1>1, BoundAssumption
<1>3. cookie' \in Who
  BY <1>2, BoundAssumption DEF Who, Session
<1> QED BY <1>2, <1>3 DEF Asked, SessionRequest

LEMMA SignInStep ==
  ASSUME IInv, NEW t \in Tab, BootstrapLogin(t) \/ Callback(t)
  PROVE  IInv'
<1>1. CASE Callback(t)
  <2>1. MakeSession /\ Forgets(t, target[t], Asked(cookie'))
    BY <1>1 DEF Callback, Load
  <2>2. target[t] \in Screen \cup {"closed", "away", "error"}
    BY DEF IInv, TypeOK, Screen
  <2>3. Asked(cookie') \in SessionRequest
    BY <2>1, NewSession
  <2>4. PICK request \in SessionRequest : request = Asked(cookie')
    BY <2>3
  <2>5. Forgets(t, target[t], request)
    BY <2>1, <2>4
  <2>6. UNCHANGED <<blocked, signedOut, attempted, tries>>
        /\ trip' \in [Tab -> {"none", "silent", "asked"}]
        /\ target' \in [Tab -> Page]
        /\ loads' \in 0 .. MaxLoads
    BY <1>1, BoundAssumption DEF Callback, Load, IInv, TypeOK, Page
  <2>7. TypeOK'
    BY <2>1, <2>2, <2>5, <2>6, NewSession, ForgetsLemma DEF IInv, TypeOK
  <2>8. Tried'
    BY <2>6 DEF IInv, Tried
  <2> QED BY <2>7, <2>8 DEF IInv
<1>2. CASE BootstrapLogin(t)
  <2> DEFINE request == [Asked(cookie') EXCEPT !.onward = TRUE]
  <2>1. MakeSession /\ fetch' = [fetch EXCEPT ![t] = request]
        /\ UNCHANGED <<blocked, signedOut, attempted, at, view, known,
                      logout, trip, target, tries, loads>>
    BY <1>2 DEF BootstrapLogin
  <2>2. request \in SessionRequest
    <3>1. cookie' \in Who /\ Asked(cookie') \in SessionRequest
      BY <2>1, NewSession
    <3> QED BY <3>1 DEF Asked, SessionRequest
  <2> HIDE DEF request
  <2>3. TypeOK'
    BY <2>1, <2>2, NewSession DEF IInv, TypeOK
  <2>4. Tried'
    BY <2>1 DEF IInv, Tried
  <2> QED BY <2>3, <2>4 DEF IInv
<1> QED BY <1>1, <1>2

-----------------------------------------------------------------------------
(* The steps of a document that runs, those with SilentSsoEffect first. *)

LEMMA EffectStep ==
  ASSUME IInv, NEW t \in Tab,
         \/ ConfigArrives(t) \/ SessionArrives(t) \/ SessionFails(t)
         \/ Navigate(t) \/ LoginPage(t) \/ LogoutDone(t)
  PROVE  IInv'
<1>1. PICK path \in Screen \cup {"closed", "away", "error"},
           who \in Who \cup {Unknown}, config \in BOOLEAN :
        Effect(t, path, who, config)
  <2>1. /\ at[t] \in Screen \cup {"closed", "away", "error"}
        /\ view[t] \in Who \cup {Unknown} /\ known[t] \in BOOLEAN
        /\ fetch[t].who \in Who /\ target[t] \in Screen /\ Nobody \in Who
    BY DEF IInv, TypeOK, SessionRequest, Screen, Who
  <2>2. CASE ConfigArrives(t)
    BY <2>1, <2>2 DEF ConfigArrives
  <2>3. CASE SessionArrives(t)
    BY <2>1, <2>3 DEF SessionArrives, Onward
  <2>4. CASE SessionFails(t)
    BY <2>1, <2>4 DEF SessionFails, Onward
  <2>5. CASE Navigate(t)
    BY <2>1, <2>5 DEF Navigate
  <2>6. CASE LoginPage(t)
    BY <2>1, <2>6 DEF LoginPage
  <2>7. CASE LogoutDone(t)
    BY <2>1, <2>7 DEF LogoutDone
  <2> QED BY <2>2, <2>3, <2>4, <2>5, <2>6, <2>7
<1>2. /\ UNCHANGED <<live, made, blocked, loads>>
      /\ cookie' \in {cookie, Nobody}
      /\ \/ fetch' = fetch
         \/ fetch' = [fetch EXCEPT ![t] = Idle]
         \/ fetch' = [fetch EXCEPT ![t] = Asked(Nobody)]
      /\ logout' = logout \/ logout' = [logout EXCEPT ![t] = NoLogout]
  BY DEF ConfigArrives, SessionArrives, SessionFails, Navigate, LoginPage, LogoutDone
<1>3. EffectTypes' /\ Tried'
  BY <1>1, <1>2, EffectLemma
<1>4. fetch' \in [Tab -> SessionRequest] /\ logout' \in [Tab -> LogoutRequest]
  BY <1>2, NewRequests DEF IInv, TypeOK
<1>5. TypeOK'
  <2>1. /\ live' \subseteq 1 .. made' /\ made' \in 0 .. MaxSessions
        /\ cookie' \in 1 .. made' \cup {Nobody} /\ blocked' \in BOOLEAN
        /\ loads' \in 0 .. MaxLoads
    BY <1>2 DEF IInv, TypeOK
  <2> QED BY <1>3, <1>4, <2>1 DEF EffectTypes, TypeOK
<1> QED BY <1>3, <1>5 DEF IInv

(* The steps that change one request, or where the tab is going. *)
LEMMA QuietStep ==
  ASSUME IInv, NEW t \in Tab,
         SessionRead(t) \/ Retry(t) \/ RequireAuth(t) \/ PressSso(t) \/ LogoutFails(t)
  PROVE  IInv'
<1>1. /\ UNCHANGED <<shared, attempted, tries, view, known, loads>>
      /\ trip' \in [Tab -> {"none", "silent", "asked"}]
      /\ target' \in [Tab -> Page]
      /\ at' \in [Tab -> Screen \cup {"closed", "away", "error"}]
  BY DEF SessionRead, Retry, RequireAuth, PressSso, LogoutFails, IInv, TypeOK, Page, Screen
<1>2. fetch' \in [Tab -> SessionRequest]
  <2>1. fetch \in [Tab -> SessionRequest]
    BY DEF IInv, TypeOK
  <2>2. CASE fetch' = fetch
    BY <2>1, <2>2
  <2>3. CASE Retry(t)
    BY <2>1, <2>3, NewRequests DEF Retry
  <2>4. CASE SessionRead(t)
    <3>1. SessionState(fetch[t]) \in SessionRequest
      BY <2>1 DEF SessionState, SessionRequest, Who
    <3> QED BY <2>1, <2>4, <3>1 DEF SessionRead
  <2> QED BY <2>2, <2>3, <2>4 DEF RequireAuth, PressSso, LogoutFails
<1>3. logout' \in [Tab -> LogoutRequest]
  BY NewRequests DEF SessionRead, Retry, RequireAuth, PressSso, LogoutFails, IInv, TypeOK
<1>4. TypeOK'
  BY <1>1, <1>2, <1>3 DEF IInv, TypeOK, shared
<1>5. Tried'
  BY <1>1 DEF IInv, Tried, shared
<1> QED BY <1>4, <1>5 DEF IInv

-----------------------------------------------------------------------------
(* Signing out, and the theorems. *)

LEMMA PressStep ==
  ASSUME IInv, NEW t \in Tab, PressLogout(t)
  PROVE  IInv'
<1> DEFINE r == [at |-> "sent", shown |-> view[t], cookie |-> cookie]
<1>1. /\ logout' = [logout EXCEPT ![t] = r]
      /\ signedOut' = WriteFlag(signedOut, TRUE)
      /\ attempted' = [attempted EXCEPT ![t] = WriteFlag(@, TRUE)]
      /\ UNCHANGED <<live, made, cookie, blocked, at, view, known, fetch, trip, target,
                    tries, loads>>
      /\ view[t] \in Session
  BY DEF PressLogout, MarkSignedOut
<1>2. r \in LogoutRequest
  BY <1>1, NewRequests DEF LogoutRequest, Who
<1> HIDE DEF r
<1>3. TypeOK'
  BY <1>1, <1>2 DEF IInv, TypeOK, WriteFlag
<1>4. Tried'
  BY <1>1 DEF IInv, TypeOK, Tried, WriteFlag
<1> QED BY <1>3, <1>4 DEF IInv

LEMMA ServerStep ==
  ASSUME IInv, NEW t \in Tab, ServerLogout(t)
  PROVE  IInv' /\ logout'[t].at = "done"
<1> DEFINE r == [logout[t] EXCEPT !.at = "done"]
<1>1. /\ logout' = [logout EXCEPT ![t] = r]
      /\ live' \subseteq live
      /\ UNCHANGED <<made, cookie, blocked, signedOut, attempted, at, view, known,
                    fetch, trip, target, tries, loads>>
  BY DEF ServerLogout
<1>2. r \in LogoutRequest /\ r.at = "done"
  BY DEF IInv, TypeOK, LogoutRequest
<1> HIDE DEF r
<1>3. TypeOK' /\ logout'[t].at = "done"
  BY <1>1, <1>2 DEF IInv, TypeOK
<1>4. Tried'
  BY <1>1 DEF IInv, Tried
<1> QED BY <1>3, <1>4 DEF IInv

LEMMA ExpiryStep ==
  ASSUME IInv, SessionExpires
  PROVE  IInv'
<1>1. /\ live' \subseteq live
      /\ UNCHANGED <<made, cookie, blocked, signedOut, tabs>>
  BY DEF SessionExpires
<1>2. TypeOK'
  BY <1>1 DEF IInv, TypeOK, tabs
<1>3. Tried'
  BY <1>1 DEF IInv, Tried, tabs
<1> QED BY <1>2, <1>3 DEF IInv

LEMMA NextInv == IInv /\ [Next]_vars => IInv'
<1> SUFFICES ASSUME IInv, [Next]_vars PROVE IInv'
  OBVIOUS
<1>1. CASE UNCHANGED vars
  BY <1>1 DEF vars, shared, tabs, IInv, TypeOK, Tried
<1>2. CASE SessionExpires
  BY <1>2, ExpiryStep
<1>3. ASSUME NEW t \in Tab,
             \/ OpenTab(t) \/ CloseTab(t) \/ Reload(t) \/ Departs(t)
             \/ SilentRefusal(t) \/ TripFails(t)
      PROVE  IInv'
  BY <1>3, LoadStep
<1>4. ASSUME NEW t \in Tab, BootstrapLogin(t) \/ Callback(t) PROVE IInv'
  BY <1>4, SignInStep
<1>5. ASSUME NEW t \in Tab,
             \/ ConfigArrives(t) \/ SessionArrives(t) \/ SessionFails(t)
             \/ Navigate(t) \/ LoginPage(t) \/ LogoutDone(t)
      PROVE  IInv'
  BY <1>5, EffectStep
<1>6. ASSUME NEW t \in Tab,
             SessionRead(t) \/ Retry(t) \/ RequireAuth(t) \/ PressSso(t) \/ LogoutFails(t)
      PROVE  IInv'
  BY <1>6, QuietStep
<1>7. ASSUME NEW t \in Tab, PressLogout(t) PROVE IInv'
  BY <1>7, PressStep
<1>8. ASSUME NEW t \in Tab, ServerLogout(t) PROVE IInv'
  BY <1>8, ServerStep
<1> QED BY <1>1, <1>2, <1>3, <1>4, <1>5, <1>6, <1>7, <1>8 DEF Next

THEOREM Invariance == Spec => []IInv
BY InitInv, NextInv, PTL DEF Spec

(* Every variable keeps its type, whatever the tabs do. *)
THEOREM SignInTypes == Spec => []TypeOK
<1>1. IInv => TypeOK
  BY DEF IInv
<1> QED BY <1>1, Invariance, PTL

(* The browser never bounces: at most one silent attempt per tab until the    *)
(* tab has seen a session (SilentSsoEffect with the marks of silent-sso.ts).  *)
THEOREM AttemptsOnce == Spec => []AttemptOnce
<1>1. ASSUME IInv, NEW t \in Tab
      PROVE  tries[t] <= IF blocked THEN 0 ELSE 1
  <2>1. tries[t] = 0 \/ (~blocked /\ tries[t] = 1)
    BY <1>1, Zenon DEF IInv, Tried
  <2>2. CASE blocked
    BY <2>1, <2>2
  <2>3. CASE ~blocked
    BY <2>1, <2>3
  <2> QED BY <2>2, <2>3
<1>2. IInv => AttemptOnce
  BY <1>1 DEF AttemptOnce
<1> QED BY <1>2, Invariance, PTL

(* A session ends by its expiry or by a sign-out in a tab that shows it,      *)
(* whatever other tabs have signed in to meanwhile: the handler ends the      *)
(* session of the cookie, and VerifyCSRF lets it, where that is the session   *)
(* whose token the tab kept.  No other step takes a session away.             *)
THEOREM SessionsEndWhereShown == Spec => EndedWhereShown
<1>1. ASSUME IInv, [Next]_vars, NEW s \in live \ live', ~SessionExpires
      PROVE  \E t \in Tab : /\ logout[t].at = "sent" /\ logout[t].shown = s
                            /\ logout'[t].at = "done"
  <2>1. PICK t \in Tab : ServerLogout(t)
    <3>1. live' # live
      BY <1>1
    <3>2. ASSUME NEW t \in Tab, BootstrapLogin(t) \/ Callback(t) PROVE live \subseteq live'
      BY <3>2 DEF BootstrapLogin, Callback, MakeSession
    <3>3. ASSUME NEW t \in Tab,
                 \/ OpenTab(t) \/ CloseTab(t) \/ Reload(t) \/ Departs(t)
                 \/ SilentRefusal(t) \/ TripFails(t)
          PROVE  live' = live
      BY <3>3 DEF OpenTab, CloseTab, Reload, Departs, SilentRefusal, TripFails, shared
    <3>4. ASSUME NEW t \in Tab,
                 \/ ConfigArrives(t) \/ SessionArrives(t) \/ SessionFails(t)
                 \/ Navigate(t) \/ LoginPage(t) \/ LogoutDone(t)
          PROVE  live' = live
      BY <3>4 DEF ConfigArrives, SessionArrives, SessionFails, Navigate, LoginPage,
                  LogoutDone
    <3>5. ASSUME NEW t \in Tab,
                 \/ SessionRead(t) \/ Retry(t) \/ RequireAuth(t) \/ PressSso(t)
                 \/ PressLogout(t) \/ LogoutFails(t)
          PROVE  live' = live
      BY <3>5 DEF SessionRead, Retry, RequireAuth, PressSso, PressLogout, LogoutFails,
                  shared
    <3>6. CASE UNCHANGED vars
      BY <3>1, <3>6 DEF vars, shared
    <3> QED BY <1>1, <3>1, <3>2, <3>3, <3>4, <3>5, <3>6 DEF Next
  <2>2. /\ logout[t].at = "sent" /\ logout[t].shown = logout[t].cookie
        /\ live \ live' \subseteq {logout[t].cookie}
    BY <2>1 DEF ServerLogout, VerifyCSRF
  <2>3. logout'[t].at = "done"
    BY <1>1, <2>1, ServerStep
  <2> QED BY <1>1, <2>2, <2>3
<1>2. IInv /\ [Next]_vars =>
        [\A s \in live \ live' :
           \/ SessionExpires
           \/ \E t \in Tab : /\ logout[t].at = "sent" /\ logout[t].shown = s
                             /\ logout'[t].at = "done"]_vars
  BY <1>1
<1> QED BY <1>2, Invariance, PTL DEF Spec, EndedWhereShown

=============================================================================
