---------------------------- MODULE SilentSignIn ----------------------------
(* Signing in and out in one browser: its tabs, the cookie and the storage    *)
(* they share, the sessions of the server and the trips to the identity       *)
(* provider.  A tab asks for the session and for the public configuration     *)
(* when it is loaded; SilentSsoEffect then forgets its two marks, where there *)
(* is a session, or sends the tab to the provider, at most once.  RequireAuth *)
(* and the login screen move the tab by what it knows, and logout marks,      *)
(* asks the server, and forgets.                                              *)
(*                                                                            *)
(* A session stands for its cookie, its CSRF token and its user at once.  A   *)
(* path is "public" or "private" (RequireAuth) or the "login" screen; "away"  *)
(* is the redirect through the provider, "error" the JSON of a failed one.    *)
EXTENDS Naturals

CONSTANTS
  Tab,
  MaxSessions,   \* how many sessions are made, and
  MaxLoads,      \* how many documents are loaded (the bounds of the model)
  AutoLogin,     \* the administrator's setting, with OIDC configured
  Nobody,        \* no session: no cookie, or nobody signed in
  Unknown        \* the tab has no answer yet

Session == 1 .. MaxSessions
Page    == {"public", "private"}
Screen  == Page \cup {"login"}

ASSUME BoundAssumption == MaxSessions \in Nat /\ MaxLoads \in Nat
ASSUME MarkAssumption  == Nobody \notin Nat /\ Unknown \notin Nat /\ Nobody # Unknown
ASSUME ConfigAssumption == AutoLogin \in BOOLEAN

(* A request carries the cookie there was when it was sent. *)
Idle     == [at |-> "idle", who |-> Nobody, onward |-> FALSE]
Asked(c) == [at |-> "asked", who |-> c, onward |-> FALSE]
NoLogout == [at |-> "idle", shown |-> Nobody, cookie |-> Nobody]

VARIABLES
  live,        \* the sessions the server knows
  made,        \* how many it has made
  cookie,      \* the browser's session cookie
  blocked,     \* the browser's storage throws
  signedOut,   \* the mark in localStorage
  attempted,   \* the mark in a tab's sessionStorage
  at,          \* where a tab is
  view,        \* the session a tab shows
  known,       \* a tab has the public configuration
  fetch,       \* its request for the session
  logout,      \* its request to sign out
  trip,        \* why it goes, or went, to the provider
  target,      \* the page it comes back to (returnTo)
  loads,       \* how many documents have been loaded
  tries        \* history: its silent attempts since it saw a session

shared == <<live, made, cookie, blocked, signedOut>>
tabs   == <<attempted, at, view, known, fetch, logout, trip, target, tries, loads>>
vars   == <<shared, tabs>>

-----------------------------------------------------------------------------
(* The marks. *)

ReadFlag(flag) == blocked \/ flag

WriteFlag(flag, value) == IF blocked THEN flag ELSE value

MarkSignedOut(t) ==
  /\ signedOut' = WriteFlag(signedOut, TRUE)
  /\ attempted' = [attempted EXCEPT ![t] = WriteFlag(@, TRUE)]

ClearSilentSsoState(t) ==
  /\ signedOut' = WriteFlag(signedOut, FALSE)
  /\ attempted' = [attempted EXCEPT ![t] = WriteFlag(@, FALSE)]
  /\ tries' = [tries EXCEPT ![t] = 0]

ShouldAttempt(t, path) ==
  /\ AutoLogin
  /\ path \in Page
  /\ ~ReadFlag(signedOut)
  /\ ~ReadFlag(attempted[t])

(* Faulty: the mark is left for the answer to make. *)
BeginUnmarked(t, path) ==
  /\ trip' = [trip EXCEPT ![t] = "silent"]
  /\ target' = [target EXCEPT ![t] = path]
  /\ tries' = [tries EXCEPT ![t] = @ + 1]
  /\ UNCHANGED <<signedOut, attempted>>

BeginSilentSso(t, path) ==
  /\ trip' = [trip EXCEPT ![t] = "silent"]
  /\ target' = [target EXCEPT ![t] = path]
  /\ attempted' = [attempted EXCEPT ![t] = WriteFlag(@, TRUE)]
  /\ tries' = [tries EXCEPT ![t] = @ + 1]
  /\ UNCHANGED signedOut

(* SilentSsoEffect, run when what the tab knows or where it is has changed:   *)
(* the tab is now at path, shows who, and has the configuration or not.       *)
Effect(t, path, who, config) ==
  /\ at' = [at EXCEPT ![t] = path]
  /\ view' = [view EXCEPT ![t] = who]
  /\ known' = [known EXCEPT ![t] = config]
  /\ LET settled == who # Unknown /\ config IN
     CASE settled /\ who \in Session ->
            ClearSilentSsoState(t) /\ UNCHANGED <<trip, target>>
       [] settled /\ who = Nobody /\ ShouldAttempt(t, path) -> BeginSilentSso(t, path)
       [] OTHER -> UNCHANGED <<signedOut, attempted, tries, trip, target>>

-----------------------------------------------------------------------------
(* Loading. *)

Init ==
  /\ live = {} /\ made = 0 /\ cookie = Nobody
  /\ blocked \in BOOLEAN
  /\ signedOut = FALSE
  /\ attempted = [t \in Tab |-> FALSE]
  /\ at = [t \in Tab |-> "closed"]
  /\ view = [t \in Tab |-> Unknown]
  /\ known = [t \in Tab |-> FALSE]
  /\ fetch = [t \in Tab |-> Idle]
  /\ logout = [t \in Tab |-> NoLogout]
  /\ trip = [t \in Tab |-> "none"]
  /\ target = [t \in Tab |-> "public"]
  /\ tries = [t \in Tab |-> 0]
  /\ loads = 0

(* A document starts from nothing and asks for the session and the            *)
(* configuration; without a document there are no requests. *)
Forgets(t, path, request) ==
  /\ at' = [at EXCEPT ![t] = path]
  /\ view' = [view EXCEPT ![t] = Unknown]
  /\ known' = [known EXCEPT ![t] = FALSE]
  /\ fetch' = [fetch EXCEPT ![t] = request]
  /\ logout' = [logout EXCEPT ![t] = NoLogout]
Load(t, path, c) ==
  /\ loads < MaxLoads
  /\ loads' = loads + 1
  /\ Forgets(t, path, Asked(c))
  /\ trip' = [trip EXCEPT ![t] = "none"]

OpenTab(t) ==
  /\ at[t] = "closed"
  /\ \E path \in Page : Load(t, path, cookie)
  /\ target' = [target EXCEPT ![t] = "public"]
  /\ UNCHANGED <<shared, attempted, tries>>

(* Closing a tab ends its sessionStorage. *)
CloseTab(t) ==
  /\ at[t] # "closed"
  /\ Forgets(t, "closed", Idle)
  /\ trip' = [trip EXCEPT ![t] = "none"]
  /\ attempted' = [attempted EXCEPT ![t] = FALSE]
  /\ tries' = [tries EXCEPT ![t] = 0]
  /\ target' = [target EXCEPT ![t] = "public"]
  /\ UNCHANGED <<shared, loads>>

(* A reload, or an address typed by hand, gives up the redirect under way.    *)
Reload(t) ==
  /\ at[t] # "closed"
  /\ \E path \in Page : Load(t, path, cookie)
  /\ target' = [target EXCEPT ![t] = "public"]
  /\ UNCHANGED <<shared, attempted, tries>>

ConfigArrives(t) ==
  /\ at[t] \in Screen /\ ~known[t]
  /\ Effect(t, at[t], view[t], TRUE)
  /\ UNCHANGED <<live, made, cookie, blocked, fetch, logout, loads>>

(* sessionState: the session of the cookie the request carried, if it lives. *)
SessionState(r) ==
  [r EXCEPT !.at = "told", !.who = IF r.who \in live THEN r.who ELSE Nobody]
SessionRead(t) ==
  /\ fetch[t].at = "asked"
  /\ fetch' = [fetch EXCEPT ![t] = SessionState(fetch[t])]
  /\ UNCHANGED <<shared, attempted, at, view, known, logout, trip, target, tries, loads>>

(* The answer, or its failure, after which the tab shows an error and knows   *)
(* nothing: no request is made where a session is shown.  After a local       *)
(* sign-in the login screen goes on to its page, whatever the answer. *)
Onward(t) == IF fetch[t].onward /\ at[t] = "login" THEN target[t] ELSE at[t]

SessionArrives(t) ==
  /\ fetch[t].at = "told"
  /\ fetch' = [fetch EXCEPT ![t] = Idle]
  /\ Effect(t, Onward(t), fetch[t].who, known[t])
  /\ UNCHANGED <<live, made, cookie, blocked, logout, loads>>

SessionFails(t) ==
  /\ fetch[t].at # "idle"
  /\ fetch' = [fetch EXCEPT ![t] = Idle]
  /\ Effect(t, Onward(t), Unknown, known[t])
  /\ UNCHANGED <<live, made, cookie, blocked, logout, loads>>

(* The error screen of a tab that was told nothing, and its button. *)
Retry(t) ==
  /\ at[t] \in Screen /\ view[t] = Unknown /\ fetch[t].at = "idle"
  /\ fetch' = [fetch EXCEPT ![t] = Asked(cookie)]
  /\ UNCHANGED <<shared, attempted, at, view, known, logout, trip, target, tries, loads>>

-----------------------------------------------------------------------------
(* Moving about. *)

(* A page that needs a session, and that is not rendered without one. *)
Guarded(t) == at[t] = "private" /\ view[t] = Nobody

Navigate(t) ==
  /\ at[t] \in Screen /\ ~Guarded(t)
  /\ \E path \in Screen \ {at[t]} :
       Effect(t, path, view[t], known[t])
  /\ UNCHANGED <<live, made, cookie, blocked, fetch, logout, loads>>

(* RequireAuth: a page that needs a session sends everyone else to the login  *)
(* screen, with or without the configuration. *)
RequireAuth(t) ==
  /\ Guarded(t)
  /\ at' = [at EXCEPT ![t] = "login"]
  /\ target' = IF trip[t] = "none" THEN [target EXCEPT ![t] = "private"] ELSE target
  /\ UNCHANGED <<shared, attempted, view, known, fetch, logout, trip, tries, loads>>

(* The login screen of someone who is signed in. *)
LoginPage(t) ==
  /\ at[t] = "login" /\ view[t] \in Session
  /\ Effect(t, target[t], view[t], known[t])
  /\ UNCHANGED <<live, made, cookie, blocked, fetch, logout, loads>>

-----------------------------------------------------------------------------
(* Signing in. *)

(* Faulty: the cookie is set, and the session that was not stored forgotten. *)
MakeCookieOnly ==
  /\ made < MaxSessions
  /\ cookie' = made + 1
  /\ UNCHANGED <<made, live>>

MakeSession ==
  /\ made < MaxSessions
  /\ made' = made + 1
  /\ live' = live \cup {made + 1}
  /\ cookie' = made + 1

(* The local administrator: the session is made, and asked for again. *)
BootstrapLogin(t) ==
  /\ at[t] = "login" /\ view[t] \notin Session
  /\ MakeSession
  /\ fetch' = [fetch EXCEPT ![t] = [Asked(cookie') EXCEPT !.onward = TRUE]]
  /\ UNCHANGED <<blocked, signedOut, attempted, at, view, known,
                 logout, trip, target, tries, loads>>

(* The button of the login screen. *)
PressSso(t) ==
  /\ at[t] = "login" /\ view[t] \notin Session /\ known[t] /\ trip[t] = "none"
  /\ trip' = [trip EXCEPT ![t] = "asked"]
  /\ UNCHANGED <<shared, attempted, at, view, known, fetch, logout, target, tries, loads>>

(* The browser leaves the document, which ran until now. *)
Departs(t) ==
  /\ at[t] \in Screen /\ trip[t] # "none"
  /\ Forgets(t, "away", Idle)
  /\ UNCHANGED <<shared, attempted, trip, target, tries, loads>>

(* The callback with a code: the provider has a session for this browser, or  *)
(* makes one for someone who is asked.  Whether it has one is not known here. *)
Callback(t) ==
  /\ at[t] = "away"
  /\ MakeSession
  /\ Load(t, target[t], cookie')
  /\ target' = [target EXCEPT ![t] = "public"]
  /\ UNCHANGED <<blocked, signedOut, attempted, tries>>

(* The callback of a silent attempt without a provider session: the login     *)
(* screen, marked sso=none. *)
SilentRefusal(t) ==
  /\ at[t] = "away" /\ trip[t] = "silent"
  /\ Load(t, "login", cookie)
  /\ UNCHANGED <<shared, attempted, target, tries>>

(* The redirect that ends in an error, or one the person gave up. *)
TripFails(t) ==
  /\ at[t] = "away"
  /\ Forgets(t, "error", Idle)
  /\ trip' = [trip EXCEPT ![t] = "none"]
  /\ target' = [target EXCEPT ![t] = "public"]
  /\ UNCHANGED <<shared, attempted, tries, loads>>

-----------------------------------------------------------------------------
(* Signing out. *)

(* The mark is made before the session goes; the request carries the cookie   *)
(* of the browser and the CSRF token of the session this tab shows. *)
PressLogout(t) ==
  /\ at[t] \in Page /\ view[t] \in Session /\ logout[t].at = "idle"
  /\ MarkSignedOut(t)
  /\ logout' = [logout EXCEPT ![t] = [at |-> "sent", shown |-> view[t], cookie |-> cookie]]
  /\ UNCHANGED <<live, made, cookie, blocked,
                 at, view, known, fetch, trip, target, tries, loads>>

(* Faulty: the token is read from the cookie when the request is sent. *)
VerifyCookieOnly(r) == r.cookie \in live

(* RequireAuthenticated and VerifyCSRF. *)
VerifyCSRF(r) == r.cookie \in live /\ r.shown = r.cookie

(* Deleting the session may fail, and the sign-out is answered all the same.  *)
ServerLogout(t) ==
  /\ logout[t].at = "sent"
  /\ VerifyCSRF(logout[t])
  /\ live' \in {live, live \ {logout[t].cookie}}
  /\ logout' = [logout EXCEPT ![t] = [@ EXCEPT !.at = "done"]]
  /\ UNCHANGED <<made, cookie, blocked, signedOut, attempted, at, view, known,
                 fetch, trip, target, tries, loads>>

(* The answer takes the cookie away, whichever it is by then; the tab shows   *)
(* nobody, and asks for everything again. *)
LogoutDone(t) ==
  /\ logout[t].at = "done"
  /\ cookie' = Nobody
  /\ logout' = [logout EXCEPT ![t] = NoLogout]
  /\ Effect(t, at[t], Nobody, known[t])
  /\ fetch' = [fetch EXCEPT ![t] = Asked(Nobody)]
  /\ UNCHANGED <<live, made, blocked, loads>>

(* Refused, or without an answer: the marks stay, and so does what is shown. *)
LogoutFails(t) ==
  /\ logout[t].at # "idle"
  /\ logout' = [logout EXCEPT ![t] = NoLogout]
  /\ UNCHANGED <<shared, attempted, at, view, known, fetch, trip, target, tries, loads>>

-----------------------------------------------------------------------------
SessionExpires ==
  /\ \E s \in live : live' = live \ {s}
  /\ UNCHANGED <<made, cookie, blocked, signedOut, tabs>>

Next ==
  \/ \E t \in Tab :
       \/ OpenTab(t) \/ CloseTab(t) \/ Reload(t)
       \/ ConfigArrives(t) \/ SessionRead(t) \/ SessionArrives(t) \/ SessionFails(t)
       \/ Retry(t) \/ Navigate(t) \/ RequireAuth(t) \/ LoginPage(t)
       \/ BootstrapLogin(t) \/ PressSso(t) \/ Departs(t)
       \/ Callback(t) \/ SilentRefusal(t) \/ TripFails(t)
       \/ PressLogout(t) \/ ServerLogout(t) \/ LogoutDone(t) \/ LogoutFails(t)
  \/ SessionExpires

Spec == Init /\ [][Next]_vars

-----------------------------------------------------------------------------
(* What it comes to.                                                          *)

Who            == Session \cup {Nobody}
SessionRequest == [at : {"idle", "asked", "told"}, who : Who, onward : BOOLEAN]
LogoutRequest  == [at : {"idle", "sent", "done"}, shown : Who, cookie : Who]

TypeOK ==
  /\ live \subseteq 1 .. made
  /\ made \in 0 .. MaxSessions
  /\ cookie \in 1 .. made \cup {Nobody}
  /\ blocked \in BOOLEAN /\ signedOut \in BOOLEAN
  /\ attempted \in [Tab -> BOOLEAN]
  /\ at \in [Tab -> Screen \cup {"closed", "away", "error"}]
  /\ view \in [Tab -> Who \cup {Unknown}]
  /\ known \in [Tab -> BOOLEAN]
  /\ fetch \in [Tab -> SessionRequest]
  /\ logout \in [Tab -> LogoutRequest]
  /\ trip \in [Tab -> {"none", "silent", "asked"}]
  /\ target \in [Tab -> Page]
  /\ tries \in [Tab -> Nat]
  /\ loads \in 0 .. MaxLoads

(* A tab is sent to the provider without being asked at most once until it    *)
(* has seen a session, however often it is reloaded, refused and rendered     *)
(* again, and never where the storage cannot be read: the browser does not    *)
(* bounce between the provider and the app.  (silent-sso.ts:82-86)            *)
AttemptOnce == \A t \in Tab : tries[t] <= IF blocked THEN 0 ELSE 1

(* A session ends by its expiry, or by a sign-out in a tab that shows it; the *)
(* sign-out of a tab that still shows an earlier session does not end the one *)
(* another tab has signed in to meanwhile, whose cookie the request carries.  *)
(* (api.ts keeps the token of the session it shows; middleware.go compares.)  *)
EndedWhereShown ==
  [][\A s \in live \ live' :
       \/ SessionExpires
       \/ \E t \in Tab : /\ logout[t].at = "sent" /\ logout[t].shown = s
                         /\ logout'[t].at = "done"]_vars

(* Not kept: a sign-out that is answered has ended its session.  The error of *)
(* the delete is dropped (auth_handlers.go:218), and the answer is the same.  *)
SignedOutIsGone ==
  \A t \in Tab : logout[t].at = "done" => logout[t].shown \notin live

(* docs/USER_GUIDE.md:39: with silent sign-in switched on, someone who is     *)
(* signed in at the provider enters without passing the login screen; so no   *)
(* page sends anyone there while the attempt may still be made.               *)
NoLoginScreen ==
  [][\A t \in Tab :
       Guarded(t) /\ at'[t] = "login" /\ trip[t] = "none" =>
         ~(AutoLogin /\ ~ReadFlag(signedOut) /\ ~ReadFlag(attempted[t]))]_vars

=============================================================================
