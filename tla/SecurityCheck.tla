--------------------------- MODULE SecurityCheck ---------------------------
(***************************************************************************)
(* The security review gate: how an approval given in SecCheck, a separate  *)
(* system, becomes the "verified" label of an app, and what takes it away.  *)
(*                                                                          *)
(* Three kinds of actors interleave.  Owners and administrators edit apps,  *)
(* one transaction each.  A refresh reads the settings, the challenge and   *)
(* the content of an app one after the other, asks SecCheck over the        *)
(* network and records the answer in a transaction whose steps are kept     *)
(* apart here, because only the app's row and the settings row are locked   *)
(* meanwhile.  Saving the settings reads them twice, without a lock,        *)
(* before it writes them.                                                   *)
(*                                                                          *)
(* Whether the gate is switched on and which transitions ask it is the      *)
(* business of module ReviewWorkflow, which knows Verified(a) as cleared.   *)
(***************************************************************************)
EXTENDS Naturals

CONSTANTS
    Apps,
    Contents,     \* the data of an app, up to equality of its hash
    RemoteIds,    \* reviews in SecCheck, known by their UUID
    Deployments,  \* SecCheck installations, known by their address
    Home,         \* Home[r]: the deployment that keeps review r
    Keys,         \* credentials for reading reviews
    Issuer,       \* Issuer[k]: the deployment that issued and honours key k
    Refreshers,   \* refreshes that may be in flight at one time
    Savers,       \* saves of the settings that may be in flight at one time
    MaxRotations, \* bound: challenges an app gets
    MaxRevision,  \* bound: connections the settings go through
    None

ASSUME SecurityAssumption ==
    /\ Home \in [RemoteIds -> Deployments]
    /\ Issuer \in [Keys -> Deployments]
    /\ MaxRotations \in Nat /\ MaxRevision \in Nat
    /\ None \notin Apps \cup Contents \cup RemoteIds \cup Deployments \cup Keys

VARIABLES
    apps,      \* apps: content, challenge and attached review
    checks,    \* table app_security_checks
    settings,  \* the singleton row of security_check_settings
    remote,    \* the reviews inside SecCheck
    refreshes, \* refreshAppSecurityCheck in flight
    saves      \* adminUpdateSecurityCheck in flight

vars == <<apps, checks, settings, remote, refreshes, saves>>

-----------------------------------------------------------------------------
(* Types.  A challenge is a random UUID: the n-th of app a is <<a, n>>, and *)
(* no two are equal.                                                        *)

Challenges == Apps \X Nat

App == [state: {"none", "live", "deleted"}, content: Contents \cup {None},
        nonce: Nat, attached: RemoteIds \cup {None}]

(* What SecCheck says of a review: "incomplete" is approved on both axes    *)
(* with completion blockers left, "open" and "closed" are everything else   *)
(* before and after.                                                        *)
Verdicts == {"open", "approved", "incomplete", "closed"}

(* status is what the columns remote_status, final_result and approved_at   *)
(* say; they do not hold the blockers.  from, content and blocked are       *)
(* auxiliary: the deployment, bound content and blockers of the answer.     *)
Check == [status: {"none", "open", "approved", "closed"},
          app: Apps \cup {None}, challenge: Challenges \cup {None}, revision: Nat,
          from: Deployments \cup {None}, content: Contents \cup {None}, blocked: BOOLEAN]

Settings == [url: Deployments \cup {None}, key: Keys \cup {None}, revision: Nat]

Remote == [challenge: Challenges \cup {None}, content: Contents \cup {None},
           verdict: Verdicts]

Refresh == [pc: {"idle", "state", "content", "fetch", "bind", "upsert"},
            app: Apps \cup {None}, rid: RemoteIds \cup {None},
            conn: Settings, challenge: Challenges \cup {None},
            content: Contents \cup {None}, verdict: Verdicts]

Save == [pc: {"idle", "read", "write"}, url: Deployments \cup {None},
         key: Keys \cup {None}, revision: Nat]

NoConnection == [url |-> None, key |-> None, revision |-> 1]
NoCheck == [status |-> "none", app |-> None, challenge |-> None, revision |-> 0,
            from |-> None, content |-> None, blocked |-> FALSE]
NoRefresh == [pc |-> "idle", app |-> None, rid |-> None, conn |-> NoConnection,
              challenge |-> None, content |-> None, verdict |-> "open"]
NoSave == [pc |-> "idle", url |-> None, key |-> None, revision |-> 0]

(* Every row, setting and handler in flight has its type.                   *)
TypeOK ==
    /\ apps \in [Apps -> App]
    /\ checks \in [RemoteIds -> Check]
    /\ settings \in Settings
    /\ remote \in [RemoteIds -> Remote]
    /\ refreshes \in [Refreshers -> Refresh]
    /\ saves \in [Savers -> Save]

Init ==
    /\ apps = [a \in Apps |-> [state |-> "none", content |-> None, nonce |-> 0,
                               attached |-> None]]
    /\ checks = [r \in RemoteIds |-> NoCheck]
    /\ settings = NoConnection
    /\ remote = [r \in RemoteIds |-> [challenge |-> None, content |-> None,
                                      verdict |-> "open"]]
    /\ refreshes = [h \in Refreshers |-> NoRefresh]
    /\ saves = [s \in Savers |-> NoSave]

-----------------------------------------------------------------------------
Live(a) == apps[a].state = "live"

Challenge(a) == <<a, apps[a].nonce>>

(* securityVerifiedSQL.                                                     *)
Verified(a) ==
    /\ Live(a)
    /\ apps[a].attached # None
    /\ LET row == checks[apps[a].attached] IN
          /\ row.status = "approved"
          /\ row.challenge = Challenge(a)
          /\ row.revision = settings.revision

(* A recording transaction holds the row of its app FOR UPDATE and the      *)
(* settings row FOR SHARE.                                                  *)
Recording(h) == refreshes[h].pc = "upsert"
AppLocked(a) == \E h \in Refreshers : Recording(h) /\ refreshes[h].app = a
SettingsLocked == \E h \in Refreshers : Recording(h)

-----------------------------------------------------------------------------
(* Apps.                                                                    *)

CreateApp(a, c) ==
    /\ apps[a].state = "none"
    /\ apps' = [apps EXCEPT ![a] = [state |-> "live", content |-> c, nonce |-> 0,
                                    attached |-> None]]
    /\ UNCHANGED <<checks, settings, remote, refreshes, saves>>

(* Faulty: the review is detached, the challenge stays.                     *)
UpdateAppSameChallenge(a, c) ==
    /\ Live(a) /\ ~AppLocked(a)
    /\ apps[a].nonce < MaxRotations
    /\ apps' = IF c = apps[a].content THEN apps
               ELSE [apps EXCEPT ![a].content = c, ![a].attached = None]
    /\ UNCHANGED <<checks, settings, remote, refreshes, saves>>

(* UpdateApp: content that differs rotates the challenge and detaches the   *)
(* review in the same transaction.                                          *)
UpdateApp(a, c) ==
    /\ Live(a) /\ ~AppLocked(a)
    /\ apps[a].nonce < MaxRotations
    /\ apps' = IF c = apps[a].content THEN apps
               ELSE [apps EXCEPT ![a].content = c, ![a].nonce = @ + 1, ![a].attached = None]
    /\ UNCHANGED <<checks, settings, remote, refreshes, saves>>

(* AdminUpdateApp writes the content and nothing else.                      *)
AdminUpdateApp(a, c) ==
    /\ Live(a) /\ ~AppLocked(a)
    /\ apps' = [apps EXCEPT ![a].content = c]
    /\ UNCHANGED <<checks, settings, remote, refreshes, saves>>

(* Checks outlive their app (ON DELETE SET NULL).                           *)
DeleteApp(a) ==
    /\ Live(a) /\ ~AppLocked(a)
    /\ apps' = [apps EXCEPT ![a] = [@ EXCEPT !.state = "deleted", !.attached = None]]
    /\ checks' = [r \in RemoteIds |-> IF checks[r].app = a
                                      THEN [checks[r] EXCEPT !.app = None] ELSE checks[r]]
    /\ UNCHANGED <<settings, remote, refreshes, saves>>

-----------------------------------------------------------------------------
(* SecCheck.  The owner pastes the binding block of an app, its challenge   *)
(* and content hash, into the description of a review; a description cannot *)
(* be changed once the review is approved.  The verdict moves as SecCheck's *)
(* people please.                                                           *)

PasteBinding(r, a) ==
    /\ Live(a)
    /\ remote[r].verdict = "open"
    /\ remote' = [remote EXCEPT ![r].challenge = Challenge(a), ![r].content = apps[a].content]
    /\ UNCHANGED <<apps, checks, settings, refreshes, saves>>

Rule(r, verdict) ==
    /\ remote' = [remote EXCEPT ![r].verdict = verdict]
    /\ UNCHANGED <<apps, checks, settings, refreshes, saves>>

-----------------------------------------------------------------------------
(* refreshAppSecurityCheck, for the review the owner names or, with None,   *)
(* the one attached.                                                        *)

StopRefresh(h) == refreshes' = [refreshes EXCEPT ![h] = NoRefresh]

ReadSettings(h, a, r) ==
    /\ refreshes[h].pc = "idle"
    /\ Live(a)
    /\ refreshes' = [refreshes EXCEPT ![h] = [NoRefresh EXCEPT !.pc = "state", !.app = a,
                                                               !.rid = r, !.conn = settings]]
    /\ UNCHANGED <<apps, checks, settings, remote, saves>>

ReadState(h) ==
    LET a == refreshes[h].app
        r == IF refreshes[h].rid = None THEN apps[a].attached ELSE refreshes[h].rid
    IN
    /\ refreshes[h].pc = "state"
    /\ IF Live(a) /\ r # None
       THEN refreshes' = [refreshes EXCEPT ![h].pc = "content", ![h].rid = r,
                                           ![h].challenge = Challenge(a)]
       ELSE StopRefresh(h)
    /\ UNCHANGED <<apps, checks, settings, remote, saves>>

ReadContent(h) ==
    LET a == refreshes[h].app IN
    /\ refreshes[h].pc = "content"
    /\ IF Live(a)
       THEN refreshes' = [refreshes EXCEPT ![h].pc = "fetch", ![h].content = apps[a].content]
       ELSE StopRefresh(h)
    /\ UNCHANGED <<apps, checks, settings, remote, saves>>

(* Fetch and Verify: the connection read at first must be configured and    *)
(* honoured, it must know the review, and the review must carry exactly     *)
(* this challenge and content.  A review that is not approved, or approved  *)
(* and incomplete, goes on to be recorded; anything else ends the refresh.  *)
Answers(conn, r) ==
    /\ conn.url # None /\ conn.key # None
    /\ Issuer[conn.key] = conn.url
    /\ Home[r] = conn.url

Bound(h) ==
    LET r == refreshes[h].rid IN
    /\ remote[r].challenge = refreshes[h].challenge
    /\ remote[r].content = refreshes[h].content

FetchReview(h) ==
    LET r == refreshes[h].rid IN
    /\ refreshes[h].pc = "fetch"
    /\ IF Answers(refreshes[h].conn, r) /\ Bound(h)
       THEN refreshes' = [refreshes EXCEPT ![h].pc = "bind", ![h].verdict = remote[r].verdict]
       ELSE StopRefresh(h)
    /\ UNCHANGED <<apps, checks, settings, remote, saves>>

(* RecordAppSecurityCheck, first half: lock the app, compare challenge and  *)
(* revision, and see that the review is not another app's.                  *)
CheckBinding(h) ==
    LET a == refreshes[h].app
        row == checks[refreshes[h].rid]
    IN
    /\ refreshes[h].pc = "bind"
    /\ ~AppLocked(a)
    /\ IF /\ Live(a)
          /\ Challenge(a) = refreshes[h].challenge
          /\ settings.revision = refreshes[h].conn.revision
          /\ row.status = "none" \/ row.app = a
       THEN refreshes' = [refreshes EXCEPT ![h].pc = "upsert"]
       ELSE StopRefresh(h)
    /\ UNCHANGED <<apps, checks, settings, remote, saves>>

(* Faulty: the verdict is stored as it comes.                               *)
RecordedVerbatim(verdict) == verdict

(* Second half: insert the row or, where one exists by now, overwrite all   *)
(* of it but its app; attach the review to the app; commit.                 *)
RecordedStatus(verdict) == IF verdict = "incomplete" THEN "approved" ELSE verdict

Row(h) ==
    LET f == refreshes[h]
        row == checks[f.rid]
    IN [status |-> RecordedStatus(f.verdict),
        app |-> IF row.status = "none" THEN f.app ELSE row.app,
        challenge |-> f.challenge, revision |-> f.conn.revision,
        from |-> f.conn.url, content |-> f.content, blocked |-> f.verdict = "incomplete"]

Upsert(h) ==
    /\ Recording(h)
    /\ checks' = [checks EXCEPT ![refreshes[h].rid] = Row(h)]
    /\ apps' = [apps EXCEPT ![refreshes[h].app].attached = refreshes[h].rid]
    /\ StopRefresh(h)
    /\ UNCHANGED <<settings, remote, saves>>

(* The client is gone, SecCheck times out, or the process stops: nothing    *)
(* of an uncommitted transaction remains.                                   *)
LoseRefresh(h) ==
    /\ refreshes[h].pc # "idle"
    /\ StopRefresh(h)
    /\ UNCHANGED <<apps, checks, settings, remote, saves>>

-----------------------------------------------------------------------------
(* adminUpdateSecurityCheck.  The form carries an address and, if one was   *)
(* typed, a key; administrators type the key of the address they give.      *)

StopSave(s) == saves' = [saves EXCEPT ![s] = NoSave]

(* Faulty: a new address is accepted without its key.                       *)
StartSaveAnyAddress(s, url, key) ==
    /\ saves[s].pc = "idle"
    /\ settings.revision < MaxRevision
    /\ key # None => url = Issuer[key]
    /\ saves' = [saves EXCEPT ![s] = [pc |-> "read", url |-> url, revision |-> 0,
                                      key |-> IF key = settings.key THEN None ELSE key]]
    /\ UNCHANGED <<apps, checks, settings, remote, refreshes>>

(* The handler judges the form against the settings it reads: a new address *)
(* needs its own key; a key that is the stored one is not a new one.        *)
StartSave(s, url, key) ==
    /\ saves[s].pc = "idle"
    /\ settings.revision < MaxRevision
    /\ key # None => url = Issuer[key]
    /\ url \notin {settings.url, None} /\ settings.key # None => key # None
    /\ saves' = [saves EXCEPT ![s] = [pc |-> "read", url |-> url, revision |-> 0,
                                      key |-> IF key = settings.key THEN None ELSE key]]
    /\ UNCHANGED <<apps, checks, settings, remote, refreshes>>

(* Faulty: only a new key counts as a new connection.                       *)
ReadRowKeyOnly(s) ==
    /\ saves[s].pc = "read"
    /\ saves' = [saves EXCEPT ![s] =
                   [pc |-> "write", url |-> @.url,
                    key |-> IF @.key = None THEN settings.key ELSE @.key,
                    revision |-> settings.revision + (IF @.key # None THEN 1 ELSE 0)]]
    /\ UNCHANGED <<apps, checks, settings, remote, refreshes>>

(* UpdateSecurityCheckSettings reads the row again, without locking it: no  *)
(* new key keeps the stored one, and the revision moves with the connection *)
(* (a new key is a new ciphertext).                                         *)
ReadRow(s) ==
    LET moved == saves[s].url # settings.url \/ saves[s].key # None IN
    /\ saves[s].pc = "read"
    /\ saves' = [saves EXCEPT ![s] =
                   [pc |-> "write", url |-> @.url,
                    key |-> IF @.key = None THEN settings.key ELSE @.key,
                    revision |-> settings.revision + (IF moved THEN 1 ELSE 0)]]
    /\ UNCHANGED <<apps, checks, settings, remote, refreshes>>

WriteRow(s) ==
    /\ saves[s].pc = "write"
    /\ ~SettingsLocked
    /\ settings' = [url |-> saves[s].url, key |-> saves[s].key, revision |-> saves[s].revision]
    /\ StopSave(s)
    /\ UNCHANGED <<apps, checks, remote, refreshes>>

LoseSave(s) ==
    /\ saves[s].pc # "idle"
    /\ StopSave(s)
    /\ UNCHANGED <<apps, checks, settings, remote, refreshes>>

-----------------------------------------------------------------------------
(* Specifications.                                                          *)

AppNext ==
    \E a \in Apps :
        \/ \E c \in Contents : CreateApp(a, c) \/ UpdateApp(a, c)
        \/ DeleteApp(a)

AdminAppNext == \E a \in Apps, c \in Contents : AdminUpdateApp(a, c)

RemoteNext ==
    \E r \in RemoteIds :
        \/ \E a \in Apps : PasteBinding(r, a)
        \/ \E v \in Verdicts : Rule(r, v)

RefreshNext ==
    \E h \in Refreshers :
        \/ \E a \in Apps, r \in RemoteIds \cup {None} : ReadSettings(h, a, r)
        \/ ReadState(h) \/ ReadContent(h) \/ FetchReview(h)
        \/ CheckBinding(h) \/ Upsert(h) \/ LoseRefresh(h)

StartSaves(s) ==
    \E url \in Deployments \cup {None}, key \in Keys \cup {None} : StartSave(s, url, key)

SaveNext(s) == StartSaves(s) \/ ReadRow(s) \/ WriteRow(s) \/ LoseSave(s)

Next ==
    \/ AppNext \/ AdminAppNext \/ RemoteNext \/ RefreshNext
    \/ \E s \in Savers : SaveNext(s)

Spec == Init /\ [][Next]_vars

(* Everything but administrators rewriting apps, and the settings saved by  *)
(* one administrator at a time.                                             *)
OrderlyNext ==
    \/ AppNext \/ RemoteNext \/ RefreshNext
    \/ \E s \in Savers :
          /\ SaveNext(s)
          /\ \A t \in Savers \ {s} : saves[t].pc = "idle"

OrderlySpec == Init /\ [][OrderlyNext]_vars

(* Everything but administrators rewriting apps.                            *)
OwnersNext == AppNext \/ RemoteNext \/ RefreshNext \/ \E s \in Savers : SaveNext(s)

OwnersSpec == Init /\ [][OwnersNext]_vars

(* Everything, but the answers of one review recorded one after the other.  *)
OneRecording ==
    \A g, h \in Refreshers :
        Recording(g) /\ Recording(h) /\ refreshes[g].rid = refreshes[h].rid => g = h

SerialNext == Next /\ OneRecording'

SerialSpec == Init /\ [][SerialNext]_vars

-----------------------------------------------------------------------------
(* Properties that hold.                                                    *)

(* A label is only worn by the content SecCheck saw: whatever edits happen  *)
(* while settings, challenge and content are read one by one, SecCheck is   *)
(* asked and the answer recorded, a verified app has the very content that  *)
(* was bound to the approval.                                               *)
VerifiedContent ==
    \A a \in Apps : Verified(a) => checks[apps[a].attached].content = apps[a].content

(* A label comes from the SecCheck in use: an approval read from another    *)
(* deployment does not count once the settings point here.                  *)
VerifiedBySecCheckInUse ==
    \A a \in Apps : Verified(a) => checks[apps[a].attached].from = settings.url

(* A stored credential is only ever sent to the address it was entered for. *)
CredentialStaysHome ==
    settings.url # None /\ settings.key # None => Issuer[settings.key] = settings.url

-----------------------------------------------------------------------------
(* The abstract specification.  An app is labelled where its page says so;  *)
(* the label names what the row of its review says was attested.            *)

Kept == [a \in Apps |-> IF Live(a) THEN apps[a].content ELSE None]

Label ==
    [a \in Apps |->
        IF Verified(a)
        THEN [content |-> checks[apps[a].attached].content,
              from |-> checks[apps[a].attached].from]
        ELSE None]

Promise == INSTANCE Attestation WITH content <- Kept, inUse <- settings.url, label <- Label

(* However readings, questions to SecCheck, edits and saves of the settings *)
(* interleave, a label appears in one step, for the content and the         *)
(* deployment of that moment, and no edit, no change of deployment and no   *)
(* late answer leaves a label that was earned by something else.            *)
AttestationKept == Promise!Spec

-----------------------------------------------------------------------------
(* What the documentation says and the code does not keep.                  *)

(* "A review already bound to another app is refused outright", and is      *)
(* "never recycled for another": the label of an app comes from a review    *)
(* whose row is this app's.  Two recordings of one review that overlap      *)
(* break it: both see the review free, the second overwrites the challenge  *)
(* and attaches the first one's row.  It holds under SerialSpec.            *)
LabelOfOwnReview ==
    \A a \in Apps : Verified(a) => checks[apps[a].attached].app = a

(* "All of unreviewed items, unverified changes and stale verdicts are 0"   *)
(* is a condition of every approval AppStore accepts.                       *)
VerifiedHasNoBlockers ==
    \A a \in Apps : Verified(a) => ~checks[apps[a].attached].blocked
=============================================================================
