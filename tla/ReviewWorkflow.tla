--------------------------- MODULE ReviewWorkflow ---------------------------
(***************************************************************************)
(* The life of a catalogue entry: registration, submission, the multi      *)
(* level review, publication, archiving and deletion, as the HTTP handlers *)
(* of internal/httpapi drive the repository of internal/store.             *)
(*                                                                         *)
(* One action is one database transaction.  A handler that needs several   *)
(* (create, then submit; read, edit, read the workflow, then submit) is a  *)
(* request whose pc says which transaction comes next; other requests run  *)
(* in between and the client may go away at any point (Abort).             *)
(*                                                                         *)
(* What SecCheck says about an app is reduced here to one bit per app,     *)
(* cleared; module SecurityCheck models how that bit comes about.          *)
(***************************************************************************)
EXTENDS Naturals, ReviewPolicy

CONSTANTS
    Apps,       \* app identifiers; a UUID is never used twice
    Users,
    Managers,   \* users holding apps:manage
    Deciders,   \* Deciders[a]: users reviewScope lets decide on a's reviews
    Contents,   \* the data of an app, up to equality
    ReviewIds,  \* review identifiers; a UUID is never used twice
    Requests,   \* handlers that may be in flight at one time
    MaxLevels,  \* 10 in the code
    Configs,    \* the workflow configurations administrators choose from
    None

ASSUME WorkflowAssumption ==
    /\ Managers \subseteq Users
    /\ Deciders \in [Apps -> SUBSET Users]
    /\ MaxLevels \in Nat \ {0}
    /\ Configs \subseteq [enabled: BOOLEAN, levels: 1 .. MaxLevels, autoPublish: BOOLEAN,
                          reapproval: BOOLEAN, preventSelf: BOOLEAN]
    /\ Contents # {}
    /\ None \notin Apps \cup Users \cup Contents \cup ReviewIds

VARIABLES
    apps,       \* table apps
    reviews,    \* table reviews
    config,     \* the singleton row of workflow_config
    secEnabled, \* security_check_settings.enabled
    requests    \* the handlers in flight

vars == <<apps, reviews, config, secEnabled, requests>>

-----------------------------------------------------------------------------
(* Types.  "none" is a row not inserted yet, "deleted" a row that is gone. *)

Listed == {"draft", "pending_review", "published", "rejected", "archived"}
AppStatus == Listed \cup {"none", "deleted"}
ReviewStatus == {"none", "pending", "approved", "rejected", "cancelled", "deleted"}

(* shown is auxiliary: the content the app had when it last entered the    *)
(* catalogue.                                                              *)
App == [status: AppStatus, owner: Users \cup {None}, content: Contents \cup {None},
        cleared: BOOLEAN, shown: Contents \cup {None}]

(* round is auxiliary: the level 1 review of the submission this review    *)
(* belongs to.                                                             *)
Review == [status: ReviewStatus, app: Apps \cup {None}, submitter: Users \cup {None},
           level: 0 .. MaxLevels, reviewer: Users \cup {None},
           round: ReviewIds \cup {None}]

Request == [op: {"none", "create", "update", "submit"},
            pc: {"idle", "edit", "config", "submit"},
            app: Apps \cup {None}, user: Users \cup {None}, seen: AppStatus]

DefaultConfig == [enabled |-> FALSE, levels |-> 1, autoPublish |-> TRUE,
                  reapproval |-> TRUE, preventSelf |-> TRUE]

NoApp == [status |-> "none", owner |-> None, content |-> None,
          cleared |-> FALSE, shown |-> None]
NoReview == [status |-> "none", app |-> None, submitter |-> None, level |-> 0,
             reviewer |-> None, round |-> None]
Idle == [op |-> "none", pc |-> "idle", app |-> None, user |-> None, seen |-> "none"]

(* Every row, setting and handler in flight has its type.                  *)
TypeOK ==
    /\ apps \in [Apps -> App]
    /\ reviews \in [ReviewIds -> Review]
    /\ config \in Configs \cup {DefaultConfig}
    /\ secEnabled \in BOOLEAN
    /\ requests \in [Requests -> Request]

EmptyCatalog ==
    /\ apps = [a \in Apps |-> NoApp]
    /\ reviews = [r \in ReviewIds |-> NoReview]
    /\ requests = [h \in Requests |-> Idle]

Init ==
    /\ EmptyCatalog
    /\ config = DefaultConfig
    /\ secEnabled = FALSE

-----------------------------------------------------------------------------
(* The tables.                                                             *)

Exists(a) == apps[a].status \in Listed

MayEdit(u, a) == u = apps[a].owner \/ u \in Managers

(* What gateAppStatus and SubmitApp ask before exposing an app.            *)
Gate(a) == secEnabled => apps[a].cleared

Pending(r, a) == reviews[r].status = "pending" /\ reviews[r].app = a

WithStatus(a, status) ==
    [apps EXCEPT ![a].status = status,
                 ![a].shown = IF status = "published" THEN apps[a].content ELSE @]

(* An edit through UpdateApp: changed content rotates the challenge.       *)
Edited(a, c) ==
    [apps EXCEPT ![a].content = c,
                 ![a].cleared = @ /\ c = apps[a].content]

(* Two ways to get superseding wrong: forget it, or forget to ask whether  *)
(* the review is pending.                                                  *)
CancelNothing(a) == reviews
CancelEverything(a) ==
    [r \in ReviewIds |-> IF reviews[r].app = a THEN [reviews[r] EXCEPT !.status = "cancelled"]
                                              ELSE reviews[r]]

CancelPending(a) ==
    [r \in ReviewIds |-> IF Pending(r, a) THEN [reviews[r] EXCEPT !.status = "cancelled"]
                                          ELSE reviews[r]]

NewReview(a, u, level, round) ==
    [status |-> "pending", app |-> a, submitter |-> u, level |-> level,
     reviewer |-> None, round |-> round]

Finish(h) == requests' = [requests EXCEPT ![h] = Idle]

Begin(h, op, pc, a, u) ==
    /\ requests[h].pc = "idle"
    /\ requests' = [requests EXCEPT ![h] = [op |-> op, pc |-> pc, app |-> a, user |-> u,
                                            seen |-> apps[a].status]]

-----------------------------------------------------------------------------
(* Owners: the handlers createApp, updateApp, submitApp and deleteApp, and *)
(* their MCP twins.                                                        *)

(* createApp, mcpSubmitApp: the row is committed as a draft first.         *)
CreateApp(h, u, a, c) ==
    /\ apps[a].status = "none"
    /\ requests[h].pc = "idle"
    /\ apps' = [apps EXCEPT ![a] = [NoApp EXCEPT !.status = "draft", !.owner = u, !.content = c]]
    /\ requests' = [requests EXCEPT ![h] = [op |-> "create", pc |-> "submit", app |-> a,
                                            user |-> u, seen |-> "draft"]]
    /\ UNCHANGED <<reviews, config, secEnabled>>

(* updateApp, mcpUpdateApp: the row read here supplies before.Status.      *)
StartUpdate(h, u, a) ==
    /\ Exists(a)
    /\ MayEdit(u, a)
    /\ Begin(h, "update", "edit", a, u)
    /\ UNCHANGED <<apps, reviews, config, secEnabled>>

UpdateApp(h, c) ==
    /\ requests[h].op = "update" /\ requests[h].pc = "edit"
    /\ Exists(requests[h].app)
    /\ apps' = Edited(requests[h].app, c)
    /\ requests' = [requests EXCEPT ![h].pc = "config"]
    /\ UNCHANGED <<reviews, config, secEnabled>>

(* Faulty: re-approval concerns published apps, so only they are asked.    *)
ResubmitPublishedOnly(cfg, status) ==
    cfg.enabled /\ status = "published" /\ cfg.reapproval

ResubmitAfterEdit(cfg, status) ==
    /\ cfg.enabled
    /\ \/ status = "rejected"
       \/ status = "published" /\ cfg.reapproval

(* The workflow is read outside any transaction and judged against the     *)
(* status the app had before the edit.                                     *)
ReadConfig(h) ==
    /\ requests[h].pc = "config"
    /\ requests' = [requests EXCEPT ![h] = IF ResubmitAfterEdit(config, @.seen)
                                           THEN [@ EXCEPT !.pc = "submit"] ELSE Idle]
    /\ UNCHANGED <<apps, reviews, config, secEnabled>>

(* submitApp: the ownership check and the fresh SecCheck reading.          *)
StartSubmit(h, u, a) ==
    /\ Exists(a)
    /\ MayEdit(u, a)
    /\ Gate(a)
    /\ Begin(h, "submit", "submit", a, u)
    /\ UNCHANGED <<apps, reviews, config, secEnabled>>

(* SubmitApp with the workflow on: every pending review is superseded and  *)
(* a level 1 review opened, whatever status the app is in.                 *)
Queue(h) ==
    LET a == requests[h].app IN
    /\ requests[h].pc = "submit"
    /\ Exists(a) /\ Gate(a)
    /\ config.enabled
    /\ \E r \in ReviewIds :
          /\ reviews[r].status = "none"
          /\ reviews' = [CancelPending(a) EXCEPT ![r] = NewReview(a, requests[h].user, 1, r)]
    /\ apps' = WithStatus(a, "pending_review")
    /\ Finish(h)
    /\ UNCHANGED <<config, secEnabled>>

(* SubmitApp with the workflow off: straight into the catalogue.           *)
PublishAtOnce(h) ==
    LET a == requests[h].app IN
    /\ requests[h].pc = "submit"
    /\ Exists(a) /\ Gate(a)
    /\ ~config.enabled
    /\ reviews' = CancelPending(a)
    /\ apps' = WithStatus(a, "published")
    /\ Finish(h)
    /\ UNCHANGED <<config, secEnabled>>

(* submitOrHold: without clearance nothing is written.  A row that is gone *)
(* ends any handler the same way.                                          *)
Hold(h) ==
    /\ \/ requests[h].pc = "submit" /\ Exists(requests[h].app) /\ ~Gate(requests[h].app)
       \/ requests[h].pc \in {"edit", "submit"} /\ ~Exists(requests[h].app)
    /\ Finish(h)
    /\ UNCHANGED <<apps, reviews, config, secEnabled>>

SubmitApp(h) == Queue(h) \/ PublishAtOnce(h) \/ Hold(h)

(* The client disconnects or the process stops between two transactions.   *)
Abort(h) ==
    /\ requests[h].pc # "idle"
    /\ Finish(h)
    /\ UNCHANGED <<apps, reviews, config, secEnabled>>

(* deleteApp archives; the app's pending review is left alone.             *)
ArchiveApp(u, a) ==
    /\ Exists(a)
    /\ MayEdit(u, a)
    /\ apps' = WithStatus(a, "archived")
    /\ UNCHANGED <<reviews, config, secEnabled, requests>>

-----------------------------------------------------------------------------
(* Reviewers: DecideReview locks the review, requires it pending, and is   *)
(* one transaction.  It looks neither at the app's status nor at SecCheck. *)

(* Faulty: a decided review may be decided again, as if the row were read  *)
(* without its status; and: anybody may decide, the submitter included.    *)
MayDecideAgain(u, r) ==
    /\ reviews[r].status \in {"pending", "approved"}
    /\ u \in Deciders[reviews[r].app]
    /\ config.preventSelf => u # reviews[r].submitter
MayDecideOwn(u, r) ==
    reviews[r].status = "pending" /\ u \in Deciders[reviews[r].app]

MayDecide(u, r) ==
    /\ reviews[r].status = "pending"
    /\ u \in Deciders[reviews[r].app]
    /\ config.preventSelf => u # reviews[r].submitter

Decided(r, u, status) ==
    [reviews EXCEPT ![r].status = status, ![r].reviewer = u]

(* Faulty: the review is turned down and its app forgotten.                *)
RejectReviewOnly(u, r) ==
    /\ MayDecide(u, r)
    /\ reviews' = Decided(r, u, "rejected")
    /\ UNCHANGED <<apps, config, secEnabled, requests>>

Reject(u, r) ==
    /\ MayDecide(u, r)
    /\ reviews' = Decided(r, u, "rejected")
    /\ apps' = WithStatus(reviews[r].app, "rejected")
    /\ UNCHANGED <<config, secEnabled, requests>>

(* Faulty: one level too many.                                             *)
ApproveToNextLevelAlways(u, r) ==
    LET a == reviews[r].app IN
    /\ MayDecide(u, r)
    /\ config.enabled /\ reviews[r].level <= config.levels
    /\ \E q \in ReviewIds :
          /\ reviews[q].status = "none"
          /\ reviews' = [Decided(r, u, "approved") EXCEPT
                           ![q] = NewReview(a, reviews[r].submitter,
                                            reviews[r].level + 1, reviews[r].round)]
    /\ UNCHANGED <<apps, config, secEnabled, requests>>

ApproveToNextLevel(u, r) ==
    LET a == reviews[r].app IN
    /\ MayDecide(u, r)
    /\ config.enabled /\ reviews[r].level < config.levels
    /\ \E q \in ReviewIds :
          /\ reviews[q].status = "none"
          /\ reviews' = [Decided(r, u, "approved") EXCEPT
                           ![q] = NewReview(a, reviews[r].submitter,
                                            reviews[r].level + 1, reviews[r].round)]
    /\ UNCHANGED <<apps, config, secEnabled, requests>>

(* Faulty: any approval is the last.                                       *)
ApproveAnyLevel(u, r) ==
    /\ MayDecide(u, r)
    /\ reviews' = Decided(r, u, "approved")
    /\ apps' = IF config.autoPublish \/ ~config.enabled
               THEN WithStatus(reviews[r].app, "published") ELSE apps
    /\ UNCHANGED <<config, secEnabled, requests>>

(* Faulty: the setting alone decides, as if the workflow were always on.   *)
ApproveBySetting(u, r) ==
    /\ MayDecide(u, r)
    /\ ~(config.enabled /\ reviews[r].level < config.levels)
    /\ reviews' = Decided(r, u, "approved")
    /\ apps' = IF config.autoPublish THEN WithStatus(reviews[r].app, "published") ELSE apps
    /\ UNCHANGED <<config, secEnabled, requests>>

(* The last level: publish, or leave the app where it is for an            *)
(* administrator to publish.                                               *)
ApproveLast(u, r) ==
    /\ MayDecide(u, r)
    /\ ~(config.enabled /\ reviews[r].level < config.levels)
    /\ reviews' = Decided(r, u, "approved")
    /\ apps' = IF config.autoPublish \/ ~config.enabled
               THEN WithStatus(reviews[r].app, "published") ELSE apps
    /\ UNCHANGED <<config, secEnabled, requests>>

DecideReview(u, r) == Reject(u, r) \/ ApproveToNextLevel(u, r) \/ ApproveLast(u, r)

-----------------------------------------------------------------------------
(* Administrators.                                                         *)

SetAppStatus(a, status) ==
    /\ Exists(a)
    /\ status \in {"pending_review", "published"} => Gate(a)
    /\ apps' = WithStatus(a, status)
    /\ UNCHANGED <<reviews, config, secEnabled, requests>>

AdminCreateApp(u, a, c, status) ==
    /\ apps[a].status = "none"
    /\ apps' = [apps EXCEPT ![a] =
                   [NoApp EXCEPT !.status = status, !.owner = u, !.content = c,
                                 !.shown = IF status = "published" THEN c ELSE None]]
    /\ UNCHANGED <<reviews, config, secEnabled, requests>>

(* adminUpdateApp writes the whole record in one statement, with the       *)
(* status given or, when none is, the one it read before: either way any   *)
(* status may be written.  Neither the gate nor the challenge nor the open *)
(* review is touched.                                                      *)
AdminUpdateApp(a, c, status) ==
    /\ Exists(a)
    /\ apps' = [apps EXCEPT ![a].content = c, ![a].status = status,
                            ![a].shown = IF status = "published" THEN c ELSE @]
    /\ UNCHANGED <<reviews, config, secEnabled, requests>>

(* The row goes and its reviews with it (ON DELETE CASCADE).               *)
DeleteApp(a) ==
    /\ Exists(a)
    /\ apps' = [apps EXCEPT ![a] = [NoApp EXCEPT !.status = "deleted"]]
    /\ reviews' = [r \in ReviewIds |->
                     IF reviews[r].app = a THEN [NoReview EXCEPT !.status = "deleted"]
                                           ELSE reviews[r]]
    /\ UNCHANGED <<config, secEnabled, requests>>

UpdateWorkflowConfig(cfg) ==
    /\ config' = cfg
    /\ UNCHANGED <<apps, reviews, secEnabled, requests>>

(* The settings screen of SecCheck and what refreshing an app records, as  *)
(* far as this module sees them; see module SecurityCheck.                 *)
SetSecurityCheck(on) ==
    /\ secEnabled' = on
    /\ UNCHANGED <<apps, reviews, config, requests>>

RecordSecurityCheck(a, verified) ==
    /\ Exists(a)
    /\ apps' = [apps EXCEPT ![a].cleared = verified]
    /\ UNCHANGED <<reviews, config, secEnabled, requests>>

-----------------------------------------------------------------------------
(* Specifications.                                                         *)

Handler(h) ==
    \/ \E c \in Contents : UpdateApp(h, c)
    \/ ReadConfig(h)
    \/ SubmitApp(h)

OwnerNext ==
    \/ \E h \in Requests : Handler(h)
    \/ \E h \in Requests, u \in Users, a \in Apps :
          \/ \E c \in Contents : CreateApp(h, u, a, c)
          \/ StartUpdate(h, u, a)
          \/ StartSubmit(h, u, a)
    \/ \E u \in Users, a \in Apps : ArchiveApp(u, a)

AbortNext == \E h \in Requests : Abort(h)

ReviewNext == \E u \in Users, r \in ReviewIds : DecideReview(u, r)

SecurityNext == \E a \in Apps, b \in BOOLEAN : RecordSecurityCheck(a, b)

AdminNext ==
    \E a \in Apps :
        \/ DeleteApp(a)
        \/ \E s \in Listed : SetAppStatus(a, s)
        \/ \E c \in Contents, s \in Listed :
              \/ AdminUpdateApp(a, c, s)
              \/ \E u \in Managers : AdminCreateApp(u, a, c, s)

SettingsNext ==
    \/ \E cfg \in Configs : UpdateWorkflowConfig(cfg)
    \/ \E b \in BOOLEAN : SetSecurityCheck(b)

(* Everything the service does.                                            *)
Next == OwnerNext \/ AbortNext \/ ReviewNext \/ SecurityNext \/ AdminNext \/ SettingsNext

Spec == Init /\ [][Next]_vars

(* An organisation that has switched the workflow on, publishes on the     *)
(* last approval, separates submitter and reviewer, and leaves the status  *)
(* of its apps to the workflow: its administrators delete apps and switch  *)
(* SecCheck on and off, no more.                                           *)
SettledInit ==
    /\ EmptyCatalog
    /\ config \in Configs
    /\ config.enabled /\ config.autoPublish /\ config.preventSelf
    /\ secEnabled \in BOOLEAN

HousekeepingNext ==
    \/ \E a \in Apps : DeleteApp(a)
    \/ \E b \in BOOLEAN : SetSecurityCheck(b)

SettledNext == OwnerNext \/ AbortNext \/ ReviewNext \/ SecurityNext \/ HousekeepingNext

SettledSpec == SettledInit /\ [][SettledNext]_vars

(* The same with SecCheck required all along, and never taking back what   *)
(* it has cleared: only an edit costs an app its clearance.                *)
GatedSpec ==
    /\ SettledInit /\ secEnabled = TRUE
    /\ [][OwnerNext \/ AbortNext \/ ReviewNext
          \/ \E a \in Apps : RecordSecurityCheck(a, TRUE)]_vars

(* A settled organisation without housekeeping and lost clients; a handler *)
(* that is running goes on.                                                *)
SteadySpec ==
    /\ SettledInit
    /\ [][OwnerNext \/ ReviewNext \/ SecurityNext]_vars
    /\ \A h \in Requests : WF_vars(Handler(h))

-----------------------------------------------------------------------------
(* Properties of everything the service does (Spec).                       *)

Opened(r) == reviews[r].status \in {"pending", "approved", "rejected", "cancelled"}

Approved(r) == reviews[r].status = "approved"

(* An app has at most one pending review, although no constraint of the    *)
(* schema says so: superseding in SubmitApp and the pending check of       *)
(* DecideReview keep it, whatever interleaves with them.                   *)
OnePendingReview ==
    \A a \in Apps, r, q \in ReviewIds : Pending(r, a) /\ Pending(q, a) => r = q

(* A review above level 1 stands on an approval at every lower level of    *)
(* the same submission, by the same submitter of the same app, and no      *)
(* approval ever opened two next levels.                                   *)
ChainOfApprovals ==
    \A r \in ReviewIds : Opened(r) =>
        /\ \A k \in 1 .. reviews[r].level - 1 : \E q \in ReviewIds :
              /\ Approved(q)
              /\ reviews[q].level = k
              /\ reviews[q].round = reviews[r].round
              /\ reviews[q].app = reviews[r].app
              /\ reviews[q].submitter = reviews[r].submitter
        /\ \A q \in ReviewIds :
              Opened(q) /\ reviews[q].round = reviews[r].round
                       /\ reviews[q].level = reviews[r].level => q = r

(* A decision is never revised: a review that is approved, rejected or     *)
(* superseded stays exactly as it is until its app is deleted.             *)
DecisionsAreFinal ==
    [][\A r \in ReviewIds :
          Opened(r) /\ reviews[r].status # "pending" =>
              reviews'[r] = reviews[r] \/ reviews'[r].status = "deleted"]_vars

(* Package workflow refuses while the workflow is off, DecideReview goes    *)
(* on: it then decides as for one level whose approval publishes.          *)
PolicyInForce ==
    IF config.enabled THEN config
    ELSE [config EXCEPT !.enabled = TRUE, !.levels = 1, !.autoPublish = TRUE]

DecidesOn(r) ==
    /\ reviews[r].status = "pending"
    /\ reviews'[r].status \in {"approved", "rejected"}

(* What DecideReview does in SQL is what package workflow decides under    *)
(* the policy in force: the same refusals, the same status for the app     *)
(* (left alone where the package says pending_review), the same next       *)
(* level, however the configuration moves while a review is open.          *)
DecisionsFollowPolicy ==
    [][\A r \in ReviewIds : DecidesOn(r) =>
          LET a == reviews[r].app
              t == Transition(PolicyInForce, reviews[r], reviews'[r].status)
              opened == {q \in ReviewIds : reviews[q].status = "none"
                                            /\ reviews'[q].status = "pending"}
          IN /\ MayDecideByPolicy(PolicyInForce, reviews[r], reviews'[r].reviewer)
             /\ IF t.appStatus = "pending_review" THEN apps' = apps
                                                 ELSE apps'[a].status = t.appStatus
             /\ {reviews'[q].level : q \in opened} =
                   IF t.nextLevel = 0 THEN {} ELSE {t.nextLevel}]_vars

-----------------------------------------------------------------------------
(* Properties of a settled workflow (SettledSpec, SteadySpec).             *)

(* The queue tells the truth: an app awaiting review has a review a        *)
(* reviewer can decide, and a draft, published or rejected app has none    *)
(* that could still change it.                                             *)
QueueAgrees ==
    \A a \in Apps :
        /\ apps[a].status = "pending_review" => \E r \in ReviewIds : Pending(r, a)
        /\ apps[a].status \in {"draft", "published", "rejected"} =>
              ~ \E r \in ReviewIds : Pending(r, a)

(* Nothing is published but by a full chain: somebody submitted the app    *)
(* and at every level somebody else approved that submission.              *)
PublishedWasApproved ==
    \A a \in Apps : apps[a].status = "published" =>
        \E round \in ReviewIds : \A k \in 1 .. config.levels : \E r \in ReviewIds :
            /\ Approved(r)
            /\ reviews[r].app = a
            /\ reviews[r].round = round
            /\ reviews[r].level = k
            /\ reviews[r].reviewer # reviews[r].submitter

(* An app a reviewer turned down reaches the catalogue only by way of the  *)
(* queue, whatever edit, submission or decision is in flight meanwhile.    *)
RejectedIsNotPublished ==
    [][\A a \in Apps : apps[a].status = "rejected" => apps'[a].status # "published"]_vars

(* The reviews of an app, its handlers and whoever decides implement what  *)
(* module Approval promises: the pending review is the submission in hand, *)
(* and the approvals of its round are the signatures it has so far.        *)
Current(a) == CHOOSE r \in ReviewIds : Pending(r, a)
InHand(a) == \E r \in ReviewIds : Pending(r, a)

SignedBy(r, k) ==
    reviews[CHOOSE q \in ReviewIds :
               Approved(q) /\ reviews[q].round = reviews[r].round /\ reviews[q].level = k].reviewer

Stage == [a \in Apps |-> apps[a].status]
Author == [a \in Apps |-> IF InHand(a) THEN reviews[Current(a)].submitter ELSE None]
Signed == [a \in Apps |-> IF InHand(a)
                          THEN [k \in 1 .. reviews[Current(a)].level - 1 |->
                                   SignedBy(Current(a), k)]
                          ELSE << >>]
Promise == INSTANCE Approval WITH
              Nobody <- None, levels <- config.levels,
              stage <- Stage, author <- Author, signed <- Signed
ApprovalKept == Promise!Spec

(* Fixing a rejected app puts it back in the queue: once the edit is       *)
(* written its handler submits it, unless SecCheck holds it back.  (The    *)
(* model may run out of review identifiers.)                               *)
EditedRejectionIsRequeued ==
    \A h \in Requests, a \in Apps :
        (/\ requests[h].op = "update" /\ requests[h].pc = "config"
         /\ requests[h].app = a /\ requests[h].seen = "rejected"
         /\ ~secEnabled)
        ~> (\/ apps[a].status # "rejected"
            \/ \A r \in ReviewIds : reviews[r].status # "none")

-----------------------------------------------------------------------------
(* What the documentation says and the code does not keep.                 *)

(* "An administrator cannot publish around the gate either": while         *)
(* SecCheck is required no app enters the queue or the catalogue without   *)
(* clearance, in particular not by AdminCreateApp or AdminUpdateApp.       *)
AdminPassesGate ==
    [][\A a \in Apps :
          /\ apps'[a].status \in {"pending_review", "published"}
          /\ apps'[a].status # apps[a].status
          /\ UNCHANGED <<reviews, requests>>
          => Gate(a)]_vars

(* "review workflow is disabled": package workflow decides nothing while   *)
(* the workflow is off.                                                    *)
NoDecisionWhileOff == [][\A r \in ReviewIds : DecidesOn(r) => config.enabled]_vars

(* "The gate every transition into the review queue or the catalog passes  *)
(* through": the last approval of a review is such a transition.           *)
ApprovalPassesGate ==
    [][\A a \in Apps :
          apps'[a].status = "published" /\ apps[a].status # "published" => Gate(a)]_vars

(* "A published app that is edited is reviewed again": with re-approval on *)
(* and no handler at work on it, a published app has the content it was    *)
(* published with.                                                         *)
EditIsReviewedAgain ==
    \A a \in Apps :
        /\ apps[a].status = "published" /\ config.reapproval /\ ~secEnabled
        /\ \A h \in Requests : requests[h].app # a
        => apps[a].content = apps[a].shown

(* The same where SecCheck holds the edit back: "the app goes back to      *)
(* draft" instead of staying in the catalogue with the new content.        *)
HeldEditLeavesCatalog ==
    [][\A h \in Requests :
          /\ requests[h].op = "update" /\ requests[h].pc = "submit"
          /\ requests[h].seen = "published"
          /\ requests'[h].pc = "idle"
          => apps'[requests[h].app].status # "published"]_vars
=============================================================================
