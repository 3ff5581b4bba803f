----------------------- MODULE ReviewWorkflow_proofs -----------------------
(***************************************************************************)
(* Theorems about ReviewWorkflow, for any number of apps, users, reviews   *)
(* and handlers.                                                           *)
(*                                                                         *)
(* Part 1 is about everything the service does (Spec): the inductive       *)
(* invariant ReviewInv, and with it OnePendingReview, ChainOfApprovals and *)
(* DecisionsAreFinal.  Part 2 is about a settled workflow (SettledSpec),   *)
(* whose steps are steps of Next that keep the settings.                   *)
(***************************************************************************)
EXTENDS ReviewWorkflow, TLAPS

-----------------------------------------------------------------------------
(* The inductive invariant.                                                *)

(* A handler in flight knows its app and its user; a review that has been  *)
(* opened belongs to an app that exists; any other review is blank.        *)
Formed ==
    /\ \A h \in Requests : requests[h].pc # "idle" =>
          requests[h].app \in Apps /\ requests[h].user \in Users
    /\ \A r \in ReviewIds :
          IF Opened(r)
          THEN /\ reviews[r].app \in Apps
               /\ Exists(reviews[r].app)
               /\ reviews[r].submitter \in Users
               /\ reviews[r].level \in 1 .. MaxLevels
               /\ reviews[r].round \in ReviewIds
          ELSE reviews[r].app = None

(* The reviews of one submission: its first review is never used again,    *)
(* all belong to the same app and submitter, and the pending one is the    *)
(* highest.                                                                *)
Rounds ==
    \A r \in ReviewIds : Opened(r) =>
        /\ reviews[reviews[r].round].status # "none"
        /\ \A q \in ReviewIds : Opened(q) /\ reviews[q].round = reviews[r].round =>
              /\ reviews[q].app = reviews[r].app
              /\ reviews[q].submitter = reviews[r].submitter
              /\ reviews[r].status = "pending" => reviews[q].level <= reviews[r].level

ReviewInv == TypeOK /\ Formed /\ OnePendingReview /\ Rounds /\ ChainOfApprovals

-----------------------------------------------------------------------------
(* The operators the actions are built from keep the types.                *)

(* Writing a status the schema allows keeps the apps table typed.          *)
LEMMA WithStatusType ==
    ASSUME TypeOK, NEW a \in Apps, NEW s \in Listed
    PROVE  /\ WithStatus(a, s) \in [Apps -> App]
           /\ WithStatus(a, s)[a].status = s
           /\ \A b \in Apps \ {a} : WithStatus(a, s)[b] = apps[b]
<1>1. apps[a] \in App
  BY DEF TypeOK
<1> DEFINE row == [apps[a] EXCEPT !.status = s,
                                 !.shown = IF s = "published" THEN apps[a].content ELSE @]
<1>2. row \in App /\ row.status = s
  BY <1>1 DEF App, AppStatus
<1>3. WithStatus(a, s) = [apps EXCEPT ![a] = row]
  BY DEF WithStatus, TypeOK, App
<1> QED
  BY <1>2, <1>3 DEF TypeOK

(* Superseding an app's pending reviews keeps the reviews table typed.     *)
LEMMA CancelPendingType ==
    ASSUME TypeOK, NEW a
    PROVE  CancelPending(a) \in [ReviewIds -> Review]
BY DEF TypeOK, CancelPending, Review, ReviewStatus

(* A review opened for an existing app is a row of the right type.         *)
LEMMA NewReviewType ==
    ASSUME TypeOK, NEW a \in Apps, NEW u \in Users \cup {None}, NEW level \in 0 .. MaxLevels,
           NEW round \in ReviewIds \cup {None}
    PROVE  NewReview(a, u, level, round) \in Review
BY DEF TypeOK, NewReview, Review, ReviewStatus, App

(* Recording a decision keeps the reviews table typed.                     *)
LEMMA DecidedType ==
    ASSUME TypeOK, NEW r, NEW u \in Users, NEW s \in ReviewStatus
    PROVE  Decided(r, u, s) \in [ReviewIds -> Review]
BY DEF TypeOK, Decided, Review

(* Ending a handler keeps the requests typed.                              *)
LEMMA FinishType ==
    ASSUME TypeOK, NEW h, Finish(h)
    PROVE  requests' \in [Requests -> Request]
BY DEF TypeOK, Finish, Idle, Request, AppStatus

(* Starting a handler keeps the requests typed.                            *)
LEMMA BeginType ==
    ASSUME TypeOK, NEW h \in Requests, NEW a \in Apps, NEW u \in Users,
           NEW op \in {"create", "update", "submit"}, NEW pc \in {"edit", "config", "submit"},
           Begin(h, op, pc, a, u)
    PROVE  requests' \in [Requests -> Request]
BY DEF TypeOK, Begin, Request, App

(* A configuration never asks for more levels than the maximum.            *)
LEMMA ConfigLevels ==
    ASSUME TypeOK
    PROVE  config.levels \in 1 .. MaxLevels
BY WorkflowAssumption DEF TypeOK, DefaultConfig

-----------------------------------------------------------------------------
(* The initial states.                                                     *)

(* An empty catalogue satisfies everything said about reviews.             *)
LEMMA EmptyCatalogInv ==
    ASSUME EmptyCatalog, config \in Configs \cup {DefaultConfig}, secEnabled \in BOOLEAN
    PROVE  ReviewInv
<1>1. TypeOK
  BY WorkflowAssumption DEF TypeOK, EmptyCatalog, NoApp, NoReview, Idle, App, AppStatus, Review, ReviewStatus, Request
<1>2. \A r \in ReviewIds : reviews[r] = NoReview /\ ~Opened(r)
  BY DEF EmptyCatalog, NoReview, Opened
<1>3. Formed
  BY <1>2 DEF Formed, EmptyCatalog, Idle, NoReview
<1>4. OnePendingReview /\ Rounds /\ ChainOfApprovals
  BY <1>2 DEF OnePendingReview, Pending, Opened, Rounds, ChainOfApprovals
<1> QED
  BY <1>1, <1>3, <1>4 DEF ReviewInv

-----------------------------------------------------------------------------
(* What a step may do to the table of reviews.                             *)

Submits(a, u, r) ==
    /\ Exists(a)
    /\ reviews[r].status = "none"
    /\ reviews' = [CancelPending(a) EXCEPT ![r] = NewReview(a, u, 1, r)]

Decides(r, u, s) ==
    /\ reviews[r].status = "pending"
    /\ reviews' = Decided(r, u, s)

Escalates(r, u, q) ==
    /\ reviews[r].status = "pending"
    /\ reviews[r].level < MaxLevels
    /\ reviews[q].status = "none"
    /\ reviews' = [Decided(r, u, "approved") EXCEPT
                      ![q] = NewReview(reviews[r].app, reviews[r].submitter,
                                       reviews[r].level + 1, reviews[r].round)]

Removes(a) ==
    reviews' = [r \in ReviewIds |->
                  IF reviews[r].app = a THEN [NoReview EXCEPT !.status = "deleted"]
                                        ELSE reviews[r]]

ReviewStep ==
    \/ UNCHANGED reviews
    \/ \E a \in Apps, u \in Users, r \in ReviewIds : Submits(a, u, r)
    \/ \E a \in Apps : reviews' = CancelPending(a)
    \/ \E r \in ReviewIds, u \in Users, s \in {"approved", "rejected"} : Decides(r, u, s)
    \/ \E r, q \in ReviewIds, u \in Users : Escalates(r, u, q)
    \/ \E a \in Apps : Removes(a)

(* Every step of Next is one of them.                                      *)
LEMMA StepOfReviews ==
    ASSUME ReviewInv, [Next]_vars
    PROVE  ReviewStep
<1> USE DEF ReviewStep
<1>1. ASSUME NEW h \in Requests, Queue(h) PROVE ReviewStep
  BY <1>1 DEF Queue, Submits, ReviewInv, Formed
<1>2. ASSUME NEW h \in Requests, PublishAtOnce(h) PROVE ReviewStep
  BY <1>2 DEF PublishAtOnce, ReviewInv, Formed
<1>3. ASSUME NEW u \in Users, NEW r \in ReviewIds, Reject(u, r) PROVE ReviewStep
  BY <1>3 DEF Reject, MayDecide, Decides
<1>4. ASSUME NEW u \in Users, NEW r \in ReviewIds, ApproveLast(u, r) PROVE ReviewStep
  BY <1>4 DEF ApproveLast, MayDecide, Decides
<1>5. ASSUME NEW u \in Users, NEW r \in ReviewIds, ApproveToNextLevel(u, r) PROVE ReviewStep
  <2>1. reviews[r].level < MaxLevels
    <3>1. reviews[r].level \in Nat
      BY <1>5 DEF ReviewInv, TypeOK, Review
    <3> QED
      BY <1>5, <3>1, ConfigLevels, WorkflowAssumption DEF ApproveToNextLevel, ReviewInv
  <2> QED
    BY <1>5, <2>1 DEF ApproveToNextLevel, MayDecide, Escalates
<1>6. ASSUME NEW a \in Apps, DeleteApp(a) PROVE ReviewStep
  BY <1>6 DEF DeleteApp, Removes
<1>7. CASE OwnerNext
  BY <1>1, <1>2, <1>7 DEF OwnerNext, Handler, SubmitApp, Hold, UpdateApp, ReadConfig, CreateApp,
     StartUpdate, StartSubmit, ArchiveApp
<1>8. CASE ReviewNext
  BY <1>3, <1>4, <1>5, <1>8 DEF ReviewNext, DecideReview
<1>9. CASE AdminNext
  BY <1>6, <1>9 DEF AdminNext, SetAppStatus, AdminUpdateApp, AdminCreateApp
<1>10. CASE AbortNext \/ SecurityNext \/ SettingsNext
  BY <1>10 DEF AbortNext, Abort, SecurityNext, RecordSecurityCheck, SettingsNext,
     UpdateWorkflowConfig, SetSecurityCheck
<1>11. CASE UNCHANGED vars
  BY <1>11 DEF vars
<1> QED
  BY <1>7, <1>8, <1>9, <1>10, <1>11 DEF Next

-----------------------------------------------------------------------------
(* Types are preserved, action by action.                                  *)

(* The owners' handlers keep every variable in its type.                   *)
LEMMA OwnerType ==
    ASSUME ReviewInv, OwnerNext
    PROVE  TypeOK'
<1> USE DEF ReviewInv
<1>1. ASSUME NEW h \in Requests, NEW c \in Contents, UpdateApp(h, c) PROVE TypeOK'
  <2>1. requests[h].app \in Apps
    BY <1>1 DEF UpdateApp, Formed
  <2>2. apps' \in [Apps -> App]
    BY <1>1, <2>1 DEF UpdateApp, Edited, TypeOK, App
  <2>3. requests' \in [Requests -> Request]
    BY <1>1 DEF UpdateApp, TypeOK, Request
  <2> QED
    BY <1>1, <2>2, <2>3 DEF UpdateApp, TypeOK
<1>2. ASSUME NEW h \in Requests, ReadConfig(h) PROVE TypeOK'
  <2>1. requests' \in [Requests -> Request]
    BY <1>2 DEF ReadConfig, TypeOK, Request, Idle, AppStatus
  <2> QED
    BY <1>2, <2>1 DEF ReadConfig, TypeOK
<1>3. ASSUME NEW h \in Requests, Queue(h) PROVE TypeOK'
  <2> DEFINE a == requests[h].app
  <2>1. a \in Apps /\ requests[h].user \in Users
    BY <1>3 DEF Queue, Formed
  <2>2. PICK r \in ReviewIds :
          reviews' = [CancelPending(a) EXCEPT ![r] = NewReview(a, requests[h].user, 1, r)]
    BY <1>3 DEF Queue
  <2>3. reviews' \in [ReviewIds -> Review]
    <3>1. NewReview(a, requests[h].user, 1, r) \in Review
      BY <2>1, NewReviewType, WorkflowAssumption
    <3> QED
      BY <2>2, <3>1, CancelPendingType
  <2>4. apps' \in [Apps -> App]
    BY <1>3, <2>1, WithStatusType DEF Queue, Listed
  <2> QED
    BY <1>3, <2>3, <2>4, FinishType DEF Queue, TypeOK
<1>4. ASSUME NEW h \in Requests, PublishAtOnce(h) PROVE TypeOK'
  <2>1. requests[h].app \in Apps
    BY <1>4 DEF PublishAtOnce, Formed
  <2>2. apps' \in [Apps -> App]
    BY <1>4, <2>1, WithStatusType DEF PublishAtOnce, Listed
  <2> QED
    BY <1>4, <2>2, FinishType, CancelPendingType DEF PublishAtOnce, TypeOK
<1>5. ASSUME NEW h \in Requests, Hold(h) PROVE TypeOK'
  BY <1>5, FinishType DEF Hold, TypeOK
<1>6. ASSUME NEW h \in Requests, NEW u \in Users, NEW a \in Apps, NEW c \in Contents,
             CreateApp(h, u, a, c)
      PROVE  TypeOK'
  <2>1. apps' \in [Apps -> App]
    BY <1>6 DEF CreateApp, TypeOK, App, AppStatus, Listed, NoApp
  <2>2. requests' \in [Requests -> Request]
    BY <1>6 DEF CreateApp, TypeOK, Request, AppStatus, Listed
  <2> QED
    BY <1>6, <2>1, <2>2 DEF CreateApp, TypeOK
<1>7. ASSUME NEW h \in Requests, NEW u \in Users, NEW a \in Apps,
             StartUpdate(h, u, a) \/ StartSubmit(h, u, a)
      PROVE  TypeOK'
  <2>1. requests' \in [Requests -> Request]
    BY <1>7, BeginType DEF StartUpdate, StartSubmit
  <2> QED
    BY <1>7, <2>1 DEF StartUpdate, StartSubmit, TypeOK
<1>8. ASSUME NEW u \in Users, NEW a \in Apps, ArchiveApp(u, a) PROVE TypeOK'
  BY <1>8, WithStatusType DEF ArchiveApp, TypeOK, Listed
<1> QED
  BY <1>1, <1>2, <1>3, <1>4, <1>5, <1>6, <1>7, <1>8 DEF OwnerNext, Handler, SubmitApp

(* A reviewer's decision keeps every variable in its type.                 *)
LEMMA DecisionType ==
    ASSUME ReviewInv, ReviewNext
    PROVE  TypeOK'
<1> USE DEF ReviewInv
<1>1. PICK u \in Users, r \in ReviewIds : DecideReview(u, r)
  BY DEF ReviewNext
<1>2. reviews[r].app \in Apps /\ reviews[r].submitter \in Users
      /\ reviews[r].level \in 1 .. MaxLevels /\ reviews[r].round \in ReviewIds
  BY <1>1 DEF DecideReview, Reject, ApproveToNextLevel, ApproveLast, MayDecide, Formed, Opened
<1>3. \A s \in {"approved", "rejected"} : Decided(r, u, s) \in [ReviewIds -> Review]
  BY DecidedType DEF ReviewStatus
<1>4. CASE Reject(u, r)
  BY <1>2, <1>3, <1>4, WithStatusType DEF Reject, TypeOK, Listed
<1>5. CASE ApproveLast(u, r)
  BY <1>2, <1>3, <1>5, WithStatusType DEF ApproveLast, TypeOK, Listed
<1>6. CASE ApproveToNextLevel(u, r)
  <2> DEFINE next == NewReview(reviews[r].app, reviews[r].submitter,
                               reviews[r].level + 1, reviews[r].round)
  <2>1. reviews[r].level + 1 \in 0 .. MaxLevels
    BY <1>2, <1>6, ConfigLevels, WorkflowAssumption DEF ApproveToNextLevel
  <2>2. next \in Review
    BY <1>2, <2>1, NewReviewType
  <2>3. reviews' \in [ReviewIds -> Review]
    BY <1>3, <1>6, <2>2 DEF ApproveToNextLevel
  <2> QED
    BY <1>6, <2>3 DEF ApproveToNextLevel, TypeOK
<1> QED
  BY <1>1, <1>4, <1>5, <1>6 DEF DecideReview

(* The administrators' actions keep every variable in its type.            *)
LEMMA AdminType ==
    ASSUME ReviewInv, AdminNext \/ AbortNext \/ SecurityNext \/ SettingsNext
    PROVE  TypeOK'
<1> USE DEF ReviewInv
<1>1. ASSUME NEW a \in Apps, DeleteApp(a) PROVE TypeOK'
  <2>1. apps' \in [Apps -> App]
    BY <1>1 DEF DeleteApp, TypeOK, App, AppStatus, NoApp
  <2>2. [NoReview EXCEPT !.status = "deleted"] \in Review
    BY WorkflowAssumption DEF NoReview, Review, ReviewStatus
  <2>3. reviews' \in [ReviewIds -> Review]
    BY <1>1, <2>2 DEF DeleteApp, TypeOK
  <2> QED
    BY <1>1, <2>1, <2>3 DEF DeleteApp, TypeOK
<1>2. ASSUME NEW a \in Apps, NEW s \in Listed, SetAppStatus(a, s) PROVE TypeOK'
  BY <1>2, WithStatusType DEF SetAppStatus, TypeOK
<1>3. ASSUME NEW a \in Apps, NEW c \in Contents, NEW s \in Listed, AdminUpdateApp(a, c, s)
      PROVE  TypeOK'
  <2> DEFINE row == [apps[a] EXCEPT !.content = c, !.status = s,
                                    !.shown = IF s = "published" THEN c ELSE @]
  <2>1. apps' \in [Apps -> App]
    <3>1. apps[a] \in App
      BY DEF TypeOK
    <3>2. row \in App
      BY <3>1 DEF App, AppStatus
    <3>3. apps' = [apps EXCEPT ![a] = row]
      BY <1>3, <3>1 DEF AdminUpdateApp, TypeOK, App
    <3> QED
      BY <3>2, <3>3 DEF TypeOK
  <2> QED
    BY <1>3, <2>1 DEF AdminUpdateApp, TypeOK
<1>4. ASSUME NEW a \in Apps, NEW u \in Managers, NEW c \in Contents, NEW s \in Listed,
             AdminCreateApp(u, a, c, s)
      PROVE  TypeOK'
  <2>1. apps' \in [Apps -> App]
    BY <1>4, WorkflowAssumption DEF AdminCreateApp, TypeOK, App, AppStatus, NoApp
  <2> QED
    BY <1>4, <2>1 DEF AdminCreateApp, TypeOK
<1>5. ASSUME NEW h \in Requests, Abort(h) PROVE TypeOK'
  BY <1>5, FinishType DEF Abort, TypeOK
<1>6. ASSUME NEW a \in Apps, NEW b \in BOOLEAN, RecordSecurityCheck(a, b) PROVE TypeOK'
  <2>1. apps' \in [Apps -> App]
    BY <1>6 DEF RecordSecurityCheck, TypeOK, App
  <2> QED
    BY <1>6, <2>1 DEF RecordSecurityCheck, TypeOK
<1>7. CASE SettingsNext
  BY <1>7 DEF SettingsNext, UpdateWorkflowConfig, SetSecurityCheck, TypeOK
<1> QED
  BY <1>1, <1>2, <1>3, <1>4, <1>5, <1>6, <1>7 DEF AdminNext, AbortNext, SecurityNext

(* Every step keeps every variable in its type.                            *)
LEMMA TypeStep ==
    ASSUME ReviewInv, [Next]_vars
    PROVE  TypeOK'
<1>1. CASE UNCHANGED vars
  BY <1>1 DEF ReviewInv, TypeOK, vars
<1> QED
  BY <1>1, OwnerType, DecisionType, AdminType DEF Next

-----------------------------------------------------------------------------
(* What a step may do to one review: leave it blank or blank it, keep it   *)
(* or settle it, or open it.                                               *)

Kept(r) ==
    /\ Opened(r) /\ Opened(r)'
    /\ reviews'[r].app = reviews[r].app
    /\ reviews'[r].submitter = reviews[r].submitter
    /\ reviews'[r].level = reviews[r].level
    /\ reviews'[r].round = reviews[r].round
    /\ reviews[r].status # "pending" => reviews'[r] = reviews[r]

Opens(r) ==
    /\ reviews[r].status = "none"
    /\ reviews'[r].status = "pending"
    /\ reviews'[r].app \in Apps
    /\ Exists(reviews'[r].app)
    /\ reviews'[r].submitter \in Users
    /\ reviews'[r].level \in 1 .. MaxLevels
    /\ reviews'[r].round \in ReviewIds

Blank(r) ==
    /\ ~Opened(r)'
    /\ reviews'[r].app = None
    /\ reviews'[r].status = reviews[r].status \/ reviews'[r].status = "deleted"
    /\ Opened(r) => Removes(reviews[r].app)

(* A step keeps a row of the reviews table, opens it, or blanks it.        *)
LEMMA RowStep ==
    ASSUME ReviewInv, ReviewStep, NEW r \in ReviewIds
    PROVE  Kept(r) \/ Opens(r) \/ Blank(r)
<1> USE DEF Kept, Opens, Blank
<1>1. reviews[r] \in Review /\ reviews \in [ReviewIds -> Review]
  BY DEF ReviewInv, TypeOK
<1>2. ~Opened(r) => reviews[r].app = None
  BY DEF ReviewInv, Formed
<1>3. CASE reviews'[r] = reviews[r]
  BY <1>2, <1>3 DEF Opened
<1>4. ASSUME NEW a \in Apps, NEW u \in Users, NEW q \in ReviewIds, Submits(a, u, q)
      PROVE  Kept(r) \/ Opens(r) \/ Blank(r)
  <2>1. CASE r = q
    <3>1. reviews'[r] = NewReview(a, u, 1, r)
      BY <1>1, <1>4, <2>1 DEF Submits, CancelPending
    <3> QED
      BY <1>4, <2>1, <3>1, WorkflowAssumption DEF Submits, NewReview
  <2>2. CASE r # q
    <3>1. reviews'[r] = CancelPending(a)[r]
      BY <1>1, <1>4, <2>2 DEF Submits, CancelPending
    <3> QED
      BY <1>1, <1>3, <3>1 DEF CancelPending, Pending, Opened, Review
  <2> QED
    BY <2>1, <2>2
<1>5. ASSUME NEW a \in Apps, reviews' = CancelPending(a)
      PROVE  Kept(r) \/ Opens(r) \/ Blank(r)
  BY <1>1, <1>3, <1>5 DEF CancelPending, Pending, Opened, Review
<1>6. ASSUME NEW q \in ReviewIds, NEW u \in Users, NEW s \in {"approved", "rejected"},
             Decides(q, u, s)
      PROVE  Kept(r) \/ Opens(r) \/ Blank(r)
  BY <1>1, <1>3, <1>6 DEF Decides, Decided, Opened, Review
<1>7. ASSUME NEW q \in ReviewIds, NEW n \in ReviewIds, NEW u \in Users, Escalates(q, u, n)
      PROVE  Kept(r) \/ Opens(r) \/ Blank(r)
  <2>1. q # n
    BY <1>7 DEF Escalates
  <2>2. CASE r = n
    <3>1. reviews'[r] = NewReview(reviews[q].app, reviews[q].submitter,
                                  reviews[q].level + 1, reviews[q].round)
      BY <1>1, <1>7, <2>2 DEF Escalates, Decided
    <3>2. /\ reviews[q].app \in Apps /\ Exists(reviews[q].app)
          /\ reviews[q].submitter \in Users
          /\ reviews[q].level \in 1 .. MaxLevels
          /\ reviews[q].round \in ReviewIds
      BY <1>7 DEF Escalates, ReviewInv, Formed, Opened
    <3>3. reviews[q].level + 1 \in 1 .. MaxLevels
      BY <1>7, <3>2, WorkflowAssumption DEF Escalates
    <3> QED
      BY <1>7, <2>2, <3>1, <3>2, <3>3 DEF Escalates, NewReview
  <2>3. CASE r = q
    <3>1. reviews'[r] = [reviews[r] EXCEPT !.status = "approved", !.reviewer = u]
      BY <1>1, <1>7, <2>1, <2>3 DEF Escalates, Decided
    <3>2. /\ reviews'[r].status = "approved"
          /\ reviews'[r].app = reviews[r].app
          /\ reviews'[r].submitter = reviews[r].submitter
          /\ reviews'[r].level = reviews[r].level
          /\ reviews'[r].round = reviews[r].round
      BY <1>1, <3>1 DEF Review
    <3>3. reviews[r].status = "pending"
      BY <1>7, <2>3 DEF Escalates
    <3> QED
      BY <3>2, <3>3 DEF Opened
  <2>4. CASE r # q /\ r # n
    BY <1>1, <1>3, <1>7, <2>4 DEF Escalates, Decided
  <2> QED
    BY <2>2, <2>3, <2>4
<1>8. ASSUME NEW a \in Apps, Removes(a)
      PROVE  Kept(r) \/ Opens(r) \/ Blank(r)
  BY <1>1, <1>3, <1>8 DEF Removes, NoReview, Opened
<1> QED
  BY <1>3, <1>4, <1>5, <1>6, <1>7, <1>8 DEF ReviewStep

(* An app only ceases to exist together with its reviews.                  *)
LEMMA AppStays ==
    ASSUME ReviewInv, [Next]_vars, NEW a \in Apps, Exists(a)
    PROVE  Exists(a)' \/ Removes(a)
<1> USE DEF Exists, ReviewInv
<1>1. \A b \in Apps, s \in Listed :
         apps' = WithStatus(b, s) => apps'[a].status \in Listed
  BY WithStatusType
<1>2. CASE \E b \in Apps : DeleteApp(b)
  <2>1. PICK b \in Apps : DeleteApp(b)
    BY <1>2
  <2>2. a # b => apps'[a] = apps[a]
    BY <2>1 DEF DeleteApp, TypeOK
  <2> QED
    BY <2>1, <2>2 DEF DeleteApp, Removes
<1>3. CASE OwnerNext
  <2>1. ASSUME NEW h \in Requests, NEW c \in Contents, UpdateApp(h, c)
        PROVE  apps'[a].status = apps[a].status
    BY <2>1 DEF UpdateApp, Edited, TypeOK, App
  <2>2. ASSUME NEW h \in Requests, Queue(h) \/ PublishAtOnce(h)
        PROVE  apps'[a].status \in Listed
    BY <1>1, <2>2 DEF Queue, PublishAtOnce, Formed, Listed
  <2>3. ASSUME NEW h \in Requests, NEW u \in Users, NEW b \in Apps, NEW c \in Contents,
               CreateApp(h, u, b, c)
        PROVE  apps'[a].status = apps[a].status
    BY <2>3 DEF CreateApp, TypeOK, Listed
  <2>4. ASSUME NEW u \in Users, NEW b \in Apps, ArchiveApp(u, b)
        PROVE  apps'[a].status \in Listed
    BY <1>1, <2>4 DEF ArchiveApp, Listed
  <2> QED
    BY <1>3, <2>1, <2>2, <2>3, <2>4
       DEF OwnerNext, Handler, SubmitApp, ReadConfig, Hold, StartUpdate, StartSubmit
<1>4. CASE ReviewNext
  <2>1. PICK u \in Users, r \in ReviewIds : DecideReview(u, r)
    BY <1>4 DEF ReviewNext
  <2>2. reviews[r].app \in Apps
    BY <2>1 DEF DecideReview, Reject, ApproveToNextLevel, ApproveLast, MayDecide, Formed, Opened
  <2> QED
    BY <1>1, <2>1, <2>2 DEF DecideReview, Reject, ApproveToNextLevel, ApproveLast, Listed
<1>5. CASE AdminNext
  <2>1. ASSUME NEW b \in Apps, NEW s \in Listed, SetAppStatus(b, s)
        PROVE  apps'[a].status \in Listed
    BY <1>1, <2>1 DEF SetAppStatus
  <2>2. ASSUME NEW b \in Apps, NEW c \in Contents, NEW s \in Listed, AdminUpdateApp(b, c, s)
        PROVE  apps'[a].status \in Listed
    BY <2>2 DEF AdminUpdateApp, TypeOK, App
  <2>3. ASSUME NEW b \in Apps, NEW u \in Managers, NEW c \in Contents, NEW s \in Listed,
               AdminCreateApp(u, b, c, s)
        PROVE  apps'[a].status = apps[a].status
    BY <2>3 DEF AdminCreateApp, TypeOK, Listed
  <2> QED
    BY <1>2, <1>5, <2>1, <2>2, <2>3 DEF AdminNext
<1>6. CASE AbortNext \/ SettingsNext \/ UNCHANGED vars
  BY <1>6 DEF AbortNext, Abort, SettingsNext, UpdateWorkflowConfig, SetSecurityCheck, vars
<1>7. CASE SecurityNext
  BY <1>7 DEF SecurityNext, RecordSecurityCheck, TypeOK, App
<1> QED
  BY <1>3, <1>4, <1>5, <1>6, <1>7 DEF Next

(* A step opens one review at most: the first of a submission, with every  *)
(* other pending review of the app superseded, or the one that follows the *)
(* pending review p, approved in the same step.                            *)

First(r) ==
    /\ reviews'[r].level = 1
    /\ reviews'[r].round = r
    /\ \A q \in ReviewIds \ {r} : ~(reviews'[q].status = "pending"
                                     /\ reviews'[q].app = reviews'[r].app)

Follows(r, p) ==
    /\ p # r
    /\ reviews[p].status = "pending"
    /\ reviews'[p].status = "approved"
    /\ reviews'[r].app = reviews[p].app
    /\ reviews'[r].submitter = reviews[p].submitter
    /\ reviews'[r].level = reviews[p].level + 1
    /\ reviews'[r].round = reviews[p].round

(* A step opens one row at most: a first level, or the next after an approval. *)
LEMMA Opening ==
    ASSUME ReviewInv, ReviewStep, NEW r \in ReviewIds, Opens(r)
    PROVE  /\ \A q \in ReviewIds \ {r} : ~Opens(q)
           /\ First(r) \/ \E p \in ReviewIds : Follows(r, p)
<1> USE DEF Opens
<1>1. reviews \in [ReviewIds -> Review]
  BY DEF ReviewInv, TypeOK
<1>2. ASSUME NEW a \in Apps, NEW u \in Users, NEW n \in ReviewIds, Submits(a, u, n)
      PROVE  (\A q \in ReviewIds \ {n} : ~Opens(q)) /\ First(n)
  <2>1. reviews'[n] = NewReview(a, u, 1, n)
    BY <1>1, <1>2 DEF Submits, CancelPending
  <2>2. ASSUME NEW q \in ReviewIds \ {n}
        PROVE  ~Opens(q) /\ ~(reviews'[q].status = "pending" /\ reviews'[q].app = a)
    <3>1. reviews'[q] = CancelPending(a)[q]
      BY <1>1, <1>2 DEF Submits, CancelPending
    <3> QED
      BY <1>1, <3>1 DEF CancelPending, Pending, Review
  <2> QED
    BY <2>1, <2>2 DEF First, NewReview
<1>3. ASSUME NEW p \in ReviewIds, NEW n \in ReviewIds, NEW u \in Users, Escalates(p, u, n)
      PROVE  (\A q \in ReviewIds \ {n} : ~Opens(q)) /\ Follows(n, p)
  <2>1. p # n /\ reviews[p].status = "pending"
    BY <1>3 DEF Escalates
  <2>2. reviews'[n] = NewReview(reviews[p].app, reviews[p].submitter,
                                reviews[p].level + 1, reviews[p].round)
    BY <1>1, <1>3 DEF Escalates, Decided
  <2>3. reviews'[p] = [reviews[p] EXCEPT !.status = "approved", !.reviewer = u]
    BY <1>1, <1>3, <2>1 DEF Escalates, Decided
  <2>4. reviews'[p].status = "approved"
    BY <1>1, <2>3 DEF Review
  <2>5. ASSUME NEW q \in ReviewIds \ {n} PROVE ~Opens(q)
    <3>1. q # p => reviews'[q] = reviews[q]
      BY <1>1, <1>3 DEF Escalates, Decided
    <3> QED
      BY <2>1, <3>1
  <2> QED
    BY <2>1, <2>2, <2>4, <2>5 DEF Follows, NewReview
<1>4. ~UNCHANGED reviews
  BY <1>1
<1>5. ASSUME NEW a \in Apps PROVE reviews' # CancelPending(a)
  BY <1>1 DEF CancelPending, Pending, Review
<1>6. ASSUME NEW q \in ReviewIds, NEW u \in Users, NEW s \in {"approved", "rejected"}
      PROVE  ~Decides(q, u, s)
  BY <1>1 DEF Decides, Decided, Review
<1>7. ASSUME NEW a \in Apps PROVE ~Removes(a)
  BY <1>1 DEF Removes, NoReview
<1> QED
  BY <1>2, <1>3, <1>4, <1>5, <1>6, <1>7 DEF ReviewStep

(* The reviews of a removed app go together.                               *)
LEMMA RemovedTogether ==
    ASSUME ReviewInv, NEW r \in ReviewIds, Removes(reviews[r].app)
    PROVE  ~Opened(r)'
BY DEF Removes, NoReview, Opened, ReviewInv, TypeOK

(* Every step keeps the rows well formed.                                  *)
LEMMA FormedStep ==
    ASSUME ReviewInv, [Next]_vars
    PROVE  Formed'
<1>1. ASSUME NEW r \in ReviewIds
      PROVE  IF Opened(r)'
             THEN /\ reviews'[r].app \in Apps
                  /\ reviews'[r].submitter \in Users
                  /\ reviews'[r].level \in 1 .. MaxLevels
                  /\ reviews'[r].round \in ReviewIds
                  /\ apps'[reviews'[r].app].status \in Listed
             ELSE reviews'[r].app = None
  <2>1. Kept(r) \/ Opens(r) \/ Blank(r)
    BY StepOfReviews, RowStep
  <2>2. CASE Kept(r)
    <3>1. ~Removes(reviews[r].app)
      BY <2>2, RemovedTogether DEF Kept
    <3>2. reviews[r].app \in Apps /\ Exists(reviews[r].app)
      BY <2>2 DEF Kept, ReviewInv, Formed
    <3>3. apps'[reviews'[r].app].status \in Listed
      BY <2>2, <3>1, <3>2, AppStays DEF Kept, Exists
    <3> QED
      BY <2>2, <3>3 DEF Kept, ReviewInv, Formed
  <2>3. CASE Opens(r)
    <3>1. ~Removes(reviews'[r].app)
      BY <2>3 DEF Opens, Removes, NoReview
    <3>2. apps'[reviews'[r].app].status \in Listed
      BY <2>3, <3>1, AppStays DEF Opens, Exists
    <3> QED
      BY <2>3, <3>2 DEF Opens, Opened
  <2>4. CASE Blank(r)
    BY <2>4 DEF Blank
  <2> QED
    BY <2>1, <2>2, <2>3, <2>4
<1>2. ASSUME NEW h \in Requests, requests'[h].pc # "idle"
      PROVE  requests'[h].app \in Apps /\ requests'[h].user \in Users
  <2> USE DEF ReviewInv, TypeOK
  <2>1. requests'[h].pc # "idle" /\ requests'[h] = requests[h]
           => requests'[h].app \in Apps /\ requests'[h].user \in Users
    BY DEF Formed
  <2>2. ASSUME NEW g \in Requests, Finish(g)
        PROVE  requests'[h].app \in Apps /\ requests'[h].user \in Users
    BY <1>2, <2>1, <2>2 DEF Finish, Idle
  <2>3. ASSUME NEW g \in Requests, NEW op, NEW pc, NEW a \in Apps, NEW u \in Users,
               Begin(g, op, pc, a, u)
        PROVE  requests'[h].app \in Apps /\ requests'[h].user \in Users
    BY <1>2, <2>1, <2>3 DEF Begin
  <2>4. CASE OwnerNext
    <3>1. ASSUME NEW g \in Requests, NEW c \in Contents, UpdateApp(g, c)
          PROVE  requests'[h].app \in Apps /\ requests'[h].user \in Users
      BY <1>2, <2>1, <3>1 DEF UpdateApp, Formed, Request
    <3>2. ASSUME NEW g \in Requests, ReadConfig(g)
          PROVE  requests'[h].app \in Apps /\ requests'[h].user \in Users
      BY <1>2, <2>1, <3>2 DEF ReadConfig, Formed, Request, Idle
    <3>3. ASSUME NEW g \in Requests, NEW u \in Users, NEW a \in Apps, NEW c \in Contents,
                 CreateApp(g, u, a, c)
          PROVE  requests'[h].app \in Apps /\ requests'[h].user \in Users
      BY <1>2, <2>1, <3>3 DEF CreateApp
    <3> QED
      BY <2>1, <2>2, <2>3, <2>4, <3>1, <3>2, <3>3, <1>2
         DEF OwnerNext, Handler, SubmitApp, Queue, PublishAtOnce, Hold, StartUpdate,
             StartSubmit, ArchiveApp
  <2>5. CASE AbortNext
    BY <2>2, <2>5 DEF AbortNext, Abort
  <2>6. CASE ReviewNext
    BY <1>2, <2>1, <2>6 DEF ReviewNext, DecideReview, Reject, ApproveToNextLevel, ApproveLast
  <2>7. CASE SecurityNext \/ SettingsNext
    BY <1>2, <2>1, <2>7 DEF SecurityNext, RecordSecurityCheck, SettingsNext,
       UpdateWorkflowConfig, SetSecurityCheck
  <2>8. CASE AdminNext
    BY <1>2, <2>1, <2>8 DEF AdminNext, SetAppStatus, AdminUpdateApp, AdminCreateApp, DeleteApp
  <2>9. CASE UNCHANGED vars
    BY <1>2, <2>1, <2>9 DEF vars
  <2> QED
    BY <2>4, <2>5, <2>6, <2>7, <2>8, <2>9 DEF Next
<1> QED
  BY <1>1, <1>2 DEF Formed, Exists

(* Every step keeps an app at one pending review at most.                  *)
LEMMA OnePendingStep ==
    ASSUME ReviewInv, ReviewStep
    PROVE  OnePendingReview'
<1> SUFFICES ASSUME NEW a \in Apps, NEW r \in ReviewIds, NEW q \in ReviewIds,
                    Pending(r, a)', Pending(q, a)', r # q
             PROVE  FALSE
  BY DEF OnePendingReview
<1>1. (Kept(r) \/ Opens(r)) /\ (Kept(q) \/ Opens(q))
  BY RowStep DEF Blank, Pending, Opened
<1>2. ASSUME NEW x \in ReviewIds, Kept(x), Pending(x, a)'
      PROVE  Pending(x, a)
  BY <1>2 DEF Kept, Pending
<1>3. ~(Kept(r) /\ Kept(q))
  BY <1>2 DEF ReviewInv, OnePendingReview
<1>4. ASSUME NEW x \in ReviewIds, NEW y \in ReviewIds, x # y, Opens(x), Kept(y),
             Pending(x, a)', Pending(y, a)'
      PROVE  FALSE
  <2>1. CASE First(x)
    BY <1>4, <2>1 DEF First, Pending
  <2>2. ASSUME NEW p \in ReviewIds, Follows(x, p) PROVE FALSE
    <3>1. Pending(p, a) /\ Pending(y, a)
      BY <1>2, <1>4, <2>2 DEF Follows, Pending
    <3>2. p = y
      BY <3>1 DEF ReviewInv, OnePendingReview
    <3> QED
      BY <1>4, <2>2, <3>2 DEF Follows, Pending
  <2> QED
    BY <1>4, <2>1, <2>2, Opening
<1> QED
  BY <1>1, <1>3, <1>4, Opening

(* Every step keeps the reviews of one submission together.                *)
LEMMA RoundsStep ==
    ASSUME ReviewInv, ReviewStep, TypeOK'
    PROVE  Rounds'
<1> SUFFICES ASSUME NEW r \in ReviewIds, Opened(r)'
             PROVE  /\ reviews'[reviews'[r].round].status # "none"
                    /\ \A q \in ReviewIds : Opened(q)' /\ reviews'[q].round = reviews'[r].round =>
                          /\ reviews'[q].app = reviews'[r].app
                          /\ reviews'[q].submitter = reviews'[r].submitter
                          /\ reviews'[r].status = "pending" =>
                                reviews'[q].level <= reviews'[r].level
  BY DEF Rounds
<1>1. ASSUME NEW x \in ReviewIds, Opened(x)'
      PROVE  Kept(x) \/ (Opens(x) /\ (First(x) \/ \E p \in ReviewIds : Follows(x, p)))
  BY <1>1, RowStep, Opening DEF Blank
<1>2. ASSUME NEW x \in ReviewIds, reviews[x].status # "none" PROVE reviews'[x].status # "none"
  BY <1>2, RowStep DEF Kept, Opens, Blank, Opened
<1>3. ASSUME NEW x \in ReviewIds, Opened(x)
      PROVE  reviews[x].round \in ReviewIds /\ reviews[reviews[x].round].status # "none"
  BY <1>3 DEF ReviewInv, Formed, Rounds
<1>4. ASSUME NEW p \in ReviewIds, reviews[p].status = "pending" PROVE Opened(p)
  BY <1>4 DEF Opened
<1>5. reviews'[reviews'[r].round].status # "none"
  <2>1. CASE Kept(r)
    BY <1>2, <1>3, <2>1 DEF Kept
  <2>2. CASE Opens(r) /\ First(r)
    BY <2>2 DEF Opens, First
  <2>3. ASSUME NEW p \in ReviewIds, Follows(r, p)
        PROVE  reviews'[reviews'[r].round].status # "none"
    BY <1>2, <1>3, <1>4, <2>3 DEF Follows
  <2> QED
    BY <1>1, <2>1, <2>2, <2>3
<1>6. ASSUME NEW q \in ReviewIds, Opened(q)', reviews'[q].round = reviews'[r].round, q # r
      PROVE  /\ reviews'[q].app = reviews'[r].app
             /\ reviews'[q].submitter = reviews'[r].submitter
             /\ reviews'[r].status = "pending" => reviews'[q].level <= reviews'[r].level
  <2>1. CASE Kept(r) /\ Kept(q)
    BY <1>6, <2>1 DEF Kept, ReviewInv, Rounds
  <2>2. ASSUME NEW x \in ReviewIds, NEW y \in ReviewIds, Opens(x), Kept(y),
               reviews'[x].round = reviews'[y].round
        PROVE  ~First(x)
    BY <1>3, <2>2 DEF First, Opens, Kept
  <2>3. ASSUME Opens(r), Kept(q), NEW p \in ReviewIds, Follows(r, p)
        PROVE  /\ reviews'[q].app = reviews'[r].app
               /\ reviews'[q].submitter = reviews'[r].submitter
               /\ reviews'[q].level <= reviews'[r].level
    <3>1. /\ reviews[q].app = reviews[p].app
          /\ reviews[q].submitter = reviews[p].submitter
          /\ reviews[q].level <= reviews[p].level
      BY <1>4, <1>6, <2>3 DEF Follows, Kept, ReviewInv, Rounds
    <3>2. reviews[q].level \in Nat /\ reviews[p].level \in Nat
      BY DEF ReviewInv, TypeOK, Review
    <3>3. /\ reviews'[q].app = reviews[q].app
          /\ reviews'[q].submitter = reviews[q].submitter
          /\ reviews'[q].level = reviews[q].level
      BY <2>3 DEF Kept
    <3>4. /\ reviews'[r].app = reviews[p].app
          /\ reviews'[r].submitter = reviews[p].submitter
          /\ reviews'[r].level = reviews[p].level + 1
      BY <2>3 DEF Follows
    <3> QED
      BY <3>1, <3>2, <3>3, <3>4
  <2>4. ASSUME Opens(q), Kept(r), NEW p \in ReviewIds, Follows(q, p)
        PROVE  /\ reviews'[q].app = reviews'[r].app
               /\ reviews'[q].submitter = reviews'[r].submitter
               /\ reviews'[r].status # "pending"
    <3>1. /\ reviews[r].app = reviews[p].app
          /\ reviews[r].submitter = reviews[p].submitter
      BY <1>4, <1>6, <2>4 DEF Follows, Kept, ReviewInv, Rounds
    <3>2. ASSUME reviews[r].status = "pending" PROVE r = p
      BY <1>4, <2>4, <3>1, <3>2 DEF Follows, ReviewInv, OnePendingReview, Pending, Formed
    <3> QED
      BY <2>4, <3>1, <3>2 DEF Follows, Kept
  <2> QED
    BY <1>1, <1>6, <2>1, <2>2, <2>3, <2>4, Opening
<1>7. reviews'[r].level <= reviews'[r].level
  BY DEF TypeOK, Review
<1> QED
  BY <1>5, <1>6, <1>7

(* Every step keeps every review on its chain of approvals.                *)
LEMMA ChainStep ==
    ASSUME ReviewInv, ReviewStep
    PROVE  ChainOfApprovals'
<1> SUFFICES ASSUME NEW r \in ReviewIds, Opened(r)'
             PROVE  /\ \A k \in 1 .. reviews'[r].level - 1 : \E q \in ReviewIds :
                          /\ Approved(q)'
                          /\ reviews'[q].level = k
                          /\ reviews'[q].round = reviews'[r].round
                          /\ reviews'[q].app = reviews'[r].app
                          /\ reviews'[q].submitter = reviews'[r].submitter
                    /\ \A q \in ReviewIds :
                          Opened(q)' /\ reviews'[q].round = reviews'[r].round
                                    /\ reviews'[q].level = reviews'[r].level => q = r
  BY DEF ChainOfApprovals
<1>1. ASSUME NEW x \in ReviewIds, Opened(x)'
      PROVE  Kept(x) \/ (Opens(x) /\ (First(x) \/ \E p \in ReviewIds : Follows(x, p)))
  BY <1>1, RowStep, Opening DEF Blank
<1>2. ASSUME NEW p \in ReviewIds, reviews[p].status = "pending" PROVE Opened(p)
  BY <1>2 DEF Opened
<1>3. \A x \in ReviewIds : reviews[x].level \in Nat
  BY DEF ReviewInv, TypeOK, Review
(* What stood below an open review that is still there stands still.       *)
<1>4. ASSUME NEW x \in ReviewIds, Opened(x), Opened(x)', NEW k \in 1 .. reviews[x].level - 1
      PROVE  \E q \in ReviewIds :
                /\ Approved(q)'
                /\ reviews'[q].level = k
                /\ reviews'[q].round = reviews[x].round
                /\ reviews'[q].app = reviews[x].app
                /\ reviews'[q].submitter = reviews[x].submitter
  <2>1. PICK q \in ReviewIds :
           /\ Approved(q)
           /\ reviews[q].level = k
           /\ reviews[q].round = reviews[x].round
           /\ reviews[q].app = reviews[x].app
           /\ reviews[q].submitter = reviews[x].submitter
    BY <1>4 DEF ReviewInv, ChainOfApprovals
  <2>2. Opened(q)
    BY <2>1 DEF Approved, Opened
  <2>3. Kept(q)
    BY <1>4, <2>1, <2>2, RowStep, RemovedTogether DEF Blank, Opens, Approved
  <2>4. reviews'[q] = reviews[q]
    BY <2>1, <2>3 DEF Kept, Approved
  <2> QED
    BY <2>1, <2>4 DEF Approved
<1>5. ASSUME NEW k \in 1 .. reviews'[r].level - 1
      PROVE  \E q \in ReviewIds :
                /\ Approved(q)'
                /\ reviews'[q].level = k
                /\ reviews'[q].round = reviews'[r].round
                /\ reviews'[q].app = reviews'[r].app
                /\ reviews'[q].submitter = reviews'[r].submitter
  <2>1. CASE Kept(r)
    <3>1. k \in 1 .. reviews[r].level - 1
      BY <2>1 DEF Kept
    <3> QED
      BY <1>4, <2>1, <3>1 DEF Kept
  <2>2. CASE First(r)
    BY <1>5, <2>2 DEF First
  <2>3. ASSUME NEW p \in ReviewIds, Follows(r, p)
        PROVE  \E q \in ReviewIds :
                  /\ Approved(q)'
                  /\ reviews'[q].level = k
                  /\ reviews'[q].round = reviews[p].round
                  /\ reviews'[q].app = reviews[p].app
                  /\ reviews'[q].submitter = reviews[p].submitter
    <3>1. Opened(p) /\ Opened(p)' /\ Approved(p)'
      BY <1>2, <2>3 DEF Follows, Opened, Approved
    <3>2. Kept(p)
      BY <3>1, RowStep DEF Opens, Blank, Opened
    <3>3. CASE k = reviews[p].level
      BY <3>1, <3>2, <3>3 DEF Kept
    <3>4. CASE k # reviews[p].level
      <4>1. k \in 1 .. reviews[p].level - 1
        BY <1>3, <2>3, <3>4 DEF Follows
      <4> QED
        BY <1>4, <3>1, <4>1
    <3> QED
      BY <3>3, <3>4
  <2> QED
    BY <1>1, <2>1, <2>2, <2>3 DEF Follows
(* A review opened by this step is alone on its level.                     *)
<1>6. ASSUME NEW x \in ReviewIds, NEW y \in ReviewIds, Opens(x), Kept(y),
             reviews'[x].round = reviews'[y].round
      PROVE  reviews'[x].level # reviews'[y].level
  <2>1. ~First(x)
    BY <1>6 DEF First, Opens, Kept, ReviewInv, Rounds
  <2>2. PICK p \in ReviewIds : Follows(x, p)
    BY <1>6, <2>1, Opening
  <2>3. reviews[y].level <= reviews[p].level
    BY <1>2, <1>6, <2>2 DEF Follows, Kept, ReviewInv, Rounds
  <2> QED
    BY <1>3, <1>6, <2>2, <2>3 DEF Follows, Kept
<1>7. ASSUME NEW q \in ReviewIds, Opened(q)', reviews'[q].round = reviews'[r].round,
             reviews'[q].level = reviews'[r].level
      PROVE  q = r
  <2>1. CASE Kept(r) /\ Kept(q)
    BY <1>7, <2>1 DEF Kept, ReviewInv, ChainOfApprovals
  <2> QED
    BY <1>1, <1>6, <1>7, <2>1, Opening
<1> QED
  BY <1>5, <1>7

-----------------------------------------------------------------------------
(* The theorems of Spec.                                                   *)

(* The invariant of the review table is inductive.                         *)
LEMMA ReviewInvStep ==
    ASSUME ReviewInv, [Next]_vars
    PROVE  ReviewInv'
<1>1. ReviewStep
  BY StepOfReviews
<1>2. TypeOK' /\ Formed'
  BY TypeStep, FormedStep
<1>3. OnePendingReview' /\ Rounds' /\ ChainOfApprovals'
  BY <1>1, <1>2, OnePendingStep, RoundsStep, ChainStep
<1> QED
  BY <1>2, <1>3 DEF ReviewInv

(* The inductive invariant holds whatever the service does: the types are  *)
(* right, an app has one pending review at most, and every review stands   *)
(* on a chain of approvals of its own submission.                          *)
THEOREM ReviewsAreSound == Spec => []ReviewInv
<1>1. Init => ReviewInv
  BY EmptyCatalogInv DEF Init
<1>2. ReviewInv /\ [Next]_vars => ReviewInv'
  BY ReviewInvStep
<1> QED
  BY <1>1, <1>2, PTL DEF Spec

(* Every variable keeps its type: in particular no level of review is ever *)
(* opened beyond the configured maximum.                                   *)
THEOREM TypesAreRight == Spec => []TypeOK
<1>1. ReviewInv => TypeOK
  BY DEF ReviewInv
<1> QED
  BY <1>1, ReviewsAreSound, PTL

(* Superseding and the pending check of DecideReview leave an app at most  *)
(* one review that can be decided.                                         *)
THEOREM AtMostOnePending == Spec => []OnePendingReview
<1>1. ReviewInv => OnePendingReview
  BY DEF ReviewInv
<1> QED
  BY <1>1, ReviewsAreSound, PTL

(* No level of a review is skipped or reviewed twice.                      *)
THEOREM ChainIsComplete == Spec => []ChainOfApprovals
<1>1. ReviewInv => ChainOfApprovals
  BY DEF ReviewInv
<1> QED
  BY <1>1, ReviewsAreSound, PTL

(* A decided or superseded review is never touched again.                  *)
THEOREM DecidedForGood == Spec => DecisionsAreFinal
<1> DEFINE Final == \A r \in ReviewIds :
                       Opened(r) /\ reviews[r].status # "pending" =>
                          reviews'[r] = reviews[r] \/ reviews'[r].status = "deleted"
<1>1. ASSUME ReviewInv, [Next]_vars PROVE Final
  BY <1>1, StepOfReviews, RowStep DEF Kept, Opens, Blank, Opened
<1>2. ReviewInv /\ [Next]_vars => [Final]_vars
  BY <1>1
<1> QED
  BY <1>2, ReviewsAreSound, PTL DEF Spec, DecisionsAreFinal

(* Only a decision approves or rejects a pending review.                   *)
LEMMA OnlyDecisionsDecide ==
    ASSUME ReviewInv, [Next]_vars, NEW r \in ReviewIds, reviews[r].status = "pending",
           reviews'[r].status \in {"approved", "rejected"}
    PROVE  \E u \in Users : DecideReview(u, r)
<1>1. reviews \in [ReviewIds -> Review] /\ ~UNCHANGED reviews
  BY DEF ReviewInv, TypeOK
<1>2. ASSUME NEW a \in Apps PROVE reviews' # CancelPending(a)
  BY <1>1 DEF CancelPending, Pending, Review
<1>3. ASSUME NEW h \in Requests PROVE ~Queue(h)
  <2>1. ASSUME NEW a, NEW u, NEW n \in ReviewIds, reviews[n].status = "none",
               reviews' = [CancelPending(a) EXCEPT ![n] = NewReview(a, u, 1, n)]
        PROVE  FALSE
    <3>1. reviews'[r] = CancelPending(a)[r]
      BY <2>1 DEF CancelPending
    <3> QED
      BY <1>1, <3>1 DEF CancelPending, Pending, Review
  <2> QED
    BY <2>1 DEF Queue
<1>4. ASSUME NEW h \in Requests PROVE ~PublishAtOnce(h)
  BY <1>2 DEF PublishAtOnce, ReviewInv, Formed
<1>5. ASSUME NEW a \in Apps PROVE ~DeleteApp(a)
  BY DEF DeleteApp, NoReview
<1>6. ~OwnerNext
  BY <1>1, <1>3, <1>4 DEF OwnerNext, Handler, SubmitApp, Hold, UpdateApp, ReadConfig, CreateApp,
     StartUpdate, StartSubmit, ArchiveApp
<1>7. ~(AbortNext \/ SecurityNext \/ SettingsNext \/ AdminNext \/ UNCHANGED vars)
  BY <1>1, <1>5 DEF AbortNext, Abort, SecurityNext, RecordSecurityCheck, SettingsNext,
     UpdateWorkflowConfig, SetSecurityCheck, AdminNext, SetAppStatus, AdminUpdateApp,
     AdminCreateApp, vars
<1>8. PICK u \in Users, q \in ReviewIds : DecideReview(u, q)
  BY <1>6, <1>7 DEF Next, ReviewNext
<1>9. CASE q = r
  BY <1>8, <1>9
<1>10. CASE q # r
  <2>1. CASE Reject(u, q) \/ ApproveLast(u, q)
    BY <1>1, <1>10, <2>1 DEF Reject, ApproveLast, Decided
  <2>2. CASE ApproveToNextLevel(u, q)
    <3>1. PICK n \in ReviewIds :
             /\ reviews[n].status = "none"
             /\ \E x : reviews' = [Decided(q, u, "approved") EXCEPT ![n] = x]
      BY <2>2 DEF ApproveToNextLevel
    <3> QED
      BY <1>1, <1>10, <3>1 DEF Decided
  <2> QED
    BY <1>8, <2>1, <2>2 DEF DecideReview
<1> QED
  BY <1>9, <1>10

(* The policy in force is the configuration, or one publishing level.      *)
LEMMA PolicyFields ==
    ASSUME config \in Configs \cup {DefaultConfig}
    PROVE  /\ PolicyInForce.enabled
           /\ PolicyInForce.preventSelf = config.preventSelf
           /\ config.enabled => PolicyInForce = config
           /\ ~config.enabled => PolicyInForce.levels = 1 /\ PolicyInForce.autoPublish
<1>1. config \in [enabled: BOOLEAN, levels: Nat, autoPublish: BOOLEAN,
                 reapproval: BOOLEAN, preventSelf: BOOLEAN]
  <2>1. CASE config \in Configs
    BY <2>1, WorkflowAssumption
  <2>2. CASE config = DefaultConfig
    BY <2>2 DEF DefaultConfig
  <2> QED
    BY <2>1, <2>2
<1>2. CASE config.enabled
  BY <1>2 DEF PolicyInForce
<1>3. CASE ~config.enabled
  BY <1>1, <1>3 DEF PolicyInForce
<1> QED
  BY <1>2, <1>3

(* Every decision DecideReview takes, with the workflow on or off, is what  *)
(* package workflow decides under the policy in force: the same refusals,   *)
(* and the package's Transition for the app and the next level.             *)
THEOREM PolicyIsFollowed == Spec => DecisionsFollowPolicy
<1> DEFINE
      Fits(r) ==
        LET a == reviews[r].app
            t == Transition(PolicyInForce, reviews[r], reviews'[r].status)
            opened == {q \in ReviewIds : reviews[q].status = "none"
                                          /\ reviews'[q].status = "pending"}
        IN /\ MayDecideByPolicy(PolicyInForce, reviews[r], reviews'[r].reviewer)
           /\ IF t.appStatus = "pending_review" THEN apps' = apps
                                               ELSE apps'[a].status = t.appStatus
           /\ {reviews'[q].level : q \in opened} =
                 IF t.nextLevel = 0 THEN {} ELSE {t.nextLevel}
      Follow == \A r \in ReviewIds : DecidesOn(r) => Fits(r)
<1>1. ASSUME ReviewInv, [Next]_vars PROVE Follow
  <2> SUFFICES ASSUME NEW r \in ReviewIds, DecidesOn(r)
               PROVE  Fits(r)
    BY Zenon
  <2>1. PICK u \in Users : DecideReview(u, r)
    BY <1>1, OnlyDecisionsDecide DEF DecidesOn
  <2>2. /\ TypeOK
        /\ reviews \in [ReviewIds -> Review]
        /\ reviews[r].app \in Apps
        /\ reviews[r].level \in Nat \ {0}
        /\ config.levels \in Nat
    BY <1>1, ConfigLevels, WorkflowAssumption
    DEF ReviewInv, TypeOK, Formed, Opened, Review, DecidesOn
  <2>9. /\ PolicyInForce.enabled
        /\ PolicyInForce.preventSelf = config.preventSelf
        /\ config.enabled => PolicyInForce = config
        /\ ~config.enabled => PolicyInForce.levels = 1 /\ PolicyInForce.autoPublish
    BY <2>2, PolicyFields DEF TypeOK
  <2> DEFINE opened == {q \in ReviewIds : reviews[q].status = "none"
                                           /\ reviews'[q].status = "pending"}
  <2>3. MayDecide(u, r)
    BY <2>1 DEF DecideReview, Reject, ApproveToNextLevel, ApproveLast
  <2>4. ASSUME NEW s, reviews' = Decided(r, u, s), s # "pending"
        PROVE  /\ reviews'[r].status = s
               /\ reviews'[r].reviewer = u
               /\ opened = {}
    <3>1. reviews'[r].status = s /\ reviews'[r].reviewer = u
      BY <2>2, <2>4 DEF Decided, Review
    <3>2. \A q \in ReviewIds \ {r} : reviews'[q] = reviews[q]
      BY <2>2, <2>4 DEF Decided
    <3> QED
      BY <2>4, <3>1, <3>2
  <2>5. MayDecideByPolicy(PolicyInForce, reviews[r], u)
    BY <2>3, <2>9 DEF MayDecide, MayDecideByPolicy
  <2>6. CASE Reject(u, r)
    <3>1. Transition(PolicyInForce, reviews[r], "rejected") = [appStatus |-> "rejected", nextLevel |-> 0]
      BY DEF Transition
    <3>2. reviews'[r].status = "rejected" /\ reviews'[r].reviewer = u /\ opened = {}
      BY <2>4, <2>6 DEF Reject
    <3>3. apps'[reviews[r].app].status = "rejected"
      BY <2>2, <2>6, WithStatusType DEF Reject, Listed
    <3> QED
      BY <2>5, <3>1, <3>2, <3>3
  <2>7. CASE ApproveLast(u, r)
    <3>1. Transition(PolicyInForce, reviews[r], "approved") =
             [appStatus |-> IF PolicyInForce.autoPublish THEN "published"
                                                         ELSE "pending_review",
              nextLevel |-> 0]
      <4>1. PolicyInForce.levels \in Nat /\ reviews[r].level >= PolicyInForce.levels
        BY <2>2, <2>7, <2>9 DEF ApproveLast
      <4> QED
        BY <2>2, <4>1 DEF Transition
    <3>2. reviews'[r].status = "approved" /\ reviews'[r].reviewer = u /\ opened = {}
      BY <2>4, <2>7 DEF ApproveLast
    <3>3. IF PolicyInForce.autoPublish THEN apps'[reviews[r].app].status = "published"
                                       ELSE apps' = apps
      BY <2>2, <2>7, <2>9, WithStatusType DEF ApproveLast, Listed
    <3> QED
      BY <2>5, <3>1, <3>2, <3>3
  <2>8. CASE ApproveToNextLevel(u, r)
    <3>1. Transition(PolicyInForce, reviews[r], "approved") =
             [appStatus |-> "pending_review", nextLevel |-> reviews[r].level + 1]
      BY <2>2, <2>8, <2>9 DEF ApproveToNextLevel, Transition
    <3>2. PICK n \in ReviewIds :
             /\ reviews[n].status = "none"
             /\ reviews' = [Decided(r, u, "approved") EXCEPT
                              ![n] = NewReview(reviews[r].app, reviews[r].submitter,
                                               reviews[r].level + 1, reviews[r].round)]
      BY <2>8 DEF ApproveToNextLevel
    <3>3. n # r
      BY <3>2 DEF DecidesOn
    <3>4. reviews'[r] = [reviews[r] EXCEPT !.status = "approved", !.reviewer = u]
      BY <2>2, <3>2, <3>3 DEF Decided
    <3>5. reviews'[r].status = "approved" /\ reviews'[r].reviewer = u
      BY <2>2, <3>4 DEF Review
    <3>6. reviews'[n].status = "pending" /\ reviews'[n].level = reviews[r].level + 1
      BY <2>2, <3>2 DEF Decided, NewReview
    <3>7. \A q \in ReviewIds \ {r, n} : reviews'[q] = reviews[q]
      BY <2>2, <3>2 DEF Decided
    <3>8. opened = {n}
      BY <3>2, <3>5, <3>6, <3>7
    <3>9. apps' = apps
      BY <2>8 DEF ApproveToNextLevel
    <3>10. {reviews'[q].level : q \in opened} = {reviews[r].level + 1}
      BY <3>6, <3>8
    <3> QED
      BY <2>2, <2>5, <3>1, <3>5, <3>9, <3>10
  <2> QED
    BY <2>1, <2>6, <2>7, <2>8 DEF DecideReview
<1>2. ReviewInv /\ [Next]_vars => [Follow]_vars
  BY <1>1
<1> QED
  BY <1>2, ReviewsAreSound, PTL DEF Spec, DecisionsFollowPolicy

-----------------------------------------------------------------------------
(* A settled workflow.                                                     *)

Settled == config.enabled /\ config.autoPublish /\ config.preventSelf

(* Whoever approved a review did not submit it.                            *)
FourEyes ==
    \A r \in ReviewIds : Approved(r) => reviews[r].reviewer # reviews[r].submitter

(* A review still to be decided is of a level the configuration asks for.  *)
WithinLevels ==
    \A r \in ReviewIds : reviews[r].status = "pending" => reviews[r].level <= config.levels

SettledInv ==
    ReviewInv /\ Settled /\ WithinLevels /\ FourEyes /\ QueueAgrees /\ PublishedWasApproved

(* What a settled step does to the status of the apps and to the reviews:  *)
(* leave the reviews alone, submit, reject, approve at the last level,     *)
(* approve below it, or delete.                                            *)

Apart ==
    /\ UNCHANGED reviews
    /\ \/ Stage' = Stage
       \/ \E a \in Apps : Exists(a) /\ Stage' = [Stage EXCEPT ![a] = "archived"]
       \/ \E a \in Apps : Stage[a] = "none" /\ Stage' = [Stage EXCEPT ![a] = "draft"]

Submission ==
    \E a \in Apps, u \in Users, r \in ReviewIds :
        Submits(a, u, r) /\ apps' = WithStatus(a, "pending_review")

Rejection ==
    \E u \in Users, r \in ReviewIds :
        /\ Decides(r, u, "rejected")
        /\ u # reviews[r].submitter
        /\ apps' = WithStatus(reviews[r].app, "rejected")

LastApproval ==
    \E u \in Users, r \in ReviewIds :
        /\ Decides(r, u, "approved")
        /\ u # reviews[r].submitter
        /\ config.levels <= reviews[r].level
        /\ apps' = WithStatus(reviews[r].app, "published")

LowerApproval ==
    \E u \in Users, r, q \in ReviewIds :
        /\ Escalates(r, u, q)
        /\ u # reviews[r].submitter
        /\ reviews[r].level < config.levels
        /\ apps' = apps

Deletion ==
    \E a \in Apps : Exists(a) /\ Removes(a) /\ Stage' = [Stage EXCEPT ![a] = "deleted"]

SettledKind ==
    Apart \/ Submission \/ Rejection \/ LastApproval \/ LowerApproval \/ Deletion

(* A step that changes the row of one app changes the status of no other.  *)
LEMMA StageOfOne ==
    ASSUME NEW a \in Apps, NEW s, apps'[a].status = s,
           \A b \in Apps \ {a} : apps'[b].status = apps[b].status
    PROVE  Stage' = [Stage EXCEPT ![a] = s]
BY DEF Stage

(* A step apart archives an app, registers one, or moves none.             *)
LEMMA ApartStatus ==
    ASSUME Apart, NEW a \in Apps
    PROVE  \/ apps'[a].status = apps[a].status
           \/ apps'[a].status = "archived"
           \/ apps[a].status = "none" /\ apps'[a].status = "draft"
<1>1. Stage[a] = apps[a].status /\ Stage'[a] = apps'[a].status
  BY DEF Stage
<1> QED
  BY <1>1 DEF Apart, Stage

(* A settled step submits, decides, deletes, or leaves the reviews alone.  *)
LEMMA SettledStep ==
    ASSUME SettledInv, [SettledNext]_vars
    PROVE  UNCHANGED config /\ SettledKind
<1> USE DEF SettledInv, Settled
<1>1. apps \in [Apps -> App] /\ reviews \in [ReviewIds -> Review]
  BY DEF ReviewInv, TypeOK
<1>2. ASSUME NEW h \in Requests, NEW c \in Contents, UpdateApp(h, c)
      PROVE  UNCHANGED config /\ Apart
  BY <1>1, <1>2 DEF UpdateApp, Edited, Apart, Stage, App
<1>3. ASSUME NEW h \in Requests, ReadConfig(h) \/ Hold(h) \/ Abort(h)
      PROVE  UNCHANGED config /\ Apart
  BY <1>3 DEF ReadConfig, Hold, Abort, Apart, Stage
<1>4. ASSUME NEW h \in Requests, Queue(h)
      PROVE  UNCHANGED config /\ Submission
  BY <1>4 DEF Queue, Submission, Submits, ReviewInv, Formed
<1>5. ASSUME NEW h \in Requests PROVE ~PublishAtOnce(h)
  BY DEF PublishAtOnce
<1>6. ASSUME NEW h \in Requests, NEW u \in Users, NEW a \in Apps, NEW c \in Contents,
             CreateApp(h, u, a, c)
      PROVE  UNCHANGED config /\ Apart
  <2>1. /\ apps'[a].status = "draft" /\ apps[a].status = "none"
        /\ \A b \in Apps \ {a} : apps'[b] = apps[b]
    BY <1>1, <1>6 DEF CreateApp, NoApp
  <2>2. Stage[a] = "none" /\ Stage' = [Stage EXCEPT ![a] = "draft"]
    BY <2>1, StageOfOne DEF Stage
  <2> QED
    BY <1>6, <2>2 DEF CreateApp, Apart
<1>7. ASSUME NEW h \in Requests, NEW u \in Users, NEW a \in Apps,
             StartUpdate(h, u, a) \/ StartSubmit(h, u, a)
      PROVE  UNCHANGED config /\ Apart
  BY <1>7 DEF StartUpdate, StartSubmit, Apart, Stage
<1>8. ASSUME NEW u \in Users, NEW a \in Apps, ArchiveApp(u, a)
      PROVE  UNCHANGED config /\ Apart
  <2>1. /\ apps'[a].status = "archived"
        /\ \A b \in Apps \ {a} : apps'[b] = apps[b]
    BY <1>8, WithStatusType DEF ArchiveApp, ReviewInv, Listed
  <2>2. Stage' = [Stage EXCEPT ![a] = "archived"]
    BY <2>1, StageOfOne
  <2> QED
    BY <1>8, <2>2 DEF ArchiveApp, Apart
<1>9. ASSUME NEW u \in Users, NEW r \in ReviewIds, Reject(u, r)
      PROVE  UNCHANGED config /\ Rejection
  BY <1>9 DEF Reject, MayDecide, Rejection, Decides
<1>10. ASSUME NEW u \in Users, NEW r \in ReviewIds, ApproveLast(u, r)
       PROVE  UNCHANGED config /\ LastApproval
  <2>1. config.levels \in Nat /\ reviews[r].level \in Nat
    BY <1>1, ConfigLevels, WorkflowAssumption DEF ReviewInv, Review
  <2> QED
    BY <1>10, <2>1 DEF ApproveLast, MayDecide, LastApproval, Decides
<1>11. ASSUME NEW u \in Users, NEW r \in ReviewIds, ApproveToNextLevel(u, r)
       PROVE  UNCHANGED config /\ LowerApproval
  <2>1. /\ config.levels \in 1 .. MaxLevels
        /\ reviews[r].level \in Nat
    BY <1>1, ConfigLevels DEF ReviewInv, Review
  <2>2. reviews[r].level < MaxLevels
    BY <1>11, <2>1, WorkflowAssumption DEF ApproveToNextLevel
  <2> QED
    BY <1>11, <2>2 DEF ApproveToNextLevel, MayDecide, LowerApproval, Escalates
<1>12. ASSUME NEW a \in Apps, NEW b \in BOOLEAN, RecordSecurityCheck(a, b)
       PROVE  UNCHANGED config /\ Apart
  BY <1>1, <1>12 DEF RecordSecurityCheck, Apart, Stage, App
<1>13. CASE UNCHANGED vars
  BY <1>13 DEF vars, Apart, Stage, SettledKind
<1>14. CASE OwnerNext
  BY <1>2, <1>3, <1>4, <1>5, <1>6, <1>7, <1>8, <1>14
     DEF OwnerNext, Handler, SubmitApp, SettledKind
<1>15. CASE AbortNext \/ ReviewNext \/ SecurityNext
  BY <1>3, <1>9, <1>10, <1>11, <1>12, <1>15
     DEF AbortNext, ReviewNext, DecideReview, SecurityNext, SettledKind
<1>16. ASSUME NEW a \in Apps, DeleteApp(a) PROVE UNCHANGED config /\ Deletion
  <2>1. /\ apps'[a].status = "deleted"
        /\ \A b \in Apps \ {a} : apps'[b] = apps[b]
    BY <1>1, <1>16 DEF DeleteApp, NoApp
  <2>2. Stage' = [Stage EXCEPT ![a] = "deleted"]
    BY <2>1, StageOfOne
  <2> QED
    BY <1>16, <2>2 DEF DeleteApp, Removes, Deletion
<1>17. CASE HousekeepingNext
  BY <1>16, <1>17 DEF HousekeepingNext, SetSecurityCheck, Apart, Stage, SettledKind
<1> QED
  BY <1>13, <1>14, <1>15, <1>17 DEF SettledNext

(* What was approved stays as it is until its app is deleted.              *)
LEMMA ApprovalsStay ==
    ASSUME SettledInv, SettledKind, NEW r \in ReviewIds, Approved(r)
    PROVE  \/ reviews'[r] = reviews[r]
           \/ reviews'[r].status = "deleted" /\ apps'[reviews[r].app].status = "deleted"
<1>1. reviews \in [ReviewIds -> Review]
  BY DEF SettledInv, ReviewInv, TypeOK
<1>2. CASE Deletion
  <2>1. PICK a \in Apps : Removes(a) /\ Stage' = [Stage EXCEPT ![a] = "deleted"]
    BY <1>2 DEF Deletion
  <2>2. apps'[a].status = "deleted"
    BY <2>1 DEF Stage
  <2> QED
    BY <2>1, <2>2 DEF Removes, NoReview
<1>3. CASE Apart \/ Submission \/ Rejection \/ LastApproval \/ LowerApproval
  BY <1>1, <1>3 DEF Approved, Apart, Submission, Submits, CancelPending, Pending, Rejection,
     LastApproval, Decides, Decided, LowerApproval, Escalates
<1> QED
  BY <1>2, <1>3 DEF SettledKind

(* Every settled step keeps approvals in other hands than submissions.     *)
LEMMA FourEyesStep ==
    ASSUME SettledInv, SettledKind
    PROVE  FourEyes'
<1> SUFFICES ASSUME NEW r \in ReviewIds, Approved(r)'
             PROVE  reviews'[r].reviewer # reviews'[r].submitter
  BY DEF FourEyes
<1>1. reviews \in [ReviewIds -> Review]
  BY DEF SettledInv, ReviewInv, TypeOK
<1>2. CASE Approved(r)
  BY <1>2, ApprovalsStay DEF SettledInv, FourEyes, Approved
<1>3. ASSUME NEW u \in Users, NEW q \in ReviewIds, u # reviews[q].submitter,
             reviews'[q] = Decided(q, u, "approved")[q], r = q
      PROVE  reviews'[r].reviewer # reviews'[r].submitter
  BY <1>1, <1>3 DEF Decided, Review
<1>4. CASE Apart
  BY <1>2, <1>4 DEF Apart, Approved
<1>5. CASE Submission
  BY <1>1, <1>2, <1>5 DEF Submission, Submits, CancelPending, Pending, NewReview, Approved, Review
<1>6. CASE Rejection
  BY <1>1, <1>2, <1>6 DEF Rejection, Decides, Decided, Approved, Review
<1>7. CASE LastApproval
  <2>1. PICK u \in Users, q \in ReviewIds : Decides(q, u, "approved") /\ u # reviews[q].submitter
    BY <1>7 DEF LastApproval
  <2>2. CASE r = q
    BY <1>3, <2>1, <2>2 DEF Decides
  <2>3. CASE r # q
    BY <1>1, <1>2, <2>1, <2>3 DEF Decides, Decided, Approved
  <2> QED
    BY <2>2, <2>3
<1>8. CASE LowerApproval
  <2>1. PICK u \in Users, q \in ReviewIds, n \in ReviewIds :
           Escalates(q, u, n) /\ u # reviews[q].submitter
    BY <1>8 DEF LowerApproval
  <2>2. q # n
    BY <2>1 DEF Escalates
  <2>3. CASE r = q
    <3>1. reviews'[q] = Decided(q, u, "approved")[q]
      BY <1>1, <2>1, <2>2 DEF Escalates, Decided
    <3> QED
      BY <1>3, <2>1, <2>3, <3>1
  <2>4. CASE r = n
    BY <1>1, <2>1, <2>4 DEF Escalates, Decided, NewReview, Approved
  <2>5. CASE r # q /\ r # n
    BY <1>1, <1>2, <2>1, <2>5 DEF Escalates, Decided, Approved
  <2> QED
    BY <2>3, <2>4, <2>5
<1>9. CASE Deletion
  BY <1>2, <1>9 DEF Deletion, Removes, NoReview, Approved
<1> QED
  BY <1>4, <1>5, <1>6, <1>7, <1>8, <1>9 DEF SettledKind

(* Every settled step opens reviews of levels the configuration asks for.  *)
LEMMA WithinLevelsStep ==
    ASSUME SettledInv, SettledKind, UNCHANGED config
    PROVE  WithinLevels'
<1> SUFFICES ASSUME NEW r \in ReviewIds, reviews'[r].status = "pending"
             PROVE  reviews'[r].level <= config.levels
  BY DEF WithinLevels
<1>1. reviews \in [ReviewIds -> Review] /\ config.levels \in Nat /\ 1 <= config.levels
  BY ConfigLevels, WorkflowAssumption DEF SettledInv, ReviewInv, TypeOK
<1>2. ASSUME reviews'[r] = reviews[r] PROVE reviews'[r].level <= config.levels
  BY <1>2 DEF SettledInv, WithinLevels
<1>3. CASE Apart
  BY <1>2, <1>3 DEF Apart
<1>4. CASE Submission
  <2>1. PICK a \in Apps, u \in Users, n \in ReviewIds : Submits(a, u, n)
    BY <1>4 DEF Submission
  <2>2. CASE r = n
    BY <1>1, <2>1, <2>2 DEF Submits, CancelPending, NewReview
  <2>3. CASE r # n
    BY <1>1, <1>2, <2>1, <2>3 DEF Submits, CancelPending, Pending, Review
  <2> QED
    BY <2>2, <2>3
<1>5. CASE Rejection \/ LastApproval
  <2>1. PICK u \in Users, q \in ReviewIds, s \in {"approved", "rejected"} : Decides(q, u, s)
    BY <1>5 DEF Rejection, LastApproval
  <2>2. CASE r = q
    BY <1>1, <2>1, <2>2 DEF Decides, Decided, Review
  <2>3. CASE r # q
    BY <1>1, <1>2, <2>1, <2>3 DEF Decides, Decided
  <2> QED
    BY <2>2, <2>3
<1>6. CASE LowerApproval
  <2>1. PICK u \in Users, q \in ReviewIds, n \in ReviewIds :
           Escalates(q, u, n) /\ reviews[q].level < config.levels
    BY <1>6 DEF LowerApproval
  <2>2. CASE r = n
    <3>1. reviews'[n].level = reviews[q].level + 1
      BY <1>1, <2>1 DEF Escalates, NewReview, Decided
    <3>2. reviews[q].level \in Nat
      BY <1>1 DEF Review
    <3> QED
      BY <1>1, <2>1, <2>2, <3>1, <3>2
  <2>3. CASE r = q /\ r # n
    BY <1>1, <2>1, <2>3 DEF Escalates, Decided, Review
  <2>4. CASE r # q /\ r # n
    BY <1>1, <1>2, <2>1, <2>4 DEF Escalates, Decided
  <2> QED
    BY <2>2, <2>3, <2>4
<1>7. CASE Deletion
  BY <1>2, <1>7 DEF Deletion, Removes, NoReview
<1> QED
  BY <1>3, <1>4, <1>5, <1>6, <1>7 DEF SettledKind

(* Every settled step keeps queue and catalogue in agreement.              *)
LEMMA QueueStep ==
    ASSUME SettledInv, SettledKind
    PROVE  QueueAgrees'
<1> SUFFICES ASSUME NEW a \in Apps
             PROVE  /\ apps'[a].status = "pending_review" =>
                          \E r \in ReviewIds : Pending(r, a)'
                    /\ apps'[a].status \in {"draft", "published", "rejected"} =>
                          ~ \E r \in ReviewIds : Pending(r, a)'
  BY DEF QueueAgrees
<1> USE DEF Pending
<1>1. reviews \in [ReviewIds -> Review] /\ TypeOK
  BY DEF SettledInv, ReviewInv, TypeOK
<1>2. /\ apps[a].status = "pending_review" => \E r \in ReviewIds : Pending(r, a)
      /\ apps[a].status \in {"draft", "published", "rejected"} =>
            ~ \E r \in ReviewIds : Pending(r, a)
  BY DEF SettledInv, QueueAgrees
<1>3. \A r \in ReviewIds : Pending(r, a) => apps[a].status \in Listed
  BY DEF SettledInv, ReviewInv, Formed, Opened, Exists
<1>4. \A r, q \in ReviewIds : Pending(r, a) /\ Pending(q, a) => r = q
  BY DEF SettledInv, ReviewInv, OnePendingReview
<1>5. ASSUME NEW r \in ReviewIds, reviews[r].status = "pending" PROVE reviews[r].app \in Apps
  BY <1>5 DEF SettledInv, ReviewInv, Formed, Opened
<1>6. CASE Apart
  <2>1. UNCHANGED reviews
    BY <1>6 DEF Apart
  <2> QED
    BY <1>2, <1>3, <1>6, <2>1, ApartStatus DEF Listed
<1>7. CASE Submission
  <2>1. PICK b \in Apps, u \in Users, n \in ReviewIds :
           Submits(b, u, n) /\ apps' = WithStatus(b, "pending_review")
    BY <1>7 DEF Submission
  <2>2. CASE a = b
    <3>1. reviews'[n] = NewReview(b, u, 1, n)
      BY <1>1, <2>1 DEF Submits, CancelPending
    <3>2. apps'[a].status = "pending_review"
      BY <1>1, <2>1, <2>2, WithStatusType DEF Listed
    <3>3. Pending(n, a)'
      BY <2>2, <3>1 DEF NewReview
    <3> QED
      BY <3>2, <3>3
  <2>3. CASE a # b
    <3>1. \A r \in ReviewIds : Pending(r, a)' <=> Pending(r, a)
      <4>1. reviews'[n].app = b /\ reviews[n].status # "pending"
        BY <1>1, <2>1 DEF Submits, CancelPending, NewReview
      <4>2. \A r \in ReviewIds \ {n} : reviews'[r] = CancelPending(b)[r]
        BY <1>1, <2>1 DEF Submits, CancelPending
      <4>3. \A r \in ReviewIds \ {n} : Pending(r, a)' <=> Pending(r, a)
        BY <1>1, <2>3, <4>2 DEF CancelPending, Review
      <4> QED
        BY <2>3, <4>1, <4>3
    <3>2. apps'[a] = apps[a]
      BY <1>1, <2>1, <2>3, WithStatusType DEF Listed
    <3> QED
      BY <1>2, <3>1, <3>2
  <2> QED
    BY <2>2, <2>3
<1>8. ASSUME NEW u \in Users, NEW n \in ReviewIds, NEW s \in {"approved", "rejected"},
             NEW t \in {"published", "rejected"},
             Decides(n, u, s), apps' = WithStatus(reviews[n].app, t)
      PROVE  /\ apps'[a].status = "pending_review" => \E r \in ReviewIds : Pending(r, a)'
             /\ apps'[a].status \in {"draft", "published", "rejected"} =>
                   ~ \E r \in ReviewIds : Pending(r, a)'
  <2>1. reviews[n].status = "pending" /\ reviews[n].app \in Apps
    BY <1>5, <1>8 DEF Decides
  <2>2. reviews'[n].status # "pending"
    BY <1>1, <1>8 DEF Decides, Decided, Review
  <2>3. \A r \in ReviewIds \ {n} : reviews'[r] = reviews[r]
    BY <1>1, <1>8 DEF Decides, Decided
  <2>4. CASE a = reviews[n].app
    <3>1. apps'[a].status = t
      BY <1>1, <1>8, <2>4, WithStatusType DEF Listed
    <3>2. ~ \E r \in ReviewIds : Pending(r, a)'
      BY <1>4, <2>1, <2>2, <2>3, <2>4
    <3> QED
      BY <3>1, <3>2
  <2>5. CASE a # reviews[n].app
    <3>1. apps'[a] = apps[a]
      BY <1>1, <1>8, <2>1, <2>5, WithStatusType DEF Listed
    <3>2. \A r \in ReviewIds : Pending(r, a)' <=> Pending(r, a)
      BY <2>2, <2>3, <2>5
    <3> QED
      BY <1>2, <3>1, <3>2
  <2> QED
    BY <2>4, <2>5
<1>9. CASE LowerApproval
  <2>1. PICK u \in Users, q \in ReviewIds, n \in ReviewIds : Escalates(q, u, n) /\ apps' = apps
    BY <1>9 DEF LowerApproval
  <2>2. /\ q # n
        /\ reviews[q].status = "pending"
        /\ reviews[n].status = "none"
    BY <2>1 DEF Escalates
  <2>3. reviews'[n].status = "pending" /\ reviews'[n].app = reviews[q].app
    BY <1>1, <2>1 DEF Escalates, Decided, NewReview
  <2>4. reviews'[q].status # "pending"
    BY <1>1, <2>1, <2>2 DEF Escalates, Decided, Review
  <2>5. \A r \in ReviewIds \ {q, n} : reviews'[r] = reviews[r]
    BY <1>1, <2>1 DEF Escalates, Decided
  <2> QED
    BY <1>2, <2>1, <2>2, <2>3, <2>4, <2>5
<1>10. CASE Deletion
  <2>1. PICK b \in Apps : Removes(b) /\ Stage' = [Stage EXCEPT ![b] = "deleted"]
    BY <1>10 DEF Deletion
  <2>2. CASE a = b
    BY <2>1, <2>2 DEF Stage
  <2>3. CASE a # b
    <3>1. apps'[a].status = apps[a].status
      BY <2>1, <2>3 DEF Stage
    <3>2. \A r \in ReviewIds : Pending(r, a)' <=> Pending(r, a)
      <4> SUFFICES ASSUME NEW r \in ReviewIds PROVE Pending(r, a)' <=> Pending(r, a)
        OBVIOUS
      <4>1. CASE reviews[r].app = b
        BY <2>1, <2>3, <4>1 DEF Removes, NoReview
      <4>2. CASE reviews[r].app # b
        BY <2>1, <4>2 DEF Removes
      <4> QED
        BY <4>1, <4>2
    <3> QED
      BY <1>2, <3>1, <3>2
  <2> QED
    BY <2>2, <2>3
<1> QED
  BY <1>6, <1>7, <1>8, <1>9, <1>10 DEF Rejection, LastApproval, SettledKind

(* Every settled step keeps published apps on their chain of approvals.    *)
LEMMA PublishedStep ==
    ASSUME SettledInv, FourEyes', UNCHANGED config, SettledKind
    PROVE  PublishedWasApproved'
<1> SUFFICES ASSUME NEW a \in Apps, apps'[a].status = "published"
             PROVE  \E round \in ReviewIds : \A k \in 1 .. config.levels : \E r \in ReviewIds :
                       /\ Approved(r)'
                       /\ reviews'[r].app = a
                       /\ reviews'[r].round = round
                       /\ reviews'[r].level = k
                       /\ reviews'[r].reviewer # reviews'[r].submitter
  BY DEF PublishedWasApproved
<1>1. TypeOK /\ reviews \in [ReviewIds -> Review]
  BY DEF SettledInv, ReviewInv, TypeOK
<1>2. CASE apps[a].status = "published"
  <2>1. PICK round \in ReviewIds : \A k \in 1 .. config.levels : \E r \in ReviewIds :
           /\ Approved(r)
           /\ reviews[r].app = a
           /\ reviews[r].round = round
           /\ reviews[r].level = k
           /\ reviews[r].reviewer # reviews[r].submitter
    BY <1>2 DEF SettledInv, PublishedWasApproved
  <2>2. ASSUME NEW r \in ReviewIds, Approved(r), reviews[r].app = a
        PROVE  reviews'[r] = reviews[r] /\ Approved(r)'
    BY <2>2, ApprovalsStay DEF Approved
  <2> QED
    BY <2>1, <2>2
<1>3. CASE apps[a].status # "published"
  <2>1. LastApproval
    <3>1. ~Apart
      BY <1>3, ApartStatus
    <3>2. ~LowerApproval
      BY <1>3 DEF LowerApproval
    <3>3. ~Submission
      <4>1. ASSUME NEW b \in Apps, apps' = WithStatus(b, "pending_review")
            PROVE  FALSE
        <5>1. "pending_review" \in Listed
          BY DEF Listed
        <5>2. /\ apps'[b].status = "pending_review"
              /\ \A c \in Apps \ {b} : apps'[c] = apps[c]
          BY <1>1, <4>1, <5>1, WithStatusType
        <5> QED
          BY <1>3, <5>2
      <4> QED
        BY <4>1 DEF Submission
    <3>4. ~Rejection
      <4>1. ASSUME NEW u \in Users, NEW n \in ReviewIds, Decides(n, u, "rejected"),
                   apps' = WithStatus(reviews[n].app, "rejected")
            PROVE  FALSE
        <5>1. reviews[n].app \in Apps
          BY <4>1 DEF Decides, SettledInv, ReviewInv, Formed, Opened
        <5> QED
          BY <1>1, <1>3, <4>1, <5>1, WithStatusType DEF Listed
      <4> QED
        BY <4>1 DEF Rejection
    <3>5. ~Deletion
      BY <1>3 DEF Deletion, Stage
    <3> QED
      BY <3>1, <3>2, <3>3, <3>4, <3>5 DEF SettledKind
  <2>2. PICK u \in Users, n \in ReviewIds :
           /\ Decides(n, u, "approved")
           /\ config.levels <= reviews[n].level
           /\ apps' = WithStatus(reviews[n].app, "published")
    BY <2>1 DEF LastApproval
  <2>3. Opened(n) /\ reviews[n].app \in Apps /\ reviews[n].round \in ReviewIds
    BY <2>2 DEF Decides, SettledInv, ReviewInv, Formed, Opened
  <2>4. reviews[n].app = a
    BY <1>1, <1>3, <2>2, <2>3, WithStatusType DEF Listed
  <2>5. /\ Approved(n)'
        /\ reviews'[n].app = a
        /\ reviews'[n].round = reviews[n].round
        /\ reviews'[n].level = reviews[n].level
    <3>1. reviews'[n] = [reviews[n] EXCEPT !.status = "approved", !.reviewer = u]
      BY <1>1, <2>2 DEF Decides, Decided
    <3> QED
      BY <1>1, <2>4, <3>1 DEF Review, Approved
  <2>6. config.levels \in Nat /\ reviews[n].level \in Nat
    BY <1>1, ConfigLevels, WorkflowAssumption DEF Review
  <2>7. ASSUME NEW k \in 1 .. config.levels
        PROVE  \E r \in ReviewIds :
                  /\ Approved(r)'
                  /\ reviews'[r].app = a
                  /\ reviews'[r].round = reviews[n].round
                  /\ reviews'[r].level = k
                  /\ reviews'[r].reviewer # reviews'[r].submitter
    <3>1. \A r \in ReviewIds : Approved(r)' => reviews'[r].reviewer # reviews'[r].submitter
      BY DEF FourEyes
    <3>2. CASE k = reviews[n].level
      BY <2>5, <3>1, <3>2
    <3>3. CASE k # reviews[n].level
      <4>1. k \in 1 .. reviews[n].level - 1
        BY <2>2, <2>6, <3>3
      <4>2. PICK r \in ReviewIds :
               /\ Approved(r)
               /\ reviews[r].level = k
               /\ reviews[r].round = reviews[n].round
               /\ reviews[r].app = a
        BY <2>3, <2>4, <4>1 DEF SettledInv, ReviewInv, ChainOfApprovals
      <4>3. reviews'[r] = reviews[r] /\ Approved(r)'
        BY <4>2, ApprovalsStay DEF Approved
      <4> QED
        BY <3>1, <4>2, <4>3
    <3> QED
      BY <3>2, <3>3
  <2> QED
    BY <2>3, <2>7
<1> QED
  BY <1>2, <1>3

(* The invariant of the settled workflow is inductive.                     *)
LEMMA SettledInvStep ==
    ASSUME SettledInv, [SettledNext]_vars
    PROVE  SettledInv'
<1>1. [Next]_vars
  BY DEF SettledNext, Next, HousekeepingNext, AdminNext, SettingsNext
<1>2. ReviewInv'
  BY <1>1, ReviewInvStep DEF SettledInv
<1>3. UNCHANGED config
  BY SettledStep
<1>4. SettledKind
  BY SettledStep
<1>5. FourEyes' /\ QueueAgrees'
  BY <1>4, FourEyesStep, QueueStep
<1>6. PublishedWasApproved'
  BY <1>3, <1>4, <1>5, PublishedStep
<1>7. WithinLevels'
  BY <1>3, <1>4, WithinLevelsStep
<1> QED
  BY <1>2, <1>3, <1>5, <1>6, <1>7 DEF SettledInv, Settled

(* The inductive invariant of a settled workflow.                          *)
THEOREM SettledIsSound == SettledSpec => []SettledInv
<1>1. SettledInit => SettledInv
  <2> SUFFICES ASSUME SettledInit PROVE SettledInv
    OBVIOUS
  <2>1. ReviewInv
    BY EmptyCatalogInv DEF SettledInit
  <2>2. /\ \A r \in ReviewIds : reviews[r].status = "none"
        /\ \A a \in Apps : apps[a].status = "none"
    BY DEF SettledInit, EmptyCatalog, NoReview, NoApp
  <2>3. WithinLevels /\ FourEyes /\ QueueAgrees /\ PublishedWasApproved
    BY <2>2 DEF WithinLevels, FourEyes, Approved, QueueAgrees, Pending, PublishedWasApproved
  <2> QED
    BY <2>1, <2>3 DEF SettledInit, SettledInv, Settled
<1>2. SettledInv /\ [SettledNext]_vars => SettledInv'
  BY SettledInvStep
<1> QED
  BY <1>1, <1>2, PTL DEF SettledSpec

(* The queue and the reviews agree: an app awaiting review can be decided, *)
(* and no forgotten review threatens an app that awaits none.              *)
THEOREM QueueIsHonest == SettledSpec => []QueueAgrees
<1>1. SettledInv => QueueAgrees
  BY DEF SettledInv
<1> QED
  BY <1>1, SettledIsSound, PTL

(* Everything in the catalogue was approved at every level, by somebody    *)
(* who did not submit it, within one submission.                           *)
THEOREM PublicationIsEarned == SettledSpec => []PublishedWasApproved
<1>1. SettledInv => PublishedWasApproved
  BY DEF SettledInv
<1> QED
  BY <1>1, SettledIsSound, PTL

(* A rejected app does not reach the catalogue in one step.                *)
THEOREM RejectionHolds == SettledSpec => RejectedIsNotPublished
<1> DEFINE Held == \A a \in Apps : apps[a].status = "rejected" => apps'[a].status # "published"
<1>1. ASSUME SettledInv, [SettledNext]_vars PROVE Held
  <2> SUFFICES ASSUME NEW a \in Apps, apps[a].status = "rejected",
                      apps'[a].status = "published"
               PROVE  FALSE
    OBVIOUS
  <2>1. TypeOK /\ ~ \E r \in ReviewIds : Pending(r, a)
    BY <1>1 DEF SettledInv, ReviewInv, QueueAgrees
  <2>2. ASSUME NEW n \in ReviewIds, NEW s \in Listed, reviews[n].status = "pending",
               apps' = WithStatus(reviews[n].app, s)
        PROVE  FALSE
    <3>1. reviews[n].app \in Apps /\ reviews[n].app # a
      BY <1>1, <2>1, <2>2 DEF SettledInv, ReviewInv, Formed, Opened, Pending
    <3> QED
      BY <2>1, <2>2, <3>1, WithStatusType
  <2>3. ~Submission
    <3>1. ASSUME NEW b \in Apps, apps' = WithStatus(b, "pending_review")
          PROVE  FALSE
      <4>1. "pending_review" \in Listed
        BY DEF Listed
      <4>2. /\ apps'[b].status = "pending_review"
            /\ \A c \in Apps \ {b} : apps'[c] = apps[c]
        BY <2>1, <3>1, <4>1, WithStatusType
      <4> QED
        BY <4>2
    <3> QED
      BY <3>1 DEF Submission
  <2>4. ~Rejection /\ ~LastApproval
    BY <2>2 DEF Rejection, LastApproval, Decides, Listed
  <2>5. Apart \/ LowerApproval \/ Deletion
    BY <1>1, <2>3, <2>4, SettledStep DEF SettledKind
  <2> QED
    BY <2>5, ApartStatus DEF LowerApproval, Deletion, Stage
<1>2. SettledInv /\ [SettledNext]_vars => [Held]_vars
  BY <1>1
<1> QED
  BY <1>2, SettledIsSound, PTL DEF SettledSpec, RejectedIsNotPublished
=============================================================================
