------------------------- MODULE Attestation_proofs -------------------------
(***************************************************************************)
(* The gate implements Attestation while owners edit their apps and the    *)
(* settings are saved one at a time, for any number of apps, reviews,      *)
(* deployments, keys, refreshes and saves.                                 *)
(*                                                                         *)
(* What makes it true is that a label in force carries what the app and    *)
(* the settings hold now (LabelNow): a step lemma need only say which apps *)
(* are verified before and after.                                          *)
(***************************************************************************)
EXTENDS SecurityCheck_proofs

(* A live app has content.                                                 *)
Filled == \A a \in Apps : Live(a) => apps[a].content \in Contents

(* The challenge a refresh works with is one of its app's.                 *)
OwnChallenge ==
    \A h \in Refreshers : refreshes[h].pc \in {"content", "fetch", "bind", "upsert"} =>
        \E n \in Nat : refreshes[h].challenge = <<refreshes[h].app, n>>

AttestationInv == OrderlyInv /\ Attested /\ Filled /\ OwnChallenge

-----------------------------------------------------------------------------
(* The invariant.                                                          *)

(* Only registering an app and editing it write its content.               *)
LEMMA FilledStep ==
    ASSUME SecurityInv, Filled, [OrderlyNext]_vars
    PROVE  Filled'
<1> SUFFICES ASSUME NEW a \in Apps, apps'[a].state = "live"
             PROVE  apps'[a].content \in Contents
  BY DEF Filled, Live
<1>1. apps \in [Apps -> App]
  BY DEF SecurityInv, TypeOK
<1>2. CASE UNCHANGED apps
  BY <1>2 DEF Filled, Live
<1>3. ASSUME NEW b \in Apps, NEW c \in Contents, CreateApp(b, c)
      PROVE  apps'[a].content \in Contents
  BY <1>1, <1>3 DEF CreateApp, Filled, Live
<1>4. ASSUME NEW b \in Apps, NEW c \in Contents, UpdateApp(b, c)
      PROVE  apps'[a].content \in Contents
  BY <1>1, <1>4 DEF UpdateApp, App, Filled, Live
<1>5. ASSUME NEW b \in Apps, DeleteApp(b)
      PROVE  apps'[a].content \in Contents
  BY <1>1, <1>5 DEF DeleteApp, App, Filled, Live
<1>6. ASSUME NEW h \in Refreshers, Upsert(h)
      PROVE  apps'[a].content \in Contents
  BY <1>1, <1>6 DEF Upsert, App, Filled, Live
<1>7. CASE AppNext
  BY <1>3, <1>4, <1>5, <1>7 DEF AppNext
<1>8. CASE RefreshNext
  BY <1>2, <1>6, <1>8 DEF RefreshNext, ReadSettings, ReadState, ReadContent, FetchReview,
     CheckBinding, LoseRefresh
<1>9. CASE RemoteNext \/ \E s \in Savers : SaveNext(s)
  BY <1>2, <1>9 DEF RemoteNext, PasteBinding, Rule, SaveNext, StartSaves, StartSave, ReadRow,
     WriteRow, LoseSave
<1> QED
  BY <1>2, <1>7, <1>8, <1>9 DEF OrderlyNext, vars

(* A refresh keeps its app and takes its challenge from it.                *)
LEMMA OwnChallengeStep ==
    ASSUME SecurityInv, OwnChallenge, [Next]_vars
    PROVE  OwnChallenge'
<1> SUFFICES ASSUME NEW h \in Refreshers,
                    refreshes'[h].pc \in {"content", "fetch", "bind", "upsert"}
             PROVE  \E n \in Nat : refreshes'[h].challenge = <<refreshes'[h].app, n>>
  BY DEF OwnChallenge
<1>1. RefreshChange(h)
  BY RefreshChanges
<1>2. CASE /\ refreshes[h].pc \in {"content", "fetch", "bind", "upsert"}
           /\ refreshes'[h].app = refreshes[h].app
           /\ refreshes'[h].challenge = refreshes[h].challenge
  BY <1>2 DEF OwnChallenge
<1>3. CASE /\ refreshes[h].pc = "state"
           /\ refreshes'[h].app = refreshes[h].app
           /\ refreshes'[h].challenge = Challenge(refreshes[h].app)
  <2>1. apps[refreshes[h].app].nonce \in Nat
    BY <1>3 DEF SecurityInv, TypeOK, Named, App
  <2> QED
    BY <1>3, <2>1 DEF Challenge
<1> QED
  BY <1>1, <1>2, <1>3 DEF RefreshChange

(* The invariant is inductive.                                             *)
LEMMA AttestationStep ==
    ASSUME AttestationInv, [OrderlyNext]_vars
    PROVE  AttestationInv'
<1>1. [OwnersNext]_vars /\ [Next]_vars
  BY DEF OrderlyNext, OwnersNext, Next
<1>2. SecurityInv /\ LabelInv
  BY DEF AttestationInv, OrderlyInv, LabelInv
<1> QED
  BY <1>1, <1>2, OrderlyStep, AttestedStep, FilledStep, OwnChallengeStep DEF AttestationInv

-----------------------------------------------------------------------------
(* The mapping.                                                            *)

Now(a) == [content |-> apps[a].content, from |-> settings.url]

(* A label in force carries the content and the deployment of now.         *)
Worn == Label = [a \in Apps |-> IF Verified(a) THEN Now(a) ELSE None]

(* Where the invariant holds, a label is what Worn says.                   *)
LEMMA LabelNow == AttestationInv => Worn
<1> SUFFICES ASSUME AttestationInv, NEW a \in Apps, Verified(a)
             PROVE  /\ checks[apps[a].attached].content = apps[a].content
                    /\ checks[apps[a].attached].from = settings.url
  BY DEF Worn, Label, Now
<1> DEFINE r == apps[a].attached
<1>1. r \in RemoteIds /\ checks[r].status = "approved" /\ checks[r].challenge = Challenge(a)
      /\ checks[r].revision = settings.revision
  BY DEF Verified, AttestationInv, OrderlyInv, SecurityInv, TypeOK, App
<1>2. Attests(checks[r].challenge, checks[r].content)
  BY <1>1 DEF AttestationInv, Attested
<1>3. Current(checks[r].revision, checks[r].from)
  BY <1>1 DEF AttestationInv, OrderlyInv, Revisions
<1> QED
  BY <1>1, <1>2, <1>3 DEF Attests, Challenge, Verified, Current

(* ... also after the step.                                                *)
LEMMA LabelThen == AttestationInv' => Worn'
BY LabelNow, PTL

(* The same apps, verified as before, with the same deployment: nothing    *)
(* happened.                                                               *)
LEMMA NothingHappened ==
    ASSUME Worn, Worn', apps' = apps, settings'.url = settings.url,
           \A a \in Apps : Verified(a)' <=> Verified(a)
    PROVE  UNCHANGED Promise!record
<1>1. Label' = Label
  BY DEF Worn, Now
<1>2. Kept' = Kept
  BY DEF Kept, Live
<1> QED
  BY <1>1, <1>2 DEF Promise!record

(* A step that leaves apps, checks and settings alone is invisible.        *)
LEMMA Invisible ==
    ASSUME Worn, Worn', UNCHANGED <<apps, checks, settings>>
    PROVE  UNCHANGED Promise!record
<1>1. \A a \in Apps : Verified(a)' <=> Verified(a)
  BY DEF Verified, Live, Challenge
<1> QED
  BY <1>1, NothingHappened

-----------------------------------------------------------------------------
(* Step by step.                                                           *)

(* A new app has no label.                                                 *)
LEMMA CreateImplements ==
    ASSUME AttestationInv, Worn, Worn', NEW a \in Apps, NEW c \in Contents, CreateApp(a, c)
    PROVE  Promise!Register(a, c)
<1>1. apps \in [Apps -> App]
  BY DEF AttestationInv, OrderlyInv, SecurityInv, TypeOK
<1>2. /\ apps'[a].state = "live" /\ apps'[a].content = c /\ apps'[a].attached = None
      /\ ~Live(a)
      /\ \A b \in Apps \ {a} : apps'[b] = apps[b]
      /\ UNCHANGED <<checks, settings>>
  BY <1>1 DEF CreateApp, Live
<1>3. Kept[a] = None /\ Kept' = [Kept EXCEPT ![a] = c]
  BY <1>2 DEF Kept, Live
<1>4. Label' = Label
  <2>1. \A b \in Apps : Verified(b)' <=> Verified(b)
    BY <1>2 DEF Verified, Live, Challenge
  <2>2. \A b \in Apps : Verified(b) => Now(b)' = Now(b)
    BY <1>2 DEF Verified, Now
  <2> QED
    BY <2>1, <2>2 DEF Worn
<1> QED
  BY <1>2, <1>3, <1>4 DEF Promise!Register

(* An edit that changes nothing is invisible, any other loses the label.   *)
LEMMA UpdateImplements ==
    ASSUME AttestationInv, Worn, Worn', NEW a \in Apps, NEW c \in Contents, UpdateApp(a, c)
    PROVE  Promise!Revise(a, c) \/ UNCHANGED Promise!record
<1>1. apps \in [Apps -> App]
  BY DEF AttestationInv, OrderlyInv, SecurityInv, TypeOK
<1>2. CASE c = apps[a].content
  BY <1>2, Invisible DEF UpdateApp
<1>3. CASE c # apps[a].content
  <2>1. apps' = [apps EXCEPT ![a].content = c, ![a].nonce = @ + 1, ![a].attached = None]
    BY <1>3 DEF UpdateApp
  <2>2. /\ apps'[a].state = "live" /\ apps'[a].content = c /\ apps'[a].attached = None
        /\ \A b \in Apps \ {a} : apps'[b] = apps[b]
        /\ Live(a)
        /\ UNCHANGED <<checks, settings>>
    BY <1>1, <2>1 DEF UpdateApp, Live, App
  <2>3. Kept[a] \notin {None, c} /\ Kept' = [Kept EXCEPT ![a] = c]
    <3>1. Kept[a] = apps[a].content /\ apps[a].content \in Contents
      BY <2>2 DEF Kept, AttestationInv, Filled
    <3>2. Kept' = [Kept EXCEPT ![a] = c]
      BY <2>2 DEF Kept, Live
    <3> QED
      BY <1>3, <3>1, <3>2, SecurityAssumption
  <2>4. Label' = [Label EXCEPT ![a] = None]
    <3>1. ~Verified(a)'
      BY <2>2 DEF Verified
    <3>2. \A b \in Apps \ {a} : (Verified(b)' <=> Verified(b)) /\ Now(b)' = Now(b)
      BY <2>2 DEF Verified, Live, Challenge, Now
    <3> QED
      BY <3>1, <3>2 DEF Worn
  <2> QED
    BY <2>2, <2>3, <2>4 DEF Promise!Revise, Promise!Peel
<1> QED
  BY <1>2, <1>3

(* A deleted app loses its label, and only it.                             *)
LEMMA DeleteImplements ==
    ASSUME AttestationInv, Worn, Worn', NEW a \in Apps, DeleteApp(a)
    PROVE  Promise!Delete(a)
<1>1. apps \in [Apps -> App] /\ checks \in [RemoteIds -> Check]
  BY DEF AttestationInv, OrderlyInv, SecurityInv, TypeOK
<1>2. /\ apps'[a].state = "deleted"
      /\ \A b \in Apps \ {a} : apps'[b] = apps[b]
      /\ Live(a)
      /\ UNCHANGED settings
  BY <1>1 DEF DeleteApp, Live, App
<1>3. \A r \in RemoteIds : /\ checks'[r].status = checks[r].status
                           /\ checks'[r].challenge = checks[r].challenge
                           /\ checks'[r].revision = checks[r].revision
  BY <1>1 DEF DeleteApp, Check
<1>4. Kept[a] # None /\ Kept' = [Kept EXCEPT ![a] = None]
  <2>1. Kept[a] = apps[a].content /\ apps[a].content \in Contents
    BY <1>2 DEF Kept, AttestationInv, Filled
  <2>2. Kept' = [Kept EXCEPT ![a] = None]
    BY <1>2 DEF Kept, Live
  <2> QED
    BY <2>1, <2>2, SecurityAssumption
<1>5. Label' = [Label EXCEPT ![a] = None]
  <2>1. ~Verified(a)'
    BY <1>2 DEF Verified, Live
  <2>2. \A b \in Apps \ {a} : Now(b)' = Now(b)
    BY <1>2 DEF Now
  <2>3. ASSUME NEW b \in Apps \ {a} PROVE Verified(b)' <=> Verified(b)
    <3>1. apps'[b] = apps[b] /\ apps[b].attached \in RemoteIds \cup {None}
      BY <1>1, <1>2 DEF App
    <3> QED
      BY <1>2, <1>3, <3>1 DEF Verified, Live, Challenge
  <2> QED
    BY <2>1, <2>2, <2>3 DEF Worn
<1> QED
  BY <1>2, <1>4, <1>5 DEF Promise!Delete, Promise!Peel

(* Recording an answer labels the app that was asked for, or nothing; the  *)
(* row it overwrites may have been another app's label.                    *)
LEMMA RecordImplements ==
    ASSUME AttestationInv, Worn, Worn', NEW h \in Refreshers, Upsert(h)
    PROVE  (\E a \in Apps : Promise!Vouch(a)) \/ Promise!Withdraw
<1>0. PICK a \in Apps : a = refreshes[h].app
  BY DEF AttestationInv, OrderlyInv, SecurityInv, Named, Upsert, Recording
<1> DEFINE r == refreshes[h].rid
           lost == {b \in Apps : ~Verified(b)'}
<1>1. apps \in [Apps -> App] /\ checks \in [RemoteIds -> Check]
  BY DEF AttestationInv, OrderlyInv, SecurityInv, TypeOK
<1>2. /\ apps' = [apps EXCEPT ![a].attached = r]
      /\ checks' = [checks EXCEPT ![r] = Row(h)]
      /\ UNCHANGED settings
  BY <1>0 DEF Upsert
<1>3. /\ \A b \in Apps \ {a} : apps'[b] = apps[b]
      /\ \A b \in Apps : apps'[b].state = apps[b].state /\ apps'[b].content = apps[b].content
  BY <1>1, <1>2 DEF App
<1>4. Kept' = Kept /\ \A b \in Apps : Now(b)' = Now(b)
  BY <1>2, <1>3 DEF Kept, Live, Now
<1>5. ASSUME NEW b \in Apps \ {a}, Verified(b)'
      PROVE  Verified(b)
  <2>1. apps'[b] = apps[b] /\ apps[b].attached \in RemoteIds
    BY <1>1, <1>3, <1>5 DEF Verified, App
  <2>2. CASE apps[b].attached # r
    <3>1. checks'[apps[b].attached] = checks[apps[b].attached]
      BY <1>1, <1>2, <2>1, <2>2
    <3> QED
      BY <1>2, <1>5, <2>1, <3>1 DEF Verified, Live, Challenge
  <2>3. CASE apps[b].attached = r
    <3>1. checks'[r].challenge = refreshes[h].challenge
      BY <1>1, <1>2, <2>1, <2>3 DEF Row
    <3>2. PICK n \in Nat : refreshes[h].challenge = <<a, n>>
      BY <1>0 DEF AttestationInv, OwnChallenge, Upsert, Recording
    <3>3. checks'[r].challenge = <<b, apps[b].nonce>>
      BY <1>5, <2>1, <2>3 DEF Verified, Challenge
    <3> QED
      BY <3>1, <3>2, <3>3
  <2> QED
    BY <2>2, <2>3
<1>6. CASE Verified(a)'
  <2>1. Kept[a] = apps[a].content /\ Live(a)
    BY <1>1, <1>3, <1>6 DEF Kept, Verified, Live
  <2>2. Kept[a] # None
    BY <1>1, <2>1, SecurityAssumption DEF AttestationInv, Filled
  <2>3. Now(a) = [content |-> Kept[a], from |-> settings.url]
    BY <2>1 DEF Now
  <2>4. Label' = [b \in Apps |-> IF b = a THEN [content |-> Kept[a], from |-> settings.url]
                                 ELSE IF b \in lost \ {a} THEN None ELSE Label[b]]
    <3> SUFFICES ASSUME NEW b \in Apps
                 PROVE  Label'[b] = IF b = a THEN [content |-> Kept[a], from |-> settings.url]
                                    ELSE IF b \in lost \ {a} THEN None ELSE Label[b]
      BY DEF Worn
    <3>1. Label'[b] = IF Verified(b)' THEN Now(b) ELSE None
      BY <1>4 DEF Worn
    <3>2. Label[b] = IF Verified(b) THEN Now(b) ELSE None
      BY DEF Worn
    <3> QED
      BY <1>5, <1>6, <2>3, <3>1, <3>2
  <2>5. Promise!Vouch(a)
    <3>1. lost \ {a} \in SUBSET (Apps \ {a})
      OBVIOUS
    <3> HIDE DEF lost
    <3> QED
      BY <1>2, <1>4, <2>2, <2>4, <3>1 DEF Promise!Vouch
  <2> QED
    BY <1>1, <2>5
<1>7. CASE ~Verified(a)'
  <2>1. Label' = [b \in Apps |-> IF b \in lost THEN None ELSE Label[b]]
    <3> SUFFICES ASSUME NEW b \in Apps
                 PROVE  Label'[b] = IF b \in lost THEN None ELSE Label[b]
      BY DEF Worn
    <3>1. Label'[b] = IF Verified(b)' THEN Now(b) ELSE None
      BY <1>4 DEF Worn
    <3>2. Label[b] = IF Verified(b) THEN Now(b) ELSE None
      BY DEF Worn
    <3> QED
      BY <1>5, <1>7, <3>1, <3>2
  <2>2. lost \in SUBSET Apps
    OBVIOUS
  <2> HIDE DEF lost
  <2> QED
    BY <1>2, <1>4, <2>1, <2>2 DEF Promise!Withdraw
<1> QED
  BY <1>6, <1>7

(* A save that moves the revision leaves every label behind, one that does *)
(* not keeps the deployment.                                               *)
LEMMA WriteImplements ==
    ASSUME AttestationInv, Worn, Worn', NEW s \in Savers, WriteRow(s)
    PROVE  \/ \E d \in Deployments \cup {None} : Promise!Connect(d)
           \/ UNCHANGED Promise!record
<1>1. /\ apps \in [Apps -> App] /\ checks \in [RemoteIds -> Check]
      /\ saves[s] \in Save /\ settings \in Settings
  BY DEF AttestationInv, OrderlyInv, SecurityInv, TypeOK
<1>2. /\ settings'.url = saves[s].url /\ settings'.revision = saves[s].revision
      /\ settings.revision <= saves[s].revision
      /\ saves[s].revision = settings.revision => saves[s].url = settings.url
      /\ UNCHANGED <<apps, checks>>
  BY DEF WriteRow, AttestationInv, OrderlyInv, SavesFit
<1>3. CASE saves[s].revision = settings.revision
  <2>1. \A a \in Apps : Verified(a)' <=> Verified(a)
    BY <1>2, <1>3 DEF Verified, Live, Challenge
  <2> QED
    BY <1>2, <1>3, <2>1, NothingHappened
<1>4. CASE saves[s].revision # settings.revision
  <2>1. ASSUME NEW a \in Apps PROVE ~Verified(a)'
    <3> SUFFICES ASSUME Verified(a)' PROVE FALSE
      OBVIOUS
    <3> DEFINE r == apps[a].attached
    <3>1. r \in RemoteIds /\ checks[r].status # "none" /\ checks[r].revision = saves[s].revision
      BY <1>1, <1>2 DEF Verified, App
    <3>2. checks[r].revision <= settings.revision
      BY <3>1 DEF AttestationInv, OrderlyInv, Revisions, Current
    <3>3. settings.revision \in Nat /\ saves[s].revision \in Nat
      BY <1>1 DEF Settings, Save
    <3> QED
      BY <1>2, <1>4, <3>1, <3>2, <3>3
  <2>2. Label' = Promise!Bare
    BY <2>1 DEF Worn, Promise!Bare
  <2>3. Kept' = Kept
    BY <1>2 DEF Kept, Live
  <2>4. Promise!Connect(saves[s].url) /\ saves[s].url \in Deployments \cup {None}
    BY <1>1, <1>2, <2>2, <2>3 DEF Promise!Connect, Save
  <2> QED
    BY <2>4
<1> QED
  BY <1>3, <1>4

(* Every step of the gate is a step of Attestation or none at all.         *)
LEMMA StepImplements ==
    ASSUME AttestationInv, AttestationInv', [OrderlyNext]_vars
    PROVE  [Promise!Next]_Promise!record
<1>1. Worn /\ Worn'
  BY LabelNow, LabelThen
<1>2. CASE UNCHANGED <<apps, checks, settings>>
  BY <1>1, <1>2, Invisible
<1>3. CASE AppNext
  BY <1>1, <1>3, CreateImplements, UpdateImplements, DeleteImplements DEF AppNext, Promise!Next
<1>4. CASE RefreshNext
  <2>1. ASSUME NEW h \in Refreshers, Upsert(h) PROVE Promise!Next
    BY <1>1, <2>1, RecordImplements DEF Promise!Next
  <2> QED
    BY <1>2, <1>4, <2>1 DEF RefreshNext, ReadSettings, ReadState, ReadContent, FetchReview,
       CheckBinding, LoseRefresh
<1>5. ASSUME NEW s \in Savers, SaveNext(s) PROVE [Promise!Next]_Promise!record
  <2>1. CASE WriteRow(s)
    BY <1>1, <2>1, WriteImplements DEF Promise!Next
  <2> QED
    BY <1>2, <1>5, <2>1 DEF SaveNext, StartSaves, StartSave, ReadRow, LoseSave
<1>6. CASE RemoteNext
  BY <1>2, <1>6 DEF RemoteNext, PasteBinding, Rule
<1> QED
  BY <1>2, <1>3, <1>4, <1>5, <1>6 DEF OrderlyNext, vars

(* The gate starts without labels.                                         *)
LEMMA InitialLabels ==
    ASSUME Init
    PROVE  AttestationInv /\ Promise!Init
<1>1. AttestationInv
  BY InitialSecurity DEF Init, AttestationInv, OrderlyInv, OneSave, CredentialStaysHome, SavesFit,
     Revisions, NoSave, NoConnection, NoCheck, NoRefresh, Attested, Filled, OwnChallenge, Live
<1>2. Promise!Init
  <2>1. \A a \in Apps : ~Live(a)
    BY DEF Init, Live
  <2>2. Kept = Promise!Bare /\ Label = Promise!Bare
    BY <2>1 DEF Kept, Label, Verified, Promise!Bare
  <2> QED
    BY <2>2 DEF Init, NoConnection, Promise!Init
<1> QED
  BY <1>1, <1>2

(* The settings, the challenge and the content are read one by one, SecCheck*)
(* is asked and the answer recorded, while owners edit and an administrator *)
(* moves to another SecCheck: a label still appears in one step, for what   *)
(* the app holds and the settings point to at that moment, stays through    *)
(* edits that change nothing, and is gone with the next that do, with the   *)
(* next deployment or with the app.                                         *)
THEOREM GateKeepsPromise == OrderlySpec => AttestationKept
<1>1. Init => AttestationInv /\ Promise!Init
  BY InitialLabels
<1>2. AttestationInv /\ [OrderlyNext]_vars => AttestationInv'
  BY AttestationStep
<1>3. AttestationInv /\ AttestationInv' /\ [OrderlyNext]_vars => [Promise!Next]_Promise!record
  BY StepImplements
<1> QED
  BY <1>1, <1>2, <1>3, PTL DEF OrderlySpec, AttestationKept, Promise!Spec
=============================================================================
