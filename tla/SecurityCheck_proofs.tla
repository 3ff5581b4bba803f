------------------------ MODULE SecurityCheck_proofs ------------------------
(***************************************************************************)
(* Theorems about SecurityCheck, for any number of apps, reviews,          *)
(* deployments, keys, refreshes and saves, and without the bounds on       *)
(* rotations and revisions playing a part.                                 *)
(***************************************************************************)
EXTENDS SecurityCheck, TLAPS

(* A refresh in flight is about an app that has existed.                   *)
Named ==
    \A h \in Refreshers : refreshes[h].pc # "idle" =>
        refreshes[h].app \in Apps /\ apps[refreshes[h].app].state # "none"

SecurityInv == TypeOK /\ Named

(* The empty tables satisfy the typing invariant.                          *)
LEMMA InitialSecurity == Init => SecurityInv
BY SecurityAssumption DEF Init, SecurityInv, TypeOK, Named, App, NoCheck, Check, NoConnection,
   Settings, Remote, NoRefresh, Refresh, NoSave, Save, Verdicts

-----------------------------------------------------------------------------
(* Types, actor by actor.                                                  *)

(* What owners and administrators do to apps preserves the invariant.      *)
LEMMA AppTypes ==
    ASSUME SecurityInv, AppNext \/ AdminAppNext
    PROVE  SecurityInv'
<1> USE DEF SecurityInv, TypeOK
<1>1. ASSUME NEW a \in Apps, NEW c \in Contents, CreateApp(a, c) PROVE SecurityInv'
  BY <1>1 DEF CreateApp, App, Named
<1>2. ASSUME NEW a \in Apps, NEW c \in Contents, UpdateApp(a, c) PROVE SecurityInv'
  <2> DEFINE row == [apps[a] EXCEPT !.content = c, !.nonce = @ + 1, !.attached = None]
  <2>1. apps[a] \in App /\ row \in App /\ row.state = apps[a].state
    <3>1. apps[a] \in App
      OBVIOUS
    <3>2. apps[a].nonce + 1 \in Nat
      BY <3>1 DEF App
    <3> QED
      BY <3>1, <3>2 DEF App
  <2>2. CASE c = apps[a].content
    BY <1>2, <2>2 DEF UpdateApp, Named
  <2>3. CASE c # apps[a].content
    <3>1. apps' = [apps EXCEPT ![a].content = c, ![a].nonce = @ + 1, ![a].attached = None]
      BY <1>2, <2>3 DEF UpdateApp
    <3>2. apps' = [apps EXCEPT ![a] = row]
      BY <2>1, <3>1 DEF App
    <3> QED
      BY <1>2, <2>1, <3>2 DEF UpdateApp, Named
  <2> QED
    BY <2>2, <2>3
<1>3. ASSUME NEW a \in Apps, NEW c \in Contents, AdminUpdateApp(a, c) PROVE SecurityInv'
  BY <1>3 DEF AdminUpdateApp, App, Named
<1>4. ASSUME NEW a \in Apps, DeleteApp(a) PROVE SecurityInv'
  <2> DEFINE row == [apps[a] EXCEPT !.state = "deleted", !.attached = None]
  <2>1. row \in App /\ row.state # "none"
    BY DEF App
  <2>2. apps' = [apps EXCEPT ![a] = row]
    BY <1>4 DEF DeleteApp
  <2>3. checks' \in [RemoteIds -> Check]
    BY <1>4 DEF DeleteApp, Check
  <2> QED
    BY <1>4, <2>1, <2>2, <2>3 DEF DeleteApp, Named
<1> QED
  BY <1>1, <1>2, <1>3, <1>4 DEF AppNext, AdminAppNext

(* What happens inside SecCheck preserves the invariant.                   *)
LEMMA RemoteTypes ==
    ASSUME SecurityInv, RemoteNext
    PROVE  SecurityInv'
<1> USE DEF SecurityInv, TypeOK
<1>1. ASSUME NEW r \in RemoteIds, NEW a \in Apps, PasteBinding(r, a) PROVE SecurityInv'
  <2>1. Challenge(a) \in Challenges /\ apps[a].content \in Contents \cup {None}
    BY DEF Challenge, Challenges, App
  <2> QED
    BY <1>1, <2>1 DEF PasteBinding, Remote, Named
<1>2. ASSUME NEW r \in RemoteIds, NEW v \in Verdicts, Rule(r, v) PROVE SecurityInv'
  BY <1>2 DEF Rule, Remote, Named
<1> QED
  BY <1>1, <1>2 DEF RemoteNext

(* Saving the settings preserves the invariant.                            *)
LEMMA SaveTypes ==
    ASSUME SecurityInv, NEW s \in Savers, SaveNext(s)
    PROVE  SecurityInv'
<1> USE DEF SecurityInv, TypeOK
<1>1. ASSUME NEW url \in Deployments \cup {None}, NEW key \in Keys \cup {None},
             StartSave(s, url, key)
      PROVE  SecurityInv'
  BY <1>1 DEF StartSave, Save, Named
<1>2. CASE ReadRow(s)
  BY <1>2 DEF ReadRow, Save, Settings, Named
<1>3. CASE WriteRow(s)
  BY <1>3 DEF WriteRow, StopSave, NoSave, Save, Settings, Named
<1>4. CASE LoseSave(s)
  BY <1>4 DEF LoseSave, StopSave, NoSave, Save, Named
<1> QED
  BY <1>1, <1>2, <1>3, <1>4 DEF SaveNext, StartSaves

(* Ending a refresh keeps the refreshes typed.                             *)
LEMMA StopRefreshTypes ==
    ASSUME SecurityInv, NEW h \in Refreshers, StopRefresh(h)
    PROVE  /\ refreshes' \in [Refreshers -> Refresh]
           /\ refreshes'[h].pc = "idle"
           /\ \A g \in Refreshers \ {h} : refreshes'[g] = refreshes[g]
BY DEF SecurityInv, TypeOK, StopRefresh, NoRefresh, Refresh, NoConnection, Settings, Verdicts

(* The row a refresh writes has the type of the table.                     *)
LEMMA RowType ==
    ASSUME SecurityInv, NEW h \in Refreshers, refreshes[h].rid \in RemoteIds
    PROVE  /\ Row(h) \in Check
           /\ Row(h).status # "none"
           /\ Row(h).status = RecordedStatus(refreshes[h].verdict)
<1>1. refreshes[h] \in Refresh /\ checks[refreshes[h].rid] \in Check
  BY DEF SecurityInv, TypeOK
<1>2. RecordedStatus(refreshes[h].verdict) \in {"open", "approved", "closed"}
  BY <1>1 DEF RecordedStatus, Refresh, Verdicts
<1> QED
  BY <1>1, <1>2 DEF Row, Check, Refresh, Settings

(* Every step of a refresh preserves the invariant.                        *)
LEMMA RefreshTypes ==
    ASSUME SecurityInv, RefreshNext
    PROVE  SecurityInv'
<1> USE DEF SecurityInv, TypeOK
<1>1. PICK h \in Refreshers :
        \/ \E a \in Apps, r \in RemoteIds \cup {None} : ReadSettings(h, a, r)
        \/ ReadState(h) \/ ReadContent(h) \/ FetchReview(h)
        \/ CheckBinding(h) \/ Upsert(h) \/ LoseRefresh(h)
  BY DEF RefreshNext
<1>2. CASE StopRefresh(h) /\ UNCHANGED <<apps, checks, settings, remote, saves>>
  BY <1>2, StopRefreshTypes DEF Named
<1>3. ASSUME NEW a \in Apps, NEW r \in RemoteIds \cup {None}, ReadSettings(h, a, r)
      PROVE  SecurityInv'
  <2> DEFINE new == [NoRefresh EXCEPT !.pc = "state", !.app = a, !.rid = r, !.conn = settings]
  <2>1. new \in Refresh /\ new.app = a
    BY DEF NoRefresh, Refresh, Verdicts
  <2>2. refreshes' = [refreshes EXCEPT ![h] = new]
    BY <1>3 DEF ReadSettings
  <2> QED
    BY <1>3, <2>1, <2>2 DEF ReadSettings, Live, Named
<1>4. CASE ReadState(h)
  <2>1. refreshes[h].app \in Apps
    BY <1>4 DEF ReadState, Named
  <2>2. Challenge(refreshes[h].app) \in Challenges
    BY <2>1 DEF Challenge, Challenges, App
  <2>3. CASE StopRefresh(h)
    BY <1>2, <1>4, <2>3 DEF ReadState
  <2>4. CASE ~StopRefresh(h)
    <3>1. apps[refreshes[h].app].attached \in RemoteIds \cup {None}
      BY <2>1 DEF App
    <3>2. PICK r \in RemoteIds \cup {None} :
             refreshes' = [refreshes EXCEPT ![h].pc = "content", ![h].rid = r,
                                            ![h].challenge = Challenge(refreshes[h].app)]
      BY <1>4, <2>4, <3>1 DEF ReadState, Refresh
    <3> DEFINE new == [refreshes[h] EXCEPT !.pc = "content", !.rid = r,
                                           !.challenge = Challenge(refreshes[h].app)]
    <3>3. refreshes[h] \in Refresh /\ new \in Refresh /\ new.app = refreshes[h].app
      BY <2>2 DEF Refresh
    <3>4. refreshes' = [refreshes EXCEPT ![h] = new]
      BY <3>2, <3>3 DEF Refresh
    <3> QED
      BY <1>4, <3>3, <3>4 DEF ReadState, Named
  <2> QED
    BY <2>3, <2>4
<1>5. CASE ReadContent(h)
  <2>1. refreshes[h].app \in Apps
    BY <1>5 DEF ReadContent, Named
  <2>2. CASE StopRefresh(h)
    BY <1>2, <1>5, <2>2 DEF ReadContent
  <2>3. CASE ~StopRefresh(h)
    <3>1. apps[refreshes[h].app].content \in Contents \cup {None}
      BY <2>1 DEF App
    <3> DEFINE new == [refreshes[h] EXCEPT !.pc = "fetch",
                                           !.content = apps[refreshes[h].app].content]
    <3>2. refreshes[h] \in Refresh /\ new \in Refresh /\ new.app = refreshes[h].app
      BY <3>1 DEF Refresh
    <3>3. refreshes' = [refreshes EXCEPT ![h] = new]
      BY <1>5, <2>3, <3>2 DEF ReadContent, Refresh
    <3> QED
      BY <1>5, <3>2, <3>3 DEF ReadContent, Named
  <2> QED
    BY <2>2, <2>3
<1>6. CASE FetchReview(h)
  <2>1. CASE StopRefresh(h)
    BY <1>2, <1>6, <2>1 DEF FetchReview
  <2>2. CASE ~StopRefresh(h)
    BY <1>6, <2>2 DEF FetchReview, Refresh, Remote, Named
  <2> QED
    BY <2>1, <2>2
<1>7. CASE CheckBinding(h)
  <2>1. CASE StopRefresh(h)
    BY <1>2, <1>7, <2>1 DEF CheckBinding
  <2>2. CASE ~StopRefresh(h)
    BY <1>7, <2>2 DEF CheckBinding, Refresh, Named
  <2> QED
    BY <2>1, <2>2
<1>8. CASE Upsert(h)
  <2>1. refreshes[h].app \in Apps /\ refreshes[h].rid \in RemoteIds \cup {None}
    BY <1>8 DEF Upsert, Recording, Refresh, Named
  <2>2. apps' \in [Apps -> App] /\ \A a \in Apps : apps'[a].state = apps[a].state
    BY <1>8, <2>1 DEF Upsert, App
  <2>3. checks' \in [RemoteIds -> Check]
    BY <1>8, RowType DEF Upsert
  <2> QED
    BY <1>8, <2>2, <2>3, StopRefreshTypes DEF Upsert, Named
<1>9. CASE LoseRefresh(h)
  BY <1>2, <1>9 DEF LoseRefresh
<1> QED
  BY <1>1, <1>3, <1>4, <1>5, <1>6, <1>7, <1>8, <1>9

(* The typing invariant is inductive.                                      *)
LEMMA SecurityStep ==
    ASSUME SecurityInv, [Next]_vars
    PROVE  SecurityInv'
<1>1. CASE UNCHANGED vars
  BY <1>1 DEF vars, SecurityInv, TypeOK, Named
<1> QED
  BY <1>1, AppTypes, RemoteTypes, RefreshTypes, SaveTypes DEF Next

(* Every variable keeps its type: in particular no verdict but the known   *)
(* ones is ever recorded.                                                  *)
THEOREM SecurityTypes == Spec => []SecurityInv
<1>1. Init => SecurityInv
  BY InitialSecurity
<1>2. SecurityInv /\ [Next]_vars => SecurityInv'
  BY SecurityStep
<1> QED
  BY <1>1, <1>2, PTL DEF Spec

(* What the runs check of the types: a row holds only verdicts, challenges    *)
(* and addresses there are, whatever SecCheck answers and however saves and   *)
(* refreshes interleave. *)
THEOREM TypesHold == Spec => []TypeOK
<1>1. SecurityInv => TypeOK
  BY DEF SecurityInv
<1> QED
  BY <1>1, SecurityTypes, PTL

-----------------------------------------------------------------------------
(* A label comes from the app's own review.                                *)

(* The review a recording transaction has found free is still free, or     *)
(* already its app's, and the challenge it compared is its app's.          *)
FoundFree ==
    \A h \in Refreshers : Recording(h) =>
        /\ \E n \in Nat : refreshes[h].challenge = <<refreshes[h].app, n>>
        /\ refreshes[h].rid \in RemoteIds =>
              \/ checks[refreshes[h].rid].status = "none"
              \/ checks[refreshes[h].rid].app = refreshes[h].app

(* Row r holds a challenge of the app it names, or of one that is gone.    *)
Own(r) ==
    \E a \in Apps, n \in Nat :
        /\ checks[r].challenge = <<a, n>>
        /\ checks[r].app = a \/ apps[a].state = "deleted"

OwnRows == \A r \in RemoteIds : checks[r].status # "none" => Own(r)

SerialInv == SecurityInv /\ OneRecording /\ FoundFree /\ OwnRows

(* A refresh is recording because it was, or by CheckBinding.              *)
LEMMA RecordingChange ==
    ASSUME SecurityInv, [Next]_vars, NEW h \in Refreshers, Recording(h)'
    PROVE  \/ Recording(h) /\ refreshes'[h] = refreshes[h]
           \/ /\ CheckBinding(h)
              /\ refreshes' = [refreshes EXCEPT ![h].pc = "upsert"]
<1>1. refreshes \in [Refreshers -> Refresh]
  BY DEF SecurityInv, TypeOK
<1>2. CASE refreshes'[h] = refreshes[h]
  BY <1>2 DEF Recording
<1>3. ASSUME NEW g \in Refreshers, StopRefresh(g) PROVE refreshes'[h] = refreshes[h]
  BY <1>3, StopRefreshTypes DEF Recording
<1>4. ASSUME NEW g \in Refreshers, NEW a \in Apps, NEW r \in RemoteIds \cup {None},
             ReadSettings(g, a, r)
      PROVE  refreshes'[h] = refreshes[h]
  BY <1>1, <1>4 DEF ReadSettings, NoRefresh, Recording
<1>5. ASSUME NEW g \in Refreshers, ReadState(g) PROVE refreshes'[h] = refreshes[h]
  <2>1. CASE StopRefresh(g)
    BY <1>3, <2>1
  <2>2. CASE ~StopRefresh(g)
    <3>1. PICK r : refreshes' = [refreshes EXCEPT ![g].pc = "content", ![g].rid = r,
                                              ![g].challenge = Challenge(refreshes[g].app)]
      BY <1>5, <2>2 DEF ReadState
    <3> QED
      BY <1>1, <3>1 DEF Refresh, Recording
  <2> QED
    BY <2>1, <2>2
<1>6. ASSUME NEW g \in Refreshers, ReadContent(g) PROVE refreshes'[h] = refreshes[h]
  <2>1. CASE StopRefresh(g)
    BY <1>3, <2>1
  <2>2. CASE ~StopRefresh(g)
    <3>1. refreshes' = [refreshes EXCEPT ![g].pc = "fetch",
                                         ![g].content = apps[refreshes[g].app].content]
      BY <1>6, <2>2 DEF ReadContent
    <3> QED
      BY <1>1, <3>1 DEF Refresh, Recording
  <2> QED
    BY <2>1, <2>2
<1>7. ASSUME NEW g \in Refreshers, FetchReview(g) PROVE refreshes'[h] = refreshes[h]
  <2>1. CASE StopRefresh(g)
    BY <1>3, <2>1
  <2>2. CASE ~StopRefresh(g)
    BY <1>1, <1>7, <2>2 DEF FetchReview, Refresh, Recording
  <2> QED
    BY <2>1, <2>2
<1>8. ASSUME NEW g \in Refreshers, CheckBinding(g)
      PROVE  \/ refreshes'[h] = refreshes[h]
             \/ g = h /\ refreshes' = [refreshes EXCEPT ![h].pc = "upsert"]
  <2>1. CASE StopRefresh(g)
    BY <1>3, <2>1
  <2>2. CASE ~StopRefresh(g)
    BY <1>1, <1>8, <2>2 DEF CheckBinding, Refresh
  <2> QED
    BY <2>1, <2>2
<1>9. CASE RefreshNext
  BY <1>2, <1>3, <1>4, <1>5, <1>6, <1>7, <1>8, <1>9 DEF RefreshNext, Upsert, LoseRefresh
<1>10. CASE AppNext \/ AdminAppNext \/ RemoteNext \/ UNCHANGED vars
  BY <1>2, <1>10 DEF AppNext, AdminAppNext, CreateApp, UpdateApp, AdminUpdateApp, DeleteApp,
     RemoteNext, PasteBinding, Rule, vars
<1>11. CASE \E s \in Savers : SaveNext(s)
  BY <1>2, <1>11 DEF SaveNext, StartSaves, StartSave, ReadRow, WriteRow, LoseSave
<1> QED
  BY <1>9, <1>10, <1>11 DEF Next

(* An app that is gone stays gone.                                         *)
LEMMA GoneForGood ==
    ASSUME SecurityInv, [Next]_vars, NEW a \in Apps, apps[a].state = "deleted"
    PROVE  apps'[a].state = "deleted"
<1>1. apps \in [Apps -> App] /\ refreshes \in [Refreshers -> Refresh]
  BY DEF SecurityInv, TypeOK
<1>2. ASSUME NEW b \in Apps, NEW c \in Contents,
             CreateApp(b, c) \/ UpdateApp(b, c) \/ AdminUpdateApp(b, c)
      PROVE  apps'[a] = apps[a]
  BY <1>1, <1>2 DEF CreateApp, UpdateApp, AdminUpdateApp, Live
<1>3. ASSUME NEW b \in Apps, DeleteApp(b) PROVE apps'[a] = apps[a]
  BY <1>1, <1>3 DEF DeleteApp, Live
<1>4. ASSUME NEW h \in Refreshers, Upsert(h) PROVE apps'[a].state = "deleted"
  BY <1>1, <1>4 DEF Upsert, App
<1>5. CASE AppNext \/ AdminAppNext
  BY <1>2, <1>3, <1>5 DEF AppNext, AdminAppNext
<1>6. CASE RefreshNext
  BY <1>4, <1>6 DEF RefreshNext, ReadSettings, ReadState, ReadContent, FetchReview,
     CheckBinding, LoseRefresh
<1>7. CASE RemoteNext \/ (\E s \in Savers : SaveNext(s)) \/ UNCHANGED vars
  BY <1>7 DEF RemoteNext, PasteBinding, Rule, SaveNext, StartSaves, StartSave, ReadRow,
     WriteRow, LoseSave, vars
<1> QED
  BY <1>5, <1>6, <1>7 DEF Next

(* What a step does to a row's app and challenge: nothing, forget an app   *)
(* that goes, or record.                                                   *)
LEMMA RowChange ==
    ASSUME SecurityInv, [Next]_vars, NEW r \in RemoteIds
    PROVE  \/ checks'[r] = checks[r]
           \/ \E a \in Apps : /\ DeleteApp(a)
                              /\ checks[r].app = a
                              /\ checks'[r] = [checks[r] EXCEPT !.app = None]
           \/ \E h \in Refreshers : /\ Upsert(h)
                                    /\ refreshes[h].rid = r
                                    /\ checks'[r] = Row(h)
<1>1. checks \in [RemoteIds -> Check]
  BY DEF SecurityInv, TypeOK
<1>2. CASE UNCHANGED checks
  BY <1>2
<1>3. ASSUME NEW a \in Apps, DeleteApp(a)
      PROVE  \/ checks'[r] = checks[r]
             \/ checks[r].app = a /\ checks'[r] = [checks[r] EXCEPT !.app = None]
  BY <1>1, <1>3 DEF DeleteApp
<1>4. ASSUME NEW h \in Refreshers, Upsert(h)
      PROVE  \/ checks'[r] = checks[r]
             \/ refreshes[h].rid = r /\ checks'[r] = Row(h)
  BY <1>1, <1>4 DEF Upsert
<1>5. CASE AppNext \/ AdminAppNext
  BY <1>2, <1>3, <1>5 DEF AppNext, AdminAppNext, CreateApp, UpdateApp, AdminUpdateApp
<1>6. CASE RefreshNext
  BY <1>2, <1>4, <1>6 DEF RefreshNext, ReadSettings, ReadState, ReadContent, FetchReview,
     CheckBinding, LoseRefresh
<1>7. CASE RemoteNext \/ (\E s \in Savers : SaveNext(s)) \/ UNCHANGED vars
  BY <1>2, <1>7 DEF RemoteNext, PasteBinding, Rule, SaveNext, StartSaves, StartSave, ReadRow,
     WriteRow, LoseSave, vars
<1> QED
  BY <1>5, <1>6, <1>7 DEF Next

(* While recordings of one review take turns, what a recording has found   *)
(* free stays free, and every row stays its app's.                         *)
LEMMA SerialStep ==
    ASSUME SerialInv, [SerialNext]_vars
    PROVE  SerialInv'
<1> USE DEF SerialInv
<1>1. [Next]_vars /\ SecurityInv'
  BY SecurityStep DEF SerialNext
<1>2. checks \in [RemoteIds -> Check] /\ refreshes \in [Refreshers -> Refresh]
  BY DEF SecurityInv, TypeOK
<1>3. OneRecording'
  BY DEF SerialNext, OneRecording, Recording, vars
<1>4. FoundFree'
  <2> SUFFICES ASSUME NEW h \in Refreshers, Recording(h)'
               PROVE  /\ \E n \in Nat : refreshes'[h].challenge = <<refreshes'[h].app, n>>
                      /\ refreshes'[h].rid \in RemoteIds =>
                            \/ checks'[refreshes'[h].rid].status = "none"
                            \/ checks'[refreshes'[h].rid].app = refreshes'[h].app
    BY DEF FoundFree
  <2>1. CASE CheckBinding(h) /\ refreshes' = [refreshes EXCEPT ![h].pc = "upsert"]
    <3>1. /\ refreshes'[h].challenge = refreshes[h].challenge
          /\ refreshes'[h].app = refreshes[h].app
          /\ refreshes'[h].rid = refreshes[h].rid
          /\ UNCHANGED checks
      BY <1>2, <2>1 DEF CheckBinding, Refresh
    <3>2. /\ refreshes[h].challenge = Challenge(refreshes[h].app)
          /\ \/ checks[refreshes[h].rid].status = "none"
             \/ checks[refreshes[h].rid].app = refreshes[h].app
      <4>1. ~StopRefresh(h)
        BY <1>2, <2>1 DEF StopRefresh, NoRefresh, Refresh
      <4> QED
        BY <2>1, <4>1 DEF CheckBinding
    <3>3. refreshes[h].app \in Apps
      BY <2>1 DEF CheckBinding, SecurityInv, Named
    <3>4. apps[refreshes[h].app].nonce \in Nat
      BY <3>3 DEF SecurityInv, TypeOK, App
    <3> QED
      BY <3>1, <3>2, <3>4 DEF Challenge
  <2>2. CASE Recording(h) /\ refreshes'[h] = refreshes[h]
    <3> SUFFICES ASSUME refreshes[h].rid \in RemoteIds
                 PROVE  \/ checks'[refreshes[h].rid].status = "none"
                        \/ checks'[refreshes[h].rid].app = refreshes[h].app
      BY <2>2 DEF FoundFree
    <3>1. PICK r \in RemoteIds : r = refreshes[h].rid
      OBVIOUS
    <3>2. checks[r].status = "none" \/ checks[r].app = refreshes[h].app
      BY <2>2, <3>1 DEF FoundFree
    <3>3. ASSUME NEW a \in Apps, DeleteApp(a), checks[r].app = a,
                 checks'[r] = [checks[r] EXCEPT !.app = None]
          PROVE  checks'[r].status = "none" \/ checks'[r].app = refreshes[h].app
      <4>1. refreshes[h].app # a
        BY <2>2, <3>3 DEF DeleteApp, AppLocked
      <4> QED
        BY <1>2, <3>2, <3>3, <4>1 DEF Check
    <3>4. ASSUME NEW g \in Refreshers, Upsert(g), refreshes[g].rid = r
          PROVE  FALSE
      <4>1. g = h
        BY <2>2, <3>1, <3>4 DEF OneRecording, Upsert
      <4>2. refreshes'[h].pc = "idle"
        BY <3>4, <4>1, StopRefreshTypes DEF Upsert
      <4> QED
        BY <2>2, <4>2 DEF Recording
    <3> QED
      BY <1>1, <3>1, <3>2, <3>3, <3>4, RowChange
  <2> QED
    BY <1>1, <2>1, <2>2, RecordingChange
<1>5. OwnRows'
  <2> SUFFICES ASSUME NEW r \in RemoteIds, checks'[r].status # "none"
               PROVE  \E a \in Apps, n \in Nat :
                         /\ checks'[r].challenge = <<a, n>>
                         /\ checks'[r].app = a \/ apps'[a].state = "deleted"
    BY DEF OwnRows, Own
  <2>1. CASE checks'[r] = checks[r]
    <3>1. PICK a \in Apps, n \in Nat :
             /\ checks[r].challenge = <<a, n>>
             /\ checks[r].app = a \/ apps[a].state = "deleted"
      BY <2>1 DEF OwnRows, Own
    <3> QED
      BY <1>1, <2>1, <3>1, GoneForGood
  <2>2. ASSUME NEW b \in Apps, DeleteApp(b), checks[r].app = b,
               checks'[r] = [checks[r] EXCEPT !.app = None]
        PROVE  \E a \in Apps, n \in Nat :
                  /\ checks'[r].challenge = <<a, n>>
                  /\ checks'[r].app = a \/ apps'[a].state = "deleted"
    <3>1. checks'[r].challenge = checks[r].challenge /\ checks'[r].status = checks[r].status
      BY <1>2, <2>2 DEF Check
    <3>2. PICK a \in Apps, n \in Nat :
             /\ checks[r].challenge = <<a, n>>
             /\ checks[r].app = a \/ apps[a].state = "deleted"
      BY <3>1 DEF OwnRows, Own
    <3>3. apps'[b].state = "deleted"
      BY <2>2 DEF DeleteApp, SecurityInv, TypeOK, App
    <3> QED
      BY <1>1, <2>2, <3>1, <3>2, <3>3, GoneForGood
  <2>3. ASSUME NEW h \in Refreshers, Upsert(h), refreshes[h].rid = r, checks'[r] = Row(h)
        PROVE  \E a \in Apps, n \in Nat :
                  /\ checks'[r].challenge = <<a, n>>
                  /\ checks'[r].app = a \/ apps'[a].state = "deleted"
    <3>1. Recording(h) /\ refreshes[h].app \in Apps
      BY <2>3 DEF Upsert, Recording, SecurityInv, Named
    <3>2. PICK n \in Nat : refreshes[h].challenge = <<refreshes[h].app, n>>
      BY <3>1 DEF FoundFree
    <3>3. Row(h).app = refreshes[h].app /\ Row(h).challenge = refreshes[h].challenge
      BY <2>3, <3>1 DEF FoundFree, Row
    <3> QED
      BY <2>3, <3>1, <3>2, <3>3
  <2> QED
    BY <1>1, <2>1, <2>2, <2>3, RowChange
<1> QED
  BY <1>1, <1>3, <1>4, <1>5

(* As long as the answers of one review are recorded one after the other,  *)
(* an app wears the label of a review recorded for it and no other's,      *)
(* whatever refreshes read before, whoever edits or deletes the apps, and  *)
(* however the settings are saved.                                         *)
THEOREM LabelsAreOnesOwn == SerialSpec => []LabelOfOwnReview
<1>1. Init => SerialInv
  BY InitialSecurity DEF Init, SerialInv, OneRecording, FoundFree, OwnRows, Recording,
     NoCheck, NoRefresh
<1>2. SerialInv /\ [SerialNext]_vars => SerialInv'
  BY SerialStep
<1>3. SerialInv => LabelOfOwnReview
  <2> SUFFICES ASSUME SerialInv, NEW a \in Apps, Verified(a)
               PROVE  checks[apps[a].attached].app = a
    BY DEF LabelOfOwnReview
  <2>1. PICK r \in RemoteIds : r = apps[a].attached
    BY DEF Verified, SerialInv, SecurityInv, TypeOK, App
  <2>2. Own(r) /\ checks[r].challenge = <<a, apps[a].nonce>> /\ apps[a].state = "live"
    BY <2>1 DEF Verified, SerialInv, OwnRows, Challenge, Live
  <2> QED
    BY <2>1, <2>2 DEF Own
<1> QED
  BY <1>1, <1>2, <1>3, PTL DEF SerialSpec

-----------------------------------------------------------------------------
(* A label is worn by the content that earned it.                          *)

(* Challenge number n of app a attests content c: it was given out before  *)
(* now, and if it is still the app's challenge then c is its content.      *)
Attests(challenge, c) ==
    \E a \in Apps, n \in Nat :
        /\ challenge = <<a, n>>
        /\ apps[a].state # "none"
        /\ n <= apps[a].nonce
        /\ Live(a) /\ n = apps[a].nonce => c = apps[a].content

(* Between reading the challenge and the content a refresh only knows that *)
(* its challenge is its app's and not a future one.                        *)
Challenged(h) ==
    \E n \in Nat :
        /\ refreshes[h].challenge = <<refreshes[h].app, n>>
        /\ n <= apps[refreshes[h].app].nonce

Attested ==
    /\ \A r \in RemoteIds : checks[r].status # "none" =>
          Attests(checks[r].challenge, checks[r].content)
    /\ \A h \in Refreshers : refreshes[h].pc \in {"fetch", "bind", "upsert"} =>
          Attests(refreshes[h].challenge, refreshes[h].content)
    /\ \A h \in Refreshers : refreshes[h].pc = "content" => Challenged(h)

LabelInv == SecurityInv /\ Attested

(* What a step of OwnersNext may do to an app: register it, give it a new  *)
(* challenge, delete it, or neither touch challenge nor content.           *)
AppChange(a) ==
    \/ apps[a].state = "none" /\ apps'[a].state = "live"
    \/ /\ apps'[a].state = apps[a].state
       /\ apps'[a].nonce = apps[a].nonce + 1
    \/ /\ apps[a].state # "none" /\ apps'[a].state = "deleted"
       /\ apps'[a].nonce = apps[a].nonce
    \/ /\ apps'[a].state = apps[a].state
       /\ apps'[a].nonce = apps[a].nonce
       /\ apps'[a].content = apps[a].content

(* A step creates an app, rotates its challenge, deletes it, or leaves it be.*)
LEMMA AppChanges ==
    ASSUME SecurityInv, [OwnersNext]_vars, NEW a \in Apps
    PROVE  AppChange(a)
<1> USE DEF AppChange
<1>1. apps \in [Apps -> App] /\ refreshes \in [Refreshers -> Refresh]
  BY DEF SecurityInv, TypeOK
<1>2. CASE UNCHANGED apps
  BY <1>2
<1>3. ASSUME NEW b \in Apps, NEW c \in Contents, CreateApp(b, c) PROVE AppChange(a)
  BY <1>1, <1>3 DEF CreateApp
<1>4. ASSUME NEW b \in Apps, NEW c \in Contents, UpdateApp(b, c) PROVE AppChange(a)
  <2>1. CASE c # apps[b].content
    <3>1. apps' = [apps EXCEPT ![b].content = c, ![b].nonce = @ + 1, ![b].attached = None]
      BY <1>4, <2>1 DEF UpdateApp
    <3> QED
      BY <1>1, <3>1 DEF App
  <2>2. CASE c = apps[b].content
    BY <1>2, <1>4, <2>2 DEF UpdateApp
  <2> QED
    BY <2>1, <2>2
<1>5. ASSUME NEW b \in Apps, DeleteApp(b) PROVE AppChange(a)
  BY <1>1, <1>5 DEF DeleteApp, Live, App
<1>6. ASSUME NEW h \in Refreshers, Upsert(h) PROVE AppChange(a)
  BY <1>1, <1>6 DEF Upsert, App
<1>7. CASE AppNext
  BY <1>3, <1>4, <1>5, <1>7 DEF AppNext
<1>8. CASE RefreshNext
  BY <1>2, <1>6, <1>8 DEF RefreshNext, ReadSettings, ReadState, ReadContent, FetchReview,
     CheckBinding, LoseRefresh
<1>9. CASE RemoteNext \/ \E s \in Savers : SaveNext(s)
  BY <1>2, <1>9 DEF RemoteNext, PasteBinding, Rule, SaveNext, StartSaves, StartSave, ReadRow,
     WriteRow, LoseSave
<1> QED
  BY <1>2, <1>7, <1>8, <1>9 DEF OwnersNext, vars

(* An attestation outlives every step: new content comes with a new        *)
(* challenge.                                                              *)
LEMMA AttestationStays ==
    ASSUME SecurityInv, [OwnersNext]_vars, NEW challenge, NEW c, Attests(challenge, c)
    PROVE  \E a \in Apps, n \in Nat :
              /\ challenge = <<a, n>>
              /\ apps'[a].state # "none"
              /\ n <= apps'[a].nonce
              /\ apps'[a].state = "live" /\ n = apps'[a].nonce => c = apps'[a].content
<1>1. PICK a \in Apps, n \in Nat :
         /\ challenge = <<a, n>>
         /\ apps[a].state # "none"
         /\ n <= apps[a].nonce
         /\ Live(a) /\ n = apps[a].nonce => c = apps[a].content
  BY DEF Attests
<1>2. AppChange(a) /\ apps[a].nonce \in Nat
  BY AppChanges DEF SecurityInv, TypeOK, App
<1> QED
  BY <1>1, <1>2 DEF AppChange, Live

(* What a step does to a recorded check: keep what it says of challenge    *)
(* and content, or record a refresh.                                       *)
LEMMA CheckChange ==
    ASSUME SecurityInv, [Next]_vars, NEW r \in RemoteIds
    PROVE  \/ \E x : checks'[r] = [checks[r] EXCEPT !.app = x]
           \/ \E h \in Refreshers : /\ refreshes[h].pc = "upsert"
                                    /\ refreshes[h].rid = r
                                    /\ checks'[r] = Row(h)
                                    /\ UNCHANGED settings
<1>1. checks \in [RemoteIds -> Check]
  BY DEF SecurityInv, TypeOK
<1>2. checks[r] = [checks[r] EXCEPT !.app = checks[r].app]
  BY <1>1 DEF Check
<1>3. CASE UNCHANGED checks
  BY <1>2, <1>3
<1>4. ASSUME NEW a \in Apps, DeleteApp(a)
      PROVE  \E x : checks'[r] = [checks[r] EXCEPT !.app = x]
  BY <1>1, <1>2, <1>4 DEF DeleteApp
<1>5. ASSUME NEW h \in Refreshers, Upsert(h)
      PROVE  \/ checks'[r] = checks[r]
             \/ /\ refreshes[h].pc = "upsert"
                /\ refreshes[h].rid = r
                /\ checks'[r] = Row(h)
                /\ UNCHANGED settings
  BY <1>1, <1>5 DEF Upsert, Recording
<1>6. CASE AppNext \/ AdminAppNext
  BY <1>3, <1>4, <1>6 DEF AppNext, AdminAppNext, CreateApp, UpdateApp, AdminUpdateApp
<1>7. CASE RefreshNext
  BY <1>2, <1>3, <1>5, <1>7 DEF RefreshNext, ReadSettings, ReadState, ReadContent, FetchReview,
     CheckBinding, LoseRefresh
<1>8. CASE RemoteNext \/ \E s \in Savers : SaveNext(s)
  BY <1>3, <1>8 DEF RemoteNext, PasteBinding, Rule, SaveNext, StartSaves, StartSave, ReadRow,
     WriteRow, LoseSave
<1> QED
  BY <1>3, <1>6, <1>7, <1>8 DEF Next, vars

(* What a step does to a refresh: end it, move it on without a new reading *)
(* of the app, or read the settings, the challenge or the content.         *)
RefreshChange(h) ==
    \/ refreshes'[h].pc = "idle"
    \/ /\ \/ refreshes'[h].pc = refreshes[h].pc
          \/ refreshes[h].pc \in {"fetch", "bind"} /\ refreshes'[h].pc \in {"bind", "upsert"}
       /\ refreshes'[h].app = refreshes[h].app
       /\ refreshes'[h].challenge = refreshes[h].challenge
       /\ refreshes'[h].content = refreshes[h].content
       /\ refreshes'[h].conn = refreshes[h].conn
    \/ /\ refreshes'[h].pc = "state"
       /\ refreshes'[h].conn = settings
       /\ UNCHANGED settings
    \/ /\ refreshes[h].pc = "state" /\ refreshes'[h].pc = "content"
       /\ refreshes'[h].app = refreshes[h].app
       /\ refreshes'[h].challenge = Challenge(refreshes[h].app)
       /\ refreshes'[h].conn = refreshes[h].conn
       /\ UNCHANGED apps
    \/ /\ refreshes[h].pc = "content" /\ refreshes'[h].pc = "fetch"
       /\ refreshes'[h].app = refreshes[h].app
       /\ refreshes'[h].challenge = refreshes[h].challenge
       /\ refreshes'[h].content = apps[refreshes[h].app].content
       /\ refreshes'[h].conn = refreshes[h].conn
       /\ UNCHANGED apps

(* A refresh ends, stays, or goes one step further with what it has read.  *)
LEMMA RefreshChanges ==
    ASSUME SecurityInv, [Next]_vars, NEW h \in Refreshers
    PROVE  RefreshChange(h)
<1> USE DEF RefreshChange
<1>1. refreshes \in [Refreshers -> Refresh]
  BY DEF SecurityInv, TypeOK
<1>2. CASE refreshes'[h] = refreshes[h]
  BY <1>2
<1>3. ASSUME NEW g \in Refreshers, StopRefresh(g) PROVE RefreshChange(h)
  BY <1>2, <1>3, StopRefreshTypes
<1>4. ASSUME NEW g \in Refreshers, NEW a \in Apps, NEW r \in RemoteIds \cup {None},
             ReadSettings(g, a, r)
      PROVE  RefreshChange(h)
  BY <1>1, <1>2, <1>4 DEF ReadSettings, NoRefresh
<1>5. ASSUME NEW g \in Refreshers, ReadState(g) PROVE RefreshChange(h)
  <2>1. CASE StopRefresh(g)
    BY <1>3, <2>1
  <2>2. CASE ~StopRefresh(g)
    <3>1. PICK r : refreshes' = [refreshes EXCEPT ![g].pc = "content", ![g].rid = r,
                                              ![g].challenge = Challenge(refreshes[g].app)]
      BY <1>5, <2>2 DEF ReadState
    <3>2. UNCHANGED apps /\ refreshes[g].pc = "state"
      BY <1>5 DEF ReadState
    <3> QED
      BY <1>1, <1>2, <3>1, <3>2 DEF Refresh
  <2> QED
    BY <2>1, <2>2
<1>6. ASSUME NEW g \in Refreshers, ReadContent(g) PROVE RefreshChange(h)
  <2>1. CASE StopRefresh(g)
    BY <1>3, <2>1
  <2>2. CASE ~StopRefresh(g)
    <3>1. refreshes' = [refreshes EXCEPT ![g].pc = "fetch",
                                         ![g].content = apps[refreshes[g].app].content]
      BY <1>6, <2>2 DEF ReadContent
    <3>2. UNCHANGED apps /\ refreshes[g].pc = "content"
      BY <1>6 DEF ReadContent
    <3> QED
      BY <1>1, <1>2, <3>1, <3>2 DEF Refresh
  <2> QED
    BY <2>1, <2>2
<1>7. ASSUME NEW g \in Refreshers, FetchReview(g) PROVE RefreshChange(h)
  <2>1. CASE StopRefresh(g)
    BY <1>3, <2>1
  <2>2. CASE ~StopRefresh(g)
    <3>1. PICK v : refreshes' = [refreshes EXCEPT ![g].pc = "bind", ![g].verdict = v]
      BY <1>7, <2>2 DEF FetchReview
    <3>2. refreshes[g].pc = "fetch"
      BY <1>7 DEF FetchReview
    <3> QED
      BY <1>1, <1>2, <3>1, <3>2 DEF Refresh
  <2> QED
    BY <2>1, <2>2
<1>8. ASSUME NEW g \in Refreshers, CheckBinding(g) PROVE RefreshChange(h)
  <2>1. CASE StopRefresh(g)
    BY <1>3, <2>1
  <2>2. CASE ~StopRefresh(g)
    BY <1>1, <1>2, <1>8, <2>2 DEF CheckBinding, Refresh
  <2> QED
    BY <2>1, <2>2
<1>9. CASE RefreshNext
  BY <1>3, <1>4, <1>5, <1>6, <1>7, <1>8, <1>9 DEF RefreshNext, Upsert, LoseRefresh
<1>10. CASE AppNext \/ AdminAppNext \/ RemoteNext \/ \E s \in Savers : SaveNext(s)
  BY <1>2, <1>10 DEF AppNext, AdminAppNext, CreateApp, UpdateApp, AdminUpdateApp, DeleteApp,
     RemoteNext, PasteBinding, Rule, SaveNext, StartSaves, StartSave, ReadRow, WriteRow, LoseSave
<1>11. CASE UNCHANGED vars
  BY <1>2, <1>11 DEF vars
<1> QED
  BY <1>9, <1>10, <1>11 DEF Next

(* The invariant behind the label is inductive.                            *)
LEMMA AttestedStep ==
    ASSUME LabelInv, [OwnersNext]_vars
    PROVE  Attested'
<1> USE DEF LabelInv
<1>1. [Next]_vars
  BY DEF OwnersNext, Next
<1>2. apps \in [Apps -> App] /\ checks \in [RemoteIds -> Check]
      /\ refreshes \in [Refreshers -> Refresh]
  BY DEF SecurityInv, TypeOK
<1>3. ASSUME NEW r \in RemoteIds, checks'[r].status # "none"
      PROVE  Attests(checks[r].challenge, checks[r].content)'
  <2>1. CASE \E x : checks'[r] = [checks[r] EXCEPT !.app = x]
    <3>1. /\ checks'[r].status = checks[r].status
          /\ checks'[r].challenge = checks[r].challenge
          /\ checks'[r].content = checks[r].content
      BY <1>2, <2>1 DEF Check
    <3>2. Attests(checks[r].challenge, checks[r].content)
      BY <1>3, <3>1 DEF Attested
    <3>3. PICK a \in Apps, n \in Nat :
             /\ checks[r].challenge = <<a, n>>
             /\ apps'[a].state # "none"
             /\ n <= apps'[a].nonce
             /\ apps'[a].state = "live" /\ n = apps'[a].nonce => checks[r].content = apps'[a].content
      BY <3>2, AttestationStays
    <3> QED
      BY <3>1, <3>3 DEF Attests, Live
  <2>2. ASSUME NEW h \in Refreshers, refreshes[h].pc = "upsert", checks'[r] = Row(h)
        PROVE  Attests(checks[r].challenge, checks[r].content)'
    <3>1. /\ checks'[r].challenge = refreshes[h].challenge
          /\ checks'[r].content = refreshes[h].content
      BY <2>2 DEF Row
    <3>2. Attests(refreshes[h].challenge, refreshes[h].content)
      BY <2>2 DEF Attested
    <3>3. PICK a \in Apps, n \in Nat :
             /\ refreshes[h].challenge = <<a, n>>
             /\ apps'[a].state # "none"
             /\ n <= apps'[a].nonce
             /\ apps'[a].state = "live" /\ n = apps'[a].nonce => refreshes[h].content = apps'[a].content
      BY <3>2, AttestationStays
    <3> QED
      BY <3>1, <3>3 DEF Attests, Live
  <2> QED
    BY <1>1, <2>1, <2>2, CheckChange
<1>4. ASSUME NEW h \in Refreshers, refreshes'[h].pc \in {"fetch", "bind", "upsert"}
      PROVE  Attests(refreshes[h].challenge, refreshes[h].content)'
  <2>1. RefreshChange(h)
    BY <1>1, RefreshChanges
  <2>2. CASE /\ refreshes[h].pc \in {"fetch", "bind", "upsert"}
             /\ refreshes'[h].challenge = refreshes[h].challenge
             /\ refreshes'[h].content = refreshes[h].content
    <3>2. Attests(refreshes[h].challenge, refreshes[h].content)
      BY <2>2 DEF Attested
    <3>3. PICK a \in Apps, n \in Nat :
             /\ refreshes[h].challenge = <<a, n>>
             /\ apps'[a].state # "none"
             /\ n <= apps'[a].nonce
             /\ apps'[a].state = "live" /\ n = apps'[a].nonce => refreshes[h].content = apps'[a].content
      BY <3>2, AttestationStays
    <3> QED
      BY <2>2, <3>3 DEF Attests, Live
  <2>3. CASE /\ refreshes[h].pc = "content"
             /\ refreshes'[h].challenge = refreshes[h].challenge
             /\ refreshes'[h].content = apps[refreshes[h].app].content
    <3>1. Challenged(h) /\ refreshes[h].app \in Apps /\ apps[refreshes[h].app].state # "none"
      BY <2>3 DEF Attested, SecurityInv, Named
    <3>2. Attests(refreshes[h].challenge, apps[refreshes[h].app].content)
      BY <3>1 DEF Challenged, Attests
    <3>3. PICK a \in Apps, n \in Nat :
             /\ refreshes[h].challenge = <<a, n>>
             /\ apps'[a].state # "none"
             /\ n <= apps'[a].nonce
             /\ apps'[a].state = "live" /\ n = apps'[a].nonce => apps[refreshes[h].app].content = apps'[a].content
      BY <3>2, AttestationStays
    <3> QED
      BY <2>3, <3>3 DEF Attests, Live
  <2> QED
    BY <1>4, <2>1, <2>2, <2>3 DEF RefreshChange
<1>5. ASSUME NEW h \in Refreshers, refreshes'[h].pc = "content"
      PROVE  Challenged(h)'
  <2>1. RefreshChange(h)
    BY <1>1, RefreshChanges
  <2>2. CASE /\ refreshes[h].pc = "content"
             /\ refreshes'[h].app = refreshes[h].app
             /\ refreshes'[h].challenge = refreshes[h].challenge
    <3>1. Challenged(h) /\ refreshes[h].app \in Apps /\ apps[refreshes[h].app].state # "none"
      BY <2>2 DEF Attested, SecurityInv, Named
    <3>2. AppChange(refreshes[h].app) /\ apps[refreshes[h].app].nonce \in Nat
      BY <1>2, <3>1, AppChanges DEF App
    <3>3. PICK n \in Nat : /\ refreshes[h].challenge = <<refreshes[h].app, n>>
                           /\ n <= apps[refreshes[h].app].nonce
      BY <3>1 DEF Challenged
    <3>4. n <= apps'[refreshes[h].app].nonce
      BY <3>1, <3>2, <3>3 DEF AppChange
    <3> QED
      BY <2>2, <3>3, <3>4 DEF Challenged
  <2>3. CASE /\ refreshes[h].pc = "state"
             /\ refreshes'[h].app = refreshes[h].app
             /\ refreshes'[h].challenge = Challenge(refreshes[h].app)
             /\ UNCHANGED apps
    <3>1. apps[refreshes[h].app].nonce \in Nat
      BY <1>2, <2>3 DEF SecurityInv, Named, App
    <3> QED
      BY <2>3, <3>1 DEF Challenged, Challenge
  <2> QED
    BY <1>5, <2>1, <2>2, <2>3 DEF RefreshChange
<1> QED
  BY <1>3, <1>4, <1>5 DEF Attested

(* As long as only owners edit apps, whatever happens between reading an   *)
(* app and recording what SecCheck said of it, a label is worn by the      *)
(* content that was reviewed.                                              *)
THEOREM LabelsAreEarned == OwnersSpec => []VerifiedContent
<1>1. Init => LabelInv
  BY InitialSecurity DEF Init, LabelInv, Attested, NoCheck, NoRefresh
<1>2. LabelInv /\ [OwnersNext]_vars => LabelInv'
  <2>1. [OwnersNext]_vars => [Next]_vars
    BY DEF OwnersNext, Next
  <2> QED
    BY <2>1, SecurityStep, AttestedStep DEF LabelInv
<1>3. LabelInv => VerifiedContent
  <2> SUFFICES ASSUME LabelInv, NEW a \in Apps, Verified(a)
               PROVE  checks[apps[a].attached].content = apps[a].content
    BY DEF VerifiedContent
  <2> DEFINE r == apps[a].attached
  <2>1. r \in RemoteIds /\ checks[r].status = "approved" /\ checks[r].challenge = Challenge(a)
    BY DEF Verified, LabelInv, SecurityInv, TypeOK, App
  <2>2. Attests(checks[r].challenge, checks[r].content)
    BY <2>1 DEF LabelInv, Attested
  <2> QED
    BY <2>1, <2>2 DEF Attests, Challenge, Verified
<1> QED
  BY <1>1, <1>2, <1>3, PTL DEF OwnersSpec

-----------------------------------------------------------------------------
(* Settings saved one at a time.                                           *)

OneSave ==
    \A s, t \in Savers : saves[s].pc # "idle" /\ saves[t].pc # "idle" => s = t

(* A key sent to an address is a key that address issued.                  *)
Homed(url, key) == url # None /\ key # None => Issuer[key] = url

(* What a save in flight will write is sound for the settings it read.     *)
SavesFit ==
    \A s \in Savers :
        /\ saves[s].pc = "read" =>
              Homed(saves[s].url, IF saves[s].key = None THEN settings.key ELSE saves[s].key)
        /\ saves[s].pc = "write" =>
              /\ Homed(saves[s].url, saves[s].key)
              /\ settings.revision <= saves[s].revision
              /\ saves[s].revision = settings.revision => saves[s].url = settings.url

(* Whatever carries a revision carries an old one, or the address in use.  *)
Current(revision, url) ==
    revision <= settings.revision /\ (revision = settings.revision => url = settings.url)

Revisions ==
    /\ \A r \in RemoteIds : checks[r].status # "none" =>
          Current(checks[r].revision, checks[r].from)
    /\ \A h \in Refreshers : refreshes[h].pc # "idle" =>
          Current(refreshes[h].conn.revision, refreshes[h].conn.url)

OrderlyInv == SecurityInv /\ OneSave /\ CredentialStaysHome /\ SavesFit /\ Revisions

(* One save at a time preserves the orderly invariant.                     *)
LEMMA OrderlySaves ==
    ASSUME OrderlyInv, NEW s \in Savers, SaveNext(s),
           \A t \in Savers \ {s} : saves[t].pc = "idle"
    PROVE  /\ OneSave' /\ CredentialStaysHome' /\ SavesFit'
           /\ settings.revision <= settings'.revision
           /\ settings'.revision = settings.revision => settings'.url = settings.url
           /\ UNCHANGED <<checks, refreshes>>
<1> USE DEF OrderlyInv
<1>1. saves \in [Savers -> Save] /\ saves[s] \in Save /\ settings \in Settings
  BY DEF SecurityInv, TypeOK
<1>2. settings.revision \in Nat /\ saves[s].revision \in Nat
  BY <1>1 DEF Save, Settings
<1>3. UNCHANGED <<checks, refreshes>>
  BY DEF SaveNext, StartSaves, StartSave, ReadRow, WriteRow, LoseSave
<1>4. ASSUME UNCHANGED settings,
             \A t \in Savers \ {s} : saves'[t] = saves[t],
             \/ saves'[s].pc = "idle"
             \/ /\ saves'[s].pc = "read"
                /\ Homed(saves'[s].url,
                         IF saves'[s].key = None THEN settings.key ELSE saves'[s].key)
             \/ /\ saves'[s].pc = "write"
                /\ Homed(saves'[s].url, saves'[s].key)
                /\ settings.revision <= saves'[s].revision
                /\ saves'[s].revision = settings.revision => saves'[s].url = settings.url
      PROVE  /\ OneSave' /\ CredentialStaysHome' /\ SavesFit'
             /\ settings.revision <= settings'.revision
             /\ settings'.revision = settings.revision => settings'.url = settings.url
  <2>1. OneSave'
    BY <1>4 DEF OneSave
  <2>2. CredentialStaysHome'
    BY <1>4 DEF CredentialStaysHome
  <2>3. SavesFit'
    BY <1>4 DEF SavesFit, Homed
  <2> QED
    BY <1>2, <1>4, <2>1, <2>2, <2>3
<1>5. ASSUME NEW url \in Deployments \cup {None}, NEW key \in Keys \cup {None},
             StartSave(s, url, key)
      PROVE  /\ OneSave' /\ CredentialStaysHome' /\ SavesFit'
             /\ settings.revision <= settings'.revision
             /\ settings'.revision = settings.revision => settings'.url = settings.url
  <2> DEFINE typed == IF key = settings.key THEN None ELSE key
  <2>1. saves' = [saves EXCEPT ![s] = [pc |-> "read", url |-> url, revision |-> 0, key |-> typed]]
    BY <1>5 DEF StartSave
  <2>2. saves'[s].pc = "read" /\ saves'[s].url = url /\ saves'[s].key = typed
    BY <1>1, <2>1
  <2>3. Homed(url, IF typed = None THEN settings.key ELSE typed)
    BY <1>5 DEF Homed, StartSave, CredentialStaysHome
  <2>4. \A t \in Savers \ {s} : saves'[t] = saves[t]
    BY <1>1, <2>1
  <2>5. UNCHANGED settings
    BY <1>5 DEF StartSave
  <2> HIDE DEF typed
  <2> QED
    BY <1>4, <2>2, <2>3, <2>4, <2>5
<1>6. CASE ReadRow(s)
  <2> DEFINE key == IF saves[s].key = None THEN settings.key ELSE saves[s].key
             moved == saves[s].url # settings.url \/ saves[s].key # None
             revision == settings.revision + (IF moved THEN 1 ELSE 0)
  <2>1. saves' = [saves EXCEPT ![s] =
                    [pc |-> "write", url |-> saves[s].url, key |-> key, revision |-> revision]]
    BY <1>1, <1>6 DEF ReadRow
  <2>2. /\ saves'[s].pc = "write" /\ saves'[s].url = saves[s].url
        /\ saves'[s].key = key /\ saves'[s].revision = revision
    BY <1>1, <2>1
  <2>3. Homed(saves[s].url, key)
    BY <1>6 DEF ReadRow, SavesFit
  <2>4. /\ settings.revision <= revision
        /\ revision = settings.revision => saves[s].url = settings.url
    <3>1. CASE moved
      BY <1>2, <3>1
    <3>2. CASE ~moved
      BY <1>2, <3>2
    <3> QED
      BY <3>1, <3>2
  <2>5. \A t \in Savers \ {s} : saves'[t] = saves[t]
    BY <1>1, <2>1
  <2>6. UNCHANGED settings
    BY <1>6 DEF ReadRow
  <2> HIDE DEF key, revision
  <2>7. /\ saves'[s].pc = "write"
        /\ Homed(saves'[s].url, saves'[s].key)
        /\ settings.revision <= saves'[s].revision
        /\ saves'[s].revision = settings.revision => saves'[s].url = settings.url
    BY <2>2, <2>3, <2>4
  <2> QED
    BY <1>3, <1>4, <2>5, <2>6, <2>7
<1>7. CASE WriteRow(s)
  <2>1. /\ settings' = [url |-> saves[s].url, key |-> saves[s].key,
                        revision |-> saves[s].revision]
        /\ saves[s].pc = "write"
        /\ saves' = [saves EXCEPT ![s] = NoSave]
    BY <1>7 DEF WriteRow, StopSave
  <2>2. \A t \in Savers : saves'[t].pc = "idle"
    BY <1>1, <2>1 DEF NoSave
  <2>3. OneSave' /\ SavesFit'
    BY <2>2 DEF OneSave, SavesFit
  <2>4. CredentialStaysHome'
    BY <2>1 DEF SavesFit, Homed, CredentialStaysHome
  <2>5. settings'.revision = saves[s].revision /\ settings'.url = saves[s].url
    BY <2>1
  <2>6. /\ settings.revision <= saves[s].revision
        /\ saves[s].revision = settings.revision => saves[s].url = settings.url
    BY <2>1 DEF SavesFit
  <2> QED
    BY <1>3, <2>3, <2>4, <2>5, <2>6
<1>8. CASE LoseSave(s)
  <2>1. saves'[s].pc = "idle" /\ \A t \in Savers \ {s} : saves'[t] = saves[t]
    BY <1>1, <1>8 DEF LoseSave, StopSave, NoSave
  <2> QED
    BY <1>3, <1>4, <1>8, <2>1 DEF LoseSave
<1> QED
  BY <1>3, <1>5, <1>6, <1>7, <1>8 DEF SaveNext, StartSaves

(* The orderly invariant is inductive.                                     *)
LEMMA OrderlyStep ==
    ASSUME OrderlyInv, [OrderlyNext]_vars
    PROVE  OrderlyInv'
<1> USE DEF OrderlyInv
<1>1. [Next]_vars
  BY DEF OrderlyNext, Next
<1>2. SecurityInv'
  BY <1>1, SecurityStep
<1>3. /\ settings.revision \in Nat
      /\ \A r \in RemoteIds : checks[r].revision \in Nat
      /\ \A h \in Refreshers : refreshes[h].conn.revision \in Nat
  BY DEF SecurityInv, TypeOK, Settings, Check, Refresh
<1>4. CASE UNCHANGED <<settings, saves>>
  <2>1. OneSave' /\ CredentialStaysHome' /\ SavesFit'
    BY <1>4 DEF OneSave, CredentialStaysHome, SavesFit, Homed
  <2>2. ASSUME NEW r \in RemoteIds, checks'[r].status # "none"
        PROVE  Current(checks'[r].revision, checks'[r].from)
    <3>1. CASE \E x : checks'[r] = [checks[r] EXCEPT !.app = x]
      <4>1. /\ checks'[r].status = checks[r].status
            /\ checks'[r].revision = checks[r].revision
            /\ checks'[r].from = checks[r].from
        BY <3>1 DEF SecurityInv, TypeOK, Check
      <4> QED
        BY <2>2, <4>1 DEF Revisions
    <3>2. ASSUME NEW h \in Refreshers, refreshes[h].pc = "upsert", checks'[r] = Row(h)
          PROVE  Current(checks'[r].revision, checks'[r].from)
      BY <3>2 DEF Row, Revisions
    <3> QED
      BY <1>1, <3>1, <3>2, CheckChange
  <2>3. ASSUME NEW h \in Refreshers, refreshes'[h].pc # "idle"
        PROVE  Current(refreshes'[h].conn.revision, refreshes'[h].conn.url)
    <3>1. RefreshChange(h)
      BY <1>1, RefreshChanges
    <3>2. CASE refreshes'[h].conn = settings
      BY <1>3, <3>2 DEF Current
    <3>3. CASE refreshes[h].pc # "idle" /\ refreshes'[h].conn = refreshes[h].conn
      BY <3>3 DEF Revisions
    <3> QED
      BY <2>3, <3>1, <3>2, <3>3 DEF RefreshChange
  <2>4. Revisions'
    BY <1>4, <2>2, <2>3 DEF Revisions, Current
  <2> QED
    BY <1>2, <2>1, <2>4
<1>5. ASSUME NEW s \in Savers, SaveNext(s), \A t \in Savers \ {s} : saves[t].pc = "idle"
      PROVE  OrderlyInv'
  <2>1. /\ OneSave' /\ CredentialStaysHome' /\ SavesFit'
        /\ settings.revision <= settings'.revision
        /\ settings'.revision = settings.revision => settings'.url = settings.url
        /\ UNCHANGED <<checks, refreshes>>
    BY <1>5, OrderlySaves
  <2>2. settings'.revision \in Nat
    BY <1>2 DEF SecurityInv, TypeOK, Settings
  <2>3. Revisions'
    BY <1>3, <2>1, <2>2 DEF Revisions, Current
  <2> QED
    BY <1>2, <2>1, <2>3
<1>6. CASE AppNext \/ RemoteNext \/ RefreshNext \/ UNCHANGED vars
  <2>1. UNCHANGED <<settings, saves>>
    BY <1>6 DEF AppNext, CreateApp, UpdateApp, DeleteApp, RemoteNext, PasteBinding, Rule,
       RefreshNext, ReadSettings, ReadState, ReadContent, FetchReview, CheckBinding, Upsert,
       LoseRefresh, vars
  <2> QED
    BY <1>4, <2>1
<1> QED
  BY <1>5, <1>6 DEF OrderlyNext

(* With one administrator saving the settings at a time, typing, the pairing*)
(* of address and key, and the revision that stands for the connection an  *)
(* approval was read from all survive every step.                          *)
THEOREM OrderlyIsSound == OrderlySpec => []OrderlyInv
<1>1. Init => OrderlyInv
  BY InitialSecurity DEF Init, OrderlyInv, OneSave, CredentialStaysHome, SavesFit, Revisions,
     NoSave, NoConnection, NoCheck, NoRefresh
<1>2. OrderlyInv /\ [OrderlyNext]_vars => OrderlyInv'
  BY OrderlyStep
<1> QED
  BY <1>1, <1>2, PTL DEF OrderlySpec

(* One administrator at a time never hands a credential to an address it   *)
(* was not entered for.                                                    *)
THEOREM CredentialsAreSafe == OrderlySpec => []CredentialStaysHome
<1>1. OrderlyInv => CredentialStaysHome
  BY DEF OrderlyInv
<1> QED
  BY <1>1, OrderlyIsSound, PTL

(* Moving to another SecCheck retires every approval read before, the ones *)
(* on their way included.                                                  *)
THEOREM LabelsFollowTheSettings == OrderlySpec => []VerifiedBySecCheckInUse
<1>1. OrderlyInv => VerifiedBySecCheckInUse
  <2> SUFFICES ASSUME OrderlyInv, NEW a \in Apps, Verified(a)
               PROVE  checks[apps[a].attached].from = settings.url
    BY DEF VerifiedBySecCheckInUse
  <2>1. apps[a].attached \in RemoteIds
    BY DEF Verified, OrderlyInv, SecurityInv, TypeOK, App
  <2> QED
    BY <2>1 DEF Verified, OrderlyInv, Revisions, Current
<1> QED
  BY <1>1, OrderlyIsSound, PTL
=============================================================================
