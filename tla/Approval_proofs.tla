-------------------------- MODULE Approval_proofs --------------------------
(***************************************************************************)
(* A settled review workflow implements Approval, for any number of apps,  *)
(* users, reviews, handlers and levels.                                    *)
(*                                                                         *)
(* The mapping picks reviews with CHOOSE.  Mapped says what it amounts to  *)
(* where SettledInv holds: nothing is left to choose, because an app has   *)
(* one pending review and a round one approval of each level.  The step    *)
(* lemmas only use Mapped, before and after the step.                      *)
(***************************************************************************)
EXTENDS ReviewWorkflow_proofs, SequenceTheorems

Signers == Users \cup {None}

(* Review r is the submission of a in hand, and the approvals of its round *)
(* are the signatures.                                                     *)
MappedTo(a, r) ==
    /\ Author[a] = reviews[r].submitter
    /\ Signed[a] \in Seq(Signers)
    /\ Len(Signed[a]) = reviews[r].level - 1
    /\ \A q \in ReviewIds :
          /\ Approved(q)
          /\ reviews[q].round = reviews[r].round
          /\ reviews[q].level < reviews[r].level
          => Signed[a][reviews[q].level] = reviews[q].reviewer

Mapped ==
    \A a \in Apps :
        /\ \A r \in ReviewIds : Pending(r, a) => MappedTo(a, r)
        /\ ~InHand(a) => Author[a] = None /\ Signed[a] = << >>

-----------------------------------------------------------------------------
(* The mapping has no choice.                                              *)

(* At every level below that of an open review one approval of its round   *)
(* stands, by the same submitter and of the same app.                      *)
LEMMA LowerLevelsApproved ==
    ASSUME SettledInv, NEW r \in ReviewIds, Opened(r), NEW k \in 1 .. reviews[r].level - 1
    PROVE  \E q \in ReviewIds :
              /\ Approved(q)
              /\ reviews[q].level = k
              /\ reviews[q].round = reviews[r].round
              /\ reviews[q].app = reviews[r].app
BY DEF SettledInv, ReviewInv, ChainOfApprovals

(* The signature at a level is the reviewer of the approval of that level. *)
LEMMA SignatureOfLevel ==
    ASSUME SettledInv, NEW r \in ReviewIds, NEW q \in ReviewIds,
           Approved(q), reviews[q].round = reviews[r].round
    PROVE  SignedBy(r, reviews[q].level) = reviews[q].reviewer
<1> DEFINE P(n) == /\ Approved(n)
                   /\ reviews[n].round = reviews[r].round
                   /\ reviews[n].level = reviews[q].level
           chosen == CHOOSE n \in ReviewIds : P(n)
<1>1. chosen \in ReviewIds /\ P(chosen)
  <2>1. \E n \in ReviewIds : P(n)
    OBVIOUS
  <2> HIDE DEF P
  <2> QED
    BY <2>1, Zenon
<1>2. chosen = q
  <2>1. Opened(q) /\ Opened(chosen)
    BY <1>1 DEF Opened, Approved
  <2> HIDE DEF chosen
  <2> QED
    BY <1>1, <2>1 DEF SettledInv, ReviewInv, ChainOfApprovals
<1> QED
  BY <1>2, Zenon DEF SignedBy

(* Where the invariant holds, the mapping is what Mapped says.             *)
LEMMA MappedNow == SettledInv => Mapped
<1> SUFFICES ASSUME SettledInv, NEW a \in Apps
             PROVE  /\ \A r \in ReviewIds : Pending(r, a) => MappedTo(a, r)
                    /\ ~InHand(a) => Author[a] = None /\ Signed[a] = << >>
  BY DEF Mapped
<1>1. reviews \in [ReviewIds -> Review]
  BY DEF SettledInv, ReviewInv, TypeOK
<1>2. ASSUME NEW r \in ReviewIds, Pending(r, a) PROVE MappedTo(a, r)
  <2>1. InHand(a)
    BY <1>2 DEF InHand
  <2>2. Current(a) = r
    <3>1. Current(a) \in ReviewIds /\ Pending(Current(a), a)
      BY <1>2, Zenon DEF Current
    <3> QED
      BY <1>2, <3>1 DEF SettledInv, ReviewInv, OnePendingReview
  <2>3. Author[a] = reviews[r].submitter
    BY <2>1, <2>2 DEF Author
  <2>4. Signed[a] = [k \in 1 .. reviews[r].level - 1 |-> SignedBy(r, k)]
    BY <2>1, <2>2 DEF Signed
  <2>5. Opened(r) /\ reviews[r].level - 1 \in Nat
    BY <1>1, <1>2 DEF Pending, Opened, SettledInv, ReviewInv, Formed
  <2>6. ASSUME NEW k \in 1 .. reviews[r].level - 1 PROVE SignedBy(r, k) \in Signers
    BY <1>1, <2>5, LowerLevelsApproved, SignatureOfLevel DEF Review, Signers
  <2>7. Signed[a] \in Seq(Signers) /\ Len(Signed[a]) = reviews[r].level - 1
    BY <2>4, <2>5, <2>6
  <2>8. ASSUME NEW q \in ReviewIds, Approved(q), reviews[q].round = reviews[r].round,
               reviews[q].level < reviews[r].level
        PROVE  Signed[a][reviews[q].level] = reviews[q].reviewer
    <3>1. reviews[q].level \in 1 .. reviews[r].level - 1
      BY <1>1, <2>5, <2>8 DEF Approved, Opened, SettledInv, ReviewInv, Formed, Review
    <3> QED
      BY <2>4, <2>8, <3>1, SignatureOfLevel
  <2> QED
    BY <2>3, <2>7, <2>8 DEF MappedTo
<1>3. ASSUME ~InHand(a) PROVE Author[a] = None /\ Signed[a] = << >>
  BY <1>3 DEF Author, Signed
<1> QED
  BY <1>2, <1>3

(* So it is after a step that keeps the invariant.                         *)
LEMMA MappedThen == SettledInv' => Mapped'
BY MappedNow, PTL

-----------------------------------------------------------------------------
(* What a step does to the mapping.                                        *)

(* What a step keeps of the submission of app b: the pending review, and   *)
(* the approvals of b.                                                     *)
SameSubmission(b) ==
    /\ \A r \in ReviewIds : Pending(r, b)' <=> Pending(r, b)
    /\ \A r \in ReviewIds :
          Pending(r, b) \/ (Approved(r) /\ reviews[r].app = b) => reviews'[r] = reviews[r]

(* Two sequences of signatures are the same if they are level by level.    *)
LEMMA SameSignatures ==
    ASSUME NEW s \in Seq(Signers), NEW t \in Seq(Signers), Len(s) = Len(t),
           \A k \in 1 .. Len(s) : s[k] = t[k]
    PROVE  s = t
BY SeqEqual, Zenon

(* An app whose submission is the same has the same author and signatures. *)
LEMMA SameMapping ==
    ASSUME SettledInv, SettledInv', NEW b \in Apps, SameSubmission(b)
    PROVE  Author'[b] = Author[b] /\ Signed'[b] = Signed[b]
<1>1. Mapped /\ Mapped'
  BY MappedNow, MappedThen
<1>2. CASE InHand(b)
  <2>1. PICK r \in ReviewIds : Pending(r, b)
    BY <1>2 DEF InHand
  <2>2. Pending(r, b)' /\ reviews'[r] = reviews[r]
    BY <2>1 DEF SameSubmission
  <2>3. MappedTo(b, r) /\ MappedTo(b, r)'
    BY <1>1, <2>1, <2>2 DEF Mapped
  <2>4. Signed'[b] = Signed[b]
    <3>1. /\ Signed[b] \in Seq(Signers) /\ Signed'[b] \in Seq(Signers)
          /\ Len(Signed[b]) = reviews[r].level - 1
          /\ Len(Signed'[b]) = Len(Signed[b])
      BY <2>2, <2>3 DEF MappedTo
    <3>2. ASSUME NEW k \in 1 .. Len(Signed[b]) PROVE Signed'[b][k] = Signed[b][k]
      <4>1. PICK q \in ReviewIds : /\ Approved(q)
                                   /\ reviews[q].level = k
                                   /\ reviews[q].round = reviews[r].round
                                   /\ reviews[q].app = reviews[r].app
        BY <2>1, <3>1, LowerLevelsApproved DEF Pending, Opened
      <4>2. reviews'[q] = reviews[q] /\ Approved(q)'
        BY <2>1, <4>1 DEF SameSubmission, Pending, Approved
      <4>3. k < reviews[r].level
        BY <2>1, <3>1 DEF Pending, Opened, SettledInv, ReviewInv, Formed
      <4>4. Signed[b][k] = reviews[q].reviewer
        BY <2>3, <4>1, <4>3 DEF MappedTo
      <4>5. Signed'[b][k] = reviews'[q].reviewer
        BY <2>2, <2>3, <4>1, <4>2, <4>3 DEF MappedTo
      <4> QED
        BY <4>2, <4>4, <4>5
    <3> QED
      BY <3>1, <3>2, SameSignatures
  <2> QED
    BY <2>2, <2>3, <2>4 DEF MappedTo
<1>3. CASE ~InHand(b)
  <2>1. ~InHand(b)'
    BY <1>3 DEF InHand, SameSubmission
  <2> QED
    BY <1>1, <1>3, <2>1 DEF Mapped
<1> QED
  BY <1>2, <1>3

(* A step that keeps the submission of every app keeps the mapping.        *)
LEMMA NothingMoves ==
    ASSUME SettledInv, SettledInv', \A b \in Apps : SameSubmission(b)
    PROVE  Author' = Author /\ Signed' = Signed
<1>1. \A b \in Apps : Author'[b] = Author[b] /\ Signed'[b] = Signed[b]
  BY SameMapping
<1> QED
  BY <1>1 DEF Author, Signed

(* A step that keeps it of every app but one changes the mapping there.    *)
LEMMA OneMoves ==
    ASSUME SettledInv, SettledInv', NEW a \in Apps,
           \A b \in Apps \ {a} : SameSubmission(b)
    PROVE  /\ Author' = [Author EXCEPT ![a] = Author'[a]]
           /\ Signed' = [Signed EXCEPT ![a] = Signed'[a]]
<1>1. \A b \in Apps \ {a} : Author'[b] = Author[b] /\ Signed'[b] = Signed[b]
  BY SameMapping
<1> QED
  BY <1>1 DEF Author, Signed

(* Where an app has no pending review after a step, its submission is      *)
(* closed.                                                                 *)
LEMMA Closing ==
    ASSUME SettledInv, SettledInv', NEW a \in Apps,
           \A b \in Apps \ {a} : SameSubmission(b),
           \A r \in ReviewIds : ~Pending(r, a)'
    PROVE  Promise!Close(a)
<1>1. ~InHand(a)'
  BY DEF InHand
<1>2. Author'[a] = None /\ Signed'[a] = << >>
  BY <1>1, MappedThen DEF Mapped
<1> QED
  BY <1>2, OneMoves DEF Promise!Close

(* Writing the status of an app is the move of Approval.                   *)
LEMMA WithStatusMoves ==
    ASSUME SettledInv, NEW a \in Apps, NEW s \in Listed, apps' = WithStatus(a, s)
    PROVE  Promise!Move(a, s)
<1>1. apps'[a].status = s /\ \A b \in Apps \ {a} : apps'[b] = apps[b]
  BY WithStatusType DEF SettledInv, ReviewInv
<1> QED
  BY <1>1, StageOfOne DEF Promise!Move

(* Whoever may decide the pending review of an app may rule on its         *)
(* submission.                                                             *)
LEMMA PendingMayBeRuled ==
    ASSUME SettledInv, NEW r \in ReviewIds, NEW u \in Users,
           reviews[r].status = "pending", u # reviews[r].submitter
    PROVE  /\ reviews[r].app \in Apps
           /\ Pending(r, reviews[r].app)
           /\ MappedTo(reviews[r].app, r)
           /\ Promise!MayRule(reviews[r].app, u)
<1> DEFINE a == reviews[r].app
<1>1. a \in Apps /\ Exists(a) /\ reviews[r].submitter \in Users
  BY DEF SettledInv, ReviewInv, Formed, Opened
<1>2. Pending(r, a)
  BY DEF Pending
<1>3. MappedTo(a, r)
  BY <1>1, <1>2, MappedNow DEF Mapped
<1>4. Author[a] \notin {None, u}
  BY <1>1, <1>3, WorkflowAssumption DEF MappedTo
<1>5. Stage[a] \in {"pending_review", "archived"}
  BY <1>1, <1>2 DEF SettledInv, QueueAgrees, Exists, Listed, Stage
<1> QED
  BY <1>1, <1>2, <1>3, <1>4, <1>5 DEF Promise!MayRule

-----------------------------------------------------------------------------
(* Every settled step is a step of Approval, or none.                      *)

(* A step that leaves the reviews alone.                                   *)
LEMMA ApartImplements ==
    ASSUME SettledInv, SettledInv', UNCHANGED config, Apart
    PROVE  [Promise!Next]_(Promise!process)
<1>1. \A b \in Apps : SameSubmission(b)
  BY DEF Apart, SameSubmission, Pending
<1>2. Author' = Author /\ Signed' = Signed
  BY <1>1, NothingMoves
<1>3. CASE Stage' = Stage
  BY <1>2, <1>3 DEF Promise!process
<1>4. ASSUME NEW a \in Apps, Exists(a), Stage' = [Stage EXCEPT ![a] = "archived"]
      PROVE  Promise!Archive(a)
  BY <1>2, <1>4 DEF Promise!Archive, Promise!Move, Promise!Listed, Exists, Listed, Stage
<1>5. ASSUME NEW a \in Apps, Stage[a] = "none", Stage' = [Stage EXCEPT ![a] = "draft"]
      PROVE  Promise!Register(a)
  BY <1>2, <1>5 DEF Promise!Register, Promise!Move
<1> QED
  BY <1>3, <1>4, <1>5 DEF Apart, Promise!Next

(* A submission opens an unsigned submission by whoever made it.           *)
LEMMA SubmissionImplements ==
    ASSUME SettledInv, SettledInv', UNCHANGED config, Submission
    PROVE  Promise!Next
<1>1. reviews \in [ReviewIds -> Review]
  BY DEF SettledInv, ReviewInv, TypeOK
<1>2. PICK a \in Apps, u \in Users, n \in ReviewIds :
         Submits(a, u, n) /\ apps' = WithStatus(a, "pending_review")
  BY DEF Submission
<1>3. reviews'[n] = NewReview(a, u, 1, n)
  BY <1>1, <1>2 DEF Submits, CancelPending
<1>4. Pending(n, a)'
  BY <1>3 DEF Pending, NewReview
<1>5. MappedTo(a, n)'
  BY <1>4, MappedThen DEF Mapped
<1>6. Author'[a] = u /\ Signed'[a] = << >>
  BY <1>3, <1>5 DEF MappedTo, NewReview
<1>7. ASSUME NEW b \in Apps \ {a} PROVE SameSubmission(b)
  <2>1. \A r \in ReviewIds \ {n} : reviews'[r] = CancelPending(a)[r]
    BY <1>1, <1>2 DEF Submits, CancelPending
  <2>2. \A r \in ReviewIds : reviews[r].app = b /\ r # n => reviews'[r] = reviews[r]
    BY <2>1 DEF CancelPending, Pending
  <2>3. reviews[n].status = "none" /\ reviews'[n].app # b
    BY <1>2, <1>3 DEF Submits, NewReview
  <2>4. ASSUME NEW r \in ReviewIds PROVE Pending(r, b)' <=> Pending(r, b)
    <3>1. CASE r = n
      BY <2>3, <3>1 DEF Pending
    <3>2. CASE r # n
      BY <1>1, <2>1, <2>2, <3>2 DEF Pending, CancelPending, Review
    <3> QED
      BY <3>1, <3>2
  <2> QED
    BY <2>2, <2>3, <2>4 DEF SameSubmission, Pending, Approved
<1>8. /\ Author' = [Author EXCEPT ![a] = u]
      /\ Signed' = [Signed EXCEPT ![a] = << >>]
  BY <1>6, <1>7, OneMoves
<1>9. Promise!Move(a, "pending_review")
  BY <1>2, WithStatusMoves DEF Listed
<1>10. Stage[a] \in Promise!Listed
  BY <1>2 DEF Submits, Exists, Listed, Stage, Promise!Listed
<1>11. Promise!Submit(a, u)
  BY <1>8, <1>9, <1>10 DEF Promise!Submit
<1> QED
  BY <1>11 DEF Promise!Next

(* A decision that opens no next level closes the submission.              *)
LEMMA DecisionCloses ==
    ASSUME SettledInv, SettledInv', NEW r \in ReviewIds, NEW u \in Users,
           NEW s \in {"approved", "rejected"}, Decides(r, u, s)
    PROVE  Promise!Close(reviews[r].app)
<1>1. reviews \in [ReviewIds -> Review]
  BY DEF SettledInv, ReviewInv, TypeOK
<1>2. PICK a \in Apps : a = reviews[r].app /\ reviews[r].status = "pending"
  BY DEF Decides, SettledInv, ReviewInv, Formed, Opened
<1>3. reviews'[r].status = s
  BY <1>1 DEF Decides, Decided, Review
<1>4. \A q \in ReviewIds \ {r} : reviews'[q] = reviews[q]
  BY <1>1 DEF Decides, Decided
<1>5. ASSUME NEW q \in ReviewIds PROVE ~Pending(q, a)'
  <2>1. Pending(r, a)
    BY <1>2 DEF Pending
  <2>2. CASE q = r
    BY <1>3, <2>2 DEF Pending
  <2>3. CASE q # r
    BY <1>2, <1>4, <2>1, <2>3 DEF SettledInv, ReviewInv, OnePendingReview, Pending
  <2> QED
    BY <2>2, <2>3
<1>6. ASSUME NEW b \in Apps \ {a} PROVE SameSubmission(b)
  BY <1>2, <1>3, <1>4, <1>6 DEF SameSubmission, Pending, Approved
<1> QED
  BY <1>2, <1>5, <1>6, Closing

(* A rejection turns the submission down.                                  *)
LEMMA RejectionImplements ==
    ASSUME SettledInv, SettledInv', UNCHANGED config, Rejection
    PROVE  Promise!Next
<1>1. PICK u \in Users, r \in ReviewIds :
         /\ Decides(r, u, "rejected")
         /\ u # reviews[r].submitter
         /\ apps' = WithStatus(reviews[r].app, "rejected")
  BY DEF Rejection
<1>2. reviews[r].app \in Apps /\ Promise!MayRule(reviews[r].app, u)
  BY <1>1, PendingMayBeRuled DEF Decides
<1>3. Promise!Close(reviews[r].app)
  BY <1>1, DecisionCloses
<1>4. Promise!Move(reviews[r].app, "rejected")
  BY <1>1, <1>2, WithStatusMoves DEF Listed
<1>5. Promise!TurnDown(reviews[r].app, u)
  BY <1>2, <1>3, <1>4 DEF Promise!TurnDown
<1> QED
  BY <1>2, <1>5 DEF Promise!Next

(* The last approval publishes: the signatures and this one are as many as *)
(* the configuration asks for.                                             *)
LEMMA LastApprovalImplements ==
    ASSUME SettledInv, SettledInv', UNCHANGED config, LastApproval
    PROVE  Promise!Next
<1>1. PICK u \in Users, r \in ReviewIds :
         /\ Decides(r, u, "approved")
         /\ u # reviews[r].submitter
         /\ config.levels <= reviews[r].level
         /\ apps' = WithStatus(reviews[r].app, "published")
  BY DEF LastApproval
<1> DEFINE a == reviews[r].app
<1>2. a \in Apps /\ MappedTo(a, r) /\ Promise!MayRule(a, u)
  BY <1>1, PendingMayBeRuled DEF Decides
<1>3. reviews[r].level = config.levels /\ config.levels \in Nat
  <2>1. reviews[r].level \in Nat /\ config.levels \in Nat
    BY ConfigLevels, WorkflowAssumption DEF SettledInv, ReviewInv, TypeOK, Review
  <2>2. reviews[r].level <= config.levels
    BY <1>1 DEF Decides, SettledInv, WithinLevels
  <2> QED
    BY <1>1, <2>1, <2>2
<1>4. Len(Signed[a]) + 1 = config.levels
  BY <1>2, <1>3 DEF MappedTo
<1>5. Promise!Close(a)
  BY <1>1, DecisionCloses
<1>6. Promise!Move(a, "published")
  BY <1>1, <1>2, WithStatusMoves DEF Listed
<1>7. Promise!Publish(a, u)
  BY <1>2, <1>4, <1>5, <1>6 DEF Promise!Publish
<1> QED
  BY <1>2, <1>7 DEF Promise!Next

(* An approval below the last level signs and leaves everything else.      *)
LEMMA LowerApprovalImplements ==
    ASSUME SettledInv, SettledInv', UNCHANGED config, LowerApproval
    PROVE  Promise!Next
<1>1. PICK u \in Users, r \in ReviewIds, n \in ReviewIds :
         /\ Escalates(r, u, n)
         /\ u # reviews[r].submitter
         /\ reviews[r].level < config.levels
         /\ apps' = apps
  BY DEF LowerApproval
<1>2. reviews \in [ReviewIds -> Review]
  BY DEF SettledInv, ReviewInv, TypeOK
<1>3. r # n /\ reviews[n].status = "none" /\ reviews[r].status = "pending"
  BY <1>1 DEF Escalates
<1>4. PICK a \in Apps : /\ a = reviews[r].app
                       /\ Pending(r, a) /\ MappedTo(a, r) /\ Promise!MayRule(a, u)
  BY <1>1, <1>3, PendingMayBeRuled
<1>5. reviews'[n] = NewReview(a, reviews[r].submitter, reviews[r].level + 1, reviews[r].round)
  BY <1>1, <1>2, <1>4 DEF Escalates, Decided
<1>6. reviews'[r] = [reviews[r] EXCEPT !.status = "approved", !.reviewer = u]
  BY <1>1, <1>2, <1>3 DEF Escalates, Decided
<1>7. /\ reviews'[r].status = "approved" /\ reviews'[r].reviewer = u
      /\ reviews'[r].round = reviews[r].round /\ reviews'[r].level = reviews[r].level
  BY <1>2, <1>6 DEF Review
<1>8. \A q \in ReviewIds \ {r, n} : reviews'[q] = reviews[q]
  BY <1>1, <1>2 DEF Escalates, Decided
<1>9. MappedTo(a, n)'
  <2>1. Pending(n, a)'
    BY <1>5 DEF Pending, NewReview
  <2> QED
    BY <1>4, <2>1, MappedThen DEF Mapped
<1>10. reviews[r].level \in Nat \ {0}
  BY <1>3 DEF SettledInv, ReviewInv, Formed, Opened
<1>11. Author'[a] = Author[a]
  BY <1>4, <1>5, <1>9 DEF MappedTo, NewReview
<1>12. Signed'[a] = Append(Signed[a], u)
  <2> DEFINE s == Signed[a]
             t == Append(s, u)
  <2>1. s \in Seq(Signers) /\ Len(s) = reviews[r].level - 1
    BY <1>4 DEF MappedTo
  <2>2. /\ t \in Seq(Signers)
        /\ Len(t) = reviews[r].level
        /\ t[reviews[r].level] = u
        /\ \A k \in 1 .. Len(s) : t[k] = s[k]
    <3>1. u \in Signers
      BY DEF Signers
    <3> HIDE DEF s
    <3>2. t \in Seq(Signers) /\ Len(t) = Len(s) + 1 /\ t[Len(s) + 1] = u
          /\ \A k \in 1 .. Len(s) : t[k] = s[k]
      BY <2>1, <3>1, AppendProperties
    <3> QED
      BY <1>10, <2>1, <3>2
  <2>3. Signed'[a] \in Seq(Signers) /\ Len(Signed'[a]) = reviews[r].level
    BY <1>5, <1>9, <1>10 DEF MappedTo, NewReview
  <2>4. Signed'[a][reviews[r].level] = u
    <3>1. Approved(r)' /\ reviews'[r].round = reviews'[n].round
                       /\ reviews'[r].level < reviews'[n].level
      BY <1>5, <1>7, <1>10 DEF Approved, NewReview
    <3> QED
      BY <1>7, <1>9, <3>1 DEF MappedTo
  <2>5. ASSUME NEW k \in 1 .. Len(s) PROVE Signed'[a][k] = s[k]
    <3>1. PICK q \in ReviewIds : /\ Approved(q)
                                 /\ reviews[q].level = k
                                 /\ reviews[q].round = reviews[r].round
      BY <1>3, <2>1, LowerLevelsApproved DEF Opened
    <3>2. k < reviews[r].level /\ k < reviews[r].level + 1
      BY <1>10, <2>1
    <3>3. s[k] = reviews[q].reviewer
      BY <1>4, <3>1, <3>2 DEF MappedTo
    <3>4. reviews'[q] = reviews[q]
      BY <1>3, <1>8, <3>1 DEF Approved
    <3>5. Approved(q)' /\ reviews'[q].round = reviews'[n].round
                       /\ reviews'[q].level < reviews'[n].level
      BY <1>5, <3>1, <3>2, <3>4 DEF Approved, NewReview
    <3> QED
      BY <1>9, <3>1, <3>3, <3>4, <3>5 DEF MappedTo
  <2>6. \A k \in 1 .. Len(t) : Signed'[a][k] = t[k]
    BY <1>10, <2>1, <2>2, <2>4, <2>5
  <2> HIDE DEF s, t
  <2>7. Signed'[a] = t
    BY <2>2, <2>3, <2>6, SameSignatures
  <2> QED
    BY <2>7 DEF t, s
<1>13. ASSUME NEW b \in Apps \ {a} PROVE SameSubmission(b)
  <2>1. ~Pending(r, b) /\ ~Pending(r, b)' /\ ~Pending(n, b) /\ ~Pending(n, b)'
    BY <1>3, <1>4, <1>5, <1>7 DEF Pending, NewReview
  <2>2. ~Approved(r) /\ ~Approved(n)
    BY <1>3 DEF Approved
  <2> QED
    BY <1>8, <2>1, <2>2 DEF SameSubmission, Pending
<1>14. /\ Author' = [Author EXCEPT ![a] = Author[a]]
       /\ Signed' = [Signed EXCEPT ![a] = Append(Signed[a], u)]
  BY <1>4, <1>11, <1>12, <1>13, OneMoves
<1>15. Author' = Author
  BY <1>14 DEF Author
<1>16. Stage' = Stage
  BY <1>1 DEF Stage
<1>17. Len(Signed[a]) + 1 < config.levels
  BY <1>1, <1>4, <1>10 DEF MappedTo
<1>18. Promise!Sign(a, u)
  BY <1>4, <1>14, <1>15, <1>16, <1>17 DEF Promise!Sign
<1> QED
  BY <1>4, <1>18 DEF Promise!Next

(* Deleting an app closes its submission.                                  *)
LEMMA DeletionImplements ==
    ASSUME SettledInv, SettledInv', UNCHANGED config, Deletion
    PROVE  Promise!Next
<1>1. PICK a \in Apps : Exists(a) /\ Removes(a) /\ Stage' = [Stage EXCEPT ![a] = "deleted"]
  BY DEF Deletion
<1>2. ASSUME NEW r \in ReviewIds PROVE ~Pending(r, a)'
  <2>1. CASE reviews[r].app = a
    BY <1>1, <2>1 DEF Removes, NoReview, Pending
  <2>2. CASE reviews[r].app # a
    BY <1>1, <2>2 DEF Removes, Pending
  <2> QED
    BY <2>1, <2>2
<1>3. ASSUME NEW b \in Apps \ {a} PROVE SameSubmission(b)
  <2>1. \A r \in ReviewIds : reviews[r].app # a => reviews'[r] = reviews[r]
    BY <1>1 DEF Removes
  <2>2. \A r \in ReviewIds : reviews[r].app = a => ~Pending(r, b) /\ ~Pending(r, b)'
    BY <1>1 DEF Removes, NoReview, Pending
  <2> QED
    BY <2>1, <2>2 DEF SameSubmission, Pending
<1>4. Promise!Close(a)
  BY <1>2, <1>3, Closing
<1>5. Promise!Delete(a)
  BY <1>1, <1>4 DEF Promise!Delete, Promise!Move, Promise!Listed, Exists, Listed, Stage
<1> QED
  BY <1>5 DEF Promise!Next

(* A settled workflow keeps what Approval promises: whatever requests      *)
(* overlap, an app enters the catalogue by exactly as many signatures as   *)
(* the configuration asks for, each by somebody other than the author of   *)
(* the one submission in hand, given after that submission was made.       *)
THEOREM WorkflowKeepsPromise == SettledSpec => ApprovalKept
<1>1. SettledInit => Promise!Init
  <2> SUFFICES ASSUME SettledInit PROVE Promise!Init
    OBVIOUS
  <2>1. \A r \in ReviewIds : reviews[r].status = "none"
    BY DEF SettledInit, EmptyCatalog, NoReview
  <2>2. \A a \in Apps : ~InHand(a) /\ Stage[a] = "none"
    BY <2>1 DEF InHand, Pending, SettledInit, EmptyCatalog, NoApp, Stage
  <2>3. /\ Author = [a \in Apps |-> None]
        /\ Signed = [a \in Apps |-> << >>]
        /\ Stage = [a \in Apps |-> "none"]
    BY <2>2 DEF Author, Signed, Stage
  <2>4. config.levels \in Nat \ {0}
    BY WorkflowAssumption DEF SettledInit
  <2> QED
    BY <2>3, <2>4 DEF Promise!Init
<1>2. SettledInv /\ SettledInv' /\ [SettledNext]_vars => [Promise!Next]_(Promise!process)
  <2> SUFFICES ASSUME SettledInv, SettledInv', [SettledNext]_vars
               PROVE  [Promise!Next]_(Promise!process)
    OBVIOUS
  <2>1. UNCHANGED config /\ SettledKind
    BY SettledStep
  <2> QED
    BY <2>1, ApartImplements, SubmissionImplements, RejectionImplements,
       LastApprovalImplements, LowerApprovalImplements, DeletionImplements
       DEF SettledKind
<1> QED
  BY <1>1, <1>2, SettledIsSound, PTL DEF SettledSpec, ApprovalKept, Promise!Spec
=============================================================================
