---------------------------- MODULE ReviewPolicy ----------------------------
(***************************************************************************)
(* The approval policy as package internal/workflow states it: a pure      *)
(* function of the configuration, a review and a decision.  The service    *)
(* never calls that package; Repository.DecideReview implements the policy *)
(* a second time, in SQL.  Module ReviewWorkflow checks the one against    *)
(* the other; with the workflow off they part (PolicyInForce there).       *)
(***************************************************************************)
EXTENDS Naturals

(* The refusals at the head of Decide.                                     *)
MayDecideByPolicy(config, review, actor) ==
    /\ config.enabled
    /\ review.status = "pending"
    /\ config.preventSelf => actor # review.submitter

(* The Transition of an allowed decision, "approved" or "rejected".        *)
(* nextLevel is 0 when no further review is opened.                        *)
Transition(config, review, decision) ==
    CASE decision = "rejected" ->
            [appStatus |-> "rejected", nextLevel |-> 0]
      [] decision = "approved" /\ review.level < config.levels ->
            [appStatus |-> "pending_review", nextLevel |-> review.level + 1]
      [] decision = "approved" /\ review.level >= config.levels ->
            [appStatus |-> IF config.autoPublish THEN "published" ELSE "pending_review",
             nextLevel |-> 0]
=============================================================================
