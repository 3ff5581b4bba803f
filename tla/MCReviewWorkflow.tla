-------------------------- MODULE MCReviewWorkflow --------------------------
(* Small instances of ReviewWorkflow for TLC.                              *)
EXTENDS ReviewWorkflow, TLC

CONSTANTS owner, other

(* Everybody may be a reviewer; the second user also holds apps:manage.    *)
MCUsers == {owner, other}
MCManagers == {other}
MCDeciders == [a \in Apps |-> MCUsers]

(* Beside the configuration the service starts with: review at two levels, *)
(* the same with publication by hand, and the workflow switched off again. *)
TwoLevels == [enabled |-> TRUE, levels |-> 2, autoPublish |-> TRUE,
              reapproval |-> TRUE, preventSelf |-> TRUE]
ByHand == [TwoLevels EXCEPT !.autoPublish = FALSE]
MCConfigs == {TwoLevels, ByHand, [ByHand EXCEPT !.enabled = FALSE]}

(* A settled organisation reviews at one level or at two.                  *)
MCSettledConfigs == {TwoLevels, [TwoLevels EXCEPT !.levels = 1]}

MCSymmetry == Permutations(ReviewIds) \cup Permutations(Contents) \cup Permutations(Requests)
=============================================================================
