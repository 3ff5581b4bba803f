---------------------------- MODULE MCSubmission ----------------------------
(* Small instances of Submission: forms and names may be exchanged. *)
EXTENDS Submission, TLC

Symmetry == Permutations(Form) \cup Permutations(Name)

(* An upload that was given up makes no difference once as many documents     *)
(* were stored as the model allows. *)
LateView ==
  <<app, docs, made, IF made < MaxIds THEN late ELSE {}, givenUp, draft, saving>>

=============================================================================
