------------------------------ MODULE Approval ------------------------------
(***************************************************************************)
(* What a settled review workflow promises, without its table of reviews:  *)
(* at any time an app has at most one submission in hand; people other     *)
(* than its author sign it one after the other; the last signature it      *)
(* needs, and nothing else, brings the app into the catalogue.             *)
(***************************************************************************)
EXTENDS Naturals, Sequences

CONSTANTS Apps, Users, Nobody

VARIABLES
    levels,  \* how many signatures a submission needs
    stage,   \* stage[a]: the status of app a
    author,  \* author[a]: who made the submission in hand, or Nobody
    signed   \* signed[a]: who has signed it, level by level

process == <<levels, stage, author, signed>>

Listed == {"draft", "pending_review", "published", "rejected", "archived"}

Init ==
    /\ levels \in Nat \ {0}
    /\ stage = [a \in Apps |-> "none"]
    /\ author = [a \in Apps |-> Nobody]
    /\ signed = [a \in Apps |-> << >>]

Move(a, s) == stage' = [stage EXCEPT ![a] = s]

Close(a) ==
    /\ author' = [author EXCEPT ![a] = Nobody]
    /\ signed' = [signed EXCEPT ![a] = << >>]

Register(a) ==
    /\ stage[a] = "none"
    /\ Move(a, "draft")
    /\ UNCHANGED <<author, signed, levels>>

(* A submission takes the place of the one in hand, signatures and all.    *)
Submit(a, u) ==
    /\ stage[a] \in Listed
    /\ Move(a, "pending_review")
    /\ author' = [author EXCEPT ![a] = u]
    /\ signed' = [signed EXCEPT ![a] = << >>]
    /\ UNCHANGED levels

(* Archiving does not take the submission out of the reviewers' hands.     *)
MayRule(a, u) ==
    /\ author[a] \notin {Nobody, u}
    /\ stage[a] \in {"pending_review", "archived"}

Sign(a, u) ==
    /\ MayRule(a, u)
    /\ Len(signed[a]) + 1 < levels
    /\ signed' = [signed EXCEPT ![a] = Append(@, u)]
    /\ UNCHANGED <<stage, author, levels>>

Publish(a, u) ==
    /\ MayRule(a, u)
    /\ Len(signed[a]) + 1 = levels
    /\ Move(a, "published")
    /\ Close(a)
    /\ UNCHANGED levels

TurnDown(a, u) ==
    /\ MayRule(a, u)
    /\ Move(a, "rejected")
    /\ Close(a)
    /\ UNCHANGED levels

Archive(a) ==
    /\ stage[a] \in Listed
    /\ Move(a, "archived")
    /\ UNCHANGED <<author, signed, levels>>

Delete(a) ==
    /\ stage[a] \in Listed
    /\ Move(a, "deleted")
    /\ Close(a)
    /\ UNCHANGED levels

Next ==
    \E a \in Apps :
        \/ Register(a) \/ Archive(a) \/ Delete(a)
        \/ \E u \in Users : Submit(a, u) \/ Sign(a, u) \/ Publish(a, u) \/ TurnDown(a, u)

Spec == Init /\ [][Next]_process
=============================================================================
