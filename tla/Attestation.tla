---------------------------- MODULE Attestation ----------------------------
(***************************************************************************)
(* What the "verified" label of an app promises, without reviews, refreshes *)
(* or the network: a label names the content that was attested and the      *)
(* installation that did it.  It is given in one step, to the content the   *)
(* app has then, by the installation in use then, and it is gone with the   *)
(* next other content, the next other installation or the app.              *)
(***************************************************************************)
CONSTANTS Apps, Contents, Deployments, None

VARIABLES
    content,  \* content[a]: the data of app a, or None
    inUse,    \* the installation in use, or None
    label     \* label[a]: what app a is labelled with, or None

record == <<content, inUse, label>>

Bare == [a \in Apps |-> None]

Init ==
    /\ content = Bare
    /\ inUse = None
    /\ label = Bare

Peel(a) == label' = [label EXCEPT ![a] = None]

Register(a, c) ==
    /\ content[a] = None
    /\ content' = [content EXCEPT ![a] = c]
    /\ UNCHANGED <<inUse, label>>

(* Saving an app as it is keeps its label.                                  *)
Revise(a, c) ==
    /\ content[a] \notin {None, c}
    /\ content' = [content EXCEPT ![a] = c]
    /\ Peel(a)
    /\ UNCHANGED inUse

Delete(a) ==
    /\ content[a] # None
    /\ content' = [content EXCEPT ![a] = None]
    /\ Peel(a)
    /\ UNCHANGED inUse

(* The one way to a label.  A review answers for one app at a time: others  *)
(* that had theirs from it may lose it now.                                 *)
Vouch(a) ==
    /\ content[a] # None
    /\ \E lost \in SUBSET (Apps \ {a}) :
          label' = [b \in Apps |-> IF b = a THEN [content |-> content[a], from |-> inUse]
                                   ELSE IF b \in lost THEN None ELSE label[b]]
    /\ UNCHANGED <<content, inUse>>

(* What was attested once is attested no longer.                            *)
Withdraw ==
    /\ \E lost \in SUBSET Apps :
          label' = [b \in Apps |-> IF b \in lost THEN None ELSE label[b]]
    /\ UNCHANGED <<content, inUse>>

Connect(d) ==
    /\ inUse' = d
    /\ label' = Bare
    /\ UNCHANGED content

Next ==
    \/ \E a \in Apps, c \in Contents : Register(a, c) \/ Revise(a, c)
    \/ \E a \in Apps : Delete(a) \/ Vouch(a)
    \/ Withdraw
    \/ \E d \in Deployments \cup {None} : Connect(d)

Spec == Init /\ [][Next]_record
=============================================================================
