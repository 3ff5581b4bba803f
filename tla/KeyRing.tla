------------------------------ MODULE KeyRing ------------------------------
(***************************************************************************)
(* What a user's keys promise, without requests, locks and policies: each   *)
(* key is issued, lasts until a day it never outlives, and may be revoked   *)
(* for good.  A key is issued in one step, to an active user with room for  *)
(* it; or it takes the place of a key that has not been revoked, which      *)
(* lasts no longer for it.                                                  *)
(***************************************************************************)
EXTENDS Naturals, FiniteSets

CONSTANTS KeyIds, MaxKeys

VARIABLES
    day,
    allowed,  \* the user is active
    held,     \* the keys issued and not revoked
    gone,     \* the keys revoked
    until     \* until[k]: the day key k is accepted no longer

ring == <<day, allowed, held, gone, until>>

Init ==
    /\ day = 0
    /\ allowed = TRUE
    /\ held = {}
    /\ gone = {}
    /\ until = [k \in KeyIds |-> 0]

Unused(k) == k \notin held \cup gone
Valid == {k \in held : until[k] > day}
Lasts(k) == until'[k] = until[k]

Issue(k) ==
    /\ allowed
    /\ Unused(k)
    /\ Cardinality(Valid) < MaxKeys
    /\ held' = held \cup {k}
    /\ \A j \in held : Lasts(j)
    /\ UNCHANGED <<day, allowed, gone>>

(* The key replaced lasts a while, or ends with the rotation.               *)
Rotate(old, k) ==
    /\ old \in held
    /\ Unused(k)
    /\ \E ended \in SUBSET {old} :
          /\ held' = (held \ ended) \cup {k}
          /\ gone' = gone \cup ended
    /\ until'[old] <= until[old]
    /\ \A j \in held \ {old} : Lasts(j)
    /\ UNCHANGED <<day, allowed>>

Revoke(k) ==
    /\ k \in held
    /\ held' = held \ {k}
    /\ gone' = gone \cup {k}
    /\ UNCHANGED <<day, allowed, until>>

Permit ==
    /\ allowed' = ~allowed
    /\ UNCHANGED <<day, held, gone, until>>

Pass ==
    /\ day' = day + 1
    /\ UNCHANGED <<allowed, held, gone, until>>

Next ==
    \/ \E k \in KeyIds : Issue(k) \/ Revoke(k)
    \/ \E old, k \in KeyIds : Rotate(old, k)
    \/ Permit
    \/ Pass

Spec == Init /\ [][Next]_ring
=============================================================================
