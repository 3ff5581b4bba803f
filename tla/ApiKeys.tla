------------------------------ MODULE ApiKeys ------------------------------
(***************************************************************************)
(* The personal API keys of one user: issue, rotation with a period of      *)
(* grace, revocation and expiry, against a policy that limits their number. *)
(* No rule spans two users.                                                 *)
(*                                                                          *)
(* Issuing locks the user's row, counts and inserts.  Rotation locks the    *)
(* old key only, so its count and its insertion are steps others can come   *)
(* between; inserting refers to the user's row and waits for whoever holds  *)
(* it.  The clock counts days and may move between any two steps.           *)
(*                                                                          *)
(* Permissions are left out: they can refuse a request, as Abort does, and  *)
(* have no part in how many keys there are or how long they live.  So is    *)
(* the time of last use, which TouchAPIKey notes and only authentication    *)
(* reads, where it too can only refuse.                                     *)
(***************************************************************************)
EXTENDS Naturals, FiniteSets

CONSTANTS
    KeyIds,
    Requests,  \* requests of this user that may be in flight at one time
    Policies,  \* the policies administrators choose from
    MaxKeys,   \* the highest limit of any of them
    MaxTime,   \* bound: days that pass
    None

(* The fields that issue and rotation read, in days but for the first.      *)
Policy == [max: Nat \ {0}, expiry: Nat \ {0}, grace: Nat]

ASSUME KeysAssumption ==
    /\ Policies \subseteq Policy
    /\ MaxKeys \in Nat
    /\ \A p \in Policies : p.max <= MaxKeys
    /\ MaxTime \in Nat
    /\ None \notin KeyIds
    /\ IsFiniteSet(KeyIds) /\ IsFiniteSet(Requests)

VARIABLES
    now,     \* the clock of database and service
    active,  \* users.active
    policy,  \* the singleton row of key_policy
    keys,    \* the rows of api_keys
    requests \* handlers in flight

vars == <<now, active, policy, keys, requests>>

-----------------------------------------------------------------------------
(* from is rotated_from.  grace is auxiliary: the end of the grace period   *)
(* the user was told when this key took the place of another.               *)
Key == [status: {"none", "live", "revoked"}, expires: Nat,
        from: KeyIds \cup {None}, grace: Nat]

(* key is the key to rotate, expires what Generate computed; grace and cut  *)
(* (no grace at all) are what rotation derived from the policy.             *)
Request == [pc: {"idle", "create", "insert", "rotate", "replace"},
            key: KeyIds \cup {None}, expires: Nat, grace: Nat, cut: BOOLEAN]

NoKey == [status |-> "none", expires |-> 0, from |-> None, grace |-> 0]
NoRequest == [pc |-> "idle", key |-> None, expires |-> 0, grace |-> 0,
              cut |-> FALSE]

(* Clock, policy, rows and handlers have their types.                       *)
TypeOK ==
    /\ now \in Nat
    /\ active \in BOOLEAN
    /\ policy \in Policies
    /\ keys \in [KeyIds -> Key]
    /\ requests \in [Requests -> Request]

Init ==
    /\ now = 0
    /\ active = TRUE
    /\ policy \in Policies
    /\ keys = [k \in KeyIds |-> NoKey]
    /\ requests = [h \in Requests |-> NoRequest]

-----------------------------------------------------------------------------
Exists(k) == keys[k].status # "none"
Live(k) == keys[k].status = "live"

(* What the limit counts: revoked_at IS NULL AND expires_at > now().  The   *)
(* code's now() is the time its transaction began, which can only find more *)
(* keys active, so the guards below admit every step the code takes.        *)
Active(k) == Live(k) /\ keys[k].expires > now
ActiveKeys == {k \in KeyIds : Active(k)}

(* Faulty: nothing is locked.                                               *)
Unlocked == FALSE

(* Row locks held from a handler's count to its commit: the user FOR UPDATE *)
(* by an issue, the old key FOR UPDATE by a rotation.                       *)
UserLocked == \E h \in Requests : requests[h].pc = "insert"
KeyLocked(k) == \E h \in Requests : requests[h].pc = "replace" /\ requests[h].key = k

Goto(h, request) == requests' = [requests EXCEPT ![h] = request]
Finish(h) == Goto(h, NoRequest)

(* A client that has gone, a refusal, a process that died.  A request that  *)
(* finds no room may still come here only.                                  *)
Abort(h) ==
    /\ requests[h].pc # "idle"
    /\ Finish(h)
    /\ UNCHANGED <<now, active, policy, keys>>

-----------------------------------------------------------------------------
(* Issue.  The handler of a user who is active reads the policy and         *)
(* computes the expiry before CreateAPIKey begins.                          *)

StartCreate(h) ==
    /\ requests[h].pc = "idle"
    /\ active
    /\ Goto(h, [NoRequest EXCEPT !.pc = "create", !.expires = now + policy.expiry])
    /\ UNCHANGED <<now, active, policy, keys>>

(* Faulty: the session is trusted about the user.                           *)
CountForCreateOnly(h) ==
    /\ requests[h].pc = "create"
    /\ ~UserLocked
    /\ Cardinality(ActiveKeys) < policy.max
    /\ Goto(h, [requests[h] EXCEPT !.pc = "insert"])
    /\ UNCHANGED <<now, active, policy, keys>>

(* CreateAPIKey: lock the user, who must be active, and count.              *)
CountForCreate(h) ==
    /\ requests[h].pc = "create"
    /\ ~UserLocked
    /\ active
    /\ Cardinality(ActiveKeys) < policy.max
    /\ Goto(h, [requests[h] EXCEPT !.pc = "insert"])
    /\ UNCHANGED <<now, active, policy, keys>>

NewKey(h, from) ==
    [status |-> "live", expires |-> requests[h].expires, from |-> from,
     grace |-> requests[h].grace]

InsertCreated(h, k) ==
    /\ requests[h].pc = "insert"
    /\ ~Exists(k)
    /\ keys' = [keys EXCEPT ![k] = NewKey(h, None)]
    /\ Finish(h)
    /\ UNCHANGED <<now, active, policy>>

-----------------------------------------------------------------------------
(* Rotation.                                                                *)

StartRotate(h, k) ==
    /\ requests[h].pc = "idle"
    /\ active
    /\ Exists(k)
    /\ Goto(h, [NoRequest EXCEPT !.pc = "rotate", !.key = k,
                                 !.expires = now + policy.expiry])
    /\ UNCHANGED <<now, active, policy, keys>>

(* Faulty: the old key may have been revoked since it was looked at.        *)
CountForRotateOfRevoked(h) ==
    LET old == requests[h].key IN
    /\ requests[h].pc = "rotate"
    /\ ~KeyLocked(old)
    /\ Cardinality(ActiveKeys \ {old}) < policy.max
    /\ Goto(h, [requests[h] EXCEPT !.pc = "replace", !.grace = now + policy.grace,
                                   !.cut = policy.grace = 0])
    /\ UNCHANGED <<now, active, policy, keys>>

(* Faulty: a rotation is taken to leave the number of keys as it is.        *)
LockForRotate(h) ==
    LET old == requests[h].key IN
    /\ requests[h].pc = "rotate"
    /\ Live(old) /\ ~KeyLocked(old)
    /\ Goto(h, [requests[h] EXCEPT !.pc = "replace", !.grace = now + policy.grace,
                                   !.cut = policy.grace = 0])
    /\ UNCHANGED <<now, active, policy, keys>>

(* RotateAPIKey: lock the old key, which may have expired but not been      *)
(* revoked, and count the others, without a lock on the user.               *)
CountForRotate(h) ==
    LET old == requests[h].key IN
    /\ requests[h].pc = "rotate"
    /\ Live(old) /\ ~KeyLocked(old)
    /\ Cardinality(ActiveKeys \ {old}) < policy.max
    /\ Goto(h, [requests[h] EXCEPT !.pc = "replace", !.grace = now + policy.grace,
                                   !.cut = policy.grace = 0])
    /\ UNCHANGED <<now, active, policy, keys>>

(* Faulty: the old key lives to the end of the grace period, whenever it    *)
(* would have expired.                                                      *)
Extended(old, h) == [old EXCEPT !.expires = requests[h].grace]

(* The old key: revoked at once without grace (its expiry, which the code   *)
(* writes too, has no reader then), else cut to the end of the grace.       *)
Replaced(old, h) ==
    IF requests[h].cut
    THEN [old EXCEPT !.status = "revoked"]
    ELSE IF old.expires > requests[h].grace
    THEN [old EXCEPT !.expires = requests[h].grace]
    ELSE old

(* The insertion refers to the user's row and waits for its lock.           *)
ReplaceRotated(h, k) ==
    LET old == requests[h].key IN
    /\ requests[h].pc = "replace"
    /\ ~UserLocked
    /\ ~Exists(k)
    /\ keys' = [keys EXCEPT ![old] = Replaced(keys[old], h), ![k] = NewKey(h, old)]
    /\ Finish(h)
    /\ UNCHANGED <<now, active, policy>>

-----------------------------------------------------------------------------
(* Revocation, at any time and repeatedly.                                  *)
Revoke(k) ==
    /\ Exists(k) /\ ~KeyLocked(k)
    /\ keys' = [keys EXCEPT ![k].status = "revoked"]
    /\ UNCHANGED <<now, active, policy, requests>>

-----------------------------------------------------------------------------
(* Administrators and time.                                                 *)

(* Faulty: a limit of no keys at all is accepted.                           *)
UpdateKeyPolicyToNothing(p) ==
    /\ p # policy
    /\ policy' = [p EXCEPT !.max = 0]
    /\ UNCHANGED <<now, active, keys, requests>>

UpdateKeyPolicy(p) ==
    /\ p # policy
    /\ policy' = p
    /\ UNCHANGED <<now, active, keys, requests>>

(* UpdateUser and DeleteUser.                                               *)
SetActive(b) ==
    /\ b # active
    /\ ~UserLocked
    /\ active' = b
    /\ UNCHANGED <<now, policy, keys, requests>>

Tick ==
    /\ now < MaxTime
    /\ now' = now + 1
    /\ UNCHANGED <<active, policy, keys, requests>>

-----------------------------------------------------------------------------
CreateNext(h) ==
    \/ StartCreate(h)
    \/ CountForCreate(h)
    \/ \E k \in KeyIds : InsertCreated(h, k)

RotateNext(h) ==
    \/ \E k \in KeyIds : StartRotate(h, k)
    \/ CountForRotate(h)
    \/ \E k \in KeyIds : ReplaceRotated(h, k)

Next ==
    \/ \E h \in Requests : CreateNext(h) \/ RotateNext(h) \/ Abort(h)
    \/ \E k \in KeyIds : Revoke(k)
    \/ \E p \in Policies : UpdateKeyPolicy(p)
    \/ \E b \in BOOLEAN : SetActive(b)
    \/ Tick

Spec == Init /\ [][Next]_vars

-----------------------------------------------------------------------------
(* Properties.                                                              *)

(* Keys that were issued and not by rotation never outnumber the highest    *)
(* limit: two issues cannot both find the last place (the lock of the user  *)
(* in CreateAPIKey), and no key comes back once it has ceased to count.     *)
Issued == {k \in ActiveKeys : keys[k].from = None}
IssuedWithinLimit == Cardinality(Issued) <= MaxKeys

(* Keys that no other has replaced exceed the limit by no more than the     *)
(* number of requests that overlap, less one.  RotateAPIKey counts without  *)
(* locking the user, so the limit alone is kept only if they do not.        *)
Superseded(k) == \E j \in KeyIds : keys[j].from = k
Current == {k \in ActiveKeys : ~Superseded(k)}
CurrentWithinLimit == Cardinality(Current) + 1 <= MaxKeys + Cardinality(Requests)

(* A key that was rotated is accepted no longer than the grace period the   *)
(* user was told, whatever becomes of the policy and however often the same *)
(* key is rotated again.                                                    *)
GraceIsKept ==
    \A k \in KeyIds : keys[k].from # None =>
        LET old == keys[k].from IN Live(old) => keys[old].expires <= keys[k].grace

(* A key that has expired or been revoked never lives again, in particular  *)
(* not because somebody rotates it.                                         *)
DeadStaysDead == [][\A k \in KeyIds : Exists(k) /\ ~Active(k) => ~Active(k)']_vars

(* No key is issued to a user who has been deactivated by then, although    *)
(* the session was checked long before (the second look of CreateAPIKey).   *)
IssuedToActive ==
    [][\A k \in KeyIds : ~Exists(k) /\ Exists(k)' /\ keys'[k].from = None => active']_vars

(* The rows implement KeyRing: though counting and inserting are apart and  *)
(* revocations, rotations, deactivations and days come between, every issue *)
(* is as good as one step taken when it is committed, with room for the key *)
(* among all that are valid then; and no revoked key gets a successor.      *)
Promise ==
    INSTANCE KeyRing WITH
        day <- now, allowed <- active,
        held <- {k \in KeyIds : Live(k)},
        gone <- {k \in KeyIds : keys[k].status = "revoked"},
        until <- [k \in KeyIds |-> keys[k].expires]

KeyRingKept == Promise!Spec
=============================================================================
