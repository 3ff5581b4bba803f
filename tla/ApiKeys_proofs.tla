--------------------------- MODULE ApiKeys_proofs ---------------------------
(***************************************************************************)
(* Theorems about ApiKeys, for any number of keys and requests, any         *)
(* policies and any number of days.                                         *)
(***************************************************************************)
EXTENDS ApiKeys, FiniteSetTheorems, TLAPS

(* A key replaces one that exists, and rotations in flight are of keys that *)
(* exist.                                                                   *)
Formed ==
    /\ \A k \in KeyIds : keys[k].from # None => Exists(keys[k].from)
    /\ \A k \in KeyIds : ~Exists(k) => keys[k].from = None
    /\ \A h \in Requests : requests[h].pc \in {"rotate", "replace"} =>
            requests[h].key \in KeyIds /\ Exists(requests[h].key)

KeysInv == TypeOK /\ Formed

(* The empty table satisfies the typing invariant.                          *)
LEMMA InitialKeys == Init => KeysInv
BY KeysAssumption DEF Init, KeysInv, TypeOK, Formed, NoKey, Key, NoRequest, Request, Exists

(* Both kinds of new key have the type of a row.                            *)
LEMMA NewKeyType ==
    ASSUME TypeOK, NEW h \in Requests, NEW from \in KeyIds \cup {None}
    PROVE  NewKey(h, from) \in Key /\ NewKey(h, from).status = "live"
BY DEF TypeOK, NewKey, Key, Request

(* A replaced key has the type of a row, keeps its place and never gains.   *)
LEMMA ReplacedFades ==
    ASSUME TypeOK, NEW h \in Requests, NEW k \in KeyIds
    PROVE  LET new == Replaced(keys[k], h) IN
           /\ new \in Key
           /\ new.from = keys[k].from /\ new.grace = keys[k].grace
           /\ new.status \in {keys[k].status, "revoked"}
           /\ new.expires <= keys[k].expires
           /\ new.status = "live" => new.expires <= requests[h].grace
BY DEF TypeOK, Replaced, Key, Request

(* A handler that only moves on itself, to a state that makes sense,        *)
(* preserves types and form.                                                *)
LEMMA MovesOn ==
    ASSUME KeysInv, NEW h \in Requests, NEW r \in Request, Goto(h, r),
           r.pc \in {"rotate", "replace"} => r.key \in KeyIds /\ Exists(r.key),
           UNCHANGED <<now, active, policy, keys>>
    PROVE  KeysInv'
BY DEF KeysInv, TypeOK, Formed, Exists, Goto

(* Handlers that only compute and read preserve types and form.             *)
LEMMA HandlerTypes ==
    ASSUME KeysInv, NEW h \in Requests,
           \/ StartCreate(h) \/ CountForCreate(h) \/ CountForRotate(h) \/ Abort(h)
           \/ \E k \in KeyIds : StartRotate(h, k)
    PROVE  KeysInv'
<1>1. /\ requests[h] \in Request /\ NoRequest \in Request
      /\ now + policy.expiry \in Nat /\ now + policy.grace \in Nat
  BY KeysAssumption DEF KeysInv, TypeOK, NoRequest, Request, Policy
<1>2. CASE StartCreate(h)
  <2> DEFINE r == [NoRequest EXCEPT !.pc = "create", !.expires = now + policy.expiry]
  <2>1. r \in Request /\ r.pc = "create"
    BY <1>1 DEF NoRequest, Request
  <2> QED
    BY <1>2, <2>1, MovesOn DEF StartCreate
<1>3. CASE CountForCreate(h)
  <2> DEFINE r == [requests[h] EXCEPT !.pc = "insert"]
  <2>1. r \in Request /\ r.pc = "insert"
    BY <1>1 DEF Request
  <2> QED
    BY <1>3, <2>1, MovesOn DEF CountForCreate
<1>4. CASE CountForRotate(h)
  <2> DEFINE r == [requests[h] EXCEPT !.pc = "replace", !.grace = now + policy.grace,
                                      !.cut = policy.grace = 0]
  <2>1. r \in Request /\ r.key = requests[h].key
    BY <1>1 DEF Request
  <2>2. r.key \in KeyIds /\ Exists(r.key)
    BY <1>4, <2>1 DEF CountForRotate, KeysInv, Formed
  <2> QED
    BY <1>4, <2>1, <2>2, MovesOn DEF CountForRotate
<1>5. CASE Abort(h)
  BY <1>1, <1>5, MovesOn DEF Abort, Finish, NoRequest
<1>6. ASSUME NEW k \in KeyIds, StartRotate(h, k) PROVE KeysInv'
  <2> DEFINE r == [NoRequest EXCEPT !.pc = "rotate", !.key = k,
                                    !.expires = now + policy.expiry]
  <2>1. r \in Request /\ r.key = k
    BY <1>1 DEF NoRequest, Request
  <2> QED
    BY <1>6, <2>1, MovesOn DEF StartRotate
<1> QED
  BY <1>2, <1>3, <1>4, <1>5, <1>6

(* Insertion of an issued key preserves types and form.                     *)
LEMMA InsertTypes ==
    ASSUME KeysInv, NEW h \in Requests, NEW k \in KeyIds, InsertCreated(h, k)
    PROVE  KeysInv'
<1> USE DEF KeysInv, TypeOK
<1>1. NewKey(h, None) \in Key /\ NewKey(h, None).status = "live" /\ NewKey(h, None).from = None
  BY NewKeyType DEF NewKey
<1>2. TypeOK'
  BY <1>1 DEF InsertCreated, Finish, Goto, NoRequest, Request
<1>3. Formed'
  BY <1>1 DEF InsertCreated, Finish, Goto, NoRequest, Formed, Exists
<1> QED
  BY <1>2, <1>3

(* Replacement of a rotated key preserves types and form.                   *)
LEMMA ReplaceTypes ==
    ASSUME KeysInv, NEW h \in Requests, NEW k \in KeyIds, ReplaceRotated(h, k)
    PROVE  KeysInv'
<1> DEFINE old == requests[h].key
<1> USE DEF KeysInv
<1>1. old \in KeyIds /\ Exists(old) /\ old # k
  BY DEF ReplaceRotated, Formed
<1>2. NewKey(h, old) \in Key /\ NewKey(h, old).status = "live" /\ NewKey(h, old).from = old
  BY <1>1, NewKeyType DEF NewKey
<1>3. /\ Replaced(keys[old], h) \in Key
      /\ Replaced(keys[old], h).from = keys[old].from
      /\ Replaced(keys[old], h).status # "none"
  BY <1>1, ReplacedFades DEF Exists
<1>4. /\ keys' = [keys EXCEPT ![old] = Replaced(keys[old], h), ![k] = NewKey(h, old)]
      /\ requests' = [requests EXCEPT ![h] = NoRequest]
      /\ UNCHANGED <<now, active, policy>>
  BY DEF ReplaceRotated, Finish, Goto
<1>5. TypeOK'
  BY <1>1, <1>2, <1>3, <1>4 DEF TypeOK, NoRequest, Request
<1>6. \A j \in KeyIds : keys'[j] = IF j = k THEN NewKey(h, old)
                                   ELSE IF j = old THEN Replaced(keys[old], h) ELSE keys[j]
  BY <1>1, <1>4 DEF TypeOK
<1>7. \A j \in KeyIds : Exists(j) => Exists(j)'
  BY <1>2, <1>3, <1>6 DEF Exists
<1>8. Formed'
  <2>1. \A j \in KeyIds : keys'[j].from # None => keys'[j].from \in KeyIds /\ Exists(keys'[j].from)
    BY <1>1, <1>2, <1>3, <1>6 DEF Formed, TypeOK, Key
  <2>2. \A j \in KeyIds : ~Exists(j)' => keys'[j].from = None
    BY <1>2, <1>3, <1>6 DEF Formed, Exists
  <2>3. \A g \in Requests : requests'[g].pc \in {"rotate", "replace"} =>
            requests'[g].key \in KeyIds /\ Exists(requests'[g].key)
    BY <1>4 DEF Formed, TypeOK, NoRequest
  <2>4. \A j \in KeyIds : keys'[j].from # None => keys'[keys'[j].from].status # "none"
    BY <2>1, <1>7 DEF Exists
  <2>5. \A g \in Requests : requests'[g].pc \in {"rotate", "replace"} =>
            requests'[g].key \in KeyIds /\ keys'[requests'[g].key].status # "none"
    BY <2>3, <1>7 DEF Exists
  <2> QED
    BY <2>2, <2>4, <2>5 DEF Formed, Exists
<1> QED
  BY <1>5, <1>8

(* Every step preserves types and form.                                     *)
LEMMA StepTypes == KeysInv /\ [Next]_vars => KeysInv'
<1> SUFFICES ASSUME KeysInv, [Next]_vars PROVE KeysInv'
  OBVIOUS
<1>1. ASSUME NEW h \in Requests, CreateNext(h) \/ RotateNext(h) \/ Abort(h) PROVE KeysInv'
  BY <1>1, HandlerTypes, InsertTypes, ReplaceTypes DEF CreateNext, RotateNext
<1>2. ASSUME NEW k \in KeyIds, Revoke(k) PROVE KeysInv'
  BY <1>2 DEF Revoke, KeysInv, TypeOK, Formed, Key, Exists
<1>3. ASSUME NEW p \in Policies, UpdateKeyPolicy(p) PROVE KeysInv'
  BY <1>3 DEF UpdateKeyPolicy, KeysInv, TypeOK, Formed, Exists
<1>4. ASSUME NEW b \in BOOLEAN, SetActive(b) PROVE KeysInv'
  BY <1>4 DEF SetActive, KeysInv, TypeOK, Formed, Exists
<1>5. CASE Tick
  BY <1>5 DEF Tick, KeysInv, TypeOK, Formed, Exists
<1>6. CASE UNCHANGED vars
  BY <1>6 DEF vars, KeysInv, TypeOK, Formed, Exists
<1> QED
  BY <1>1, <1>2, <1>3, <1>4, <1>5, <1>6 DEF Next

-----------------------------------------------------------------------------
(* What a step can do to the keys.                                          *)

(* No key appears and none gains.                                           *)
Fades ==
    \A k \in KeyIds :
        /\ keys'[k].from = keys[k].from /\ keys'[k].grace = keys[k].grace
        /\ keys'[k].expires = keys[k].expires
        /\ Exists(k)' <=> Exists(k)
        /\ Live(k)' => Live(k)

(* Besides inserting an issued key and replacing a rotated one, steps let   *)
(* keys fade.                                                               *)
LEMMA StepOfKeys ==
    ASSUME KeysInv, [Next]_vars
    PROVE  /\ now <= now'
           /\ \/ Fades
              \/ \E h \in Requests, k \in KeyIds : InsertCreated(h, k) \/ ReplaceRotated(h, k)
<1> USE DEF Fades, Exists, Live
<1>0. now \in Nat
  BY DEF KeysInv, TypeOK
<1>1. ASSUME NEW h \in Requests, CreateNext(h) \/ RotateNext(h) \/ Abort(h)
      PROVE  /\ now' = now
             /\ \/ UNCHANGED keys
                \/ \E k \in KeyIds : InsertCreated(h, k) \/ ReplaceRotated(h, k)
  BY <1>1 DEF CreateNext, RotateNext, StartCreate, CountForCreate, InsertCreated, StartRotate,
     CountForRotate, ReplaceRotated, Abort
<1>2. ASSUME NEW k \in KeyIds, Revoke(k) PROVE now' = now /\ Fades
  BY <1>2 DEF Revoke, KeysInv, TypeOK
<1>3. ASSUME \/ \E p \in Policies : UpdateKeyPolicy(p)
             \/ \E b \in BOOLEAN : SetActive(b)
             \/ Tick
             \/ UNCHANGED vars
      PROVE  now <= now' /\ UNCHANGED keys
  BY <1>0, <1>3 DEF UpdateKeyPolicy, SetActive, Tick, vars
<1> QED
  BY <1>0, <1>1, <1>2, <1>3 DEF Next

(* What is left of the other keys when one is inserted.                     *)
LEMMA Insertion ==
    ASSUME KeysInv, NEW h \in Requests, NEW k \in KeyIds, InsertCreated(h, k)
    PROVE  /\ ~Exists(k) /\ keys'[k] = NewKey(h, None) /\ keys'[k].from = None
           /\ \A j \in KeyIds : j # k => keys'[j] = keys[j]
           /\ now' = now
BY DEF InsertCreated, KeysInv, TypeOK, NewKey

(* And when one replaces another.                                           *)
LEMMA Replacement ==
    ASSUME KeysInv, NEW h \in Requests, NEW k \in KeyIds, ReplaceRotated(h, k)
    PROVE  LET old == requests[h].key IN
           /\ ~Exists(k) /\ old \in KeyIds /\ old # k /\ Exists(old)
           /\ keys'[k] = NewKey(h, old) /\ keys'[k].from = old
           /\ keys'[old] = Replaced(keys[old], h)
           /\ \A j \in KeyIds : j \notin {k, old} => keys'[j] = keys[j]
           /\ now' = now
<1>1. requests[h].key \in KeyIds /\ Exists(requests[h].key)
  BY DEF ReplaceRotated, KeysInv, Formed
<1> QED
  BY <1>1 DEF ReplaceRotated, KeysInv, TypeOK, NewKey

(* A key that exists keeps its place, and neither its status nor its expiry *)
(* ever improves.                                                           *)
LEMMA NothingGains ==
    ASSUME KeysInv, [Next]_vars, NEW k \in KeyIds, Exists(k)
    PROVE  /\ keys'[k].from = keys[k].from /\ keys'[k].grace = keys[k].grace
           /\ keys'[k].expires <= keys[k].expires
           /\ Exists(k)'
           /\ Live(k)' => Live(k)
           /\ Active(k)' => Active(k)
<1>1. keys[k] \in Key /\ keys'[k] \in Key /\ now \in Nat /\ now' \in Nat
  BY StepTypes DEF KeysInv, TypeOK
<1>2. keys[k].expires \in Nat /\ keys'[k].expires \in Nat
  BY <1>1 DEF Key
<1>3. /\ keys'[k].from = keys[k].from /\ keys'[k].grace = keys[k].grace
      /\ keys'[k].expires <= keys[k].expires
      /\ Exists(k)'
      /\ Live(k)' => Live(k)
  <2>1. CASE Fades
    BY <1>2, <2>1 DEF Fades
  <2>2. ASSUME NEW h \in Requests, NEW j \in KeyIds, InsertCreated(h, j)
        PROVE  keys'[k] = keys[k]
    BY <2>2, Insertion
  <2>3. ASSUME NEW h \in Requests, NEW j \in KeyIds, ReplaceRotated(h, j)
        PROVE  keys'[k] = keys[k] \/ keys'[k] = Replaced(keys[k], h)
    BY <2>3, Replacement
  <2>4. ASSUME NEW h \in Requests, keys'[k] = Replaced(keys[k], h)
        PROVE  /\ keys'[k].from = keys[k].from /\ keys'[k].grace = keys[k].grace
               /\ keys'[k].expires <= keys[k].expires
               /\ keys'[k].status \in {keys[k].status, "revoked"}
    BY <2>4, ReplacedFades DEF KeysInv
  <2> QED
    BY <1>2, <2>1, <2>2, <2>3, <2>4, StepOfKeys DEF Exists, Live
<1>4. now <= now'
  BY StepOfKeys
<1> QED
  BY <1>1, <1>2, <1>3, <1>4 DEF Active, Live

(* Every reachable state is well typed and well formed.                     *)
THEOREM KeysAreSound == Spec => []KeysInv
<1> QED
  BY InitialKeys, StepTypes, PTL DEF Spec

(* The type invariant, on its own.                                          *)
THEOREM RowsAreTyped == Spec => []TypeOK
<1>1. KeysInv => TypeOK
  BY DEF KeysInv
<1> QED
  BY <1>1, KeysAreSound, PTL

(* A key that has expired or been revoked never lives again.                *)
THEOREM TheDeadStayDead == Spec => DeadStaysDead
<1>1. KeysInv /\ [Next]_vars => [\A k \in KeyIds : Exists(k) /\ ~Active(k) => ~Active(k)']_vars
  BY NothingGains
<1> QED
  BY <1>1, KeysAreSound, PTL DEF Spec, DeadStaysDead

-----------------------------------------------------------------------------
(* The promise of grace.                                                    *)

(* Every step keeps the promises made, and rotation makes one it keeps.     *)
LEMMA StepOfGrace == KeysInv /\ GraceIsKept /\ [Next]_vars => GraceIsKept'
<1> SUFFICES ASSUME KeysInv, GraceIsKept, [Next]_vars,
                    NEW k \in KeyIds, keys'[k].from # None,
                    keys'[keys'[k].from].status = "live"
             PROVE  keys'[keys'[k].from].expires <= keys'[k].grace
  BY DEF GraceIsKept, Live
<1> DEFINE old == keys'[k].from
<1>1. old \in KeyIds
  BY StepTypes DEF KeysInv, TypeOK, Key
<1>2. CASE Exists(k)
  <2>1. keys[k].from = old /\ keys'[k].grace = keys[k].grace /\ Exists(old)
    BY <1>2, NothingGains DEF KeysInv, Formed
  <2>2. keys'[old].expires <= keys[old].expires /\ Live(old)
    BY <1>1, <2>1, NothingGains DEF Live
  <2>3. keys[old].expires <= keys[k].grace
    BY <2>1, <2>2 DEF GraceIsKept
  <2>4. keys[old].expires \in Nat /\ keys'[old].expires \in Nat /\ keys[k].grace \in Nat
    BY <1>1, StepTypes DEF KeysInv, TypeOK, Key
  <2> QED
    BY <2>1, <2>2, <2>3, <2>4
<1>3. CASE ~Exists(k)
  <2>1. keys[k].from = None
    BY <1>3 DEF KeysInv, Formed
  <2>2. ~Fades
    BY <2>1 DEF Fades
  <2>3. PICK h \in Requests, j \in KeyIds : InsertCreated(h, j) \/ ReplaceRotated(h, j)
    BY <2>2, StepOfKeys
  <2>4. ReplaceRotated(h, j)
    BY <2>1, <2>3, Insertion
  <2>5. requests[h].key \in KeyIds /\ requests[h].key # k
    BY <1>3, <2>4, Replacement
  <2>6. k = j
    BY <2>1, <2>4, <2>5, Replacement
  <2>7. keys'[k] = NewKey(h, old) /\ keys'[old] = Replaced(keys[old], h)
    BY <2>4, <2>6, Replacement
  <2>8. keys'[old].expires <= requests[h].grace
    BY <1>1, <2>7, ReplacedFades DEF KeysInv
  <2> QED
    BY <2>7, <2>8 DEF NewKey
<1> QED
  BY <1>2, <1>3

(* A rotated key is accepted no longer than the user was told.              *)
THEOREM PromisesAreKept == Spec => []GraceIsKept
<1>1. Init => GraceIsKept
  BY DEF Init, GraceIsKept, NoKey
<1> QED
  BY <1>1, StepOfGrace, KeysAreSound, PTL DEF Spec

-----------------------------------------------------------------------------
(* The limit on issued keys.                                                *)

(* One issue at a time holds the user's row, the user is active meanwhile,  *)
(* and there is room for the key it is about to insert.                     *)
IssueFits ==
    /\ \A g, h \in Requests :
            requests[g].pc = "insert" /\ requests[h].pc = "insert" => g = h
    /\ Cardinality(Issued) <= MaxKeys
    /\ UserLocked => active /\ Cardinality(Issued) + 1 <= MaxKeys

(* All sets of keys and requests are finite.                                *)
LEMMA FiniteKeys == \A S \in SUBSET KeyIds : IsFiniteSet(S) /\ Cardinality(S) \in Nat
BY KeysAssumption, FS_Subset, FS_CardinalityType
LEMMA FiniteRequests == \A S \in SUBSET Requests : IsFiniteSet(S) /\ Cardinality(S) \in Nat
BY KeysAssumption, FS_Subset, FS_CardinalityType

(* A set of keys that is part of another, or of another and one more.       *)
LEMMA Smaller ==
    ASSUME NEW S \in SUBSET KeyIds, NEW T \in SUBSET S
    PROVE  Cardinality(T) <= Cardinality(S)
BY FiniteKeys, FS_Subset
LEMMA OneMore ==
    ASSUME NEW S \in SUBSET KeyIds, NEW x, NEW T \in SUBSET (S \cup {x})
    PROVE  Cardinality(T) <= Cardinality(S) + 1
<1>1. IsFiniteSet(S) /\ Cardinality(S) \in Nat
  BY FiniteKeys
<1>2. IsFiniteSet(S \cup {x}) /\ Cardinality(S \cup {x}) <= Cardinality(S) + 1
  <2>1. /\ IsFiniteSet(S \cup {x})
        /\ Cardinality(S \cup {x}) = IF x \in S THEN Cardinality(S) ELSE Cardinality(S) + 1
    BY <1>1, FS_AddElement
  <2> QED
    BY <1>1, <2>1
<1>3. Cardinality(T) <= Cardinality(S \cup {x}) /\ IsFiniteSet(T)
  BY <1>2, FS_Subset
<1>4. Cardinality(T) \in Nat /\ Cardinality(S \cup {x}) \in Nat
  BY <1>2, <1>3, FS_CardinalityType
<1> QED
  BY <1>1, <1>2, <1>3, <1>4

(* The limit in force is one from 1 to MaxKeys.                             *)
LEMMA Limits == KeysInv => policy.max \in Nat \ {0} /\ policy.max <= MaxKeys /\ MaxKeys \in Nat
BY KeysAssumption DEF KeysInv, TypeOK, Policy

(* Whatever is not an insertion adds nothing to the issued keys.            *)
LEMMA IssuedShrinks ==
    ASSUME KeysInv, [Next]_vars,
           ~\E h \in Requests, k \in KeyIds : InsertCreated(h, k)
    PROVE  Issued' \subseteq Issued
<1> SUFFICES ASSUME NEW k \in KeyIds, Active(k)', keys'[k].from = None
             PROVE  Active(k) /\ keys[k].from = None
  BY DEF Issued, ActiveKeys
<1>1. CASE Exists(k)
  BY <1>1, NothingGains
<1>2. CASE ~Exists(k)
  <2>1. ~Fades
    BY <1>2 DEF Fades, Active, Live, Exists
  <2>2. PICK h \in Requests, j \in KeyIds : ReplaceRotated(h, j)
    BY <2>1, StepOfKeys
  <2>3. requests[h].key \in KeyIds /\ requests[h].key # k
    BY <1>2, <2>2, Replacement
  <2>4. k # j
    BY <2>2, <2>3, Replacement, KeysAssumption
  <2> QED
    BY <1>2, <2>2, <2>3, <2>4, Replacement DEF Active, Live, Exists
<1> QED
  BY <1>1, <1>2

(* An insertion adds one.                                                   *)
LEMMA IssuedGrows ==
    ASSUME KeysInv, NEW h \in Requests, NEW k \in KeyIds, InsertCreated(h, k)
    PROVE  Issued' \subseteq Issued \cup {k}
BY Insertion DEF Issued, ActiveKeys, Active, Live

(* Where the row of the user stays free, or with the same holder.           *)
LEMMA SameHolder ==
    ASSUME KeysInv, IssueFits, Issued' \subseteq Issued,
           UserLocked => active' = active,
           \A h \in Requests : requests'[h].pc = "insert" => requests[h].pc = "insert"
    PROVE  IssueFits'
<1>1. Issued \in SUBSET KeyIds /\ Issued' \in SUBSET KeyIds
  BY DEF Issued, ActiveKeys
<1>2. Cardinality(Issued') <= Cardinality(Issued)
  BY <1>1, Smaller
<1>3. Cardinality(Issued) \in Nat /\ Cardinality(Issued') \in Nat /\ MaxKeys \in Nat
  BY <1>1, FiniteKeys, KeysAssumption
<1>4. UserLocked' => UserLocked
  BY DEF UserLocked
<1> QED
  BY <1>2, <1>3, <1>4 DEF IssueFits

(* Only the count of an issue locks the user's row, and whoever holds it    *)
(* keeps the user as it is.                                                 *)
LEMMA OnlyCountingLocks ==
    ASSUME KeysInv, [Next]_vars, ~\E h \in Requests : CountForCreate(h)
    PROVE  /\ UserLocked => active' = active
           /\ \A h \in Requests : requests'[h].pc = "insert" => requests[h].pc = "insert"
<1>1. ASSUME NEW h \in Requests, NEW r, Goto(h, r), r.pc # "insert"
      PROVE  \A g \in Requests : requests'[g].pc = "insert" => requests[g].pc = "insert"
  BY <1>1 DEF Goto, KeysInv, TypeOK
<1>2. ASSUME NEW h \in Requests, CreateNext(h) \/ RotateNext(h) \/ Abort(h)
      PROVE  active' = active /\ \E r : r.pc # "insert" /\ Goto(h, r)
  <2>1. ASSUME StartCreate(h) PROVE active' = active /\ \E r : r.pc # "insert" /\ Goto(h, r)
    BY <2>1 DEF StartCreate, NoRequest
  <2>2. ASSUME NEW k \in KeyIds, StartRotate(h, k)
        PROVE  active' = active /\ \E r : r.pc # "insert" /\ Goto(h, r)
    BY <2>2 DEF StartRotate, NoRequest
  <2>3. ASSUME CountForRotate(h) PROVE active' = active /\ \E r : r.pc # "insert" /\ Goto(h, r)
    BY <2>3 DEF CountForRotate, KeysInv, TypeOK, Request
  <2>4. ASSUME \/ Abort(h)
               \/ \E k \in KeyIds : InsertCreated(h, k) \/ ReplaceRotated(h, k)
        PROVE  active' = active /\ \E r : r.pc # "insert" /\ Goto(h, r)
    BY <2>4 DEF Abort, InsertCreated, ReplaceRotated, Finish, NoRequest
  <2> QED
    BY <1>2, <2>1, <2>2, <2>3, <2>4 DEF CreateNext, RotateNext
<1>3. ASSUME \/ \E k \in KeyIds : Revoke(k)
             \/ \E p \in Policies : UpdateKeyPolicy(p)
             \/ \E b \in BOOLEAN : SetActive(b)
             \/ Tick
             \/ UNCHANGED vars
      PROVE  requests' = requests /\ (UserLocked => active' = active)
  BY <1>3 DEF Revoke, UpdateKeyPolicy, SetActive, Tick, vars
<1> QED
  BY <1>1, <1>2, <1>3 DEF Next

(* Every step leaves room for the issue that holds the lock.                *)
LEMMA StepOfIssue == KeysInv /\ IssueFits /\ [Next]_vars => IssueFits'
<1> SUFFICES ASSUME KeysInv, IssueFits, [Next]_vars PROVE IssueFits'
  OBVIOUS
<1>0. Issued \in SUBSET KeyIds /\ ActiveKeys \in SUBSET KeyIds /\ Issued \in SUBSET ActiveKeys
  BY DEF Issued, ActiveKeys
<1>1. ASSUME NEW h \in Requests, CountForCreate(h) PROVE IssueFits'
  <2>1. Issued' = Issued
    BY <1>1 DEF CountForCreate, Issued, ActiveKeys, Active, Live
  <2>2. Cardinality(Issued) <= Cardinality(ActiveKeys)
    BY <1>0, Smaller
  <2>3. Cardinality(ActiveKeys) < policy.max
    BY <1>1 DEF CountForCreate
  <2>4. Cardinality(Issued) + 1 <= MaxKeys
    BY <1>0, <2>2, <2>3, Limits, FiniteKeys
  <2>5. \A g \in Requests : requests'[g].pc = "insert" => g = h
    BY <1>1 DEF CountForCreate, UserLocked, Goto, KeysInv, TypeOK
  <2> QED
    BY <1>1, <2>1, <2>4, <2>5 DEF CountForCreate, IssueFits
<1>2. ASSUME NEW h \in Requests, NEW k \in KeyIds, InsertCreated(h, k) PROVE IssueFits'
  <2>1. UserLocked
    BY <1>2 DEF InsertCreated, UserLocked
  <2>2. Cardinality(Issued') <= Cardinality(Issued) + 1
    <3>1. Issued' \in SUBSET (Issued \cup {k})
      BY <1>2, IssuedGrows
    <3> QED
      BY <1>0, <3>1, OneMore
  <2>3. Cardinality(Issued') <= MaxKeys
    <3>1. Issued' \in SUBSET KeyIds
      BY DEF Issued, ActiveKeys
    <3> QED
      BY <1>0, <2>1, <2>2, <3>1, FiniteKeys, Limits DEF IssueFits
  <2>4. \A g \in Requests : requests'[g].pc # "insert"
    BY <1>2 DEF InsertCreated, IssueFits, Finish, Goto, NoRequest, KeysInv, TypeOK
  <2> QED
    BY <2>3, <2>4 DEF IssueFits, UserLocked
<1>3. CASE ~\E h \in Requests : CountForCreate(h) \/ \E k \in KeyIds : InsertCreated(h, k)
  <2>1. Issued' \subseteq Issued
    BY <1>3, IssuedShrinks
  <2>2. /\ UserLocked => active' = active
        /\ \A h \in Requests : requests'[h].pc = "insert" => requests[h].pc = "insert"
    BY <1>3, OnlyCountingLocks
  <2> QED
    BY <2>1, <2>2, SameHolder
<1> QED
  BY <1>1, <1>2, <1>3

(* There are no keys at first.                                              *)
LEMMA InitialIssue == Init => IssueFits
<1> SUFFICES ASSUME Init PROVE IssueFits
  OBVIOUS
<1>1. Issued = {}
  BY DEF Init, NoKey, Issued, ActiveKeys, Active, Live
<1> QED
  BY <1>1, FS_EmptySet, KeysAssumption DEF Init, NoRequest, IssueFits, UserLocked

(* Issue keeps the limit, however many requests overlap.                    *)
THEOREM IssueKeepsTheLimit == Spec => []IssuedWithinLimit
<1>1. IssueFits => IssuedWithinLimit
  BY DEF IssueFits, IssuedWithinLimit
<1> QED
  BY <1>1, InitialIssue, StepOfIssue, KeysAreSound, PTL DEF Spec

(* Nobody who has been deactivated is issued a key.                         *)
THEOREM OnlyTheActiveAreIssued == Spec => IssuedToActive
<1>1. KeysInv /\ IssueFits /\ [Next]_vars =>
        [\A k \in KeyIds : ~Exists(k) /\ Exists(k)' /\ keys'[k].from = None => active']_vars
  <2> SUFFICES ASSUME KeysInv, IssueFits, [Next]_vars,
                      NEW k \in KeyIds, ~Exists(k), Exists(k)', keys'[k].from = None
               PROVE  active'
    OBVIOUS
  <2>1. ~Fades
    BY DEF Fades
  <2>2. PICK h \in Requests, j \in KeyIds : InsertCreated(h, j) \/ ReplaceRotated(h, j)
    BY <2>1, StepOfKeys
  <2>3. CASE InsertCreated(h, j)
    BY <2>3 DEF InsertCreated, IssueFits, UserLocked
  <2>4. CASE ReplaceRotated(h, j)
    BY <2>4, Replacement, KeysAssumption DEF Exists
  <2> QED
    BY <2>2, <2>3, <2>4
<1> QED
  BY <1>1, InitialIssue, StepOfIssue, KeysAreSound, PTL DEF Spec, IssuedToActive

-----------------------------------------------------------------------------
(* The limit on current keys.                                               *)

(* Requests that have counted and not yet inserted, and the keys rotations  *)
(* among them are about to replace.                                         *)
Pending == {h \in Requests : requests[h].pc \in {"insert", "replace"}}
Held == {k \in KeyIds : KeyLocked(k)}
Lasting == Current \ Held

(* Each pending request may still add a key to those that nobody is about   *)
(* to replace.                                                              *)
RotationsFit == Cardinality(Lasting) + Cardinality(Pending) + 1
                    <= MaxKeys + Cardinality(Requests)

(* The sets involved, and their sizes, are what they seem.                  *)
LEMMA Sizes ==
    /\ Lasting \in SUBSET KeyIds /\ Current \in SUBSET ActiveKeys /\ ActiveKeys \in SUBSET KeyIds
    /\ Pending \in SUBSET Requests
    /\ Cardinality(Lasting) \in Nat /\ Cardinality(Pending) \in Nat
    /\ Cardinality(Requests) \in Nat /\ MaxKeys \in Nat
<1>1. /\ Lasting \in SUBSET KeyIds /\ Current \in SUBSET ActiveKeys
      /\ ActiveKeys \in SUBSET KeyIds /\ Pending \in SUBSET Requests
  BY DEF Lasting, Current, ActiveKeys, Pending
<1> QED
  BY <1>1, FiniteKeys, FiniteRequests, KeysAssumption

(* The same requests are pending and no key is added.                       *)
LEMMA NoneAdded ==
    ASSUME RotationsFit, Pending' = Pending, Lasting' \subseteq Lasting
    PROVE  RotationsFit'
<1>1. Cardinality(Lasting') <= Cardinality(Lasting)
  BY Sizes, Smaller
<1>2. Cardinality(Lasting') \in Nat
  BY Sizes, FiniteKeys
<1> QED
  BY <1>1, <1>2, Sizes DEF RotationsFit

(* A pending request is over and one key is added.                          *)
LEMMA OneAdded ==
    ASSUME RotationsFit, NEW h \in Pending, Pending' = Pending \ {h},
           NEW x, Lasting' \subseteq Lasting \cup {x}, Lasting' \in SUBSET KeyIds
    PROVE  RotationsFit'
<1>1. Cardinality(Lasting') <= Cardinality(Lasting) + 1
  BY Sizes, OneMore
<1>2. Cardinality(Lasting') \in Nat
  BY FiniteKeys
<1>3. Cardinality(Pending') = Cardinality(Pending) - 1
  BY Sizes, FiniteRequests, FS_RemoveElement
<1> QED
  BY <1>1, <1>2, <1>3, Sizes DEF RotationsFit

(* A request that has counted less than the limit becomes pending.          *)
LEMMA OneCounted ==
    ASSUME KeysInv, NEW S \in SUBSET KeyIds, Cardinality(S) < policy.max,
           Lasting' \in SUBSET S
    PROVE  RotationsFit'
<1>1. Cardinality(Lasting') <= Cardinality(S)
  BY Smaller
<1>2. Cardinality(Lasting') + 1 <= MaxKeys /\ Cardinality(Lasting') \in Nat
  BY <1>1, FiniteKeys, Limits
<1>3. Pending' \in SUBSET Requests
  BY DEF Pending
<1>4. Cardinality(Pending') <= Cardinality(Requests) /\ Cardinality(Pending') \in Nat
  BY <1>3, FiniteRequests, FS_Subset
<1> QED
  BY <1>2, <1>4, Sizes DEF RotationsFit

(* Unless a key is inserted, none becomes current.                          *)
LEMMA CurrentShrinks ==
    ASSUME KeysInv, [Next]_vars,
           ~\E h \in Requests, k \in KeyIds : InsertCreated(h, k) \/ ReplaceRotated(h, k)
    PROVE  Current' \subseteq Current
<1>1. Fades
  BY StepOfKeys
<1>2. \A k \in KeyIds : Active(k)' => Active(k)
  BY <1>1, NothingGains DEF Fades, Active, Live, Exists
<1>3. \A k \in KeyIds : keys'[k].from = keys[k].from
  BY <1>1 DEF Fades
<1> QED
  BY <1>2, <1>3 DEF Current, ActiveKeys, Superseded

(* Insertion makes one key current.                                         *)
LEMMA CurrentAfterInsertion ==
    ASSUME KeysInv, NEW h \in Requests, NEW k \in KeyIds, InsertCreated(h, k)
    PROVE  Current' \subseteq Current \cup {k}
<1>1. \A j \in KeyIds : j # k => (Active(j)' => Active(j))
  BY Insertion DEF Active, Live
<1>2. \A j \in KeyIds : Superseded(j) => Superseded(j)'
  BY Insertion, KeysAssumption DEF Superseded, KeysInv, Formed
<1> QED
  BY <1>1, <1>2 DEF Current, ActiveKeys

(* Replacement makes one key current, and the old one no more.              *)
LEMMA CurrentAfterReplacement ==
    ASSUME KeysInv, NEW h \in Requests, NEW k \in KeyIds, ReplaceRotated(h, k)
    PROVE  Current' \subseteq (Current \ {requests[h].key}) \cup {k}
<1> DEFINE old == requests[h].key
<1>1. \A j \in KeyIds \ {k, old} : Active(j)' => Active(j)
  BY Replacement DEF Active, Live
<1>2. \A j \in KeyIds : j = old => Superseded(j)'
  BY Replacement DEF Superseded
<1>3. \A j \in KeyIds : Superseded(j) => Superseded(j)'
  <2>1. \A i \in KeyIds : Exists(i) => keys'[i].from = keys[i].from
    <3>1. Replaced(keys[old], h).from = keys[old].from
      BY Replacement, ReplacedFades DEF KeysInv
    <3> QED
      BY <3>1, Replacement
  <2>2. \A i \in KeyIds : ~Exists(i) => keys[i].from = None
    BY DEF KeysInv, Formed
  <2> QED
    BY <2>1, <2>2, KeysAssumption DEF Superseded
<1> QED
  BY <1>1, <1>2, <1>3 DEF Current, ActiveKeys

(* What a handler's end does to the pending requests and the keys held.     *)
LEMMA AfterEnd ==
    ASSUME KeysInv, NEW h \in Requests, Finish(h)
    PROVE  /\ Pending' = Pending \ {h}
           /\ requests[h].pc = "replace" => Held \subseteq Held' \cup {requests[h].key}
           /\ requests[h].pc # "replace" => Held' = Held
<1>1. \A g \in Requests : requests'[g] = IF g = h THEN NoRequest ELSE requests[g]
  BY DEF Finish, Goto, KeysInv, TypeOK
<1>2. NoRequest.pc = "idle"
  BY DEF NoRequest
<1> QED
  BY <1>1, <1>2 DEF Pending, Held, KeyLocked

(* Every step keeps the balance.                                            *)
LEMMA StepOfRotations == KeysInv /\ RotationsFit /\ [Next]_vars => RotationsFit'
<1> SUFFICES ASSUME KeysInv, RotationsFit, [Next]_vars PROVE RotationsFit'
  OBVIOUS
<1>1. ASSUME NEW h \in Requests, CountForCreate(h) PROVE RotationsFit'
  <2>1. Lasting' \in SUBSET ActiveKeys /\ Cardinality(ActiveKeys) < policy.max
    BY <1>1 DEF CountForCreate, Lasting, Current, ActiveKeys, Active, Live
  <2> QED
    BY <2>1, Sizes, OneCounted
<1>2. ASSUME NEW h \in Requests, CountForRotate(h) PROVE RotationsFit'
  <2> DEFINE old == requests[h].key
  <2>1. Current' \subseteq ActiveKeys /\ Cardinality(ActiveKeys \ {old}) < policy.max
    BY <1>2 DEF CountForRotate, Current, ActiveKeys, Active, Live
  <2>2. old \in Held'
    <3>1. requests'[h].pc = "replace" /\ requests'[h].key = old
      BY <1>2 DEF CountForRotate, Goto, KeysInv, TypeOK, Request
    <3>2. old \in KeyIds
      BY <1>2 DEF CountForRotate, KeysInv, Formed
    <3> QED
      BY <3>1, <3>2 DEF Held, KeyLocked
  <2>3. Lasting' \in SUBSET (ActiveKeys \ {old})
    BY <2>1, <2>2 DEF Lasting
  <2> QED
    BY <2>1, <2>3, Sizes, OneCounted
<1>3. ASSUME NEW h \in Requests, NEW k \in KeyIds, InsertCreated(h, k) PROVE RotationsFit'
  <2>1. h \in Pending /\ requests[h].pc # "replace" /\ Finish(h)
    BY <1>3 DEF InsertCreated, Pending
  <2>2. Lasting' \subseteq Lasting \cup {k} /\ Lasting' \in SUBSET KeyIds
    BY <1>3, <2>1, CurrentAfterInsertion, AfterEnd DEF Lasting, Current, ActiveKeys
  <2> QED
    BY <2>1, <2>2, AfterEnd, OneAdded
<1>4. ASSUME NEW h \in Requests, NEW k \in KeyIds, ReplaceRotated(h, k) PROVE RotationsFit'
  <2>1. h \in Pending /\ requests[h].pc = "replace" /\ Finish(h)
    BY <1>4 DEF ReplaceRotated, Pending
  <2>2. Lasting' \subseteq Lasting \cup {k} /\ Lasting' \in SUBSET KeyIds
    BY <1>4, <2>1, CurrentAfterReplacement, AfterEnd, Sizes DEF Lasting, Current, ActiveKeys
  <2> QED
    BY <2>1, <2>2, AfterEnd, OneAdded
<1>5. ASSUME NEW h \in Requests, Abort(h) PROVE RotationsFit'
  <2>1. Finish(h) /\ Current' = Current
    BY <1>5 DEF Abort, Current, ActiveKeys, Active, Live, Superseded
  <2>2. CASE h \in Pending
    <3>1. Lasting' \subseteq Lasting \cup {requests[h].key} /\ Lasting' \in SUBSET KeyIds
      BY <2>1, AfterEnd, Sizes DEF Lasting, Current, ActiveKeys
    <3> QED
      BY <2>1, <2>2, <3>1, AfterEnd, OneAdded
  <2>3. CASE h \notin Pending
    <3>1. Pending' = Pending /\ Held' = Held
      BY <2>1, <2>3, AfterEnd DEF Pending
    <3> QED
      BY <2>1, <3>1, NoneAdded DEF Lasting
  <2> QED
    BY <2>2, <2>3
<1>6. CASE ~\E h \in Requests :
             \/ CountForCreate(h) \/ CountForRotate(h) \/ Abort(h)
             \/ \E k \in KeyIds : InsertCreated(h, k) \/ ReplaceRotated(h, k)
  <2>1. Current' \subseteq Current
    BY <1>6, CurrentShrinks
  <2>2. Pending' = Pending /\ Held' = Held
    <3>1. ASSUME NEW h \in Requests, NEW r, Goto(h, r), requests[h].pc = "idle",
                 r.pc \in {"create", "rotate"}
          PROVE  Pending' = Pending /\ Held' = Held
      <4>1. \A g \in Requests : requests'[g] = IF g = h THEN r ELSE requests[g]
        BY <3>1 DEF Goto, KeysInv, TypeOK
      <4> QED
        BY <3>1, <4>1 DEF Pending, Held, KeyLocked
    <3>2. ASSUME NEW h \in Requests, StartCreate(h) PROVE Pending' = Pending /\ Held' = Held
      <4> DEFINE r == [NoRequest EXCEPT !.pc = "create", !.expires = now + policy.expiry]
      <4>1. r.pc = "create"
        BY DEF NoRequest
      <4> QED
        BY <3>1, <3>2, <4>1 DEF StartCreate
    <3>3. ASSUME NEW h \in Requests, NEW k \in KeyIds, StartRotate(h, k)
          PROVE  Pending' = Pending /\ Held' = Held
      <4> DEFINE r == [NoRequest EXCEPT !.pc = "rotate", !.key = k,
                                        !.expires = now + policy.expiry]
      <4>1. r.pc = "rotate"
        BY DEF NoRequest
      <4> QED
        BY <3>1, <3>3, <4>1 DEF StartRotate
    <3>4. CASE requests' = requests
      BY <3>4 DEF Pending, Held, KeyLocked
    <3> QED
      BY <1>6, <3>2, <3>3, <3>4 DEF Next, CreateNext, RotateNext, Revoke, UpdateKeyPolicy,
         SetActive, Tick, vars
  <2> QED
    BY <2>1, <2>2, NoneAdded DEF Lasting
<1> QED
  BY <1>1, <1>2, <1>3, <1>4, <1>5, <1>6

(* Nothing is there and nothing pending at first; some limit is positive.   *)
LEMMA InitialRotations == Init => RotationsFit
<1> SUFFICES ASSUME Init PROVE RotationsFit
  OBVIOUS
<1>1. Lasting = {} /\ Pending = {}
  BY DEF Init, NoKey, NoRequest, Lasting, Current, ActiveKeys, Active, Live, Pending
<1>2. MaxKeys >= 1
  BY InitialKeys, Limits
<1> QED
  BY <1>1, <1>2, FS_EmptySet, Sizes DEF RotationsFit

(* No more keys are held than requests pending.                             *)
LEMMA HeldByPending == Cardinality(Held) <= Cardinality(Pending) /\ Cardinality(Held) \in Nat
<1> DEFINE R == {h \in Requests : requests[h].pc = "replace" /\ requests[h].key \in KeyIds}
           f == [h \in R |-> requests[h].key]
<1>1. f \in Surjection(R, Held)
  BY DEF Surjection, Held, KeyLocked
<1>2. R \in SUBSET Pending
  BY DEF Pending
<1>3. IsFiniteSet(R) /\ IsFiniteSet(Pending)
  BY <1>2, Sizes, FiniteRequests
<1>4. Cardinality(Held) <= Cardinality(R)
  <2> HIDE DEF f, R
  <2> QED
    BY <1>1, <1>3, FS_Surjection
<1>5. Cardinality(R) <= Cardinality(Pending)
  BY <1>2, <1>3, FS_Subset
<1>6. Held \in SUBSET KeyIds
  BY DEF Held
<1>7. Cardinality(R) \in Nat /\ Cardinality(Held) \in Nat
  BY <1>3, <1>6, FiniteKeys, FS_CardinalityType
<1> QED
  BY <1>4, <1>5, <1>7, Sizes

(* Rotations that overlap exceed the limit by their number less one.        *)
THEOREM RotationsKeepTheLimit == Spec => []CurrentWithinLimit
<1>1. RotationsFit => CurrentWithinLimit
  <2>1. Current \in SUBSET (Lasting \cup Held) /\ Held \in SUBSET KeyIds
    BY DEF Lasting, Held
  <2>2. IsFiniteSet(Lasting) /\ IsFiniteSet(Held) /\ IsFiniteSet(Lasting \cup Held)
    BY <2>1, Sizes, FiniteKeys, FS_Union
  <2>3. Lasting \cap Held = {}
    BY DEF Lasting
  <2>4. Cardinality(Lasting \cup Held) = Cardinality(Lasting) + Cardinality(Held)
    BY <2>2, <2>3, HeldByPending, Sizes, FS_Union, FS_EmptySet
  <2>5. Cardinality(Current) <= Cardinality(Lasting \cup Held)
    BY <2>1, <2>2, FS_Subset
  <2>6. Cardinality(Current) \in Nat
    BY Sizes, FiniteKeys
  <2> QED
    BY <2>4, <2>5, <2>6, Sizes, HeldByPending DEF RotationsFit, CurrentWithinLimit
<1> QED
  BY <1>1, InitialRotations, StepOfRotations, KeysAreSound, PTL DEF Spec

-----------------------------------------------------------------------------
(* The rows implement KeyRing.                                              *)

(* The request that holds the user's row has room for its key among all     *)
(* that are valid, those that rotations inserted included.                  *)
Room == UserLocked => Cardinality(ActiveKeys) + 1 <= MaxKeys

(* The key a rotation has locked is not revoked before the rotation ends,   *)
(* and no other rotation has locked it.                                     *)
Turn ==
    \A h \in Requests : requests[h].pc = "replace" =>
        /\ Live(requests[h].key)
        /\ \A g \in Requests :
              requests[g].pc = "replace" /\ requests[g].key = requests[h].key => g = h

RingInv == KeysInv /\ IssueFits /\ Room /\ Turn

(* Every step leaves room for whoever holds the user's row: rotations wait  *)
(* for it, and nothing else adds to the valid keys.                         *)
LEMMA StepOfRoom == KeysInv /\ IssueFits /\ Room /\ [Next]_vars => Room'
<1> SUFFICES ASSUME KeysInv, IssueFits, Room, [Next]_vars, UserLocked'
             PROVE  Cardinality(ActiveKeys') + 1 <= MaxKeys
  BY DEF Room
<1>0. ActiveKeys \in SUBSET KeyIds /\ ActiveKeys' \in SUBSET KeyIds
  BY DEF ActiveKeys
<1>1. CASE \E h \in Requests : CountForCreate(h)
  <2>1. ActiveKeys' = ActiveKeys /\ Cardinality(ActiveKeys) < policy.max
    BY <1>1 DEF CountForCreate, ActiveKeys, Active, Live
  <2> QED
    BY <1>0, <2>1, FiniteKeys, Limits
<1>2. CASE ~\E h \in Requests : CountForCreate(h)
  <2>1. PICK h \in Requests : requests'[h].pc = "insert" /\ requests[h].pc = "insert"
    BY <1>2, OnlyCountingLocks DEF UserLocked
  <2>2. ~\E g \in Requests, k \in KeyIds : InsertCreated(g, k) \/ ReplaceRotated(g, k)
    <3>1. ASSUME NEW g \in Requests, NEW k \in KeyIds, InsertCreated(g, k) PROVE FALSE
      <4>1. g = h
        BY <2>1, <3>1 DEF InsertCreated, IssueFits
      <4> QED
        BY <2>1, <3>1, <4>1 DEF InsertCreated, Finish, Goto, NoRequest, KeysInv, TypeOK
    <3>2. ASSUME NEW g \in Requests, NEW k \in KeyIds, ReplaceRotated(g, k) PROVE FALSE
      BY <2>1, <3>2 DEF ReplaceRotated, UserLocked
    <3> QED
      BY <3>1, <3>2
  <2>3. ActiveKeys' \in SUBSET ActiveKeys
    BY <2>2, StepOfKeys, NothingGains DEF Fades, ActiveKeys, Active, Live, Exists
  <2>4. Cardinality(ActiveKeys') <= Cardinality(ActiveKeys)
    BY <1>0, <2>3, Smaller
  <2> QED
    BY <1>0, <2>1, <2>4, FiniteKeys, Limits DEF Room, UserLocked
<1> QED
  BY <1>1, <1>2

(* Rotations that go on, with the keys they have locked as they were.       *)
LEMMA TurnStays ==
    ASSUME Turn,
           \A h \in Requests : requests'[h].pc = "replace" =>
               requests'[h] = requests[h] /\ keys'[requests[h].key] = keys[requests[h].key]
    PROVE  Turn'
BY DEF Turn, Live

(* Every step respects the locks of rotations.                              *)
LEMMA StepOfTurn == KeysInv /\ Turn /\ [Next]_vars => Turn'
<1> SUFFICES ASSUME KeysInv, Turn, [Next]_vars PROVE Turn'
  OBVIOUS
<1>0. ASSUME NEW h \in Requests, NEW r, Goto(h, r)
      PROVE  \A g \in Requests : requests'[g] = IF g = h THEN r ELSE requests[g]
  BY <1>0 DEF Goto, KeysInv, TypeOK
<1>1. ASSUME NEW h \in Requests, NEW r, Goto(h, r), r.pc # "replace", UNCHANGED keys
      PROVE  Turn'
  BY <1>0, <1>1, TurnStays
<1>2. ASSUME NEW h \in Requests, StartCreate(h) PROVE Turn'
  <2> DEFINE r == [NoRequest EXCEPT !.pc = "create", !.expires = now + policy.expiry]
  <2>1. r.pc = "create"
    BY DEF NoRequest
  <2> QED
    BY <1>1, <1>2, <2>1 DEF StartCreate
<1>3. ASSUME NEW h \in Requests, NEW k \in KeyIds, StartRotate(h, k) PROVE Turn'
  <2> DEFINE r == [NoRequest EXCEPT !.pc = "rotate", !.key = k,
                                    !.expires = now + policy.expiry]
  <2>1. r.pc = "rotate"
    BY DEF NoRequest
  <2> QED
    BY <1>1, <1>3, <2>1 DEF StartRotate
<1>4. ASSUME NEW h \in Requests, CountForCreate(h) PROVE Turn'
  <2>1. [requests[h] EXCEPT !.pc = "insert"].pc = "insert"
    BY DEF KeysInv, TypeOK, Request
  <2> QED
    BY <1>1, <1>4, <2>1 DEF CountForCreate
<1>5. ASSUME NEW h \in Requests, Abort(h) PROVE Turn'
  BY <1>1, <1>5 DEF Abort, Finish, NoRequest
<1>6. ASSUME NEW h \in Requests, NEW k \in KeyIds, InsertCreated(h, k) PROVE Turn'
  <2>1. \A g \in Requests : requests'[g].pc = "replace" => requests'[g] = requests[g]
    BY <1>0, <1>6 DEF InsertCreated, Finish, NoRequest
  <2>2. \A g \in Requests : requests[g].pc = "replace" =>
            keys'[requests[g].key] = keys[requests[g].key]
    BY <1>6, Insertion DEF KeysInv, Formed
  <2> QED
    BY <2>1, <2>2, TurnStays
<1>7. ASSUME NEW h \in Requests, NEW k \in KeyIds, ReplaceRotated(h, k) PROVE Turn'
  <2>1. \A g \in Requests : requests'[g].pc = "replace" => requests'[g] = requests[g] /\ g # h
    BY <1>0, <1>7 DEF ReplaceRotated, Finish, NoRequest
  <2>2. \A g \in Requests : requests[g].pc = "replace" /\ g # h =>
            requests[g].key # requests[h].key
    BY <1>7 DEF ReplaceRotated, Turn
  <2>3. \A g \in Requests : requests[g].pc = "replace" /\ g # h =>
            keys'[requests[g].key] = keys[requests[g].key]
    BY <1>7, <2>2, Replacement DEF KeysInv, Formed
  <2> QED
    BY <2>1, <2>3, TurnStays
<1>8. ASSUME NEW h \in Requests, CountForRotate(h) PROVE Turn'
  <2> DEFINE old == requests[h].key
             r == [requests[h] EXCEPT !.pc = "replace", !.grace = now + policy.grace,
                                      !.cut = policy.grace = 0]
  <2>1. r.key = old
    BY DEF KeysInv, TypeOK, Request
  <2>2. \A g \in Requests : requests'[g] = IF g = h THEN r ELSE requests[g]
    BY <1>0, <1>8 DEF CountForRotate
  <2>3. Live(old) /\ keys' = keys
    BY <1>8 DEF CountForRotate
  <2>4. \A g \in Requests : requests[g].pc = "replace" => requests[g].key # old
    BY <1>8 DEF CountForRotate, KeyLocked
  <2> HIDE DEF r
  <2> QED
    BY <2>1, <2>2, <2>3, <2>4 DEF Turn, Live
<1>9. ASSUME NEW k \in KeyIds, Revoke(k) PROVE Turn'
  <2>1. requests' = requests /\ \A j \in KeyIds \ {k} : keys'[j] = keys[j]
    BY <1>9 DEF Revoke, KeysInv, TypeOK
  <2>2. \A g \in Requests : requests[g].pc = "replace" => requests[g].key \in KeyIds \ {k}
    BY <1>9 DEF Revoke, KeyLocked, KeysInv, Formed
  <2> QED
    BY <2>1, <2>2, TurnStays
<1>10. ASSUME UNCHANGED <<requests, keys>> PROVE Turn'
  BY <1>10 DEF Turn, Live
<1> QED
  BY <1>2, <1>3, <1>4, <1>5, <1>6, <1>7, <1>8, <1>9, <1>10
     DEF Next, CreateNext, RotateNext, UpdateKeyPolicy, SetActive, Tick, vars

(* Types, locks and room, together.                                         *)
LEMMA RingHolds == Spec => []RingInv
<1>1. Init => RingInv
  BY InitialKeys, InitialIssue DEF RingInv, Room, Turn, UserLocked, Init, NoRequest
<1>2. RingInv /\ [Next]_vars => RingInv'
  BY StepTypes, StepOfIssue, StepOfRoom, StepOfTurn DEF RingInv
<1> QED
  BY <1>1, <1>2, PTL DEF Spec

(* The valid keys are those that the limit counts, and counted alike.       *)
LEMMA ValidKeys == Promise!Valid = ActiveKeys
BY DEF Promise!Valid, ActiveKeys, Active, Live
LEMMA SameCount == \A S : Promise!Cardinality(S) = Cardinality(S)
BY DEF Promise!Cardinality, Cardinality, Promise!IsFiniteSet, IsFiniteSet

(* Insertion of an issued key is the issue of a key.                        *)
LEMMA InsertImplements ==
    ASSUME RingInv, NEW h \in Requests, NEW k \in KeyIds, InsertCreated(h, k)
    PROVE  Promise!Issue(k)
<1> USE DEF RingInv
<1>1. /\ ~Exists(k) /\ keys'[k].status = "live"
      /\ \A j \in KeyIds : j # k => keys'[j] = keys[j]
      /\ UNCHANGED <<now, active>>
  <2>1. NewKey(h, None).status = "live"
    BY NewKeyType DEF KeysInv
  <2> QED
    BY <2>1, Insertion DEF InsertCreated
<1>2. active /\ Cardinality(Promise!Valid) < MaxKeys
  <2>1. UserLocked
    BY DEF InsertCreated, UserLocked
  <2>2. Cardinality(ActiveKeys) \in Nat
    BY FiniteKeys DEF ActiveKeys
  <2> QED
    BY <2>1, <2>2, Limits, ValidKeys DEF IssueFits, Room
<1>3. Promise!Unused(k)
  BY <1>1 DEF Promise!Unused, Exists, Live
<1>4. /\ {j \in KeyIds : Live(j)'} = {j \in KeyIds : Live(j)} \cup {k}
      /\ {j \in KeyIds : keys'[j].status = "revoked"} = {j \in KeyIds : keys[j].status = "revoked"}
  BY <1>1 DEF Live, Exists
<1>5. \A j \in KeyIds : Live(j) => Promise!Lasts(j)
  BY <1>1 DEF Promise!Lasts, Live, Exists
<1> QED
  BY <1>1, <1>2, <1>3, <1>4, <1>5, SameCount DEF Promise!Issue

(* Replacement of a rotated key is a rotation, which ends the old key if    *)
(* there is no grace.                                                       *)
LEMMA ReplaceImplements ==
    ASSUME RingInv, NEW h \in Requests, NEW k \in KeyIds, ReplaceRotated(h, k)
    PROVE  Promise!Rotate(requests[h].key, k)
<1> DEFINE old == requests[h].key
           ended == IF requests[h].cut THEN {old} ELSE {}
           new == Replaced(keys[old], h)
<1> USE DEF RingInv
<1>1. /\ ~Exists(k) /\ old \in KeyIds /\ old # k /\ Live(old)
      /\ keys'[k].status = "live" /\ keys'[old] = new
      /\ \A j \in KeyIds : j \notin {k, old} => keys'[j] = keys[j]
      /\ UNCHANGED <<now, active>>
  <2>1. Live(old) /\ UNCHANGED <<now, active>>
    BY DEF ReplaceRotated, Turn
  <2>2. NewKey(h, old).status = "live"
    BY Replacement, NewKeyType DEF KeysInv
  <2> QED
    BY <2>1, <2>2, Replacement
<1>2. /\ new.expires <= keys[old].expires
      /\ new.status = IF requests[h].cut THEN "revoked" ELSE keys[old].status
  <2>1. keys[old] \in Key
    BY <1>1 DEF KeysInv, TypeOK
  <2> QED
    BY <1>1, <2>1, ReplacedFades DEF Replaced, Key, KeysInv
<1>3. Promise!Unused(k)
  BY <1>1 DEF Promise!Unused, Exists, Live
<1>4. /\ ended \in SUBSET {old}
      /\ {j \in KeyIds : Live(j)'} = ({j \in KeyIds : Live(j)} \ ended) \cup {k}
      /\ {j \in KeyIds : keys'[j].status = "revoked"}
             = {j \in KeyIds : keys[j].status = "revoked"} \cup ended
  <2> HIDE DEF new
  <2>1. \A j \in KeyIds : Live(j)' <=> (Live(j) /\ j \notin ended) \/ j = k
    BY <1>1, <1>2 DEF Live, Exists
  <2>2. \A j \in KeyIds : keys'[j].status = "revoked" <=> keys[j].status = "revoked" \/ j \in ended
    BY <1>1, <1>2 DEF Live, Exists
  <2> QED
    BY <1>1, <2>1, <2>2
<1>5. \A j \in KeyIds : Live(j) /\ j # old => Promise!Lasts(j)
  BY <1>1 DEF Promise!Lasts, Live, Exists
<1>6. [j \in KeyIds |-> keys'[j].expires][old] <= [j \in KeyIds |-> keys[j].expires][old]
  BY <1>1, <1>2
<1> HIDE DEF ended, new
<1> QED
  BY <1>1, <1>3, <1>4, <1>5, <1>6 DEF Promise!Rotate

(* A revocation ends the key, or finds it ended.                            *)
LEMMA RevokeImplements ==
    ASSUME RingInv, NEW k \in KeyIds, Revoke(k)
    PROVE  Promise!Revoke(k) \/ UNCHANGED Promise!ring
<1>1. /\ keys'[k].status = "revoked" /\ keys'[k].expires = keys[k].expires
      /\ \A j \in KeyIds : j # k => keys'[j] = keys[j]
      /\ UNCHANGED <<now, active>>
      /\ keys[k].status \in {"live", "revoked"}
  BY DEF Revoke, RingInv, KeysInv, TypeOK, Key, Exists
<1>2. [j \in KeyIds |-> keys'[j].expires] = [j \in KeyIds |-> keys[j].expires]
  BY <1>1
<1>3. CASE Live(k)
  <2>1. /\ {j \in KeyIds : Live(j)'} = {j \in KeyIds : Live(j)} \ {k}
        /\ {j \in KeyIds : keys'[j].status = "revoked"}
               = {j \in KeyIds : keys[j].status = "revoked"} \cup {k}
    BY <1>1 DEF Live
  <2> QED
    BY <1>1, <1>2, <1>3, <2>1 DEF Promise!Revoke
<1>4. CASE ~Live(k)
  <2>1. /\ {j \in KeyIds : Live(j)'} = {j \in KeyIds : Live(j)}
        /\ {j \in KeyIds : keys'[j].status = "revoked"}
               = {j \in KeyIds : keys[j].status = "revoked"}
    BY <1>1, <1>4 DEF Live
  <2> QED
    BY <1>1, <1>2, <2>1 DEF Promise!ring
<1> QED
  BY <1>3, <1>4

(* Steps that touch neither the rows, the user nor the clock are unseen.    *)
LEMMA Unseen == UNCHANGED <<now, active, keys>> => UNCHANGED Promise!ring
BY DEF Promise!ring, Live

(* Every step of the rows is one of the keys or stutters.                   *)
LEMMA StepOfRing == RingInv /\ [Next]_vars => [Promise!Next]_(Promise!ring)
<1> SUFFICES ASSUME RingInv, [Next]_vars PROVE [Promise!Next]_(Promise!ring)
  OBVIOUS
<1>1. ASSUME NEW h \in Requests, NEW k \in KeyIds, InsertCreated(h, k) PROVE Promise!Next
  BY <1>1, InsertImplements DEF Promise!Next
<1>2. ASSUME NEW h \in Requests, NEW k \in KeyIds, ReplaceRotated(h, k) PROVE Promise!Next
  <2>1. requests[h].key \in KeyIds
    BY <1>2, Replacement DEF RingInv
  <2> QED
    BY <1>2, <2>1, ReplaceImplements DEF Promise!Next
<1>3. ASSUME NEW k \in KeyIds, Revoke(k) PROVE [Promise!Next]_(Promise!ring)
  BY <1>3, RevokeImplements DEF Promise!Next
<1>4. ASSUME NEW b \in BOOLEAN, SetActive(b) PROVE Promise!Permit
  <2>1. active' = ~active
    BY <1>4 DEF SetActive, RingInv, KeysInv, TypeOK
  <2>2. UNCHANGED <<now, keys>>
    BY <1>4 DEF SetActive
  <2> QED
    BY <2>1, <2>2 DEF Promise!Permit, Live
<1>5. CASE Tick
  BY <1>5 DEF Tick, Promise!Next, Promise!Pass, Live
<1>6. ASSUME \/ \E h \in Requests :
                   \/ StartCreate(h) \/ CountForCreate(h) \/ CountForRotate(h) \/ Abort(h)
                   \/ \E k \in KeyIds : StartRotate(h, k)
             \/ \E p \in Policies : UpdateKeyPolicy(p)
             \/ UNCHANGED vars
      PROVE  UNCHANGED Promise!ring
  BY <1>6, Unseen DEF StartCreate, CountForCreate, CountForRotate, Abort, StartRotate,
     UpdateKeyPolicy, vars
<1> QED
  BY <1>1, <1>2, <1>3, <1>4, <1>5, <1>6 DEF Next, CreateNext, RotateNext, Promise!Next

(* Whatever requests overlap, a user's keys are those of somebody who       *)
(* issues, rotates and revokes them one at a time: every issue finds room   *)
(* and an active user when it is committed, and no revoked key is replaced. *)
THEOREM RowsKeepPromise == Spec => KeyRingKept
<1>1. Init => Promise!Init
  BY DEF Init, NoKey, Promise!Init, Live
<1> QED
  BY <1>1, StepOfRing, RingHolds, PTL DEF Spec, KeyRingKept, Promise!Spec
=============================================================================
