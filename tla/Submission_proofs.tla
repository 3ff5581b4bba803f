-------------------------- MODULE Submission_proofs --------------------------
(* Proofs about Submission: for every number of forms, names and documents,   *)
(* types, that a form that says it is done has done all of its save, and how  *)
(* far uploads at once may pass the limit.                                    *)
EXTENDS Submission, FiniteSetTheorems, TLAPS

(* The inductive invariant.  Identifiers are handed out in order, so that no  *)
(* document stored later is one that was marked; what a save set out to do is *)
(* done or still to do; a save that is over has nothing left; and every count *)
(* that is not yet used leaves room for its own upload. *)
Ids ==
  /\ \A d \in docs : d.id <= made
  /\ \A f \in Form : \A d \in Documents(f) : d.id <= made
  /\ \A f \in Form : \A i \in removed[f] : i <= made
  /\ \A f \in Form : \A i \in start[f].del : i <= made

Whole ==
  \A f \in Form :
    /\ start[f].up \subseteq stored[f] \cup left[f].up
    /\ \A d \in docs : d.id \in start[f].del => d.id \in left[f].del

Ended ==
  \A f \in Form :
    /\ save[f] # "documents" => left[f] = Nothing /\ counted[f] = None
    /\ screen[f] = "done" => save[f] = "idle"
    /\ counted[f] # None => counted[f] \in left[f].up

IInv == TypeOK /\ Ids /\ Whole /\ Ended

-----------------------------------------------------------------------------
LEMMA NothingType == Nothing \in Work /\ Nothing.del = {} /\ Nothing.up = {}
BY DEF Nothing, Work

(* A function with one value replaced. *)
LEMMA OneChanged ==
  ASSUME NEW S, NEW g \in [Form -> S], NEW f \in Form, NEW v \in S,
         NEW h, h = [g EXCEPT ![f] = v]
  PROVE  /\ h \in [Form -> S]
         /\ h[f] = v
         /\ \A x \in Form : x # f => h[x] = g[x]
OBVIOUS

LEMMA InitInv == Init => IInv
<1> SUFFICES ASSUME Init PROVE IInv
  OBVIOUS
<1>1. docs = {} \/ \E n \in Name : docs = {[id |-> 1, name |-> n]}
  BY DEF Init
<1>2. /\ docs \subseteq Document /\ made = 1
      /\ \A d, e \in docs : d = e
      /\ \A d \in docs : d.id = 1
  BY <1>1 DEF Init, Document
<1>3. TypeOK
  BY <1>2, NothingType DEF Init, TypeOK
<1>4. Ids /\ Whole /\ Ended
  BY <1>2, NothingType DEF Init, Ids, Whole, Ended, Documents
<1> QED BY <1>3, <1>4 DEF IInv

-----------------------------------------------------------------------------
(* The draft. *)

LEMMA ReopenStep == ASSUME IInv, NEW f \in Form, Reopen(f) PROVE IInv'
<1>1. /\ save[f] = "idle"
      /\ screen' = [screen EXCEPT ![f] = "form"]
      /\ edit' = [edit EXCEPT ![f] = TRUE]
      /\ listed' = [listed EXCEPT ![f] = None]
      /\ pending' = [pending EXCEPT ![f] = {}]
      /\ removed' = [removed EXCEPT ![f] = {}]
      /\ start' = [start EXCEPT ![f] = Nothing]
      /\ left' = [left EXCEPT ![f] = Nothing]
      /\ stored' = [stored EXCEPT ![f] = {}]
      /\ UNCHANGED <<app, docs, made, late, givenUp, save, staged, counted>>
  BY DEF Reopen, server
<1>2. /\ screen' \in [Form -> {"form", "done"}] /\ edit' \in [Form -> BOOLEAN]
      /\ listed' \in [Form -> {None} \cup SUBSET Document]
      /\ pending' \in [Form -> SUBSET Name] /\ removed' \in [Form -> SUBSET Nat]
  BY <1>1 DEF IInv, TypeOK
<1>3. /\ start' \in [Form -> Work] /\ left' \in [Form -> Work]
      /\ stored' \in [Form -> SUBSET Name]
  BY <1>1, NothingType DEF IInv, TypeOK
<1>4. /\ screen'[f] = "form" /\ listed'[f] = None /\ removed'[f] = {}
      /\ start'[f] = Nothing /\ left'[f] = Nothing
      /\ \A g \in Form : g # f =>
           /\ screen'[g] = screen[g] /\ listed'[g] = listed[g] /\ removed'[g] = removed[g]
           /\ start'[g] = start[g] /\ left'[g] = left[g] /\ stored'[g] = stored[g]
  BY <1>1 DEF IInv, TypeOK
<1>5. TypeOK'
  BY <1>1, <1>2, <1>3 DEF IInv, TypeOK
<1>6. Ids'
  BY <1>1, <1>4, NothingType DEF IInv, Ids, Documents
<1>7. Whole'
  BY <1>1, <1>4, NothingType DEF IInv, Whole
<1>8. Ended'
  BY <1>1, <1>4 DEF IInv, Ended
<1> QED BY <1>5, <1>6, <1>7, <1>8 DEF IInv

LEMMA ListStep == ASSUME IInv, NEW f \in Form, ListArrives(f) PROVE IInv'
<1>1. /\ listed' = [listed EXCEPT ![f] = docs]
      /\ UNCHANGED <<app, docs, made, late, givenUp, screen, edit, pending, removed,
                     save, staged, start, left, counted, stored>>
  BY DEF ListArrives, server, saving
<1>2. /\ listed' \in [Form -> {None} \cup SUBSET Document]
      /\ listed'[f] = docs
      /\ \A g \in Form : g # f => listed'[g] = listed[g]
  BY <1>1 DEF IInv, TypeOK
<1>3. TypeOK'
  BY <1>1, <1>2 DEF IInv, TypeOK
<1>4. Ids'
  BY <1>1, <1>2 DEF IInv, Ids, Documents
<1>5. Whole' /\ Ended'
  BY <1>1 DEF IInv, Whole, Ended
<1> QED BY <1>3, <1>4, <1>5 DEF IInv

LEMMA PendingStep ==
  ASSUME IInv, NEW f \in Form, NEW n \in Name, Add(f, n) \/ DropPending(f, n)
  PROVE  IInv'
<1>1. /\ pending' = [pending EXCEPT ![f] = @ \cup {n}]
         \/ pending' = [pending EXCEPT ![f] = @ \ {n}]
      /\ UNCHANGED <<app, docs, made, late, givenUp, screen, edit, listed, removed,
                     save, staged, start, left, counted, stored>>
  BY DEF Add, DropPending, server, saving
<1>2. pending' \in [Form -> SUBSET Name]
  BY <1>1 DEF IInv, TypeOK
<1>3. TypeOK'
  BY <1>1, <1>2 DEF IInv, TypeOK
<1>4. Ids' /\ Whole' /\ Ended'
  BY <1>1 DEF IInv, Ids, Documents, Whole, Ended
<1> QED BY <1>3, <1>4 DEF IInv

LEMMA ToggleStep == ASSUME IInv, NEW f \in Form, ToggleRemoved(f) PROVE IInv'
<1>1. PICK d \in Documents(f) :
        removed' = [removed EXCEPT ![f] = IF d.id \in @ THEN @ \ {d.id} ELSE @ \cup {d.id}]
  BY DEF ToggleRemoved
<1>2. UNCHANGED <<app, docs, made, late, givenUp, screen, edit, listed, pending,
                  save, staged, start, left, counted, stored>>
  BY DEF ToggleRemoved, server, saving
<1>3. d.id \in Nat /\ d.id <= made
  BY DEF IInv, TypeOK, Ids, Documents, Document
<1>4. /\ removed' \in [Form -> SUBSET Nat]
      /\ removed'[f] \subseteq removed[f] \cup {d.id}
      /\ \A g \in Form : g # f => removed'[g] = removed[g]
  BY <1>1, <1>3 DEF IInv, TypeOK
<1>5. TypeOK'
  BY <1>2, <1>4 DEF IInv, TypeOK
<1>6. Ids'
  BY <1>2, <1>3, <1>4 DEF IInv, Ids, Documents
<1>7. Whole' /\ Ended'
  BY <1>2 DEF IInv, Whole, Ended
<1> QED BY <1>5, <1>6, <1>7 DEF IInv

-----------------------------------------------------------------------------
(* The save. *)

LEMMA PressStep == ASSUME IInv, NEW f \in Form, PressSave(f) PROVE IInv'
<1>1. /\ screen[f] = "form" /\ save[f] = "idle"
      /\ save' = [save EXCEPT ![f] = "app"]
      /\ staged' = [staged EXCEPT ![f] = pending[f] # {} \/ removed[f] # {}]
      /\ start' = [start EXCEPT ![f] = Nothing]
      /\ left' = [left EXCEPT ![f] = Nothing]
      /\ stored' = [stored EXCEPT ![f] = {}]
      /\ UNCHANGED <<app, docs, made, late, givenUp, screen, edit, listed, pending, removed,
                    counted>>
  BY DEF PressSave, server, draft
<1>2. staged' \in [Form -> BOOLEAN]
  BY <1>1 DEF IInv, TypeOK
<1>3. /\ save' \in [Form -> {"idle", "app", "documents"}]
      /\ start' \in [Form -> Work] /\ left' \in [Form -> Work]
      /\ stored' \in [Form -> SUBSET Name]
  BY <1>1, NothingType DEF IInv, TypeOK
<1>4. /\ save'[f] = "app" /\ start'[f] = Nothing /\ left'[f] = Nothing
      /\ \A g \in Form : g # f =>
           /\ save'[g] = save[g] /\ start'[g] = start[g]
           /\ left'[g] = left[g] /\ stored'[g] = stored[g]
  BY <1>1 DEF IInv, TypeOK
<1>5. TypeOK'
  BY <1>1, <1>2, <1>3 DEF IInv, TypeOK
<1>6. Ids'
  BY <1>1, <1>4, NothingType DEF IInv, Ids, Documents
<1>7. Whole'
  BY <1>1, <1>4, NothingType DEF IInv, Whole
<1>8. Ended'
  BY <1>1, <1>4 DEF IInv, Ended
<1> QED BY <1>5, <1>6, <1>7, <1>8 DEF IInv

(* The page that is done. *)
LEMMA CompletedLemma ==
  ASSUME IInv, NEW f \in Form, Completed(f)
  PROVE  /\ save' \in [Form -> {"idle", "app", "documents"}]
         /\ screen' \in [Form -> {"form", "done"}]
         /\ staged' \in [Form -> BOOLEAN]
         /\ listed' \in [Form -> {None} \cup SUBSET Document]
         /\ pending' \in [Form -> SUBSET Name] /\ removed' \in [Form -> SUBSET Nat]
         /\ save'[f] = "idle" /\ screen'[f] = "done"
         /\ listed'[f] = None /\ removed'[f] = {}
         /\ \A g \in Form : g # f => /\ save'[g] = save[g] /\ screen'[g] = screen[g]
                                     /\ listed'[g] = listed[g] /\ removed'[g] = removed[g]
BY DEF IInv, TypeOK, Completed

LEMMA SavedStep == ASSUME IInv, NEW f \in Form, AppSaved(f) PROVE IInv'
<1>1. /\ save[f] = "app" /\ app' = TRUE
      /\ UNCHANGED <<docs, made, late, givenUp, counted, stored>>
  BY DEF AppSaved
<1>2. left[f] = Nothing /\ counted[f] = None /\ screen[f] = "form"
  BY <1>1 DEF IInv, TypeOK, Ended
<1>3. CASE staged[f]
  <2> DEFINE w == [del |-> removed[f], up |-> pending[f]]
  <2>1. /\ save' = [save EXCEPT ![f] = "documents"]
        /\ start' = [start EXCEPT ![f] = w]
        /\ left' = [left EXCEPT ![f] = start'[f]]
        /\ UNCHANGED <<screen, edit, listed, pending, removed, staged>>
    BY <1>3 DEF AppSaved, draft
  <2>2. w \in Work /\ w.del = removed[f]
    BY DEF IInv, TypeOK, Work
  <2> HIDE DEF w
  <2>3. /\ start' \in [Form -> Work] /\ start'[f] = w
        /\ \A g \in Form : g # f => start'[g] = start[g]
    BY <2>1, <2>2 DEF IInv, TypeOK
  <2>4. /\ left' \in [Form -> Work] /\ left'[f] = w
        /\ \A g \in Form : g # f => left'[g] = left[g]
    BY <2>1, <2>2, <2>3 DEF IInv, TypeOK
  <2>5. /\ save' \in [Form -> {"idle", "app", "documents"}]
        /\ save'[f] = "documents"
        /\ \A g \in Form : g # f => save'[g] = save[g]
    BY <2>1 DEF IInv, TypeOK
  <2>6. TypeOK'
    BY <1>1, <2>1, <2>3, <2>4, <2>5 DEF IInv, TypeOK
  <2>7. Ids'
    BY <1>1, <2>1, <2>2, <2>3 DEF IInv, Ids, Documents
  <2>8. Whole'
    BY <1>1, <2>3, <2>4 DEF IInv, Whole
  <2>9. Ended'
    BY <1>1, <1>2, <2>1, <2>4, <2>5 DEF IInv, Ended
  <2> QED BY <2>6, <2>7, <2>8, <2>9 DEF IInv
<1>4. CASE ~staged[f]
  <2>1. Completed(f) /\ UNCHANGED <<edit, start, left>>
    BY <1>4 DEF AppSaved
  <2>2. TypeOK'
    BY <1>1, <2>1, CompletedLemma DEF IInv, TypeOK
  <2>3. Ids'
    BY <1>1, <2>1, CompletedLemma DEF IInv, Ids, Documents
  <2>4. Whole'
    BY <1>1, <2>1 DEF IInv, Whole
  <2>5. Ended'
    BY <1>1, <1>2, <2>1, CompletedLemma DEF IInv, Ended
  <2> QED BY <2>2, <2>3, <2>4, <2>5 DEF IInv
<1> QED BY <1>3, <1>4

LEMMA DeleteStep == ASSUME IInv, NEW f \in Form, DeleteOne(f) PROVE IInv'
<1>1. PICK d \in docs :
        /\ d.id \in left[f].del
        /\ docs' = docs \ {d}
        /\ left' = [left EXCEPT ![f].del = @ \ {d.id}]
  BY DEF DeleteOne
<1>2. UNCHANGED <<app, made, late, givenUp, screen, edit, listed, pending, removed,
                  save, staged, start, counted, stored>>
  BY DEF DeleteOne, draft
<1>3. /\ left' \in [Form -> Work]
      /\ left'[f].del = left[f].del \ {d.id} /\ left'[f].up = left[f].up
      /\ \A g \in Form : g # f => left'[g] = left[g]
  BY <1>1 DEF IInv, TypeOK, Work
<1>4. save[f] = "documents"
  BY <1>1, NothingType DEF IInv, Ended
<1>5. TypeOK'
  BY <1>1, <1>2, <1>3 DEF IInv, TypeOK
<1>6. Ids'
  BY <1>1, <1>2 DEF IInv, Ids, Documents
<1>7. Whole'
  <2>1. \A e \in docs' : e \in docs /\ e.id # d.id
    BY <1>1 DEF IInv, TypeOK
  <2>2. \A g \in Form : left'[g].up = left[g].up
    BY <1>3
  <2>3. \A g \in Form : \A i \in left[g].del : i # d.id => i \in left'[g].del
    BY <1>3
  <2> QED BY <1>2, <2>1, <2>2, <2>3 DEF IInv, Whole
<1>8. Ended'
  BY <1>2, <1>3, <1>4 DEF IInv, Ended
<1> QED BY <1>5, <1>6, <1>7, <1>8 DEF IInv

LEMMA CountStep == ASSUME IInv, NEW f \in Form, CountDocuments(f) PROVE IInv'
<1>1. PICK n \in left[f].up : counted' = [counted EXCEPT ![f] = n]
  BY DEF CountDocuments
<1>2. UNCHANGED <<app, docs, made, late, givenUp, screen, edit, listed, pending, removed,
                  save, staged, start, left, stored>>
  BY DEF CountDocuments, server, draft
<1>3. n \in Name
  BY DEF IInv, TypeOK, Work
<1>4. /\ counted' \in [Form -> Name \cup {None}] /\ counted'[f] = n
      /\ \A g \in Form : g # f => counted'[g] = counted[g]
  BY <1>1, <1>3 DEF IInv, TypeOK
<1>5. save[f] = "documents"
  BY <1>1, NothingType DEF IInv, Ended
<1>6. TypeOK'
  BY <1>2, <1>4 DEF IInv, TypeOK
<1>7. Ids' /\ Whole'
  BY <1>2 DEF IInv, Ids, Whole, Documents
<1>8. Ended'
  BY <1>2, <1>4, <1>5 DEF IInv, Ended
<1> QED BY <1>6, <1>7, <1>8 DEF IInv

(* A document that is stored is new. *)
LEMMA StoredDocs ==
  ASSUME IInv, NEW n \in Name, Store(n)
  PROVE  /\ docs' \subseteq Document /\ made' \in Nat
         /\ \A e, c \in docs' : e.id = c.id \/ e.name = c.name => e = c
         /\ made' = made + 1
         /\ \A e \in docs' : e \in docs \/ e.id = made + 1
<1> DEFINE d == [id |-> made + 1, name |-> n]
<1>1. made \in Nat
  BY DEF IInv, TypeOK
<1>2. d \in Document /\ d.id = made + 1 /\ d.name = n
  BY <1>1 DEF Document
<1>3. /\ NameIsFree(n) /\ made' = made + 1 /\ docs' = docs \cup {d}
  BY DEF Store
<1> HIDE DEF d
<1>4. \A e \in docs : e.id # d.id /\ e.name # d.name
  BY <1>1, <1>2, <1>3 DEF IInv, TypeOK, Ids, NameIsFree, Document
<1> QED BY <1>1, <1>2, <1>3, <1>4 DEF IInv, TypeOK

(* What is stored disturbs no draft and no save but its own. *)
LEMMA StoredIds ==
  ASSUME IInv, NEW n \in Name, Store(n), UNCHANGED <<listed, removed, start>>
  PROVE  Ids' /\ \A e \in docs' : e \in docs \/ \A g \in Form : e.id \notin start[g].del
<1>1. /\ made \in Nat /\ made' = made + 1
      /\ \A e \in docs' : e \in docs \/ e.id = made + 1
  BY StoredDocs DEF IInv, TypeOK
<1>2. \A e \in docs' : e.id <= made'
  BY <1>1 DEF IInv, TypeOK, Ids, Document
<1>3. \A g \in Form : \A e \in Documents(g) : e.id \in Nat
  BY DEF IInv, TypeOK, Documents, Document
<1>4. \A g \in Form : \A e \in Documents(g)' : e.id <= made'
  BY <1>1, <1>3 DEF IInv, Ids, Documents
<1>5. \A g \in Form : \A i \in removed'[g] : i <= made'
  BY <1>1 DEF IInv, TypeOK, Ids
<1>6. \A g \in Form : \A i \in start[g].del : i \in Nat /\ i <= made
  BY DEF IInv, TypeOK, Work, Ids
<1>7. \A g \in Form : \A i \in start'[g].del : i <= made'
  BY <1>1, <1>6
<1>8. \A e \in docs' : e \in docs \/ \A g \in Form : e.id \notin start[g].del
  BY <1>1, <1>6
<1> QED BY <1>2, <1>4, <1>5, <1>7, <1>8 DEF Ids

LEMMA StoreStep == ASSUME IInv, NEW f \in Form, StoreOne(f) PROVE IInv'
<1> DEFINE n == counted[f]
<1>1. /\ n # None /\ Store(n)
      /\ left' = [left EXCEPT ![f].up = @ \ {n}]
      /\ stored' = [stored EXCEPT ![f] = @ \cup {n}]
      /\ counted' = [counted EXCEPT ![f] = None]
      /\ UNCHANGED <<app, late, givenUp, screen, edit, listed, pending, removed, save,
                    staged, start>>
  BY DEF StoreOne, draft
<1>2. n \in Name /\ n \in left[f].up
  BY <1>1 DEF IInv, TypeOK, Ended
<1>3. /\ left' \in [Form -> Work]
      /\ left'[f].up = left[f].up \ {n} /\ left'[f].del = left[f].del
      /\ \A g \in Form : g # f => left'[g] = left[g]
  <2> DEFINE w == [left[f] EXCEPT !.up = @ \ {n}]
  <2>1. left \in [Form -> Work] /\ left' = [left EXCEPT ![f] = w]
    BY <1>1 DEF IInv, TypeOK
  <2>2. w \in Work /\ w.up = left[f].up \ {n} /\ w.del = left[f].del
    BY <2>1 DEF Work
  <2> HIDE DEF w
  <2> QED BY <2>1, <2>2, OneChanged
<1>4. /\ stored' \in [Form -> SUBSET Name] /\ stored'[f] = stored[f] \cup {n}
      /\ \A g \in Form : g # f => stored'[g] = stored[g]
  BY <1>1, <1>2 DEF IInv, TypeOK
<1>5. /\ counted' \in [Form -> Name \cup {None}] /\ counted'[f] = None
      /\ \A g \in Form : g # f => counted'[g] = counted[g]
  BY <1>1 DEF IInv, TypeOK
<1>6. save[f] = "documents"
  BY <1>1 DEF IInv, Ended
<1>7. /\ docs' \subseteq Document /\ made' \in Nat
      /\ \A e, c \in docs' : e.id = c.id \/ e.name = c.name => e = c
  BY <1>1, <1>2, StoredDocs
<1>8. TypeOK'
  BY <1>1, <1>3, <1>4, <1>5, <1>7 DEF IInv, TypeOK
<1>9. /\ Ids'
      /\ \A e \in docs' : e \in docs \/ \A g \in Form : e.id \notin start[g].del
  BY <1>1, <1>2, StoredIds
<1>10. Whole'
  BY <1>1, <1>3, <1>4, <1>9 DEF IInv, Whole
<1>11. Ended'
  BY <1>1, <1>3, <1>5, <1>6 DEF IInv, Ended
<1> QED BY <1>8, <1>9, <1>10, <1>11 DEF IInv

LEMMA LateStep == ASSUME IInv, StoreLate PROVE IInv'
<1>1. PICK u \in late : Store(u.name) /\ late' = late \ {u}
  BY DEF StoreLate
<1>2. UNCHANGED <<app, givenUp, screen, edit, listed, pending, removed,
                  save, staged, start, left, counted, stored>>
  BY DEF StoreLate, draft, saving
<1>3. u.name \in Name
  BY DEF IInv, TypeOK, Document
<1>4. /\ docs' \subseteq Document /\ made' \in Nat
      /\ \A e, c \in docs' : e.id = c.id \/ e.name = c.name => e = c
  BY <1>1, <1>3, StoredDocs
<1>5. TypeOK'
  BY <1>1, <1>2, <1>4 DEF IInv, TypeOK
<1>6. /\ Ids'
      /\ \A e \in docs' : e \in docs \/ \A g \in Form : e.id \notin start[g].del
  BY <1>1, <1>2, <1>3, StoredIds
<1>7. Whole' /\ Ended'
  BY <1>2, <1>6 DEF IInv, Whole, Ended
<1> QED BY <1>5, <1>6, <1>7 DEF IInv

LEMMA AppliedStep == ASSUME IInv, NEW f \in Form, Applied(f) PROVE IInv'
<1>1. /\ save[f] = "documents" /\ left[f] = Nothing /\ Completed(f)
      /\ UNCHANGED <<app, docs, made, late, givenUp, edit, start, left, counted, stored>>
  BY DEF Applied, AllDone, server
<1>2. counted[f] = None
  BY <1>1, NothingType DEF IInv, Ended
<1>3. TypeOK'
  BY <1>1, CompletedLemma DEF IInv, TypeOK
<1>4. Ids'
  BY <1>1, CompletedLemma DEF IInv, Ids, Documents
<1>5. Whole'
  BY <1>1 DEF IInv, Whole
<1>6. Ended'
  BY <1>1, <1>2, CompletedLemma DEF IInv, Ended
<1> QED BY <1>3, <1>4, <1>5, <1>6 DEF IInv

LEMMA FailStep == ASSUME IInv, NEW f \in Form, SaveFails(f) PROVE IInv'
<1>1. /\ save[f] # "idle"
      /\ save' = [save EXCEPT ![f] = "idle"]
      /\ left' = [left EXCEPT ![f] = Nothing]
      /\ start' = [start EXCEPT ![f] = Nothing]
      /\ counted' = [counted EXCEPT ![f] = None]
      /\ staged' = [staged EXCEPT ![f] = FALSE]
      /\ stored' = [stored EXCEPT ![f] = {}]
      /\ UNCHANGED <<docs, made, screen, edit, listed, pending, removed>>
  BY DEF SaveFails, draft
<1>2. /\ save' \in [Form -> {"idle", "app", "documents"}]
      /\ left' \in [Form -> Work] /\ start' \in [Form -> Work]
      /\ counted' \in [Form -> Name \cup {None}]
      /\ staged' \in [Form -> BOOLEAN] /\ stored' \in [Form -> SUBSET Name]
  BY <1>1, NothingType DEF IInv, TypeOK
<1>3. /\ save'[f] = "idle" /\ left'[f] = Nothing /\ start'[f] = Nothing /\ counted'[f] = None
      /\ \A g \in Form : g # f =>
           /\ save'[g] = save[g] /\ left'[g] = left[g] /\ stored'[g] = stored[g]
           /\ start'[g] = start[g] /\ counted'[g] = counted[g]
  BY <1>1 DEF IInv, TypeOK
<1>4. app' \in BOOLEAN /\ givenUp' \in Nat /\ late' \subseteq Document
  <2>1. app' \in BOOLEAN
    BY DEF SaveFails, IInv, TypeOK
  <2>2. CASE UNCHANGED <<late, givenUp>>
    BY <2>1, <2>2 DEF IInv, TypeOK
  <2>3. CASE /\ counted[f] # None
             /\ givenUp' = givenUp + 1
             /\ late' = late \cup {[id |-> givenUp', name |-> counted[f]]}
    <3>1. givenUp \in Nat /\ counted[f] \in Name /\ late \subseteq Document
      BY <2>3 DEF IInv, TypeOK
    <3>2. [id |-> givenUp', name |-> counted[f]] \in Document
      BY <2>3, <3>1 DEF Document
    <3> QED BY <2>1, <2>3, <3>1, <3>2
  <2> QED BY <2>2, <2>3 DEF SaveFails
<1>5. TypeOK'
  BY <1>1, <1>2, <1>4 DEF IInv, TypeOK
<1>6. Ids'
  BY <1>1, <1>3, NothingType DEF IInv, Ids, Documents
<1>7. Whole'
  BY <1>1, <1>3, NothingType DEF IInv, Whole
<1>8. Ended'
  BY <1>1, <1>3 DEF IInv, Ended
<1> QED BY <1>5, <1>6, <1>7, <1>8 DEF IInv

LEMMA NextInv == IInv /\ [Next]_vars => IInv'
<1> SUFFICES ASSUME IInv, [Next]_vars PROVE IInv'
  OBVIOUS
<1>1. CASE UNCHANGED vars
  BY <1>1 DEF vars, server, draft, saving, IInv, TypeOK, Ids, Documents, Whole, Ended
<1>2. ASSUME NEW f \in Form, Reopen(f) \/ ListArrives(f) \/ ToggleRemoved(f) PROVE IInv'
  BY <1>2, ReopenStep, ListStep, ToggleStep
<1>3. ASSUME NEW f \in Form, NEW n \in Name, Add(f, n) \/ DropPending(f, n) PROVE IInv'
  BY <1>3, PendingStep
<1>4. ASSUME NEW f \in Form, PressSave(f) \/ AppSaved(f) \/ DeleteOne(f) PROVE IInv'
  BY <1>4, PressStep, SavedStep, DeleteStep
<1>5. ASSUME NEW f \in Form,
             CountDocuments(f) \/ StoreOne(f) \/ Applied(f) \/ SaveFails(f)
      PROVE  IInv'
  BY <1>5, CountStep, StoreStep, AppliedStep, FailStep
<1>6. CASE StoreLate
  BY <1>6, LateStep
<1> QED BY <1>1, <1>2, <1>3, <1>4, <1>5, <1>6 DEF Next

THEOREM Invariance == Spec => []IInv
BY InitInv, NextInv, PTL DEF Spec

(* Every variable keeps its type: identifiers and names of an app's documents *)
(* are unique, whatever forms save at once.                                   *)
THEOREM SubmissionTypes == Spec => []TypeOK
<1>1. IInv => TypeOK
  BY DEF IInv
<1> QED BY <1>1, Invariance, PTL

(* A form that says it is done has carried out the whole of its save (apply   *)
(* of useGuideDocumentDraft, and the onSuccess of AppFormPage). *)
THEOREM DoneForms == Spec => []DoneIsWhole
<1>1. ASSUME IInv PROVE DoneIsWhole
  <2>1. \A f \in Form : screen[f] = "done" => left[f] = Nothing
    BY <1>1 DEF IInv, Ended
  <2> QED BY <1>1, <2>1, NothingType DEF IInv, Whole, DoneIsWhole
<1> QED BY <1>1, Invariance, PTL

-----------------------------------------------------------------------------
(* The limit.  A count that is not yet used, of a form that has still to      *)
(* store its file, was taken below the limit. *)
Counting == {f \in Form : counted[f] # None}

Overlap ==
  /\ IsFiniteSet(docs) /\ IsFiniteSet(late)
  /\ Cardinality(late) <= givenUp
  /\ Cardinality(docs) + Cardinality(Counting) + Cardinality(late) + 1
       <= MaxDocs + Cardinality(Form) + givenUp

LEMMA Sizes ==
  /\ IsFiniteSet(Counting) /\ Cardinality(Counting) \in Nat
  /\ Cardinality(Counting) <= Cardinality(Form)
  /\ Cardinality(Form) \in Nat /\ Cardinality(Form) >= 1
  /\ MaxDocs \in Nat /\ MaxDocs >= 1
<1>1. Counting \subseteq Form
  BY DEF Counting
<1>2. Cardinality(Form) # 0
  BY FormAssumption, FS_EmptySet
<1> QED BY <1>1, <1>2, FormAssumption, BoundAssumption, FS_Subset, FS_CardinalityType

LEMMA OneMore ==
  ASSUME NEW S, NEW x, IsFiniteSet(S)
  PROVE  /\ IsFiniteSet(S \cup {x})
         /\ Cardinality(S \cup {x}) \in Nat
         /\ Cardinality(S \cup {x}) <= Cardinality(S) + 1
<1>1. IsFiniteSet(S \cup {x}) /\ Cardinality(S) \in Nat
  BY FS_AddElement, FS_CardinalityType
<1>2. Cardinality(S \cup {x}) \in {Cardinality(S), Cardinality(S) + 1}
  BY FS_AddElement
<1> QED BY <1>1, <1>2, FS_CardinalityType

LEMMA InitOverlap == Init => Overlap
<1> SUFFICES ASSUME Init PROVE Overlap
  OBVIOUS
<1>1. Counting = {}
  BY DEF Init, Counting
<1>2. docs = {} \/ \E n \in Name : docs = {[id |-> 1, name |-> n]}
  BY DEF Init
<1>3. IsFiniteSet(docs) /\ (Cardinality(docs) = 0 \/ Cardinality(docs) = 1)
  <2>1. CASE docs = {}
    BY <2>1, FS_EmptySet
  <2>2. ASSUME NEW n \in Name, docs = {[id |-> 1, name |-> n]}
        PROVE  IsFiniteSet(docs) /\ Cardinality(docs) = 1
    BY <2>2, FS_Singleton
  <2> QED BY <1>2, <2>1, <2>2
<1>4. /\ Cardinality(Counting) = 0 /\ givenUp = 0
      /\ IsFiniteSet(late) /\ Cardinality(late) = 0
  BY <1>1, FS_EmptySet DEF Init
<1> QED BY <1>3, <1>4, Sizes DEF Overlap

LEMMA NextOverlap == IInv /\ Overlap /\ [Next]_vars => Overlap'
<1> SUFFICES ASSUME IInv, Overlap, [Next]_vars PROVE Overlap'
  OBVIOUS
<1>1. Cardinality(docs) \in Nat /\ Cardinality(late) \in Nat /\ givenUp \in Nat
  BY FS_CardinalityType DEF Overlap, IInv, TypeOK
<1>2. ASSUME UNCHANGED <<docs, counted, late, givenUp>> PROVE Overlap'
  BY <1>2 DEF Overlap, Counting
<1>3. CASE UNCHANGED vars
  BY <1>2, <1>3 DEF vars, server, saving
<1>4. ASSUME NEW f \in Form,
             Reopen(f) \/ ListArrives(f) \/ ToggleRemoved(f) \/ PressSave(f) \/ Applied(f)
      PROVE  Overlap'
  BY <1>2, <1>4 DEF Reopen, ListArrives, ToggleRemoved, PressSave, Applied, server, saving
<1>5. ASSUME NEW f \in Form, NEW n \in Name, Add(f, n) \/ DropPending(f, n) PROVE Overlap'
  BY <1>2, <1>5 DEF Add, DropPending, server, saving
<1>6. ASSUME NEW f \in Form, AppSaved(f) PROVE Overlap'
  BY <1>2, <1>6 DEF AppSaved
<1>7. ASSUME NEW f \in Form, SaveFails(f) PROVE Overlap'
  <2>1. docs' = docs /\ Counting' \subseteq Counting
    BY <1>7 DEF SaveFails, Counting, IInv, TypeOK
  <2>2. /\ Cardinality(Counting') <= Cardinality(Counting)
        /\ Cardinality(Counting') \in Nat
    BY <2>1, Sizes, FS_Subset, FS_CardinalityType
  <2>3. CASE UNCHANGED <<late, givenUp>>
    BY <1>1, <2>1, <2>2, <2>3, Sizes DEF Overlap
  <2>4. ASSUME NEW u, givenUp' = givenUp + 1, late' = late \cup {u} PROVE Overlap'
    <3>1. IsFiniteSet(late') /\ Cardinality(late') <= Cardinality(late) + 1
      BY <1>1, <2>4, OneMore DEF Overlap
    <3>2. Cardinality(late') \in Nat
      BY <3>1, FS_CardinalityType
    <3> QED BY <1>1, <2>1, <2>2, <2>4, <3>1, <3>2, Sizes DEF Overlap
  <2> QED BY <1>7, <2>3, <2>4 DEF SaveFails
<1>8. ASSUME NEW f \in Form, DeleteOne(f) PROVE Overlap'
  <2>1. docs' \subseteq docs /\ Counting' = Counting /\ UNCHANGED <<late, givenUp>>
    BY <1>8 DEF DeleteOne, Counting
  <2>2. IsFiniteSet(docs') /\ Cardinality(docs') <= Cardinality(docs)
    BY <2>1, FS_Subset DEF Overlap
  <2>3. Cardinality(docs') \in Nat
    BY <2>2, FS_CardinalityType
  <2> QED BY <1>1, <2>1, <2>2, <2>3, Sizes DEF Overlap
<1>9. ASSUME NEW f \in Form, CountDocuments(f) PROVE Overlap'
  <2>1. docs' = docs /\ Cardinality(docs) < MaxDocs /\ UNCHANGED <<late, givenUp>>
    BY <1>9 DEF CountDocuments, Room, server
  <2>2. Counting' \subseteq Form
    BY DEF Counting
  <2>3. Cardinality(Counting') <= Cardinality(Form) /\ Cardinality(Counting') \in Nat
    BY <2>2, FormAssumption, FS_Subset, FS_CardinalityType
  <2> QED BY <1>1, <2>1, <2>3, Sizes DEF Overlap
<1>10. ASSUME NEW f \in Form, StoreOne(f) PROVE Overlap'
  <2>1. PICK d : docs' = docs \cup {d}
    BY <1>10 DEF StoreOne, Store
  <2>2. f \in Counting /\ Counting' = Counting \ {f} /\ UNCHANGED <<late, givenUp>>
    BY <1>10 DEF StoreOne, Counting, IInv, TypeOK
  <2>3. IsFiniteSet(docs') /\ Cardinality(docs') <= Cardinality(docs) + 1
    BY <1>1, <2>1, OneMore DEF Overlap
  <2>4. Cardinality(Counting') = Cardinality(Counting) - 1
    BY <2>2, Sizes, FS_RemoveElement
  <2>5. Cardinality(docs') \in Nat
    BY <2>3, FS_CardinalityType
  <2> QED BY <1>1, <2>2, <2>3, <2>4, <2>5, Sizes DEF Overlap
<1>11. CASE StoreLate
  <2>1. PICK u, d : u \in late /\ docs' = docs \cup {d} /\ late' = late \ {u}
    BY <1>11 DEF StoreLate, Store
  <2>2. Counting' = Counting /\ UNCHANGED givenUp
    BY <1>11 DEF StoreLate, Counting, saving
  <2>3. IsFiniteSet(docs') /\ Cardinality(docs') <= Cardinality(docs) + 1
    BY <1>1, <2>1, OneMore DEF Overlap
  <2>4. IsFiniteSet(late') /\ Cardinality(late') = Cardinality(late) - 1
    BY <2>1, FS_RemoveElement DEF Overlap
  <2>5. Cardinality(docs') \in Nat /\ Cardinality(late') \in Nat
    BY <2>3, <2>4, FS_CardinalityType
  <2> QED BY <1>1, <2>2, <2>3, <2>4, <2>5, Sizes DEF Overlap
<1> QED BY <1>3, <1>4, <1>5, <1>6, <1>7, <1>8, <1>9, <1>10, <1>11 DEF Next

(* However many forms upload at once, the documents of an app exceed the      *)
(* limit by fewer than there are forms and uploads given up                   *)
(* (CreateAppDocument counts and inserts in two statements). *)
THEOREM LimitHolds == Spec => []LimitByOverlap
<1>1. IInv /\ Overlap => LimitByOverlap
  <2>1. ASSUME Overlap
        PROVE  Cardinality(docs) \in Nat /\ Cardinality(late) \in Nat
    BY <2>1, FS_CardinalityType DEF Overlap
  <2>2. IInv => givenUp \in Nat
    BY DEF IInv, TypeOK
  <2> QED BY <2>1, <2>2, Sizes DEF Overlap, LimitByOverlap
<1>2. Spec => []Overlap
  BY InitOverlap, NextOverlap, Invariance, PTL DEF Spec
<1> QED BY <1>1, <1>2, Invariance, PTL

=============================================================================
