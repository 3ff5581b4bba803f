----------------------------- MODULE Submission -----------------------------
(* The form that registers or edits an app, with its guide documents: the     *)
(* files picked and the stored documents marked for removal wait in the form; *)
(* saving writes the app and then, request by request, deletes the marked     *)
(* documents and uploads the picked files.  Several forms may be open on the  *)
(* same app, in other tabs or by other people.                                *)
(*                                                                            *)
(* A file is its name, compared in lower case by the form and by the index of *)
(* app_documents alike.  The files of one save go up in any order.            *)
EXTENDS Naturals, FiniteSets

CONSTANTS
  Form,
  Name,
  MaxDocs,     \* MAX_GUIDE_DOCUMENTS, and MaxAppDocuments of the server
  MaxIds,      \* how many documents are ever stored, and
  MaxGivenUp,  \* how many uploads are given up (the bounds of the model)
  None

ASSUME FormAssumption  == IsFiniteSet(Form) /\ Form # {}
ASSUME BoundAssumption == MaxDocs \in Nat \ {0} /\ {MaxIds, MaxGivenUp} \subseteq Nat
ASSUME NameAssumption  == None \notin Name

Document == [id : Nat, name : Name]

VARIABLES
  app,         \* the app is registered
  docs,        \* its documents on the server
  made,        \* how many documents were ever stored
  late,        \* the uploads given up that the server is still at
  givenUp,     \* how many there were
  screen,      \* a form shows "form", or "done"
  edit,        \* the form edits an app that was there when it was opened
  listed,      \* the stored documents it has read, or None
  pending,     \* the names of the files picked
  removed,     \* the documents marked for removal
  save,        \* how far its save is: "idle", "app", or "documents"
  staged,      \* anything was staged when its save was pressed
  start,       \* the removals and uploads its save carries out
  left,        \* those it has still to do
  counted,     \* the file whose upload the server has found room for
  stored       \* history: the names this save has stored

server == <<app, docs, made, late, givenUp>>
draft  == <<screen, edit, listed, pending, removed>>
saving == <<save, staged, start, left, counted, stored>>
vars   == <<server, draft, saving>>

Nothing == [del |-> {}, up |-> {}]

Init ==
  /\ app \in BOOLEAN
  /\ docs \in {{}} \cup (IF app THEN {{[id |-> 1, name |-> n]} : n \in Name} ELSE {})
  /\ made = 1 /\ late = {} /\ givenUp = 0
  /\ screen = [f \in Form |-> "form"]
  /\ edit = [f \in Form |-> app]
  /\ listed = [f \in Form |-> None]
  /\ pending = [f \in Form |-> {}]
  /\ removed = [f \in Form |-> {}]
  /\ save = [f \in Form |-> "idle"]
  /\ staged = [f \in Form |-> FALSE]
  /\ start = [f \in Form |-> Nothing]
  /\ left = [f \in Form |-> Nothing]
  /\ counted = [f \in Form |-> None]
  /\ stored = [f \in Form |-> {}]

-----------------------------------------------------------------------------
(* The draft. *)

(* Leaving and coming back later: the form edits what there is by then. *)
Reopen(f) ==
  /\ app /\ save[f] = "idle"
  /\ screen' = [screen EXCEPT ![f] = "form"]
  /\ edit' = [edit EXCEPT ![f] = TRUE]
  /\ listed' = [listed EXCEPT ![f] = None]
  /\ pending' = [pending EXCEPT ![f] = {}]
  /\ removed' = [removed EXCEPT ![f] = {}]
  /\ start' = [start EXCEPT ![f] = Nothing]
  /\ left' = [left EXCEPT ![f] = Nothing]
  /\ stored' = [stored EXCEPT ![f] = {}]
  /\ UNCHANGED <<server, save, staged, counted>>

ListArrives(f) ==
  /\ screen[f] = "form" /\ edit[f] /\ listed[f] = None
  /\ listed' = [listed EXCEPT ![f] = docs]
  /\ UNCHANGED <<server, screen, edit, pending, removed, saving>>

(* What the form knows of the stored documents: nothing before the list is    *)
(* there. *)
Documents(f) == IF listed[f] = None THEN {} ELSE listed[f]
Taken(f)     == {d.name : d \in {d \in Documents(f) : d.id \notin removed[f]}} \cup pending[f]
Attached(f)  == Cardinality(Documents(f)) + Cardinality(pending[f])

Add(f, n) ==
  /\ screen[f] = "form" /\ save[f] # "documents"
  /\ n \notin Taken(f)
  /\ Attached(f) < MaxDocs + Cardinality(removed[f])
  /\ pending' = [pending EXCEPT ![f] = @ \cup {n}]
  /\ UNCHANGED <<server, screen, edit, listed, removed, saving>>

DropPending(f, n) ==
  /\ screen[f] = "form" /\ n \in pending[f]
  /\ pending' = [pending EXCEPT ![f] = @ \ {n}]
  /\ UNCHANGED <<server, screen, edit, listed, removed, saving>>

(* Marking a stored document, or taking the mark back: neither looks at the   *)
(* files picked in between. *)
ToggleRemoved(f) ==
  /\ screen[f] = "form"
  /\ \E d \in Documents(f) :
       removed' = [removed EXCEPT ![f] =
                     IF d.id \in @ THEN @ \ {d.id} ELSE @ \cup {d.id}]
  /\ UNCHANGED <<server, screen, edit, listed, pending, saving>>

-----------------------------------------------------------------------------
(* The save.  The button is disabled until it ends. *)

PressSave(f) ==
  /\ screen[f] = "form" /\ save[f] = "idle"
  /\ save' = [save EXCEPT ![f] = "app"]
  /\ staged' = [staged EXCEPT ![f] = pending[f] # {} \/ removed[f] # {}]
  /\ start' = [start EXCEPT ![f] = Nothing]
  /\ left' = [left EXCEPT ![f] = Nothing]
  /\ stored' = [stored EXCEPT ![f] = {}]
  /\ UNCHANGED <<server, draft, counted>>

(* A page that shows it is done reads its draft no more: what was staged      *)
(* since the save was pressed is lost. *)
Completed(f) ==
  /\ save' = [save EXCEPT ![f] = "idle"]
  /\ staged' = [staged EXCEPT ![f] = FALSE]
  /\ screen' = [screen EXCEPT ![f] = "done"]
  /\ listed' = [listed EXCEPT ![f] = None]
  /\ pending' = [pending EXCEPT ![f] = {}]
  /\ removed' = [removed EXCEPT ![f] = {}]

(* The app is created or updated.  Where nothing was staged when the button   *)
(* was pressed the save is done, whatever was staged since; otherwise what is *)
(* staged by now is carried out. *)
AppSaved(f) ==
  /\ save[f] = "app"
  /\ app <=> edit[f]     \* creating it again is refused: its slug is taken
  /\ app' = TRUE
  /\ IF staged[f]
       THEN /\ save' = [save EXCEPT ![f] = "documents"]
            /\ start' = [start EXCEPT ![f] = [del |-> removed[f], up |-> pending[f]]]
            /\ left' = [left EXCEPT ![f] = start'[f]]
            /\ UNCHANGED <<draft, staged>>
       ELSE /\ Completed(f)
            /\ UNCHANGED <<edit, start, left>>
  /\ UNCHANGED <<docs, made, late, givenUp, counted, stored>>

(* A document that is gone already is not found, and fails the save. *)
DeleteOne(f) ==
  /\ \E d \in docs :
       /\ d.id \in left[f].del
       /\ docs' = docs \ {d}
       /\ left' = [left EXCEPT ![f].del = @ \ {d.id}]
  /\ UNCHANGED <<app, made, late, givenUp, draft, save, staged, start, counted, stored>>

(* Faulty: an app that is full has room for one more. *)
RoomForOneMore == Cardinality(docs) <= MaxDocs

Room == Cardinality(docs) < MaxDocs

(* The server counts the documents in one statement ... *)
CountDocuments(f) ==
  /\ left[f].del = {} /\ counted[f] = None
  /\ Room
  /\ \E n \in left[f].up : counted' = [counted EXCEPT ![f] = n]
  /\ UNCHANGED <<server, draft, save, staged, start, left, stored>>

(* Faulty: the index on the names is not unique. *)
AnyNameIsFree(n) == TRUE

(* ... and stores the new one in the next, unless its name is taken. *)
NameIsFree(n) == \A d \in docs : d.name # n
Store(n) ==
  /\ NameIsFree(n)
  /\ made < MaxIds
  /\ made' = made + 1
  /\ docs' = docs \cup {[id |-> made + 1, name |-> n]}
StoreOne(f) ==
  /\ counted[f] # None /\ Store(counted[f])
  /\ left' = [left EXCEPT ![f].up = @ \ {counted[f]}]
  /\ stored' = [stored EXCEPT ![f] = @ \cup {counted[f]}]
  /\ counted' = [counted EXCEPT ![f] = None]
  /\ UNCHANGED <<app, late, givenUp, draft, save, staged, start>>

(* Faulty: the upload that failed is logged and passed over. *)
SomeDone(f) == save[f] = "documents" /\ left[f].del = {} /\ counted[f] = None

AllDone(f) == save[f] = "documents" /\ left[f] = Nothing

Applied(f) ==
  /\ AllDone(f)
  /\ Completed(f)
  /\ UNCHANGED <<server, edit, start, left, counted, stored>>

(* A request is refused, gets lost or gets no answer: the form stays as it    *)
(* is, and what was done stays done, an app that was created included.  A     *)
(* refusal is not distinguished.  An upload nobody waits for any more is      *)
(* dropped, or the server is still at it ... *)
SaveFails(f) ==
  /\ save[f] # "idle"
  /\ save' = [save EXCEPT ![f] = "idle"]
  /\ left' = [left EXCEPT ![f] = Nothing]
  /\ start' = [start EXCEPT ![f] = Nothing]
  /\ counted' = [counted EXCEPT ![f] = None]
  /\ staged' = [staged EXCEPT ![f] = FALSE]
  /\ stored' = [stored EXCEPT ![f] = {}]
  /\ app' \in {app, app \/ save[f] = "app"}
  /\ \/ UNCHANGED <<late, givenUp>>
     \/ /\ counted[f] # None /\ givenUp < MaxGivenUp
        /\ givenUp' = givenUp + 1
        /\ late' = late \cup {[id |-> givenUp', name |-> counted[f]]}
  /\ UNCHANGED <<docs, made, draft>>

(* ... and stores it later, or never does. *)
StoreLate ==
  /\ \E u \in late : Store(u.name) /\ late' = late \ {u}
  /\ UNCHANGED <<app, givenUp, draft, saving>>

Next ==
  \/ \E f \in Form :
       \/ Reopen(f) \/ ListArrives(f) \/ ToggleRemoved(f)
       \/ \E n \in Name : Add(f, n) \/ DropPending(f, n)
       \/ PressSave(f) \/ AppSaved(f) \/ DeleteOne(f)
       \/ CountDocuments(f) \/ StoreOne(f) \/ Applied(f) \/ SaveFails(f)
  \/ StoreLate

Spec == Init /\ [][Next]_vars

-----------------------------------------------------------------------------
(* What it comes to.                                                          *)

Work == [del : SUBSET Nat, up : SUBSET Name]

TypeOK ==
  /\ app \in BOOLEAN
  /\ docs \subseteq Document
  /\ \A d, e \in docs : d.id = e.id \/ d.name = e.name => d = e
  /\ made \in Nat /\ givenUp \in Nat
  /\ late \subseteq Document
  /\ screen \in [Form -> {"form", "done"}]
  /\ edit \in [Form -> BOOLEAN]
  /\ listed \in [Form -> {None} \cup SUBSET Document]
  /\ pending \in [Form -> SUBSET Name]
  /\ removed \in [Form -> SUBSET Nat]
  /\ save \in [Form -> {"idle", "app", "documents"}]
  /\ staged \in [Form -> BOOLEAN]
  /\ start \in [Form -> Work]
  /\ left \in [Form -> Work]
  /\ counted \in [Form -> Name \cup {None}]
  /\ stored \in [Form -> SUBSET Name]

(* The documents of an app exceed the limit by no more than the uploads that  *)
(* overlap, one for each other form and one for each that was given up: the   *)
(* count and the insert are two statements. (app_documents.go,                *)
(* CreateAppDocument) *)
LimitByOverlap == Cardinality(docs) + 1 <= MaxDocs + Cardinality(Form) + givenUp

(* A form that says it is done has deleted every document and stored every    *)
(* file its save set out to: no part of it failed on the way.                 *)
DoneIsWhole ==
  \A f \in Form : screen[f] = "done" =>
    /\ start[f].up \subseteq stored[f]
    /\ \A d \in docs : d.id \notin start[f].del

(* guide-documents.tsx:116-117: a name already taken is refused when the file *)
(* is picked, "rather than on a save that would fail halfway"; so the upload  *)
(* of the only form there is meets no taken name.                             *)
UploadsMeetFreeNames ==
  Cardinality(Form) = 1 => \A f \in Form : counted[f] # None => NameIsFree(counted[f])

=============================================================================
