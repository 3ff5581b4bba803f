------------------------------ MODULE PageData ------------------------------
(* One page of the web client, the row of the server it shows, and the query  *)
(* cache of the browser between them.  The page is any of the records of      *)
(* Pages.tla, taken by its shape: two pages that differ by their keys alone   *)
(* behave alike.  It is opened, left and opened again, its form is typed in, its  *)
(* saves and its buttons go to the server while its query is fetched, and     *)
(* other people write the same row.                                           *)
(*                                                                            *)
(* The cache is the one of @tanstack/react-query as providers.tsx configures  *)
(* it: an entry is fresh for its staleTime, a page that is opened fetches an  *)
(* entry that is missing or not fresh, leaving the page aborts the fetch,     *)
(* invalidating marks the entry and, on an open page, starts the fetch again. *)
(* Requests end: apiFetch gives each of them a time limit.                    *)
EXTENDS Pages, Naturals, FiniteSets

CONSTANTS
  Site,      \* the pages considered
  MaxRev,    \* how many times the row is written (the bound of the model)
  None,      \* no data, no fetch, no form, no request
  Typed      \* the value of a field someone typed, before it is saved

ASSUME SiteAssumption ==
  /\ MaxRev \in Nat
  /\ \A p \in Site :
       /\ p.seed \in {"live", "copy", "none"}
       /\ p.sends \subseteq Field
       /\ p.answer \in {"ignore", "form", "cache", "close", "done"}
       /\ p.answer = "close" => p.seed = "copy"   \* only dialogs close
       /\ p.refreshes \subseteq Seq(STRING)
       /\ p.key \in Seq(STRING)
       /\ \A a \in p.acts :
            /\ a.at \in {"here", "away"}
            /\ a.writes \subseteq Field
            /\ a.answer \in {"ignore", "cache", "leave"}
            /\ a.refreshes \subseteq Seq(STRING)
ASSUME MarkAssumption ==
  /\ None \notin [rev : Nat, val : [Field -> Nat]]
  /\ None \notin [Field -> Nat]
  /\ None \notin Nat
  /\ Typed \notin Nat \cup {None}

(* The row: how often it was written, and for each field which write its      *)
(* value comes from.                                                          *)
Row  == [rev : Nat, val : [Field -> Nat]]
Form == [Field -> Nat]
Blank == [rev |-> 0, val |-> [f \in Field |-> 0]]

(* What of a page decides its behaviour: of its keys only whether they cover  *)
(* its own query.                                                             *)
Shape(p) ==
  [seed |-> p.seed, sends |-> p.sends, answer |-> p.answer,
   refreshes |-> CoversKey(p.refreshes, p.key),
   acts |-> {[at |-> a.at, writes |-> a.writes, answer |-> a.answer,
              refreshes |-> CoversKey(a.refreshes, p.key)] : a \in p.acts}]
Shapes == {Shape(p) : p \in Site}

(* A request that writes: what it sends of each field, whether its success    *)
(* invalidates the page's query, what becomes of the answer, and how far it   *)
(* has got: "sent", "applied" by the server, or "refreshing", waiting for the *)
(* query it invalidated.                                                      *)
Write == [writes : [Field -> Nat \cup {Typed, None}],
          covers : BOOLEAN,
          answer : {"ignore", "form", "cache", "close", "done", "leave"},
          at     : {"sent", "applied", "refreshing"},
          result : Row]

(* The request for the data, with the row once the server has read it. *)
Fetch == [at : {"idle", "sent", "answered"}, row : Row]

(* The save and the button of the page that is open, and a request whose page *)
(* was left, or that another page sent. *)
Slot == {"save", "act", "left"}

VARIABLES
  page,      \* the shape of the page this behaviour is about
  row,       \* its row on the server
  cache,     \* the data of its query, or None
  fresh,     \* the data are younger than the staleTime and not invalidated
  fetch,     \* the request for the data
  open,      \* the page is on the screen
  form,      \* what its inputs show, or None
  typed,     \* the fields typed in since the form was last filled
  write,     \* the request in each slot, or None
  owed       \* the newest revision this browser was told its writes made

vars == <<page, row, cache, fresh, fetch, open, form, typed, write, owed>>

(* The pages whose every own write refreshes their own query, and that keep   *)
(* no answer in the cache. *)
SelfRefreshing(p) ==
  /\ p.seed # "none" => p.refreshes
  /\ p.answer # "cache"
  /\ \A a \in p.acts : /\ a.at = "here"
                       /\ a.answer # "cache"
                       /\ a.refreshes

Fetching(at) == [at |-> at, row |-> Blank]

-----------------------------------------------------------------------------
(* A page that is opened for the first time in this browser. *)
Init ==
  /\ page \in Shapes
  /\ row = Blank
  /\ cache = None
  /\ fresh = FALSE
  /\ fetch = Fetching("idle")
  /\ open = FALSE
  /\ form = None
  /\ typed = {}
  /\ write = [s \in Slot |-> None]
  /\ owed = 0

(* Faulty: an effect that runs whenever a fetch ends. *)
FillAlways(data) ==
  IF open /\ page.seed = "live"
    THEN form' = data.val /\ typed' = {}
    ELSE UNCHANGED <<form, typed>>

(* Faulty: an effect that runs when there are data for the first time. *)
FillOnce(data) ==
  IF open /\ page.seed = "live" /\ cache = None
    THEN form' = data.val /\ typed' = {}
    ELSE UNCHANGED <<form, typed>>

(* The effect of a live form: it is filled when there are data and when the   *)
(* data differ from the ones before.  Equal data keep their identity, so a    *)
(* refetch that brings the same row leaves the form alone.                    *)
Fill(data) ==
  IF open /\ page.seed = "live" /\ (cache = None \/ data.val # cache.val)
    THEN form' = data.val /\ typed' = {}
    ELSE UNCHANGED <<form, typed>>

(* Faulty: the fetch under way is kept (cancelRefetch: false). *)
InvalidateKeeping ==
  /\ fresh' = FALSE
  /\ fetch' = IF open /\ fetch.at = "idle" THEN Fetching("sent") ELSE fetch

(* invalidateQueries: the entry is no longer fresh, and an open page fetches  *)
(* again.  A fetch under way is given up for the new one, except where there  *)
(* are no data yet: then it is kept, and its answer may be older than the     *)
(* write that invalidates it. *)
Invalidate ==
  /\ fresh' = FALSE
  /\ fetch' = IF open /\ (cache # None \/ fetch.at = "idle")
                THEN Fetching("sent") ELSE fetch

-----------------------------------------------------------------------------
(* The page and its query. *)

OpenPage ==
  /\ ~open
  /\ open' = TRUE
  /\ fetch' = Fetching(IF cache = None \/ ~fresh THEN "sent" ELSE "idle")
  /\ form' = IF page.seed = "live" /\ cache # None THEN cache.val ELSE None
  /\ typed' = {}
  /\ UNCHANGED <<page, row, cache, fresh, write, owed>>

(* Leaving aborts the fetch and drops the form; a request under way goes on   *)
(* without the page (the bound of the model: one such request at a time).     *)
UnderWay == {s \in Slot : write[s] # None /\ write[s].at # "refreshing"}
Left     == {write[s] : s \in UnderWay}
Closed ==
  /\ open' = FALSE
  /\ fetch' = Fetching("idle")
  /\ form' = None
  /\ typed' = {}

LeavePage ==
  /\ open
  /\ Cardinality(UnderWay) <= 1
  /\ Closed
  /\ write' = [save |-> None, act |-> None,
               left |-> IF Left = {} THEN None ELSE CHOOSE w \in Left : TRUE]
  /\ UNCHANGED <<page, row, cache, fresh, owed>>

(* The staleTime is over. *)
Age ==
  /\ fresh
  /\ fresh' = FALSE
  /\ UNCHANGED <<page, row, cache, fetch, open, form, typed, write, owed>>

FetchAnswered ==
  /\ fetch.at = "sent"
  /\ fetch' = [at |-> "answered", row |-> row]
  /\ UNCHANGED <<page, row, cache, fresh, open, form, typed, write, owed>>

FetchArrives ==
  /\ fetch.at = "answered"
  /\ cache' = fetch.row
  /\ fresh' = TRUE
  /\ fetch' = Fetching("idle")
  /\ Fill(fetch.row)
  /\ UNCHANGED <<page, row, open, write, owed>>

(* No answer, or not in time, the second time too: the page keeps the data it *)
(* has. *)
FetchFails ==
  /\ fetch.at # "idle"
  /\ fetch' = Fetching("idle")
  /\ UNCHANGED <<page, row, cache, fresh, open, form, typed, write, owed>>

-----------------------------------------------------------------------------
(* The form. *)

OpenDialog ==
  /\ open /\ page.seed = "copy" /\ form = None /\ cache # None
  /\ form' = cache.val
  /\ UNCHANGED <<page, row, cache, fresh, fetch, open, typed, write, owed>>

CloseDialog ==
  /\ open /\ page.seed = "copy" /\ form # None
  /\ form' = None
  /\ typed' = {}
  /\ UNCHANGED <<page, row, cache, fresh, fetch, open, write, owed>>

Type ==
  /\ form # None
  /\ "form" \notin typed
  /\ typed' = typed \cup {"form"}
  /\ UNCHANGED <<page, row, cache, fresh, fetch, open, form, write, owed>>

-----------------------------------------------------------------------------
(* Requests that write. *)

Request(writes, answer, refreshes) ==
  [writes |-> writes, covers |-> refreshes,
   answer |-> answer, at |-> "sent", result |-> Blank]

(* The save button: the fields of the form, typed in or not. It is disabled   *)
(* while a save is pending. *)
Sent == [f \in Field |-> CASE f \notin page.sends -> None
                           [] f \in typed -> Typed
                           [] OTHER -> form[f]]
Edits(a) == [f \in Field |-> IF f \in a.writes THEN Typed ELSE None]
PressSave ==
  /\ form # None
  /\ write["save"] = None
  /\ write' = [write EXCEPT !["save"] = Request(Sent, page.answer, page.refreshes)]
  /\ UNCHANGED <<page, row, cache, fresh, fetch, open, form, typed, owed>>

(* A button of the page, offered where there are data and none is pending. *)
PressAct ==
  /\ open /\ cache # None
  /\ write["act"] = None
  /\ \E a \in page.acts :
       /\ a.at = "here"
       /\ write' = [write EXCEPT !["act"] =
                      Request(Edits(a), a.answer, a.refreshes)]
  /\ UNCHANGED <<page, row, cache, fresh, fetch, open, form, typed, owed>>

(* The same row is written from another page of this browser. *)
ActElsewhere ==
  /\ ~open
  /\ write["left"] = None
  /\ \E a \in page.acts :
       /\ a.at = "away"
       /\ write' = [write EXCEPT !["left"] =
                      Request(Edits(a), a.answer, a.refreshes)]
  /\ UNCHANGED <<page, row, cache, fresh, fetch, open, form, typed, owed>>

(* Faulty: a field the request leaves out is stored as missing. *)
WrittenMissing(w) ==
  [rev |-> row.rev + 1,
   val |-> [f \in Field |-> IF w.writes[f] = Typed THEN row.rev + 1 ELSE w.writes[f]]]

(* The row after a request: the fields it sends are written, the typed ones   *)
(* with a new value. *)
Written(w) ==
  [rev |-> row.rev + 1,
   val |-> [f \in Field |-> CASE w.writes[f] = Typed -> row.rev + 1
                              [] w.writes[f] = None -> row.val[f]
                              [] OTHER -> w.writes[f]]]

ServerApplies(s) ==
  /\ write[s] # None /\ write[s].at = "sent"
  /\ row.rev < MaxRev
  /\ row' = Written(write[s])
  /\ write' = [write EXCEPT ![s] = [@ EXCEPT !.at = "applied", !.result = row']]
  /\ UNCHANGED <<page, cache, fresh, fetch, open, form, typed, owed>>

(* Refused, lost before the server, or its answer lost: the mutation fails,   *)
(* nothing is invalidated, and the form stays as it is. *)
WriteFails(s) ==
  /\ write[s] # None /\ write[s].at \in {"sent", "applied"}
  /\ write' = [write EXCEPT ![s] = None]
  /\ UNCHANGED <<page, row, cache, fresh, fetch, open, form, typed, owed>>

(* What the client does with an answer, besides invalidating: put it in the   *)
(* form, put it in the cache, or close the dialog that is open.  A page that  *)
(* was left has no form to fill any more.                                     *)
Answered(s, w) ==
  CASE w.answer = "form" /\ s = "save" ->
         /\ form' = w.result.val
         /\ typed' = {}
         /\ UNCHANGED cache
    [] w.answer = "close" /\ s = "save" ->
         /\ form' = None
         /\ typed' = {}
         /\ UNCHANGED cache
    [] w.answer = "cache" ->
         /\ cache' = w.result
         /\ Fill(w.result)
    [] OTHER -> UNCHANGED <<cache, form, typed>>

(* A form that is done is replaced by the word that it is saved, and a page   *)
(* may be left for another one; even a page that was already left does that,  *)
(* and takes the reader away from where they are.                             *)
Leaves(s, w) == w.answer = "leave" \/ (w.answer = "done" /\ s = "save")

(* The success of a request whose query is not on the screen, or is not       *)
(* concerned: there is nothing to wait for.                                   *)
WriteAnswered(s) ==
  LET w == write[s] IN
  /\ w # None /\ w.at = "applied" /\ ~(w.covers /\ open)
  /\ owed' = IF w.result.rev > owed THEN w.result.rev ELSE owed
  /\ fresh' = IF w.covers THEN FALSE ELSE fresh \/ w.answer = "cache"
  /\ IF open /\ Leaves(s, w)
       THEN /\ Closed
            /\ UNCHANGED cache
            /\ write' = [save |-> None, act |-> None,
                         left |-> write[IF s = "left" THEN "act" ELSE "left"]]
       ELSE /\ Answered(s, w)
            /\ write' = [write EXCEPT ![s] = None]
            /\ UNCHANGED <<open, fetch>>
  /\ UNCHANGED <<page, row>>

(* The success of a request that invalidates the query on the screen: the     *)
(* mutation waits for the fetch this starts, and is pending until then. *)
WriteRefreshes(s) ==
  LET w == write[s] IN
  /\ w # None /\ w.at = "applied" /\ w.covers /\ open
  /\ owed' = IF w.result.rev > owed THEN w.result.rev ELSE owed
  /\ Answered(s, w)
  /\ Invalidate
  /\ write' = [write EXCEPT ![s] = [@ EXCEPT !.at = "refreshing", !.result = Blank]]
  /\ UNCHANGED <<page, row, open>>

(* Faulty: the mutation waits until the data are fresh, which a failed fetch  *)
(* does not make them. *)
RefreshSucceeds(s) ==
  /\ write[s] # None /\ write[s].at = "refreshing"
  /\ fetch.at = "idle" /\ fresh
  /\ write' = [write EXCEPT ![s] = None]
  /\ UNCHANGED <<page, row, cache, fresh, fetch, open, form, typed, owed>>

RefreshEnds(s) ==
  /\ write[s] # None /\ write[s].at = "refreshing"
  /\ fetch.at = "idle"
  /\ IF Leaves(s, write[s])
       THEN Closed /\ write' = [save |-> None, act |-> None,
                                left |-> write[IF s = "left" THEN "act" ELSE "left"]]
       ELSE write' = [write EXCEPT ![s] = None] /\ UNCHANGED <<open, fetch, form, typed>>
  /\ UNCHANGED <<page, row, cache, fresh, owed>>

(* Someone else writes the row. *)
OthersWrite ==
  /\ row.rev < MaxRev
  /\ \E f \in Field :
       row' = [rev |-> row.rev + 1, val |-> [row.val EXCEPT ![f] = row.rev + 1]]
  /\ UNCHANGED <<page, cache, fresh, fetch, open, form, typed, write, owed>>

-----------------------------------------------------------------------------
Next ==
  \/ OpenPage \/ LeavePage \/ Age
  \/ FetchAnswered \/ FetchArrives \/ FetchFails
  \/ OpenDialog \/ CloseDialog \/ Type
  \/ PressSave \/ PressAct \/ ActElsewhere
  \/ \E s \in Slot : \/ ServerApplies(s) \/ WriteFails(s)
                     \/ WriteAnswered(s) \/ WriteRefreshes(s) \/ RefreshEnds(s)
  \/ OthersWrite

(* Every request ends, and an answer that is there is handled: the server     *)
(* answers or apiFetch gives up after its time limit. Nothing is asked of the *)
(* reader. *)
Fairness ==
  /\ WF_vars(FetchAnswered \/ FetchFails) /\ WF_vars(FetchArrives \/ FetchFails)
  /\ \A s \in Slot : /\ WF_vars(ServerApplies(s) \/ WriteFails(s))
                     /\ WF_vars(WriteAnswered(s) \/ WriteRefreshes(s) \/ WriteFails(s))
                     /\ WF_vars(RefreshEnds(s))

Spec     == Init /\ [][Next]_vars
FairSpec == Spec /\ Fairness

-----------------------------------------------------------------------------
(* What it comes to.                                                          *)

TypeOK ==
  /\ page \in Shapes
  /\ row \in Row
  /\ cache \in Row \cup {None}
  /\ fresh \in BOOLEAN
  /\ fetch \in Fetch
  /\ open \in BOOLEAN
  /\ form \in Form \cup {None}
  /\ typed \in SUBSET Field
  /\ write \in [Slot -> Write \cup {None}]
  /\ owed \in Nat

(* A page all of whose writes refresh it shows, as soon as its data count as  *)
(* fresh, every write this browser was told has been made: the fetch that was *)
(* under way when the write was answered cannot bring the row of before.      *)
(* (useAdminSettings, and every onSuccess that invalidates.)                  *)
ReadYourWrites ==
  SelfRefreshing(page) /\ fresh => cache # None /\ cache.rev >= owed

(* What someone typed in a form that follows its query is dropped, on a page  *)
(* that stays open, only where the row was written since the form was filled: *)
(* a refetch, the poll of another query or a button of the page cannot do it  *)
(* alone.  Pages that put the answer of their save in the form drop what was  *)
(* typed during the save, and those that put it in the cache drop it also     *)
(* when an older fetch arrives after the answer.                              *)
KeepsAnswers ==
  page.answer \in {"form", "cache"} \/ \E a \in page.acts : a.answer = "cache"
TypingIsKept ==
  [][page.seed = "live" /\ ~KeepsAnswers /\ open /\ open' /\ typed # {} /\ typed' = {}
       => cache # None /\ row.rev > cache.rev]_vars

(* The fields nobody types in go with the data: a save, which sends the whole *)
(* form, never sends back what this browser has already seen replaced.  (A    *)
(* form that takes the answer of its own save may be ahead of the data.)      *)
FormFollowsData ==
  page.seed = "live" /\ page.answer # "form" /\ open =>
    form = IF cache = None THEN None ELSE cache.val

(* The save button is not disabled for ever: a save that was pressed ends,    *)
(* the refresh it waits for included, whatever the reader and the others do.  *)
SavesEnd == write["save"] # None ~> write["save"] = None

(* The page and its cache implement what OwnWrites promises. A page that does *)
(* not refresh itself promises nothing, and never counts as up to date. *)
Seen    == IF SelfRefreshing(page) /\ cache # None THEN cache.rev ELSE 0
Settled == SelfRefreshing(page) /\ fresh
Owed    == IF SelfRefreshing(page) THEN owed ELSE 0
Promise == INSTANCE OwnWrites WITH
             rev <- row.rev, seen <- Seen, owed <- Owed, settled <- Settled
Promised == Promise!Spec

=============================================================================
