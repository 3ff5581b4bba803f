--------------------------- MODULE PageData_proofs ---------------------------
(* Proofs about PageData: for every set of pages and every bound, types, what *)
(* a reader may expect of a page that refreshes itself, what becomes of what  *)
(* was typed, and that the page and its cache implement OwnWrites; and which  *)
(* pages of the web client refresh themselves.                                *)
EXTENDS PageData, SequenceTheorems, TLAPS

(* The inductive invariant.  A row that is known is the one the server has,   *)
(* or older; requests know no more than the server, and on a page that        *)
(* refreshes itself every one of them refreshes and started from data;        *)
(* answers are not older than the data they replace.                          *)
Past(r) == r.rev < row.rev \/ r = row

NoCacheAnswers ==
  page.answer # "cache" /\ \A a \in page.acts : a.answer # "cache"

Known(w) ==
  /\ w.at = "applied" => Past(w.result)
  /\ w.answer = page.answer \/ \E a \in page.acts : w.answer = a.answer
  /\ SelfRefreshing(page) => w.covers /\ cache # None

Requests == \A s \in Slot : write[s] # None => Known(write[s])

Dated ==
  /\ owed <= row.rev
  /\ cache # None => Past(cache)
  /\ fetch.at = "answered" => Past(fetch.row)

Filled ==
  /\ form # None => cache # None
  /\ typed # {} => form # None
  /\ write["save"] # None => cache # None
  /\ ~open => fetch.at = "idle"
  /\ page.seed = "none" => form = None /\ write["save"] = None

Orderly ==
  NoCacheAnswers /\ fetch.at = "answered" /\ cache # None => fetch.row.rev >= cache.rev

UpToDate ==
  SelfRefreshing(page) =>
    /\ fetch.at = "answered" => fetch.row.rev >= owed
    /\ fresh => cache # None /\ cache.rev >= owed

IInv == TypeOK /\ Dated /\ Requests /\ Filled /\ Orderly /\ UpToDate

-----------------------------------------------------------------------------
LEMMA ShapeLemma ==
  ASSUME page \in Shapes
  PROVE  /\ page.seed \in {"live", "copy", "none"}
         /\ page.sends \subseteq Field
         /\ page.answer \in {"ignore", "form", "cache", "close", "done"}
         /\ page.answer = "close" => page.seed = "copy"
         /\ page.refreshes \in BOOLEAN
         /\ \A a \in page.acts : /\ a.at \in {"here", "away"}
                                 /\ a.writes \subseteq Field
                                 /\ a.answer \in {"ignore", "cache", "leave"}
                                 /\ a.refreshes \in BOOLEAN
<1>1. PICK p \in Site : page = Shape(p)
  BY DEF Shapes
<1>2. /\ page.seed = p.seed /\ page.sends = p.sends /\ page.answer = p.answer
      /\ page.refreshes = CoversKey(p.refreshes, p.key)
      /\ page.acts = {[at |-> a.at, writes |-> a.writes, answer |-> a.answer,
                       refreshes |-> CoversKey(a.refreshes, p.key)] : a \in p.acts}
  BY <1>1 DEF Shape
<1>3. CoversKey(p.refreshes, p.key) \in BOOLEAN
  BY DEF CoversKey
<1>4. ASSUME NEW b \in page.acts
      PROVE  /\ b.at \in {"here", "away"}
             /\ b.writes \subseteq Field
             /\ b.answer \in {"ignore", "cache", "leave"}
             /\ b.refreshes \in BOOLEAN
  <2>1. PICK a \in p.acts :
          b = [at |-> a.at, writes |-> a.writes, answer |-> a.answer,
               refreshes |-> CoversKey(a.refreshes, p.key)]
    BY <1>2, <1>4
  <2>2. CoversKey(a.refreshes, p.key) \in BOOLEAN
    BY DEF CoversKey
  <2> QED BY <2>1, <2>2, SiteAssumption
<1> QED BY <1>2, <1>3, <1>4, SiteAssumption

LEMMA RowLemma == Blank \in Row /\ Blank # None /\ None \notin Row /\ None \notin Form
BY MarkAssumption DEF Blank, Row, Form

LEMMA FetchingType ==
  ASSUME NEW a \in {"idle", "sent", "answered"}
  PROVE  Fetching(a) \in Fetch /\ Fetching(a).at = a
BY RowLemma DEF Fetching, Fetch

LEMMA InitInv == Init => IInv
<1> SUFFICES ASSUME Init PROVE IInv
  OBVIOUS
<1>1. TypeOK
  BY RowLemma, FetchingType DEF Init, TypeOK
<1>2. fetch.at = "idle" /\ owed <= row.rev
  BY FetchingType DEF Init, Blank
<1>3. Dated /\ Requests /\ Filled
  BY <1>2 DEF Init, Dated, Requests, Filled, Slot
<1>4. Orderly /\ UpToDate
  BY <1>2 DEF Init, Orderly, UpToDate
<1> QED BY <1>1, <1>3, <1>4 DEF IInv

(* A record of write requests, with one of them replaced. *)
LEMMA Replaced ==
  ASSUME write \in [Slot -> Write \cup {None}], NEW s \in Slot, NEW w \in Write \cup {None},
         write' = [write EXCEPT ![s] = w]
  PROVE  /\ write' \in [Slot -> Write \cup {None}]
         /\ write'[s] = w
         /\ \A x \in Slot : x # s => write'[x] = write[x]
OBVIOUS

(* Requests that are kept, moved to another slot or dropped, while what they  *)
(* know stays true. *)
LEMMA RequestsKept ==
  ASSUME Requests, page' = page, row' = row, cache # None => cache' # None,
         \A s \in Slot : write'[s] = None \/ \E x \in Slot : write'[s] = write[x]
  PROVE  Requests'
BY DEF Requests, Known, Past, SelfRefreshing

-----------------------------------------------------------------------------
(* The steps of the page and its query. *)

LEMMA OpenStep == IInv /\ OpenPage => IInv'
<1> SUFFICES ASSUME IInv, OpenPage PROVE IInv'
  OBVIOUS
<1> DEFINE a == IF cache = None \/ ~fresh THEN "sent" ELSE "idle"
<1>1. fetch' = Fetching(a) /\ a # "answered" /\ a \in {"idle", "sent", "answered"}
  BY DEF OpenPage
<1>2. fetch' \in Fetch /\ fetch'.at = a
  BY <1>1, FetchingType
<1>3. fetch'.at # "answered"
  BY <1>1, <1>2
<1> HIDE DEF a
<1>4. /\ form' \in Form \cup {None}
      /\ form' # None => cache # None /\ page.seed # "none"
  BY DEF OpenPage, IInv, TypeOK, Row, Form
<1>5. open' = TRUE /\ typed' = {} /\ UNCHANGED <<page, row, cache, fresh, write, owed>>
  BY DEF OpenPage
<1>6. TypeOK'
  BY <1>2, <1>4, <1>5 DEF IInv, TypeOK
<1>7. Requests'
  BY <1>5, RequestsKept DEF IInv
<1>8. Dated' /\ Orderly' /\ UpToDate'
  BY <1>3, <1>5 DEF IInv, Dated, Past, Orderly, UpToDate, SelfRefreshing, NoCacheAnswers
<1>9. Filled'
  BY <1>4, <1>5 DEF IInv, Filled
<1> QED BY <1>6, <1>7, <1>8, <1>9 DEF IInv

(* The page closes: its fetch and its form go, and its requests go on.        *)
LEMMA ClosedKeeps ==
  ASSUME IInv, Closed, UNCHANGED <<page, row, cache>>,
         fresh' \in BOOLEAN, owed' \in Nat, owed' <= row.rev,
         SelfRefreshing(page) /\ fresh' => cache # None /\ cache.rev >= owed',
         write' \in [Slot -> Write \cup {None}], write'["save"] = None,
         \A s \in Slot : write'[s] = None \/ \E x \in Slot : write'[s] = write[x]
  PROVE  IInv'
<1>1. fetch' \in Fetch /\ fetch'.at = "idle" /\ form' = None /\ typed' = {} /\ open' = FALSE
  BY FetchingType DEF Closed
<1>2. TypeOK'
  BY <1>1 DEF IInv, TypeOK
<1>3. Requests'
  BY RequestsKept DEF IInv
<1>4. Dated' /\ Orderly'
  BY <1>1 DEF IInv, Dated, Past, Orderly, NoCacheAnswers
<1>5. UpToDate'
  BY <1>1 DEF UpToDate, SelfRefreshing
<1>6. Filled'
  BY <1>1 DEF IInv, Filled
<1> QED BY <1>2, <1>3, <1>4, <1>5, <1>6 DEF IInv

(* The slots of a page that was left. *)
LEMMA LeftSlots ==
  ASSUME NEW w \in Write \cup {None}
  PROVE  LET ws == [save |-> None, act |-> None, left |-> w]
         IN  /\ ws \in [Slot -> Write \cup {None}]
             /\ ws["save"] = None /\ ws["act"] = None /\ ws["left"] = w
<1> DEFINE ws == [save |-> None, act |-> None, left |-> w]
<1>1. ws = [x \in Slot |-> IF x = "left" THEN w ELSE None]
  BY DEF Slot
<1> QED BY <1>1 DEF Slot

LEMMA LeaveStep == IInv /\ LeavePage => IInv'
<1> SUFFICES ASSUME IInv, LeavePage PROVE IInv'
  OBVIOUS
<1> DEFINE w == IF Left = {} THEN None ELSE CHOOSE v \in Left : TRUE
<1>1. w = None \/ \E x \in Slot : w = write[x]
  BY DEF Left, UnderWay
<1>2. w \in Write \cup {None}
  BY <1>1 DEF IInv, TypeOK
<1>3. write' = [save |-> None, act |-> None, left |-> w]
  BY DEF LeavePage
<1> HIDE DEF w
<1>4. /\ write' \in [Slot -> Write \cup {None}]
      /\ write'["save"] = None /\ write'["act"] = None /\ write'["left"] = w
  BY <1>2, <1>3, LeftSlots
<1>5. \A s \in Slot : write'[s] = None \/ \E x \in Slot : write'[s] = write[x]
  BY <1>1, <1>4 DEF Slot
<1>6. Closed /\ UNCHANGED <<page, row, cache, fresh, owed>>
  BY DEF LeavePage
<1>7. fresh \in BOOLEAN /\ owed \in Nat /\ owed <= row.rev
  BY DEF IInv, TypeOK, Dated
<1>8. SelfRefreshing(page) /\ fresh => cache # None /\ cache.rev >= owed
  BY DEF IInv, UpToDate
<1> QED BY <1>4, <1>5, <1>6, <1>7, <1>8, ClosedKeeps

LEMMA AgeStep == IInv /\ Age => IInv'
<1> SUFFICES ASSUME IInv, Age PROVE IInv'
  OBVIOUS
<1>1. fresh' = FALSE /\ UNCHANGED <<page, row, cache, fetch, open, form, typed, write, owed>>
  BY DEF Age
<1>2. TypeOK'
  BY <1>1 DEF IInv, TypeOK
<1>3. Requests'
  BY <1>1, RequestsKept DEF IInv
<1>4. Dated' /\ Orderly' /\ UpToDate' /\ Filled'
  BY <1>1 DEF IInv, Dated, Past, Orderly, UpToDate, Filled, SelfRefreshing, NoCacheAnswers
<1> QED BY <1>2, <1>3, <1>4 DEF IInv

LEMMA AnsweredStep == IInv /\ FetchAnswered => IInv'
<1> SUFFICES ASSUME IInv, FetchAnswered PROVE IInv'
  OBVIOUS
<1>1. /\ fetch.at = "sent"
      /\ fetch' \in Fetch /\ fetch'.at = "answered" /\ fetch'.row = row
      /\ UNCHANGED <<page, row, cache, fresh, open, form, typed, write, owed>>
  BY DEF FetchAnswered, IInv, TypeOK, Fetch
<1>2. TypeOK'
  BY <1>1 DEF IInv, TypeOK
<1>3. Requests'
  BY <1>1, RequestsKept DEF IInv
<1>4. Dated' /\ Filled'
  BY <1>1 DEF IInv, Dated, Past, Filled
<1>5. Orderly'
  BY <1>1 DEF IInv, TypeOK, Row, Dated, Past, Orderly, NoCacheAnswers
<1>6. UpToDate'
  BY <1>1 DEF IInv, Dated, UpToDate, SelfRefreshing
<1> QED BY <1>2, <1>3, <1>4, <1>5, <1>6 DEF IInv

LEMMA FailsStep == IInv /\ FetchFails => IInv'
<1> SUFFICES ASSUME IInv, FetchFails PROVE IInv'
  OBVIOUS
<1>1. /\ fetch' \in Fetch /\ fetch'.at = "idle"
      /\ UNCHANGED <<page, row, cache, fresh, open, form, typed, write, owed>>
  BY FetchingType DEF FetchFails
<1>2. TypeOK'
  BY <1>1 DEF IInv, TypeOK
<1>3. Requests'
  BY <1>1, RequestsKept DEF IInv
<1>4. Dated' /\ Orderly' /\ UpToDate' /\ Filled'
  BY <1>1 DEF IInv, Dated, Past, Orderly, UpToDate, Filled, SelfRefreshing, NoCacheAnswers
<1> QED BY <1>2, <1>3, <1>4 DEF IInv

(* What the effect leaves in the form. *)
LEMMA FillLemma ==
  ASSUME IInv, NEW data \in Row, Fill(data)
  PROVE  /\ form' \in Form \cup {None} /\ typed' \in SUBSET Field
         /\ typed' # {} => form' # None
         /\ page.seed = "none" => form' = None
BY RowLemma DEF Fill, IInv, TypeOK, Filled, Row, Form

LEMMA ArrivesStep == IInv /\ FetchArrives => IInv'
<1> SUFFICES ASSUME IInv, FetchArrives PROVE IInv'
  OBVIOUS
<1>1. /\ fetch.at = "answered" /\ fetch.row \in Row /\ fetch.row # None
      /\ cache' = fetch.row /\ fresh' = TRUE
      /\ fetch' \in Fetch /\ fetch'.at = "idle"
      /\ Fill(fetch.row)
      /\ UNCHANGED <<page, row, open, write, owed>>
  BY RowLemma, FetchingType DEF FetchArrives, IInv, TypeOK, Fetch
<1>2. /\ form' \in Form \cup {None} /\ typed' \in SUBSET Field
      /\ typed' # {} => form' # None
      /\ page.seed = "none" => form' = None
  BY <1>1, FillLemma
<1>3. TypeOK'
  BY <1>1, <1>2 DEF IInv, TypeOK
<1>4. Requests'
  BY <1>1, RequestsKept DEF IInv
<1>5. Dated' /\ Orderly'
  BY <1>1 DEF IInv, Dated, Past, Orderly, NoCacheAnswers
<1>6. UpToDate'
  BY <1>1 DEF IInv, UpToDate, SelfRefreshing
<1>7. Filled'
  BY <1>1, <1>2 DEF IInv, Filled
<1> QED BY <1>3, <1>4, <1>5, <1>6, <1>7 DEF IInv

-----------------------------------------------------------------------------
(* The steps of the form. *)

LEMMA FormStep == IInv /\ (OpenDialog \/ CloseDialog \/ Type) => IInv'
<1> SUFFICES ASSUME IInv, OpenDialog \/ CloseDialog \/ Type PROVE IInv'
  OBVIOUS
<1>1. UNCHANGED <<page, row, cache, fresh, fetch, open, write, owed>>
  BY DEF OpenDialog, CloseDialog, Type
<1>2. form' \in Form \cup {None} /\ typed' \in SUBSET Field
  BY DEF OpenDialog, CloseDialog, Type, IInv, TypeOK, Row, Form, Field
<1>3. /\ form' # None => cache # None /\ page.seed # "none"
      /\ typed' # {} => form' # None
  BY DEF OpenDialog, CloseDialog, Type, IInv, Filled
<1>4. TypeOK'
  BY <1>1, <1>2 DEF IInv, TypeOK
<1>5. Requests'
  BY <1>1, RequestsKept DEF IInv
<1>6. Dated' /\ Orderly' /\ UpToDate'
  BY <1>1 DEF IInv, Dated, Past, Orderly, UpToDate, SelfRefreshing, NoCacheAnswers
<1>7. Filled'
  BY <1>1, <1>3 DEF IInv, Filled
<1> QED BY <1>4, <1>5, <1>6, <1>7 DEF IInv

-----------------------------------------------------------------------------
(* The steps of a request. *)

(* One request takes the place of what was in its slot. *)
LEMMA OneRequest ==
  ASSUME IInv, NEW s \in Slot, NEW w \in Write \cup {None},
         write' = [write EXCEPT ![s] = w],
         w # None => Known(w),
         w # None /\ s = "save" => cache # None /\ page.seed # "none",
         UNCHANGED <<page, row, cache, fresh, fetch, open, form, typed, owed>>
  PROVE  IInv'
<1>1. /\ write' \in [Slot -> Write \cup {None}]
      /\ write'[s] = w
      /\ \A x \in Slot : x # s => write'[x] = write[x]
  BY Replaced DEF IInv, TypeOK
<1>2. TypeOK'
  BY <1>1 DEF IInv, TypeOK
<1>3. Requests'
  BY <1>1 DEF IInv, Requests, Known, Past, SelfRefreshing
<1>4. Dated' /\ Orderly' /\ UpToDate'
  BY DEF IInv, Dated, Past, Orderly, UpToDate, SelfRefreshing, NoCacheAnswers
<1>5. Filled'
  BY <1>1 DEF IInv, Filled, Slot
<1> QED BY <1>2, <1>3, <1>4, <1>5 DEF IInv

LEMMA RequestType ==
  ASSUME NEW v \in [Field -> Nat \cup {Typed, None}],
         NEW answer \in {"ignore", "form", "cache", "close", "done", "leave"},
         NEW covers \in BOOLEAN
  PROVE  LET w == Request(v, answer, covers)
         IN  /\ w \in Write
             /\ w.answer = answer /\ w.covers = covers /\ w.at = "sent"
BY RowLemma DEF Request, Write

LEMMA EditsType ==
  ASSUME NEW a
  PROVE  Edits(a) \in [Field -> Nat \cup {Typed, None}]
BY DEF Edits

LEMMA SaveStep == IInv /\ PressSave => IInv'
<1> SUFFICES ASSUME IInv, PressSave PROVE IInv'
  OBVIOUS
<1> DEFINE w == Request(Sent, page.answer, page.refreshes)
<1>1. /\ form # None
      /\ write' = [write EXCEPT !["save"] = w]
      /\ UNCHANGED <<page, row, cache, fresh, fetch, open, form, typed, owed>>
  BY DEF PressSave
<1>2. Sent \in [Field -> Nat \cup {Typed, None}]
  BY <1>1 DEF Sent, IInv, TypeOK, Form
<1>3. /\ page.answer \in {"ignore", "form", "cache", "close", "done", "leave"}
      /\ page.refreshes \in BOOLEAN
  BY ShapeLemma DEF IInv, TypeOK
<1>4. /\ w \in Write /\ w.answer = page.answer
      /\ w.covers = page.refreshes /\ w.at = "sent"
  BY <1>2, <1>3, RequestType
<1>5. cache # None /\ page.seed # "none"
  BY <1>1 DEF IInv, Filled
<1>6. SelfRefreshing(page) => page.refreshes
  BY <1>5 DEF SelfRefreshing
<1> HIDE DEF w
<1>7. Known(w)
  BY <1>4, <1>5, <1>6 DEF Known
<1> QED BY <1>1, <1>4, <1>5, <1>7, OneRequest DEF Slot

LEMMA ActStep == IInv /\ (PressAct \/ ActElsewhere) => IInv'
<1> SUFFICES ASSUME IInv, PressAct \/ ActElsewhere PROVE IInv'
  OBVIOUS
<1>1. PICK s \in {"act", "left"}, a \in page.acts :
        /\ s = "act" => cache # None
        /\ s = "left" => a.at = "away"
        /\ write' = [write EXCEPT ![s] = Request(Edits(a), a.answer, a.refreshes)]
        /\ UNCHANGED <<page, row, cache, fresh, fetch, open, form, typed, owed>>
  BY DEF PressAct, ActElsewhere
<1> DEFINE w == Request(Edits(a), a.answer, a.refreshes)
<1>2. a.answer \in {"ignore", "cache", "leave"} /\ a.refreshes \in BOOLEAN
  BY ShapeLemma DEF IInv, TypeOK
<1>3. /\ w \in Write /\ w.answer = a.answer
      /\ w.covers = a.refreshes /\ w.at = "sent"
  BY <1>2, EditsType, RequestType
<1>4. SelfRefreshing(page) => a.refreshes /\ cache # None
  BY <1>1 DEF SelfRefreshing
<1>5. write' = [write EXCEPT ![s] = w] /\ s \in Slot /\ s # "save"
  BY <1>1 DEF Slot
<1> HIDE DEF w
<1>6. Known(w)
  BY <1>3, <1>4 DEF Known
<1> QED BY <1>1, <1>3, <1>5, <1>6, OneRequest

LEMMA FailStep == ASSUME IInv, NEW s \in Slot, WriteFails(s) PROVE IInv'
<1>1. /\ write' = [write EXCEPT ![s] = None]
      /\ UNCHANGED <<page, row, cache, fresh, fetch, open, form, typed, owed>>
  BY DEF WriteFails
<1> QED BY <1>1, OneRequest

(* The row after a request, and the row somebody else writes. *)
LEMMA WrittenType ==
  ASSUME IInv, NEW w \in Write
  PROVE  Written(w) \in Row /\ Written(w).rev = row.rev + 1
<1>1. \A f \in Field : row.val[f] \in Nat
  BY DEF IInv, TypeOK, Row
<1>2. row.rev \in Nat
  BY DEF IInv, TypeOK, Row
<1>3. [f \in Field |-> CASE w.writes[f] = Typed -> row.rev + 1
                         [] w.writes[f] = None -> row.val[f]
                         [] OTHER -> w.writes[f]] \in [Field -> Nat]
  BY <1>1, <1>2 DEF Write
<1> QED BY <1>2, <1>3 DEF Written, Row

(* A new row: everything the page knows is older now, or is that row. *)
LEMMA NewRow ==
  ASSUME IInv, row' \in Row, row'.rev = row.rev + 1,
         UNCHANGED <<page, cache, fresh, fetch, open, form, typed, owed>>
  PROVE  /\ Dated' /\ Orderly' /\ UpToDate'
         /\ \A w \in Write : Known(w) =>
              /\ w.at = "applied" => w.result.rev < row'.rev
              /\ w.answer = page.answer \/ \E a \in page.acts : w.answer = a.answer
              /\ SelfRefreshing(page) => w.covers /\ cache # None
<1>1. row.rev \in Nat /\ row'.rev \in Nat
  BY DEF IInv, TypeOK, Row
<1>2. Dated'
  <2>1. owed' <= row'.rev
    BY <1>1 DEF IInv, Dated, TypeOK
  <2>2. cache' # None => cache'.rev < row'.rev
    BY <1>1 DEF IInv, Dated, Past, TypeOK, Row
  <2>3. fetch'.at = "answered" => fetch'.row.rev < row'.rev
    BY <1>1 DEF IInv, Dated, Past, TypeOK, Row, Fetch
  <2> QED BY <2>1, <2>2, <2>3 DEF Dated, Past
<1>3. Orderly' /\ UpToDate'
  BY DEF IInv, Orderly, UpToDate, SelfRefreshing, NoCacheAnswers
<1>4. ASSUME NEW w \in Write, Known(w), w.at = "applied"
      PROVE  w.result.rev < row'.rev
  BY <1>1, <1>4 DEF Known, Past, Write, Row
<1> QED BY <1>2, <1>3, <1>4 DEF Known

LEMMA ApplyStep == ASSUME IInv, NEW s \in Slot, ServerApplies(s) PROVE IInv'
<1> DEFINE w == [write[s] EXCEPT !.at = "applied", !.result = row']
<1>1. /\ write[s] # None /\ row' = Written(write[s])
      /\ write' = [write EXCEPT ![s] = w]
      /\ UNCHANGED <<page, cache, fresh, fetch, open, form, typed, owed>>
  BY DEF ServerApplies
<1>2. write[s] \in Write /\ Known(write[s])
  BY <1>1 DEF IInv, TypeOK, Requests
<1>3. row' \in Row /\ row'.rev = row.rev + 1
  BY <1>1, <1>2, WrittenType
<1>4. /\ w \in Write /\ w.at = "applied" /\ w.result = row'
      /\ w.answer = write[s].answer /\ w.covers = write[s].covers
  BY <1>2, <1>3 DEF Write
<1> HIDE DEF w
<1>5. /\ write' \in [Slot -> Write \cup {None}]
      /\ write'[s] = w
      /\ \A x \in Slot : x # s => write'[x] = write[x]
  BY <1>1, <1>4, Replaced DEF IInv, TypeOK
<1>6. TypeOK'
  BY <1>1, <1>3, <1>5 DEF IInv, TypeOK
<1>7. /\ Dated' /\ Orderly' /\ UpToDate'
      /\ \A v \in Write : Known(v) =>
           /\ v.at = "applied" => v.result.rev < row'.rev
           /\ v.answer = page.answer \/ \E a \in page.acts : v.answer = a.answer
           /\ SelfRefreshing(page) => v.covers /\ cache # None
  BY <1>1, <1>3, NewRow
<1>8. Requests'
  <2>1. ASSUME NEW x \in Slot, x # s, write[x] # None
        PROVE  /\ write[x].at = "applied" => write[x].result.rev < row'.rev
               /\ write[x].answer = page.answer \/ \E a \in page.acts : write[x].answer = a.answer
               /\ SelfRefreshing(page) => write[x].covers /\ cache # None
    <3>1. write[x] \in Write /\ Known(write[x])
      BY <2>1 DEF IInv, TypeOK, Requests
    <3> QED BY <3>1, <1>7
  <2>2. /\ w.answer = page.answer \/ \E a \in page.acts : w.answer = a.answer
        /\ SelfRefreshing(page) => w.covers /\ cache # None
    BY <1>2, <1>4 DEF Known
  <2> QED BY <1>1, <1>4, <1>5, <2>1, <2>2 DEF Requests, Known, Past, SelfRefreshing
<1>9. Filled'
  BY <1>1, <1>2, <1>5 DEF IInv, Filled, Slot
<1> QED BY <1>6, <1>7, <1>8, <1>9 DEF IInv

LEMMA OthersStep == IInv /\ OthersWrite => IInv'
<1> SUFFICES ASSUME IInv, OthersWrite PROVE IInv'
  OBVIOUS
<1>1. PICK f \in Field :
        row' = [rev |-> row.rev + 1, val |-> [row.val EXCEPT ![f] = row.rev + 1]]
  BY DEF OthersWrite
<1>2. UNCHANGED <<page, cache, fresh, fetch, open, form, typed, write, owed>>
  BY DEF OthersWrite
<1>3. row' \in Row /\ row'.rev = row.rev + 1
  BY <1>1 DEF IInv, TypeOK, Row
<1>4. TypeOK' /\ Filled'
  BY <1>2, <1>3 DEF IInv, TypeOK, Filled
<1>5. /\ Dated' /\ Orderly' /\ UpToDate'
      /\ \A v \in Write : Known(v) =>
           /\ v.at = "applied" => v.result.rev < row'.rev
           /\ v.answer = page.answer \/ \E a \in page.acts : v.answer = a.answer
           /\ SelfRefreshing(page) => v.covers /\ cache # None
  BY <1>2, <1>3, NewRow
<1>6. ASSUME NEW x \in Slot, write[x] # None
      PROVE  /\ write[x].at = "applied" => write[x].result.rev < row'.rev
             /\ write[x].answer = page.answer \/ \E a \in page.acts : write[x].answer = a.answer
             /\ SelfRefreshing(page) => write[x].covers /\ cache # None
  <2>1. write[x] \in Write /\ Known(write[x])
    BY <1>6 DEF IInv, TypeOK, Requests
  <2> QED BY <2>1, <1>5
<1>7. Requests'
  BY <1>2, <1>6 DEF Requests, Known, Past, SelfRefreshing
<1> QED BY <1>4, <1>5, <1>7 DEF IInv

(* What an answer leaves in the cache and in the form. *)
LEMMA AnswerLemma ==
  ASSUME IInv, NEW s \in Slot, NEW w, w = write[s], w # None, w.at = "applied", Answered(s, w)
  PROVE  /\ cache' \in Row \cup {None}
         /\ cache # None => cache' # None
         /\ cache' # None => Past(cache')
         /\ NoCacheAnswers => cache' = cache
         /\ form' \in Form \cup {None} /\ typed' \in SUBSET Field
         /\ typed' # {} => form' # None
         /\ form' # None => cache' # None /\ page.seed # "none"
<1>1. /\ w \in Write /\ Past(w.result)
      /\ w.answer = page.answer \/ \E a \in page.acts : w.answer = a.answer
  BY DEF IInv, TypeOK, Requests, Known
<1>2. /\ w.result \in Row /\ w.result # None
      /\ w.result.val \in Form /\ w.result.val # None
  BY <1>1, RowLemma DEF Write, Row, Form
<1>3. CASE w.answer = "form" /\ s = "save"
  <2>1. form' = w.result.val /\ typed' = {} /\ cache' = cache
    BY <1>3 DEF Answered
  <2>2. cache # None /\ page.seed # "none"
    BY <1>3 DEF IInv, Filled
  <2> QED BY <1>2, <2>1, <2>2 DEF IInv, TypeOK, Dated
<1>4. CASE w.answer = "close" /\ s = "save"
  <2>1. form' = None /\ typed' = {} /\ cache' = cache
    BY <1>4 DEF Answered
  <2> QED BY <2>1 DEF IInv, TypeOK, Dated
<1>5. CASE w.answer = "cache"
  <2>1. cache' = w.result /\ Fill(w.result)
    BY <1>5 DEF Answered
  <2>2. /\ form' \in Form \cup {None} /\ typed' \in SUBSET Field
        /\ typed' # {} => form' # None
        /\ page.seed = "none" => form' = None
    BY <1>2, <2>1, FillLemma
  <2>3. ~NoCacheAnswers
    BY <1>1, <1>5 DEF NoCacheAnswers
  <2> QED BY <1>1, <1>2, <2>1, <2>2, <2>3
<1>6. CASE ~(w.answer = "form" /\ s = "save") /\ ~(w.answer = "close" /\ s = "save")
           /\ w.answer # "cache"
  <2>1. UNCHANGED <<cache, form, typed>>
    BY <1>6 DEF Answered
  <2> QED BY <2>1 DEF IInv, TypeOK, Dated, Filled
<1> QED BY <1>3, <1>4, <1>5, <1>6

LEMMA WriteAnsweredStep == ASSUME IInv, NEW s \in Slot, WriteAnswered(s) PROVE IInv'
<1> DEFINE w == write[s]
<1>1. /\ w # None /\ w.at = "applied" /\ ~(w.covers /\ open)
      /\ owed' = IF w.result.rev > owed THEN w.result.rev ELSE owed
      /\ fresh' = IF w.covers THEN FALSE ELSE fresh \/ w.answer = "cache"
      /\ UNCHANGED <<page, row>>
  BY DEF WriteAnswered
<1>2. w \in Write /\ Known(w) /\ Past(w.result)
  BY <1>1 DEF IInv, TypeOK, Requests, Known
<1>3. owed' \in Nat /\ owed' <= row.rev
  BY <1>1, <1>2 DEF IInv, TypeOK, Dated, Past, Write, Row
<1>4. fresh' \in BOOLEAN
  <2>1. CASE w.covers
    BY <1>1, <2>1
  <2>2. CASE ~w.covers
    BY <1>1, <2>2 DEF IInv, TypeOK
  <2> QED BY <2>1, <2>2
<1>5. SelfRefreshing(page) => fresh' = FALSE /\ ~open
  BY <1>1, <1>2 DEF Known
<1>6. CASE open /\ Leaves(s, w)
  <2> DEFINE v == write[IF s = "left" THEN "act" ELSE "left"]
  <2>1. /\ Closed /\ UNCHANGED <<page, row, cache>>
        /\ write' = [save |-> None, act |-> None, left |-> v]
    BY <1>6 DEF WriteAnswered
  <2>2. v \in Write \cup {None} /\ \E x \in Slot : v = write[x]
    BY DEF IInv, TypeOK, Slot
  <2> HIDE DEF v
  <2>3. /\ write' \in [Slot -> Write \cup {None}]
        /\ write'["save"] = None /\ write'["act"] = None /\ write'["left"] = v
    BY <2>1, <2>2, LeftSlots
  <2>4. \A y \in Slot : write'[y] = None \/ \E x \in Slot : write'[y] = write[x]
    BY <2>2, <2>3 DEF Slot
  <2> QED BY <1>3, <1>4, <1>5, <2>1, <2>3, <2>4, ClosedKeeps
<1>7. CASE ~(open /\ Leaves(s, w))
  <2>1. /\ Answered(s, w)
        /\ write' = [write EXCEPT ![s] = None]
        /\ UNCHANGED <<open, fetch, page, row>>
    BY <1>7 DEF WriteAnswered
  <2>2. /\ cache' \in Row \cup {None}
        /\ cache # None => cache' # None
        /\ cache' # None => Past(cache')
        /\ NoCacheAnswers => cache' = cache
        /\ form' \in Form \cup {None} /\ typed' \in SUBSET Field
        /\ typed' # {} => form' # None
        /\ form' # None => cache' # None /\ page.seed # "none"
    BY <1>1, <2>1, AnswerLemma
  <2>3. /\ write' \in [Slot -> Write \cup {None}]
        /\ write'[s] = None
        /\ \A x \in Slot : x # s => write'[x] = write[x]
    BY <2>1, Replaced DEF IInv, TypeOK
  <2>4. TypeOK'
    BY <1>3, <1>4, <2>1, <2>2, <2>3 DEF IInv, TypeOK
  <2>5. Requests'
    BY <2>1, <2>2, <2>3, RequestsKept DEF IInv
  <2>6. Dated'
    BY <1>3, <2>1, <2>2 DEF IInv, Dated, Past
  <2>7. Orderly'
    BY <2>1, <2>2 DEF IInv, Orderly, NoCacheAnswers
  <2>8. UpToDate'
    BY <1>5, <2>1 DEF IInv, UpToDate, SelfRefreshing, Filled
  <2>9. Filled'
    BY <2>1, <2>2, <2>3 DEF IInv, Filled, Slot
  <2> QED BY <2>4, <2>5, <2>6, <2>7, <2>8, <2>9 DEF IInv
<1> QED BY <1>6, <1>7

LEMMA InvalidateLemma ==
  ASSUME IInv, Invalidate, open
  PROVE  /\ fresh' = FALSE /\ fetch' \in Fetch
         /\ fetch' = fetch \/ fetch'.at = "sent"
         /\ cache # None => fetch'.at = "sent"
BY FetchingType DEF Invalidate, IInv, TypeOK

LEMMA RefreshesStep == ASSUME IInv, NEW s \in Slot, WriteRefreshes(s) PROVE IInv'
<1> DEFINE w == write[s]
           v == [write[s] EXCEPT !.at = "refreshing", !.result = Blank]
<1>1. /\ w # None /\ w.at = "applied" /\ open
      /\ owed' = IF w.result.rev > owed THEN w.result.rev ELSE owed
      /\ Answered(s, w)
      /\ Invalidate
      /\ write' = [write EXCEPT ![s] = v]
      /\ UNCHANGED <<page, row, open>>
  BY DEF WriteRefreshes
<1>2. w \in Write /\ Known(w) /\ Past(w.result)
  BY <1>1 DEF IInv, TypeOK, Requests, Known
<1>3. owed' \in Nat /\ owed' <= row.rev
  BY <1>1, <1>2 DEF IInv, TypeOK, Dated, Past, Write, Row
<1>4. /\ cache' \in Row \cup {None}
      /\ cache # None => cache' # None
      /\ cache' # None => Past(cache')
      /\ NoCacheAnswers => cache' = cache
      /\ form' \in Form \cup {None} /\ typed' \in SUBSET Field
      /\ typed' # {} => form' # None
      /\ form' # None => cache' # None /\ page.seed # "none"
  BY <1>1, AnswerLemma
<1>5. /\ fresh' = FALSE /\ fetch' \in Fetch
      /\ fetch' = fetch \/ fetch'.at = "sent"
      /\ cache # None => fetch'.at = "sent"
  BY <1>1, InvalidateLemma
<1>6. /\ v \in Write /\ v.at = "refreshing"
      /\ v.answer = w.answer /\ v.covers = w.covers
  BY <1>2, RowLemma DEF Write
<1> HIDE DEF v
<1>7. /\ write' \in [Slot -> Write \cup {None}]
      /\ write'[s] = v
      /\ \A x \in Slot : x # s => write'[x] = write[x]
  BY <1>1, <1>6, Replaced DEF IInv, TypeOK
<1>8. TypeOK'
  BY <1>1, <1>3, <1>4, <1>5, <1>7, <1>6 DEF IInv, TypeOK
<1>9. Requests'
  BY <1>1, <1>2, <1>4, <1>6, <1>7 DEF IInv, Requests, Known, Past, SelfRefreshing
<1>10. Dated'
  BY <1>1, <1>3, <1>4, <1>5 DEF IInv, Dated, Past
<1>11. Orderly'
  BY <1>1, <1>4, <1>5 DEF IInv, Orderly, NoCacheAnswers
<1>12. UpToDate'
  <2>1. SelfRefreshing(page) => cache # None
    BY <1>2 DEF Known
  <2> QED BY <1>1, <1>5, <2>1 DEF UpToDate, SelfRefreshing
<1>13. Filled'
  BY <1>1, <1>4, <1>7 DEF IInv, Filled, Slot
<1> QED BY <1>8, <1>9, <1>10, <1>11, <1>12, <1>13 DEF IInv

LEMMA RefreshEndsStep == ASSUME IInv, NEW s \in Slot, RefreshEnds(s) PROVE IInv'
<1>1. write[s] # None /\ fetch.at = "idle" /\ UNCHANGED <<page, row, cache, fresh, owed>>
  BY DEF RefreshEnds
<1>2. CASE Leaves(s, write[s])
  <2> DEFINE v == write[IF s = "left" THEN "act" ELSE "left"]
  <2>1. Closed /\ write' = [save |-> None, act |-> None, left |-> v]
    BY <1>2 DEF RefreshEnds
  <2>2. v \in Write \cup {None} /\ \E x \in Slot : v = write[x]
    BY DEF IInv, TypeOK, Slot
  <2> HIDE DEF v
  <2>3. /\ write' \in [Slot -> Write \cup {None}]
        /\ write'["save"] = None /\ write'["act"] = None /\ write'["left"] = v
    BY <2>1, <2>2, LeftSlots
  <2>4. \A y \in Slot : write'[y] = None \/ \E x \in Slot : write'[y] = write[x]
    BY <2>2, <2>3 DEF Slot
  <2>5. fresh \in BOOLEAN /\ owed \in Nat /\ owed <= row.rev
    BY DEF IInv, TypeOK, Dated
  <2>6. SelfRefreshing(page) /\ fresh => cache # None /\ cache.rev >= owed
    BY DEF IInv, UpToDate
  <2> QED BY <1>1, <2>1, <2>3, <2>4, <2>5, <2>6, ClosedKeeps
<1>3. CASE ~Leaves(s, write[s])
  <2>1. write' = [write EXCEPT ![s] = None] /\ UNCHANGED <<open, fetch, form, typed>>
    BY <1>3 DEF RefreshEnds
  <2> QED BY <1>1, <2>1, OneRequest
<1> QED BY <1>2, <1>3

LEMMA NextInv == IInv /\ [Next]_vars => IInv'
<1> SUFFICES ASSUME IInv, [Next]_vars PROVE IInv'
  OBVIOUS
<1>1. CASE UNCHANGED vars
  <2>1. Requests'
    BY <1>1, RequestsKept DEF IInv, vars
  <2>2. TypeOK' /\ Dated' /\ Filled' /\ Orderly' /\ UpToDate'
    BY <1>1 DEF vars, IInv, TypeOK, Dated, Past, Filled, Orderly, UpToDate,
                SelfRefreshing, NoCacheAnswers
  <2> QED BY <2>1, <2>2 DEF IInv
<1>2. CASE OpenPage \/ LeavePage \/ Age
  BY <1>2, OpenStep, LeaveStep, AgeStep
<1>3. CASE FetchAnswered \/ FetchArrives \/ FetchFails
  BY <1>3, AnsweredStep, ArrivesStep, FailsStep
<1>4. CASE OpenDialog \/ CloseDialog \/ Type
  BY <1>4, FormStep
<1>5. CASE PressSave \/ PressAct \/ ActElsewhere
  BY <1>5, SaveStep, ActStep
<1>6. ASSUME NEW s \in Slot, ServerApplies(s) \/ WriteFails(s) PROVE IInv'
  BY <1>6, ApplyStep, FailStep
<1>7. ASSUME NEW s \in Slot, WriteAnswered(s) \/ WriteRefreshes(s) \/ RefreshEnds(s)
      PROVE  IInv'
  BY <1>7, WriteAnsweredStep, RefreshesStep, RefreshEndsStep
<1>8. CASE OthersWrite
  BY <1>8, OthersStep
<1> QED BY <1>1, <1>2, <1>3, <1>4, <1>5, <1>6, <1>7, <1>8 DEF Next

THEOREM Invariance == Spec => []IInv
BY InitInv, NextInv, PTL DEF Spec

-----------------------------------------------------------------------------
(* What it comes to. *)

(* Every variable keeps its type on every page, whatever the requests do.     *)
THEOREM PageTypes == Spec => []TypeOK
<1>1. IInv => TypeOK
  BY DEF IInv
<1> QED BY <1>1, Invariance, PTL

(* A page all of whose writes refresh it shows every write this browser was   *)
(* told of as soon as its data count as fresh (useAdminSettings, and every    *)
(* onSuccess that invalidates the query of its own page). *)
THEOREM OwnWritesAreRead == Spec => []ReadYourWrites
<1>1. IInv => ReadYourWrites
  BY DEF IInv, UpToDate, ReadYourWrites
<1> QED BY <1>1, Invariance, PTL

(* A fetch whose data differ from the cache is of a newer row. *)
LEMMA DifferentIsNewer ==
  ASSUME IInv, NoCacheAnswers, fetch.at = "answered", cache # None,
         fetch.row.val # cache.val
  PROVE  row.rev > cache.rev
<1>1. /\ row.rev \in Nat /\ cache.rev \in Nat /\ fetch.row.rev \in Nat
      /\ Past(cache) /\ Past(fetch.row) /\ fetch.row.rev >= cache.rev
  BY DEF IInv, TypeOK, Dated, Orderly, Row, Fetch
<1> QED BY <1>1 DEF Past

(* What was typed into a live form is dropped on the open page only where the *)
(* row was written since (the effects of useAdminSettings and of the pages    *)
(* that follow it). *)
THEOREM TypingKept == Spec => TypingIsKept
<1> DEFINE Dropped == /\ page.seed = "live" /\ ~KeepsAnswers
                      /\ open /\ open' /\ typed # {} /\ typed' = {}
<1>1. ASSUME IInv, Next, Dropped
      PROVE  cache # None /\ row.rev > cache.rev
  <2>1. cache # None
    BY <1>1 DEF IInv, Filled
  <2>2. NoCacheAnswers /\ page.answer \notin {"form", "close"}
    BY <1>1, ShapeLemma DEF KeepsAnswers, NoCacheAnswers, IInv, TypeOK
  <2>3. typed' # typed
    BY <1>1
  <2>4. ASSUME NEW s \in Slot, write[s] # None,
               write[s].at = "applied", Answered(s, write[s])
        PROVE  typed' = typed
    <3>1. /\ write[s].answer = page.answer
             \/ \E a \in page.acts : write[s].answer = a.answer
          /\ \A a \in page.acts : a.answer \in {"ignore", "leave"}
      BY <1>1, <2>2, <2>4, ShapeLemma DEF IInv, Requests, Known, TypeOK, NoCacheAnswers
    <3>2. write[s].answer \notin {"form", "close", "cache"}
      BY <2>2, <3>1 DEF NoCacheAnswers
    <3> QED BY <2>4, <3>2 DEF Answered
  <2>5. ~(OpenPage \/ LeavePage \/ Age \/ FetchAnswered \/ FetchFails)
    BY <1>1, <2>3 DEF OpenPage, LeavePage, Closed, Age, FetchAnswered, FetchFails
  <2>6. ~(OpenDialog \/ CloseDialog \/ Type)
    BY <1>1 DEF OpenDialog, CloseDialog, Type
  <2>7. ~(PressSave \/ PressAct \/ ActElsewhere \/ OthersWrite)
    BY <2>3 DEF PressSave, PressAct, ActElsewhere, OthersWrite
  <2>8. ASSUME NEW s \in Slot, \/ ServerApplies(s) \/ WriteFails(s)
                               \/ WriteAnswered(s) \/ WriteRefreshes(s) \/ RefreshEnds(s)
        PROVE  FALSE
    <3>1. CASE ServerApplies(s) \/ WriteFails(s)
      BY <2>3, <3>1 DEF ServerApplies, WriteFails
    <3>2. CASE WriteAnswered(s)
      <4>1. CASE open /\ Leaves(s, write[s])
        BY <1>1, <3>2, <4>1 DEF WriteAnswered, Closed
      <4>2. CASE ~(open /\ Leaves(s, write[s]))
        BY <2>3, <2>4, <3>2, <4>2 DEF WriteAnswered
      <4> QED BY <4>1, <4>2
    <3>3. CASE WriteRefreshes(s)
      BY <2>3, <2>4, <3>3 DEF WriteRefreshes
    <3>4. CASE RefreshEnds(s)
      <4>1. CASE Leaves(s, write[s])
        BY <1>1, <3>4, <4>1 DEF RefreshEnds, Closed
      <4>2. CASE ~Leaves(s, write[s])
        BY <2>3, <3>4, <4>2 DEF RefreshEnds
      <4> QED BY <4>1, <4>2
    <3> QED BY <2>8, <3>1, <3>2, <3>3, <3>4
  <2>9. CASE FetchArrives
    <3>1. fetch.at = "answered" /\ fetch.row.val # cache.val
      BY <2>1, <2>3, <2>9 DEF FetchArrives, Fill
    <3> QED BY <1>1, <2>1, <2>2, <3>1, DifferentIsNewer
  <2> QED BY <1>1, <2>5, <2>6, <2>7, <2>8, <2>9 DEF Next
<1>2. ASSUME IInv, [Next]_vars
      PROVE  [Dropped => cache # None /\ row.rev > cache.rev]_vars
  BY <1>1, <1>2
<1>3. (IInv /\ [Next]_vars)
        => [page.seed = "live" /\ ~KeepsAnswers /\ open /\ open' /\ typed # {} /\ typed' = {}
              => cache # None /\ row.rev > cache.rev]_vars
  BY <1>2
<1> QED BY <1>3, Invariance, PTL DEF Spec, TypingIsKept

-----------------------------------------------------------------------------
(* A form that follows its query. *)

(* Filling brings the form to the new data, or finds it there. *)
LEMMA FillFollows ==
  ASSUME FormFollowsData, page.seed = "live", page.answer # "form", open,
         NEW data, Fill(data), data # None
  PROVE  form' = data.val
<1>1. CASE cache = None \/ data.val # cache.val
  BY <1>1 DEF Fill
<1>2. CASE cache # None /\ data.val = cache.val
  BY <1>2 DEF Fill, FormFollowsData
<1> QED BY <1>1, <1>2

(* So do the answers of requests, those the form does not take itself. *)
LEMMA AnswerFollows ==
  ASSUME IInv, FormFollowsData, page.seed = "live", page.answer # "form", open,
         NEW s \in Slot, write[s] # None, write[s].at = "applied", Answered(s, write[s])
  PROVE  form' = IF cache' = None THEN None ELSE cache'.val
<1> DEFINE w == write[s]
<1>1. /\ w.answer = page.answer \/ \E a \in page.acts : w.answer = a.answer
      /\ w.result # None
  BY RowLemma DEF IInv, Requests, Known, TypeOK, Write
<1>2. w.answer \notin {"form", "close"}
  BY <1>1, ShapeLemma DEF IInv, TypeOK
<1>3. CASE w.answer = "cache"
  <2>1. cache' = w.result /\ Fill(w.result)
    BY <1>2, <1>3 DEF Answered
  <2>2. form' = w.result.val
    BY <1>1, <2>1, FillFollows
  <2> QED BY <1>1, <2>1, <2>2
<1>4. CASE w.answer # "cache"
  <2>1. UNCHANGED <<cache, form>>
    BY <1>2, <1>4 DEF Answered
  <2> QED BY <2>1 DEF FormFollowsData
<1> QED BY <1>3, <1>4

(* Every step keeps form and data together. *)
LEMMA FormStaysWithData ==
  ASSUME IInv, FormFollowsData, [Next]_vars
  PROVE  FormFollowsData'
<1> SUFFICES ASSUME page'.seed = "live", page'.answer # "form", open'
             PROVE  form' = IF cache' = None THEN None ELSE cache'.val
  BY DEF FormFollowsData
<1>1. CASE UNCHANGED <<page, cache, open, form>>
  BY <1>1 DEF FormFollowsData
<1>2. CASE OpenPage
  BY <1>2 DEF OpenPage
<1>3. CASE LeavePage
  BY <1>3 DEF LeavePage, Closed
<1>4. CASE OpenDialog \/ CloseDialog
  BY <1>4 DEF OpenDialog, CloseDialog
<1>5. CASE FetchArrives
  <2>1. /\ cache' = fetch.row /\ Fill(fetch.row) /\ UNCHANGED <<page, open>>
        /\ fetch.row # None
    BY <1>5, RowLemma DEF FetchArrives, IInv, TypeOK, Fetch
  <2> QED BY <2>1, FillFollows
<1>6. ASSUME NEW s \in Slot, WriteAnswered(s)
      PROVE  form' = IF cache' = None THEN None ELSE cache'.val
  <2>1. CASE open /\ Leaves(s, write[s])
    BY <1>6, <2>1 DEF WriteAnswered, Closed
  <2>2. CASE ~(open /\ Leaves(s, write[s]))
    <3>1. /\ write[s] # None /\ write[s].at = "applied"
          /\ Answered(s, write[s]) /\ UNCHANGED <<page, open>>
      BY <1>6, <2>2 DEF WriteAnswered
    <3> QED BY <3>1, AnswerFollows
  <2> QED BY <2>1, <2>2
<1>7. ASSUME NEW s \in Slot, WriteRefreshes(s)
      PROVE  form' = IF cache' = None THEN None ELSE cache'.val
  <2>1. /\ write[s] # None /\ write[s].at = "applied"
        /\ Answered(s, write[s]) /\ UNCHANGED <<page, open>>
    BY <1>7 DEF WriteRefreshes
  <2> QED BY <2>1, AnswerFollows
<1>8. ASSUME NEW s \in Slot, RefreshEnds(s)
      PROVE  form' = IF cache' = None THEN None ELSE cache'.val
  <2>1. CASE Leaves(s, write[s])
    BY <1>8, <2>1 DEF RefreshEnds, Closed
  <2>2. CASE ~Leaves(s, write[s])
    BY <1>1, <1>8, <2>2 DEF RefreshEnds
  <2> QED BY <2>1, <2>2
<1>9. ASSUME NEW s \in Slot, ServerApplies(s) \/ WriteFails(s)
      PROVE  UNCHANGED <<page, cache, open, form>>
  BY <1>9 DEF ServerApplies, WriteFails
<1>10. CASE \/ Age \/ FetchAnswered \/ FetchFails \/ Type
            \/ PressSave \/ PressAct \/ ActElsewhere \/ OthersWrite \/ UNCHANGED vars
  <2>1. UNCHANGED <<page, cache, open, form>>
    BY <1>10 DEF Age, FetchAnswered, FetchFails, Type, PressSave, PressAct, ActElsewhere,
       OthersWrite, vars
  <2> QED BY <1>1, <2>1
<1> QED BY <1>1, <1>2, <1>3, <1>4, <1>5, <1>6, <1>7, <1>8, <1>9, <1>10 DEF Next

(* An open form shows the data of its query, whichever of fetches, answers    *)
(* and edits brought them and in whatever order: a save never sends back what *)
(* this browser has seen replaced before it was pressed.                      *)
THEOREM FormShowsData == Spec => []FormFollowsData
<1>1. Init => FormFollowsData
  BY DEF Init, FormFollowsData
<1>2. IInv /\ FormFollowsData /\ [Next]_vars => FormFollowsData'
  BY FormStaysWithData
<1> QED BY <1>1, <1>2, Invariance, PTL DEF Spec

-----------------------------------------------------------------------------
(* The page and its cache implement what OwnWrites promises. *)

LEMMA PromiseInit == Init => Promise!Init
BY DEF Init, Promise!Init, Blank, Seen, Owed, Settled

(* Steps that change nothing OwnWrites sees, and steps that leave the page in *)
(* doubt. *)
LEMMA Unseen ==
  ASSUME UNCHANGED <<page, row, cache, fresh, owed>>
  PROVE  UNCHANGED <<row.rev, Seen, Owed, Settled>>
BY DEF Seen, Owed, Settled, SelfRefreshing

LEMMA TellStep ==
  ASSUME IInv, NEW s \in Slot, WriteAnswered(s) \/ WriteRefreshes(s)
  PROVE  [Promise!Next]_Promise!seeing
<1> DEFINE w == write[s]
<1>1. /\ w # None /\ w.at = "applied"
      /\ owed' = IF w.result.rev > owed THEN w.result.rev ELSE owed
      /\ page' = page /\ row' = row
      /\ SelfRefreshing(page) => fresh' = FALSE
  <2>1. write[s] # None => Known(write[s])
    BY DEF IInv, Requests
  <2> QED BY <2>1 DEF WriteAnswered, WriteRefreshes, Invalidate, Known
<1>2. w \in Write /\ Past(w.result) /\ Known(w)
  BY <1>1 DEF IInv, TypeOK, Requests, Known
<1>3. owed' \in owed .. row.rev /\ row.rev \in Nat /\ owed \in Nat
  BY <1>1, <1>2 DEF IInv, TypeOK, Dated, Past, Write, Row
<1>4. SelfRefreshing(page)' = SelfRefreshing(page)
  BY <1>1 DEF SelfRefreshing
<1>5. CASE SelfRefreshing(page)
  <2>1. cache' = cache
    <3>1. NoCacheAnswers
      BY <1>5 DEF SelfRefreshing, NoCacheAnswers
    <3>2. w.answer # "cache"
      BY <1>2, <3>1 DEF Known, NoCacheAnswers
    <3> QED BY <3>2 DEF WriteAnswered, WriteRefreshes, Answered
  <2>2. /\ Seen' = Seen /\ Owed' = owed' /\ Owed = owed /\ Settled' = FALSE
    BY <1>1, <1>4, <1>5, <2>1 DEF Seen, Owed, Settled
  <2> QED BY <1>1, <1>3, <2>2 DEF Promise!Next, Promise!Tell
<1>6. CASE ~SelfRefreshing(page)
  <2>1. UNCHANGED <<row.rev, Seen, Owed, Settled>>
    BY <1>1, <1>4, <1>6 DEF Seen, Owed, Settled
  <2> QED BY <2>1 DEF Promise!seeing
<1> QED BY <1>5, <1>6

LEMMA LookStep ==
  ASSUME IInv, FetchArrives
  PROVE  [Promise!Next]_Promise!seeing
<1>1. /\ fetch.at = "answered" /\ fetch.row \in Row /\ fetch.row # None
      /\ cache' = fetch.row /\ fresh' = TRUE
      /\ UNCHANGED <<page, row, owed>>
  BY RowLemma DEF FetchArrives, IInv, TypeOK, Fetch
<1>2. SelfRefreshing(page)' = SelfRefreshing(page)
  BY <1>1 DEF SelfRefreshing
<1>3. CASE SelfRefreshing(page)
  <2>1. NoCacheAnswers
    BY <1>3 DEF SelfRefreshing, NoCacheAnswers
  <2>2. /\ row.rev \in Nat /\ fetch.row.rev \in Nat /\ owed \in Nat
        /\ fetch.row.rev <= row.rev /\ fetch.row.rev >= owed
        /\ cache # None => cache.rev \in Nat /\ fetch.row.rev >= cache.rev
    BY <1>1, <1>3, <2>1 DEF IInv, TypeOK, Dated, Past, Orderly, UpToDate, Row
  <2>3. /\ Seen' = fetch.row.rev /\ Owed = owed /\ Owed' = owed /\ Settled' = TRUE
        /\ Seen = IF cache # None THEN cache.rev ELSE 0
    BY <1>1, <1>2, <1>3 DEF Seen, Owed, Settled
  <2> QED BY <1>1, <2>2, <2>3 DEF Promise!Next, Promise!Look
<1>4. CASE ~SelfRefreshing(page)
  <2>1. UNCHANGED <<row.rev, Seen, Owed, Settled>>
    BY <1>1, <1>2, <1>4 DEF Seen, Owed, Settled
  <2> QED BY <2>1 DEF Promise!seeing
<1> QED BY <1>3, <1>4

LEMMA AgeIsDoubt == ASSUME Age PROVE [Promise!Next]_Promise!seeing
<1>1. fresh' = FALSE /\ UNCHANGED <<page, row, cache, owed>>
  BY DEF Age
<1>2. /\ Settled' = FALSE /\ UNCHANGED <<row.rev, Seen, Owed>>
  BY <1>1 DEF Seen, Owed, Settled, SelfRefreshing
<1> QED BY <1>2 DEF Promise!Next, Promise!Doubt

LEMMA WriteIsWrite ==
  ASSUME row'.rev = row.rev + 1, UNCHANGED <<page, cache, fresh, owed>>
  PROVE  [Promise!Next]_Promise!seeing
<1>1. UNCHANGED <<Seen, Owed, Settled>>
  BY DEF Seen, Owed, Settled, SelfRefreshing
<1> QED BY <1>1 DEF Promise!Next, Promise!Write

LEMMA PromiseStep == IInv /\ [Next]_vars => [Promise!Next]_Promise!seeing
<1> SUFFICES ASSUME IInv, [Next]_vars PROVE [Promise!Next]_Promise!seeing
  OBVIOUS
<1>1. ASSUME UNCHANGED <<page, row, cache, fresh, owed>>
      PROVE  [Promise!Next]_Promise!seeing
  BY <1>1, Unseen DEF Promise!seeing
<1>2. CASE UNCHANGED vars
  BY <1>1, <1>2 DEF vars
<1>3. CASE OpenPage \/ LeavePage \/ FetchAnswered \/ FetchFails
  BY <1>1, <1>3 DEF OpenPage, LeavePage, FetchAnswered, FetchFails
<1>4. CASE OpenDialog \/ CloseDialog \/ Type \/ PressSave \/ PressAct \/ ActElsewhere
  BY <1>1, <1>4 DEF OpenDialog, CloseDialog, Type, PressSave, PressAct, ActElsewhere
<1>5. CASE Age
  BY <1>5, AgeIsDoubt
<1>6. CASE FetchArrives
  BY <1>6, LookStep
<1>7. ASSUME NEW s \in Slot, WriteFails(s) \/ RefreshEnds(s)
      PROVE  [Promise!Next]_Promise!seeing
  BY <1>1, <1>7 DEF WriteFails, RefreshEnds
<1>8. ASSUME NEW s \in Slot, ServerApplies(s) PROVE [Promise!Next]_Promise!seeing
  <2>1. write[s] \in Write
    BY <1>8 DEF ServerApplies, IInv, TypeOK
  <2>2. row'.rev = row.rev + 1
    BY <1>8, <2>1, WrittenType DEF ServerApplies
  <2> QED BY <1>8, <2>2, WriteIsWrite DEF ServerApplies
<1>9. ASSUME NEW s \in Slot, WriteAnswered(s) \/ WriteRefreshes(s)
      PROVE  [Promise!Next]_Promise!seeing
  BY <1>9, TellStep
<1>10. CASE OthersWrite
  <2>1. row'.rev = row.rev + 1 /\ UNCHANGED <<page, cache, fresh, owed>>
    BY <1>10 DEF OthersWrite
  <2> QED BY <2>1, WriteIsWrite
<1> QED BY <1>2, <1>3, <1>4, <1>5, <1>6, <1>7, <1>8, <1>9, <1>10 DEF Next

(* A page that refreshes itself never goes back to an older row, and shows    *)
(* every write this browser was told of once it counts as up to date: the     *)
(* page, its cache and its requests implement OwnWrites.                      *)
THEOREM PageKeepsPromise == Spec => Promised
BY PromiseInit, PromiseStep, Invariance, PTL DEF Spec, Promised, Promise!Spec

-----------------------------------------------------------------------------
(* The pages the promise is made for.                                         *)

Refreshing ==
  {AdminWorkflowPage, AdminAuthenticationPage, AdminAiPage, AdminApiPage, AdminMcpPage,
   AiModelsCard, AdminAnalyticsPage, AdminSecurityPage, AdminSystemSettingsPage,
   MyKeysPage}

(* Written from another page that does not refresh them, ...                  *)
WrittenAway ==
  {AdminAppsPage, AdminAppDetailPage, AdminDashboardPage, AdminApiKeysPage,
   AdminAuditPage, AdminRolesPage, AdminCategoriesPage, AdminUsersPage, MyAppsPage,
   MyDashboardPage, ActivityPage, ReviewQueuePage, CategoriesPage, HomePage, AppsPage,
   AppDetailPage}

(* ... keeping an answer in the cache, or refreshing another query only.      *)
Keeping   == {AdminSecurityCheckPage, AppSecurityCheckPage}
Forgetful == {PersonalSettingsPage, AppFormPage, ReviewDetailPage}

(* A key of one or two words covers itself; ...                               *)
LEMMA CoversItself ==
  ASSUME NEW a, NEW b
  PROVE  Covers(<<a>>, <<a>>) /\ Covers(<<a, b>>, <<a, b>>)
<1>1. \A key \in Seq({a, b}) : Covers(key, key)
  BY SubSeqFull DEF Covers
<1>2. <<a>> \in Seq({a, b}) /\ <<a, b>> \in Seq({a, b})
  OBVIOUS
<1> QED BY <1>1, <1>2

(* ... one of two words covers those of four that begin with it.              *)
LEMMA CoversBegun ==
  ASSUME NEW a, NEW b, NEW c, NEW d
  PROVE  Covers(<<a, b>>, <<a, b, c, d>>) /\ Covers(<<a, b, c, d>>, <<a, b, c, d>>)
<1> DEFINE S == {a, b, c, d}
           key == <<a, b, c, d>>
<1>1. /\ key \in Seq(S) /\ Len(key) = 4
      /\ key[1] = a /\ key[2] = b
      /\ <<a, b>> \in Seq(S) /\ Len(<<a, b>>) = 2
  OBVIOUS
<1>2. Covers(key, key)
  <2> HIDE DEF key
  <2> QED BY <1>1, SubSeqFull DEF Covers
<1>3. SubSeq(key, 1, 2) = <<a, b>>
  <2> DEFINE begin == SubSeq(key, 1, 2)
  <2>1. /\ begin \in Seq(S) /\ Len(begin) = 2
        /\ \A i \in 1 .. 2 : begin[i] = key[i]
    <3>1. \A i \in 1 .. 2 : key[i] \in S
      BY <1>1
    <3> HIDE DEF key
    <3> QED BY <3>1, SubSeqProperties
  <2>2. begin[1] = a /\ begin[2] = b
    BY <1>1, <2>1
  <2> HIDE DEF begin
  <2>3. \A i \in 1 .. Len(begin) : begin[i] = <<a, b>>[i]
    BY <2>1, <2>2
  <2>4. begin = <<a, b>>
    BY <1>1, <2>1, <2>3, SeqEqual
  <2> QED BY <2>4 DEF begin
<1> QED BY <1>1, <1>2, <1>3 DEF Covers

(* A key of one word covers none that begins with another.                    *)
LEMMA CoversNot ==
  ASSUME NEW a, NEW b, NEW c, a # b
  PROVE  ~Covers(<<a>>, <<b, c>>)
<1> DEFINE key == <<b, c>>
<1>1. SubSeq(key, 1, 1)[1] = b
  <2>1. \A i \in 1 .. 1 : key[i] \in {b, c}
    OBVIOUS
  <2>2. \A i \in 1 .. 1 : SubSeq(key, 1, 1)[i] = key[i]
    <3> HIDE DEF key
    <3> QED BY <2>1, SubSeqProperties
  <2> QED BY <2>2
<1>2. Len(<<a>>) = 1 /\ <<a>>[1] = a
  OBVIOUS
<1> QED BY <1>1, <1>2 DEF Covers

(* The shape of a page refreshes itself where the page's own keys do.         *)
LEMMA RefreshesItself ==
  ASSUME NEW p
  PROVE  SelfRefreshing(Shape(p)) <=>
           /\ p.seed # "none" => CoversKey(p.refreshes, p.key)
           /\ p.answer # "cache"
           /\ \A a \in p.acts : /\ a.at = "here"
                                /\ a.answer # "cache"
                                /\ CoversKey(a.refreshes, p.key)
<1> DEFINE shape == Shape(p)
<1>1. /\ shape.seed = p.seed /\ shape.answer = p.answer
      /\ shape.refreshes = CoversKey(p.refreshes, p.key)
      /\ shape.acts = {[at |-> a.at, writes |-> a.writes, answer |-> a.answer,
                        refreshes |-> CoversKey(a.refreshes, p.key)] : a \in p.acts}
  BY DEF Shape
<1> HIDE DEF shape
<1>2. (\A b \in shape.acts : b.at = "here" /\ b.answer # "cache" /\ b.refreshes)
        <=> \A a \in p.acts : /\ a.at = "here" /\ a.answer # "cache"
                              /\ CoversKey(a.refreshes, p.key)
  <2>1. ASSUME NEW a \in p.acts
        PROVE  \E b \in shape.acts : /\ b.at = a.at /\ b.answer = a.answer
                                     /\ b.refreshes = CoversKey(a.refreshes, p.key)
    <3> DEFINE b == [at |-> a.at, writes |-> a.writes, answer |-> a.answer,
                     refreshes |-> CoversKey(a.refreshes, p.key)]
    <3>1. b \in shape.acts
      BY <1>1
    <3>2. /\ b.at = a.at /\ b.answer = a.answer
          /\ b.refreshes = CoversKey(a.refreshes, p.key)
      OBVIOUS
    <3> QED BY <3>1, <3>2
  <2>2. ASSUME NEW b \in shape.acts
        PROVE  \E a \in p.acts : /\ b.at = a.at /\ b.answer = a.answer
                                 /\ b.refreshes = CoversKey(a.refreshes, p.key)
    BY <1>1
  <2> QED BY <2>1, <2>2
<1>3. SelfRefreshing(shape) <=>
         /\ shape.seed # "none" => shape.refreshes
         /\ shape.answer # "cache"
         /\ \A b \in shape.acts : b.at = "here" /\ b.answer # "cache" /\ b.refreshes
  BY DEF SelfRefreshing
<1>4. SelfRefreshing(shape) <=>
         /\ p.seed # "none" => CoversKey(p.refreshes, p.key)
         /\ p.answer # "cache"
         /\ \A a \in p.acts : /\ a.at = "here" /\ a.answer # "cache"
                              /\ CoversKey(a.refreshes, p.key)
  BY <1>1, <1>2, <1>3
<1> QED BY <1>4 DEF shape

(* A page of settings without other buttons refreshes what it shows.          *)
LEMMA SettingsRefresh ==
  ASSUME NEW resource, NEW sends, NEW acts,
         \A a \in acts : /\ a.at = "here" /\ a.answer # "cache"
                         /\ <<"admin", resource>> \in a.refreshes
  PROVE  SelfRefreshing(Shape(Settings(resource, sends, acts)))
<1> DEFINE p == Settings(resource, sends, acts)
<1>1. /\ p.key = <<"admin", resource>> /\ p.answer = "ignore"
      /\ p.refreshes = {<<"admin", resource>>} /\ p.acts = acts
  BY DEF Settings, Page
<1>2. Covers(p.key, p.key)
  BY <1>1, CoversItself
<1> QED BY <1>1, <1>2, RefreshesItself DEF CoversKey

(* So do lists whose buttons do.                                              *)
LEMMA ListRefresh ==
  ASSUME NEW key, NEW acts
  PROVE  SelfRefreshing(Shape(List(key, acts))) <=>
           \A a \in acts : a.at = "here" /\ a.answer # "cache" /\ CoversKey(a.refreshes, key)
<1> DEFINE p == List(key, acts)
<1>1. p.key = key /\ p.answer = "ignore" /\ p.seed = "none" /\ p.acts = acts
  BY DEF List, Page
<1> QED BY <1>1, RefreshesItself

(* The pages of settings no other page writes, their buttons included, ...     *)
LEMMA SettingsPagesRefresh ==
  \A p \in {AdminWorkflowPage, AdminAuthenticationPage, AdminAiPage,
            AdminApiPage, AdminMcpPage, AdminAnalyticsPage, AdminSecurityPage,
            AdminSystemSettingsPage} : SelfRefreshing(Shape(p))
<1>1. \A resource, sends : SelfRefreshing(Shape(Settings(resource, sends, {})))
  BY SettingsRefresh
<1>2. \A p \in {AdminWorkflowPage, AdminAuthenticationPage, AdminAiPage,
                AdminApiPage, AdminMcpPage} : SelfRefreshing(Shape(p))
  BY <1>1 DEF AdminWorkflowPage, AdminAuthenticationPage, AdminAiPage,
     AdminApiPage, AdminMcpPage
<1>3. \A at, writes, answer, refreshes :
         LET a == Act(at, writes, answer, refreshes)
         IN  a.at = at /\ a.answer = answer /\ a.refreshes = refreshes
  BY DEF Act
<1>4. SelfRefreshing(Shape(AdminAnalyticsPage))
  <2>1. PICK acts : /\ AdminAnalyticsPage = Settings("analytics", Whole, acts)
                    /\ \A a \in acts : /\ a.at = "here" /\ a.answer = "ignore"
                                       /\ <<"admin", "analytics">> \in a.refreshes
    BY <1>3 DEF AdminAnalyticsPage
  <2> QED BY <2>1, SettingsRefresh
<1>5. SelfRefreshing(Shape(AdminSecurityPage))
  <2>1. PICK acts : /\ AdminSecurityPage = Settings("security", {"form"}, acts)
                    /\ \A a \in acts : /\ a.at = "here" /\ a.answer = "ignore"
                                       /\ <<"admin", "security">> \in a.refreshes
    BY <1>3 DEF AdminSecurityPage
  <2> QED BY <2>1, SettingsRefresh
<1>6. SelfRefreshing(Shape(AdminSystemSettingsPage))
  <2>1. PICK acts : /\ AdminSystemSettingsPage = Settings("settings", Whole, acts)
                    /\ \A a \in acts : /\ a.at = "here" /\ a.answer = "ignore"
                                       /\ <<"admin", "settings">> \in a.refreshes
    BY <1>3 DEF AdminSystemSettingsPage, BrandingField
  <2> QED BY <2>1, SettingsRefresh
<1> QED BY <1>2, <1>4, <1>5, <1>6

(* ... and the lists whose buttons are all here refresh what they show; ...    *)
LEMMA ListsRefresh ==
  SelfRefreshing(Shape(AiModelsCard)) /\ SelfRefreshing(Shape(MyKeysPage))
<1>1. SelfRefreshing(Shape(MyKeysPage))
  <2> DEFINE key == <<"my-keys">>
  <2>1. Covers(key, key)
    BY CoversItself
  <2> HIDE DEF key
  <2>2. MyKeysPage = List(key, {Act("here", {"rest"}, "ignore", {key})})
    BY DEF MyKeysPage, key
  <2> QED BY <2>1, <2>2, ListRefresh DEF Act, CoversKey
<1>2. SelfRefreshing(Shape(AiModelsCard))
  <2> DEFINE key == <<"admin", "ai", "models", "provider">>
             ai == <<"admin", "ai">>
  <2>1. Covers(key, key) /\ Covers(ai, key)
    BY CoversBegun
  <2> HIDE DEF key, ai
  <2>2. AiModelsCard = List(key, {Act("here", {"rest"}, "ignore", {key}),
                                  Act("here", {}, "ignore", {ai})})
    BY DEF AiModelsCard, key, ai
  <2> QED BY <2>1, <2>2, ListRefresh DEF Act, CoversKey
<1> QED BY <1>1, <1>2

(* ... no other page does.                                                   *)
LEMMA OthersDoNot ==
  \A p \in WrittenAway \cup Keeping \cup Forgetful : ~SelfRefreshing(Shape(p))
<1>1. \A p \in WrittenAway : \E a \in p.acts : a.at = "away"
  <2>1. \A key, x, acts : List(key, {Act("away", x, "ignore", acts)}).acts
                            = {Act("away", x, "ignore", acts)}
    BY DEF List, Page
  <2>2. \A x, answer, refreshes : Act("away", x, answer, refreshes).at = "away"
    BY DEF Act
  <2>3. \E a \in AdminAppsPage.acts : a.at = "away"
    BY <2>2 DEF AdminAppsPage, List, Page
  <2>4. \E a \in AdminAppDetailPage.acts : a.at = "away"
    BY <2>2 DEF AdminAppDetailPage, Page
  <2>5. \A p \in {AdminRolesPage, AdminCategoriesPage, AdminUsersPage, CategoriesPage} :
           \E a \in p.acts : a.at = "away"
    BY <2>2 DEF AdminRolesPage, Settings, AdminCategoriesPage, AdminUsersPage,
       CategoriesPage, List, Page
  <2>6. \A p \in {AdminDashboardPage, AdminApiKeysPage, AdminAuditPage, MyAppsPage,
                  MyDashboardPage, ActivityPage} : \E a \in p.acts : a.at = "away"
    BY <2>1, <2>2 DEF AdminDashboardPage, AdminApiKeysPage, AdminAuditPage, MyAppsPage,
       MyDashboardPage, ActivityPage
  <2>7. \A p \in {ReviewQueuePage, HomePage, AppsPage, AppDetailPage} :
           \E a \in p.acts : a.at = "away"
    BY <2>1, <2>2 DEF ReviewQueuePage, HomePage, AppsPage, AppDetailPage
  <2> QED BY <2>3, <2>4, <2>5, <2>6, <2>7 DEF WrittenAway
<1>2. \A p \in Keeping : p.answer = "cache" \/ \E a \in p.acts : a.answer = "cache"
  <2>1. AdminSecurityCheckPage.answer = "cache"
    BY DEF AdminSecurityCheckPage, Page
  <2>2. \E a \in AppSecurityCheckPage.acts : a.answer = "cache"
    BY DEF AppSecurityCheckPage, List, Page, Act
  <2> QED BY <2>1, <2>2 DEF Keeping
<1>3. ~SelfRefreshing(Shape(PersonalSettingsPage))
  BY RefreshesItself DEF PersonalSettingsPage, Page, CoversKey
<1>4. ~SelfRefreshing(Shape(AppFormPage))
  <2>1. ~Covers(<<"my-apps">>, <<"my-app", "id">>)
    BY CoversNot
  <2> QED BY <2>1, RefreshesItself DEF AppFormPage, Page, CoversKey
<1>5. ~SelfRefreshing(Shape(ReviewDetailPage))
  <2>1. ~Covers(<<"reviews">>, <<"review", "id">>) /\ ~Covers(<<"apps">>, <<"review", "id">>)
    BY CoversNot
  <2>2. ~CoversKey(ReviewKeys, <<"review", "id">>)
    BY <2>1 DEF CoversKey, ReviewKeys
  <2>3. ReviewDetailPage = List(<<"review", "id">>, {Act("here", {"rest"}, "leave", ReviewKeys)})
    BY DEF ReviewDetailPage
  <2>4. Act("here", {"rest"}, "leave", ReviewKeys).refreshes = ReviewKeys
    BY DEF Act
  <2> QED BY <2>2, <2>3, <2>4, ListRefresh
<1> QED BY <1>1, <1>2, <1>3, <1>4, <1>5, RefreshesItself DEF Forgetful

(* Which pages of the web client refresh what they show after every write of  *)
(* this browser: settled by the keys each names in its onSuccess.             *)
THEOREM WhichPagesRefresh ==
  /\ \A p \in Refreshing : SelfRefreshing(Shape(p))
  /\ \A p \in WrittenAway \cup Keeping \cup Forgetful : ~SelfRefreshing(Shape(p))
BY SettingsPagesRefresh, ListsRefresh, OthersDoNot DEF Refreshing

(* On those pages, whatever is fetched, answered and written meanwhile, data  *)
(* that count as fresh show every write this browser was told of.             *)
THEOREM RefreshingPagesAreRead ==
  Spec => []((\E p \in Refreshing : page = Shape(p)) /\ fresh
               => cache # None /\ cache.rev >= owed)
<1>1. ReadYourWrites => ((\E p \in Refreshing : page = Shape(p)) /\ fresh
                           => cache # None /\ cache.rev >= owed)
  BY WhichPagesRefresh DEF ReadYourWrites
<1> QED BY <1>1, OwnWritesAreRead, PTL

=============================================================================
