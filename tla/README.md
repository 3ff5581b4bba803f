# A verification model of AppStore

AppStore is a catalogue of internal applications: a Go HTTP service
(`src/cmd`, `src/internal`) over PostgreSQL, with a React client (`src/web`).
Owners register apps, reviewers approve them at one or more levels, an external
system (SecCheck) can be required to clear them first, and administrators
configure all of it. This directory holds TLA+ modules for the parts of the
system whose correctness depends on an order of events: transactions of several
people in the service, requests and answers in the client. With them are the TLC
configurations that check them, and proofs, checked by TLAPS, of what matters
most.

## 1. The system

**The service.** Nothing of importance lives in the memory of the service. A request is handled
by a goroutine that runs a sequence of database transactions (READ COMMITTED,
pgx pool), possibly on one of several replicas. State is shared only through
the tables, protected by row locks where the SQL says `FOR UPDATE` or
`FOR SHARE` and by single statements elsewhere. What is hard is therefore
always the same: a value read in one transaction and used in the next, a
handler that dies between two transactions, and rules that span tables without
a constraint of the schema to keep them.

**The client.** A page shows a row or a list of the server through a query
cache (`@tanstack/react-query`), fills a form from it, and writes it with
requests whose success invalidates what they changed. Requests overlap, answers
arrive in any order or not at all, the reader types, leaves and comes back, and
other people write the same row. Tabs share the cookie and the local storage but
not what they know of the session. What is hard is what a form shows, and what a
tab believes, when an answer arrives after something else has happened.

| Component | State | Operations | What makes it correct | Here |
|---|---|---|---|---|
| Review workflow (`store/workflow.go`, `store/apps.go`, `httpapi/app_handlers.go`, `review_handlers.go`, `admin_catalog_handlers.go`, `mcp_handlers.go`) | `apps`, `reviews`, `workflow_config` | register, edit, submit, decide, archive, delete, set status, configure | one open review per app, every publication stands on a full chain of approvals, decisions are final, queue and catalogue agree | `ReviewWorkflow` |
| Approval policy (`workflow/workflow.go`) | none | `Decide` | the SQL does what the package says | `ReviewPolicy` |
| SecCheck gate (`store/security_check.go`, `httpapi/security_check_handlers.go`, `seccheck/`) | `app_security_checks`, `security_check_settings`, challenge and attached review in `apps` | refresh, record, save settings | the label of an app stands for an approval of this content, by the SecCheck in use | `SecurityCheck` |
| API keys (`store/keys.go`, `keymanager/`) | `api_keys`, `key_policy` | issue, rotate, revoke, use | limit of active keys, rotation never prolongs a key | `ApiKeys` |
| Users, sessions, sign-in (`store/users.go`, `auth/`, `httpapi/auth_*.go`) | `users`, `sessions`, `oidc_auth_requests`; the cookie | sign in, sign out, deactivate, remove | a session ends where it is shown, an OIDC state is used once | `SilentSignIn`, as browsers see it |
| Roles (`store/rbac.go`, `httpapi/admin_rbac_handlers.go`) | `roles`, `permissions`, `user_roles`, `role_permissions` | replace permissions, replace roles, bulk edit | a replacement leaves exactly what was given, the bootstrap role stays | not modelled |
| App documents and bundled guides (`store/app_documents.go`, `guides/sync.go`) | `app_documents` | upload, delete, sync at start-up | limit per app, one row per name | `Submission`, without the sync |
| Web client, pages (`web/src/pages`, `features/security-check`, `lib/api.ts`) | query cache, forms, requests in flight | open, type, save, press, leave | a page shows one's own writes, keeps what is typed, and its save ends | `Pages`, `PageData`, `OwnWrites` |
| Web client, sign-in (`features/auth/silent-sso.ts`, `app/providers.tsx`, `route-guards.tsx`, `auth-pages.tsx`) | marks in the storages, session and configuration a tab knows | load, silent attempt, login, logout | no redirect loop, no way back after a sign-out | `SilentSignIn` |
| Web client, submission (`app-form-page.tsx`, `features/apps/guide-documents.tsx`) | files picked, documents marked | stage, take back, save in steps | a save is whole or says it failed | `Submission` |
| Web client, the rest (shell, palette, favourites, dialogs) | focus, a list of slugs in `localStorage` | | presentation | not modelled |
| Rate limiting (`httpapi/ratelimit.go`) and CSP reports (`analytics/violations.go`) | maps in memory behind a mutex | count, sweep, evict | bounded memory, no more than the limit per window | not modelled |
| AI gateway (`ai/stream.go`) | one relayed stream | retry, relay | retries end at the deadline, events in order, one end | not modelled |
| Start-up (`database/`, `cmd/server/main.go`) | migrations table, advisory locks | migrate, seed, check the encryption key | each migration once, whichever replica dies | not modelled |
| MCP server (`mcp/`) | none | tools | the same transactions as the web API | its writing tools are actions of `ReviewWorkflow` |
| Audit trail (`audit/`, `store/audit.go`) | `audit_logs` | append after the change | append only (a trigger) | not modelled |
| Settings, categories, branding | rows of their own | single-statement writes, of the whole row or of some fields | nothing relates two of them | the row of `PageData` |
| Secrets (`crypto/secret.go`) | none | encrypt, digest | cryptography | not modelled |

How they interact: the handlers of apps read the workflow configuration and the
security settings before and between their writes; `submitOrHold` refreshes the
SecCheck reading of an app over the network before it submits; `SubmitApp` and
`gateAppStatus` ask `requireSecurityCheck` inside their transactions;
`UpdateApp` rotates the challenge, which invalidates a security approval in the
same transaction; `DecideReview` writes both the review and the app. The client
calls the service through `apiFetch`, which gives every request a time limit and
carries the CSRF token of the session the tab shows; `RequireAuth` and
`SilentSsoEffect` both act on the answer to the session query, each in its own
way.

## 2. The modules

| Module | Content |
|---|---|
| `ReviewPolicy` | `Decide` of package `workflow` as two operators |
| `ReviewWorkflow` | apps, reviews, configuration and the handlers in flight |
| `Approval` | the abstract specification `ReviewWorkflow` implements where the organisation is settled: submissions and signatures, no table of reviews |
| `MCReviewWorkflow` | constants and symmetry for TLC |
| `ReviewWorkflow_proofs` | theorems about `ReviewWorkflow` |
| `Approval_proofs` | that a settled `ReviewWorkflow` implements `Approval` |
| `SecurityCheck` | challenges, recorded approvals, settings, SecCheck itself, refreshes and saves in flight |
| `Attestation` | the abstract specification `SecurityCheck` implements: what a label says and when it is gone |
| `MCSecurityCheck` | constants and symmetry for TLC |
| `SecurityCheck_proofs` | theorems about `SecurityCheck` |
| `Attestation_proofs` | that `SecurityCheck` implements `Attestation` |
| `ApiKeys` | the keys of one user, the policy, the clock and the requests in flight |
| `KeyRing` | the abstract specification `ApiKeys` implements: keys issued, replaced and revoked one at a time |
| `MCApiKeys` | constants and symmetry for TLC |
| `ApiKeys_proofs` | theorems about `ApiKeys`, the refinement among them |
| `Pages` | one record per page of the client: its query, its form, what it sends and what it refreshes |
| `PageData` | one page, its row on the server, and the query cache between them |
| `OwnWrites` | the abstract specification `PageData` implements: what a reader may expect of a page |
| `MCPageData` | the set of all pages, for TLC |
| `PageData_proofs` | theorems about `PageData`, the refinement among them, and about which pages refresh themselves |
| `SilentSignIn` | the tabs of a browser, their marks, the sessions of the server, the trips to the identity provider |
| `MCSilentSignIn` | tabs and symmetry for TLC |
| `SilentSignIn_proofs` | theorems about `SilentSignIn` |
| `Submission` | the forms open on one app, and its documents |
| `MCSubmission` | symmetry for TLC |
| `Submission_proofs` | theorems about `Submission` |

### 2.1 ReviewWorkflow

*One action is one database transaction.* `SubmitApp`, `DecideReview`,
`UpdateApp`, `SetAppStatus` hold a row lock from their first statement to their
commit, so their steps cannot be told apart by anybody else. (`SubmitApp` locks
the app and then its reviews, `DecideReview` the review and then the app; when
they meet, PostgreSQL aborts one, which is the same as that request not having
been made.)

| Variable | Code |
|---|---|
| `apps[a]` | the row in `apps`: `status`, `owner_id`, the data as one value `content`; `cleared` is what `securityVerifiedSQL` says of the row |
| `reviews[r]` | the row in `reviews` |
| `config` | the row of `workflow_config` |
| `secEnabled` | `security_check_settings.enabled` |
| `requests[h]` | the local state of a handler between its transactions: which one is next (`pc`), and the status it read at first (`seen`, the handler's `before.Status`) |

`shown` (content at the moment of publication) and `round` (the level 1 review
a review descends from) are auxiliary: no guard reads them, properties do.
Faulty variants of some operators stand next to the right ones (`CancelNothing`,
`ApproveAnyLevel`, ...); no specification uses them. They record which mistake
each property would find.

The handlers become: `CreateApp` then `SubmitApp`; `StartUpdate`, `UpdateApp`,
`ReadConfig`, then perhaps `SubmitApp`; `StartSubmit` then `SubmitApp`.
`SubmitApp` is `Queue` (workflow on), `PublishAtOnce` (off) or `Hold` (SecCheck
withholds clearance, or the row is gone). `Abort` is a client that went away or
a process that died. `DecideReview` is `Reject`, `ApproveToNextLevel` or
`ApproveLast`. Administrators have `SetAppStatus`, `AdminCreateApp`,
`AdminUpdateApp`, `DeleteApp` and `UpdateWorkflowConfig`.

Which reviewer may decide what (`reviewScope`: roles and teams) is the constant
`Deciders`; the reason of a rejection, names, slugs and audit records are left
out. `cleared` changes freely (`RecordSecurityCheck`): whatever `SecurityCheck`
can do to a label is allowed here.

Specifications: `Spec` is everything the service does. `SettledSpec` is an
organisation that has switched the workflow on, publishes on the last approval,
separates submitter and reviewer, and whose administrators leave the status of
apps and the configuration of the workflow alone: they delete apps and switch SecCheck on
and off (`HousekeepingNext`), no more; owners, reviewers, SecCheck and lost
clients go on. `GatedSpec` is that without housekeeping, with SecCheck required
from the start and never withdrawing what it has cleared, so that only an edit
costs an app its clearance. `SteadySpec` is the settled organisation without housekeeping and
lost clients, and with fairness.

`Approval` says what such an organisation may rely on, in four variables: how many
signatures a submission needs, the stage of an app, the author of the
submission in hand, and who has signed it so far. `Promise` is the refinement
mapping: the pending review is the submission in hand, its level says how many
have signed, and the approvals of its round who. Two things the abstract
specification shows that the code does and a reader may not expect: one person may sign at
every level, as the code only keeps the author from deciding; and an app that was
archived keeps its submission in the reviewers' hands, whose last approval
publishes it again.

### 2.2 SecurityCheck

| Variable | Code |
|---|---|
| `apps[a]` | content, `security_nonce` (the n-th challenge of `a` is `<<a, n>>`) and the attached review |
| `checks[r]` | the row of `app_security_checks` for remote review `r`; `status` stands for `remote_status`, `final_result` and `approved_at` |
| `settings` | address, credential and revision of `security_check_settings` |
| `remote[r]` | SecCheck's own record: binding block and verdict (external) |
| `refreshes[h]` | `refreshAppSecurityCheck` in flight: settings, challenge and content read one after the other, the network call, the recording transaction |
| `saves[s]` | `adminUpdateSecurityCheck` in flight: what the form holds, then what will be written |

Here the steps of one transaction are kept apart where the locks allow others
between them. `CheckBinding` takes the app's row `FOR UPDATE` and the settings
row `FOR SHARE`, reads the review's row *without* a lock, and `Upsert` writes
and commits: hence `AppLocked` and `SettingsLocked` in the guards of whoever
writes those rows meanwhile. A save reads the settings row without a lock
(`ReadRow`) before it writes it (`WriteRow`). `from`, `content` and `blocked` of
a row are auxiliary: the deployment, the bound content and the completion
blockers of the answer it records.

Assumed of SecCheck: a description cannot be edited once the review is
approved (`PasteBinding` needs an open review), and a deployment answers only to
its own keys and for its own reviews. Assumed of administrators: a key typed
with an address is that deployment's. Hashes and UUIDs do not collide.

Specifications: `Spec` is everything; `OwnersSpec` leaves out administrators
rewriting apps; `OrderlySpec` moreover has settings saved one at a time;
`SerialSpec` is everything except that the answers of one remote review are recorded
one after the other.

`Attestation` knows an app's content, the installation in use, and the label: what
was attested and by whom. A label appears in one step (`Vouch`), for what the app
holds and the installation in use then, and goes with any other content or
installation. The mapping `Promise` takes the label from the recorded row where
`Verified` says the app wears one. A label may vanish when another app is bound to
the same remote review (`Vouch` and `Withdraw` allow it), which is what the code does.

### 2.3 ApiKeys

| Variable | Code |
|---|---|
| `now` | the clock, in days; it may move between any two steps |
| `active` | `users.active` of the one user |
| `policy` | the row of `key_policy` as far as issue and rotation read it |
| `keys[k]` | the row of `api_keys`: revoked or not, `expires_at`, `rotated_from` |
| `requests[h]` | `createKey` or `rotateKey` in flight |

A handler first reads the policy and computes the expiry of the new key
(`StartCreate`, `StartRotate`). `CountForCreate` is `CreateAPIKey` up to its
count: it holds the user's row `FOR UPDATE` until `InsertCreated` commits
(`UserLocked`). `CountForRotate` is `RotateAPIKey` up to its count and holds the
old key only (`KeyLocked`); `ReplaceRotated` ends the old key and inserts the new
one, which refers to the user's row and so waits for a `CreateAPIKey` in
progress. `Revoke`, `UpdateKeyPolicy` and `SetActive` are single statements.
`grace` of a key is auxiliary: what the answer to the rotation promised.

The code compares with `now()`, the time its transaction began. That finds at
least the keys active which the clock would, so the model's guards, which use the
clock, admit every step of the code. Permissions, which can only refuse a
request, and the time of last use with the two rules about age, which can only
refuse a key at authentication, are left out.

`KeyRing` has no requests, locks or policies: a key is issued in one step, to an
active user and with room among the keys valid then; or takes the place of one
that is not revoked. Under the mapping `Promise` a count is a stutter and the
insertion that follows it the step, so the refinement says that the count is as good
at the commit as it was when it was made. Of rotations it promises no room: the
code gives none.

### 2.4 Pages, PageData and OwnWrites

`Pages` reads off each page component of the client what decides whether it
shows the server's row: the key of its query, whether its form is filled again
whenever the query brings other data (`live`) or copied when a dialog opens
(`copy`), which fields a save sends, what becomes of the answer, which keys are
invalidated, and the buttons beside the form. A row has two fields, what the
inputs edit and the rest. Wording, layout, validation and the single inputs are
what the records abstract from.

`PageData` is any one of these pages, taken by its `Shape`: of the keys only
whether an invalidation covers the page's own query (`Covers`).

| Variable | Code |
|---|---|
| `row` | the row on the server: how often it was written, and which write each field comes from |
| `cache`, `fresh` | the data of the query, and whether they are younger than the `staleTime` and not invalidated |
| `fetch` | the `useQuery` request: sent, answered with the row of that moment |
| `open`, `form`, `typed` | the page is mounted; its state; what was typed since it was last filled |
| `write[s]` | the `useMutation` of the form, of a button, or of a page that was left: sent, applied, waiting for the refetch it started |
| `owed` | history: the newest write of its own the browser was told of |

`Fill` is the `useEffect` on `query.data` (equal data keep their identity, so it
runs only when the data change); `Invalidate` is `invalidateQueries`, which
gives up the fetch under way for a new one, but only where there are data
already. `WriteRefreshes` and `RefreshEnds` are the two halves of
`onSuccess: await invalidateQueries(...)`: a mutation is pending until the
refetch ends. `FetchFails` and `WriteFails` are refusals, lost answers and the
time limit of `apiFetch`. The query library is modelled from how the pages use it
and from `queryClient` (`app/providers.tsx:147`).

`OwnWrites` says what this is for, in four variables: the page shows the row as
it was at some time, never goes back, and is up to date only when it shows every
write the browser was told of. `Promise` in `PageData` is the refinement mapping;
a page some of whose writes do not refresh it (`SelfRefreshing` is false, as of
the dashboard, the app form or the personal settings) promises nothing.

### 2.5 SilentSignIn

| Variable | Code |
|---|---|
| `live`, `cookie` | `sessions`, and the session cookie all tabs share |
| `signedOut`, `attempted[t]`, `blocked` | the mark in `localStorage`, the one in the tab's `sessionStorage`, storage that throws |
| `at[t]`, `target[t]`, `trip[t]` | public page, page behind `RequireAuth`, `/login`, or away at the provider; `returnTo`; why it goes |
| `view[t]`, `known[t]` | the session query's data and whether the public configuration is there |
| `fetch[t]`, `logout[t]` | the session request and the logout request, with the cookie each was sent with |
| `tries[t]` | history: silent attempts since the tab saw a session |

`Effect` is `SilentSsoEffect`: every action that changes what it depends on runs
it in the same step, as React does before anything else can happen. `Load` is a
new document; it forgets everything but the storages. A session stands for its
cookie and its CSRF token; `VerifyCSRF` compares the token of the session a tab
shows with the session of the cookie. `ServerLogout` clears the cookie and answers
in any case; the session's row may stay, since the error of the delete is dropped
(`auth_handlers.go:218`). `/403` and `/admin/bootstrap`, on which
nothing is attempted either, are left out, and so are the roles of `RequireAuth`,
which only replace a page by a refusal. The provider is external: whether it has
a session is a choice at the callback.

### 2.6 Submission

Several forms, of one or more people, are open on one app. `pending`, `removed`
and `listed` are the state of `useGuideDocumentDraft` and its query; `save` is how
far the mutation of `AppFormPage` has got: the app is saved first (`AppSaved`),
then marked documents are deleted (`DeleteOne`) and picked files uploaded, each
upload in the two statements of `CreateAppDocument` (`CountDocuments`,
`StoreOne`). `SaveFails` ends a save at any request; the app may have been created
all the same, and an upload that has been counted may still be inserted after its
form has given up (`late`, `StoreLate`). A deletion that is carried out late is
like that of another form and has no action of its own; an upload given up
before its count ends with its connection. `start`, `left` and `stored`
record what the save set out to do, has still to do and has stored. The code
uploads the files in the order they were picked; the model in any order. A form
is not left while its save runs, and the list a form has read does not arrive a
second time before it is opened again. Size and type of a file are left out.

### 2.7 Composition

`ReviewWorkflow` and `SecurityCheck` meet in one bit: `Verified(a)` of
`SecurityCheck` is `cleared` of `ReviewWorkflow`. `UpdateApp` clears it in both
(changed content rotates the challenge), `RecordSecurityCheck` sets it either
way, `AdminUpdateApp` leaves it. The pages of `PageData` write the rows whose
handlers the other modules describe; what a page needs of them is only that a
write replaces the row it is given (`Written`). `SilentSignIn` provides the
session every request of `PageData` is sent with; a request that is refused for
want of one is `FetchFails` or `WriteFails`.

## 3. What TLC checks

| Run | Specification | Shows |
|---|---|---|
| `workflow` | `Spec`, 1 app, 3 reviews, 1 handler | with every actor and switching settings: at most one pending review (`OnePendingReview`); a review of level n stands on approvals at 1..n-1 of the same submission (`ChainOfApprovals`); a decision is never revised (`DecisionsAreFinal`); each decision, with the workflow on or off, is the one package `workflow` prescribes under the policy in force: with the workflow off, one level whose approval publishes (`DecisionsFollowPolicy`) |
| `settled` | `SettledSpec`, 1 app, 3 reviews, 2 handlers | an app in the queue has a review somebody can decide, an app outside has none that could still change it (`QueueAgrees`); what is published was approved at every level by somebody other than its submitter (`PublishedWasApproved`); no step leads from rejected to published (`RejectedIsNotPublished`); the workflow implements `Approval` (`ApprovalKept`, refinement) |
| `steady` | `SteadySpec`, 1 app, 2 reviews, 2 handlers | an edited rejected app is put back in the queue (`EditedRejectionIsRequeued`, liveness) |
| `security_orderly` | `OrderlySpec`, 1 app, 2 deployments, 2 refreshes, 2 saves | a verified app has the content SecCheck approved, wherever edits fall between the five steps of a refresh (`VerifiedContent`); its approval comes from the SecCheck in use (`VerifiedBySecCheckInUse`); a stored credential belongs to the stored address (`CredentialStaysHome`); the gate implements `Attestation` (`AttestationKept`, refinement) |
| `api_keys` | `Spec` of `ApiKeys`, 4 keys, 2 requests, 2 policies, days 0 and 1 | issued keys never outnumber the highest limit (`IssuedWithinLimit`); keys no other has replaced exceed it by at most the overlap of requests less one (`CurrentWithinLimit`); a rotated key ends when the user was told, or before (`GraceIsKept`); nothing revives a dead key (`DeadStaysDead`); no key is issued to a deactivated user (`IssuedToActive`); the rows implement `KeyRing` (`KeyRingKept`, refinement) |
| `page_data` | `FairSpec` of `PageData`, every page, 2 writes of the row | a page that refreshes itself never counts an older row than its own last write as fresh (`ReadYourWrites`); on a page that stays open only a newer row drops what was typed (`TypingIsKept`); an open form that follows its query shows the query's data (`FormFollowsData`); a pressed save ends (`SavesEnd`, liveness); the page implements `OwnWrites` (`Promised`, refinement) |
| `sign_in` | `Spec` of `SilentSignIn`, 2 tabs, 2 sessions, 2 loads | at most one silent attempt until a session is seen, and none where storage throws (`AttemptOnce`); a session ends by expiry or by a sign-out in a tab that shows it, never by that of a tab that still shows an earlier one (`EndedWhereShown`) |
| `submission` | `Spec` of `Submission`, 2 forms, 3 names, a limit of 1 | documents exceed the limit by less than the number of forms and of uploads given up (`LimitByOverlap`); a form that says it is done deleted and stored all its save set out to (`DoneIsWhole`) |

`RejectedIsNotPublished` and `QueueAgrees` deserve a word, since the code never
states them: they hold because `SubmitApp` cancels all pending reviews of the
app under its row lock while `DecideReview` requires its review to be pending
under *its* row lock, so that of a resubmission and a decision that meet, either
order leaves one live review.

### Disagreements between documentation and code

Four of them are runs that TLC ends with a counterexample.

| Run | The repository says | The code does |
|---|---|---|
| `approval_gate` | `store/security_check.go:204`: *every* transition into queue or catalogue passes `requireSecurityCheck` | `DecideReview` (`store/workflow.go:341`) publishes without it. With SecCheck required throughout (`GatedSpec`), an app is cleared and submitted, its owner edits it in the queue, which costs it the clearance, and the last approval publishes the new content |
| `security_shared` | `store/security_check.go:128`: a review already bound to another app is refused outright; `migrations/000007_security_check.sql:23`: it must never be recycled for another | `RecordAppSecurityCheck` reads the binding without a lock (`:155`): of two apps recording one review at once both find it free, the second overwrites the challenge in the row of the first, is attached to it and wears its label (`LabelOfOwnReview`). Under `SerialSpec` it cannot, which is proved |
| `login_screen` | `docs/USER_GUIDE.md:39`: with silent sign-in on, someone signed in at the provider enters without passing the login screen | `RequireAuth` (`route-guards.tsx:36`) waits for the session only, `SilentSsoEffect` for the configuration too; when the session's answer comes first the tab is on `/login`, where nothing is attempted |
| `taken_name` | `guide-documents.tsx:116`: a name already taken is refused when the file is picked, "rather than on a save that would fail halfway" | the names known may be none yet (the list has not arrived) or too few (a removal is taken back, or the save that failed stored the file itself), and the upload is refused after the app was saved |

The others are stated as properties next to the code they are about and are
violated in the same way; no run of their own repeats them. To see one, name it
in a configuration like `MCReviewApprovalGate.cfg`.

| Property | The documentation says | The code does |
|---|---|---|
| `NoDecisionWhileOff` (`ReviewWorkflow`) | `workflow/workflow.go:33` refuses any decision while the workflow is off ("review workflow is disabled") | `DecideReview` decides a review left pending when the workflow was switched off, and publishes whatever `autoPublish` says (`store/workflow.go:340`) |
| `AdminPassesGate` (`ReviewWorkflow`) | `docs/ADMIN_GUIDE.md:364`: not even an administrator can publish or queue an app without clearance | the administrator's forms (`AdminCreateApp`, `AdminUpdateApp`, `store/apps.go:384`, `:424`) write any status in one statement, without the gate `SetAppStatus` passes |
| `EditIsReviewedAgain` (`ReviewWorkflow`) | `docs/ADMIN_GUIDE.md:291`: editing a published app brings it back to review | an edit begun while the app was in the queue, and overtaken by the last approval, is judged by the old status and stays published unseen (`app_handlers.go:69`) |
| `HeldEditLeavesCatalog` (`ReviewWorkflow`) | `docs/ADMIN_GUIDE.md:364`: an edited app loses its approval and goes back to draft | `submitOrHold` leaves the status: the app stays published with its new content |
| `VerifiedBySecCheckInUse` under `Spec` (`SecurityCheck`) | `docs/ADMIN_GUIDE.md:366`: changing address or key voids all approvals read before | two saves at once compute the same next revision, so approvals read under the first connection count under the second (`store/security_check.go:68`); the run `security_orderly` claims it for saves one at a time |
| `VerifiedHasNoBlockers` (`SecurityCheck`) | `seccheck/review.go:16`, `docs/ADMIN_GUIDE.md:363`: an approval with unreviewed items, unverified changes or stale verdicts is not accepted | the failed verification is recorded with the remote's status and result, which is all `securityVerifiedSQL` looks at (`security_check_handlers.go:360`) |

More follow from the same models. Two overlapping
saves of the settings can also pair one administrator's address with
another's key, which `security_check_handlers.go:74` rules out: this is why
`CredentialStaysHome` is claimed of `OrderlySpec` only. `Upsert` overwrites the recorded
challenge although `migrations/000007_security_check.sql:24` binds a review to
one challenge for good; challenges are unique, so of apps attached to one review
only the one recorded last can wear the label. And `AdminUpdateApp` leaves the challenge of an app
whose content it replaces, so its label survives: `VerifiedContent` is claimed
of `OwnersSpec`.

In the client: a sign-out makes its marks before the request goes
(`providers.tsx:129`), while the session is still shown, so the effect clears both
if the configuration arrives or the tab moves before the answer; the answer then
finds no mark and a silent attempt follows, which `silent-sso.ts:57-62` says the
marks prevent. And pages that do not refresh the query their form is filled from
(the app form, the personal settings) show the row of before their own save when
they are opened again within the `staleTime`; `ReadYourWrites` claims nothing of
them. A sign-out says nothing of whether it ended its session: the error of
`DeleteSessionByTokenHash` is dropped (`auth_handlers.go:218`), the cookies are cleared, a
`logout` is recorded and 204 answered, while the session lives on until it expires. `SignedOutIsGone` in
`SilentSignIn` says what one would expect, and TLC finds it violated; the sign-out of the code
only promises that nobody else's session ends (`EndedWhereShown`).

One more belongs to `ApiKeys`. `docs/ADMIN_GUIDE.md:310` gives a user a maximum
number of keys. A rotation that leaves its old key a period of grace exceeds it
by design; but a rotation of an expired key that overlaps an issue exceeds it
with keys that are all current, since `RotateAPIKey` does not lock the user
(`store/keys.go:274`). `CurrentWithinLimit` says by how much, and the bound is
reached: with a limit of 1 and two requests, TLC finds two current keys.

### Bounds

`MaxLevels` is 2 (10 in the code): with two levels there is a first, a next and
a last one, and lowering or raising the number of levels while a review is open
already happens. Three reviews are a submission, its second level and a
resubmission that supersedes; with symmetric identifiers a fourth adds no new
relation to the properties, which speak of pairs. `workflow` moves between three configurations: two levels with and without
publication on the last approval, and the latter switched off.
One app suffices because no
transaction of the workflow touches two; `security_shared` has two because a
remote review is shared. Two handlers make every overlap of two requests. One
content value suffices where properties do not speak of content; two where they
do. `MaxRotations = 1` is an edit before, during and after a refresh;
`MaxRevision = 3` is two changes of connection. Four
keys are two that are rotated and two that take their place: with a limit of one
and two requests, a rotation that counted nothing would make three current keys,
more than `CurrentWithinLimit` allows. On day 1 a key has expired that was rotated on day 0, at once or with a grace of one day, and may be
rotated again, while a request that counted on day 0 is still under way. A key nobody
rotates does not expire within two days; the proofs have no such bound. The two policies differ in whether rotation leaves a grace. Identifiers are symmetric model
values; users are not, their roles differ. `steady` uses no symmetry, its
property being a liveness property.

`MaxRev = 2` lets a row be written by the page and by somebody else, in either
order, before, during and after a fetch; the three slots of requests overlap
freely up to that. The shapes of all pages are checked, each a behaviour of its
own. Two tabs are one that signs out and one that signs in again; two sessions
the old one and the new; two loads one tab each, or one tab reloaded or come back
from the provider, and `login_screen` has a third. That these bounds hide nothing
from `AttemptOnce` and `EndedWhereShown` is what the proofs add. A session nobody
holds any more, neither the cookie nor a request the server has still to read, is
left out of the fingerprint of a state (`HeldView`): it is never asked about again
and may only expire. Two forms make
every overlap of two saves; a limit of one is reached by the first document,
three identifiers let a document be stored, deleted and stored again; one upload
is given up with its outcome open. `LateView` leaves such an upload out of the fingerprint once
the identifiers are used up. That the bound is right where more uploads are given
up than identifiers are left is proved, not checked.
`taken_name` needs one form only.

The modules of the client bound a counter (writes, loads, sessions, identifiers)
whose end stops a behaviour, and a reader may stop too: their configurations say
`CHECK_DEADLOCK FALSE`. The deadlock check is left on for the modules of the
service.

### Fairness

`SteadySpec` assumes weak fairness of each handler's own next step and nothing
else: a goroutine that runs goes on to its next transaction, which no other
request can block for ever, as every transaction is short and finite. Nothing
is assumed of owners, reviewers or SecCheck. Lost clients (`Abort`) are left
out of this specification, because with them the property is false by design:
the service has no queue that would finish a half-done request.

`FairSpec` of `PageData` assumes that a request under way ends, by an answer or by
failing: `apiFetch` aborts it after its time limit, and a failed query is tried
once more; and that an answer that is there is handled by the event loop. Nothing
is assumed of the reader, who may never press, type or leave, nor of other
people. With this `SavesEnd` holds although fetches are given up for one another:
each is given up only for an invalidation, of which the slots hold few.

## 4. What is proved

The theorems hold for all values of the constants that satisfy
the assumptions their modules name: any number of users, apps,
reviews, handlers, levels and keys, any configurations and policies in range, any
set of pages, any number of tabs, sessions, forms and names.

**ReviewWorkflow_proofs.** The inductive invariant is
`ReviewInv == TypeOK /\ Formed /\ OnePendingReview /\ Rounds /\ ChainOfApprovals`.
`OnePendingReview` is not inductive alone: that the next level may be opened
needs the review being approved to be the pending one of its app, which needs
`Formed` (a row that exists has an app that exists, a submitter, a level from 1
up; handlers in flight name apps). `ChainOfApprovals` needs `Rounds` (the reviews
of one round agree on app and submitter, and one that is pending is the highest
of its round). The steps are first reduced to the few things they can do to
the review table (`StepOfReviews`: submit, cancel, decide, escalate, remove),
so each part of the invariant is proved over five cases instead of twenty
actions.

| Theorem | Statement |
|---|---|
| `ReviewsAreSound` | `Spec => []ReviewInv` |
| `TypesAreRight`, `AtMostOnePending`, `ChainIsComplete` | `Spec => []TypeOK`, `[]OnePendingReview`, `[]ChainOfApprovals` |
| `DecidedForGood`, `PolicyIsFollowed` | `Spec => DecisionsAreFinal`, `DecisionsFollowPolicy` |
| `SettledIsSound` | `SettledSpec => []SettledInv`, where `SettledInv` adds `Settled` (the configuration does not move), `WithinLevels` (a pending review is of a level the configuration asks for), `FourEyes` (whoever approved was not the submitter), `QueueAgrees` and `PublishedWasApproved` |
| `QueueIsHonest`, `PublicationIsEarned`, `RejectionHolds` | the properties of the run `settled` about queue and catalogue |

**Approval_proofs.** `WorkflowKeepsPromise` (`SettledSpec => ApprovalKept`). A
settled step is one of six kinds (`SettledKind`: apart from the reviews, a
submission, a rejection, a last or lower approval, a deletion), and each kind has
a lemma that maps it to a step of `Approval` or a stutter. Two facts about the mapping carry
them: with at most one pending review per app, `Current` is that review
whenever there is one; and with the chain complete, every level below it has
exactly one approval of its round, so the list of signatures is well defined
and grows by one when a level is approved. `WithinLevels` is what
makes the last signature the one that publishes.

**SecurityCheck_proofs.** `SecurityInv == TypeOK /\ Named` (a refresh in flight
is of an app that has been registered) gives `TypesHold`. `SerialInv` adds
`FoundFree` (a review found free by a recording under way stays free, or its app's)
and `OwnRows` (a row's challenge is one of its app, or of one that is deleted); as
recordings of one review take turns it is inductive, and
`LabelsAreOnesOwn` (`SerialSpec => []LabelOfOwnReview`) follows, since the label of an app
needs its challenge in the row. `LabelInv` adds `Attested`: whoever holds a
challenge with a content, be it a refresh that has read both or a recorded row,
holds the content the app has as long as that is its challenge; from it
`LabelsAreEarned` (`OwnersSpec => []VerifiedContent`). `OrderlyInv` adds
`OneSave`, `SavesFit` (what a save will write pairs a key with its address, and
keeps the revision only with the address) and `Revisions` (what was read under the current revision was
read from the current address), giving `CredentialsAreSafe` and
`LabelsFollowTheSettings` under `OrderlySpec`.

**Attestation_proofs.** `GateKeepsPromise` (`OrderlySpec => AttestationKept`). The
invariant is `OrderlyInv /\ Attested` with `Filled` (a live app has content) and
`OwnChallenge` (a refresh works with a challenge of its own app). From it `Worn`: a
label in force says exactly what the app holds and the settings point to now. So a
step need only be asked which apps are verified before and after it; what the
labels say follows. Recording an answer is the one step with more to it: it
may label its app, and take the label from apps attached to the same review.

**ApiKeys_proofs.** `KeysInv == TypeOK /\ Formed` (a key replaces one that
exists; a rotation in flight is of a key that exists). Steps are reduced to
three things they can do to the table (`StepOfKeys`): let keys fade, insert an
issued key, replace a rotated one; hence `NothingGains`, from which
`TheDeadStayDead` and `PromisesAreKept`. For issue, `IssueFits` says that one
request holds the user's row, and that there is room for its key: only so is the
limit inductive (`IssueKeepsTheLimit`, `OnlyTheActiveAreIssued`). For rotation,
`RotationsFit` balances the keys nobody is about to replace against the requests
that have counted and not yet inserted: a request that has counted is one more
pending, one that ends is one less and adds at most one key. Each key about to be
replaced has its request, so the balance bounds the current keys
(`RotationsKeepTheLimit`).

`RowsKeepPromise` (`Spec => KeyRingKept`) needs `RingInv`, which adds to those
`Room` (whoever holds the user's row has room for its key among all that are
valid: rotations wait for that row to insert, and nothing else adds a key) and
`Turn` (the key a rotation has locked is not revoked meanwhile, nor locked by
another). Insertion is then an issue, replacement a rotation that ends the old key
or shortens it, a revocation of a key revoked before a stutter, and everything a
handler does before it writes unseen.

**PageData_proofs.** `IInv` adds to the types: `Dated` (what is cached, fetched or
answered is the row of now or of before), `Requests` (on a page that refreshes
itself every request in flight covers the query and was sent where there were
data), `Filled` (a form or a save in flight needs data; a closed page fetches
nothing), `Orderly` (a fetch's answer is not older than the data it replaces,
unless answers are put in the cache) and `UpToDate` (a fetch that was answered,
and data that are fresh, hold what is owed). `UpToDate` is why the property is
true: an invalidation gives up the fetch that may have been answered before the
write, and the one case in which it does not, a page without data, cannot be
that of one's own write, by `Requests`. `OwnWritesAreRead`, `TypingKept` and
`PageTypes` follow from the invariant; `PageKeepsPromise` shows every action to be
a step of `OwnWrites` or a stutter. `FormShowsData` is inductive beside `IInv`:
whatever brings other data fills the form in the same step, and data that did not
change find the form filled.

Which pages these theorems are about is proved as well, from the keys each page
names. `WhichPagesRefresh`: of the 31 pages the 10 of `Refreshing` refresh
themselves, and no other; 16 are written from another page that does not
refresh them (the list of categories shows how many apps each has, the roles how
many users), 2 keep an answer in the cache and 3 refresh another query than their
own. `RefreshingPagesAreRead` puts the two together.

**SilentSignIn_proofs.** `IInv` adds `Tried` (a tab that has attempted
is marked, until it sees a session and forgets both; with storage blocked it has
not attempted). Hence `AttemptsOnce`. `SessionsEndWhereShown` goes through the
actions: only `SessionExpires` and `ServerLogout` take a session away, and
`ServerLogout` carries out the request only where the token of the session shown is that
of the cookie. One lemma says what `Effect` does, for all the actions that run it.

**Submission_proofs.** `IInv` adds `Ids` (identifiers are used in order, so a
document stored later is none of those marked), `Whole` (what a save set out to do
is done or left) and `Ended` (a save that is over has nothing left). `DoneForms`
follows. `LimitHolds` has an invariant of its own, `Overlap`: the documents,
the counts not yet used and the uploads the server is still at together exceed the limit by less
than the number of forms and of uploads given up, since a form that counts finds room.

| Module | Theorems about properties of the runs |
|---|---|
| `Approval_proofs`, `Attestation_proofs`, `ApiKeys_proofs` | the refinements: `WorkflowKeepsPromise`, `GateKeepsPromise`, `RowsKeepPromise` |
| `PageData_proofs` | `PageTypes`, `OwnWritesAreRead`, `TypingKept`, `FormShowsData`, `PageKeepsPromise` |
| `SilentSignIn_proofs` | `SignInTypes`, `AttemptsOnce`, `SessionsEndWhereShown` |
| `Submission_proofs` | `SubmissionTypes`, `DoneForms`, `LimitHolds` |

Only model-checked: `EditedRejectionIsRequeued` and `SavesEnd` (liveness under
fairness is out of the prover's reach, as are `ENABLED` and induction over data).

## 5. Not modelled, and why

Parsing and validation of input, search and paging, rendering, the audit trail
(written after the change; its loss is only logged), network formats of SecCheck
and OIDC, cryptography, and everything the table of section 1 marks so. Roles,
rate limiting, CSP reports, start-up and the AI gateway are each guarded by one
mutex, one advisory lock or one transaction, or keep no state: a model would
restate their few statements. The synchronisation of bundled guides and the
deactivation of users are listed as hazards with the reason. Time is modelled for
keys only; elsewhere no timeout decides anything but whether a request fails.

## 6. What could come next

1. `Catalog`: `ReviewWorkflow` and `SecurityCheck` in one module, with
   `SecurityCheck` checked against the bit `cleared`; with it the lost
   update of `mcpUpdateApp`, which merges fields into content read earlier.
2. `ReviewLocks`: `SubmitApp` against `DecideReview` at the level of row locks,
   refining the atomic actions, with the deadlock PostgreSQL breaks.
3. `Accounts`: sessions against deactivation and removal, the transactions
   inside the callback, replacement of roles.
4. The start-up sync of several replicas against owners, in `Submission`.

## 7. Running

    tlc -workers 2 -config MCReviewSettled.cfg MCReviewWorkflow
    tlapm ReviewWorkflow_proofs.tla

The runs `workflow`, `settled`, `steady`, `security_orderly`, `api_keys`,
`page_data`, `sign_in` and `submission` take one to three minutes each, the others
half a minute or less; each proof module takes about a minute.
