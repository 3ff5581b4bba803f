------------------------------- MODULE Pages -------------------------------
(* What every page of the web client reads, sends and refreshes: one record   *)
(* per page of src/web/src/pages and src/web/src/features.  The wording, the  *)
(* layout and the single inputs of a page are left out; what stays is what    *)
(* decides whether the page shows the server's row:                           *)
(*                                                                            *)
(*   key        the key of the query the page shows,                          *)
(*   seed       how its form is filled: "live", again whenever the query      *)
(*              brings other data; "copy", from a row when a dialog is opened; *)
(*              "none", the page has no form,                                 *)
(*   sends      the fields of the row one save writes,                        *)
(*   answer     what the client does with the answer of the save: "ignore"    *)
(*              it, put it in the "form" or in the "cache", "close" the       *)
(*              dialog, or show that the form is "done",                      *)
(*   refreshes  the keys the save invalidates,                                *)
(*   acts       the buttons that write the row without the form, "here" on    *)
(*              the page or "away" on another page, with what they write,     *)
(*              what they invalidate and what becomes of the page.            *)
(*                                                                            *)
(* A row is cut in two fields: "form", what the page's inputs edit, and       *)
(* "rest", what is changed beside them (an allowed host, a template, the      *)
(* status of an app, the items of a list).                                    *)
EXTENDS Naturals, Sequences

Field == {"form", "rest"}
Whole == Field

Page(key, seed, sends, answer, refreshes, acts) ==
  [key |-> key, seed |-> seed, sends |-> sends, answer |-> answer,
   refreshes |-> refreshes, acts |-> acts]

Act(at, writes, answer, refreshes) ==
  [at |-> at, writes |-> writes, answer |-> answer, refreshes |-> refreshes]

(* A page that only lists: no form, so nothing is sent but by its buttons. *)
List(key, acts) == Page(key, "none", {}, "ignore", {}, acts)

(* invalidateQueries matches the query keys that start with the given one. *)
Covers(prefix, key) ==
  Len(prefix) <= Len(key) /\ SubSeq(key, 1, Len(prefix)) = prefix
CoversKey(refreshes, key) == \E prefix \in refreshes : Covers(prefix, key)

-----------------------------------------------------------------------------
(* Administration: the settings pages share useAdminSettings, and most of     *)
(* them SettingsShell.                                                        *)

Settings(resource, sends, acts) ==
  Page(<<"admin", resource>>, "live", sends, "ignore", {<<"admin", resource>>}, acts)

(* The roles come with the number of their users, which the users' page       *)
(* changes without refreshing them. *)
AdminRolesPage ==
  Settings("roles", {"form"}, {Act("away", {"rest"}, "ignore", {<<"admin-users">>})})

AdminWorkflowPage       == Settings("workflow", Whole, {})
AdminAuthenticationPage == Settings("authentication", Whole, {})
AdminAiPage             == Settings("ai", Whole, {})
AdminApiPage            == Settings("api", Whole, {})
AdminMcpPage            == Settings("mcp", Whole, {})

(* The list of models is a query of its own under the provider's key, so      *)
(* saving the provider refreshes it too.                                      *)
AiModelsCard ==
  List(<<"admin", "ai", "models", "provider">>,
       {Act("here", {"rest"}, "ignore", {<<"admin", "ai", "models", "provider">>}),
        Act("here", {}, "ignore", {<<"admin", "ai">>})})

(* Allowing an origin writes the allowedHosts of the very row the form saves  *)
(* as a whole; clearing the reports writes nothing of the row.  Both          *)
(* invalidate the settings with the violations.                               *)
AdminAnalyticsPage ==
  Settings("analytics", Whole,
           {Act("here", {"rest"}, "ignore", {<<"admin", "analytics">>}),
            Act("here", {}, "ignore", {<<"admin", "analytics">>})})

(* The policy form sends its seven fields only; permissions and templates     *)
(* are saved by their dialogs.                                                *)
AdminSecurityPage ==
  Settings("security", {"form"},
           {Act("here", {"rest"}, "ignore",
                {<<"admin", "security">>, <<"key-permission-options">>})})

(* Uploading a logo writes another table and refreshes the settings. *)
BrandingField ==
  Act("here", {}, "ignore", {<<"public-config">>, <<"admin", "settings">>})
AdminSystemSettingsPage == Settings("settings", Whole, {BrandingField})

AdminSecurityCheckPage ==
  Page(<<"admin", "security-check">>, "live", {"form"}, "cache",
       {<<"public-config">>}, {})

-----------------------------------------------------------------------------
(* Administration: lists and records.                                         *)

AppListKeys == {<<"admin", "apps">>, <<"apps">>}
AppKeys     == AppListKeys \cup {<<"admin", "app", "id">>}

(* The status select and the delete dialog of the list; the detail page       *)
(* refreshes the list from elsewhere.                                         *)
AdminAppsPage ==
  List(<<"admin", "apps">>,
       {Act("here", {"rest"}, "ignore", AppListKeys), Act("away", {"form"}, "ignore", AppKeys)})

(* The detail form holds the status with everything else and saves it all;    *)
(* the list changes the status under it and does not refresh it.              *)
AdminAppDetailPage ==
  Page(<<"admin", "app", "id">>, "live", Whole, "form", AppKeys,
       {Act("away", {"rest"}, "ignore", AppListKeys)})

(* The categories come with the number of their published apps, which every   *)
(* page that saves an app changes without refreshing them.                    *)
CategoryKeys == {<<"admin", "categories">>, <<"categories">>}

AdminCategoriesPage ==
  Page(<<"admin", "categories">>, "copy", {"form"}, "close", CategoryKeys,
       {Act("here", {"rest"}, "ignore", CategoryKeys),
        Act("away", {"rest"}, "ignore", AppListKeys)})

(* The users come with the keys and the permissions of their roles, which are *)
(* defined on the roles' page. *)
AdminUsersPage ==
  Page(<<"admin-users">>, "copy", {"form"}, "close", {<<"admin-users">>},
       {Act("away", Whole, "ignore", {<<"admin", "roles">>})})

(* Nothing refreshes the dashboard, the inventory of keys and the audit trail *)
(* when a page of this browser writes what they show. *)
AdminDashboardPage ==
  List(<<"admin", "dashboard">>, {Act("away", {"rest"}, "ignore", AppListKeys)})
AdminApiKeysPage ==
  List(<<"admin", "api-keys">>, {Act("away", {"rest"}, "ignore", {<<"my-keys">>})})
AdminAuditPage ==
  List(<<"admin-audit", "action">>, {Act("away", {"rest"}, "ignore", AppKeys)})

-----------------------------------------------------------------------------
(* Personal pages.                                                            *)

MyKeysPage ==
  List(<<"my-keys">>, {Act("here", {"rest"}, "ignore", {<<"my-keys">>})})

(* The answer of a save only sets the theme. *)
PersonalSettingsPage ==
  Page(<<"my-settings">>, "live", Whole, "ignore", {}, {})

(* Editing an app: the save refreshes the list of own apps, not the query the *)
(* form is filled from.                                                       *)
AppFormPage ==
  Page(<<"my-app", "id">>, "live", {"form"}, "done", {<<"my-apps">>}, {})

MyAppsPage ==
  List(<<"my-apps">>, {Act("away", {"form"}, "ignore", {<<"my-apps">>})})

(* The counts of own apps (those of keys are a query of MyKeysPage's shape),  *)
(* and the trail of one's own doings. *)
MyDashboardPage == MyAppsPage
ActivityPage ==
  List(<<"me-activity">>, {Act("away", {"rest"}, "ignore", {<<"my-keys">>})})

(* Verifying puts the answer in the cache, submitting refreshes and leaves. *)
AppSecurityCheckPage ==
  List(<<"app-security-check", "id">>,
       {Act("here", {"rest"}, "cache", {<<"my-apps">>}),
        Act("here", {"rest"}, "leave", {<<"my-apps">>, <<"app-security-check", "id">>})})

-----------------------------------------------------------------------------
(* Reviews and the public catalogue.                                          *)

ReviewKeys == {<<"reviews">>, <<"apps">>}

ReviewQueuePage == List(<<"reviews">>, {Act("away", {"rest"}, "ignore", ReviewKeys)})

(* A decision refreshes the queue, not the review itself, and goes back to    *)
(* the queue.                                                                 *)
ReviewDetailPage == List(<<"review", "id">>, {Act("here", {"rest"}, "leave", ReviewKeys)})

(* An administrator's change of a category refreshes the public list, the     *)
(* save of an app, which the counts depend on, does not. *)
CategoriesPage ==
  List(<<"categories">>, {Act("away", {"form"}, "ignore", CategoryKeys),
                          Act("away", {"rest"}, "ignore", AppListKeys)})

HomePage      == List(<<"apps", "home">>, {Act("away", {"rest"}, "ignore", AppListKeys)})
AppsPage      == List(<<"apps", "query">>, {Act("away", {"rest"}, "ignore", AppListKeys)})
AppDetailPage == List(<<"app", "slug">>, {Act("away", {"rest"}, "ignore", AppKeys)})

=============================================================================
