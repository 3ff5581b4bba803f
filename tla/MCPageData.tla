----------------------------- MODULE MCPageData -----------------------------
(* The pages of the web client, each with its own behaviours. *)
EXTENDS PageData

AllPages ==
  {AdminRolesPage, AdminWorkflowPage, AdminAuthenticationPage, AdminAiPage,
   AdminApiPage, AdminMcpPage, AiModelsCard, AdminAnalyticsPage, AdminSecurityPage,
   AdminSystemSettingsPage, AdminSecurityCheckPage, AdminAppsPage,
   AdminAppDetailPage, AdminCategoriesPage, AdminUsersPage, AdminDashboardPage,
   AdminApiKeysPage, AdminAuditPage, MyKeysPage, PersonalSettingsPage,
   AppFormPage, MyAppsPage, MyDashboardPage, ActivityPage, AppSecurityCheckPage,
   ReviewQueuePage, ReviewDetailPage, CategoriesPage, HomePage, AppsPage,
   AppDetailPage}

=============================================================================
