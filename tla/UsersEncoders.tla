--------------------------- MODULE UsersEncoders ---------------------------
(***************************************************************************)
(* What the generated encoder of every message of users/users.pb.go writes:*)
(* the members in the order of the bytes (the code starts at the end of    *)
(* the buffer and with the last member), each with the bytes of its tag,   *)
(* as literal in the code as here, and the condition under which it is     *)
(* written.  The decoders, and their view of the same fields, are those of *)
(* UsersMessages.                                                          *)
(***************************************************************************)
EXTENDS TLC, Sequences

Put(name, when, tag) == [name |-> name, when |-> when, tag |-> tag]
(* if len(m.X) > 0, if m.X != 0, if m.X                                    *)
NonZero(name, tag) == Put(name, "nonzero", tag)
(* without a condition: times and messages that are not pointers           *)
Always(name, tag) == Put(name, "always", tag)
(* if m.X != nil: pointers, and the one alternative of a oneof             *)
NonNil(name, tag) == Put(name, "each", tag)
(* for iNdEx := len(m.X) - 1; iNdEx >= 0; iNdEx--                          *)
Each(name, tag) == Put(name, "each", tag)

(* Lookups by cookie and by token.                                         *)
TokenLookups ==
    [LookupOrgRequest |->
        <<NonZero("Cookie", <<\hA>>), NonZero("OrgExternalID", <<\h12>>),
          NonZero("AuthorizeFor", <<\h20>>)>>,
     LookupOrgResponse |->
        <<NonZero("OrganizationID", <<\hA>>), NonZero("UserID", <<\h12>>),
          Each("FeatureFlags", <<\h1A>>)>>,
     LookupUsingTokenRequest |->
        <<NonZero("Token", <<\hA>>), NonZero("AuthorizeFor", <<\h10>>)>>]
(* Lookups of administrators and users.                                    *)
UserLookups ==
    [LookupUsingTokenResponse |->
        <<NonZero("OrganizationID", <<\hA>>), Each("FeatureFlags", <<\h12>>)>>,
     LookupAdminRequest |-> <<NonZero("Cookie", <<\hA>>)>>,
     LookupAdminResponse |-> <<NonZero("AdminID", <<\hA>>)>>,
     LookupUserRequest |-> <<NonZero("Cookie", <<\hA>>)>>,
     LookupUserResponse |-> <<NonZero("UserID", <<\hA>>)>>]
(* Queries for all and for billable organizations.                         *)
BillableQueries ==
    [GetOrganizationsRequest |->
        <<NonZero("Query", <<\hA>>), NonZero("PageNumber", <<\h10>>),
          NonZero("IncludeDeleted", <<\h18>>)>>,
     GetOrganizationsResponse |-> <<Each("Organizations", <<\hA>>)>>,
     GetBillableOrganizationsRequest |-> <<Always("Now", <<\hA>>)>>,
     GetBillableOrganizationsResponse |-> <<Each("Organizations", <<\hA>>)>>]
(* Queries for organizations in trial and behind on payment.               *)
TrialQueries ==
    [GetTrialOrganizationsRequest |-> <<Always("Now", <<\hA>>)>>,
     GetTrialOrganizationsResponse |-> <<Each("Organizations", <<\hA>>)>>,
     GetDelinquentOrganizationsRequest |-> <<Always("Now", <<\hA>>)>>,
     GetDelinquentOrganizationsResponse |->
        <<Each("Organizations", <<\hA>>)>>]
(* A single organization.                                                  *)
OneOrganization ==
    [GetOrganizationRequest |->
        <<NonNil("ExternalID", <<\hA>>),
          NonNil("GCPExternalAccountID", <<\h12>>),
          NonNil("InternalID", <<\h1A>>)>>,
     GetOrganizationResponse |-> <<Always("Organization", <<\hA>>)>>]
(* The organization.                                                       *)
OrganizationFirst ==
    <<NonZero("ID", <<\hA>>), NonZero("ExternalID", <<\h12>>),
      NonZero("Name", <<\h1A>>), NonZero("ProbeToken", <<\h22>>),
      Always("CreatedAt", <<\h2A>>), Each("FeatureFlags", <<\h32>>),
      NonZero("RefuseDataAccess", <<\h38>>),
      NonZero("RefuseDataUpload", <<\h40>>),
      NonNil("FirstSeenConnectedAt", <<\h4A>>), NonZero("Platform", <<\h52>>),
      NonZero("Environment", <<\h5A>>), Always("TrialExpiresAt", <<\h62>>),
      NonZero("ZuoraAccountNumber", <<\h6A>>),
      NonNil("ZuoraAccountCreatedAt", <<\h72>>),
      NonNil("TrialPendingExpiryNotifiedAt", <<\h7A>>)>>
OrganizationLast ==
    <<NonNil("TrialExpiredNotifiedAt", <<\h82, \h1>>),
      NonNil("GCP", <<\h8A, \h1>>), NonZero("TeamID", <<\h92, \h1>>),
      NonZero("TeamExternalID", <<\h9A, \h1>>),
      Always("DeletedAt", <<\hA2, \h1>>), NonZero("Cleanup", <<\hA8, \h1>>),
      NonNil("FirstSeenFluxConnectedAt", <<\hB2, \h1>>),
      NonNil("FirstSeenNetConnectedAt", <<\hBA, \h1>>),
      NonNil("FirstSeenPromConnectedAt", <<\hC2, \h1>>),
      NonNil("FirstSeenScopeConnectedAt", <<\hCA, \h1>>),
      NonZero("RefuseDataReason", <<\hD2, \h1>>),
      NonNil("LastSentWeeklyReportAt", <<\hDA, \h1>>),
      NonZero("PlatformVersion", <<\hE2, \h1>>),
      NonZero("DeletedBy", <<\hEA, \h1>>)>>
(* Google Cloud Platform accounts.                                         *)
GoogleAccounts ==
    [GoogleCloudPlatform |->
        <<NonZero("ID", <<\hA>>), NonZero("ExternalAccountID", <<\h12>>),
          NonZero("Activated", <<\h18>>), Always("CreatedAt", <<\h22>>),
          NonZero("ConsumerID", <<\h2A>>),
          NonZero("SubscriptionName", <<\h32>>),
          NonZero("SubscriptionLevel", <<\h3A>>),
          NonZero("SubscriptionStatus", <<\h42>>)>>,
     GetGCPRequest |-> <<NonZero("ExternalAccountID", <<\hA>>)>>,
     GetGCPResponse |-> <<Always("GCP", <<\hA>>)>>]
(* Changes of an account and of an organization.                           *)
Changes ==
    [UpdateGCPRequest |-> <<NonNil("GCP", <<\hA>>)>>,
     UpdateGCPResponse |-> <<>>,
     SetOrganizationZuoraAccountRequest |->
        <<NonZero("ExternalID", <<\hA>>), NonZero("Number", <<\h12>>),
          NonNil("CreatedAt", <<\h1A>>)>>,
     SetOrganizationZuoraAccountResponse |-> <<>>]
(* Flags and users.                                                        *)
FlagsAndUsers ==
    [SetOrganizationFlagRequest |->
        <<NonZero("ExternalID", <<\hA>>), NonZero("Flag", <<\h12>>),
          NonZero("Value", <<\h18>>)>>,
     SetOrganizationFlagResponse |-> <<>>,
     GetUserRequest |-> <<NonZero("UserID", <<\hA>>)>>,
     GetUserResponse |-> <<Always("User", <<\hA>>)>>]
(* Weekly reports.                                                         *)
WeeklyReports ==
    [GetOrganizationsReadyForWeeklyReportRequest |->
        <<Always("Now", <<\hA>>)>>,
     GetOrganizationsReadyForWeeklyReportResponse |->
        <<Each("Organizations", <<\hA>>)>>,
     SendOutWeeklyReportRequest |->
        <<Always("Now", <<\hA>>), NonZero("ExternalID", <<\h12>>)>>,
     SendOutWeeklyReportResponse |-> <<>>]
(* The user.                                                               *)
Users ==
    [User |->
        <<NonZero("ID", <<\hA>>), NonZero("Email", <<\h12>>),
          NonZero("Token", <<\h1A>>), Always("TokenCreatedAt", <<\h22>>),
          Always("FirstLoginAt", <<\h2A>>), Always("CreatedAt", <<\h32>>),
          NonZero("Admin", <<\h38>>), Always("LastLoginAt", <<\h42>>),
          NonZero("Company", <<\h4A>>), NonZero("Name", <<\h52>>),
          NonZero("FirstName", <<\h5A>>), NonZero("LastName", <<\h62>>)>>]
(* E-mail notifications.                                                   *)
Notifications ==
    [NotifyTrialPendingExpiryRequest |-> <<NonZero("ExternalID", <<\hA>>)>>,
     NotifyTrialPendingExpiryResponse |-> <<>>,
     NotifyTrialExpiredRequest |-> <<NonZero("ExternalID", <<\hA>>)>>,
     NotifyTrialExpiredResponse |-> <<>>,
     NotifyRefuseDataUploadRequest |-> <<NonZero("ExternalID", <<\hA>>)>>,
     NotifyRefuseDataUploadResponse |-> <<>>]
(* The team.                                                               *)
Teams ==
    [Team |->
        <<NonZero("ID", <<\hA>>), NonZero("Name", <<\h12>>),
          NonZero("ExternalID", <<\h1A>>),
          NonZero("ZuoraAccountNumber", <<\h22>>),
          NonNil("ZuoraAccountCreatedAt", <<\h2A>>),
          Always("TrialExpiresAt", <<\h32>>),
          NonNil("TrialPendingExpiryNotifiedAt", <<\h3A>>),
          NonNil("TrialExpiredNotifiedAt", <<\h42>>),
          Always("CreatedAt", <<\h4A>>), NonNil("DeletedAt", <<\h52>>)>>,
     Empty |-> <<>>]
(* The summary of all organizations.                                       *)
Summaries ==
    [Summary |-> <<Each("Entries", <<\hA>>)>>]
SummaryEntryFirst ==
    <<NonZero("TeamExternalID", <<\hA>>), NonZero("TeamName", <<\h12>>),
      NonZero("OrgID", <<\h1A>>), NonZero("OrgExternalID", <<\h22>>),
      NonZero("OrgName", <<\h2A>>), Each("Emails", <<\h32>>),
      Always("OrgCreatedAt", <<\h3A>>),
      NonNil("FirstSeenConnectedAt", <<\h42>>), NonZero("Platform", <<\h4A>>),
      NonZero("Environment", <<\h52>>), Always("TrialExpiresAt", <<\h5A>>),
      NonNil("TrialPendingExpiryNotifiedAt", <<\h62>>)>>
SummaryEntryLast ==
    <<NonNil("TrialExpiredNotifiedAt", <<\h6A>>),
      NonZero("BillingEnabled", <<\h70>>),
      NonZero("RefuseDataAccess", <<\h78>>),
      NonZero("RefuseDataUpload", <<\h80, \h1>>),
      NonZero("ZuoraAccountNumber", <<\h8A, \h1>>),
      NonNil("ZuoraAccountCreatedAt", <<\h92, \h1>>),
      NonZero("GCPAccountExternalID", <<\h9A, \h1>>),
      Always("GCPAccountCreatedAt", <<\hA2, \h1>>),
      NonZero("GCPAccountSubscriptionLevel", <<\hAA, \h1>>),
      NonZero("GCPAccountSubscriptionStatus", <<\hB2, \h1>>)>>
(* Webhooks.                                                               *)
Webhooks ==
    [Webhook |->
        <<NonZero("ID", <<\hA>>), NonZero("OrganizationID", <<\h12>>),
          NonZero("IntegrationType", <<\h1A>>), NonZero("SecretID", <<\h22>>),
          NonZero("SecretSigningKey", <<\h2A>>),
          Always("CreatedAt", <<\h32>>), NonNil("DeletedAt", <<\h3A>>),
          NonNil("FirstSeenAt", <<\h42>>)>>,
     LookupOrganizationWebhookUsingSecretIDRequest |->
        <<NonZero("SecretID", <<\hA>>)>>,
     LookupOrganizationWebhookUsingSecretIDResponse |->
        <<NonNil("Webhook", <<\hA>>)>>]
(* First use of a webhook, and billing.                                    *)
WebhookUses ==
    [SetOrganizationWebhookFirstSeenAtRequest |->
        <<NonZero("SecretID", <<\hA>>)>>,
     SetOrganizationWebhookFirstSeenAtResponse |->
        <<NonNil("FirstSeenAt", <<\hA>>)>>,
     InformOrganizationBillingConfiguredRequest |->
        <<NonZero("ExternalID", <<\hA>>)>>]
(* Permissions and roles.                                                  *)
Roles ==
    [Permission |->
        <<NonZero("ID", <<\hA>>), NonZero("Name", <<\h12>>),
          NonZero("Description", <<\h1A>>)>>,
     Role |->
        <<NonZero("ID", <<\hA>>), NonZero("Name", <<\h12>>),
          NonZero("Description", <<\h1A>>)>>]
(* Requests for a permission.                                              *)
Permissions ==
    [RequireTeamMemberPermissionToRequest |->
        <<NonZero("UserID", <<\hA>>), NonZero("PermissionID", <<\h1A>>),
          NonNil("TeamExternalID", <<\h12>>),
          NonNil("TeamInternalID", <<\h22>>)>>,
     RequireOrgMemberPermissionToRequest |->
        <<NonZero("UserID", <<\hA>>), NonZero("PermissionID", <<\h1A>>),
          NonNil("OrgExternalID", <<\h12>>),
          NonNil("OrgInternalID", <<\h22>>)>>]

(* What is written of each message.                                        *)
Encoded ==
    TokenLookups @@
    UserLookups @@
    BillableQueries @@
    TrialQueries @@
    OneOrganization @@
    [Organization |-> OrganizationFirst \o OrganizationLast] @@
    GoogleAccounts @@
    Changes @@
    FlagsAndUsers @@
    WeeklyReports @@
    Users @@
    Notifications @@
    Teams @@
    Summaries @@
    [SummaryEntry |-> SummaryEntryFirst \o SummaryEntryLast] @@
    Webhooks @@
    WebhookUses @@
    Roles @@
    Permissions
=============================================================================
