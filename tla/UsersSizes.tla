----------------------------- MODULE UsersSizes -----------------------------
(***************************************************************************)
(* What the generated Size function of every message of users/users.pb.go  *)
(* adds up, in its order: the members, each with the bytes it counts for   *)
(* the tag.  A member is counted under the condition under which the       *)
(* encoder writes it.                                                      *)
(***************************************************************************)
EXTENDS TLC, Sequences

Counted(names, tag) ==
    [k \in DOMAIN names |-> [name |-> names[k], tag |-> tag]]
(* n += 1 + ..., and n += 2 for a bool                                     *)
One(names) == Counted(names, 1)
(* Mutant: the second byte of the tag is not counted.                      *)
TwoAsOne(names) == Counted(names, 1)
(* n += 2 + ..., and n += 3 for a bool                                     *)
Two(names) == Counted(names, 2)

LookupSizes ==
    [LookupOrgRequest |-> One(<<"Cookie", "OrgExternalID", "AuthorizeFor">>),
     LookupOrgResponse |->
        One(<<"OrganizationID", "UserID", "FeatureFlags">>),
     LookupUsingTokenRequest |-> One(<<"Token", "AuthorizeFor">>),
     LookupUsingTokenResponse |-> One(<<"OrganizationID", "FeatureFlags">>),
     LookupAdminRequest |-> One(<<"Cookie">>),
     LookupAdminResponse |-> One(<<"AdminID">>),
     LookupUserRequest |-> One(<<"Cookie">>),
     LookupUserResponse |-> One(<<"UserID">>)]
QuerySizes ==
    [GetOrganizationsRequest |->
        One(<<"Query", "PageNumber", "IncludeDeleted">>),
     GetOrganizationsResponse |-> One(<<"Organizations">>),
     GetBillableOrganizationsRequest |-> One(<<"Now">>),
     GetBillableOrganizationsResponse |-> One(<<"Organizations">>),
     GetTrialOrganizationsRequest |-> One(<<"Now">>),
     GetTrialOrganizationsResponse |-> One(<<"Organizations">>),
     GetDelinquentOrganizationsRequest |-> One(<<"Now">>),
     GetDelinquentOrganizationsResponse |-> One(<<"Organizations">>)]
OneOrganizationSizes ==
    [GetOrganizationRequest |->
        One(<<"ExternalID", "GCPExternalAccountID", "InternalID">>),
     GetOrganizationResponse |-> One(<<"Organization">>)]
OrganizationSize ==
    [Organization |->
        One(<<"ID", "ExternalID", "Name", "ProbeToken", "CreatedAt",
              "FeatureFlags", "RefuseDataAccess", "RefuseDataUpload",
              "FirstSeenConnectedAt", "Platform", "Environment",
              "TrialExpiresAt", "ZuoraAccountNumber", "ZuoraAccountCreatedAt",
              "TrialPendingExpiryNotifiedAt">>) \o
        Two(<<"TrialExpiredNotifiedAt", "GCP", "TeamID", "TeamExternalID",
              "DeletedAt", "Cleanup", "FirstSeenFluxConnectedAt",
              "FirstSeenNetConnectedAt", "FirstSeenPromConnectedAt",
              "FirstSeenScopeConnectedAt", "RefuseDataReason",
              "LastSentWeeklyReportAt", "PlatformVersion", "DeletedBy">>)]
AccountSizes ==
    [GoogleCloudPlatform |->
        One(<<"ID", "ExternalAccountID", "Activated", "CreatedAt",
              "ConsumerID", "SubscriptionName", "SubscriptionLevel",
              "SubscriptionStatus">>),
     GetGCPRequest |-> One(<<"ExternalAccountID">>),
     GetGCPResponse |-> One(<<"GCP">>),
     UpdateGCPRequest |-> One(<<"GCP">>),
     UpdateGCPResponse |-> <<>>,
     SetOrganizationZuoraAccountRequest |->
        One(<<"ExternalID", "Number", "CreatedAt">>)]
ChangeSizes ==
    [SetOrganizationZuoraAccountResponse |-> <<>>,
     SetOrganizationFlagRequest |-> One(<<"ExternalID", "Flag", "Value">>),
     SetOrganizationFlagResponse |-> <<>>,
     GetUserRequest |-> One(<<"UserID">>),
     GetUserResponse |-> One(<<"User">>),
     GetOrganizationsReadyForWeeklyReportRequest |-> One(<<"Now">>),
     GetOrganizationsReadyForWeeklyReportResponse |->
        One(<<"Organizations">>),
     SendOutWeeklyReportRequest |-> One(<<"Now", "ExternalID">>)]
UserSizes ==
    [SendOutWeeklyReportResponse |-> <<>>,
     User |->
        One(<<"ID", "Email", "Token", "TokenCreatedAt", "FirstLoginAt",
              "CreatedAt", "Admin", "LastLoginAt", "Company", "Name",
              "FirstName", "LastName">>)]
NotificationSizes ==
    [NotifyTrialPendingExpiryRequest |-> One(<<"ExternalID">>),
     NotifyTrialPendingExpiryResponse |-> <<>>,
     NotifyTrialExpiredRequest |-> One(<<"ExternalID">>),
     NotifyTrialExpiredResponse |-> <<>>,
     NotifyRefuseDataUploadRequest |-> One(<<"ExternalID">>),
     NotifyRefuseDataUploadResponse |-> <<>>]
TeamSizes ==
    [Team |->
        One(<<"ID", "Name", "ExternalID", "ZuoraAccountNumber",
              "ZuoraAccountCreatedAt", "TrialExpiresAt",
              "TrialPendingExpiryNotifiedAt", "TrialExpiredNotifiedAt",
              "CreatedAt", "DeletedAt">>),
     Empty |-> <<>>]
SummarySizes ==
    [Summary |-> One(<<"Entries">>),
     SummaryEntry |->
        One(<<"TeamExternalID", "TeamName", "OrgID", "OrgExternalID",
              "OrgName", "Emails", "OrgCreatedAt", "FirstSeenConnectedAt",
              "Platform", "Environment", "TrialExpiresAt",
              "TrialPendingExpiryNotifiedAt", "TrialExpiredNotifiedAt",
              "BillingEnabled", "RefuseDataAccess">>) \o
        Two(<<"RefuseDataUpload", "ZuoraAccountNumber",
              "ZuoraAccountCreatedAt", "GCPAccountExternalID",
              "GCPAccountCreatedAt", "GCPAccountSubscriptionLevel",
              "GCPAccountSubscriptionStatus">>)]
WebhookSizes ==
    [Webhook |->
        One(<<"ID", "OrganizationID", "IntegrationType", "SecretID",
              "SecretSigningKey", "CreatedAt", "DeletedAt", "FirstSeenAt">>),
     LookupOrganizationWebhookUsingSecretIDRequest |-> One(<<"SecretID">>),
     LookupOrganizationWebhookUsingSecretIDResponse |-> One(<<"Webhook">>),
     SetOrganizationWebhookFirstSeenAtRequest |-> One(<<"SecretID">>),
     SetOrganizationWebhookFirstSeenAtResponse |-> One(<<"FirstSeenAt">>),
     InformOrganizationBillingConfiguredRequest |-> One(<<"ExternalID">>)]
PermissionSizes ==
    [Permission |-> One(<<"ID", "Name", "Description">>),
     Role |-> One(<<"ID", "Name", "Description">>),
     RequireTeamMemberPermissionToRequest |->
        One(<<"UserID", "TeamExternalID", "TeamInternalID", "PermissionID">>),
     RequireOrgMemberPermissionToRequest |->
        One(<<"UserID", "OrgExternalID", "OrgInternalID", "PermissionID">>)]

(* What is counted of each message.                                        *)
Sized ==
    LookupSizes @@ QuerySizes @@ OneOrganizationSizes @@ OrganizationSize @@
    AccountSizes @@ ChangeSizes @@ UserSizes @@ NotificationSizes @@
    TeamSizes @@ SummarySizes @@ WebhookSizes @@ PermissionSizes
=============================================================================
