--------------------------- MODULE UsersMessages ---------------------------
(***************************************************************************)
(* The messages of the users service as their generated decoders read      *)
(* them (users/users.pb.go).  A message is the sequence of its fields in   *)
(* the order its encoder lays them out; a field has its name, its number,  *)
(* its kind and its label:                                                 *)
(*   "one"    a plain struct member, one value, the Go zero value if unset *)
(*   "opt"    a pointer, a sequence of at most one value                   *)
(*   "oneof"  a member of the message's oneof, like "opt" but setting one  *)
(*            unsets the others                                            *)
(*   "many"   a slice, a sequence of values                                *)
(***************************************************************************)
EXTENDS Sequences

Field(n, name, kind, label) ==
    [n |-> n, name |-> name, kind |-> kind, label |-> label]

Str(n, name) == Field(n, name, "string", "one")
Strs(n, name) == Field(n, name, "string", "many")
OneOf(n, name) == Field(n, name, "string", "oneof")
Bool(n, name) == Field(n, name, "bool", "one")
Int32(n, name) == Field(n, name, "int32", "one")
Time(n, name) == Field(n, name, "time", "one")
TimePtr(n, name) == Field(n, name, "time", "opt")
Msg(n, name, message) == Field(n, name, message, "one")
Ptr(n, name, message) == Field(n, name, message, "opt")
Msgs(n, name, message) == Field(n, name, message, "many")

-----------------------------------------------------------------------------
(* Authentication lookups.                                                 *)
LookupOrgRequest ==
    <<Str(1, "Cookie"), Str(2, "OrgExternalID"), Int32(4, "AuthorizeFor")>>
LookupOrgResponse ==
    <<Str(1, "OrganizationID"), Str(2, "UserID"), Strs(3, "FeatureFlags")>>
LookupUsingTokenRequest == <<Str(1, "Token"), Int32(2, "AuthorizeFor")>>
LookupUsingTokenResponse == <<Str(1, "OrganizationID"), Strs(2, "FeatureFlags")>>
LookupAdminRequest == <<Str(1, "Cookie")>>
LookupAdminResponse == <<Str(1, "AdminID")>>
LookupUserRequest == <<Str(1, "Cookie")>>
LookupUserResponse == <<Str(1, "UserID")>>

(* Organization queries.                                                   *)
GetOrganizationsRequest ==
    <<Str(1, "Query"), Int32(2, "PageNumber"), Bool(3, "IncludeDeleted")>>
GetOrganizationsResponse == <<Msgs(1, "Organizations", "Organization")>>
GetBillableOrganizationsRequest == <<Time(1, "Now")>>
GetBillableOrganizationsResponse == <<Msgs(1, "Organizations", "Organization")>>
GetTrialOrganizationsRequest == <<Time(1, "Now")>>
GetTrialOrganizationsResponse == <<Msgs(1, "Organizations", "Organization")>>
GetDelinquentOrganizationsRequest == <<Time(1, "Now")>>
GetDelinquentOrganizationsResponse == <<Msgs(1, "Organizations", "Organization")>>
GetOrganizationRequest ==
    <<OneOf(1, "ExternalID"), OneOf(2, "GCPExternalAccountID"), OneOf(3, "InternalID")>>
GetOrganizationResponse == <<Msg(1, "Organization", "Organization")>>

(* The organization, in the groups its decoder reads.                      *)
OrganizationNames ==
    <<Str(1, "ID"), Str(2, "ExternalID"), Str(3, "Name"), Str(4, "ProbeToken")>>
OrganizationAccess ==
    <<Time(5, "CreatedAt"), Strs(6, "FeatureFlags"),
      Bool(7, "RefuseDataAccess"), Bool(8, "RefuseDataUpload")>>
OrganizationPlatform ==
    <<TimePtr(9, "FirstSeenConnectedAt"), Str(10, "Platform"),
      Str(11, "Environment"), Time(12, "TrialExpiresAt")>>
OrganizationBilling ==
    <<Str(13, "ZuoraAccountNumber"), TimePtr(14, "ZuoraAccountCreatedAt"),
      TimePtr(15, "TrialPendingExpiryNotifiedAt"), TimePtr(16, "TrialExpiredNotifiedAt")>>
OrganizationOwner ==
    <<Ptr(17, "GCP", "GoogleCloudPlatform"), Str(18, "TeamID"),
      Str(19, "TeamExternalID"), Time(20, "DeletedAt"), Bool(21, "Cleanup")>>
OrganizationFirstSeen ==
    <<TimePtr(22, "FirstSeenFluxConnectedAt"), TimePtr(23, "FirstSeenNetConnectedAt"),
      TimePtr(24, "FirstSeenPromConnectedAt"), TimePtr(25, "FirstSeenScopeConnectedAt")>>
OrganizationReport ==
    <<Str(26, "RefuseDataReason"), TimePtr(27, "LastSentWeeklyReportAt"),
      Str(28, "PlatformVersion"), Str(29, "DeletedBy")>>
Organization ==
    OrganizationNames \o OrganizationAccess \o OrganizationPlatform \o
           OrganizationBilling \o OrganizationOwner \o OrganizationFirstSeen \o
           OrganizationReport

(* Google Cloud Platform accounts.                                         *)
GoogleAccount ==
    <<Str(1, "ID"), Str(2, "ExternalAccountID"), Bool(3, "Activated"), Time(4, "CreatedAt")>>
GoogleSubscription ==
    <<Str(5, "ConsumerID"), Str(6, "SubscriptionName"),
      Str(7, "SubscriptionLevel"), Str(8, "SubscriptionStatus")>>
GoogleCloudPlatform == GoogleAccount \o GoogleSubscription
GetGCPRequest == <<Str(1, "ExternalAccountID")>>
GetGCPResponse == <<Msg(1, "GCP", "GoogleCloudPlatform")>>
UpdateGCPRequest == <<Ptr(1, "GCP", "GoogleCloudPlatform")>>
UpdateGCPResponse == <<>>

(* Changes of an organization.                                             *)
SetOrganizationZuoraAccountRequest ==
    <<Str(1, "ExternalID"), Str(2, "Number"), TimePtr(3, "CreatedAt")>>
SetOrganizationZuoraAccountResponse == <<>>
SetOrganizationFlagRequest == <<Str(1, "ExternalID"), Str(2, "Flag"), Bool(3, "Value")>>
SetOrganizationFlagResponse == <<>>
GetUserRequest == <<Str(1, "UserID")>>
GetUserResponse == <<Msg(1, "User", "User")>>
GetOrganizationsReadyForWeeklyReportRequest == <<Time(1, "Now")>>
GetOrganizationsReadyForWeeklyReportResponse ==
    <<Msgs(1, "Organizations", "Organization")>>
SendOutWeeklyReportRequest == <<Time(1, "Now"), Str(2, "ExternalID")>>
SendOutWeeklyReportResponse == <<>>

(* Users.                                                                  *)
UserNames == <<Str(1, "ID"), Str(2, "Email"), Str(3, "Token")>>
UserDates ==
    <<Time(4, "TokenCreatedAt"), Time(5, "FirstLoginAt"),
      Time(6, "CreatedAt"), Bool(7, "Admin")>>
UserProfile ==
    <<Time(8, "LastLoginAt"), Str(9, "Company"), Str(10, "Name"),
      Str(11, "FirstName"), Str(12, "LastName")>>
User == UserNames \o UserDates \o UserProfile

(* E-mail notifications.                                                   *)
NotifyTrialPendingExpiryRequest == <<Str(1, "ExternalID")>>
NotifyTrialPendingExpiryResponse == <<>>
NotifyTrialExpiredRequest == <<Str(1, "ExternalID")>>
NotifyTrialExpiredResponse == <<>>
NotifyRefuseDataUploadRequest == <<Str(1, "ExternalID")>>
NotifyRefuseDataUploadResponse == <<>>

(* Teams.                                                                  *)
TeamNames == <<Str(1, "ID"), Str(2, "Name"), Str(3, "ExternalID")>>
TeamBilling ==
    <<Str(4, "ZuoraAccountNumber"), TimePtr(5, "ZuoraAccountCreatedAt"),
      Time(6, "TrialExpiresAt")>>
TeamTrial ==
    <<TimePtr(7, "TrialPendingExpiryNotifiedAt"), TimePtr(8, "TrialExpiredNotifiedAt"),
      Time(9, "CreatedAt"), TimePtr(10, "DeletedAt")>>
Team == TeamNames \o TeamBilling \o TeamTrial

(* The summary of all organizations.                                       *)
Empty == <<>>
Summary == <<Msgs(1, "Entries", "SummaryEntry")>>
SummaryNames ==
    <<Str(1, "TeamExternalID"), Str(2, "TeamName"), Str(3, "OrgID"), Str(4, "OrgExternalID")>>
SummaryMembers ==
    <<Str(5, "OrgName"), Strs(6, "Emails"), Time(7, "OrgCreatedAt"),
      TimePtr(8, "FirstSeenConnectedAt")>>
SummaryTrial ==
    <<Str(9, "Platform"), Str(10, "Environment"), Time(11, "TrialExpiresAt"),
      TimePtr(12, "TrialPendingExpiryNotifiedAt")>>
SummaryAccess ==
    <<TimePtr(13, "TrialExpiredNotifiedAt"), Bool(14, "BillingEnabled"),
      Bool(15, "RefuseDataAccess"), Bool(16, "RefuseDataUpload"),
      Str(17, "ZuoraAccountNumber")>>
SummaryAccounts ==
    <<TimePtr(18, "ZuoraAccountCreatedAt"), Str(19, "GCPAccountExternalID"),
      Time(20, "GCPAccountCreatedAt")>>
SummarySubscription ==
    <<Str(21, "GCPAccountSubscriptionLevel"), Str(22, "GCPAccountSubscriptionStatus")>>
SummaryEntry ==
    SummaryNames \o SummaryMembers \o SummaryTrial \o SummaryAccess \o
           SummaryAccounts \o SummarySubscription

(* Webhooks.                                                               *)
WebhookNames == <<Str(1, "ID"), Str(2, "OrganizationID"), Str(3, "IntegrationType")>>
WebhookSecret ==
    <<Str(4, "SecretID"), Str(5, "SecretSigningKey"), Time(6, "CreatedAt")>>
WebhookUse == <<TimePtr(7, "DeletedAt"), TimePtr(8, "FirstSeenAt")>>
Webhook == WebhookNames \o WebhookSecret \o WebhookUse
LookupOrganizationWebhookUsingSecretIDRequest == <<Str(1, "SecretID")>>
LookupOrganizationWebhookUsingSecretIDResponse == <<Ptr(1, "Webhook", "Webhook")>>
SetOrganizationWebhookFirstSeenAtRequest == <<Str(1, "SecretID")>>
SetOrganizationWebhookFirstSeenAtResponse == <<TimePtr(1, "FirstSeenAt")>>

(* Permissions.                                                            *)
InformOrganizationBillingConfiguredRequest == <<Str(1, "ExternalID")>>
Permission == <<Str(1, "ID"), Str(2, "Name"), Str(3, "Description")>>
Role == <<Str(1, "ID"), Str(2, "Name"), Str(3, "Description")>>
RequireTeamMemberPermissionToRequest ==
    <<Str(1, "UserID"), Str(3, "PermissionID"),
      OneOf(2, "TeamExternalID"), OneOf(4, "TeamInternalID")>>
RequireOrgMemberPermissionToRequest ==
    <<Str(1, "UserID"), Str(3, "PermissionID"),
      OneOf(2, "OrgExternalID"), OneOf(4, "OrgInternalID")>>
=============================================================================
