---------------------------- MODULE MCUsersCodec ----------------------------
(* All 55 messages of users/users.pb.go, with integers of 16 and 8 bits.   *)
EXTENDS UsersCodec

MCMessages ==
    [LookupOrgRequest |-> LookupOrgRequest,
     LookupOrgResponse |-> LookupOrgResponse,
     LookupUsingTokenRequest |-> LookupUsingTokenRequest,
     LookupUsingTokenResponse |-> LookupUsingTokenResponse,
     LookupAdminRequest |-> LookupAdminRequest,
     LookupAdminResponse |-> LookupAdminResponse,
     LookupUserRequest |-> LookupUserRequest,
     LookupUserResponse |-> LookupUserResponse,
     GetOrganizationsRequest |-> GetOrganizationsRequest,
     GetOrganizationsResponse |-> GetOrganizationsResponse,
     GetBillableOrganizationsRequest |-> GetBillableOrganizationsRequest,
     GetBillableOrganizationsResponse |-> GetBillableOrganizationsResponse,
     GetTrialOrganizationsRequest |-> GetTrialOrganizationsRequest,
     GetTrialOrganizationsResponse |-> GetTrialOrganizationsResponse,
     GetDelinquentOrganizationsRequest |-> GetDelinquentOrganizationsRequest,
     GetDelinquentOrganizationsResponse |->
        GetDelinquentOrganizationsResponse,
     GetOrganizationRequest |-> GetOrganizationRequest,
     GetOrganizationResponse |-> GetOrganizationResponse,
     Organization |-> Organization,
     GoogleCloudPlatform |-> GoogleCloudPlatform,
     GetGCPRequest |-> GetGCPRequest,
     GetGCPResponse |-> GetGCPResponse,
     UpdateGCPRequest |-> UpdateGCPRequest,
     UpdateGCPResponse |-> UpdateGCPResponse,
     SetOrganizationZuoraAccountRequest |->
        SetOrganizationZuoraAccountRequest,
     SetOrganizationZuoraAccountResponse |->
        SetOrganizationZuoraAccountResponse,
     SetOrganizationFlagRequest |-> SetOrganizationFlagRequest,
     SetOrganizationFlagResponse |-> SetOrganizationFlagResponse,
     GetUserRequest |-> GetUserRequest,
     GetUserResponse |-> GetUserResponse,
     GetOrganizationsReadyForWeeklyReportRequest |->
        GetOrganizationsReadyForWeeklyReportRequest,
     GetOrganizationsReadyForWeeklyReportResponse |->
        GetOrganizationsReadyForWeeklyReportResponse,
     SendOutWeeklyReportRequest |-> SendOutWeeklyReportRequest,
     SendOutWeeklyReportResponse |-> SendOutWeeklyReportResponse,
     User |-> User,
     NotifyTrialPendingExpiryRequest |-> NotifyTrialPendingExpiryRequest,
     NotifyTrialPendingExpiryResponse |-> NotifyTrialPendingExpiryResponse,
     NotifyTrialExpiredRequest |-> NotifyTrialExpiredRequest,
     NotifyTrialExpiredResponse |-> NotifyTrialExpiredResponse,
     NotifyRefuseDataUploadRequest |-> NotifyRefuseDataUploadRequest,
     NotifyRefuseDataUploadResponse |-> NotifyRefuseDataUploadResponse,
     Team |-> Team,
     Empty |-> Empty,
     Summary |-> Summary,
     SummaryEntry |-> SummaryEntry,
     Webhook |-> Webhook,
     LookupOrganizationWebhookUsingSecretIDRequest |->
        LookupOrganizationWebhookUsingSecretIDRequest,
     LookupOrganizationWebhookUsingSecretIDResponse |->
        LookupOrganizationWebhookUsingSecretIDResponse,
     SetOrganizationWebhookFirstSeenAtRequest |->
        SetOrganizationWebhookFirstSeenAtRequest,
     SetOrganizationWebhookFirstSeenAtResponse |->
        SetOrganizationWebhookFirstSeenAtResponse,
     InformOrganizationBillingConfiguredRequest |->
        InformOrganizationBillingConfiguredRequest,
     Permission |-> Permission,
     Role |-> Role,
     RequireTeamMemberPermissionToRequest |->
        RequireTeamMemberPermissionToRequest,
     RequireOrgMemberPermissionToRequest |->
        RequireOrgMemberPermissionToRequest]

(* Two assignments, three where they interact (a slice, a oneof), one in   *)
(* the two messages of more than twenty fields.                            *)
MCMaxSet ==
    [m \in DOMAIN MCMessages |->
        IF Len(MCMessages[m]) > 20 THEN 1
        ELSE IF \E k \in DOMAIN MCMessages[m] : MCMessages[m][k].label \in {"oneof", "many"}
        THEN 3 ELSE 2]

(* A string with a byte that would continue a varint, and one whose length *)
(* takes two bytes.                                                        *)
MCStrings == {<<200>>, [k \in 1..128 |-> 7]}
(* The int32 values at both ends and around the second byte of a varint.   *)
MCInts == {1, 127, -1, -128}
MCTimes == {<<0, 0>>, <<300, 1>>}
(* Field 31 in each wire type; groups nested and holding every wire type.  *)
MCUnknown ==
    {<<248, 1, 200, 1>>,
     <<249, 1, 1, 2, 3, 4, 5, 6, 7, 8>>,
     <<250, 1, 2, 10, 200>>,
     <<251, 1, 8, 129, 1, 11, 10, 1, 12, 12, 13, 1, 2, 3, 4, 252, 1>>,
     <<253, 1, 1, 2, 3, 4>>}
(* Messages with a scalar, a slice, a oneof and a message in a message.    *)
MCReceivers ==
    {"LookupOrgResponse", "GetOrganizationsRequest", "GetOrganizationRequest", "GetGCPResponse"}
(* Tags of fields 1 and 2 in the wire types 0, 1, 2 and 3, and bytes that  *)
(* continue, end and overflow a varint.                                    *)
MCAlphabet == {0, 1, 10, 11, 16, 17, 18, 127, 128, 255}
=============================================================================
