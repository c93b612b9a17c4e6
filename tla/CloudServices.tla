--------------------------- MODULE CloudServices ---------------------------
(***************************************************************************)
(* What each collector asks its provider, in order, and what it makes of   *)
(* an answer it did not want.  A call is listed once per collector, though *)
(* the code makes some of them in a loop.                                  *)
(*                                                                         *)
(* Answers.  "ok" and "absent" (the provider says there is no such setting)*)
(* are answers; the others are failures: "denied", "throttled" (what is    *)
(* left of a throttle after the retries, if the call is retried),          *)
(* "expired" (the credentials) and "offline" (the request got no answer).  *)
(*                                                                         *)
(* What an attribute says of how it came about is one of two things: it is *)
(* "unknown" (the UNKNOWN sentinel) or "plain", an ordinary value.  A      *)
(* collector that tolerates a failure leaves one or the other, and the     *)
(* ordinary value it leaves (None, False, a shorter list, no edge) is not  *)
(* told apart from one that the provider gave.                             *)
(***************************************************************************)
EXTENDS Naturals, Sequences

Failures == {"denied", "throttled", "expired", "offline"}
Answers  == {"ok", "absent"} \union Failures
Marks    == {"plain", "unknown"}

\* A call whose failures leave the collector through its wrapper.
Must(op, feeds) ==
    [op |-> op, per |-> "item", feeds |-> feeds, optional |-> FALSE,
     may_be_absent |-> FALSE, retried |-> FALSE, tolerates |-> {},
     leaves |-> "plain"]

Listing(op)       == [Must(op, {}) EXCEPT !.per = "list"]
Retried(call)     == [call EXCEPT !.retried = TRUE]
Optional(call)    == [call EXCEPT !.optional = TRUE]
MayBeAbsent(call) == [call EXCEPT !.may_be_absent = TRUE]
Tolerant(call, failures, mark) ==
    [call EXCEPT !.tolerates = failures, !.leaves = mark]

(***************************************************************************)
(* What a failure is raised as: "client" is what `except ClientError'      *)
(* catches.  RetryBudgetExhausted and connection errors are not.           *)
(***************************************************************************)
RaisedAs(call, answer) ==
    IF answer = "offline" \/ (call.retried /\ answer = "throttled")
    THEN "other" ELSE "client"

(***************************************************************************)
(* catches: the exceptions the collector turns into the error that the     *)
(* provider's collector isolates.  each: a failed item is skipped.         *)
(* dedups: an item listed twice is kept once.                              *)
(***************************************************************************)
AwsService(calls) ==
    [provider |-> "aws", calls |-> calls, catches |-> {"client"},
     each |-> FALSE, dedups |-> FALSE, needs_account |-> FALSE]

AzureService(calls) ==
    [AwsService(calls) EXCEPT !.provider = "azure",
                              !.catches = {"client", "other"}]

S3Collector == AwsService(<<
    Listing("ListBuckets"),
    MayBeAbsent(Must("GetBucketPolicy", {"has_bucket_policy",
                                         "policy_allows_public"})),
    Must("GetBucketLocation", {"region"}),
    MayBeAbsent(Must("GetBucketEncryption", {"encrypted"})),
    Must("GetBucketAcl", {"public"}),
    MayBeAbsent(Must("GetPublicAccessBlock", {"public_access_block"})),
    Must("GetBucketVersioning", {"versioning_enabled"}),
    Must("GetBucketLogging", {"logging_enabled"}),
    MayBeAbsent(Must("GetBucketTagging", {"tags"}))>>)

IamCollector == AwsService(<<
    Listing("ListUsers"),
    Must("ListAccessKeys", {"access_key_count"}),
    Must("ListAttachedUserPolicies", {"attached_policy_names"}),
    Must("ListMFADevices", {"mfa_active"}),
    Optional(Must("GetPolicy", {"has_full_admin_policy"})),
    Optional(Must("GetPolicyVersion", {"has_full_admin_policy"}))>>)

\* One resource per account, and none without the account's number.
IamAccountCollector ==
    [AwsService(<<
        Must("GetAccountSummary", {"root_mfa_enabled"}),
        MayBeAbsent(Must("GetAccountPasswordPolicy",
                         {"has_password_policy"}))>>)
     EXCEPT !.needs_account = TRUE]

ManagedPolicyCall(op, feeds) ==
    Optional(Tolerant(Retried(Must(op, feeds)), {"denied"}, "plain"))

\* A denied listing of policies makes the whole analysis UNKNOWN; a denied
\* managed policy is left out of the documents that are analysed, and
\* policies_readable stays true.
RolePolicyCalls ==
    LET policies == {"policy_analysis", "access_grants"}
        unknown(op) ==
            Tolerant(Retried(Must(op, policies)), {"denied"}, "unknown")
    IN <<unknown("ListAttachedRolePolicies"),
         ManagedPolicyCall("GetPolicy", policies),
         ManagedPolicyCall("GetPolicyVersion", policies),
         unknown("ListRolePolicies"),
         Optional(unknown("GetRolePolicy"))>>

LastUsedCall ==
    Tolerant(Retried(Must("GetRole", {"last_used"})), {"denied"}, "unknown")

IamRoleCollector ==
    [AwsService(<<Retried(Listing("ListRoles"))>> \o RolePolicyCalls
                \o <<LastUsedCall>>)
     EXCEPT !.each = TRUE, !.catches = {"client", "other"}]

\* Whatever goes wrong costs the edge to the role, not the instance.
InstanceProfileCall ==
    Optional(MayBeAbsent(Tolerant(Retried(
        Must("GetInstanceProfile", {"role_arn"})), Failures, "unknown")))

Ec2Collector == AwsService(<<
    Listing("DescribeInstances"),
    InstanceProfileCall,
    Optional(Must("DescribeVolumes", {"root_volume_encrypted"}))>>)

SecurityGroupCollector   == AwsService(<<Listing("DescribeSecurityGroups")>>)
RdsInstanceCollector     == AwsService(<<Listing("DescribeDBInstances")>>)
SubnetCollector          == AwsService(<<Listing("DescribeSubnets")>>)
RouteTableCollector      == AwsService(<<Listing("DescribeRouteTables")>>)
InternetGatewayCollector == AwsService(<<Listing("DescribeInternetGateways")>>)
NetworkAclCollector      == AwsService(<<Listing("DescribeNetworkAcls")>>)

\* Denied subnets cost the CONTAINS edges and nothing else.
SubnetsOfVpcsCall ==
    [Tolerant(Must("DescribeSubnets", {"contains"}),
              Failures \ {"offline"}, "plain") EXCEPT !.per = "list"]

VpcCollector == AwsService(<<Listing("DescribeVpcs"), SubnetsOfVpcsCall>>)

CloudTrailCollector == AwsService(<<
    Listing("DescribeTrails"),
    Must("GetTrailStatus", {"is_logging"})>>)

KmsCollector == AwsService(<<
    Listing("ListKeys"),
    Must("DescribeKey", {"key_state"}),
    Optional(Must("GetKeyRotationStatus", {"rotation_enabled"})),
    Must("GetKeyPolicy", {"key_policy_allows_public"})>>)

StorageAccountCollector == AzureService(<<
    Listing("storage_accounts.list"),
    Optional(Tolerant(Must("blob_services.get_service_properties",
                           {"blob_soft_delete_enabled"}), Failures, "plain"))>>)

NetworkSecurityGroupCollector ==
    AzureService(<<Listing("network_security_groups.list_all")>>)

\* A network interface, a subnet or an address that cannot be read is skipped.
NetworkCalls ==
    LET skipped(op, feeds) ==
            Optional(Tolerant(Must(op, feeds), Failures, "plain"))
    IN <<skipped("network_interfaces.get", {"nsgs", "public_ip_address"}),
         skipped("subnets.get", {"nsgs"}),
         skipped("public_ip_addresses.get", {"public_ip_address"})>>

VirtualMachineCollector ==
    AzureService(<<Listing("virtual_machines.list_all")>> \o NetworkCalls)

\* Falls back to the summary of the listing, which has no properties.
KeyVaultCollector == AzureService(<<
    Listing("vaults.list"),
    Optional(Tolerant(Must("vaults.get", {"properties"}), Failures, "plain"))>>)

ActivityLogSettingCollector ==
    AzureService(<<Listing("subscription_diagnostic_settings.list")>>)

RoleDefinitionCollector ==
    [AzureService(<<Listing("role_definitions.list")>>) EXCEPT !.dedups = TRUE]

RoleAssignmentCollector ==
    [AzureService(<<Listing("role_assignments.list_for_subscription")>>)
     EXCEPT !.dedups = TRUE]

\* The sub-collectors of AwsCollector and of AzureCollector by default.
AwsRoster == <<
    "S3", "Iam", "IamAccount", "IamRole", "Ec2", "SecurityGroup",
    "CloudTrail", "Kms", "Vpc", "Subnet", "RouteTable", "InternetGateway",
    "NetworkAcl", "RdsInstance">>

AzureRoster == <<
    "StorageAccount", "NetworkSecurityGroup", "VirtualMachine", "KeyVault",
    "ActivityLogSetting", "RoleDefinition", "RoleAssignment">>

Services == [
    S3 |-> S3Collector, Iam |-> IamCollector,
    IamAccount |-> IamAccountCollector, IamRole |-> IamRoleCollector,
    Ec2 |-> Ec2Collector, SecurityGroup |-> SecurityGroupCollector,
    CloudTrail |-> CloudTrailCollector, Kms |-> KmsCollector,
    Vpc |-> VpcCollector, Subnet |-> SubnetCollector,
    RouteTable |-> RouteTableCollector,
    InternetGateway |-> InternetGatewayCollector,
    NetworkAcl |-> NetworkAclCollector, RdsInstance |-> RdsInstanceCollector,
    StorageAccount |-> StorageAccountCollector,
    NetworkSecurityGroup |-> NetworkSecurityGroupCollector,
    VirtualMachine |-> VirtualMachineCollector,
    KeyVault |-> KeyVaultCollector,
    ActivityLogSetting |-> ActivityLogSettingCollector,
    RoleDefinition |-> RoleDefinitionCollector,
    RoleAssignment |-> RoleAssignmentCollector]
=============================================================================
