----------------------------- MODULE Normalizers -----------------------------
(***************************************************************************)
(* What the normalizers make of each kind of cloud resource: the           *)
(* attributes that hold, those that could not be read, and the             *)
(* relationships the resource asserts.                                     *)
(*                                                                         *)
(* A resource as the cloud has it is a record                              *)
(*   [id, type, facts, links, documents, trust]                            *)
(* facts are the properties its API reports as true; links are the other   *)
(* things it names, [field, to, note], note qualifying the link (the state *)
(* of an attachment, the kind of a route, the form of a rule); documents   *)
(* are its policies, [attached, statements], trust its trust policy.       *)
(*                                                                         *)
(* gap says what the collector failed to read of it:                       *)
(*   "none"     nothing                                                    *)
(*   "denied"   the enrichment it marks as unknown (a role's policies, an  *)
(*              instance's profile)                                        *)
(*   "omitted"  the part it leaves out without a mark (the attached        *)
(*              policies of a role, the subnets of a VPC, the network of a *)
(*              virtual machine)                                           *)
(*   "lost"     the resource itself, skipped with its item or its service. *)
(***************************************************************************)
EXTENDS PolicyAnalysis

OwnAccount == "own"

Links(raw, field) == {l \in raw.links : l.field = field}

\* One relationship of the kind per link.
Edges(links, kind) == {[to |-> l.to, kind |-> kind] : l \in links}

\* The attributes are the reported facts among the names the normalizer
\* reads.
Resource(raw, names, derived, unknown, rels) ==
    [id |-> raw.id, type |-> raw.type,
     holds |-> (raw.facts \cap names) \cup derived,
     unknown |-> unknown, rels |-> rels, grants |-> <<>>]

When(name, condition) == IF condition THEN {name} ELSE {}

Documents(raw) == [i \in DOMAIN raw.documents |-> raw.documents[i].statements]

-----------------------------------------------------------------------------
(* Amazon                                                                  *)

\* A profile that resolved is an edge; a denied lookup is unknown, every
\* other outcome is no edge and no mark.
normalize_ec2_instance(raw, gap) ==
    LET profile == Links(raw, "role")
        denied == gap = "denied" /\ profile # {}
        resolved == {l \in profile : ~ denied /\ l.note = "resolved"}
    IN Resource(raw,
         {"public_ip", "imds_v2_required", "root_volume_encrypted"},
         When("instance_profile_role_arn", resolved # {}),
         When("instance_profile_role_arn", denied),
         Edges(Links(raw, "security_group") \cup Links(raw, "subnet"),
               "attached_to") \cup Edges(resolved, "assumes"))

\* Only active group memberships, as a transient one is no conclusion.
normalize_rds_instance(raw) ==
    Resource(raw,
      {"publicly_accessible", "storage_encrypted", "multi_az",
       "deletion_protection", "performance_insights_enabled",
       "iam_database_authentication_enabled", "auto_minor_version_upgrade"},
      {}, {},
      Edges({l \in Links(raw, "security_group") : l.note = "active"},
            "attached_to"))

normalize_s3_bucket(raw) ==
    LET policies == Documents(raw) IN
    Resource(raw,
      {"encrypted", "public", "public_access_block_enabled",
       "versioning_enabled", "logging_enabled"},
      When("has_bucket_policy", policies # <<>>) \cup
      When("bucket_policy_allows_public_access",
           \E d \in ToSet(policies) : policy_allows_public_principal(d)),
      {}, {})

_UNRESTRICTED_CIDRS == {"0.0.0.0/0", "::/0"}

analyze_ingress_rules(raw) ==
    LET open == {l \in Links(raw, "ingress") : l.to \in _UNRESTRICTED_CIDRS}
    IN When("has_unrestricted_ingress", open # {}) \cup
       When("unrestricted_ingress_ports",
            \E l \in open : l.note = "single port")

normalize_security_group(raw) ==
    Resource(raw, {}, analyze_ingress_rules(raw), {},
             Edges(Links(raw, "group_pair"), "allows"))

normalize_cloudtrail_trail(raw) ==
    Resource(raw,
      {"is_multi_region_trail", "log_file_validation_enabled", "is_logging"},
      {}, {}, Edges(Links(raw, "s3_bucket"), "accesses"))

normalize_kms_key(raw) ==
    Resource(raw, {"rotation_enabled"},
      When("key_policy_allows_public_access",
           \E d \in ToSet(Documents(raw)) :
               policy_allows_public_principal(d)), {}, {})

normalize_iam_user(raw) ==
    Resource(raw, {"mfa_active"},
      When("has_full_admin_policy",
           \E d \in ToSet(Documents(raw)) : policy_grants_full_admin(d)),
      {}, {})

normalize_iam_account_summary(raw) ==
    Resource(raw, {"root_mfa_enabled", "has_password_policy"}, {}, {}, {})

_POLICY_ATTRIBUTES ==
    {"has_administrator_access", "has_wildcard_action",
     "has_wildcard_resource", "has_privilege_escalation_path",
     "has_pass_role_escalation"}

ServiceId == [ec2 |-> "aws-service:ec2"]
AccountId == [other |-> "aws-account:other"]

RoleRelationships(trust) ==
    {[to |-> AccountId[a], kind |-> "assumes"] :
        a \in trust.external_accounts} \cup
    {[to |-> ServiceId[s], kind |-> "assumes"] :
        s \in trust.service_principals} \cup
    {[to |-> "internet", kind |-> "publicly_exposed"] :
        x \in When("public", trust.is_publicly_assumable)}

\* The documents a role is judged by.  One that could not be read says
\* nothing, and none could when the enumeration was denied.
ReadDocuments(raw, gap) ==
    LET Readable(d) == gap = "none" \/ (gap = "omitted" /\ ~ d.attached)
    IN [i \in DOMAIN raw.documents |->
            IF Readable(raw.documents[i]) THEN raw.documents[i].statements
            ELSE <<>>]

normalize_iam_role(raw, gap) ==
    LET documents == ReadDocuments(raw, gap)
        trust == analyze_trust_policy(raw.trust, OwnAccount)
        attributes == to_attributes(analyze_policy_documents(documents),
                                    trust)
        unknown == IF gap = "denied" THEN _POLICY_ATTRIBUTES ELSE {}
    IN [Resource(raw, {"is_service_role"}, attributes \ unknown, unknown,
                 RoleRelationships(trust))
        EXCEPT !.grants = extract_access_grants(documents)]

normalize_vpc(raw, gap) ==
    Resource(raw, {"is_default"}, {}, {},
      Edges({l \in Links(raw, "subnet") : gap # "omitted"}, "contains"))

normalize_subnet(raw) ==
    Resource(raw,
      {"map_public_ip_on_launch", "assign_ipv6_address_on_creation",
       "is_default_for_az"}, {}, {}, {})

\* The state of the route is recorded and not asked for: a blackhole
\* route counts.
_is_internet_route(route) ==
    route.note \in {"default to internet gateway",
                    "blackhole default to internet gateway"}

normalize_route_table(raw) ==
    LET internet == {l \in Links(raw, "route") : _is_internet_route(l)}
    IN Resource(raw, {"is_main"}, When("has_internet_route", internet # {}),
         {}, Edges(internet, "connects_to") \cup
             Edges(Links(raw, "association"), "attached_to"))

normalize_internet_gateway(raw) ==
    LET attached == {l \in Links(raw, "attachment") : l.note = "available"}
    IN Resource(raw, {}, When("is_attached", attached # {}), {},
                Edges(attached, "attached_to"))

normalize_network_acl(raw) ==
    Resource(raw, {"is_default"},
      When("has_unrestricted_ingress_rule",
           \E l \in Links(raw, "entry") :
               l.to \in _UNRESTRICTED_CIDRS /\ l.note = "ingress allow"),
      {}, Edges(Links(raw, "association"), "protects"))

-----------------------------------------------------------------------------
(* Azure                                                                   *)

normalize_principal(raw) ==
    Resource(raw, {"principal_type_is_known"}, {}, {}, {})

\* The blocks of a definition grant the union of their actions.
normalize_role_definition(raw) ==
    Resource(raw, {"is_built_in"},
      When("grants_all_actions",
           \E l \in Links(raw, "action") : l.to = "*") \cup
      When("grants_all_data_actions",
           \E l \in Links(raw, "data_action") : l.to = "*"), {}, {})

normalize_role_assignment(raw) ==
    LET scope == Links(raw, "scope")
        IsScope(type) == \E l \in scope : l.note = type
    IN Resource(raw, {},
         When("is_subscription_scope", IsScope("subscription")) \cup
         When("is_management_group_scope", IsScope("management_group")) \cup
         When("scope_is_parsed", scope # {} /\ ~ IsScope("unknown")), {},
         Edges(Links(raw, "principal") \cup Links(raw, "role_definition"),
               "attached_to") \cup Edges(scope, "allows"))

normalize_subscription(raw) == Resource(raw, {}, {}, {}, {})

\* Without its network interfaces a machine has no group and no address.
normalize_virtual_machine(raw, gap) ==
    LET seen == gap # "omitted"
    IN Resource(raw,
         {"system_assigned_identity_enabled",
          "managed_disk_encryption_enabled"} \cup
         When("public_ip_address", seen), {}, {},
         Edges({l \in Links(raw, "security_group") : seen}, "attached_to"))

normalize_key_vault(raw) ==
    Resource(raw,
      {"soft_delete_enabled", "purge_protection_enabled",
       "rbac_authorization_enabled", "public_network_access_enabled"},
      {}, {}, {})

normalize_activity_log_setting(raw) ==
    LET storage == Links(raw, "storage_account")
    IN Resource(raw, {},
         When("has_any_destination",
              storage # {} \/ Links(raw, "workspace") # {}), {},
         Edges(storage, "accesses"))

_UNRESTRICTED_SOURCES == {"*", "internet", "0.0.0.0/0", "::/0", "any"}

\* Deny rules and priorities are not looked at.
analyze_security_rules(raw) ==
    LET open == {l \in Links(raw, "rule") :
                    /\ l.to \in _UNRESTRICTED_SOURCES
                    /\ l.note \in {"inbound allow port",
                                   "inbound allow range"}}
    IN When("has_unrestricted_ingress", open # {}) \cup
       When("unrestricted_ingress_ports",
            \E l \in open : l.note = "inbound allow port")

normalize_network_security_group(raw) ==
    Resource(raw, {}, analyze_security_rules(raw), {}, {})

normalize_storage_account(raw) ==
    Resource(raw,
      {"https_only", "allow_blob_public_access",
       "infrastructure_encryption_enabled", "blob_soft_delete_enabled"},
      {}, {}, {})

-----------------------------------------------------------------------------
CollectedTypes ==
    {"ec2_instance", "rds_db_instance", "s3_bucket", "security_group",
     "cloudtrail", "kms_key", "iam_user", "iam_account_summary", "iam_role",
     "aws_vpc", "aws_subnet", "aws_route_table", "aws_internet_gateway",
     "aws_network_acl", "azure_principal", "azure_role_definition",
     "azure_role_assignment", "azure_subscription", "azure_virtual_machine",
     "azure_key_vault", "azure_activity_log_setting",
     "azure_network_security_group", "azure_storage_account"}

normalize(raw, gap) ==
    CASE raw.type = "ec2_instance" -> normalize_ec2_instance(raw, gap)
      [] raw.type = "rds_db_instance" -> normalize_rds_instance(raw)
      [] raw.type = "s3_bucket" -> normalize_s3_bucket(raw)
      [] raw.type = "security_group" -> normalize_security_group(raw)
      [] raw.type = "cloudtrail" -> normalize_cloudtrail_trail(raw)
      [] raw.type = "kms_key" -> normalize_kms_key(raw)
      [] raw.type = "iam_user" -> normalize_iam_user(raw)
      [] raw.type = "iam_account_summary" ->
             normalize_iam_account_summary(raw)
      [] raw.type = "iam_role" -> normalize_iam_role(raw, gap)
      [] raw.type = "aws_vpc" -> normalize_vpc(raw, gap)
      [] raw.type = "aws_subnet" -> normalize_subnet(raw)
      [] raw.type = "aws_route_table" -> normalize_route_table(raw)
      [] raw.type = "aws_internet_gateway" ->
             normalize_internet_gateway(raw)
      [] raw.type = "aws_network_acl" -> normalize_network_acl(raw)
      [] raw.type = "azure_principal" -> normalize_principal(raw)
      [] raw.type = "azure_role_definition" ->
             normalize_role_definition(raw)
      [] raw.type = "azure_role_assignment" ->
             normalize_role_assignment(raw)
      [] raw.type = "azure_subscription" -> normalize_subscription(raw)
      [] raw.type = "azure_virtual_machine" ->
             normalize_virtual_machine(raw, gap)
      [] raw.type = "azure_key_vault" -> normalize_key_vault(raw)
      [] raw.type = "azure_activity_log_setting" ->
             normalize_activity_log_setting(raw)
      [] raw.type = "azure_network_security_group" ->
             normalize_network_security_group(raw)
      [] raw.type = "azure_storage_account" ->
             normalize_storage_account(raw)

\* The gaps a kind of resource can have, besides being lost.
GapsOf(raw) ==
    {"none", "lost"} \cup
    (IF raw.type \in {"iam_role", "ec2_instance"} THEN {"denied"} ELSE {})
    \cup (IF raw.type \in {"iam_role", "aws_vpc", "azure_virtual_machine"}
          THEN {"omitted"} ELSE {})
=============================================================================
