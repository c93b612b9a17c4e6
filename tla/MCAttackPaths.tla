---------------------------- MODULE MCAttackPaths ----------------------------
EXTENDS AttackPaths

Res(id, type, facts, links) ==
    [id |-> id, type |-> type, facts |-> facts, links |-> links,
     documents |-> <<>>, trust |-> <<>>]
Link(field, to, note) == [field |-> field, to |-> to, note |-> note]

Literal(ids) == [shape |-> "literal", ids |-> ids]
Prefix(ids) == [shape |-> "prefix*", ids |-> ids]
Everything == [shape |-> "*", ids |-> {"data", "logs", "db", "key", "box"}]

Statement(effect, actions, patterns) ==
    [effect |-> effect, actions |-> actions, not_actions |-> {},
     resources |-> patterns, inverted |-> FALSE, principals |-> {},
     conditioned |-> FALSE]
Doc(attached, statements) ==
    [attached |-> attached, statements |-> statements]
Trust(type, value, conditioned) ==
    [Statement("allow", {"sts:AssumeRole"}, {})
     EXCEPT !.principals = {[type |-> type, value |-> value]},
            !.conditioned = conditioned]

Read(patterns) == Statement("allow", {"s3:GetObject"}, patterns)
DenyRead(patterns) == Statement("deny", {"s3:GetObject"}, patterns)
Admin == Statement("allow", {"*"}, {Everything})

\* What the application role may do.
Policies ==
    {<<Doc(TRUE, <<Read({Literal({"data"})})>>)>>,
     <<Doc(FALSE, <<Read({Prefix({"data", "logs"}), Literal({"db"})})>>)>>,
     <<Doc(FALSE, <<Read({Literal({"data"})})>>),
       Doc(FALSE, <<DenyRead({Prefix({"data"})})>>)>>,
     <<Doc(TRUE, <<Read({Literal({"data"})})>>),
       Doc(FALSE, <<DenyRead({Everything})>>)>>,
     <<Doc(FALSE, <<Read({Literal({"data"})})>>),
       Doc(TRUE, <<[DenyRead({Literal({"logs"})}) EXCEPT
                      !.inverted = TRUE]>>)>>,
     <<Doc(TRUE, <<Admin>>),
       Doc(FALSE, <<[Read({Literal({"key"})}) EXCEPT
                       !.conditioned = TRUE]>>)>>,
     <<Doc(TRUE, <<Admin, Read({Literal({"key"})})>>)>>,
     <<Doc(FALSE, <<[Read({Literal({"logs"})}) EXCEPT !.inverted = TRUE]>>)>>,
     <<Doc(TRUE, <<[Read({Literal({"box"})}) EXCEPT !.actions = {},
                       !.not_actions = {"iam:*"}]>>),
       Doc(FALSE, <<Statement("allow", {"iam:PassRole",
                                        "ec2:RunInstances"}, {Everything})>>)>>}

ServiceTrust == <<Trust("Service", "ec2", FALSE)>>
Trusts == {ServiceTrust, <<Trust("AWS", "other", FALSE)>>,
           <<Trust("*", "*", TRUE)>>, <<Trust("AWS", "*", FALSE)>>,
           <<Trust("AWS", "*", FALSE), [Trust("*", "*", FALSE) EXCEPT
                                          !.effect = "deny"]>>}

Anyone(effect, conditioned) ==
    [Statement(effect, {"s3:GetObject"}, {})
     EXCEPT !.principals = {[type |-> "*", value |-> "*"]},
            !.conditioned = conditioned]
PublicDoc(conditioned) == Doc(FALSE, <<Anyone("allow", conditioned)>>)
DeniedDoc == Doc(FALSE, <<Anyone("allow", FALSE), Anyone("deny", FALSE)>>)

BlockedBucket ==
    [Res("data", "s3_bucket", {"public_access_block_enabled"}, {}) EXCEPT
       !.documents = <<PublicDoc(FALSE)>>]
Buckets ==
    {Res("data", "s3_bucket", {"encrypted"}, {}),
     Res("data", "s3_bucket", {"public"}, {}),
     [Res("data", "s3_bucket", {}, {}) EXCEPT
        !.documents = <<PublicDoc(FALSE)>>],
     [Res("data", "s3_bucket", {}, {}) EXCEPT
        !.documents = <<PublicDoc(TRUE)>>],
     BlockedBucket,
     [Res("data", "s3_bucket", {}, {}) EXCEPT
        !.documents = <<DeniedDoc>>]}

Role(id, documents, trust) ==
    [Res(id, "iam_role", {}, {}) EXCEPT !.documents = documents,
                                        !.trust = trust]

\* Two instances, web in two groups and behind an address or not.
Web(addressed) ==
    Res("web", "ec2_instance", IF addressed THEN {"public_ip"} ELSE {},
        {Link("security_group", "sg1", ""), Link("security_group", "sg2", ""),
         Link("subnet", "subnet", ""), Link("role", "app", "resolved")})
Box == Res("box", "ec2_instance", {"public_ip"},
           {Link("security_group", "sg1", ""), Link("role", "ops",
                                                     "resolved")})
Group(id, open, everyone) ==
    Res(id, "security_group", {},
        {Link("ingress", IF open THEN everyone ELSE "10.0.0.0/8",
              "single port"), Link("group_pair", "sg-peer", "")})

\* The same in every Amazon estate.
Network ==
    {Res("vpc", "aws_vpc", {}, {Link("subnet", "subnet", "")}),
     Res("subnet", "aws_subnet", {"map_public_ip_on_launch"}, {}),
     Res("routes", "aws_route_table", {"is_main"},
         {Link("route", "igw", "default to internet gateway"),
          Link("association", "subnet", "")}),
     Res("igw", "aws_internet_gateway", {},
         {Link("attachment", "vpc", "available")}),
     Res("acl", "aws_network_acl", {},
         {Link("entry", "0.0.0.0/0", "ingress allow"),
          Link("association", "subnet", "")}),
     Res("summary", "iam_account_summary", {"root_mfa_enabled"}, {}),
     Res("user", "iam_user", {"mfa_active"}, {})}

Key == Res("key", "kms_key", {"rotation_enabled"}, {})
OpenKey == [Key EXCEPT !.documents = <<PublicDoc(FALSE)>>]
Stores ==
    {Key,
     Res("logs", "s3_bucket", {"encrypted"}, {}),
     Res("db", "rds_db_instance", {"publicly_accessible"},
         {Link("security_group", "sg2", "active")})}

Amazon(bucket, documents, trust, addressed, open1, open2, trailTo) ==
    Network \cup Stores \cup
    {bucket, Web(addressed),
     Group("sg1", open1, "0.0.0.0/0"), Group("sg2", open2, "::/0"),
     Role("app", documents, trust),
     Box, Role("ops", <<Doc(FALSE, <<Read({Literal({"logs"})})>>)>>,
               ServiceTrust),
     Res("trail", "cloudtrail", {"is_logging"},
         {Link("s3_bucket", trailTo, "")})}

PlainBucket == Res("data", "s3_bucket", {"encrypted"}, {})
OnePolicy == <<Doc(TRUE, <<Read({Literal({"data"})})>>)>>

\* Each dimension varied against the interesting values of the others.
PolicyEstates ==
    {Amazon(PlainBucket, d, t, TRUE, TRUE, o, "logs") :
        d \in Policies, t \in Trusts, o \in BOOLEAN}

AmazonEstates ==
    PolicyEstates \cup
    {Amazon(b, OnePolicy, ServiceTrust, a, FALSE, o, w) :
        b \in Buckets, a \in BOOLEAN, o \in BOOLEAN, w \in {"data", "logs"}} \cup
    {(Amazon(PlainBucket, OnePolicy, ServiceTrust, TRUE, FALSE, TRUE, "logs")
         \ {Key}) \cup {OpenKey}}

Azure(vault, machine, open, storage) ==
    {Res("/sub", "azure_subscription", {}, {}),
     Res("principal", "azure_principal", {"principal_type_is_known"}, {}),
     Res("owner", "azure_role_definition", {"is_built_in"},
         {Link("action", "*", "")}),
     Res("assignment", "azure_role_assignment", {},
         {Link("principal", "principal", ""),
          Link("role_definition", "owner", ""),
          Link("scope", "/Sub", "subscription")}),
     Res("vault", "azure_key_vault", vault, {}),
     Res("vm", "azure_virtual_machine", machine,
         {Link("security_group", "nsg", "")}),
     Res("nsg", "azure_network_security_group", {},
         {Link("rule", "internet", open)}),
     Res("storage", "azure_storage_account", storage, {}),
     Res("activity", "azure_activity_log_setting", {},
         {Link("storage_account", "storage", "")})}

AzureEstates ==
    {Azure(v, m, o, s) :
        v \in {{}, {"public_network_access_enabled"}},
        m \in {{}, {"public_ip_address"}},
        o \in {"inbound allow port", "inbound deny port"},
        s \in {{}, {"allow_blob_public_access"}}}

MCEstates == AmazonEstates \cup AzureEstates

MCFinding(resource, severity, environment, indeterminate) ==
    [resource |-> resource, severity |-> severity,
     environment |-> environment, indeterminate |-> indeterminate]

MCFindings ==
    {MCFinding("data", "critical", "prod", FALSE),
     MCFinding("app", "high", "unknown", TRUE),
     MCFinding("web", "low", "sandbox", TRUE),
     MCFinding("vault", "medium", "staging", FALSE)}
=============================================================================
