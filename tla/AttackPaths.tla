----------------------------- MODULE AttackPaths -----------------------------
(***************************************************************************)
(* From what a scan collected to the attack paths it stores: the graph is  *)
(* built, AnalyzeAttackPaths runs its five scenarios over it, each         *)
(* candidate is scored and validated, findings get their risk from the     *)
(* paths, and the paths are inserted worst first.                          *)
(*                                                                         *)
(* A path is [scenario, nodes, edges, score, confidence]; scores are       *)
(* integers as all their weights are, risks are in hundredths.             *)
(***************************************************************************)
EXTENDS Integers, FiniteSets, FiniteSetsExt, ResourceGraph

CONSTANTS
    Estates,     \* what the cloud may hold: sets of resources
    Findings,    \* the findings the rules may raise
    Unreadable   \* Bound: how many resources a scan fails to read fully

ASSUME UnreadableIsNat == Unreadable \in Nat

VARIABLES
    estate,      \* the resources as the cloud has them
    gap,         \* what the collectors failed to read of each
    phase,       \* what the scan has done so far
    resources,   \* the normalized resources
    graph,       \* the resource graph
    paths,       \* the attack paths found
    refused,     \* candidates the AttackPath validation refused
    risks,       \* risk of each finding after the enrichment
    stored       \* score of each attack path row, by its id

vars == <<estate, gap, phase, resources, graph, paths, refused, risks,
          stored>>

Phases == {"scanning", "collected", "built", "analyzed", "enriched",
           "stored"}

MAX_DEPTH == 4

-----------------------------------------------------------------------------
(* What an estate is                                                       *)

PrincipalTypes == {"*", "AWS", "Service", "Federated", "CanonicalUser"}

Principal ==
    [type : {"AWS"}, value : {"*", OwnAccount} \cup DOMAIN AccountId] \cup
    [type : {"Service"}, value : {"*"} \cup DOMAIN ServiceId] \cup
    [type : PrincipalTypes \ {"AWS", "Service"}, value : STRING]

PolicyStatement ==
    [effect : {"allow", "deny", "malformed"},
     actions : SUBSET STRING, not_actions : SUBSET STRING,
     resources : SUBSET [shape : STRING, ids : SUBSET STRING],
     inverted : BOOLEAN, principals : SUBSET Principal,
     conditioned : BOOLEAN]

PolicyDocument == [attached : BOOLEAN, statements : Seq(PolicyStatement)]

CloudResource ==
    [id : STRING \ ({"internet"} \cup Range(AccountId)
                                 \cup Range(ServiceId)),
     type : CollectedTypes, facts : SUBSET STRING,
     links : SUBSET [field : STRING, to : STRING, note : STRING],
     documents : Seq(PolicyDocument), trust : Seq(PolicyStatement)]

\* Ids tell resources apart (the build refuses a duplicate), and the cloud
\* gives a subnet and a gateway ids that nothing else has.
IsEstate(raws) ==
    /\ raws \subseteq CloudResource
    /\ IsFiniteSet(raws)
    /\ \A r \in raws : IsFiniteSet(r.links)
    /\ \A r, q \in raws : r.id = q.id => r = q
    /\ \A r, q \in raws : \A l \in r.links :
           l.to = q.id =>
               /\ l.field = "subnet" => q.type = "aws_subnet"
               /\ l.field = "route" /\ _is_internet_route(l)
                      => q.type = "aws_internet_gateway"

ASSUME EstatesAssumption == \A raws \in Estates : IsEstate(raws)

-----------------------------------------------------------------------------
(* Classification (classification.py)                                      *)

Roles ==
    [workload |-> {"ec2_instance", "azure_virtual_machine"},
     storage |-> {"s3_bucket", "rds_db_instance", "azure_storage_account"},
     identity |-> {"iam_role", "iam_user", "azure_principal"},
     secrets |-> {"kms_key", "azure_key_vault"},
     network_control |-> {"security_group", "azure_network_security_group"},
     audit_log |-> {"cloudtrail", "azure_activity_log_setting"}]

role_of(g, id) ==
    LET roles == {r \in DOMAIN Roles : g.nodes[id].type \in Roles[r]}
    IN IF is_external(g, id) THEN "external"
       ELSE IF roles = {} THEN "other" ELSE CHOOSE r \in roles : TRUE

_SENSITIVE_ROLES == {"storage", "secrets", "identity", "audit_log"}

is_data_bearing(g, id) == role_of(g, id) \in {"storage", "secrets",
                                              "audit_log"}

_TRAVERSABLE_RELATIONSHIPS ==
    {"assumes", "accesses", "publicly_exposed", "connects_to"}

Traversable(g) == {e \in g.edges : e.kind \in _TRAVERSABLE_RELATIONSHIPS}

_PUBLIC_EXPOSURE_ATTRIBUTES ==
    {"public", "bucket_policy_allows_public_access", "is_publicly_assumable",
     "allows_public_network_access", "public_network_access_enabled"}

_PRIVILEGE_ATTRIBUTES ==
    {"has_administrator_access", "has_privilege_escalation_path",
     "has_pass_role_escalation", "has_wildcard_action"}

INGRESS_ATTRIBUTES ==
    {"has_unrestricted_ingress", "allows_unrestricted_ingress",
     "unrestricted_ingress_ports"}

\* The attributes of a node: an external one has none.
AttributesOf(collected, id) ==
    IF id \in CollectedIds(collected)
    THEN CHOOSE r \in collected : r.id = id
    ELSE [holds |-> {}, unknown |-> {}]

\* Only what is definitely true is evidence; what is unknown only makes
\* the evidence incomplete.
EvidenceOfKind(attributes, names) == attributes.holds \cap names
UndeterminedOf(attributes, names) == attributes.unknown \cap names # {}

-----------------------------------------------------------------------------
(* Scoring (scoring.py)                                                    *)

CONFIDENCE_ORDER == <<"high", "medium", "low", "unknown">>

RankOf(confidence) ==
    CHOOSE i \in DOMAIN CONFIDENCE_ORDER : CONFIDENCE_ORDER[i] = confidence

_weakest(confidences) ==
    CONFIDENCE_ORDER[Max({RankOf(c) : c \in confidences})]

CONFIDENCE_PENALTY == [high |-> 0, medium |-> 10, low |-> 25,
                       unknown |-> 40]

Sensitivity == [secrets |-> 25, storage |-> 20, identity |-> 20,
                audit_log |-> 15]

Points(condition, n) == IF condition THEN n ELSE 0

PrivilegePoints(privileges) ==
    Min({30, Points("has_administrator_access" \in privileges, 30)
             + Points(privileges \cap {"has_privilege_escalation_path",
                                       "has_pass_role_escalation"} # {}, 20)
             + Points("has_wildcard_action" \in privileges, 10)})

RawScore(c, target, confidence) ==
    LET kinds == {c.edges[i].kind : i \in DOMAIN c.edges}
        hops == Len(c.edges)
    IN (IF c.internet_edge THEN 40 ELSE Points(c.exposure # {}, 35))
       + Points(c.ingress, 15)
       + PrivilegePoints(c.privileges)
       + (IF target \in _SENSITIVE_ROLES THEN Sensitivity[target] ELSE 0)
       + (IF "assumes" \in kinds THEN 10
          ELSE Points("accesses" \in kinds, 5))
       - Min({15, 5 * Max({0, hops - 1})})
       - CONFIDENCE_PENALTY[confidence]
       - Points(c.incomplete, 20)

score_path(c, target, confidence) ==
    Max({0, Min({100, RawScore(c, target, confidence)})})

-----------------------------------------------------------------------------
(* The five scenarios (analyze_attack_paths.py).  Each gives candidates.   *)

Candidate(scenario, nodes, edges, exposure) ==
    [scenario |-> scenario, nodes |-> nodes, edges |-> edges,
     exposure |-> exposure, internet_edge |-> FALSE, ingress |-> FALSE,
     privileges |-> {}, incomplete |-> FALSE]

PublicExposure(attributes) ==
    EvidenceOfKind(attributes, _PUBLIC_EXPOSURE_ATTRIBUTES)

ExposureUndetermined(attributes) ==
    UndeterminedOf(attributes, _PUBLIC_EXPOSURE_ATTRIBUTES)

\* An identity with an edge to the internet.
_public_identities(g, collected) ==
    {LET attributes == AttributesOf(collected, e.from)
     IN [Candidate("public_identity_with_privilege", <<e.to, e.from>>, <<e>>,
                   PublicExposure(attributes))
         EXCEPT !.internet_edge = TRUE,
                !.privileges = EvidenceOfKind(attributes,
                                              _PRIVILEGE_ATTRIBUTES),
                !.incomplete = UndeterminedOf(attributes,
                                              _PRIVILEGE_ATTRIBUTES)] :
     e \in {d \in g.edges : /\ d.kind = "publicly_exposed"
                            /\ d.to \in internet_node_ids(g)
                            /\ role_of(g, d.from) = "identity"}}

ExposedStores(g, collected) ==
    {id \in DOMAIN g.nodes :
        /\ is_data_bearing(g, id)
        /\ PublicExposure(AttributesOf(collected, id)) # {}}

\* A store whose own attributes say that it is public.
_exposed_sensitive_data(g, collected) ==
    {LET attributes == AttributesOf(collected, id)
     IN [Candidate("internet_to_sensitive_data", <<id>>, <<>>,
                   PublicExposure(attributes))
         EXCEPT !.privileges = EvidenceOfKind(attributes,
                                              _PRIVILEGE_ATTRIBUTES),
                !.incomplete = ExposureUndetermined(attributes)] :
     id \in ExposedStores(g, collected)}

\* The open network controls of a workload that has a public address.
OpenControls(g, collected, id) ==
    {e \in edges_of(g.edges, id, "attached_to") :
        /\ role_of(g, id) = "workload"
        /\ "public_ip" \in AttributesOf(collected, id).holds
        /\ role_of(g, e.to) = "network_control"
        /\ EvidenceOfKind(AttributesOf(collected, e.to),
                          INGRESS_ATTRIBUTES) # {}}

EntryEvidence(collected, control) ==
    {"public_ip"} \cup EvidenceOfKind(AttributesOf(collected, control),
                                      INGRESS_ATTRIBUTES)

\* One path for each open control of an exposed workload.
_exposed_workloads(g, collected) ==
    {[Candidate("internet_to_exposed_workload", <<e.to, e.from>>, <<e>>,
                EntryEvidence(collected, e.to))
      EXCEPT !.ingress = TRUE,
             !.incomplete =
                 ExposureUndetermined(AttributesOf(collected, e.to))] :
     e \in UNION {OpenControls(g, collected, id) : id \in DOMAIN g.nodes}}

\* A path is asked for over traversable edges only, which is to drop every
\* path with another edge.
TraversablePaths(g, source, target) ==
    find_paths(Traversable(g), source, target, MAX_DEPTH)

FlowsFrom(g, collected, source) ==
    UNION {{[Candidate("sensitive_data_flow_to_exposed_store",
                       VisitedBy(source, path), path,
                       PublicExposure(AttributesOf(collected, store)))
             EXCEPT !.incomplete =
                 ExposureUndetermined(AttributesOf(collected, store))] :
            path \in TraversablePaths(g, source, store)} :
           store \in ExposedStores(g, collected) \ {source}}

_data_flows_into_exposed_stores(g, collected) ==
    UNION {FlowsFrom(g, collected, source) :
           source \in {id \in DOMAIN g.nodes : ~ is_external(g, id)}}

\* Variant: only one attached control is looked at, open or not.
_internet_exposure_of_one_control(g, collected, id) ==
    LET attached == {e \in edges_of(g.edges, id, "attached_to") :
                        role_of(g, e.to) = "network_control"}
        first == IF attached = {} THEN {}
                 ELSE {CHOOSE e \in attached : TRUE}
    IN {e.to : e \in first \cap OpenControls(g, collected, id)}

\* The first open control in id order: which of several one it is makes no
\* difference to what is found.
_internet_exposure_of(g, collected, id) ==
    LET open == OpenControls(g, collected, id)
    IN IF open = {} THEN {} ELSE {(CHOOSE e \in open : TRUE).to}

\* Someone is impersonated and then data is accessed.
_is_identity_chain(path) ==
    \E i, j \in DOMAIN path :
        i < j /\ path[i].kind = "assumes" /\ path[j].kind = "accesses"

IdentityChains(g, workload) ==
    {path \in UNION {TraversablePaths(g, workload, target) :
                     target \in {id \in DOMAIN g.nodes :
                                    is_data_bearing(g, id)}} :
        _is_identity_chain(path)}

\* The chain is judged by its first identity.
ChainCandidate(g, collected, control, workload, path) ==
    LET nodes == VisitedBy(workload, path)
        identities == {i \in DOMAIN nodes : role_of(g, nodes[i]) = "identity"}
        attributes == IF identities = {} THEN [holds |-> {}, unknown |-> {}]
                      ELSE AttributesOf(collected, nodes[Min(identities)])
    IN [Candidate("internet_to_workload_to_identity_to_data",
                  <<control>> \o nodes, path,
                  EntryEvidence(collected, control))
        EXCEPT !.ingress = TRUE,
               !.privileges = EvidenceOfKind(attributes,
                                             _PRIVILEGE_ATTRIBUTES),
               !.incomplete =
                   \/ UndeterminedOf(attributes, _PRIVILEGE_ATTRIBUTES)
                   \/ ExposureUndetermined(AttributesOf(collected,
                                                        control))]

_internet_to_data_via_identity(g, collected) ==
    UNION {{ChainCandidate(g, collected, control, workload, path) :
            control \in _internet_exposure_of(g, collected, workload),
            path \in IdentityChains(g, workload)} :
           workload \in {id \in DOMAIN g.nodes :
                            role_of(g, id) = "workload"}}

-----------------------------------------------------------------------------
(* From a candidate to an attack path                                      *)

_to_attack_path(g, c) ==
    LET confidence == _weakest({g.nodes[c.nodes[i]].confidence :
                                    i \in DOMAIN c.nodes} \cup
                               {c.edges[i].confidence : i \in DOMAIN c.edges})
    IN [scenario |-> c.scenario, nodes |-> c.nodes, edges |-> c.edges,
        exposure |-> c.exposure, confidence |-> confidence,
        score |-> score_path(c, role_of(g, Last(c.nodes)), confidence)]

\* The validation of the AttackPath aggregate.
Constructible(path) ==
    /\ path.nodes # <<>>
    /\ path.score \in 0..100
    /\ \A i \in DOMAIN path.edges :
           {path.edges[i].from, path.edges[i].to} \subseteq
               ToSet(path.nodes)

\* Its id does not tell apart paths that differ in between.
PathId(path) == <<path.scenario, Head(path.nodes), Last(path.nodes)>>

analyze(g, collected) ==
    {_to_attack_path(g, c) : c \in
        _public_identities(g, collected) \cup
        _exposed_sensitive_data(g, collected) \cup
        _exposed_workloads(g, collected) \cup
        _data_flows_into_exposed_stores(g, collected) \cup
        _internet_to_data_via_identity(g, collected)}

-----------------------------------------------------------------------------
(* Risk of a finding (factors.py, enrich_findings.py, risk/models.py)      *)

PathsThrough(g, found, id) ==
    {p \in found : id \in ToSet(p.nodes) /\ ~ is_external(g, id)}

SEVERITY_FACTOR == [critical |-> 100, high |-> 75, medium |-> 45, low |-> 20]
ENVIRONMENT_FACTOR == [prod |-> 100, staging |-> 60, dev |-> 30,
                       sandbox |-> 15, unknown |-> 50]
CONFIDENCE_FACTOR == [high |-> 100, medium |-> 65, low |-> 35, unknown |-> 20]

Finding ==
    [resource : STRING, severity : DOMAIN SEVERITY_FACTOR,
     environment : DOMAIN ENVIRONMENT_FACTOR, indeterminate : BOOLEAN]

ASSUME FindingsAssumption == Findings \subseteq Finding

WorstScore(found) == Max({0} \cup {p.score : p \in found})

confidence_factor(finding, found) ==
    IF found # {} THEN Min({CONFIDENCE_FACTOR[p.confidence] : p \in found})
    ELSE CONFIDENCE_FACTOR[IF finding.indeterminate THEN "low" ELSE "high"]

\* Variant: the bonus for several paths is not capped at 100.
attack_path_involvement_uncapped(found) ==
    IF found = {} THEN 0
    ELSE WorstScore(found) + 10 * Min({3, Cardinality(found) - 1})

attack_path_involvement_factor(found) ==
    IF found = {} THEN 0
    ELSE Min({100, WorstScore(found)
                   + 10 * Min({3, Cardinality(found) - 1})})

FactorsOf(finding, found) ==
    [severity |-> SEVERITY_FACTOR[finding.severity],
     exposure |-> WorstScore(found),
     environment |-> ENVIRONMENT_FACTOR[finding.environment],
     confidence |-> confidence_factor(finding, found),
     involvement |-> attack_path_involvement_factor(found)]

\* Refused, and the scan with it, when a factor leaves 0..100.
calculate(f) ==
    IF \E name \in DOMAIN f : f[name] \notin 0..100 THEN -1
    ELSE 40 * f.severity + 25 * f.exposure + 10 * f.environment
         + 10 * f.confidence + 15 * f.involvement

-----------------------------------------------------------------------------
(* The rows (scan_repository.py)                                           *)

\* The rows with those of the paths of one score: a row whose id is there
\* already is left as it is.
WithRowsOf(rows, found, score) ==
    LET new == {PathId(p) : p \in {q \in found : q.score = score}}
    IN [id \in DOMAIN rows \cup new |->
           IF id \in DOMAIN rows THEN rows[id] ELSE score]

\* Variant: the lowest risk is inserted first.
InsertPaths_lowest_first(found) ==
    LET rows[n \in -1..100] ==
            IF n = -1 THEN <<>> ELSE WithRowsOf(rows[n - 1], found, n)
    IN rows[100]

\* Highest risk first.
InsertPaths(found) ==
    LET rows[n \in 0..101] ==
            IF n = 101 THEN <<>> ELSE WithRowsOf(rows[n + 1], found, n)
    IN rows[0]

-----------------------------------------------------------------------------
Init ==
    /\ estate \in Estates
    /\ gap = [id \in {r.id : r \in estate} |-> "none"]
    /\ phase = "scanning"
    /\ resources = {}
    /\ graph = [nodes |-> <<>>, edges |-> {}]
    /\ paths = {} /\ refused = {} /\ risks = <<>> /\ stored = <<>>

\* A collector could not read some of one resource.
Miss(raw, kind) ==
    /\ phase = "scanning"
    /\ gap[raw.id] = "none" /\ kind # "none"
    /\ Cardinality({id \in DOMAIN gap : gap[id] # "none"}) < Unreadable
    /\ gap' = [gap EXCEPT ![raw.id] = kind]
    /\ UNCHANGED <<estate, phase, resources, graph, paths, refused, risks,
                   stored>>

Collect ==
    /\ phase = "scanning"
    /\ phase' = "collected"
    /\ resources' = {normalize(r, gap[r.id]) :
                        r \in {q \in estate : gap[q.id] # "lost"}}
    /\ UNCHANGED <<estate, gap, graph, paths, refused, risks, stored>>

BuildGraph ==
    /\ phase = "collected"
    /\ phase' = "built"
    /\ graph' = build(resources)
    /\ UNCHANGED <<estate, gap, resources, paths, refused, risks, stored>>

\* A candidate the aggregate refuses is dropped and the rest goes on.
Analyze ==
    /\ phase = "built"
    /\ phase' = "analyzed"
    /\ LET found == analyze(graph, resources)
       IN /\ paths' = {p \in found : Constructible(p)}
          /\ refused' = {p \in found : ~ Constructible(p)}
    /\ UNCHANGED <<estate, gap, resources, graph, risks, stored>>

\* The findings on resources this scan collected.
Enrich ==
    /\ phase = "analyzed"
    /\ phase' = "enriched"
    /\ risks' = [f \in {x \in Findings :
                           x.resource \in CollectedIds(resources)} |->
            calculate(FactorsOf(f, PathsThrough(graph, paths,
                                                f.resource)))]
    /\ UNCHANGED <<estate, gap, resources, graph, paths, refused, stored>>

StorePaths ==
    /\ phase = "enriched"
    /\ phase' = "stored"
    /\ stored' = InsertPaths(paths)
    /\ UNCHANGED <<estate, gap, resources, graph, paths, refused, risks>>

Next ==
    \/ \E raw \in estate : \E kind \in GapsOf(raw) : Miss(raw, kind)
    \/ Collect
    \/ BuildGraph
    \/ Analyze
    \/ Enrich
    \/ StorePaths

Spec == Init /\ [][Next]_vars

-----------------------------------------------------------------------------
(* Properties                                                              *)

\* The variables have their types, and every edge of the graph joins two of
\* its nodes: the resource a relationship names and nobody collected has a
\* node of its own, so no relationship can abort the build.
TypeOK ==
    /\ estate \in Estates
    /\ phase \in Phases
    /\ DOMAIN gap = {r.id : r \in estate}
    /\ \A e \in graph.edges : {e.from, e.to} \subseteq DOMAIN graph.nodes
    /\ \A p \in paths : ToSet(p.nodes) \subseteq DOMAIN graph.nodes
    /\ \A id \in DOMAIN stored : stored[id] \in 0..100

(* What is so in the cloud, said of the estate by what the providers do    *)
(* with a policy and not by what the code does with one.                   *)
Raw(id) == CHOOSE r \in estate : r.id = id

Statements(id) == UNION {ToSet(d) : d \in ToSet(Documents(Raw(id)))}

\* A statement about some actions, and what its patterns select of whatever
\* shape they are; NotResource selects the rest.
Covers(statement, id) ==
    /\ statement.actions \cup statement.not_actions # {}
    /\ LET selected == UNION {p.ids : p \in statement.resources}
       IN IF statement.inverted THEN id \notin selected ELSE id \in selected

\* It covers the resource by its name or by a constrained prefix.
NamesOutright(statement, id) ==
    /\ Covers(statement, id) /\ ~ statement.inverted
    /\ \E p \in statement.resources :
           p.shape \in {"literal", "prefix*"} /\ id \in p.ids

\* All it covers it names outright.
Specific(statement) ==
    /\ ~ statement.inverted
    /\ \A p \in statement.resources : p.shape \in {"literal", "prefix*"}

\* An unconditioned Deny of every action that an Allow allows.
Overrides(deny, allow) ==
    LET allowed == IF allow.not_actions # {} THEN {"*"} ELSE allow.actions
        TakesBack(x) == /\ Selects(deny, x)
                        /\ deny.not_actions # {} => x \notin {"*", "iam:*"}
    IN /\ deny.effect = "deny" /\ ~ deny.conditioned
       /\ \A x \in allowed : TakesBack(x)

\* Explicit Deny wins, whatever the form of its resources.
AllowedBy(statements, id) ==
    \E a \in statements :
        /\ a.effect = "allow" /\ Covers(a, id)
        /\ \A d \in statements : Covers(d, id) => ~ Overrides(d, a)

ForEveryone(statement, types) ==
    \E p \in statement.principals : p.value = "*" /\ p.type \in types

\* What an access control list open to everyone amounts to.
AclGrants(raw) ==
    IF raw.type = "s3_bucket" /\ "public" \in raw.facts
    THEN {[effect |-> "allow", actions |-> {"s3:GetObject"},
           not_actions |-> {}, resources |-> {}, inverted |-> FALSE,
           principals |-> {[type |-> "*", value |-> "*"]},
           conditioned |-> FALSE]}
    ELSE {}

\* Who may use a resource, said at the resource.
ResourcePolicy(id) ==
    IF Raw(id).type = "iam_role" THEN ToSet(Raw(id).trust)
    ELSE Statements(id) \cup AclGrants(Raw(id))

AnyoneMay(id, types) ==
    \E a \in ResourcePolicy(id) :
        /\ a.effect = "allow" /\ ~ a.conditioned /\ ForEveryone(a, types)
        /\ \A d \in ResourcePolicy(id) :
               ForEveryone(d, {"*", "AWS"}) => ~ Overrides(d, a)

AnyoneMayAssume(id) == AnyoneMay(id, PrincipalTypes)

\* Open to all addresses of either family, or to what Azure calls so.
OpenToAll(id) ==
    \E l \in Raw(id).links :
        \/ /\ Raw(id).type = "security_group" /\ l.field = "ingress"
           /\ l.to \in {"0.0.0.0/0", "::/0"}
        \/ /\ Raw(id).type = "azure_network_security_group"
           /\ l.field = "rule"
           /\ l.to \in {"0.0.0.0/0", "::/0", "*", "any", "internet"}
           /\ l.note \in {"inbound allow port", "inbound allow range"}

\* Block Public Access shuts a bucket whatever its list and its policy say.
Blocked(id) == "public_access_block_enabled" \in Raw(id).facts

\* AWS lets anyone in by a wildcard for accounts, not for services.
PublicStore(id) ==
    \/ /\ Raw(id).type = "s3_bucket" /\ ~ Blocked(id)
       /\ AnyoneMay(id, {"*", "AWS"})
    \/ Raw(id).type = "kms_key" /\ AnyoneMay(id, {"*", "AWS"})
    \/ /\ Raw(id).type = "azure_key_vault"
       /\ "public_network_access_enabled" \in Raw(id).facts
    \/ /\ Raw(id).type = "azure_storage_account"
       /\ "allow_blob_public_access" \in Raw(id).facts

\* Nothing at the resource takes back what something else there gives.
Undisputed(id) ==
    /\ ~ Blocked(id)
    /\ \A s \in ResourcePolicy(id) : s.effect # "deny"

Linked(from, fields, to) ==
    \E l \in Raw(from).links : l.field \in fields /\ l.to = to

ActsAs(workload, role) ==
    \E l \in Raw(workload).links :
        l.field = "role" /\ l.to = role /\ l.note = "resolved"

PublicAddress == [ec2_instance |-> "public_ip",
                  azure_virtual_machine |-> "public_ip_address"]

Entered(control, workload) ==
    /\ Raw(workload).type \in DOMAIN PublicAddress
    /\ PublicAddress[Raw(workload).type] \in Raw(workload).facts
    /\ OpenToAll(control)
    /\ Linked(workload, {"security_group"}, control)

ReadStatements(id) == UNION {ToSet(d) : d \in
                               ToSet(ReadDocuments(Raw(id), gap[id]))}

\* The policies that were read name the resource and the Denies among them
\* leave it, but for those that do not name what they cover (NoneTakenBack).
Reaches(role, id) ==
    /\ \E s \in ReadStatements(role) :
           s.effect = "allow" /\ NamesOutright(s, id)
    /\ AllowedBy({s \in ReadStatements(role) :
                     s.effect = "deny" => Specific(s)}, id)

TrueEdge(e) ==
    CASE e.kind = "attached_to" -> Linked(e.from, {"security_group"}, e.to)
      [] e.kind = "assumes" -> ActsAs(e.from, e.to)
      [] e.kind = "publicly_exposed" ->
            Undisputed(e.from) => AnyoneMayAssume(e.from)
      [] e.kind = "accesses" ->
            \/ Linked(e.from, {"s3_bucket", "storage_account"}, e.to)
            \/ Raw(e.from).type = "iam_role" /\ Reaches(e.from, e.to)
      [] OTHER -> FALSE

ToPublicStore == {"internet_to_sensitive_data",
                  "sensitive_data_flow_to_exposed_store"}

\* Whatever the collectors failed to read, an attack path rests on the
\* cloud as it is: each hop is a link the cloud has or access that the
\* policies that were read give, the entry is a public address behind an
\* attached open control, a public store is public and a public identity is
\* assumable by anyone (analyze_attack_paths.py: only what the graph
\* evidences).  Left aside is what the code does not look at and
\* PathsMatchTheCloud asks of it: a Deny whose patterns do not name the
\* resource, and for a public store or identity a Deny or a block of public
\* access.
PathsRestOnEvidence ==
    \A p \in paths :
        /\ \A i \in DOMAIN p.edges : TrueEdge(p.edges[i])
        /\ "public_ip" \in p.exposure => Entered(p.nodes[1], p.nodes[2])
        /\ p.scenario \in ToPublicStore /\ Undisputed(Last(p.nodes))
               => PublicStore(Last(p.nodes))

HasPath(scenario, ids) ==
    \E p \in paths : p.scenario = scenario /\ ids \subseteq ToSet(p.nodes)

AllWasRead == /\ phase \in {"analyzed", "enriched", "stored"}
              /\ \A id \in DOMAIN gap : gap[id] = "none"

DataTypes == {"s3_bucket", "rds_db_instance", "kms_key"}

\* The kinds of store whose public state is among the attributes that the
\* classification reads.
ReadForExposure == {"s3_bucket", "azure_key_vault"}

\* A policy names the resource and no Deny of anything covers it, as the
\* code takes a Deny of one action for a Deny of all.
ClearlyGrants(role, id) ==
    /\ \E s \in Statements(role) :
           s.effect = "allow" /\ NamesOutright(s, id)
    /\ \A s \in Statements(role) : s.effect = "deny" => ~ Covers(s, id)

\* When everything could be read, nothing evident is missed: each public
\* bucket and key vault, each publicly assumable role and each instance
\* behind an open control has its path, and so has each chain
\* from an exposed instance through the role it acts as to data the role's
\* policies name, whichever of several attached controls is the open one,
\* and over a second instance and role too.
EvidenceBecomesPaths ==
    AllWasRead =>
    LET ids == DOMAIN gap
        data == {id \in ids : Raw(id).type \in DataTypes}
        roles == {id \in ids : Raw(id).type = "iam_role"}
        workloads == {id \in ids : Raw(id).type = "ec2_instance"}
        exposed == {w \in workloads : \E c \in ids : Entered(c, w)}
        chain == "internet_to_workload_to_identity_to_data"
    IN /\ \A id \in {x \in ids : PublicStore(x)} :
              Raw(id).type \in ReadForExposure =>
                  HasPath("internet_to_sensitive_data", {id})
       /\ \A r \in {x \in roles : AnyoneMayAssume(x)} :
              HasPath("public_identity_with_privilege", {r, "internet"})
       /\ \A c \in ids, w \in workloads :
              Entered(c, w) => HasPath("internet_to_exposed_workload", {c, w})
       /\ \A w \in exposed, r \in roles, t \in data :
              ActsAs(w, r) /\ ClearlyGrants(r, t) => HasPath(chain, {w, r, t})
       /\ \A w \in exposed, r, s \in roles, v \in workloads, t \in data :
              (/\ ActsAs(w, r) /\ ClearlyGrants(r, v)
               /\ ActsAs(v, s) /\ ClearlyGrants(s, t)
               /\ v # w /\ r # s) => HasPath(chain, {w, r, v, s, t})

\* No candidate of the analyzer is one the AttackPath aggregate refuses, so
\* none is silently dropped, and no factor leaves the range RiskScore
\* accepts, so no finding aborts the scan (models.py, risk/models.py).
NothingIsRefused ==
    /\ refused = {}
    /\ \A f \in DOMAIN risks : risks[f] >= 0

\* Paths that share an id share a row, and the row shows the worst of them:
\* what a reader sees of a chain never understates it.
StoredIsWorst ==
    phase = "stored" =>
        /\ DOMAIN stored = {PathId(p) : p \in paths}
        /\ \A p \in paths : stored[PathId(p)] >= p.score

(***************************************************************************)
(* What the documents and the tests say and the code does not keep.  TLC   *)
(* refutes each of the four parts by itself.                               *)
(***************************************************************************)

\* A path goes through no access that a Deny among the policies that were
\* read takes back (identity_access.py: explicit Deny wins, as in AWS).
NoneTakenBack ==
    \A p \in paths : \A i \in DOMAIN p.edges :
        LET e == p.edges[i]
        IN e.kind = "accesses" /\ Raw(e.from).type = "iam_role"
               => AllowedBy(ReadStatements(e.from), e.to)

\* A store that a path calls readable from the internet is: no Deny at the
\* store and no block of public access shuts it (_exposed_sensitive_data).
ExposedStoresAreOpen ==
    \A p \in paths :
        p.scenario = "internet_to_sensitive_data"
            => PublicStore(Last(p.nodes))

\* When everything could be read, each public store has its path, whatever
\* provider it is of (_exposed_sensitive_data; the tests ask for the same
\* paths through the same code).
EveryPublicStoreHasPath ==
    AllWasRead =>
    \A id \in {x \in DOMAIN gap : PublicStore(x)} :
        HasPath("internet_to_sensitive_data", {id})

\* And so has each workload with a public address behind an attached open
\* control (_exposed_workloads).
EveryExposedWorkloadHasPath ==
    AllWasRead =>
    \A c, w \in DOMAIN gap :
        Entered(c, w) => HasPath("internet_to_exposed_workload", {c, w})

\* The paths are those of the cloud as the policies that were read have it:
\* a Deny wins wherever it stands and whatever its form, and stores and
\* workloads of both providers are judged alike.
PathsMatchTheCloud ==
    /\ NoneTakenBack
    /\ ExposedStoresAreOpen
    /\ EveryPublicStoreHasPath
    /\ EveryExposedWorkloadHasPath
=============================================================================
