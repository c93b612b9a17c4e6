-------------------------- MODULE AttackPathsProofs --------------------------
(***************************************************************************)
(* Theorems about AttackPaths, for every set of estates and findings.      *)
(*                                                                         *)
(* Each step of a scan computes its results from those of the step before, *)
(* so the invariant says of every variable what it was computed from       *)
(* (Chain), and the properties are lemmas about the operators: what the    *)
(* normalizers keep of a resource, which edges the graph has, what a path  *)
(* through it is, what the scenarios make of the paths.                    *)
(***************************************************************************)
EXTENDS AttackPaths, FiniteSetTheorems, WellFoundedInduction, TLAPS

-----------------------------------------------------------------------------
(* Numbers and sequences                                                   *)

\* Induction takes the form of a least counterexample.
LEMMA LeastElement ==
    ASSUME NEW T, T \subseteq Nat, T # {}
    PROVE  \E x \in T : \A y \in T : x <= y
PROOF
<1> DEFINE R == {ss \in Nat \X Nat : ss[1] < ss[2]}
<1>1. IsWellFoundedOn(R, Nat)
  BY NatLessThanWellFounded DEF OpToRel
<1> HIDE DEF R
<1>2. \E x \in T : \A y \in T : ~ (<<y, x>> \in R)
  BY <1>1, WFMin
<1>3. \A x, y \in T : ~ (<<y, x>> \in R) => x <= y
  BY DEF R
<1> QED
  BY <1>2, <1>3

LEMMA GreatestElement ==
    ASSUME NEW n \in Nat, NEW T, T \subseteq 0..n, T # {}
    PROVE  /\ Max(T) \in T
           /\ \A x \in T : x <= Max(T)
PROOF
<1> DEFINE D == {n - x : x \in T}
<1>1. D \subseteq Nat /\ D # {}
  OBVIOUS
<1>2. PICK d \in D : \A y \in D : d <= y
  BY <1>1, LeastElement
<1>3. PICK x \in T : d = n - x
  BY <1>2
<1>4. ASSUME NEW y \in T
      PROVE  y <= x
  <2>1. n - y \in D
    OBVIOUS
  <2> QED
    BY <2>1, <1>2, <1>3
<1>5. \E z \in T : \A y \in T : z >= y
  BY <1>3, <1>4
<1> QED
  BY <1>5 DEF Max

LEMMA SmallestElement ==
    ASSUME NEW T, T \subseteq Nat, T # {}
    PROVE  /\ Min(T) \in T
           /\ \A x \in T : Min(T) <= x
BY LeastElement DEF Min

\* A number is bounded as min and max of it and a bound say.
LEMMA Capped ==
    ASSUME NEW n \in Int, NEW k \in Int
    PROVE  /\ Min({n, k}) = IF n <= k THEN n ELSE k
           /\ Max({n, k}) = IF n >= k THEN n ELSE k
           /\ Min({k, n}) = IF n <= k THEN n ELSE k
           /\ Max({k, n}) = IF n >= k THEN n ELSE k
PROOF
<1>1. \E x \in {n, k} : \A y \in {n, k} : x <= y
  OBVIOUS
<1>2. /\ Min({n, k}) \in {n, k}
      /\ \A y \in {n, k} : Min({n, k}) <= y
  BY <1>1 DEF Min
<1>3. \E x \in {n, k} : \A y \in {n, k} : x >= y
  OBVIOUS
<1>4. /\ Max({n, k}) \in {n, k}
      /\ \A y \in {n, k} : Max({n, k}) >= y
  BY <1>3 DEF Max
<1>5. {n, k} = {k, n}
  OBVIOUS
<1>6. Min({k, n}) = Min({n, k}) /\ Max({k, n}) = Max({n, k})
  BY <1>5
<1> QED
  BY <1>2, <1>4, <1>6

LEMMA ElementsOfConcat ==
    ASSUME NEW S, NEW s \in Seq(S), NEW t \in Seq(S)
    PROVE  /\ s \o t \in Seq(S)
           /\ ToSet(s \o t) = ToSet(s) \cup ToSet(t)
PROOF
<1>1. \A x \in ToSet(s \o t) : x \in ToSet(s) \cup ToSet(t)
  BY DEF ToSet
<1>2. \A x \in ToSet(s) : x \in ToSet(s \o t)
  BY DEF ToSet
<1>3. ASSUME NEW i \in DOMAIN t
      PROVE  t[i] \in ToSet(s \o t)
  <2>1. Len(s) + i \in DOMAIN (s \o t) /\ (s \o t)[Len(s) + i] = t[i]
    OBVIOUS
  <2> QED
    BY <2>1 DEF ToSet
<1>4. \A x \in ToSet(t) : x \in ToSet(s \o t)
  BY <1>3 DEF ToSet
<1> QED
  BY <1>1, <1>2, <1>4

\* A sequence of sequences put end to end has the elements of all of them.
LEMMA Flattened ==
    ASSUME NEW S, NEW ss \in Seq(Seq(S))
    PROVE  /\ FlattenSeq(ss) \in Seq(S)
           /\ ToSet(FlattenSeq(ss)) = UNION {ToSet(ss[i]) : i \in DOMAIN ss}
PROOF
<1> DEFINE Body(f, k) ==
               f = [i \in 1..k |-> IF i = 1 THEN ss[i] ELSE f[i - 1] \o ss[i]]
           Upto(k) == UNION {ToSet(ss[i]) : i \in 1..k}
           Sound(f, k) == f[k] \in Seq(S) /\ ToSet(f[k]) = Upto(k)
<1>1. ASSUME Len(ss) = 0
      PROVE  /\ FlattenSeq(ss) \in Seq(S)
             /\ ToSet(FlattenSeq(ss)) = UNION {ToSet(ss[i]) : i \in DOMAIN ss}
  <2>1. FlattenSeq(ss) = ss /\ ss = <<>>
    BY <1>1 DEF FlattenSeq
  <2> QED
    BY <2>1 DEF ToSet
<1>2. ASSUME Len(ss) > 0
      PROVE  /\ FlattenSeq(ss) \in Seq(S)
             /\ ToSet(FlattenSeq(ss)) = UNION {ToSet(ss[i]) : i \in DOMAIN ss}
  <2> DEFINE n == Len(ss)
             f == CHOOSE g : Body(g, n)
  <2>0. n \in Nat /\ n > 0 /\ DOMAIN ss = 1..n /\ n = Len(ss)
        /\ \A i \in 1..n : ss[i] \in Seq(S)
    BY <1>2
  <2> HIDE DEF n
  <2>1. \A k \in 1..n : \E g : Body(g, k)
    <3> DEFINE Bad == {k \in 1..n : ~ \E g : Body(g, k)}
    <3>1. SUFFICES ASSUME Bad # {} PROVE FALSE
      OBVIOUS
    <3>2. PICK k \in Bad : \A j \in Bad : k <= j
      <4>1. Bad \subseteq Nat
        <5> HIDE DEF Body
        <5> QED
          BY <2>0
      <4> QED
        BY <3>1, <4>1, LeastElement
    <3>3. CASE k = 1
      <4> DEFINE g == [i \in 1..1 |-> ss[i]]
      <4>1. Body(g, 1)
        OBVIOUS
      <4> QED
        BY <3>2, <3>3, <4>1
    <3>4. CASE k # 1
      <4>1. k \in 1..n /\ k - 1 \in 1..n /\ k - 1 \notin Bad
        <5>1. k \in 1..n /\ k \in Bad
          BY <3>2
        <5>2. k - 1 \in 1..n /\ ~ (k <= k - 1)
          BY <5>1, <2>0, <3>4
        <5> QED
          BY <5>1, <5>2, <3>2
      <4>2. PICK g : Body(g, k - 1)
        BY <4>1
      <4> DEFINE h == [i \in 1..k |-> IF i = k THEN g[k - 1] \o ss[k]
                                     ELSE g[i]]
      <4>3. \A i \in 1..k : h[i] = IF i = 1 THEN ss[i]
                                   ELSE h[i - 1] \o ss[i]
        <5>1. \A i \in 1..(k - 1) : g[i] = IF i = 1 THEN ss[i]
                                           ELSE g[i - 1] \o ss[i]
          BY <4>2
        <5> QED
          BY <3>4, <4>1, <5>1
      <4>4. Body(h, k)
        BY <4>3
      <4> QED
        BY <4>4, <3>2
    <3> QED
      BY <3>3, <3>4
  <2>2. Body(f, n)
    <3> HIDE DEF Body
    <3>1. n \in 1..n
      BY <2>0
    <3>2. \E g : Body(g, n)
      BY <3>1, <2>1
    <3> QED
      BY <3>2 DEF f
  <2>3. \A i \in 1..n : f[i] = IF i = 1 THEN ss[i] ELSE f[i - 1] \o ss[i]
    BY <2>2
  <2>4. FlattenSeq(ss) = f[n]
    BY <2>0 DEF FlattenSeq
  <2> HIDE DEF f
  <2>5. \A k \in 1..n : Sound(f, k)
    <3> DEFINE Bad == {k \in 1..n : ~ Sound(f, k)}
    <3>1. SUFFICES ASSUME Bad # {} PROVE FALSE
      OBVIOUS
    <3>2. PICK k \in Bad : \A j \in Bad : k <= j
      <4>1. Bad \subseteq Nat
        BY <2>0
      <4> QED
        BY <3>1, <4>1, LeastElement
    <3>3. CASE k = 1
      <4>1. f[1] = ss[1] /\ ss[1] \in Seq(S)
        BY <2>0, <2>3, SMTT(30)
      <4>2. Upto(1) = ToSet(ss[1])
        OBVIOUS
      <4> QED
        BY <3>2, <3>3, <4>1, <4>2
    <3>4. CASE k # 1
      <4>1. k \in 1..n /\ k - 1 \in 1..n /\ Sound(f, k - 1)
        <5>1. k \in 1..n /\ k \in Bad
          BY <3>2
        <5>2. k - 1 \in 1..n /\ ~ (k <= k - 1)
          BY <5>1, <2>0, <3>4
        <5>3. k - 1 \notin Bad
          BY <5>2, <3>2
        <5> QED
          BY <5>1, <5>2, <5>3
      <4>2. f[k] = f[k - 1] \o ss[k] /\ ss[k] \in Seq(S)
        BY <2>0, <2>3, <3>4, <4>1
      <4>3. f[k] \in Seq(S) /\ ToSet(f[k]) = Upto(k - 1) \cup ToSet(ss[k])
        BY <4>1, <4>2, ElementsOfConcat
      <4>4. Upto(k) = Upto(k - 1) \cup ToSet(ss[k])
        <5>1. 1..k = (1..(k - 1)) \cup {k}
          BY <4>1
        <5> QED
          BY <5>1
      <4> QED
        BY <3>2, <4>3, <4>4
    <3> QED
      BY <3>3, <3>4
  <2>6. n \in 1..n
    BY <2>0
  <2>7. f[n] \in Seq(S) /\ ToSet(f[n]) = Upto(n)
    BY <2>5, <2>6
  <2> QED
    BY <2>0, <2>4, <2>7
<1> QED
  BY <1>1, <1>2

-----------------------------------------------------------------------------
(* What the normalizers keep of a resource                                 *)

Identity == {"iam_role", "iam_user"}

Kinds == {"attached_to", "assumes", "publicly_exposed", "accesses",
          "connects_to", "allows", "contains", "protects"}

\* What nothing at the resource takes back is so.
PublicUnlessDisputed(id) == Undisputed(id) => PublicStore(id)

\* The attributes an analysis of exposure may rest on are so of the resource.
TrueAttributes(raw, holds) ==
    /\ raw.type \in Roles.workload /\ "public_ip" \in holds
           => raw.type = "ec2_instance" /\ "public_ip" \in raw.facts
    /\ raw.type \in Roles.network_control /\ holds \cap INGRESS_ATTRIBUTES # {}
           => OpenToAll(raw.id)
    /\ raw.type \in Roles.storage \cup Roles.secrets \cup Roles.audit_log
           => (holds \cap _PUBLIC_EXPOSURE_ATTRIBUTES # {}
                  => PublicUnlessDisputed(raw.id))

\* So are the relationships a path may use.
TrueRelationship(raw, rel) ==
    /\ rel.kind \in Kinds
    /\ rel.kind = "attached_to" /\ raw.type \in Roles.workload
           => \E l \in raw.links :
                  l.to = rel.to /\ l.field \in {"security_group", "subnet"}
    /\ rel.kind = "assumes"
           => \/ ActsAs(raw.id, rel.to)
              \/ rel.to \in Range(AccountId) \cup Range(ServiceId)
    /\ rel.kind = "publicly_exposed"
           => /\ rel.to = "internet"
              /\ raw.type = "iam_role"
              /\ Undisputed(raw.id) => AnyoneMayAssume(raw.id)
    /\ rel.kind = "accesses"
           => Linked(raw.id, {"s3_bucket", "storage_account"}, rel.to)
    /\ rel.kind = "connects_to"
           => \E l \in raw.links :
                  l.to = rel.to /\ l.field = "route" /\ _is_internet_route(l)
    /\ raw.type = "aws_internet_gateway" => rel.kind = "attached_to"

Faithful(raw, g, n) ==
    /\ n.id = raw.id /\ n.type = raw.type
    /\ TrueAttributes(raw, n.holds)
    /\ \A rel \in n.rels : TrueRelationship(raw, rel)
    /\ IsFiniteSet(n.rels)
    /\ n.grants = IF raw.type = "iam_role"
                  THEN extract_access_grants(ReadDocuments(raw, g))
                  ELSE <<>>

LEMMA RoleTypes ==
    /\ Roles.workload = {"ec2_instance", "azure_virtual_machine"}
    /\ Roles.storage = {"s3_bucket", "rds_db_instance",
                        "azure_storage_account"}
    /\ Roles.identity = {"iam_role", "iam_user", "azure_principal"}
    /\ Roles.secrets = {"kms_key", "azure_key_vault"}
    /\ Roles.network_control = {"security_group",
                                "azure_network_security_group"}
    /\ Roles.audit_log = {"cloudtrail", "azure_activity_log_setting"}
    /\ DOMAIN Roles = {"workload", "storage", "identity", "secrets",
                       "network_control", "audit_log"}
BY DEF Roles

LEMMA FiniteImage ==
    ASSUME NEW S, IsFiniteSet(S), NEW f, DOMAIN f = S
    PROVE  IsFiniteSet({f[x] : x \in S})
PROOF
<1> DEFINE T == {f[x] : x \in S}
           h == [x \in S |-> f[x]]
<1>1. h \in Surjection(S, T)
  BY DEF Surjection
<1> QED
  BY <1>1, FS_Surjection

LEMMA FiniteUnion ==
    ASSUME NEW S, IsFiniteSet(S), NEW f, DOMAIN f = S,
           \A x \in S : IsFiniteSet(f[x])
    PROVE  IsFiniteSet(UNION {f[x] : x \in S})
PROOF
<1>1. IsFiniteSet({f[x] : x \in S})
  BY FiniteImage
<1> QED
  BY <1>1, FS_UNION

LEMMA RawIsRaw ==
    ASSUME estate \in Estates, NEW raw \in estate
    PROVE  /\ Raw(raw.id) = raw
           /\ raw \in CloudResource
           /\ IsFiniteSet(raw.links)
BY EstatesAssumption DEF IsEstate, Raw

\* Relationships that are made of links.
LEMMA EdgesOfLinks ==
    ASSUME NEW links, NEW kind
    PROVE  /\ \A rel \in Edges(links, kind) :
                  rel.kind = kind /\ \E l \in links : rel.to = l.to
           /\ IsFiniteSet(links) => IsFiniteSet(Edges(links, kind))
PROOF
<1>1. \A rel \in Edges(links, kind) :
          rel.kind = kind /\ \E l \in links : rel.to = l.to
  BY DEF Edges
<1>2. ASSUME IsFiniteSet(links)
      PROVE  IsFiniteSet(Edges(links, kind))
  <2> DEFINE f == [l \in links |-> [to |-> l.to, kind |-> kind]]
  <2>1. IsFiniteSet({f[l] : l \in links})
    BY <1>2, FiniteImage
  <2>2. {f[l] : l \in links} = Edges(links, kind)
    BY DEF Edges
  <2> QED
    BY <2>1, <2>2
<1> QED
  BY <1>1, <1>2

LEMMA FaithfulEc2 ==
    ASSUME estate \in Estates, NEW raw \in estate, NEW g,
           raw.type = "ec2_instance"
    PROVE  Faithful(raw, g, normalize(raw, g))
PROOF
<1> DEFINE n == normalize(raw, g)
           profile == Links(raw, "role")
           resolved == {l \in profile : ~ (g = "denied" /\ profile # {})
                                        /\ l.note = "resolved"}
           placed == Links(raw, "security_group") \cup Links(raw, "subnet")
<1>1. /\ Raw(raw.id) = raw
      /\ raw \in CloudResource
      /\ IsFiniteSet(raw.links)
  BY RawIsRaw
<1>2. n = normalize_ec2_instance(raw, g)
  BY DEF normalize
<1>3. /\ n.id = raw.id /\ n.type = raw.type
      /\ n.grants = <<>>
      /\ n.rels = Edges(placed, "attached_to") \cup Edges(resolved, "assumes")
      /\ "public_ip" \in n.holds => "public_ip" \in raw.facts
  BY <1>2 DEF normalize_ec2_instance, Resource, When
<1>4. IsFiniteSet(n.rels)
  <2>1. IsFiniteSet(placed) /\ IsFiniteSet(resolved)
    BY <1>1, FS_Union, FS_Subset DEF Links
  <2>2. /\ IsFiniteSet(Edges(placed, "attached_to"))
        /\ IsFiniteSet(Edges(resolved, "assumes"))
    <3> HIDE DEF placed, resolved
    <3> QED
      BY <2>1, EdgesOfLinks
  <2> QED
    BY <2>2, <1>3, FS_Union
<1>5. TrueAttributes(raw, n.holds)
  <2> HIDE DEF n
  <2> QED
    BY <1>3, RoleTypes DEF TrueAttributes
<1>6. ASSUME NEW rel \in n.rels
      PROVE  TrueRelationship(raw, rel)
  <2>1. CASE rel \in Edges(placed, "attached_to")
    <3>1. rel.kind = "attached_to" /\ \E l \in placed : rel.to = l.to
      BY <2>1, EdgesOfLinks
    <3> QED
      BY <3>1 DEF TrueRelationship, Kinds, Links
  <2>2. CASE rel \in Edges(resolved, "assumes")
    <3>1. rel.kind = "assumes" /\ \E l \in resolved : rel.to = l.to
      BY <2>2, EdgesOfLinks
    <3> QED
      BY <3>1, <1>1 DEF TrueRelationship, Kinds, Links, ActsAs
  <2> QED
    BY <2>1, <2>2, <1>3
<1> QED
  BY <1>3, <1>4, <1>5, <1>6 DEF Faithful

\* A resource none of whose attributes is evidence of exposure.
LEMMA NoEvidence ==
    ASSUME NEW raw, NEW holds,
           raw.type \notin UNION {Roles.workload, Roles.network_control,
                                 Roles.storage, Roles.secrets,
                                 Roles.audit_log}
    PROVE  TrueAttributes(raw, holds)
BY DEF TrueAttributes

\* A data bearing resource without an attribute that says it is public.
LEMMA NotPublic ==
    ASSUME NEW raw, NEW holds,
           raw.type \in Roles.storage \cup Roles.secrets \cup Roles.audit_log,
           holds \cap _PUBLIC_EXPOSURE_ATTRIBUTES = {}
    PROVE  TrueAttributes(raw, holds)
BY RoleTypes DEF TrueAttributes

\* Relationships no path uses.
LEMMA PlainRelationship ==
    ASSUME NEW raw, NEW rel,
           raw.type \notin Roles.workload \cup {"aws_internet_gateway"},
           rel.kind \in {"attached_to", "allows", "contains", "protects"}
    PROVE  TrueRelationship(raw, rel)
BY DEF TrueRelationship, Kinds

LEMMA FaithfulResource ==
    ASSUME NEW raw, NEW g, raw.type # "iam_role",
           NEW names, NEW derived, NEW unknown, NEW rels,
           TrueAttributes(raw, (raw.facts \cap names) \cup derived),
           IsFiniteSet(rels),
           \A rel \in rels : TrueRelationship(raw, rel)
    PROVE  Faithful(raw, g, Resource(raw, names, derived, unknown, rels))
BY DEF Faithful, Resource

\* The relationships made of some links of a resource.
LEMMA LinkRelationships ==
    ASSUME estate \in Estates, NEW raw \in estate,
           NEW links \in SUBSET raw.links, NEW kind
    PROVE  /\ IsFiniteSet(Edges(links, kind))
           /\ \A rel \in Edges(links, kind) :
                  rel.kind = kind /\ \E l \in links : l.to = rel.to
BY RawIsRaw, EdgesOfLinks, FS_Subset


\* The kinds of resource that relate to nothing and expose nothing.
LEMMA FaithfulSilent ==
    ASSUME NEW raw, NEW g,
           raw.type \in {"iam_user", "iam_account_summary", "aws_subnet",
                        "azure_principal", "azure_role_definition",
                        "azure_subscription"}
    PROVE  Faithful(raw, g, normalize(raw, g))
PROOF
<1>1. \A holds : TrueAttributes(raw, holds)
  BY NoEvidence, RoleTypes
<1>2. ASSUME NEW names, NEW derived
      PROVE  Faithful(raw, g, Resource(raw, names, derived, {}, {}))
  BY <1>1, FaithfulResource, FS_EmptySet
<1>3. CASE raw.type = "iam_user"
  <2>1. normalize(raw, g) = normalize_iam_user(raw)
    BY <1>3 DEF normalize
  <2> QED
    BY <2>1, <1>2 DEF normalize_iam_user
<1>4. CASE raw.type = "iam_account_summary"
  <2>1. normalize(raw, g) = normalize_iam_account_summary(raw)
    BY <1>4 DEF normalize
  <2> QED
    BY <2>1, <1>2 DEF normalize_iam_account_summary
<1>5. CASE raw.type = "aws_subnet"
  <2>1. normalize(raw, g) = normalize_subnet(raw)
    BY <1>5 DEF normalize
  <2> QED
    BY <2>1, <1>2 DEF normalize_subnet
<1>6. CASE raw.type = "azure_principal"
  <2>1. normalize(raw, g) = normalize_principal(raw)
    BY <1>6 DEF normalize
  <2> QED
    BY <2>1, <1>2 DEF normalize_principal
<1>7. CASE raw.type = "azure_role_definition"
  <2>1. normalize(raw, g) = normalize_role_definition(raw)
    BY <1>7 DEF normalize
  <2> QED
    BY <2>1, <1>2 DEF normalize_role_definition
<1>8. CASE raw.type = "azure_subscription"
  <2>1. normalize(raw, g) = normalize_subscription(raw)
    BY <1>8 DEF normalize
  <2> QED
    BY <2>1, <1>2 DEF normalize_subscription
<1> QED
  BY <1>3, <1>4, <1>5, <1>6, <1>7, <1>8

\* Those that relate to others but along no edge of a path.
LEMMA FaithfulVpc ==
    ASSUME estate \in Estates, NEW raw \in estate, NEW g,
           raw.type = "aws_vpc"
    PROVE  Faithful(raw, g, normalize(raw, g))
PROOF
<1> DEFINE subnets == {l \in Links(raw, "subnet") : g # "omitted"}
           rels == Edges(subnets, "contains")
<1>1. normalize(raw, g) = Resource(raw, {"is_default"}, {}, {}, rels)
  BY DEF normalize, normalize_vpc
<1>2. subnets \in SUBSET raw.links
  BY DEF Links
<1>3. IsFiniteSet(rels) /\ \A rel \in rels : TrueRelationship(raw, rel)
  BY <1>2, LinkRelationships, PlainRelationship, RoleTypes
<1>4. \A holds : TrueAttributes(raw, holds)
  BY NoEvidence, RoleTypes
<1> HIDE DEF rels
<1> QED
  BY <1>1, <1>3, <1>4, FaithfulResource

LEMMA FaithfulNetworkAcl ==
    ASSUME estate \in Estates, NEW raw \in estate, NEW g,
           raw.type = "aws_network_acl"
    PROVE  Faithful(raw, g, normalize(raw, g))
PROOF
<1> DEFINE rels == Edges(Links(raw, "association"), "protects")
<1>1. Links(raw, "association") \in SUBSET raw.links
  BY DEF Links
<1>2. IsFiniteSet(rels) /\ \A rel \in rels : TrueRelationship(raw, rel)
  BY <1>1, LinkRelationships, PlainRelationship, RoleTypes
<1>3. \A holds : TrueAttributes(raw, holds)
  BY NoEvidence, RoleTypes
<1>4. \E derived : normalize(raw, g)
                     = Resource(raw, {"is_default"}, derived, {}, rels)
  BY DEF normalize, normalize_network_acl
<1> HIDE DEF rels
<1> QED
  BY <1>2, <1>3, <1>4, FaithfulResource

LEMMA FaithfulRoleAssignment ==
    ASSUME estate \in Estates, NEW raw \in estate, NEW g,
           raw.type = "azure_role_assignment"
    PROVE  Faithful(raw, g, normalize(raw, g))
PROOF
<1> DEFINE parties == Links(raw, "principal") \cup
                      Links(raw, "role_definition")
           scope == Links(raw, "scope")
           rels == Edges(parties, "attached_to") \cup Edges(scope, "allows")
<1>1. parties \in SUBSET raw.links /\ scope \in SUBSET raw.links
  BY DEF Links
<1>2. /\ IsFiniteSet(Edges(parties, "attached_to"))
      /\ \A rel \in Edges(parties, "attached_to") :
             TrueRelationship(raw, rel)
  BY <1>1, LinkRelationships, PlainRelationship, RoleTypes
<1>3. /\ IsFiniteSet(Edges(scope, "allows"))
      /\ \A rel \in Edges(scope, "allows") : TrueRelationship(raw, rel)
  BY <1>1, LinkRelationships, PlainRelationship, RoleTypes
<1>4. IsFiniteSet(rels) /\ \A rel \in rels : TrueRelationship(raw, rel)
  BY <1>2, <1>3, FS_Union
<1>5. \A holds : TrueAttributes(raw, holds)
  BY NoEvidence, RoleTypes
<1>6. \E derived : normalize(raw, g) = Resource(raw, {}, derived, {}, rels)
  BY DEF normalize, normalize_role_assignment
<1> HIDE DEF rels
<1> QED
  BY <1>4, <1>5, <1>6, FaithfulResource

\* Those a path may end in, cross or be controlled by.
LEMMA FaithfulRds ==
    ASSUME estate \in Estates, NEW raw \in estate, NEW g,
           raw.type = "rds_db_instance"
    PROVE  Faithful(raw, g, normalize(raw, g))
PROOF
<1> DEFINE active == {l \in Links(raw, "security_group") : l.note = "active"}
           rels == Edges(active, "attached_to")
           names == {"publicly_accessible", "storage_encrypted", "multi_az",
                     "deletion_protection", "performance_insights_enabled",
                     "iam_database_authentication_enabled",
                     "auto_minor_version_upgrade"}
<1>1. active \in SUBSET raw.links
  BY DEF Links
<1>2. IsFiniteSet(rels) /\ \A rel \in rels : TrueRelationship(raw, rel)
  BY <1>1, LinkRelationships, PlainRelationship, RoleTypes
<1>3. ((raw.facts \cap names) \cup {}) \cap _PUBLIC_EXPOSURE_ATTRIBUTES = {}
  BY DEF _PUBLIC_EXPOSURE_ATTRIBUTES
<1>4. TrueAttributes(raw, (raw.facts \cap names) \cup {})
  BY <1>3, NotPublic, RoleTypes
<1>5. normalize(raw, g) = Resource(raw, names, {}, {}, rels)
  BY DEF normalize, normalize_rds_instance
<1> HIDE DEF rels, names
<1> QED
  BY <1>2, <1>4, <1>5, FaithfulResource

LEMMA FaithfulBucket ==
    ASSUME estate \in Estates, NEW raw \in estate, NEW g,
           raw.type = "s3_bucket"
    PROVE  Faithful(raw, g, normalize(raw, g))
PROOF
<1> DEFINE policies == Documents(raw)
           names == {"encrypted", "public", "public_access_block_enabled",
                     "versioning_enabled", "logging_enabled"}
           derived ==
               When("has_bucket_policy", policies # <<>>) \cup
               When("bucket_policy_allows_public_access",
                    \E d \in ToSet(policies) :
                        policy_allows_public_principal(d))
           holds == (raw.facts \cap names) \cup derived
<1>1. normalize(raw, g) = Resource(raw, names, derived, {}, {})
  BY DEF normalize, normalize_s3_bucket
<1>2. Raw(raw.id) = raw
  BY RawIsRaw
<1>3. ASSUME NEW d \in ToSet(policies), policy_allows_public_principal(d)
      PROVE  \E a \in ResourcePolicy(raw.id) :
                 /\ a.effect = "allow" /\ ~ a.conditioned
                 /\ ForEveryone(a, {"*", "AWS"})
  <2>1. ToSet(d) \subseteq ResourcePolicy(raw.id)
    BY <1>2 DEF Statements, ResourcePolicy
  <2> QED
    BY <1>3, <2>1 DEF ForEveryone, policy_allows_public_principal
<1>4. ASSUME holds \cap _PUBLIC_EXPOSURE_ATTRIBUTES # {},
             Undisputed(raw.id)
      PROVE  PublicStore(raw.id)
  <2>1. \/ "public" \in raw.facts
        \/ \E d \in ToSet(policies) : policy_allows_public_principal(d)
    BY <1>4 DEF _PUBLIC_EXPOSURE_ATTRIBUTES, When
  <2>2. "public" \in raw.facts
            => \E a \in ResourcePolicy(raw.id) :
                   /\ a.effect = "allow" /\ ~ a.conditioned
                   /\ ForEveryone(a, {"*", "AWS"})
    <3> SUFFICES ASSUME "public" \in raw.facts
                 PROVE  \E a \in ResourcePolicy(raw.id) :
                            /\ a.effect = "allow" /\ ~ a.conditioned
                            /\ ForEveryone(a, {"*", "AWS"})
      OBVIOUS
    <3> DEFINE everyone == {[type |-> "*", value |-> "*"]}
               acl == [effect |-> "allow", actions |-> {"s3:GetObject"},
                       not_actions |-> {}, resources |-> {},
                       inverted |-> FALSE, principals |-> everyone,
                       conditioned |-> FALSE]
    <3>1. acl \in ResourcePolicy(raw.id)
      BY <1>2 DEF ResourcePolicy, AclGrants
    <3>2. acl.effect = "allow" /\ acl.conditioned = FALSE
      OBVIOUS
    <3>3. \E p \in everyone : p.value = "*" /\ p.type \in {"*", "AWS"}
      OBVIOUS
    <3>4. ForEveryone(acl, {"*", "AWS"})
      BY <3>3 DEF ForEveryone
    <3> HIDE DEF acl
    <3> QED
      BY <3>1, <3>2, <3>4
  <2>3. AnyoneMay(raw.id, {"*", "AWS"})
    BY <1>3, <1>4, <2>1, <2>2 DEF AnyoneMay, Undisputed, Overrides
  <2> QED
    BY <1>2, <1>4, <2>3 DEF PublicStore, Undisputed
<1>5. TrueAttributes(raw, holds)
  <2> HIDE DEF holds
  <2> QED
    BY <1>4, RoleTypes DEF TrueAttributes, PublicUnlessDisputed
<1> HIDE DEF names, derived
<1> QED
  BY <1>1, <1>5, FaithfulResource, FS_EmptySet

LEMMA FaithfulSecurityGroup ==
    ASSUME estate \in Estates, NEW raw \in estate, NEW g,
           raw.type = "security_group"
    PROVE  Faithful(raw, g, normalize(raw, g))
PROOF
<1> DEFINE derived == analyze_ingress_rules(raw)
           holds == (raw.facts \cap {}) \cup derived
           rels == Edges(Links(raw, "group_pair"), "allows")
<1>1. normalize(raw, g) = Resource(raw, {}, derived, {}, rels)
  BY DEF normalize, normalize_security_group
<1>2. Raw(raw.id) = raw
  BY RawIsRaw
<1>3. Links(raw, "group_pair") \in SUBSET raw.links
  BY DEF Links
<1>4. IsFiniteSet(rels) /\ \A rel \in rels : TrueRelationship(raw, rel)
  BY <1>3, LinkRelationships, PlainRelationship, RoleTypes
<1>5. ASSUME derived # {}
      PROVE  OpenToAll(raw.id)
  <2>1. \E l \in Links(raw, "ingress") : l.to \in _UNRESTRICTED_CIDRS
    BY <1>5 DEF analyze_ingress_rules, When
  <2> QED
    BY <2>1, <1>2 DEF OpenToAll, Links, _UNRESTRICTED_CIDRS
<1>6. TrueAttributes(raw, holds)
  <2> HIDE DEF derived
  <2> QED
    BY <1>5, RoleTypes DEF TrueAttributes
<1> HIDE DEF derived, rels
<1> QED
  BY <1>1, <1>4, <1>6, FaithfulResource

LEMMA FaithfulTrail ==
    ASSUME estate \in Estates, NEW raw \in estate, NEW g,
           raw.type = "cloudtrail"
    PROVE  Faithful(raw, g, normalize(raw, g))
PROOF
<1> DEFINE names == {"is_multi_region_trail", "log_file_validation_enabled",
                     "is_logging"}
           rels == Edges(Links(raw, "s3_bucket"), "accesses")
<1>1. normalize(raw, g) = Resource(raw, names, {}, {}, rels)
  BY DEF normalize, normalize_cloudtrail_trail
<1>2. Raw(raw.id) = raw
  BY RawIsRaw
<1>3. Links(raw, "s3_bucket") \in SUBSET raw.links
  BY DEF Links
<1>4. ASSUME NEW rel \in rels
      PROVE  TrueRelationship(raw, rel)
  <2>1. rel.kind = "accesses" /\ \E l \in Links(raw, "s3_bucket") : l.to = rel.to
    BY <1>3, LinkRelationships
  <2> QED
    BY <2>1, <1>2 DEF TrueRelationship, Kinds, Linked, Links
<1>5. IsFiniteSet(rels)
  BY <1>3, LinkRelationships
<1>6. ((raw.facts \cap names) \cup {}) \cap _PUBLIC_EXPOSURE_ATTRIBUTES = {}
  BY DEF _PUBLIC_EXPOSURE_ATTRIBUTES
<1>7. TrueAttributes(raw, (raw.facts \cap names) \cup {})
  BY <1>6, NotPublic, RoleTypes
<1> HIDE DEF rels, names
<1> QED
  BY <1>1, <1>4, <1>5, <1>7, FaithfulResource

LEMMA FaithfulKey ==
    ASSUME estate \in Estates, NEW raw \in estate, NEW g,
           raw.type = "kms_key"
    PROVE  Faithful(raw, g, normalize(raw, g))
PROOF
<1>1. PICK derived \in SUBSET {"key_policy_allows_public_access"} :
          normalize(raw, g)
              = Resource(raw, {"rotation_enabled"}, derived, {}, {})
  <2> DEFINE derived == When("key_policy_allows_public_access",
                             \E d \in ToSet(Documents(raw)) :
                                 policy_allows_public_principal(d))
  <2>1. derived \in SUBSET {"key_policy_allows_public_access"}
    BY DEF When
  <2>2. normalize(raw, g)
            = Resource(raw, {"rotation_enabled"}, derived, {}, {})
    BY DEF normalize, normalize_kms_key
  <2> HIDE DEF derived
  <2> QED
    BY <2>1, <2>2
<1>2. ((raw.facts \cap {"rotation_enabled"}) \cup derived)
          \cap _PUBLIC_EXPOSURE_ATTRIBUTES = {}
  BY DEF _PUBLIC_EXPOSURE_ATTRIBUTES
<1>3. TrueAttributes(raw, (raw.facts \cap {"rotation_enabled"}) \cup derived)
  BY <1>2, NotPublic, RoleTypes
<1> QED
  BY <1>1, <1>3, FaithfulResource, FS_EmptySet

LEMMA FaithfulRouteTable ==
    ASSUME estate \in Estates, NEW raw \in estate, NEW g,
           raw.type = "aws_route_table"
    PROVE  Faithful(raw, g, normalize(raw, g))
PROOF
<1> DEFINE internet == {l \in Links(raw, "route") : _is_internet_route(l)}
           associated == Links(raw, "association")
           rels == Edges(internet, "connects_to") \cup
                   Edges(associated, "attached_to")
           derived == When("has_internet_route", internet # {})
<1>1. normalize(raw, g) = Resource(raw, {"is_main"}, derived, {}, rels)
  BY DEF normalize, normalize_route_table
<1>2. internet \in SUBSET raw.links /\ associated \in SUBSET raw.links
  BY DEF Links
<1>3. /\ IsFiniteSet(Edges(associated, "attached_to"))
      /\ \A rel \in Edges(associated, "attached_to") :
             TrueRelationship(raw, rel)
  BY <1>2, LinkRelationships, PlainRelationship, RoleTypes
<1>4. ASSUME NEW rel \in Edges(internet, "connects_to")
      PROVE  TrueRelationship(raw, rel)
  <2>1. rel.kind = "connects_to" /\ \E l \in internet : l.to = rel.to
    BY <1>2, LinkRelationships
  <2> QED
    BY <2>1 DEF TrueRelationship, Kinds, Links
<1>5. IsFiniteSet(Edges(internet, "connects_to"))
  BY <1>2, LinkRelationships
<1>6. IsFiniteSet(rels) /\ \A rel \in rels : TrueRelationship(raw, rel)
  BY <1>3, <1>4, <1>5, FS_Union
<1>7. \A holds : TrueAttributes(raw, holds)
  BY NoEvidence, RoleTypes
<1> HIDE DEF rels, derived
<1> QED
  BY <1>1, <1>6, <1>7, FaithfulResource

LEMMA FaithfulGateway ==
    ASSUME estate \in Estates, NEW raw \in estate, NEW g,
           raw.type = "aws_internet_gateway"
    PROVE  Faithful(raw, g, normalize(raw, g))
PROOF
<1> DEFINE attached == {l \in Links(raw, "attachment") : l.note = "available"}
           rels == Edges(attached, "attached_to")
           derived == When("is_attached", attached # {})
<1>1. normalize(raw, g) = Resource(raw, {}, derived, {}, rels)
  BY DEF normalize, normalize_internet_gateway
<1>2. attached \in SUBSET raw.links
  BY DEF Links
<1>3. /\ IsFiniteSet(rels)
      /\ \A rel \in rels : rel.kind = "attached_to"
  <2> HIDE DEF attached
  <2> QED
    BY <1>2, LinkRelationships
<1>4. \A rel \in rels : TrueRelationship(raw, rel)
  BY <1>3, RoleTypes DEF TrueRelationship, Kinds
<1>5. \A holds : TrueAttributes(raw, holds)
  BY NoEvidence, RoleTypes
<1> HIDE DEF rels, derived
<1> QED
  BY <1>1, <1>3, <1>4, <1>5, FaithfulResource

LEMMA FaithfulMachine ==
    ASSUME estate \in Estates, NEW raw \in estate, NEW g,
           raw.type = "azure_virtual_machine"
    PROVE  Faithful(raw, g, normalize(raw, g))
PROOF
<1> DEFINE groups == {l \in Links(raw, "security_group") : g # "omitted"}
           rels == Edges(groups, "attached_to")
           names == {"system_assigned_identity_enabled",
                     "managed_disk_encryption_enabled"} \cup
                    When("public_ip_address", g # "omitted")
<1>1. normalize(raw, g) = Resource(raw, names, {}, {}, rels)
  BY DEF normalize, normalize_virtual_machine
<1>2. groups \in SUBSET raw.links
  BY DEF Links
<1>3. ASSUME NEW rel \in rels
      PROVE  TrueRelationship(raw, rel)
  <2>1. rel.kind = "attached_to" /\ \E l \in groups : l.to = rel.to
    BY <1>2, LinkRelationships
  <2> QED
    BY <2>1 DEF TrueRelationship, Kinds, Links
<1>4. IsFiniteSet(rels)
  BY <1>2, LinkRelationships
<1>5. "public_ip" \notin (raw.facts \cap names) \cup {}
  BY DEF When
<1>6. TrueAttributes(raw, (raw.facts \cap names) \cup {})
  BY <1>5, RoleTypes DEF TrueAttributes
<1> HIDE DEF rels, names
<1> QED
  BY <1>1, <1>3, <1>4, <1>6, FaithfulResource

LEMMA FaithfulVault ==
    ASSUME estate \in Estates, NEW raw \in estate, NEW g,
           raw.type = "azure_key_vault"
    PROVE  Faithful(raw, g, normalize(raw, g))
PROOF
<1> DEFINE names == {"soft_delete_enabled", "purge_protection_enabled",
                     "rbac_authorization_enabled",
                     "public_network_access_enabled"}
<1>1. normalize(raw, g) = Resource(raw, names, {}, {}, {})
  BY DEF normalize, normalize_key_vault
<1>2. ASSUME ((raw.facts \cap names) \cup {})
                 \cap _PUBLIC_EXPOSURE_ATTRIBUTES # {}
      PROVE  PublicUnlessDisputed(raw.id)
  <2>1. "public_network_access_enabled" \in raw.facts
    BY <1>2 DEF _PUBLIC_EXPOSURE_ATTRIBUTES
  <2> QED
    BY <2>1, RawIsRaw DEF PublicStore, PublicUnlessDisputed
<1> HIDE DEF names
<1>3. TrueAttributes(raw, (raw.facts \cap names) \cup {})
  BY <1>2, RoleTypes DEF TrueAttributes
<1> QED
  BY <1>1, <1>3, FaithfulResource, FS_EmptySet

LEMMA FaithfulActivityLog ==
    ASSUME estate \in Estates, NEW raw \in estate, NEW g,
           raw.type = "azure_activity_log_setting"
    PROVE  Faithful(raw, g, normalize(raw, g))
PROOF
<1> DEFINE storage == Links(raw, "storage_account")
           rels == Edges(storage, "accesses")
           derived == When("has_any_destination",
                           storage # {} \/ Links(raw, "workspace") # {})
<1>1. normalize(raw, g) = Resource(raw, {}, derived, {}, rels)
  BY DEF normalize, normalize_activity_log_setting
<1>2. Raw(raw.id) = raw
  BY RawIsRaw
<1>3. storage \in SUBSET raw.links
  BY DEF Links
<1>4. ASSUME NEW rel \in rels
      PROVE  TrueRelationship(raw, rel)
  <2>1. rel.kind = "accesses" /\ \E l \in storage : l.to = rel.to
    BY <1>3, LinkRelationships
  <2> QED
    BY <2>1, <1>2 DEF TrueRelationship, Kinds, Linked, Links
<1>5. IsFiniteSet(rels)
  BY <1>3, LinkRelationships
<1>6. ((raw.facts \cap {}) \cup derived) \cap _PUBLIC_EXPOSURE_ATTRIBUTES = {}
  BY DEF _PUBLIC_EXPOSURE_ATTRIBUTES, When
<1>7. TrueAttributes(raw, (raw.facts \cap {}) \cup derived)
  BY <1>6, NotPublic, RoleTypes
<1> HIDE DEF rels, derived
<1> QED
  BY <1>1, <1>4, <1>5, <1>7, FaithfulResource

LEMMA FaithfulAzureGroup ==
    ASSUME estate \in Estates, NEW raw \in estate, NEW g,
           raw.type = "azure_network_security_group"
    PROVE  Faithful(raw, g, normalize(raw, g))
PROOF
<1> DEFINE derived == analyze_security_rules(raw)
<1>1. normalize(raw, g) = Resource(raw, {}, derived, {}, {})
  BY DEF normalize, normalize_network_security_group
<1>2. Raw(raw.id) = raw
  BY RawIsRaw
<1>3. ASSUME derived # {}
      PROVE  OpenToAll(raw.id)
  <2>1. \E l \in Links(raw, "rule") :
            /\ l.to \in _UNRESTRICTED_SOURCES
            /\ l.note \in {"inbound allow port", "inbound allow range"}
    BY <1>3 DEF analyze_security_rules, When
  <2> QED
    BY <2>1, <1>2 DEF OpenToAll, Links, _UNRESTRICTED_SOURCES
<1> HIDE DEF derived
<1>4. TrueAttributes(raw, (raw.facts \cap {}) \cup derived)
  BY <1>3, RoleTypes DEF TrueAttributes
<1> QED
  BY <1>1, <1>4, FaithfulResource, FS_EmptySet

LEMMA FaithfulStorage ==
    ASSUME estate \in Estates, NEW raw \in estate, NEW g,
           raw.type = "azure_storage_account"
    PROVE  Faithful(raw, g, normalize(raw, g))
PROOF
<1> DEFINE names == {"https_only", "allow_blob_public_access",
                     "infrastructure_encryption_enabled",
                     "blob_soft_delete_enabled"}
<1>1. normalize(raw, g) = Resource(raw, names, {}, {}, {})
  BY DEF normalize, normalize_storage_account
<1>2. ((raw.facts \cap names) \cup {}) \cap _PUBLIC_EXPOSURE_ATTRIBUTES = {}
  BY DEF _PUBLIC_EXPOSURE_ATTRIBUTES
<1> HIDE DEF names
<1>3. TrueAttributes(raw, (raw.facts \cap names) \cup {})
  BY <1>2, NotPublic, RoleTypes
<1> QED
  BY <1>1, <1>3, FaithfulResource, FS_EmptySet

\* A role is trusted by whom its trust policy names, and public only when a
\* statement of it lets everyone in.
LEMMA TrustRelationships ==
    ASSUME estate \in Estates, NEW raw \in estate,
           raw.type = "iam_role",
           NEW rel \in RoleRelationships(analyze_trust_policy(raw.trust,
                                                              OwnAccount))
    PROVE  TrueRelationship(raw, rel)
PROOF
<1> DEFINE trust == analyze_trust_policy(raw.trust, OwnAccount)
<1>1. /\ Raw(raw.id) = raw
      /\ raw \in CloudResource
  BY RawIsRaw
<1>2. ToSet(raw.trust) \subseteq PolicyStatement
  BY <1>1 DEF CloudResource, ToSet
<1>3. \A s \in ToSet(raw.trust) : s.principals \subseteq Principal
  BY <1>2 DEF PolicyStatement
<1>4. trust.external_accounts \subseteq DOMAIN AccountId
  BY <1>3 DEF analyze_trust_policy, parse_statements, Principal, OwnAccount,
      PrincipalTypes
<1>5. trust.service_principals \subseteq DOMAIN ServiceId
  BY <1>3 DEF analyze_trust_policy, parse_statements, Principal, OwnAccount,
      PrincipalTypes
<1>6. ASSUME trust.is_publicly_assumable, Undisputed(raw.id)
      PROVE  AnyoneMayAssume(raw.id)
  <2>1. ASSUME NEW s \in ToSet(raw.trust), NEW p \in s.principals
        PROVE  p.type \in PrincipalTypes
    BY <1>3 DEF Principal, PrincipalTypes
  <2>2. ResourcePolicy(raw.id) = ToSet(raw.trust)
    BY <1>1 DEF ResourcePolicy
  <2>3. PICK s \in ToSet(raw.trust) :
            /\ s.effect = "allow" /\ ~ s.conditioned
            /\ \E p \in s.principals : p.value = "*"
    BY <1>6 DEF analyze_trust_policy, parse_statements
  <2>4. ForEveryone(s, PrincipalTypes)
    BY <2>1, <2>3 DEF ForEveryone
  <2>5. \A d \in ResourcePolicy(raw.id) : ~ Overrides(d, s)
    BY <1>6 DEF Undisputed, Overrides
  <2> QED
    BY <2>2, <2>3, <2>4, <2>5 DEF AnyoneMayAssume, AnyoneMay
<1> HIDE DEF trust
<1>7. \/ rel.kind = "assumes" /\ rel.to \in Range(AccountId)
      \/ rel.kind = "assumes" /\ rel.to \in Range(ServiceId)
      \/ /\ rel.kind = "publicly_exposed" /\ rel.to = "internet"
         /\ trust.is_publicly_assumable
  <2>1. rel \in RoleRelationships(trust)
    BY DEF trust
  <2> QED
    BY <2>1, <1>4, <1>5 DEF RoleRelationships, Range, When
<1> QED
  BY <1>6, <1>7, RoleTypes DEF TrueRelationship, Kinds

LEMMA FiniteTrust ==
    ASSUME NEW raw \in CloudResource
    PROVE  IsFiniteSet(RoleRelationships(analyze_trust_policy(raw.trust,
                                                              OwnAccount)))
PROOF
<1> DEFINE trust == analyze_trust_policy(raw.trust, OwnAccount)
           accounts == [a \in trust.external_accounts |->
                           [to |-> AccountId[a], kind |-> "assumes"]]
           services == [s \in trust.service_principals |->
                           [to |-> ServiceId[s], kind |-> "assumes"]]
           public == [x \in When("public", trust.is_publicly_assumable) |->
                         [to |-> "internet", kind |-> "publicly_exposed"]]
<1>1. ToSet(raw.trust) \subseteq PolicyStatement
  BY DEF CloudResource, ToSet
<1>2. \A s \in ToSet(raw.trust) : s.principals \subseteq Principal
  BY <1>1 DEF PolicyStatement
<1>3. trust.external_accounts \subseteq {"other"}
  BY <1>2 DEF analyze_trust_policy, parse_statements, Principal, OwnAccount,
      PrincipalTypes, AccountId
<1>4. trust.service_principals \subseteq {"ec2"}
  BY <1>2 DEF analyze_trust_policy, parse_statements, Principal, OwnAccount,
      PrincipalTypes, ServiceId
<1>5. When("public", trust.is_publicly_assumable) \subseteq {"public"}
  BY DEF When
<1> HIDE DEF trust
<1>6. /\ IsFiniteSet(trust.external_accounts)
      /\ IsFiniteSet(trust.service_principals)
      /\ IsFiniteSet(When("public", trust.is_publicly_assumable))
  BY <1>3, <1>4, <1>5, FS_Singleton, FS_Subset
<1> DEFINE A == {accounts[a] : a \in trust.external_accounts}
           B == {services[s] : s \in trust.service_principals}
           C == {public[x] : x \in When("public",
                                        trust.is_publicly_assumable)}
<1>7. IsFiniteSet(A)
  BY <1>6, FiniteImage
<1>8. IsFiniteSet(B)
  BY <1>6, FiniteImage
<1>9. IsFiniteSet(C)
  BY <1>6, FiniteImage
<1>10. RoleRelationships(trust) = (A \cup B) \cup C
  BY DEF RoleRelationships
<1> HIDE DEF A, B, C
<1>11. IsFiniteSet(A \cup B)
  BY <1>7, <1>8, FS_Union
<1>12. IsFiniteSet(RoleRelationships(trust))
  BY <1>9, <1>10, <1>11, FS_Union
<1> QED
  BY <1>12 DEF trust

LEMMA FaithfulRole ==
    ASSUME estate \in Estates, NEW raw \in estate, NEW g,
           raw.type = "iam_role"
    PROVE  Faithful(raw, g, normalize(raw, g))
PROOF
<1> DEFINE n == normalize(raw, g)
           trust == analyze_trust_policy(raw.trust, OwnAccount)
<1>1. raw \in CloudResource
  BY RawIsRaw
<1>2. n = normalize_iam_role(raw, g)
  BY DEF normalize
<1>3. /\ n.id = raw.id /\ n.type = raw.type
      /\ n.rels = RoleRelationships(trust)
      /\ n.grants = extract_access_grants(ReadDocuments(raw, g))
  BY <1>2 DEF normalize_iam_role, Resource
<1>4. \A rel \in n.rels : TrueRelationship(raw, rel)
  BY <1>3, TrustRelationships
<1>5. IsFiniteSet(n.rels)
  BY <1>1, <1>3, FiniteTrust
<1> HIDE DEF n
<1>6. TrueAttributes(raw, n.holds)
  BY NoEvidence, RoleTypes
<1> QED
  BY <1>3, <1>4, <1>5, <1>6 DEF Faithful, n

\* Whatever could not be read of a resource, what the scan has of it is so.
LEMMA NormalizersAreFaithful ==
    ASSUME estate \in Estates, NEW raw \in estate, NEW g
    PROVE  Faithful(raw, g, normalize(raw, g))
PROOF
<1>1. raw.type \in CollectedTypes
  BY RawIsRaw DEF CloudResource
<1>2. CASE raw.type \in {"iam_user", "iam_account_summary", "aws_subnet",
                         "azure_principal", "azure_role_definition",
                         "azure_subscription"}
  BY <1>2, FaithfulSilent
<1>3. CASE raw.type \in {"ec2_instance", "rds_db_instance", "s3_bucket",
                         "security_group", "cloudtrail", "kms_key",
                         "iam_role"}
  BY <1>3, FaithfulEc2, FaithfulRds, FaithfulBucket, FaithfulSecurityGroup,
     FaithfulTrail, FaithfulKey, FaithfulRole
<1>4. CASE raw.type \in {"aws_vpc", "aws_route_table",
                         "aws_internet_gateway", "aws_network_acl"}
  BY <1>4, FaithfulVpc, FaithfulRouteTable, FaithfulGateway,
     FaithfulNetworkAcl
<1>5. CASE raw.type \in {"azure_role_assignment", "azure_virtual_machine",
                         "azure_key_vault", "azure_activity_log_setting",
                         "azure_network_security_group",
                         "azure_storage_account"}
  BY <1>5, FaithfulRoleAssignment, FaithfulMachine, FaithfulVault,
     FaithfulActivityLog, FaithfulAzureGroup, FaithfulStorage
<1> QED
  BY <1>1, <1>2, <1>3, <1>4, <1>5 DEF CollectedTypes

-----------------------------------------------------------------------------
(* Grants and what they say of a resource                                  *)

GrantOf(s) == [effect |-> s.effect, resources |-> s.resources,
               has_condition |-> s.conditioned,
               inverted_resources |-> s.inverted]

Speaks(s) == s.effect # "malformed" /\ s.actions \cup s.not_actions # {}

LEMMA ElementsOfAll ==
    ASSUME NEW documents
    PROVE  UNION {ToSet(d) : d \in ToSet(documents)}
               = UNION {ToSet(documents[i]) : i \in DOMAIN documents}
PROOF
<1>1. ToSet(documents) = {documents[i] : i \in DOMAIN documents}
  BY DEF ToSet
<1> QED
  BY <1>1

\* The grants are those of the statements that name actions.
LEMMA GrantsOfStatements ==
    ASSUME NEW documents \in Seq(Seq(PolicyStatement))
    PROVE  LET grants == extract_access_grants(documents)
               statements == UNION {ToSet(d) : d \in ToSet(documents)}
           IN /\ \A i \in DOMAIN grants :
                     \E s \in statements : Speaks(s) /\ grants[i] = GrantOf(s)
              /\ \A s \in statements :
                     Speaks(s) => \E i \in DOMAIN grants :
                                      grants[i] = GrantOf(s)
PROOF
<1> DEFINE all == FlattenSeq(documents)
           statements == UNION {ToSet(d) : d \in ToSet(documents)}
           places == {i \in DOMAIN all :
                         /\ all[i].effect # "malformed"
                         /\ all[i].actions # {} \/ all[i].not_actions # {}}
           grants == extract_access_grants(documents)
<1>1. ToSet(all) = UNION {ToSet(documents[i]) : i \in DOMAIN documents}
  BY Flattened
<1>2. ToSet(all) = statements
  BY <1>1, ElementsOfAll
<1>3. /\ DOMAIN grants = places
      /\ \A i \in places : grants[i] = GrantOf(all[i])
  BY DEF extract_access_grants, GrantOf
<1> HIDE DEF all, grants, statements
<1>4. \A i \in DOMAIN all : i \in places <=> Speaks(all[i])
  BY DEF Speaks
<1>5. \A i \in DOMAIN all : all[i] \in statements
  BY <1>2 DEF ToSet
<1>6. \A s \in statements : \E i \in DOMAIN all : s = all[i]
  BY <1>2 DEF ToSet
<1> QED
  BY <1>3, <1>4, <1>5, <1>6 DEF all, grants, statements

LEMMA ReadDocumentsAre ==
    ASSUME NEW raw \in CloudResource, NEW g
    PROVE  /\ ReadDocuments(raw, g) \in Seq(Seq(PolicyStatement))
           /\ DOMAIN ReadDocuments(raw, g) = DOMAIN raw.documents
           /\ \A i \in DOMAIN raw.documents :
                  /\ ReadDocuments(raw, g)[i]
                         \in {<<>>, raw.documents[i].statements}
                  /\ g = "none" => ReadDocuments(raw, g)[i]
                                       = raw.documents[i].statements
                  /\ g \notin {"none", "omitted"}
                         => ReadDocuments(raw, g)[i] = <<>>
PROOF
<1>1. raw.documents \in Seq(PolicyDocument)
  BY DEF CloudResource
<1>2. \A i \in DOMAIN raw.documents :
          raw.documents[i].statements \in Seq(PolicyStatement)
  <2>1. \A i \in DOMAIN raw.documents : raw.documents[i] \in PolicyDocument
    BY <1>1
  <2> QED
    BY <2>1 DEF PolicyDocument
<1>3. PICK n \in Nat : DOMAIN raw.documents = 1..n
  BY <1>1
<1> QED
  BY <1>2, <1>3 DEF ReadDocuments

\* What was read of the policies is part of them.
LEMMA ReadStatementsAre ==
    ASSUME estate \in Estates, NEW raw \in estate
    PROVE  /\ ReadStatements(raw.id) \subseteq Statements(raw.id)
           /\ gap[raw.id] = "none"
                  => ReadStatements(raw.id) = Statements(raw.id)
           /\ gap[raw.id] \notin {"none", "omitted"}
                  => ReadStatements(raw.id) = {}
PROOF
<1> DEFINE read == ReadDocuments(raw, gap[raw.id])
<1>1. Raw(raw.id) = raw /\ raw \in CloudResource
  BY RawIsRaw
<1>2. Statements(raw.id) = UNION {ToSet(raw.documents[i].statements) :
                                      i \in DOMAIN raw.documents}
  <2>1. /\ DOMAIN Documents(raw) = DOMAIN raw.documents
        /\ \A i \in DOMAIN raw.documents :
               Documents(raw)[i] = raw.documents[i].statements
    BY DEF Documents
  <2>2. Statements(raw.id) = UNION {ToSet(Documents(raw)[i]) :
                                        i \in DOMAIN Documents(raw)}
    BY <1>1, ElementsOfAll DEF Statements
  <2> QED
    BY <2>1, <2>2
<1>3. DOMAIN read = DOMAIN raw.documents
  BY <1>1, ReadDocumentsAre
<1>4. ReadStatements(raw.id) = UNION {ToSet(read[i]) :
                                          i \in DOMAIN raw.documents}
  BY <1>1, <1>3, ElementsOfAll DEF ReadStatements
<1>5. \A i \in DOMAIN raw.documents :
          /\ ToSet(read[i]) \subseteq ToSet(raw.documents[i].statements)
          /\ gap[raw.id] = "none"
                 => ToSet(read[i]) = ToSet(raw.documents[i].statements)
          /\ gap[raw.id] \notin {"none", "omitted"} => ToSet(read[i]) = {}
  <2>1. ToSet(<<>>) = {}
    BY DEF ToSet
  <2> QED
    BY <1>1, <2>1, ReadDocumentsAre
<1> HIDE DEF read
<1> QED
  BY <1>2, <1>4, <1>5

LEMMA GrantNames ==
    ASSUME NEW s, NEW id, Speaks(s)
    PROVE  grant_matches_resource(GrantOf(s), id) <=> NamesOutright(s, id)
PROOF
<1>1. grant_matches_resource(GrantOf(s), id)
          <=> /\ ~ s.inverted
              /\ \E p \in s.resources :
                     p.shape \in {"literal", "prefix*"} /\ id \in p.ids
  BY DEF grant_matches_resource, MatchingPatterns, GrantOf, classify_pattern
<1>2. (\E p \in s.resources : id \in p.ids)
          <=> id \in UNION {p.ids : p \in s.resources}
  OBVIOUS
<1> QED
  BY <1>1, <1>2 DEF NamesOutright, Covers, Speaks

\* A statement all of whose patterns name what they select covers nothing
\* else.
LEMMA SpecificNames ==
    ASSUME NEW s, NEW id, Specific(s), Covers(s, id)
    PROVE  NamesOutright(s, id)
PROOF
<1>1. ~ s.inverted /\ id \in UNION {p.ids : p \in s.resources}
  BY DEF Specific, Covers
<1>2. PICK p \in s.resources : id \in p.ids
  BY <1>1
<1> QED
  BY <1>1, <1>2 DEF Specific, NamesOutright

Confidences == {"high", "medium", "low"}

RoleGrants(raw) == extract_access_grants(ReadDocuments(raw, gap[raw.id]))

\* An access edge is derived exactly where the policies that were read name
\* the resource and no Deny among them does.
LEMMA DerivedAccess ==
    ASSUME estate \in Estates, NEW raw \in estate, NEW candidates
    PROVE  /\ \A a \in derive_access_edges(RoleGrants(raw), candidates) :
                  /\ a.to \in candidates
                  /\ a.confidence \in Confidences
                  /\ Reaches(raw.id, a.to)
           /\ \A id \in candidates :
                  gap[raw.id] = "none" /\ ClearlyGrants(raw.id, id)
                      => \E a \in derive_access_edges(RoleGrants(raw),
                                                      candidates) : a.to = id
PROOF
<1> DEFINE read == ReadDocuments(raw, gap[raw.id])
           grants == RoleGrants(raw)
           Matching(effect, id) ==
               {i \in DOMAIN grants :
                   grants[i].effect = effect
                   /\ grant_matches_resource(grants[i], id)}
           reached == {id \in candidates : Matching("allow", id) # {}
                                           /\ Matching("deny", id) = {}}
           Exact(id) == {i \in Matching("allow", id) :
                           EvidenceOf(grants[i], id) = "exact"}
           Best(id) == grants[Min(IF Exact(id) # {} THEN Exact(id)
                                  ELSE Matching("allow", id))]
           derived == derive_access_edges(grants, candidates)
<1>1. raw \in CloudResource /\ Raw(raw.id) = raw
  BY RawIsRaw
<1>2. read \in Seq(Seq(PolicyStatement))
  BY <1>1, ReadDocumentsAre
<1>3. ReadStatements(raw.id) = UNION {ToSet(d) : d \in ToSet(read)}
  BY <1>1 DEF ReadStatements
<1>4. /\ \A i \in DOMAIN grants :
             \E s \in ReadStatements(raw.id) :
                 Speaks(s) /\ grants[i] = GrantOf(s)
      /\ \A s \in ReadStatements(raw.id) :
             Speaks(s) => \E i \in DOMAIN grants : grants[i] = GrantOf(s)
  BY <1>2, <1>3, GrantsOfStatements DEF RoleGrants
<1>5. derived = {[to |-> id, confidence |-> ConfidenceOf(Best(id), id)] :
                     id \in reached}
  BY DEF derive_access_edges
<1>6. \A x, id : ConfidenceOf(x, id) \in Confidences
  <2>1. \A x, id : EvidenceOf(x, id) \in {"exact", "broad"}
    BY DEF EvidenceOf
  <2> QED
    BY <2>1 DEF ConfidenceOf, Confidences
<1> HIDE DEF Best, reached, derived
<1>9. /\ \A a \in derived : a.to \in reached /\ a.confidence \in Confidences
      /\ \A id \in reached : \E a \in derived : a.to = id
  <2>1. ASSUME NEW a \in derived
        PROVE  a.to \in reached /\ a.confidence \in Confidences
    <3>1. PICK id \in reached :
              a = [to |-> id, confidence |-> ConfidenceOf(Best(id), id)]
      BY <1>5
    <3> QED
      BY <3>1, <1>6
  <2>2. ASSUME NEW id \in reached
        PROVE  \E a \in derived : a.to = id
    <3>1. [to |-> id, confidence |-> ConfidenceOf(Best(id), id)] \in derived
      BY <1>5
    <3> QED
      BY <3>1
  <2> QED
    BY <2>1, <2>2
<1> USE DEF reached
<1> HIDE DEF derived, grants, read
<1>7. ASSUME NEW id \in reached
      PROVE  Reaches(raw.id, id)
  <2>1. PICK i \in DOMAIN grants :
            grants[i].effect = "allow"
            /\ grant_matches_resource(grants[i], id)
    BY <1>7
  <2>2. PICK s \in ReadStatements(raw.id) :
            Speaks(s) /\ grants[i] = GrantOf(s)
    BY <1>4
  <2>3. s.effect = "allow" /\ NamesOutright(s, id)
    BY <2>1, <2>2, GrantNames DEF GrantOf
  <2>4. ASSUME NEW d \in ReadStatements(raw.id), d.effect = "deny",
               NamesOutright(d, id)
        PROVE  FALSE
    <3>1. Speaks(d)
      BY <2>4 DEF NamesOutright, Covers, Speaks
    <3>2. PICK j \in DOMAIN grants : grants[j] = GrantOf(d)
      BY <1>4, <3>1
    <3>3. j \in Matching("deny", id)
      BY <2>4, <3>1, <3>2, GrantNames DEF GrantOf
    <3> QED
      BY <1>7, <3>3
  <2> DEFINE judged == {x \in ReadStatements(raw.id) :
                           x.effect = "deny" => Specific(x)}
  <2>5. s \in judged /\ Covers(s, id)
    BY <2>3 DEF NamesOutright
  <2>6. ASSUME NEW d \in judged, Covers(d, id)
        PROVE  ~ Overrides(d, s)
    BY <2>4, <2>6, SpecificNames DEF Overrides
  <2> QED
    BY <2>3, <2>5, <2>6 DEF Reaches, AllowedBy
<1>8. ASSUME NEW id \in candidates, gap[raw.id] = "none",
             ClearlyGrants(raw.id, id)
      PROVE  id \in reached
  <2>1. PICK s \in Statements(raw.id) :
            s.effect = "allow" /\ NamesOutright(s, id)
    BY <1>8 DEF ClearlyGrants
  <2>2. s \in ReadStatements(raw.id) /\ Speaks(s)
    BY <1>8, <2>1, ReadStatementsAre DEF Speaks, NamesOutright, Covers
  <2>3. PICK i \in DOMAIN grants : grants[i] = GrantOf(s)
    BY <1>4, <2>2
  <2>4. i \in Matching("allow", id)
    BY <2>1, <2>2, <2>3, GrantNames DEF GrantOf
  <2>5. ASSUME NEW j \in Matching("deny", id)
        PROVE  FALSE
    <3>1. PICK d \in ReadStatements(raw.id) :
              Speaks(d) /\ grants[j] = GrantOf(d)
      BY <1>4
    <3>2. d.effect = "deny" /\ Covers(d, id)
      BY <3>1, GrantNames DEF GrantOf, NamesOutright
    <3>3. d \in Statements(raw.id)
      BY <3>1, ReadStatementsAre
    <3> QED
      BY <1>8, <3>2, <3>3 DEF ClearlyGrants
  <2> QED
    BY <2>4, <2>5
<1> QED
  BY <1>7, <1>8, <1>9 DEF derived, grants

-----------------------------------------------------------------------------
(* The graph of what was collected                                         *)

Kept == {q \in estate : gap[q.id] # "lost"}

Reading(raw) == normalize(raw, gap[raw.id])

Scanned == {Reading(raw) : raw \in Kept}

Graph == build(Scanned)

LEMMA ScannedAre ==
    ASSUME estate \in Estates
    PROVE  /\ Scanned = {normalize(r, gap[r.id]) :
                            r \in {q \in estate : gap[q.id] # "lost"}}
           /\ CollectedIds(Scanned) = {raw.id : raw \in Kept}
           /\ \A raw \in Kept : Faithful(raw, gap[raw.id], Reading(raw))
           /\ \A raw \in Kept : \A n \in Scanned :
                  n.id = raw.id => n = Reading(raw)
           /\ \A raw, q \in Kept : raw.id = q.id => raw = q
PROOF
<1>1. Scanned = {normalize(r, gap[r.id]) :
                    r \in {q \in estate : gap[q.id] # "lost"}}
  BY DEF Scanned, Kept, Reading
<1>2. \A raw \in Kept : Faithful(raw, gap[raw.id], Reading(raw))
  BY NormalizersAreFaithful DEF Kept, Reading
<1>3. \A raw \in Kept : Reading(raw).id = raw.id
  BY <1>2 DEF Faithful
<1>4. CollectedIds(Scanned) = {raw.id : raw \in Kept}
  BY <1>3 DEF CollectedIds, Scanned
<1>5. \A raw, q \in Kept : raw.id = q.id => raw = q
  BY EstatesAssumption DEF IsEstate, Kept
<1> QED
  BY <1>1, <1>2, <1>3, <1>4, <1>5 DEF Scanned

LEMMA CollectedNodes ==
    ASSUME estate \in Estates, NEW raw \in Kept
    PROVE  /\ raw.id \in DOMAIN Graph.nodes
           /\ Graph.nodes[raw.id].type = raw.type
           /\ Graph.nodes[raw.id].kind = "collected"
           /\ Graph.nodes[raw.id].confidence = "high"
           /\ ~ is_external(Graph, raw.id)
           /\ AttributesOf(Scanned, raw.id) = Reading(raw)
PROOF
<1>1. raw.id \in CollectedIds(Scanned)
  BY ScannedAre
<1>2. Reading(raw) \in Scanned /\ Reading(raw).id = raw.id
      /\ Reading(raw).type = raw.type
  BY ScannedAre DEF Scanned, Faithful
<1>3. (CHOOSE r \in Scanned : r.id = raw.id) = Reading(raw)
  BY <1>2, ScannedAre
<1>4. Graph.nodes = NodesOf(Scanned)
  BY DEF Graph, build
<1> HIDE DEF Scanned
<1>5. /\ raw.id \in DOMAIN NodesOf(Scanned)
      /\ NodesOf(Scanned)[raw.id] = [type |-> raw.type,
                                     kind |-> "collected",
                                     confidence |-> "high"]
  BY <1>1, <1>2, <1>3 DEF NodesOf
<1> QED
  BY <1>1, <1>3, <1>4, <1>5 DEF is_external, AttributesOf

LEMMA ExternalNodes ==
    ASSUME estate \in Estates, NEW id \in DOMAIN Graph.nodes,
           id \notin {raw.id : raw \in Kept}
    PROVE  /\ Graph.nodes[id].kind = "external"
           /\ Graph.nodes[id].confidence = "medium"
           /\ Graph.nodes[id].type = _external_type(id)
           /\ is_external(Graph, id)
           /\ AttributesOf(Scanned, id) = [holds |-> {}, unknown |-> {}]
PROOF
<1>1. id \notin CollectedIds(Scanned)
  BY ScannedAre
<1>2. Graph.nodes = NodesOf(Scanned)
  BY DEF Graph, build
<1>3. NodesOf(Scanned)[id] = [type |-> _external_type(id),
                              kind |-> "external", confidence |-> "medium"]
  BY <1>1, <1>2 DEF NodesOf
<1> QED
  BY <1>1, <1>2, <1>3 DEF is_external, AttributesOf

\* The role of a collected node is that of its type; an external one has
\* none.
LEMMA RolesOfNodes ==
    ASSUME estate \in Estates
    PROVE  /\ \A raw \in Kept : \A r \in DOMAIN Roles :
                  role_of(Graph, raw.id) = r <=> raw.type \in Roles[r]
           /\ \A id \in DOMAIN Graph.nodes :
                  role_of(Graph, id) \in DOMAIN Roles
                      => \E raw \in Kept : raw.id = id
           /\ \A id \in DOMAIN Graph.nodes :
                  role_of(Graph, id) \in DOMAIN Roles \cup {"external", "other"}
PROOF
<1>1. ASSUME NEW raw \in Kept, NEW r \in DOMAIN Roles
      PROVE  role_of(Graph, raw.id) = r <=> raw.type \in Roles[r]
  <2> DEFINE roles == {q \in DOMAIN Roles : raw.type \in Roles[q]}
  <2>1. role_of(Graph, raw.id) = IF roles = {} THEN "other"
                                 ELSE CHOOSE q \in roles : TRUE
    <3> DEFINE type == Graph.nodes[raw.id].type
    <3>1. type = raw.type /\ ~ is_external(Graph, raw.id)
      BY CollectedNodes
    <3>2. role_of(Graph, raw.id)
              = LET own == {q \in DOMAIN Roles : type \in Roles[q]}
                IN IF is_external(Graph, raw.id) THEN "external"
                   ELSE IF own = {} THEN "other" ELSE CHOOSE q \in own : TRUE
      BY DEF role_of
    <3> HIDE DEF type
    <3> QED
      BY <3>1, <3>2
  <2>2. \A p, q \in DOMAIN Roles :
            raw.type \in Roles[p] /\ raw.type \in Roles[q] => p = q
    BY RoleTypes
  <2>3. "other" \notin DOMAIN Roles
    BY RoleTypes
  <2> QED
    BY <2>1, <2>2, <2>3
<1>2. ASSUME NEW id \in DOMAIN Graph.nodes,
             id \notin {raw.id : raw \in Kept}
      PROVE  role_of(Graph, id) = "external"
  BY <1>2, ExternalNodes DEF role_of
<1>3. "external" \notin DOMAIN Roles
  BY RoleTypes
<1>4. \A id \in DOMAIN Graph.nodes :
          role_of(Graph, id) \in DOMAIN Roles \cup {"external", "other"}
  BY DEF role_of
<1> QED
  BY <1>1, <1>2, <1>3, <1>4

\* Every edge of the graph comes from a resource that was read: as a
\* relationship it asserts, or as access its policies grant.
EdgeIsSo(e) ==
    /\ e.confidence \in Confidences
    /\ e.kind \in Kinds
    /\ \E raw \in Kept :
          /\ e.from = raw.id
          /\ \/ TrueRelationship(raw, e)
             \/ /\ e.kind = "accesses"
                /\ raw.type = "iam_role"
                /\ Reaches(raw.id, e.to)

LEMMA EdgesAreSo ==
    ASSUME estate \in Estates
    PROVE  \A e \in Graph.edges : EdgeIsSo(e)
PROOF
<1> SUFFICES ASSUME NEW e \in Graph.edges
             PROVE  EdgeIsSo(e)
  OBVIOUS
<1>1. e \in AssertedEdges(Scanned) \/ e \in derive_identity_access(Scanned)
  BY DEF Graph, build
<1>2. CASE e \in AssertedEdges(Scanned)
  <2>1. PICK raw \in Kept : \E rel \in Reading(raw).rels :
            e = [from |-> Reading(raw).id, to |-> rel.to, kind |-> rel.kind,
                 confidence |-> "high"]
    BY <1>2 DEF AssertedEdges, Scanned
  <2>2. PICK rel \in Reading(raw).rels :
            e = [from |-> Reading(raw).id, to |-> rel.to, kind |-> rel.kind,
                 confidence |-> "high"]
    BY <2>1
  <2>3. Reading(raw).id = raw.id /\ TrueRelationship(raw, rel)
    BY <2>2, ScannedAre DEF Faithful
  <2>4. /\ e.from = raw.id /\ e.to = rel.to /\ e.kind = rel.kind
        /\ e.confidence = "high"
    BY <2>2, <2>3
  <2>5. TrueRelationship(raw, e) /\ e.kind \in Kinds
    BY <2>3, <2>4 DEF TrueRelationship
  <2> QED
    BY <2>4, <2>5 DEF EdgeIsSo, Confidences
<1>3. CASE e \in derive_identity_access(Scanned)
  <2> DEFINE candidates == CollectedIds({r \in Scanned :
                                            r.type \notin _IDENTITY_TYPES})
  <2>1. PICK n \in Scanned :
            /\ n.type \in _IDENTITY_TYPES
            /\ \E a \in derive_access_edges(n.grants, candidates) :
                  e = [from |-> n.id, to |-> a.to, kind |-> "accesses",
                       confidence |-> a.confidence]
    BY <1>3 DEF derive_identity_access
  <2>2. PICK raw \in Kept : n = Reading(raw)
    BY DEF Scanned
  <2>3. /\ n.id = raw.id /\ n.type = raw.type
        /\ n.grants = IF raw.type = "iam_role" THEN RoleGrants(raw) ELSE <<>>
    BY <2>2, ScannedAre DEF Faithful, RoleGrants
  <2>4. raw.type = "iam_role"
    <3>1. ASSUME n.grants = <<>>
          PROVE  derive_access_edges(n.grants, candidates) = {}
      BY <3>1 DEF derive_access_edges
    <3> HIDE DEF candidates
    <3> QED
      BY <2>1, <2>3, <3>1
  <2> HIDE DEF candidates
  <2>5. PICK a \in derive_access_edges(RoleGrants(raw), candidates) :
            e = [from |-> n.id, to |-> a.to, kind |-> "accesses",
                 confidence |-> a.confidence]
    BY <2>1, <2>3, <2>4
  <2>6. a.confidence \in Confidences /\ Reaches(raw.id, a.to)
    BY DerivedAccess DEF Kept
  <2> QED
    BY <2>3, <2>4, <2>5, <2>6 DEF EdgeIsSo, Kinds
<1> QED
  BY <1>1, <1>2, <1>3

LEMMA DerivedTargets ==
    ASSUME NEW grants, NEW candidates
    PROVE  /\ \A a \in derive_access_edges(grants, candidates) :
                  a.to \in candidates
           /\ IsFiniteSet(candidates)
                  => IsFiniteSet(derive_access_edges(grants, candidates))
PROOF
<1> DEFINE Matching(effect, id) ==
               {i \in DOMAIN grants :
                   grants[i].effect = effect
                   /\ grant_matches_resource(grants[i], id)}
           Exact(id) == {i \in Matching("allow", id) :
                           EvidenceOf(grants[i], id) = "exact"}
           Best(id) == grants[Min(IF Exact(id) # {} THEN Exact(id)
                                  ELSE Matching("allow", id))]
           reached == {id \in candidates : Matching("allow", id) # {}
                                           /\ Matching("deny", id) = {}}
<1>1. derive_access_edges(grants, candidates)
          = {[to |-> id, confidence |-> ConfidenceOf(Best(id), id)] :
                id \in reached}
  BY DEF derive_access_edges
<1>2. reached \subseteq candidates
  OBVIOUS
<1> HIDE DEF Best, reached
<1>3. \A a \in derive_access_edges(grants, candidates) : a.to \in reached
  BY <1>1
<1>4. ASSUME IsFiniteSet(candidates)
      PROVE  IsFiniteSet(derive_access_edges(grants, candidates))
  <2> DEFINE f == [id \in reached |->
                      [to |-> id, confidence |-> ConfidenceOf(Best(id), id)]]
  <2>1. IsFiniteSet(reached)
    BY <1>2, <1>4, FS_Subset
  <2>2. IsFiniteSet({f[id] : id \in reached})
    BY <2>1, FiniteImage
  <2>3. {f[id] : id \in reached}
            = {[to |-> id, confidence |-> ConfidenceOf(Best(id), id)] :
                  id \in reached}
    OBVIOUS
  <2> QED
    BY <1>1, <2>2, <2>3
<1> QED
  BY <1>2, <1>3, <1>4

\* An edge leads to a node: what nobody collected has one of its own.
LEMMA EdgesJoinNodes ==
    ASSUME estate \in Estates
    PROVE  \A e \in Graph.edges : {e.from, e.to} \subseteq DOMAIN Graph.nodes
PROOF
<1> SUFFICES ASSUME NEW e \in Graph.edges
             PROVE  {e.from, e.to} \subseteq DOMAIN Graph.nodes
  OBVIOUS
<1>1. DOMAIN Graph.nodes = CollectedIds(Scanned) \cup ExternalTargets(Scanned)
  BY DEF Graph, build, NodesOf
<1>2. CASE e \in AssertedEdges(Scanned)
  <2>1. \E n \in Scanned : \E rel \in n.rels : e.from = n.id /\ e.to = rel.to
    BY <1>2 DEF AssertedEdges
  <2> QED
    BY <1>1, <2>1 DEF CollectedIds, ExternalTargets
<1>3. CASE e \in derive_identity_access(Scanned)
  <2> DEFINE candidates == CollectedIds({r \in Scanned :
                                            r.type \notin _IDENTITY_TYPES})
  <2>1. PICK n \in Scanned :
            \E a \in derive_access_edges(n.grants, candidates) :
                e = [from |-> n.id, to |-> a.to, kind |-> "accesses",
                     confidence |-> a.confidence]
    BY <1>3 DEF derive_identity_access
  <2>2. \A a \in derive_access_edges(n.grants, candidates) :
            a.to \in candidates
    BY DerivedTargets
  <2>3. candidates \subseteq CollectedIds(Scanned)
    BY DEF CollectedIds
  <2>4. e.from \in CollectedIds(Scanned)
    BY <2>1 DEF CollectedIds
  <2> HIDE DEF candidates
  <2> QED
    BY <1>1, <2>1, <2>2, <2>3, <2>4
<1> QED
  BY <1>2, <1>3 DEF Graph, build

\* What a resource asserts has its edge, and so has what a role that was
\* read in full may access.
LEMMA EvidentEdges ==
    ASSUME estate \in Estates, NEW raw \in Kept
    PROVE  /\ \A rel \in Reading(raw).rels :
                  \E e \in Graph.edges : /\ e.from = raw.id /\ e.to = rel.to
                                         /\ e.kind = rel.kind
           /\ \A q \in Kept :
                  (/\ raw.type = "iam_role" /\ q.type \notin Identity
                   /\ gap[raw.id] = "none" /\ ClearlyGrants(raw.id, q.id))
                  => \E e \in Graph.edges : /\ e.from = raw.id /\ e.to = q.id
                                            /\ e.kind = "accesses"
PROOF
<1>1. /\ Reading(raw) \in Scanned
      /\ Reading(raw).id = raw.id /\ Reading(raw).type = raw.type
  BY ScannedAre DEF Scanned, Faithful
<1>2. ASSUME NEW rel \in Reading(raw).rels
      PROVE  [from |-> raw.id, to |-> rel.to, kind |-> rel.kind,
              confidence |-> "high"] \in Graph.edges
  BY <1>1 DEF Graph, build, AssertedEdges
<1>3. ASSUME NEW q \in Kept,
             raw.type = "iam_role", q.type \notin Identity,
             gap[raw.id] = "none", ClearlyGrants(raw.id, q.id)
      PROVE  \E e \in Graph.edges : /\ e.from = raw.id /\ e.to = q.id
                                    /\ e.kind = "accesses"
  <2> DEFINE candidates == CollectedIds({r \in Scanned :
                                            r.type \notin _IDENTITY_TYPES})
             asserted == {<<e.from, e.to, e.kind>> :
                             e \in AssertedEdges(Scanned)}
  <2>1. q.id \in candidates
    <3>1. /\ Reading(q) \in Scanned
          /\ Reading(q).id = q.id /\ Reading(q).type = q.type
      BY ScannedAre DEF Scanned, Faithful
    <3> QED
      BY <1>3, <3>1 DEF CollectedIds, _IDENTITY_TYPES, Identity
  <2>2. Reading(raw).grants = RoleGrants(raw)
    BY <1>3, ScannedAre DEF Faithful, RoleGrants
  <2> HIDE DEF candidates, asserted
  <2>3. PICK a \in derive_access_edges(RoleGrants(raw), candidates) :
            a.to = q.id
    BY <1>3, <2>1, DerivedAccess DEF Kept
  <2> DEFINE e == [from |-> raw.id, to |-> q.id, kind |-> "accesses",
                   confidence |-> a.confidence]
  <2>4. CASE <<raw.id, q.id, "accesses">> \notin asserted
    <3> DEFINE Derived(r) ==
                   {[from |-> r.id, to |-> b.to, kind |-> "accesses",
                     confidence |-> b.confidence] :
                       b \in derive_access_edges(r.grants, candidates)}
               identities == {n \in Scanned : n.type \in _IDENTITY_TYPES}
    <3>1. derive_identity_access(Scanned)
              = {d \in UNION {Derived(r) : r \in identities} :
                    <<d.from, d.to, d.kind>> \notin asserted}
      BY DEF derive_identity_access, candidates, asserted
    <3>2. Reading(raw) \in identities
      BY <1>1, <1>3 DEF _IDENTITY_TYPES
    <3>3. e \in Derived(Reading(raw))
      BY <1>1, <2>2, <2>3
    <3> HIDE DEF Derived, identities
    <3>4. e \in derive_identity_access(Scanned)
      BY <2>4, <3>1, <3>2, <3>3
    <3> QED
      BY <3>4 DEF Graph, build
  <2>5. CASE <<raw.id, q.id, "accesses">> \in asserted
    <3>1. PICK d \in AssertedEdges(Scanned) :
              <<d.from, d.to, d.kind>> = <<raw.id, q.id, "accesses">>
      BY <2>5 DEF asserted
    <3> QED
      BY <3>1 DEF Graph, build
  <2> QED
    BY <2>4, <2>5
<1> QED
  BY <1>2, <1>3

LEMMA FiniteGraph ==
    ASSUME estate \in Estates
    PROVE  /\ IsFiniteSet(DOMAIN Graph.nodes)
           /\ IsFiniteSet(Graph.edges)
PROOF
<1>1. IsFiniteSet(Kept)
  BY EstatesAssumption, FS_Subset DEF IsEstate, Kept
<1>2. IsFiniteSet(Scanned)
  <2> DEFINE f == [raw \in Kept |-> Reading(raw)]
  <2>1. IsFiniteSet({f[raw] : raw \in Kept})
    BY <1>1, FiniteImage
  <2>2. {f[raw] : raw \in Kept} = Scanned
    BY DEF Scanned
  <2> QED
    BY <2>1, <2>2
<1>3. \A n \in Scanned : IsFiniteSet(n.rels)
  BY ScannedAre DEF Scanned, Faithful
<1>4. IsFiniteSet(CollectedIds(Scanned))
  <2> DEFINE f == [n \in Scanned |-> n.id]
  <2>1. IsFiniteSet({f[n] : n \in Scanned})
    BY <1>2, FiniteImage
  <2>2. {f[n] : n \in Scanned} = CollectedIds(Scanned)
    BY DEF CollectedIds
  <2> QED
    BY <2>1, <2>2
<1>5. IsFiniteSet(ExternalTargets(Scanned))
  <2> DEFINE f == [n \in Scanned |-> n.rels]
             all == UNION {n.rels : n \in Scanned}
             g == [rel \in all |-> rel.to]
  <2>1. IsFiniteSet(all)
    <3>1. DOMAIN f = Scanned /\ \A n \in Scanned : f[n] = n.rels
      OBVIOUS
    <3>2. all = UNION {f[n] : n \in Scanned}
      BY <3>1
    <3> HIDE DEF f
    <3>3. \A n \in Scanned : IsFiniteSet(f[n])
      BY <1>3, <3>1
    <3>4. IsFiniteSet(UNION {f[n] : n \in Scanned})
      BY <1>2, <3>1, <3>3, FiniteUnion
    <3> QED
      BY <3>2, <3>4
  <2>3. IsFiniteSet({g[rel] : rel \in all})
    <3> HIDE DEF all
    <3> QED
      BY <2>1, FiniteImage
  <2>4. ExternalTargets(Scanned) \subseteq {g[rel] : rel \in all}
    BY DEF ExternalTargets
  <2> QED
    BY <2>3, <2>4, FS_Subset
<1>6. IsFiniteSet(DOMAIN Graph.nodes)
  <2>1. DOMAIN Graph.nodes
            = CollectedIds(Scanned) \cup ExternalTargets(Scanned)
    BY DEF Graph, build, NodesOf
  <2> QED
    BY <1>4, <1>5, <2>1, FS_Union
<1>7. IsFiniteSet(AssertedEdges(Scanned))
  <2> DEFINE f == [n \in Scanned |->
                      {[from |-> n.id, to |-> rel.to, kind |-> rel.kind,
                        confidence |-> "high"] : rel \in n.rels}]
  <2>1. ASSUME NEW n \in Scanned
        PROVE  IsFiniteSet(f[n])
    <3> DEFINE g == [rel \in n.rels |->
                        [from |-> n.id, to |-> rel.to, kind |-> rel.kind,
                         confidence |-> "high"]]
    <3>1. IsFiniteSet({g[rel] : rel \in n.rels})
      BY <1>3, FiniteImage
    <3>2. {g[rel] : rel \in n.rels} = f[n]
      OBVIOUS
    <3> QED
      BY <3>1, <3>2
  <2>2. AssertedEdges(Scanned) = UNION {f[n] : n \in Scanned}
    BY DEF AssertedEdges
  <2>3. DOMAIN f = Scanned
    OBVIOUS
  <2> HIDE DEF f
  <2> QED
    BY <1>2, <2>1, <2>2, <2>3, FiniteUnion
<1>8. IsFiniteSet(derive_identity_access(Scanned))
  <2> DEFINE candidates == CollectedIds({r \in Scanned :
                                            r.type \notin _IDENTITY_TYPES})
             f == [n \in Scanned |->
                      {[from |-> n.id, to |-> a.to, kind |-> "accesses",
                        confidence |-> a.confidence] :
                          a \in derive_access_edges(n.grants, candidates)}]
  <2>1. IsFiniteSet(candidates)
    <3>1. candidates \subseteq CollectedIds(Scanned)
      BY DEF CollectedIds
    <3> QED
      BY <1>4, <3>1, FS_Subset
  <2>2. ASSUME NEW n \in Scanned
        PROVE  IsFiniteSet(f[n])
    <3> DEFINE D == derive_access_edges(n.grants, candidates)
               g == [a \in D |->
                        [from |-> n.id, to |-> a.to, kind |-> "accesses",
                         confidence |-> a.confidence]]
    <3>1. IsFiniteSet(D)
      BY <2>1, DerivedTargets
    <3> HIDE DEF D
    <3>2. IsFiniteSet({g[a] : a \in D})
      BY <3>1, FiniteImage
    <3>3. {g[a] : a \in D} = f[n]
      BY DEF D
    <3> QED
      BY <3>2, <3>3
  <2>3. derive_identity_access(Scanned) \subseteq UNION {f[n] : n \in Scanned}
    BY DEF derive_identity_access
  <2>4. DOMAIN f = Scanned
    OBVIOUS
  <2> HIDE DEF f
  <2>5. IsFiniteSet(UNION {f[n] : n \in Scanned})
    BY <1>2, <2>2, <2>4, FiniteUnion
  <2> QED
    BY <2>3, <2>5, FS_Subset
<1>9. Graph.edges = AssertedEdges(Scanned) \cup derive_identity_access(Scanned)
  BY DEF Graph, build
<1> QED
  BY <1>6, <1>7, <1>8, <1>9, FS_Union

-----------------------------------------------------------------------------
(* The paths through a graph                                               *)

\* The walks of one edge more.
Extend(edges, source, walks) ==
    UNION {LET visited == VisitedBy(source, path)
           IN {Append(path, e) : e \in {d \in edges :
                 /\ d.from = Last(visited)
                 /\ d.to \notin ToSet(visited)}} :
           path \in walks}

Walks1(edges, source) == Extend(edges, source, {<<>>})
Walks2(edges, source) == Extend(edges, source, Walks1(edges, source))
Walks3(edges, source) == Extend(edges, source, Walks2(edges, source))
Walks4(edges, source) == Extend(edges, source, Walks3(edges, source))

Walks(edges, source) ==
    Walks1(edges, source) \cup Walks2(edges, source) \cup
    Walks3(edges, source) \cup Walks4(edges, source)

\* The search finds the walks of one to four edges.
LEMMA PathsAreWalks ==
    ASSUME NEW edges, NEW source, NEW target
    PROVE  find_paths(edges, source, target, MAX_DEPTH)
               = {path \in Walks(edges, source) : Last(path).to = target}
PROOF
<1> DEFINE Body(f) ==
               f = [n \in 0..4 |-> IF n = 0 THEN {<<>>}
                                   ELSE Extend(edges, source, f[n - 1])]
           walks == CHOOSE f : Body(f)
           w0 == {<<>>}
           w1 == Walks1(edges, source)
           w2 == Walks2(edges, source)
           w3 == Walks3(edges, source)
           w4 == Walks4(edges, source)
<1>1. /\ w1 = Extend(edges, source, w0)
      /\ w2 = Extend(edges, source, w1)
      /\ w3 = Extend(edges, source, w2)
      /\ w4 = Extend(edges, source, w3)
  BY DEF Walks1, Walks2, Walks3, Walks4
<1>2. find_paths(edges, source, target, MAX_DEPTH)
          = {path \in UNION {walks[n] : n \in 1..4} : Last(path).to = target}
  BY DEF find_paths, MAX_DEPTH, Extend
<1> HIDE DEF w0, w1, w2, w3, w4
<1>3. \E f : Body(f)
  <2> DEFINE h == [n \in 0..4 |-> IF n = 0 THEN w0
                                  ELSE IF n = 1 THEN w1
                                  ELSE IF n = 2 THEN w2
                                  ELSE IF n = 3 THEN w3 ELSE w4]
  <2>1. \A n \in 0..4 : h[n] = IF n = 0 THEN w0
                               ELSE Extend(edges, source, h[n - 1])
    <3>1. /\ h[0] = w0 /\ h[1] = w1 /\ h[2] = w2
          /\ h[3] = w3 /\ h[4] = w4
      OBVIOUS
    <3>2. \A n \in 0..4 : n = 0 \/ n = 1 \/ n = 2 \/ n = 3 \/ n = 4
      OBVIOUS
    <3>3. 1 - 1 = 0 /\ 2 - 1 = 1 /\ 3 - 1 = 2 /\ 4 - 1 = 3
      OBVIOUS
    <3> HIDE DEF h
    <3> QED
      BY <1>1, <3>1, <3>2, <3>3
  <2>2. Body(h)
    BY <2>1 DEF w0
  <2> QED
    BY <2>2
<1>4. Body(walks)
  <2> HIDE DEF Body
  <2> QED
    BY <1>3
<1>5. \A n \in 0..4 : walks[n] = IF n = 0 THEN w0
                                 ELSE Extend(edges, source, walks[n - 1])
  BY <1>4 DEF w0
<1> HIDE DEF walks
<1>6. walks[1] = w1 /\ walks[2] = w2 /\ walks[3] = w3 /\ walks[4] = w4
  <2>1. walks[0] = w0
    BY <1>5
  <2>2. walks[1] = w1
    BY <1>1, <1>5, <2>1
  <2>3. walks[2] = w2
    BY <1>1, <1>5, <2>2
  <2>4. walks[3] = w3
    BY <1>1, <1>5, <2>3
  <2> QED
    BY <1>1, <1>5, <2>2, <2>3, <2>4
<1>7. UNION {walks[n] : n \in 1..4} = w1 \cup w2 \cup w3 \cup w4
  <2>1. 1..4 = {1, 2, 3, 4}
    OBVIOUS
  <2>2. {walks[n] : n \in 1..4} = {w1, w2, w3, w4}
    BY <1>6, <2>1
  <2> QED
    BY <2>2
<1>8. Walks(edges, source) = w1 \cup w2 \cup w3 \cup w4
  BY DEF Walks, w1, w2, w3, w4
<1> QED
  BY <1>2, <1>7, <1>8

\* A walk visits its source and then where each edge leads.
LEMMA VisitedAre ==
    ASSUME NEW E, NEW path \in Seq(E), NEW source
    PROVE  /\ \A S : source \in S /\ (\A i \in DOMAIN path : path[i].to \in S)
                        => VisitedBy(source, path) \in Seq(S)
           /\ Len(VisitedBy(source, path)) = Len(path) + 1
           /\ VisitedBy(source, path)[1] = source
           /\ \A i \in DOMAIN path :
                  VisitedBy(source, path)[i + 1] = path[i].to
           /\ Last(VisitedBy(source, path))
                  = IF path = <<>> THEN source ELSE Last(path).to
           /\ \A id : id \in ToSet(VisitedBy(source, path))
                      <=> id = source \/ \E i \in DOMAIN path :
                                             id = path[i].to
PROOF
<1> DEFINE S == {source} \cup {path[i].to : i \in DOMAIN path}
           tail == [i \in DOMAIN path |-> path[i].to]
           v == VisitedBy(source, path)
<1>1. /\ tail \in Seq(S)
      /\ Len(tail) = Len(path)
      /\ \A i \in DOMAIN path : tail[i] = path[i].to
  <2>1. DOMAIN path = 1..Len(path) /\ Len(path) \in Nat
    OBVIOUS
  <2>2. \A i \in DOMAIN path : tail[i] \in S
    OBVIOUS
  <2>3. tail \in [1..Len(path) -> S]
    BY <2>1, <2>2
  <2> QED
    BY <2>1, <2>3
<1>2. v = <<source>> \o tail
  BY DEF VisitedBy
<1>3. /\ <<source>> \in Seq(S) /\ Len(<<source>>) = 1 /\ <<source>>[1] = source
  OBVIOUS
<1> HIDE DEF tail
<1>4. /\ v \in Seq(S)
      /\ Len(v) = Len(path) + 1
      /\ v[1] = source
      /\ \A i \in DOMAIN path : v[i + 1] = path[i].to
  <2>1. v \in Seq(S) /\ Len(v) = 1 + Len(tail)
    BY <1>1, <1>2, <1>3
  <2>2. \A i \in 1..Len(v) : v[i] = IF i <= 1 THEN source ELSE tail[i - 1]
    BY <1>1, <1>2, <1>3
  <2>3. \A i \in DOMAIN path : i + 1 \in 1..Len(v) /\ i + 1 > 1
                               /\ i + 1 - 1 = i
    BY <1>1, <2>1
  <2>4. v[1] = source
    BY <1>1, <2>1, <2>2
  <2> QED
    BY <1>1, <2>1, <2>2, <2>3, <2>4
<1> HIDE DEF v
<1>5. Last(v) = IF path = <<>> THEN source ELSE Last(path).to
  <2>1. Last(v) = v[Len(v)] /\ Last(path) = path[Len(path)]
    BY DEF Last
  <2>2. CASE path = <<>>
    BY <1>4, <2>1, <2>2
  <2>3. CASE path # <<>>
    BY <1>4, <2>1, <2>3
  <2> QED
    BY <2>2, <2>3
<1>6. ToSet(v) = S
  <2>1. ToSet(v) \subseteq S
    BY <1>4 DEF ToSet
  <2>2. source \in ToSet(v)
    BY <1>4 DEF ToSet
  <2>3. \A i \in DOMAIN path : path[i].to \in ToSet(v)
    BY <1>4 DEF ToSet
  <2> QED
    BY <2>1, <2>2, <2>3
<1>7. ASSUME NEW T, source \in T, \A i \in DOMAIN path : path[i].to \in T
      PROVE  v \in Seq(T)
  <2>1. S \subseteq T
    BY <1>7
  <2> HIDE DEF S
  <2> QED
    BY <1>4, <2>1
<1>8. \A id : id \in ToSet(v)
                <=> id = source \/ \E i \in DOMAIN path : id = path[i].to
  BY <1>6
<1> QED
  BY <1>4, <1>5, <1>7, <1>8 DEF v

\* A walk is a chain of edges: each starts where the one before it led.
IsWalk(edges, source, path) ==
    /\ path \in Seq(edges)
    /\ \A i \in DOMAIN path :
           path[i].from = IF i = 1 THEN source ELSE path[i - 1].to

LEMMA LongerWalks ==
    ASSUME NEW edges, NEW source, NEW walks,
           \A path \in walks : IsWalk(edges, source, path)
    PROVE  /\ \A path \in Extend(edges, source, walks) :
                  IsWalk(edges, source, path) /\ path # <<>>
           /\ \A path \in walks : \A e \in edges :
                  (/\ e.from = Last(VisitedBy(source, path))
                   /\ e.to \notin ToSet(VisitedBy(source, path)))
                  => Append(path, e) \in Extend(edges, source, walks)
           /\ IsFiniteSet(edges) /\ IsFiniteSet(walks)
                  => IsFiniteSet(Extend(edges, source, walks))
PROOF
<1> DEFINE Next_(path) == {d \in edges :
                             /\ d.from = Last(VisitedBy(source, path))
                             /\ d.to \notin ToSet(VisitedBy(source, path))}
           Longer(path) == {Append(path, e) : e \in Next_(path)}
<1>1. Extend(edges, source, walks) = UNION {Longer(path) : path \in walks}
  BY DEF Extend
<1>2. ASSUME NEW path \in walks, NEW e \in edges,
             e.from = Last(VisitedBy(source, path))
      PROVE  IsWalk(edges, source, Append(path, e)) /\ Append(path, e) # <<>>
  <2>1. /\ path \in Seq(edges)
        /\ \A i \in DOMAIN path :
               path[i].from = IF i = 1 THEN source ELSE path[i - 1].to
    BY DEF IsWalk
  <2>2. e.from = IF path = <<>> THEN source ELSE path[Len(path)].to
    BY <1>2, <2>1, VisitedAre DEF Last
  <2> DEFINE p == Append(path, e)
  <2>3. /\ p \in Seq(edges) /\ Len(p) = Len(path) + 1
        /\ \A i \in DOMAIN path : p[i] = path[i]
        /\ p[Len(path) + 1] = e
        /\ DOMAIN path = 1..Len(path) /\ DOMAIN p = 1..(Len(path) + 1)
        /\ Len(path) \in Nat
        /\ path = <<>> <=> Len(path) = 0
    BY <2>1
  <2> HIDE DEF p
  <2>4. ASSUME NEW i \in DOMAIN p
        PROVE  p[i].from = IF i = 1 THEN source ELSE p[i - 1].to
    <3>1. CASE i \in DOMAIN path
      <4>1. p[i] = path[i] /\ i \in Nat /\ i > 0
        BY <2>3, <3>1
      <4>2. i # 1 => i - 1 \in DOMAIN path /\ p[i - 1] = path[i - 1]
        BY <2>3, <3>1
      <4> QED
        BY <2>1, <3>1, <4>1, <4>2
    <3>2. CASE i \notin DOMAIN path
      <4>1. i = Len(path) + 1 /\ p[i] = e /\ i - 1 = Len(path)
        BY <2>3, <3>2, <2>4
      <4>2. i # 1 => p[i - 1] = path[Len(path)] /\ path # <<>>
        BY <2>3, <4>1
      <4>3. i = 1 => path = <<>>
        BY <2>3, <4>1
      <4> QED
        BY <2>2, <4>1, <4>2, <4>3
    <3> QED
      BY <3>1, <3>2
  <2>5. p # <<>>
    BY <2>3
  <2> QED
    BY <2>3, <2>4, <2>5 DEF IsWalk, p
<1>3. ASSUME IsFiniteSet(edges), IsFiniteSet(walks)
      PROVE  IsFiniteSet(Extend(edges, source, walks))
  <2> DEFINE f == [path \in walks |-> Longer(path)]
  <2>1. ASSUME NEW path \in walks
        PROVE  IsFiniteSet(f[path])
    <3> DEFINE N == Next_(path)
               g == [e \in N |-> Append(path, e)]
    <3>1. IsFiniteSet(N)
      <4>1. N \subseteq edges
        OBVIOUS
      <4> QED
        BY <1>3, <4>1, FS_Subset
    <3>2. f[path] = {Append(path, e) : e \in N}
      OBVIOUS
    <3> HIDE DEF N
    <3>3. IsFiniteSet({g[e] : e \in N})
      BY <3>1, FiniteImage
    <3>4. {g[e] : e \in N} = {Append(path, e) : e \in N}
      OBVIOUS
    <3> QED
      BY <3>2, <3>3, <3>4
  <2>2. UNION {Longer(path) : path \in walks} = UNION {f[path] : path \in walks}
    <3> HIDE DEF Longer
    <3> QED
      OBVIOUS
  <2>3. DOMAIN f = walks
    OBVIOUS
  <2> HIDE DEF f, Longer
  <2> QED
    BY <1>1, <1>3, <2>1, <2>2, <2>3, FiniteUnion
<1>4. ASSUME NEW path \in Extend(edges, source, walks)
      PROVE  IsWalk(edges, source, path) /\ path # <<>>
  <2>1. PICK p \in walks : path \in Longer(p)
    BY <1>1
  <2>2. PICK e \in Next_(p) : path = Append(p, e)
    BY <2>1
  <2> QED
    BY <1>2, <2>2
<1>5. ASSUME NEW path \in walks, NEW e \in edges,
             e.from = Last(VisitedBy(source, path)),
             e.to \notin ToSet(VisitedBy(source, path))
      PROVE  Append(path, e) \in Extend(edges, source, walks)
  <2>1. Append(path, e) \in Longer(path)
    BY <1>5
  <2> HIDE DEF Longer
  <2> QED
    BY <1>1, <2>1
<1> HIDE DEF Longer, Next_
<1> QED
  BY <1>3, <1>4, <1>5

LEMMA WalksAreWalks ==
    ASSUME NEW edges, NEW source
    PROVE  /\ \A path \in Walks(edges, source) :
                  IsWalk(edges, source, path) /\ path # <<>>
           /\ IsFiniteSet(edges) => IsFiniteSet(Walks(edges, source))
PROOF
<1> DEFINE Sound(walks) ==
               /\ \A path \in walks : IsWalk(edges, source, path)
               /\ IsFiniteSet(edges) => IsFiniteSet(walks)
           Real(walks) == \A path \in walks : path # <<>>
<1>1. Sound({<<>>})
  <2>1. <<>> \in Seq(edges) /\ DOMAIN <<>> = {}
    OBVIOUS
  <2>2. IsWalk(edges, source, <<>>)
    BY <2>1 DEF IsWalk
  <2>3. IsFiniteSet({<<>>})
    BY FS_Singleton
  <2> QED
    BY <2>2, <2>3
<1>2. ASSUME NEW walks, Sound(walks)
      PROVE  Sound(Extend(edges, source, walks))
             /\ Real(Extend(edges, source, walks))
  BY <1>2, LongerWalks
<1> HIDE DEF Sound, Real
<1>3. /\ Sound(Walks1(edges, source)) /\ Real(Walks1(edges, source))
      /\ Sound(Walks2(edges, source)) /\ Real(Walks2(edges, source))
      /\ Sound(Walks3(edges, source)) /\ Real(Walks3(edges, source))
      /\ Sound(Walks4(edges, source)) /\ Real(Walks4(edges, source))
  <2>1. Sound(Walks1(edges, source)) /\ Real(Walks1(edges, source))
    BY <1>1, <1>2 DEF Walks1
  <2>2. Sound(Walks2(edges, source)) /\ Real(Walks2(edges, source))
    BY <2>1, <1>2 DEF Walks2
  <2>3. Sound(Walks3(edges, source)) /\ Real(Walks3(edges, source))
    BY <2>2, <1>2 DEF Walks3
  <2> QED
    BY <2>1, <2>2, <2>3, <1>2 DEF Walks4
<1>4. ASSUME IsFiniteSet(edges)
      PROVE  IsFiniteSet(Walks(edges, source))
  <2>1. /\ IsFiniteSet(Walks1(edges, source))
        /\ IsFiniteSet(Walks2(edges, source))
        /\ IsFiniteSet(Walks3(edges, source))
        /\ IsFiniteSet(Walks4(edges, source))
    BY <1>3, <1>4 DEF Sound
  <2>2. IsFiniteSet(Walks1(edges, source) \cup Walks2(edges, source))
    BY <2>1, FS_Union
  <2>3. IsFiniteSet(Walks1(edges, source) \cup Walks2(edges, source)
                    \cup Walks3(edges, source))
    BY <2>1, <2>2, FS_Union
  <2> QED
    BY <2>1, <2>3, FS_Union DEF Walks
<1> QED
  BY <1>3, <1>4 DEF Sound, Real, Walks

\* Two, and four, edges in a row that visit no node twice are a walk.
LEMMA WalksOfHops ==
    ASSUME NEW edges, NEW source,
           NEW d \in edges, NEW e \in edges,
           d.from = source, e.from = d.to,
           d.to # source, e.to \notin {source, d.to}
    PROVE  /\ \E path \in Walks2(edges, source) :
                  Len(path) = 2 /\ path[1] = d /\ path[2] = e
           /\ \A f, h \in edges :
                  (/\ f.from = e.to /\ h.from = f.to
                   /\ f.to \notin {source, d.to, e.to}
                   /\ h.to \notin {source, d.to, e.to, f.to})
                  => \E path \in Walks4(edges, source) :
                         /\ Len(path) = 4 /\ path[1] = d /\ path[2] = e
                         /\ path[3] = f /\ path[4] = h
PROOF
<1> DEFINE Sound(walks) == \A path \in walks : IsWalk(edges, source, path)
           Longer(walks, p, x) ==
               \E q \in Extend(edges, source, walks) :
                   /\ Len(q) = Len(p) + 1 /\ q[Len(p) + 1] = x
                   /\ \A i \in 1..Len(p) : q[i] = p[i]
<1>1. /\ Sound({<<>>})
      /\ Sound(Walks1(edges, source))
      /\ Sound(Walks2(edges, source))
      /\ Sound(Walks3(edges, source))
  <2>1. <<>> \in Seq(edges) /\ DOMAIN <<>> = {}
    OBVIOUS
  <2>2. IsWalk(edges, source, <<>>)
    BY <2>1 DEF IsWalk
  <2> QED
    BY <2>2, WalksAreWalks DEF Walks
\* One edge more, from the end of a walk to where it has not been.
<1>2. ASSUME NEW walks, NEW p \in walks, NEW x \in edges,
             Sound(walks),
             x.from = IF p = <<>> THEN source ELSE p[Len(p)].to,
             x.to # source, \A i \in DOMAIN p : x.to # p[i].to
      PROVE  Longer(walks, p, x)
  <2>1. p \in Seq(edges)
    BY <1>2 DEF IsWalk
  <2>2. /\ x.from = Last(VisitedBy(source, p))
        /\ x.to \notin ToSet(VisitedBy(source, p))
    <3>1. /\ Last(VisitedBy(source, p))
                 = IF p = <<>> THEN source ELSE Last(p).to
          /\ x.to \in ToSet(VisitedBy(source, p))
                 <=> x.to = source \/ \E i \in DOMAIN p : x.to = p[i].to
      BY <2>1, VisitedAre
    <3>2. Last(p) = p[Len(p)]
      BY DEF Last
    <3> QED
      BY <1>2, <3>1, <3>2
  <2>3. Append(p, x) \in Extend(edges, source, walks)
    BY <1>2, <2>2, LongerWalks
  <2>4. /\ Len(Append(p, x)) = Len(p) + 1 /\ Append(p, x)[Len(p) + 1] = x
        /\ \A i \in 1..Len(p) : Append(p, x)[i] = p[i]
    BY <2>1
  <2> QED
    BY <2>3, <2>4
<1> HIDE DEF Longer, Sound
<1>3. PICK p1 \in Walks1(edges, source) : Len(p1) = 1 /\ p1[1] = d
  <2> DEFINE p == <<>>
  <2>1. Len(p) = 0 /\ DOMAIN p = {} /\ p \in {<<>>} /\ p = <<>>
    OBVIOUS
  <2> HIDE DEF p
  <2>2. Longer({<<>>}, p, d)
    BY <1>1, <1>2, <2>1
  <2> QED
    BY <2>1, <2>2 DEF Longer, Walks1
<1>4. PICK p2 \in Walks2(edges, source) :
          Len(p2) = 2 /\ p2[1] = d /\ p2[2] = e
  <2>1. /\ p1 \in Seq(edges) /\ DOMAIN p1 = {1} /\ p1 # <<>>
        /\ 1 \in 1..Len(p1)
    BY <1>1, <1>3 DEF IsWalk, Sound
  <2>2. \A i \in DOMAIN p1 : e.to # p1[i].to
    BY <1>3, <2>1
  <2>3. PICK q \in Extend(edges, source, Walks1(edges, source)) :
            /\ Len(q) = Len(p1) + 1 /\ q[Len(p1) + 1] = e
            /\ \A i \in 1..Len(p1) : q[i] = p1[i]
    <3>1. Longer(Walks1(edges, source), p1, e)
      BY <1>1, <1>2, <1>3, <2>1, <2>2
    <3> QED
      BY <3>1 DEF Longer
  <2> QED
    BY <1>3, <2>1, <2>3 DEF Walks2
<1>5. ASSUME NEW f \in edges, NEW h \in edges,
             f.from = e.to, h.from = f.to,
             f.to \notin {source, d.to, e.to},
             h.to \notin {source, d.to, e.to, f.to}
      PROVE  \E path \in Walks4(edges, source) :
                 /\ Len(path) = 4 /\ path[1] = d /\ path[2] = e
                 /\ path[3] = f /\ path[4] = h
  <2>1. /\ p2 \in Seq(edges) /\ DOMAIN p2 = {1, 2} /\ p2 # <<>>
        /\ 1 \in 1..Len(p2) /\ 2 \in 1..Len(p2)
    BY <1>1, <1>4 DEF IsWalk, Sound
  <2>2. \A i \in DOMAIN p2 : f.to # p2[i].to
    BY <1>4, <1>5, <2>1
  <2>3. PICK p3 \in Extend(edges, source, Walks2(edges, source)) :
            /\ Len(p3) = Len(p2) + 1 /\ p3[Len(p2) + 1] = f
            /\ \A i \in 1..Len(p2) : p3[i] = p2[i]
    <3>1. Longer(Walks2(edges, source), p2, f)
      BY <1>1, <1>2, <1>4, <1>5, <2>1, <2>2
    <3> QED
      BY <3>1 DEF Longer
  <2>4. /\ p3 \in Walks3(edges, source)
        /\ Len(p3) = 3 /\ p3[1] = d /\ p3[2] = e /\ p3[3] = f
    BY <1>4, <2>1, <2>3 DEF Walks3
  <2>5. /\ p3 \in Seq(edges) /\ DOMAIN p3 = {1, 2, 3} /\ p3 # <<>>
        /\ 1 \in 1..Len(p3) /\ 2 \in 1..Len(p3) /\ 3 \in 1..Len(p3)
    BY <1>1, <2>4 DEF IsWalk, Sound
  <2>6. \A i \in DOMAIN p3 : h.to # p3[i].to
    BY <1>5, <2>4, <2>5
  <2>7. PICK q \in Extend(edges, source, Walks3(edges, source)) :
            /\ Len(q) = Len(p3) + 1 /\ q[Len(p3) + 1] = h
            /\ \A i \in 1..Len(p3) : q[i] = p3[i]
    <3>1. Longer(Walks3(edges, source), p3, h)
      BY <1>1, <1>2, <1>5, <2>4, <2>5, <2>6
    <3> QED
      BY <3>1 DEF Longer
  <2> QED
    BY <2>4, <2>5, <2>7 DEF Walks4
<1> QED
  BY <1>4, <1>5

-----------------------------------------------------------------------------
(* The evidence of the scenarios                                           *)

\* An edge a path goes through, or ends at data with, is so in the cloud:
\* what nobody collected leads nowhere, and neither does a gateway.
LEMMA HopIsTrue ==
    ASSUME estate \in Estates, NEW e \in Traversable(Graph),
           \/ \E f \in Traversable(Graph) : f.from = e.to
           \/ e.to \in DOMAIN Graph.nodes /\ is_data_bearing(Graph, e.to)
    PROVE  TrueEdge(e)
PROOF
<1>1. /\ EdgeIsSo(e)
      /\ e.kind \in {"assumes", "accesses", "publicly_exposed", "connects_to"}
  BY EdgesAreSo DEF Traversable, _TRAVERSABLE_RELATIONSHIPS
<1>2. PICK raw \in Kept :
          /\ e.from = raw.id
          /\ \/ TrueRelationship(raw, e)
             \/ /\ e.kind = "accesses"
                /\ raw.type = "iam_role"
                /\ Reaches(raw.id, e.to)
  BY <1>1 DEF EdgeIsSo
<1>3. raw \in estate /\ Raw(raw.id) = raw
  BY RawIsRaw DEF Kept
<1>4. PICK q \in Kept :
          /\ q.id = e.to
          /\ q.type # "aws_internet_gateway"
  <2>1. CASE \E f \in Traversable(Graph) : f.from = e.to
    <3>1. PICK f \in Traversable(Graph) : f.from = e.to
      BY <2>1
    <3>2. EdgeIsSo(f) /\ f.kind # "attached_to"
      BY EdgesAreSo DEF Traversable, _TRAVERSABLE_RELATIONSHIPS
    <3>3. PICK q \in Kept :
              /\ f.from = q.id
              /\ TrueRelationship(q, f) \/ q.type = "iam_role"
      BY <3>2 DEF EdgeIsSo
    <3>4. q.type # "aws_internet_gateway"
      BY <3>2, <3>3 DEF TrueRelationship
    <3> QED
      BY <3>1, <3>3, <3>4
  <2>2. CASE e.to \in DOMAIN Graph.nodes /\ is_data_bearing(Graph, e.to)
    <3>1. role_of(Graph, e.to) \in {"storage", "secrets", "audit_log"}
      BY <2>2 DEF is_data_bearing
    <3>2. role_of(Graph, e.to) \in DOMAIN Roles
      BY <3>1, RoleTypes
    <3>3. PICK q \in Kept : q.id = e.to
      BY <2>2, <3>2, RolesOfNodes
    <3>4. q.type \in Roles[role_of(Graph, e.to)]
      BY <3>2, <3>3, RolesOfNodes
    <3>5. q.type # "aws_internet_gateway"
      BY <3>1, <3>4, RoleTypes
    <3> QED
      BY <3>3, <3>5
  <2> QED
    BY <2>1, <2>2
<1>5. CASE e.kind = "assumes"
  <2>1. q \in CloudResource
    BY RawIsRaw DEF Kept
  <2>2. e.to \notin Range(AccountId) \cup Range(ServiceId)
    BY <1>4, <2>1 DEF CloudResource
  <2> QED
    BY <1>2, <1>5, <2>2 DEF TrueRelationship, TrueEdge
<1>6. CASE e.kind = "accesses"
  BY <1>2, <1>3, <1>6 DEF TrueRelationship, TrueEdge
<1>7. CASE e.kind = "publicly_exposed"
  BY <1>2, <1>7 DEF TrueRelationship, TrueEdge
<1>8. CASE e.kind = "connects_to"
  <2>1. PICK l \in raw.links :
            l.to = e.to /\ l.field = "route" /\ _is_internet_route(l)
    BY <1>2, <1>8 DEF TrueRelationship
  <2>2. q \in estate
    BY DEF Kept
  <2>3. q.type = "aws_internet_gateway"
    BY <1>3, <1>4, <2>1, <2>2, EstatesAssumption DEF IsEstate
  <2> QED
    BY <1>4, <2>3
<1> QED
  BY <1>1, <1>5, <1>6, <1>7, <1>8

\* So all of a path to data is.
LEMMA PathIsTrue ==
    ASSUME estate \in Estates, NEW source, NEW target \in DOMAIN Graph.nodes,
           is_data_bearing(Graph, target),
           NEW path \in TraversablePaths(Graph, source, target)
    PROVE  /\ path \in Seq(Graph.edges) /\ path # <<>>
           /\ Last(path).to = target
           /\ \A i \in DOMAIN path :
                  /\ TrueEdge(path[i])
                  /\ path[i].from = IF i = 1 THEN source ELSE path[i - 1].to
PROOF
<1> DEFINE E == Traversable(Graph)
<1>1. /\ IsWalk(E, source, path) /\ path # <<>>
      /\ Last(path).to = target
  BY PathsAreWalks, WalksAreWalks DEF TraversablePaths
<1>2. E \subseteq Graph.edges
  BY DEF Traversable
<1> HIDE DEF E
<1>3. /\ path \in Seq(E)
      /\ \A i \in DOMAIN path :
             path[i].from = IF i = 1 THEN source ELSE path[i - 1].to
  BY <1>1 DEF IsWalk
<1>4. ASSUME NEW i \in DOMAIN path
      PROVE  TrueEdge(path[i])
  <2>1. path[i] \in E /\ DOMAIN path = 1..Len(path) /\ Len(path) \in Nat
    BY <1>3
  <2>2. CASE i = Len(path)
    <3>1. path[i].to = target
      BY <1>1, <2>2 DEF Last
    <3> QED
      BY <2>1, <3>1, HopIsTrue DEF E
  <2>3. CASE i # Len(path)
    <3>1. i + 1 \in DOMAIN path /\ i + 1 # 1 /\ i + 1 - 1 = i
      BY <2>1, <2>3
    <3>2. path[i + 1] \in E /\ path[i + 1].from = path[i].to
      BY <1>3, <3>1
    <3> QED
      BY <2>1, <3>2, HopIsTrue DEF E
  <2> QED
    BY <2>2, <2>3
<1>5. path \in Seq(Graph.edges)
  BY <1>2, <1>3
<1> QED
  BY <1>1, <1>3, <1>4, <1>5

\* An exposed store is public.
LEMMA ExposedIsPublic ==
    ASSUME estate \in Estates, NEW id \in ExposedStores(Graph, Scanned)
    PROVE  /\ id \in DOMAIN Graph.nodes
           /\ is_data_bearing(Graph, id)
           /\ PublicUnlessDisputed(id)
PROOF
<1>1. /\ id \in DOMAIN Graph.nodes
      /\ role_of(Graph, id) \in {"storage", "secrets", "audit_log"}
      /\ is_data_bearing(Graph, id)
      /\ AttributesOf(Scanned, id).holds \cap _PUBLIC_EXPOSURE_ATTRIBUTES # {}
  BY DEF ExposedStores, is_data_bearing, PublicExposure, EvidenceOfKind
<1>2. role_of(Graph, id) \in DOMAIN Roles
  BY <1>1, RoleTypes
<1>3. PICK raw \in Kept : raw.id = id
  BY <1>1, <1>2, RolesOfNodes
<1>4. raw.type \in Roles[role_of(Graph, id)]
  BY <1>2, <1>3, RolesOfNodes
<1>5. raw.type \in Roles.storage \cup Roles.secrets \cup Roles.audit_log
  BY <1>1, <1>4
<1>6. /\ AttributesOf(Scanned, id) = Reading(raw)
      /\ TrueAttributes(raw, Reading(raw).holds)
  BY <1>3, CollectedNodes, ScannedAre DEF Faithful
<1> QED
  BY <1>1, <1>3, <1>5, <1>6 DEF TrueAttributes

\* An open control of an exposed workload lets everyone in.
LEMMA OpenControlsAreOpen ==
    ASSUME estate \in Estates, NEW id \in DOMAIN Graph.nodes,
           NEW e \in OpenControls(Graph, Scanned, id)
    PROVE  /\ e \in Graph.edges
           /\ e.from = id /\ e.to \in DOMAIN Graph.nodes
           /\ e.kind = "attached_to"
           /\ TrueEdge(e)
           /\ Entered(e.to, id)
PROOF
<1>1. /\ e \in Graph.edges /\ e.from = id /\ e.kind = "attached_to"
      /\ role_of(Graph, id) = "workload"
      /\ "public_ip" \in AttributesOf(Scanned, id).holds
      /\ role_of(Graph, e.to) = "network_control"
      /\ AttributesOf(Scanned, e.to).holds \cap INGRESS_ATTRIBUTES # {}
  BY DEF OpenControls, edges_of, EvidenceOfKind
<1>2. e.to \in DOMAIN Graph.nodes /\ EdgeIsSo(e)
  BY <1>1, EdgesJoinNodes, EdgesAreSo
<1>3. "workload" \in DOMAIN Roles /\ "network_control" \in DOMAIN Roles
  BY RoleTypes
<1>4. PICK raw \in Kept : raw.id = id
  BY <1>1, <1>3, RolesOfNodes
<1>5. PICK q \in Kept : q.id = e.to
  BY <1>1, <1>2, <1>3, RolesOfNodes
<1>6. raw.type \in Roles.workload /\ q.type \in Roles.network_control
  BY <1>1, <1>3, <1>4, <1>5, RolesOfNodes
<1>7. /\ AttributesOf(Scanned, id) = Reading(raw)
      /\ AttributesOf(Scanned, e.to) = Reading(q)
      /\ TrueAttributes(raw, Reading(raw).holds)
      /\ TrueAttributes(q, Reading(q).holds)
  BY <1>4, <1>5, CollectedNodes, ScannedAre DEF Faithful
<1>8. /\ raw.type = "ec2_instance" /\ "public_ip" \in raw.facts
      /\ OpenToAll(e.to)
  BY <1>1, <1>5, <1>6, <1>7 DEF TrueAttributes
<1>9. raw \in estate /\ q \in estate /\ Raw(id) = raw
  BY <1>4, RawIsRaw DEF Kept
<1>10. TrueRelationship(raw, e)
  <2>1. PICK r \in Kept : /\ e.from = r.id
                          /\ TrueRelationship(r, e) \/ e.kind = "accesses"
    BY <1>2 DEF EdgeIsSo
  <2>2. r = raw
    BY <1>1, <1>4, <2>1, ScannedAre
  <2> QED
    BY <1>1, <2>1, <2>2
<1>11. PICK l \in raw.links :
           l.to = e.to /\ l.field \in {"security_group", "subnet"}
  BY <1>1, <1>6, <1>10 DEF TrueRelationship
<1>12. l.field = "security_group"
  <2>1. l.field = "subnet" => q.type = "aws_subnet"
    BY <1>5, <1>9, <1>11, EstatesAssumption DEF IsEstate
  <2> QED
    BY <1>6, <1>11, <2>1, RoleTypes
<1>13. Linked(id, {"security_group"}, e.to)
  BY <1>9, <1>11, <1>12 DEF Linked
<1> QED
  BY <1>1, <1>2, <1>8, <1>9, <1>13 DEF Entered, PublicAddress, TrueEdge

Candidates ==
    _public_identities(Graph, Scanned) \cup
    _exposed_sensitive_data(Graph, Scanned) \cup
    _exposed_workloads(Graph, Scanned) \cup
    _data_flows_into_exposed_stores(Graph, Scanned) \cup
    _internet_to_data_via_identity(Graph, Scanned)

\* A candidate visits nodes of the graph, its edges are among them, and its
\* evidence is so in the cloud.
CandidateIsSo(c) ==
    /\ c.nodes \in Seq(DOMAIN Graph.nodes) /\ c.nodes # <<>>
    /\ c.edges \in Seq(Graph.edges)
    /\ \A i \in DOMAIN c.edges :
           /\ TrueEdge(c.edges[i])
           /\ {c.edges[i].from, c.edges[i].to} \subseteq ToSet(c.nodes)
    /\ "public_ip" \in c.exposure => Entered(c.nodes[1], c.nodes[2])
    /\ c.scenario \in ToPublicStore => PublicUnlessDisputed(Last(c.nodes))

LEMMA NoPublicIp ==
    ASSUME NEW attributes
    PROVE  "public_ip" \notin PublicExposure(attributes)
BY DEF PublicExposure, EvidenceOfKind, _PUBLIC_EXPOSURE_ATTRIBUTES

\* A pair of nodes with the edge between them.
LEMMA PairIsSo ==
    ASSUME estate \in Estates, NEW e \in Graph.edges, TrueEdge(e), NEW c,
           c.nodes = <<e.to, e.from>>, c.edges = <<e>>,
           "public_ip" \in c.exposure => Entered(e.to, e.from),
           c.scenario \notin ToPublicStore
    PROVE  CandidateIsSo(c)
PROOF
<1> DEFINE nodes == <<e.to, e.from>>
           edges == <<e>>
           ids == DOMAIN Graph.nodes
<1>1. e.from \in ids /\ e.to \in ids
  BY EdgesJoinNodes
<1> HIDE DEF ids
<1>2. /\ nodes \in Seq(ids) /\ nodes # <<>>
      /\ DOMAIN nodes = {1, 2} /\ nodes[1] = e.to /\ nodes[2] = e.from
  BY <1>1
<1>3. edges \in Seq(Graph.edges) /\ DOMAIN edges = {1} /\ edges[1] = e
  OBVIOUS
<1> HIDE DEF nodes, edges
<1>4. {e.from, e.to} \subseteq ToSet(nodes)
  BY <1>2 DEF ToSet
<1>5. c.nodes = nodes /\ c.edges = edges
  BY DEF nodes, edges
<1> QED
  BY <1>2, <1>3, <1>4, <1>5 DEF CandidateIsSo, ids

LEMMA PublicIdentitiesAreSo ==
    ASSUME estate \in Estates, NEW c \in _public_identities(Graph, Scanned)
    PROVE  CandidateIsSo(c)
PROOF
<1>1. PICK e \in Graph.edges :
          /\ e.kind = "publicly_exposed"
          /\ c = [Candidate("public_identity_with_privilege",
                            <<e.to, e.from>>, <<e>>,
                            PublicExposure(AttributesOf(Scanned, e.from)))
                  EXCEPT !.internet_edge = TRUE,
                         !.privileges =
                             EvidenceOfKind(AttributesOf(Scanned, e.from),
                                            _PRIVILEGE_ATTRIBUTES),
                         !.incomplete =
                             UndeterminedOf(AttributesOf(Scanned, e.from),
                                            _PRIVILEGE_ATTRIBUTES)]
  BY DEF _public_identities
<1>2. /\ c.nodes = <<e.to, e.from>> /\ c.edges = <<e>>
      /\ c.exposure = PublicExposure(AttributesOf(Scanned, e.from))
      /\ c.scenario = "public_identity_with_privilege"
  BY <1>1 DEF Candidate
<1>3. TrueEdge(e)
  <2>1. EdgeIsSo(e)
    BY EdgesAreSo
  <2> QED
    BY <1>1, <2>1 DEF EdgeIsSo, TrueRelationship, TrueEdge
<1>4. "public_ip" \notin c.exposure
  BY <1>2, NoPublicIp
<1> QED
  BY <1>2, <1>3, <1>4, PairIsSo DEF ToPublicStore

LEMMA ExposedStoresAreSo ==
    ASSUME estate \in Estates,
           NEW c \in _exposed_sensitive_data(Graph, Scanned)
    PROVE  CandidateIsSo(c)
PROOF
<1>1. PICK id \in ExposedStores(Graph, Scanned) :
          c = [Candidate("internet_to_sensitive_data", <<id>>, <<>>,
                         PublicExposure(AttributesOf(Scanned, id)))
               EXCEPT !.privileges =
                          EvidenceOfKind(AttributesOf(Scanned, id),
                                         _PRIVILEGE_ATTRIBUTES),
                      !.incomplete =
                          ExposureUndetermined(AttributesOf(Scanned, id))]
  BY DEF _exposed_sensitive_data
<1>2. /\ c.nodes = <<id>> /\ c.edges = <<>>
      /\ c.exposure = PublicExposure(AttributesOf(Scanned, id))
      /\ c.scenario = "internet_to_sensitive_data"
  BY <1>1 DEF Candidate
<1>3. id \in DOMAIN Graph.nodes /\ PublicUnlessDisputed(id)
  BY ExposedIsPublic
<1>4. /\ c.nodes \in Seq(DOMAIN Graph.nodes) /\ c.nodes # <<>>
      /\ Last(c.nodes) = id
  <2> DEFINE ids == DOMAIN Graph.nodes
             nodes == <<id>>
  <2>1. id \in ids
    BY <1>3
  <2> HIDE DEF ids
  <2>2. nodes \in Seq(ids) /\ nodes # <<>> /\ nodes[Len(nodes)] = id
    BY <2>1
  <2> QED
    BY <1>2, <2>2 DEF Last, ids
<1>5. c.edges \in Seq(Graph.edges) /\ DOMAIN c.edges = {}
  BY <1>2
<1>6. "public_ip" \notin c.exposure
  BY <1>2, NoPublicIp
<1> QED
  BY <1>3, <1>4, <1>5, <1>6 DEF CandidateIsSo

LEMMA ExposedWorkloadsAreSo ==
    ASSUME estate \in Estates, NEW c \in _exposed_workloads(Graph, Scanned)
    PROVE  CandidateIsSo(c)
PROOF
<1> DEFINE all == UNION {OpenControls(Graph, Scanned, id) :
                            id \in DOMAIN Graph.nodes}
           CandidateOf(e) ==
               [Candidate("internet_to_exposed_workload",
                          <<e.to, e.from>>, <<e>>,
                          EntryEvidence(Scanned, e.to))
                EXCEPT !.ingress = TRUE,
                       !.incomplete = ExposureUndetermined(
                                          AttributesOf(Scanned, e.to))]
<1>1. PICK e \in all : c = CandidateOf(e)
  <2>1. c \in {CandidateOf(e) : e \in all}
    BY DEF _exposed_workloads
  <2> HIDE DEF all, CandidateOf
  <2> QED
    BY <2>1
<1>2. PICK id \in DOMAIN Graph.nodes : e \in OpenControls(Graph, Scanned, id)
  OBVIOUS
<1>3. /\ c.nodes = <<e.to, e.from>> /\ c.edges = <<e>>
      /\ c.scenario = "internet_to_exposed_workload"
  BY <1>1 DEF Candidate
<1>4. /\ e \in Graph.edges /\ TrueEdge(e) /\ e.from = id
      /\ Entered(e.to, e.from)
  BY <1>2, OpenControlsAreOpen
<1> QED
  BY <1>3, <1>4, PairIsSo DEF ToPublicStore

\* The nodes a path visits are nodes of the graph, and its edges join them.
LEMMA VisitedAreNodes ==
    ASSUME estate \in Estates, NEW source \in DOMAIN Graph.nodes,
           NEW path \in Seq(Graph.edges), path # <<>>,
           \A i \in DOMAIN path :
               path[i].from = IF i = 1 THEN source ELSE path[i - 1].to
    PROVE  LET nodes == VisitedBy(source, path)
           IN /\ nodes \in Seq(DOMAIN Graph.nodes) /\ nodes # <<>>
              /\ nodes[1] = source
              /\ Last(nodes) = Last(path).to
              /\ \A i \in DOMAIN path :
                     {path[i].from, path[i].to} \subseteq ToSet(nodes)
PROOF
<1> DEFINE nodes == VisitedBy(source, path)
<1>1. \A i \in DOMAIN path : path[i].to \in DOMAIN Graph.nodes
  <2>1. \A i \in DOMAIN path : path[i] \in Graph.edges
    OBVIOUS
  <2> QED
    BY <2>1, EdgesJoinNodes
<1>2. /\ nodes \in Seq(DOMAIN Graph.nodes)
      /\ Len(nodes) = Len(path) + 1
      /\ nodes[1] = source
      /\ Last(nodes) = Last(path).to
  BY <1>1, VisitedAre
<1>3. \A id : id \in ToSet(nodes)
                <=> id = source \/ \E i \in DOMAIN path : id = path[i].to
  BY VisitedAre
<1> HIDE DEF nodes
<1>4. ASSUME NEW i \in DOMAIN path
      PROVE  {path[i].from, path[i].to} \subseteq ToSet(nodes)
  <2>1. path[i].to \in ToSet(nodes)
    BY <1>3
  <2>2. i # 1 => i - 1 \in DOMAIN path
    OBVIOUS
  <2>3. path[i].from \in ToSet(nodes)
    BY <1>3, <2>2
  <2> QED
    BY <2>1, <2>3
<1>5. nodes # <<>>
  BY <1>2
<1> QED
  BY <1>2, <1>4, <1>5 DEF nodes

LEMMA DataFlowsAreSo ==
    ASSUME estate \in Estates,
           NEW c \in _data_flows_into_exposed_stores(Graph, Scanned)
    PROVE  CandidateIsSo(c)
PROOF
<1>1. PICK source \in DOMAIN Graph.nodes :
          c \in FlowsFrom(Graph, Scanned, source)
  BY DEF _data_flows_into_exposed_stores
<1>2. PICK store \in ExposedStores(Graph, Scanned) :
          \E path \in TraversablePaths(Graph, source, store) :
              c = [Candidate("sensitive_data_flow_to_exposed_store",
                             VisitedBy(source, path), path,
                             PublicExposure(AttributesOf(Scanned, store)))
                   EXCEPT !.incomplete = ExposureUndetermined(
                                             AttributesOf(Scanned, store))]
  BY <1>1 DEF FlowsFrom
<1>3. PICK path \in TraversablePaths(Graph, source, store) :
          c = [Candidate("sensitive_data_flow_to_exposed_store",
                         VisitedBy(source, path), path,
                         PublicExposure(AttributesOf(Scanned, store)))
               EXCEPT !.incomplete = ExposureUndetermined(
                                         AttributesOf(Scanned, store))]
  BY <1>2
<1>4. /\ c.nodes = VisitedBy(source, path) /\ c.edges = path
      /\ c.exposure = PublicExposure(AttributesOf(Scanned, store))
  BY <1>3 DEF Candidate
<1>5. /\ store \in DOMAIN Graph.nodes /\ is_data_bearing(Graph, store)
      /\ PublicUnlessDisputed(store)
  BY ExposedIsPublic
<1>6. /\ path \in Seq(Graph.edges) /\ path # <<>>
      /\ Last(path).to = store
      /\ \A i \in DOMAIN path :
             /\ TrueEdge(path[i])
             /\ path[i].from = IF i = 1 THEN source ELSE path[i - 1].to
  BY <1>5, PathIsTrue
<1>7. /\ c.nodes \in Seq(DOMAIN Graph.nodes) /\ c.nodes # <<>>
      /\ Last(c.nodes) = store
      /\ \A i \in DOMAIN path :
             {path[i].from, path[i].to} \subseteq ToSet(c.nodes)
  BY <1>4, <1>6, VisitedAreNodes
<1>8. "public_ip" \notin c.exposure
  BY <1>4, NoPublicIp
<1> QED
  BY <1>4, <1>5, <1>6, <1>7, <1>8 DEF CandidateIsSo

LEMMA ChainsAreSo ==
    ASSUME estate \in Estates,
           NEW c \in _internet_to_data_via_identity(Graph, Scanned)
    PROVE  CandidateIsSo(c)
PROOF
<1>1. PICK workload \in DOMAIN Graph.nodes :
          \E control \in _internet_exposure_of(Graph, Scanned, workload) :
          \E path \in IdentityChains(Graph, workload) :
              c = ChainCandidate(Graph, Scanned, control, workload, path)
  BY DEF _internet_to_data_via_identity
<1>2. PICK control \in _internet_exposure_of(Graph, Scanned, workload),
           path \in IdentityChains(Graph, workload) :
          c = ChainCandidate(Graph, Scanned, control, workload, path)
  BY <1>1
<1>3. PICK e \in OpenControls(Graph, Scanned, workload) : control = e.to
  BY <1>2 DEF _internet_exposure_of
<1>4. control \in DOMAIN Graph.nodes /\ Entered(control, workload)
  BY <1>3, OpenControlsAreOpen
<1>5. PICK target \in DOMAIN Graph.nodes :
          /\ is_data_bearing(Graph, target)
          /\ path \in TraversablePaths(Graph, workload, target)
  BY <1>2 DEF IdentityChains
<1>6. /\ path \in Seq(Graph.edges) /\ path # <<>>
      /\ \A i \in DOMAIN path :
             /\ TrueEdge(path[i])
             /\ path[i].from = IF i = 1 THEN workload ELSE path[i - 1].to
  BY <1>5, PathIsTrue
<1> DEFINE visited == VisitedBy(workload, path)
<1>7. /\ visited \in Seq(DOMAIN Graph.nodes) /\ visited # <<>>
      /\ visited[1] = workload
      /\ \A i \in DOMAIN path :
             {path[i].from, path[i].to} \subseteq ToSet(visited)
  BY <1>6, VisitedAreNodes
<1>8. /\ c.nodes = <<control>> \o visited /\ c.edges = path
      /\ c.scenario = "internet_to_workload_to_identity_to_data"
  BY <1>2 DEF ChainCandidate, Candidate
<1> HIDE DEF visited
<1> DEFINE ids == DOMAIN Graph.nodes
           first == <<control>>
           nodes == first \o visited
<1>9. /\ visited \in Seq(ids)
      /\ first \in Seq(ids) /\ Len(first) = 1 /\ first[1] = control
  <2>1. visited \in Seq(ids) /\ control \in ids
    BY <1>4, <1>7
  <2> HIDE DEF ids
  <2> QED
    BY <2>1
<1> HIDE DEF ids, first
<1>10. /\ nodes \in Seq(ids) /\ nodes # <<>>
       /\ nodes[1] = control /\ nodes[2] = workload
       /\ ToSet(visited) \subseteq ToSet(nodes)
  <2>1. nodes \in Seq(ids) /\ ToSet(nodes) = ToSet(first) \cup ToSet(visited)
    BY <1>9, ElementsOfConcat
  <2>2. Len(visited) > 0 /\ visited[1] = workload
    BY <1>7, <1>9
  <2>3. /\ Len(nodes) = 1 + Len(visited)
        /\ nodes[1] = control /\ nodes[2] = workload
    <3>1. /\ Len(nodes) = Len(first) + Len(visited)
          /\ \A i \in 1..(Len(first) + Len(visited)) :
                 nodes[i] = IF i <= Len(first) THEN first[i]
                            ELSE visited[i - Len(first)]
      <4>1. \A s, u \in Seq(ids) :
                /\ Len(s \o u) = Len(s) + Len(u)
                /\ \A i \in 1..(Len(s) + Len(u)) :
                       (s \o u)[i] = IF i <= Len(s) THEN s[i]
                                     ELSE u[i - Len(s)]
        OBVIOUS
      <4> QED
        BY <4>1, <1>9
    <3>2. Len(visited) \in Nat /\ 2 - 1 = 1
      BY <1>9
    <3>3. /\ 1 \in 1..(1 + Len(visited)) /\ 2 \in 1..(1 + Len(visited))
          /\ 1 <= 1 /\ ~ (2 <= 1)
      BY <2>2, <3>2
    <3>4. /\ nodes[1] = first[1] /\ nodes[2] = visited[2 - 1]
      BY <1>9, <3>1, <3>3
    <3> QED
      BY <1>9, <2>2, <3>1, <3>2, <3>4
  <2>4. nodes # <<>>
    BY <2>1, <2>2, <2>3, <1>9
  <2> QED
    BY <2>1, <2>3, <2>4
<1> HIDE DEF nodes
<1>11. c.nodes = nodes
  BY <1>8 DEF nodes, first
<1> QED
  BY <1>4, <1>6, <1>7, <1>8, <1>10, <1>11
  DEF CandidateIsSo, ToPublicStore, ids

LEMMA CandidatesAreSo ==
    ASSUME estate \in Estates
    PROVE  \A c \in Candidates : CandidateIsSo(c)
BY PublicIdentitiesAreSo, ExposedStoresAreSo, ExposedWorkloadsAreSo,
   DataFlowsAreSo, ChainsAreSo DEF Candidates

-----------------------------------------------------------------------------
(* Scores and confidences                                                  *)

AllConfidences == Confidences \cup {"unknown"}

LEMMA WeakestIsOne ==
    ASSUME NEW S, S \subseteq Confidences, S # {}
    PROVE  _weakest(S) \in AllConfidences
PROOF
<1>1. /\ DOMAIN CONFIDENCE_ORDER = 1..4
      /\ CONFIDENCE_ORDER[1] = "high" /\ CONFIDENCE_ORDER[2] = "medium"
      /\ CONFIDENCE_ORDER[3] = "low" /\ CONFIDENCE_ORDER[4] = "unknown"
  BY DEF CONFIDENCE_ORDER
<1>2. \A x \in Confidences : RankOf(x) \in 1..4
  <2>1. \A x \in Confidences :
            \E i \in DOMAIN CONFIDENCE_ORDER : CONFIDENCE_ORDER[i] = x
    BY <1>1 DEF Confidences
  <2> QED
    BY <1>1, <2>1 DEF RankOf
<1> DEFINE T == {RankOf(x) : x \in S}
<1>3. T \subseteq 0..4 /\ T \subseteq 1..4 /\ T # {}
  BY <1>2
<1>4. Max(T) \in T
  BY <1>3, GreatestElement
<1>5. Max(T) \in 1..4
  BY <1>3, <1>4
<1>6. _weakest(S) = CONFIDENCE_ORDER[Max(T)]
  BY DEF _weakest
<1> HIDE DEF T
<1>7. \A i \in 1..4 : CONFIDENCE_ORDER[i] \in AllConfidences
  <2>1. \A i \in 1..4 : i = 1 \/ i = 2 \/ i = 3 \/ i = 4
    OBVIOUS
  <2> QED
    BY <1>1, <2>1 DEF AllConfidences, Confidences
<1> QED
  BY <1>5, <1>6, <1>7

\* Whatever the evidence, the score stays in its range.
LEMMA ScoreInRange ==
    ASSUME NEW c, NEW E, c.edges \in Seq(E), NEW target,
           NEW confidence \in AllConfidences
    PROVE  score_path(c, target, confidence) \in 0..100
PROOF
<1>1. \A condition, n : Points(condition, n) \in {n, 0}
  BY DEF Points
<1>2. PrivilegePoints(c.privileges) \in Int
  <2> DEFINE n == Points("has_administrator_access" \in c.privileges, 30)
                  + Points(c.privileges \cap
                               {"has_privilege_escalation_path",
                                "has_pass_role_escalation"} # {}, 20)
                  + Points("has_wildcard_action" \in c.privileges, 10)
  <2>1. n \in Int
    <3>1. \A condition : /\ Points(condition, 30) \in Int
                         /\ Points(condition, 20) \in Int
                         /\ Points(condition, 10) \in Int
      BY DEF Points
    <3> QED
      BY <3>1
  <2>2. PrivilegePoints(c.privileges) = Min({30, n})
    BY DEF PrivilegePoints
  <2> HIDE DEF n
  <2> QED
    BY <2>1, <2>2, Capped
<1> DEFINE hops == Len(c.edges)
           kinds == {c.edges[i].kind : i \in DOMAIN c.edges}
           long == Max({0, hops - 1})
           length == Min({15, 5 * long})
<1>3. length \in Int
  <2>1. hops \in Nat
    OBVIOUS
  <2> HIDE DEF hops
  <2>2. hops - 1 \in Int
    BY <2>1
  <2>3. long \in Int
    <3> DEFINE zero == 0
    <3>1. zero \in Int
      OBVIOUS
    <3>2. long = Max({zero, hops - 1})
      OBVIOUS
    <3> HIDE DEF zero
    <3> QED
      BY <2>2, <3>1, <3>2, Capped
  <2> HIDE DEF long
  <2>4. 5 * long \in Int
    BY <2>3
  <2> QED
    BY <2>4, Capped
<1> DEFINE a == IF c.internet_edge THEN 40 ELSE Points(c.exposure # {}, 35)
           b == Points(c.ingress, 15)
           d == IF target \in _SENSITIVE_ROLES THEN Sensitivity[target] ELSE 0
           e == IF "assumes" \in kinds THEN 10
                ELSE Points("accesses" \in kinds, 5)
           f == CONFIDENCE_PENALTY[confidence]
           h == Points(c.incomplete, 20)
           raw == RawScore(c, target, confidence)
<1>4. raw = a + b + PrivilegePoints(c.privileges) + d + e - length - f - h
  BY DEF RawScore
<1>5. a \in Int
  BY DEF Points
<1>6. b \in Int /\ h \in Int
  BY DEF Points
<1>7. d \in Int
  BY DEF _SENSITIVE_ROLES, Sensitivity
<1>8. e \in Int
  BY DEF Points
<1>9. f \in Int
  BY DEF CONFIDENCE_PENALTY, AllConfidences, Confidences
<1> HIDE DEF a, b, d, e, f, h, length
<1>10. raw \in Int
  BY <1>2, <1>3, <1>4, <1>5, <1>6, <1>7, <1>8, <1>9
<1>11. score_path(c, target, confidence) = Max({0, Min({100, raw})})
  BY DEF score_path
<1> HIDE DEF raw
<1> DEFINE low == Min({100, raw})
<1>12. low \in Int /\ low <= 100
  BY <1>10, Capped
<1> HIDE DEF low
<1>13. Max({0, low}) \in 0..100
  <2> DEFINE zero == 0
  <2>1. zero \in Int /\ (IF low >= zero THEN low ELSE zero) \in 0..100
    BY <1>12
  <2>2. Max({0, low}) = Max({zero, low})
    OBVIOUS
  <2> HIDE DEF zero
  <2>3. Max({zero, low}) = IF low >= zero THEN low ELSE zero
    BY <1>12, <2>1, Capped, ZenonT(40)
  <2> QED
    BY <2>1, <2>2, <2>3
<1> QED
  BY <1>11, <1>13 DEF low

\* A path the analysis makes of a candidate.
PathIsSo(p) ==
    /\ CandidateIsSo(p)
    /\ p.score \in 0..100
    /\ p.confidence \in AllConfidences

LEMMA AnalyzedAre ==
    ASSUME estate \in Estates
    PROVE  /\ \A p \in analyze(Graph, Scanned) :
                  PathIsSo(p) /\ Constructible(p)
           /\ \A c \in Candidates :
                  \E p \in analyze(Graph, Scanned) :
                      p.scenario = c.scenario /\ p.nodes = c.nodes
           /\ analyze(Graph, Scanned)
                  = {_to_attack_path(Graph, c) : c \in Candidates}
PROOF
<1>1. analyze(Graph, Scanned) = {_to_attack_path(Graph, c) : c \in Candidates}
  BY DEF analyze, Candidates
<1>2. ASSUME NEW c \in Candidates
      PROVE  LET p == _to_attack_path(Graph, c)
             IN /\ PathIsSo(p) /\ Constructible(p)
                /\ p.scenario = c.scenario /\ p.nodes = c.nodes
  <2> DEFINE p == _to_attack_path(Graph, c)
             all == {Graph.nodes[c.nodes[i]].confidence : i \in DOMAIN c.nodes}
                    \cup {c.edges[i].confidence : i \in DOMAIN c.edges}
             weakest == _weakest(all)
  <2>1. /\ p.scenario = c.scenario /\ p.nodes = c.nodes /\ p.edges = c.edges
        /\ p.exposure = c.exposure
        /\ p.confidence = weakest
        /\ p.score = score_path(c, role_of(Graph, Last(c.nodes)), weakest)
    BY DEF _to_attack_path
  <2>2. CandidateIsSo(c)
    BY CandidatesAreSo
  <2>3. CandidateIsSo(p)
    BY <2>1, <2>2 DEF CandidateIsSo
  <2>4. all \subseteq Confidences /\ all # {}
    <3>1. ASSUME NEW id \in DOMAIN Graph.nodes
          PROVE  Graph.nodes[id].confidence \in Confidences
      BY CollectedNodes, ExternalNodes DEF Confidences
    <3>2. \A i \in DOMAIN c.nodes : c.nodes[i] \in DOMAIN Graph.nodes
      BY <2>2 DEF CandidateIsSo
    <3>3. \A i \in DOMAIN c.edges : c.edges[i] \in Graph.edges
      BY <2>2 DEF CandidateIsSo
    <3>4. \A e \in Graph.edges : e.confidence \in Confidences
      BY EdgesAreSo DEF EdgeIsSo
    <3>5. 1 \in DOMAIN c.nodes
      BY <2>2 DEF CandidateIsSo
    <3> QED
      BY <3>1, <3>2, <3>3, <3>4, <3>5
  <2> HIDE DEF p, all
  <2>5. weakest \in AllConfidences
    BY <2>4, WeakestIsOne
  <2>6. p.score \in 0..100
    BY <2>1, <2>2, <2>5, ScoreInRange DEF CandidateIsSo
  <2>7. Constructible(p)
    BY <2>3, <2>6 DEF Constructible, CandidateIsSo
  <2> QED
    BY <2>1, <2>3, <2>5, <2>6, <2>7 DEF PathIsSo, p
<1> QED
  BY <1>1, <1>2

LEMMA FinitePart ==
    ASSUME NEW S, IsFiniteSet(S), NEW f, DOMAIN f = S,
           NEW T, \A y \in T : \E x \in S : y = f[x]
    PROVE  IsFiniteSet(T)
PROOF
<1>1. IsFiniteSet({f[x] : x \in S})
  BY FiniteImage
<1>2. T \subseteq {f[x] : x \in S}
  OBVIOUS
<1> QED
  BY <1>1, <1>2, FS_Subset

\* The search ends: a finite graph has finitely many candidates.
LEMMA FinitelyMany ==
    ASSUME estate \in Estates
    PROVE  IsFiniteSet(analyze(Graph, Scanned))
PROOF
<1> DEFINE E == Graph.edges
           N == DOMAIN Graph.nodes
           T == Traversable(Graph)
           walks == UNION {Walks(T, source) : source \in N}
           triples == N \X (N \X walks)
<1>1. IsFiniteSet(E) /\ IsFiniteSet(N)
  BY FiniteGraph
<1>2. IsFiniteSet(T)
  <2>1. T \subseteq E
    BY DEF Traversable
  <2> QED
    BY <1>1, <2>1, FS_Subset
<1>3. IsFiniteSet(walks)
  <2> DEFINE f == [source \in N |-> Walks(T, source)]
  <2>1. DOMAIN f = N /\ \A source \in N : f[source] = Walks(T, source)
    OBVIOUS
  <2>2. walks = UNION {f[source] : source \in N}
    BY <2>1
  <2> HIDE DEF f, N, T, walks
  <2>3. \A source \in N : IsFiniteSet(f[source])
    BY <1>2, <2>1, WalksAreWalks
  <2> QED
    BY <1>1, <2>1, <2>2, <2>3, FiniteUnion
<1>4. IsFiniteSet(triples)
  <2> HIDE DEF N, walks
  <2>1. IsFiniteSet(N \X walks)
    BY <1>1, <1>3, FS_Product
  <2> QED
    BY <1>1, <2>1, FS_Product
<1>5. \A source \in N : \A target :
          TraversablePaths(Graph, source, target) \subseteq walks
  <2>1. \A source, target :
            TraversablePaths(Graph, source, target) \subseteq Walks(T, source)
    BY PathsAreWalks DEF TraversablePaths
  <2> QED
    BY <2>1
<1> HIDE DEF E, N, T, walks, triples
<1>6. IsFiniteSet(_public_identities(Graph, Scanned))
  <2> DEFINE C(e) == [Candidate("public_identity_with_privilege",
                                <<e.to, e.from>>, <<e>>,
                                PublicExposure(AttributesOf(Scanned, e.from)))
                      EXCEPT !.internet_edge = TRUE,
                             !.privileges = EvidenceOfKind(
                                 AttributesOf(Scanned, e.from),
                                 _PRIVILEGE_ATTRIBUTES),
                             !.incomplete = UndeterminedOf(
                                 AttributesOf(Scanned, e.from),
                                 _PRIVILEGE_ATTRIBUTES)]
             f == [e \in E |-> C(e)]
  <2>1. \A c \in _public_identities(Graph, Scanned) : \E e \in E : c = C(e)
    BY DEF _public_identities, E
  <2>2. DOMAIN f = E /\ \A e \in E : f[e] = C(e)
    <3> HIDE DEF C
    <3> QED
      OBVIOUS
  <2> HIDE DEF C, f
  <2>3. \A c \in _public_identities(Graph, Scanned) : \E e \in E : c = f[e]
    BY <2>1, <2>2
  <2> QED
    BY <1>1, <2>2, <2>3, FinitePart
<1>7. IsFiniteSet(_exposed_sensitive_data(Graph, Scanned))
  <2> DEFINE C(id) == [Candidate("internet_to_sensitive_data", <<id>>, <<>>,
                                 PublicExposure(AttributesOf(Scanned, id)))
                       EXCEPT !.privileges = EvidenceOfKind(
                                  AttributesOf(Scanned, id),
                                  _PRIVILEGE_ATTRIBUTES),
                              !.incomplete = ExposureUndetermined(
                                  AttributesOf(Scanned, id))]
             f == [id \in N |-> C(id)]
  <2>1. \A c \in _exposed_sensitive_data(Graph, Scanned) :
            \E id \in N : c = C(id)
    <3>1. ExposedStores(Graph, Scanned) \subseteq N
      BY DEF ExposedStores, N
    <3>2. _exposed_sensitive_data(Graph, Scanned)
              = {C(id) : id \in ExposedStores(Graph, Scanned)}
      BY DEF _exposed_sensitive_data
    <3> HIDE DEF C
    <3> QED
      BY <3>1, <3>2
  <2>2. DOMAIN f = N /\ \A id \in N : f[id] = C(id)
    <3> HIDE DEF C
    <3> QED
      OBVIOUS
  <2> HIDE DEF C, f
  <2>3. \A c \in _exposed_sensitive_data(Graph, Scanned) : \E id \in N : c = f[id]
    BY <2>1, <2>2
  <2> QED
    BY <1>1, <2>2, <2>3, FinitePart
<1>8. IsFiniteSet(_exposed_workloads(Graph, Scanned))
  <2> DEFINE C(e) == [Candidate("internet_to_exposed_workload",
                                <<e.to, e.from>>, <<e>>,
                                EntryEvidence(Scanned, e.to))
                      EXCEPT !.ingress = TRUE,
                             !.incomplete = ExposureUndetermined(
                                                AttributesOf(Scanned, e.to))]
             all == UNION {OpenControls(Graph, Scanned, id) :
                              id \in DOMAIN Graph.nodes}
             f == [e \in E |-> C(e)]
  <2>1. \A c \in _exposed_workloads(Graph, Scanned) : \E e \in E : c = C(e)
    <3>1. all \subseteq E
      BY DEF OpenControls, edges_of, E
    <3>2. _exposed_workloads(Graph, Scanned) = {C(e) : e \in all}
      BY DEF _exposed_workloads
    <3> HIDE DEF C, all
    <3> QED
      BY <3>1, <3>2
  <2>2. DOMAIN f = E /\ \A e \in E : f[e] = C(e)
    <3> HIDE DEF C
    <3> QED
      OBVIOUS
  <2> HIDE DEF C, f
  <2>3. \A c \in _exposed_workloads(Graph, Scanned) : \E e \in E : c = f[e]
    BY <2>1, <2>2
  <2> QED
    BY <1>1, <2>2, <2>3, FinitePart
<1>9. IsFiniteSet(_data_flows_into_exposed_stores(Graph, Scanned))
  <2> DEFINE C(source, store, path) ==
                 [Candidate("sensitive_data_flow_to_exposed_store",
                            VisitedBy(source, path), path,
                            PublicExposure(AttributesOf(Scanned, store)))
                  EXCEPT !.incomplete = ExposureUndetermined(
                                            AttributesOf(Scanned, store))]
             f == [t \in triples |-> C(t[1], t[2][1], t[2][2])]
             all == _data_flows_into_exposed_stores(Graph, Scanned)
  <2>1. ASSUME NEW c \in all
        PROVE  \E t \in triples : c = C(t[1], t[2][1], t[2][2])
    <3>1. PICK source \in N : c \in FlowsFrom(Graph, Scanned, source)
      BY DEF _data_flows_into_exposed_stores, N
    <3>2. PICK store \in ExposedStores(Graph, Scanned) :
              \E path \in TraversablePaths(Graph, source, store) :
                  c = C(source, store, path)
      BY <3>1 DEF FlowsFrom
    <3> HIDE DEF C
    <3>3. PICK path \in TraversablePaths(Graph, source, store) :
              c = C(source, store, path)
      BY <3>2
    <3>4. store \in N /\ path \in walks
      BY <1>5 DEF ExposedStores, N
    <3> DEFINE t == <<source, <<store, path>>>>
    <3>5. t \in triples /\ c = C(t[1], t[2][1], t[2][2])
      BY <3>3, <3>4 DEF triples
    <3> QED
      BY <3>5
  <2>2. DOMAIN f = triples
        /\ \A t \in triples : f[t] = C(t[1], t[2][1], t[2][2])
    <3> HIDE DEF C
    <3> QED
      OBVIOUS
  <2> HIDE DEF C, f, all
  <2>3. \A c \in all : \E t \in triples : c = f[t]
    BY <2>1, <2>2
  <2> QED
    BY <1>4, <2>2, <2>3, FinitePart DEF all
<1>10. IsFiniteSet(_internet_to_data_via_identity(Graph, Scanned))
  <2> DEFINE C(control, workload, path) ==
                 ChainCandidate(Graph, Scanned, control, workload, path)
             f == [t \in triples |-> C(t[1], t[2][1], t[2][2])]
             all == _internet_to_data_via_identity(Graph, Scanned)
  <2>1. ASSUME NEW c \in all
        PROVE  \E t \in triples : c = C(t[1], t[2][1], t[2][2])
    <3>1. PICK workload \in N :
              \E control \in _internet_exposure_of(Graph, Scanned, workload) :
              \E path \in IdentityChains(Graph, workload) :
                  c = C(control, workload, path)
      BY DEF _internet_to_data_via_identity, N
    <3> HIDE DEF C
    <3>2. PICK control \in _internet_exposure_of(Graph, Scanned, workload),
               path \in IdentityChains(Graph, workload) :
              c = C(control, workload, path)
      BY <3>1
    <3>3. control \in N
      <4>1. PICK e \in OpenControls(Graph, Scanned, workload) : control = e.to
        BY DEF _internet_exposure_of
      <4> QED
        BY <4>1, OpenControlsAreOpen DEF N
    <3>4. path \in walks
      BY <1>5 DEF IdentityChains
    <3> DEFINE t == <<control, <<workload, path>>>>
    <3>5. t \in triples /\ c = C(t[1], t[2][1], t[2][2])
      BY <3>2, <3>3, <3>4 DEF triples
    <3> QED
      BY <3>5
  <2>2. DOMAIN f = triples
        /\ \A t \in triples : f[t] = C(t[1], t[2][1], t[2][2])
    <3> HIDE DEF C
    <3> QED
      OBVIOUS
  <2> HIDE DEF C, f, all
  <2>3. \A c \in all : \E t \in triples : c = f[t]
    BY <2>1, <2>2
  <2> QED
    BY <1>4, <2>2, <2>3, FinitePart DEF all
<1>11. IsFiniteSet(Candidates)
  <2>1. IsFiniteSet(_public_identities(Graph, Scanned) \cup
                    _exposed_sensitive_data(Graph, Scanned))
    BY <1>6, <1>7, FS_Union
  <2>2. IsFiniteSet(_public_identities(Graph, Scanned) \cup
                    _exposed_sensitive_data(Graph, Scanned) \cup
                    _exposed_workloads(Graph, Scanned))
    BY <2>1, <1>8, FS_Union
  <2>3. IsFiniteSet(_public_identities(Graph, Scanned) \cup
                    _exposed_sensitive_data(Graph, Scanned) \cup
                    _exposed_workloads(Graph, Scanned) \cup
                    _data_flows_into_exposed_stores(Graph, Scanned))
    BY <2>2, <1>9, FS_Union
  <2> QED
    BY <2>3, <1>10, FS_Union DEF Candidates
<1>12. analyze(Graph, Scanned) = {_to_attack_path(Graph, c) : c \in Candidates}
  BY AnalyzedAre
<1> DEFINE f == [c \in Candidates |-> _to_attack_path(Graph, c)]
<1>13. IsFiniteSet({f[c] : c \in Candidates})
  BY <1>11, FiniteImage
<1>14. {f[c] : c \in Candidates} = analyze(Graph, Scanned)
  BY <1>12
<1> QED
  BY <1>13, <1>14

-----------------------------------------------------------------------------
(* Risks and rows                                                          *)

\* No factor of a finding leaves the range RiskScore accepts.
LEMMA RiskIsAccepted ==
    ASSUME estate \in Estates, NEW finding \in Findings,
           NEW found, found \subseteq analyze(Graph, Scanned)
    PROVE  calculate(FactorsOf(finding, found)) >= 0
PROOF
<1>1. finding \in Finding
  BY FindingsAssumption
<1>2. IsFiniteSet(found)
  BY FinitelyMany, FS_Subset
<1>3. \A p \in found : p.score \in 0..100 /\ p.confidence \in AllConfidences
  BY AnalyzedAre DEF PathIsSo
<1>4. WorstScore(found) \in 0..100
  <2> DEFINE scores == {0} \cup {p.score : p \in found}
  <2>1. scores \subseteq 0..100 /\ scores # {}
    BY <1>3
  <2> HIDE DEF scores
  <2>2. Max(scores) \in scores
    BY <2>1, GreatestElement
  <2> QED
    BY <2>1, <2>2 DEF WorstScore, scores
<1>5. confidence_factor(finding, found) \in 0..100
  <2>1. \A x \in AllConfidences : CONFIDENCE_FACTOR[x] \in 0..100
    BY DEF CONFIDENCE_FACTOR, AllConfidences, Confidences
  <2>2. CASE found = {}
    <3>1. "low" \in AllConfidences /\ "high" \in AllConfidences
      BY DEF AllConfidences, Confidences
    <3> QED
      BY <2>1, <2>2, <3>1 DEF confidence_factor
  <2>3. CASE found # {}
    <3> DEFINE factors == {CONFIDENCE_FACTOR[p.confidence] : p \in found}
    <3>1. factors \subseteq 0..100 /\ factors # {}
      BY <1>3, <2>1, <2>3
    <3>2. confidence_factor(finding, found) = Min(factors)
      BY <2>3 DEF confidence_factor
    <3> HIDE DEF factors
    <3>3. Min(factors) \in factors
      <4>1. factors \subseteq Nat
        BY <3>1
      <4> QED
        BY <3>1, <4>1, SmallestElement
    <3> QED
      BY <3>1, <3>2, <3>3
  <2> QED
    BY <2>2, <2>3
<1>6. attack_path_involvement_factor(found) \in 0..100
  <2>1. CASE found = {}
    BY <2>1 DEF attack_path_involvement_factor
  <2>2. CASE found # {}
    <3> DEFINE others == Cardinality(found) - 1
               bonus == Min({3, others})
               sum == WorstScore(found) + 10 * bonus
    <3>1. others \in Nat
      <4>1. Cardinality(found) \in Nat /\ Cardinality(found) # 0
        BY <1>2, <2>2, FS_CardinalityType, FS_EmptySet
      <4> QED
        BY <4>1
    <3> HIDE DEF others
    <3>2. bonus \in Nat
      BY <3>1, Capped
    <3> HIDE DEF bonus
    <3>3. sum \in Nat
      BY <1>4, <3>2
    <3>4. attack_path_involvement_factor(found) = Min({100, sum})
      BY <2>2 DEF attack_path_involvement_factor, bonus, others
    <3> HIDE DEF sum
    <3>5. Min({100, sum}) = IF sum <= 100 THEN sum ELSE 100
      BY <3>3, Capped
    <3>6. (IF sum <= 100 THEN sum ELSE 100) \in 0..100
      BY <3>3
    <3> QED
      BY <3>4, <3>5, <3>6
  <2> QED
    BY <2>1, <2>2
<1>7. /\ SEVERITY_FACTOR[finding.severity] \in 0..100
      /\ ENVIRONMENT_FACTOR[finding.environment] \in 0..100
  BY <1>1 DEF Finding, SEVERITY_FACTOR, ENVIRONMENT_FACTOR
<1> DEFINE f == FactorsOf(finding, found)
<1>8. /\ DOMAIN f = {"severity", "exposure", "environment", "confidence",
                     "involvement"}
      /\ f.severity \in 0..100 /\ f.exposure \in 0..100
      /\ f.environment \in 0..100 /\ f.confidence \in 0..100
      /\ f.involvement \in 0..100
  BY <1>4, <1>5, <1>6, <1>7 DEF FactorsOf
<1> HIDE DEF f
<1>9. \A name \in DOMAIN f : f[name] \in 0..100
  BY <1>8
<1>10. calculate(f) = 40 * f.severity + 25 * f.exposure + 10 * f.environment
                      + 10 * f.confidence + 15 * f.involvement
  BY <1>9 DEF calculate
<1>11. calculate(f) >= 0
  <2> DEFINE a == f.severity
             b == f.exposure
             c == f.environment
             d == f.confidence
             e == f.involvement
  <2>1. /\ a \in 0..100 /\ b \in 0..100 /\ c \in 0..100
        /\ d \in 0..100 /\ e \in 0..100
        /\ calculate(f) = 40 * a + 25 * b + 10 * c + 10 * d + 15 * e
    BY <1>8, <1>10
  <2> HIDE DEF a, b, c, d, e
  <2> QED
    BY <2>1
<1> QED
  BY <1>11 DEF f

\* Inserted highest score first, a row keeps the highest score of its id.
LEMMA RowsAreWorst ==
    ASSUME NEW found, \A p \in found : p.score \in 0..100
    PROVE  LET rows == InsertPaths(found)
           IN /\ DOMAIN rows = {PathId(p) : p \in found}
              /\ \A p \in found : rows[PathId(p)] >= p.score
              /\ \A id \in DOMAIN rows : rows[id] \in 0..100
PROOF
<1> DEFINE Body(f) ==
               f = [n \in 0..101 |-> IF n = 101 THEN <<>>
                                     ELSE WithRowsOf(f[n + 1], found, n)]
           rows == CHOOSE f : Body(f)
           Scores(id) == {p.score : p \in {q \in found : PathId(q) = id}}
           Ids(n) == {PathId(p) : p \in {q \in found : q.score >= n}}
           At(n) == {PathId(p) : p \in {q \in found : q.score = n}}
           Closed(n) == IF n = 101 THEN <<>>
                        ELSE [id \in Ids(n) |-> Max(Scores(id))]
<1>1. InsertPaths(found) = rows[0]
  BY DEF InsertPaths
<1>2. \A p \in found : /\ Max(Scores(PathId(p))) \in 0..100
                       /\ Max(Scores(PathId(p))) >= p.score
                       /\ \E q \in found :
                             /\ PathId(q) = PathId(p)
                             /\ q.score = Max(Scores(PathId(p)))
  <2> SUFFICES ASSUME NEW p \in found
               PROVE  /\ Max(Scores(PathId(p))) \in 0..100
                      /\ Max(Scores(PathId(p))) >= p.score
                      /\ \E q \in found :
                            /\ PathId(q) = PathId(p)
                            /\ q.score = Max(Scores(PathId(p)))
    OBVIOUS
  <2> DEFINE S == Scores(PathId(p))
  <2>1. S \subseteq 0..100 /\ p.score \in S
    OBVIOUS
  <2>2. \A x \in S : \E q \in found : PathId(q) = PathId(p) /\ q.score = x
    OBVIOUS
  <2> HIDE DEF S
  <2>3. Max(S) \in S /\ \A x \in S : x <= Max(S)
    BY <2>1, GreatestElement
  <2>4. Max(S) \in 0..100 /\ Max(S) >= p.score
    BY <2>1, <2>3
  <2> QED
    BY <2>2, <2>3, <2>4 DEF S
<1>3. /\ \A id : id \in Ids(0) <=> \E p \in found : id = PathId(p)
      /\ \A n \in 0..100 : \A id :
             id \in Ids(n) <=> id \in Ids(n + 1) \/ id \in At(n)
      /\ Ids(101) = {}
  <2>1. \A n \in 0..100 : \A p \in found :
            p.score >= n <=> p.score >= n + 1 \/ p.score = n
    OBVIOUS
  <2>2. \A p \in found : p.score >= 0 /\ ~ (p.score >= 101)
    OBVIOUS
  <2>3. \A id : id \in Ids(0) <=> \E p \in found : id = PathId(p)
    BY <2>2
  <2>4. Ids(101) = {}
    BY <2>2
  <2>5. ASSUME NEW n \in 0..100, NEW id
        PROVE  id \in Ids(n) <=> id \in Ids(n + 1) \/ id \in At(n)
    <3>1. \A p \in found : p.score >= n <=> p.score >= n + 1 \/ p.score = n
      BY <2>1
    <3>2. id \in Ids(n) <=> \E p \in found : p.score >= n /\ id = PathId(p)
      BY Zenon
    <3>3. id \in Ids(n + 1) <=>
              \E p \in found : p.score >= n + 1 /\ id = PathId(p)
      BY Zenon
    <3>4. id \in At(n) <=> \E p \in found : p.score = n /\ id = PathId(p)
      BY Zenon
    <3> HIDE DEF Ids, At
    <3> QED
      BY <3>1, <3>2, <3>3, <3>4, Zenon
  <2> QED
    BY <2>3, <2>4, <2>5, Zenon
<1>4. \A n \in 0..100 : \A id \in At(n) :
          id \notin Ids(n + 1) => Max(Scores(id)) = n
  <2> SUFFICES ASSUME NEW n \in 0..100, NEW id \in At(n),
                      id \notin Ids(n + 1)
               PROVE  Max(Scores(id)) = n
    OBVIOUS
  <2>1. PICK p \in found : p.score = n /\ PathId(p) = id
    OBVIOUS
  <2> DEFINE worst == Max(Scores(PathId(p)))
  <2>2. /\ worst \in 0..100 /\ worst >= n
        /\ \E q \in found : PathId(q) = id /\ q.score = worst
    BY <1>2, <2>1
  <2> HIDE DEF worst
  <2>3. PICK q \in found : PathId(q) = id /\ q.score = worst
    BY <2>2
  <2>4. ~ (q.score >= n + 1)
    BY <2>3
  <2>5. worst = n
    BY <2>2, <2>3, <2>4
  <2> QED
    BY <2>1, <2>5 DEF worst
<1>5. \A n \in 0..101 : DOMAIN Closed(n) = Ids(n)
  <2>1. DOMAIN <<>> = {}
    OBVIOUS
  <2> HIDE DEF Ids, Scores
  <2> QED
    BY <1>3, <2>1
<1>6. \A n, f : WithRowsOf(f, found, n)
                     = [id \in DOMAIN f \cup At(n) |->
                           IF id \in DOMAIN f THEN f[id] ELSE n]
  BY DEF WithRowsOf
<1> HIDE DEF Ids, At, Scores
<1>7. \A n \in 0..100 : Closed(n) = WithRowsOf(Closed(n + 1), found, n)
  <2> SUFFICES ASSUME NEW n \in 0..100
               PROVE  Closed(n) = WithRowsOf(Closed(n + 1), found, n)
    OBVIOUS
  <2>1. n # 101 /\ n + 1 \in 0..101 /\ n \in 0..101
    OBVIOUS
  <2> DEFINE above == Closed(n + 1)
  <2>2. /\ DOMAIN above = Ids(n + 1)
        /\ \A id \in Ids(n + 1) : above[id] = Max(Scores(id))
    <3>1. CASE n + 1 = 101
      BY <1>3, <1>5, <2>1, <3>1
    <3>2. CASE n + 1 # 101
      BY <2>1, <3>2
    <3> QED
      BY <3>1, <3>2
  <2>3. Closed(n) = [id \in Ids(n) |-> Max(Scores(id))]
    BY <2>1
  <2> HIDE DEF above, Closed
  <2>4. WithRowsOf(above, found, n)
            = [id \in DOMAIN above \cup At(n) |->
                  IF id \in DOMAIN above THEN above[id] ELSE n]
    BY <1>6
  <2>5. Ids(n) = DOMAIN above \cup At(n)
    BY <1>3, <2>2
  <2>6. \A id \in Ids(n) : Max(Scores(id)) = IF id \in DOMAIN above
                                             THEN above[id] ELSE n
    BY <1>4, <2>2, <2>5
  <2>7. Closed(n) = WithRowsOf(above, found, n)
    BY <2>3, <2>4, <2>5, <2>6
  <2> QED
    BY <2>7 DEF above
<1> HIDE DEF Closed
<1>8. \E f : Body(f)
  <2> DEFINE h == [n \in 0..101 |-> Closed(n)]
  <2>1. \A n \in 0..101 : h[n] = IF n = 101 THEN <<>>
                                 ELSE WithRowsOf(h[n + 1], found, n)
    <3> SUFFICES ASSUME NEW n \in 0..101
                 PROVE  h[n] = IF n = 101 THEN <<>>
                               ELSE WithRowsOf(h[n + 1], found, n)
      OBVIOUS
    <3>1. CASE n = 101
      BY <3>1 DEF Closed
    <3>2. CASE n # 101
      <4>1. n \in 0..100 /\ n + 1 \in 0..101
        BY <3>2
      <4>2. h[n] = Closed(n) /\ h[n + 1] = Closed(n + 1)
        BY <4>1
      <4> QED
        BY <1>7, <3>2, <4>1, <4>2
    <3> QED
      BY <3>1, <3>2
  <2> DEFINE H == [n \in 0..101 |-> IF n = 101 THEN <<>>
                                    ELSE WithRowsOf(h[n + 1], found, n)]
  <2>2. h = H
    <3>1. DOMAIN h = DOMAIN H /\ \A n \in 0..101 : h[n] = H[n]
      BY <2>1
    <3> QED
      BY <2>1
  <2>3. Body(h)
    BY <2>2
  <2> QED
    BY <2>3
<1>9. Body(rows)
  <2> HIDE DEF Body
  <2> QED
    BY <1>8
<1>10. \A n \in 0..101 : rows[n] = IF n = 101 THEN <<>>
                                   ELSE WithRowsOf(rows[n + 1], found, n)
  BY <1>9
<1> HIDE DEF rows
<1>11. \A n \in 0..101 : rows[n] = Closed(n)
  <2> DEFINE Bad == {k \in 0..101 : rows[101 - k] # Closed(101 - k)}
  <2>1. Bad = {}
    <3>1. SUFFICES ASSUME Bad # {} PROVE FALSE
      OBVIOUS
    <3>2. Bad \subseteq Nat
      OBVIOUS
    <3>3. PICK k \in Bad : \A j \in Bad : k <= j
      BY <3>1, <3>2, LeastElement
    <3>4. k \in 0..101 /\ 101 - k \in 0..101
      BY <3>3
    <3>5. CASE k = 0
      <4>1. rows[101] = Closed(101)
        BY <1>10 DEF Closed
      <4> QED
        BY <3>3, <3>5, <4>1
    <3>6. CASE k # 0
      <4> DEFINE n == 101 - k
      <4>1. n \in 0..100 /\ n \in 0..101 /\ n # 101 /\ n + 1 = 101 - (k - 1)
            /\ k - 1 \in 0..101 /\ ~ (k <= k - 1)
        BY <3>4, <3>6
      <4>2. rows[n + 1] = Closed(n + 1)
        BY <3>3, <4>1
      <4>3. rows[n] # Closed(n)
        BY <3>3
      <4> HIDE DEF n
      <4>4. rows[n] = WithRowsOf(rows[n + 1], found, n)
        BY <1>10, <4>1
      <4> QED
        BY <1>7, <4>1, <4>2, <4>3, <4>4
    <3> QED
      BY <3>5, <3>6
  <2> SUFFICES ASSUME NEW n \in 0..101
               PROVE  rows[n] = Closed(n)
    OBVIOUS
  <2>2. 101 - n \in 0..101 /\ 101 - (101 - n) = n
    OBVIOUS
  <2> QED
    BY <2>1, <2>2
<1>12. /\ DOMAIN rows[0] = Ids(0)
       /\ \A id \in Ids(0) : rows[0][id] = Max(Scores(id))
  <2>1. 0 \in 0..101 /\ 0 # 101
    OBVIOUS
  <2>2. rows[0] = Closed(0)
    BY <1>11, <2>1
  <2> QED
    BY <2>2 DEF Closed
<1> QED
  BY <1>1, <1>2, <1>3, <1>12

-----------------------------------------------------------------------------
(* What a scan that could read everything finds                            *)

LEMMA PublicStoreIsSeen ==
    ASSUME estate \in Estates, NEW raw \in estate, PublicStore(raw.id),
           raw.type \in ReadForExposure
    PROVE  /\ PublicExposure(Reading(raw)) # {}
           /\ raw.type \in Roles.storage \cup Roles.secrets
PROOF
<1>1. Raw(raw.id) = raw
  BY RawIsRaw
<1>2. CASE raw.type = "s3_bucket"
  <2>1. Reading(raw) = normalize_s3_bucket(raw)
    BY <1>2 DEF Reading, normalize
  <2>2. PICK a \in ResourcePolicy(raw.id) :
            /\ a.effect = "allow" /\ ~ a.conditioned
            /\ ForEveryone(a, {"*", "AWS"})
    BY <1>1, <1>2 DEF PublicStore, AnyoneMay
  <2>5. "public" \in raw.facts \/ a \in Statements(raw.id)
    BY <1>1, <1>2, <2>2 DEF ResourcePolicy, AclGrants
  <2>3. CASE "public" \in raw.facts
    <3> DEFINE policies == Documents(raw)
               derived == When("has_bucket_policy", policies # <<>>) \cup
                          When("bucket_policy_allows_public_access",
                               \E d \in ToSet(policies) :
                                   policy_allows_public_principal(d))
               names == {"encrypted", "public", "public_access_block_enabled",
                         "versioning_enabled", "logging_enabled"}
    <3>0. normalize_s3_bucket(raw) = Resource(raw, names, derived, {}, {})
      BY DEF normalize_s3_bucket
    <3> HIDE DEF derived
    <3>1. "public" \in Reading(raw).holds
      BY <2>1, <2>3, <3>0 DEF Resource
    <3> QED
      BY <1>2, <3>1, RoleTypes
      DEF PublicExposure, EvidenceOfKind, _PUBLIC_EXPOSURE_ATTRIBUTES
  <2>4. CASE a \in Statements(raw.id)
    <3>1. PICK d \in ToSet(Documents(raw)) :
              \E s \in ToSet(d) :
                  /\ s.effect = "allow" /\ ~ s.conditioned
                  /\ \E p \in s.principals :
                         p.value = "*" /\ p.type \in {"*", "AWS"}
      BY <1>1, <2>2, <2>4 DEF ForEveryone, Statements
    <3>2. policy_allows_public_principal(d)
      BY <3>1 DEF policy_allows_public_principal
    <3>3. "bucket_policy_allows_public_access" \in Reading(raw).holds
      BY <2>1, <3>2 DEF normalize_s3_bucket, Resource, When
    <3> QED
      BY <1>2, <3>3, RoleTypes
      DEF PublicExposure, EvidenceOfKind, _PUBLIC_EXPOSURE_ATTRIBUTES
  <2> QED
    BY <2>3, <2>4, <2>5
<1>3. CASE raw.type = "azure_key_vault"
  <2>1. Reading(raw) = normalize_key_vault(raw)
    BY <1>3 DEF Reading, normalize
  <2>2. "public_network_access_enabled" \in raw.facts
    BY <1>1, <1>3 DEF PublicStore
  <2>3. "public_network_access_enabled" \in Reading(raw).holds
    BY <2>1, <2>2 DEF normalize_key_vault, Resource
  <2> QED
    BY <1>3, <2>3, RoleTypes
    DEF PublicExposure, EvidenceOfKind, _PUBLIC_EXPOSURE_ATTRIBUTES
<1> QED
  BY <1>2, <1>3 DEF ReadForExposure

LEMMA OpenControlIsSeen ==
    ASSUME estate \in Estates, NEW raw \in estate, OpenToAll(raw.id)
    PROVE  /\ EvidenceOfKind(Reading(raw), INGRESS_ATTRIBUTES) # {}
           /\ raw.type \in Roles.network_control
PROOF
<1>1. Raw(raw.id) = raw
  BY RawIsRaw
<1>2. PICK l \in raw.links :
          \/ /\ raw.type = "security_group" /\ l.field = "ingress"
             /\ l.to \in {"0.0.0.0/0", "::/0"}
          \/ /\ raw.type = "azure_network_security_group"
             /\ l.field = "rule"
             /\ l.to \in {"0.0.0.0/0", "::/0", "*", "any", "internet"}
             /\ l.note \in {"inbound allow port", "inbound allow range"}
  BY <1>1 DEF OpenToAll
<1>3. CASE raw.type = "security_group"
  <2>1. Reading(raw) = normalize_security_group(raw)
    BY <1>3 DEF Reading, normalize
  <2>2. l \in {k \in Links(raw, "ingress") : k.to \in _UNRESTRICTED_CIDRS}
    BY <1>2, <1>3 DEF Links, _UNRESTRICTED_CIDRS
  <2>3. "has_unrestricted_ingress" \in analyze_ingress_rules(raw)
    BY <2>2 DEF analyze_ingress_rules, When
  <2>4. "has_unrestricted_ingress" \in Reading(raw).holds
    BY <2>1, <2>3 DEF normalize_security_group, Resource
  <2> QED
    BY <1>3, <2>4, RoleTypes DEF EvidenceOfKind, INGRESS_ATTRIBUTES
<1>4. CASE raw.type = "azure_network_security_group"
  <2>1. Reading(raw) = normalize_network_security_group(raw)
    BY <1>4 DEF Reading, normalize
  <2>2. l \in {k \in Links(raw, "rule") :
                  /\ k.to \in _UNRESTRICTED_SOURCES
                  /\ k.note \in {"inbound allow port",
                                 "inbound allow range"}}
    BY <1>2, <1>4 DEF Links, _UNRESTRICTED_SOURCES
  <2>3. "has_unrestricted_ingress" \in analyze_security_rules(raw)
    BY <2>2 DEF analyze_security_rules, When
  <2>4. "has_unrestricted_ingress" \in Reading(raw).holds
    BY <2>1, <2>3 DEF normalize_network_security_group, Resource
  <2> QED
    BY <1>4, <2>4, RoleTypes DEF EvidenceOfKind, INGRESS_ATTRIBUTES
<1> QED
  BY <1>2, <1>3, <1>4

LEMMA WorkloadIsSeen ==
    ASSUME estate \in Estates, NEW raw \in estate, gap[raw.id] = "none",
           raw.type = "ec2_instance"
    PROVE  /\ "public_ip" \in raw.facts => "public_ip" \in Reading(raw).holds
           /\ \A id : Linked(raw.id, {"security_group"}, id)
                  => [to |-> id, kind |-> "attached_to"] \in Reading(raw).rels
           /\ \A id : ActsAs(raw.id, id)
                  => [to |-> id, kind |-> "assumes"] \in Reading(raw).rels
PROOF
<1>1. Raw(raw.id) = raw
  BY RawIsRaw
<1>2. Reading(raw) = normalize_ec2_instance(raw, "none")
  BY DEF Reading, normalize
<1> DEFINE groups == Links(raw, "security_group") \cup Links(raw, "subnet")
           resolved == {l \in Links(raw, "role") : l.note = "resolved"}
<1>3. /\ Reading(raw).rels
            = Edges(groups, "attached_to") \cup Edges(resolved, "assumes")
      /\ raw.facts \cap {"public_ip", "imds_v2_required",
                         "root_volume_encrypted"} \subseteq Reading(raw).holds
  BY <1>2 DEF normalize_ec2_instance, Resource
<1>4. ASSUME NEW id, Linked(raw.id, {"security_group"}, id)
      PROVE  [to |-> id, kind |-> "attached_to"] \in Reading(raw).rels
  <2>1. PICK l \in raw.links : l.field = "security_group" /\ l.to = id
    BY <1>1, <1>4 DEF Linked
  <2>2. l \in groups
    BY <2>1 DEF Links
  <2>3. [to |-> id, kind |-> "attached_to"] \in Edges(groups, "attached_to")
    BY <2>1, <2>2 DEF Edges
  <2> QED
    BY <1>3, <2>3
<1>5. ASSUME NEW id, ActsAs(raw.id, id)
      PROVE  [to |-> id, kind |-> "assumes"] \in Reading(raw).rels
  <2>1. PICK l \in raw.links :
            l.field = "role" /\ l.to = id /\ l.note = "resolved"
    BY <1>1, <1>5 DEF ActsAs
  <2>2. l \in resolved
    BY <2>1 DEF Links
  <2>3. [to |-> id, kind |-> "assumes"] \in Edges(resolved, "assumes")
    BY <2>1, <2>2 DEF Edges
  <2> QED
    BY <1>3, <2>3
<1> QED
  BY <1>3, <1>4, <1>5

LEMMA PublicRoleIsSeen ==
    ASSUME estate \in Estates, NEW raw \in estate, raw.type = "iam_role",
           AnyoneMayAssume(raw.id)
    PROVE  [to |-> "internet", kind |-> "publicly_exposed"]
               \in Reading(raw).rels
PROOF
<1>1. Raw(raw.id) = raw
  BY RawIsRaw
<1> DEFINE trust == analyze_trust_policy(raw.trust, OwnAccount)
<1>2. Reading(raw).rels = RoleRelationships(trust)
  <2>1. Reading(raw) = normalize_iam_role(raw, gap[raw.id])
    BY DEF Reading, normalize
  <2> QED
    BY <2>1 DEF normalize_iam_role, Resource
<1>3. PICK s \in ToSet(raw.trust) :
          /\ s.effect = "allow" /\ ~ s.conditioned
          /\ \E p \in s.principals : p.value = "*"
  <2>1. ResourcePolicy(raw.id) = ToSet(raw.trust)
    BY <1>1 DEF ResourcePolicy
  <2> QED
    BY <2>1 DEF AnyoneMayAssume, AnyoneMay, ForEveryone
<1>4. trust.is_publicly_assumable
  <2>1. s \in {x \in parse_statements(raw.trust) : x.effect = "allow"}
    BY <1>3 DEF parse_statements
  <2> QED
    BY <1>3, <2>1 DEF analyze_trust_policy
<1> HIDE DEF trust
<1>5. [to |-> "internet", kind |-> "publicly_exposed"]
          \in RoleRelationships(trust)
  BY <1>4 DEF RoleRelationships, When
<1> QED
  BY <1>2, <1>5

\* A chain from an exposed workload to data is a candidate.
LEMMA ChainIsCandidate ==
    ASSUME estate \in Estates,
           NEW w \in DOMAIN Graph.nodes, role_of(Graph, w) = "workload",
           OpenControls(Graph, Scanned, w) # {},
           NEW t \in DOMAIN Graph.nodes, is_data_bearing(Graph, t),
           NEW path \in Walks(Traversable(Graph), w),
           Last(path).to = t, _is_identity_chain(path)
    PROVE  \E c \in Candidates :
               /\ c.scenario = "internet_to_workload_to_identity_to_data"
               /\ w \in ToSet(c.nodes)
               /\ \A i \in DOMAIN path : path[i].to \in ToSet(c.nodes)
PROOF
<1>1. path \in TraversablePaths(Graph, w, t)
  BY PathsAreWalks DEF TraversablePaths
<1>2. path \in IdentityChains(Graph, w)
  BY <1>1 DEF IdentityChains
<1>3. PICK control : control \in _internet_exposure_of(Graph, Scanned, w)
  BY DEF _internet_exposure_of
<1> DEFINE c == ChainCandidate(Graph, Scanned, control, w, path)
           all == _internet_to_data_via_identity(Graph, Scanned)
           visited == VisitedBy(w, path)
           first == <<control>>
<1>4. c \in all
  <2> DEFINE workloads == {id \in DOMAIN Graph.nodes :
                              role_of(Graph, id) = "workload"}
             Of(id) == {ChainCandidate(Graph, Scanned, x, id, y) :
                           x \in _internet_exposure_of(Graph, Scanned, id),
                           y \in IdentityChains(Graph, id)}
  <2>1. all = UNION {Of(id) : id \in workloads}
    BY DEF _internet_to_data_via_identity
  <2>2. c \in Of(w)
    BY <1>2, <1>3
  <2>3. w \in workloads
    OBVIOUS
  <2> HIDE DEF Of, workloads, c, all
  <2> QED
    BY <2>1, <2>2, <2>3
<1>5. c.scenario = "internet_to_workload_to_identity_to_data"
      /\ c.nodes = first \o visited
  BY DEF ChainCandidate, Candidate
<1>6. /\ path \in Seq(Traversable(Graph))
  BY WalksAreWalks DEF IsWalk
<1> DEFINE ids == {control, w} \cup {path[i].to : i \in DOMAIN path}
<1>7. visited \in Seq(ids)
  BY <1>6, VisitedAre
<1>8. first \in Seq(ids)
  OBVIOUS
<1>9. /\ w \in ToSet(visited)
      /\ \A i \in DOMAIN path : path[i].to \in ToSet(visited)
  BY <1>6, VisitedAre
<1> HIDE DEF visited, first, ids
<1>10. ToSet(visited) \subseteq ToSet(first \o visited)
  BY <1>7, <1>8, ElementsOfConcat
<1>11. w \in ToSet(c.nodes)
       /\ \A i \in DOMAIN path : path[i].to \in ToSet(c.nodes)
  BY <1>5, <1>9, <1>10
<1> HIDE DEF c, all
<1> QED
  BY <1>4, <1>5, <1>11 DEF Candidates, all

-----------------------------------------------------------------------------
(* Each step computes its results from those of the step before            *)

Found == analyze(Graph, Scanned)

Risks ==
    [f \in {x \in Findings : x.resource \in CollectedIds(Scanned)} |->
        calculate(FactorsOf(f, PathsThrough(Graph, Found, f.resource)))]

Chain ==
    /\ estate \in Estates
    /\ phase \in Phases
    /\ DOMAIN gap = {r.id : r \in estate}
    /\ phase # "scanning" => resources = Scanned
    /\ graph = IF phase \in {"scanning", "collected"}
               THEN [nodes |-> <<>>, edges |-> {}] ELSE Graph
    /\ paths = IF phase \in {"scanning", "collected", "built"}
               THEN {} ELSE Found
    /\ refused = {}
    /\ risks = IF phase \in {"enriched", "stored"} THEN Risks ELSE <<>>
    /\ stored = IF phase = "stored" THEN InsertPaths(Found) ELSE <<>>

LEMMA ChainInit == Init => Chain
BY DEF Init, Chain, Phases

\* What was read cannot change once it is collected.
LEMMA SameReading ==
    ASSUME UNCHANGED <<estate, gap>>
    PROVE  /\ Scanned' = Scanned
           /\ Graph' = Graph
           /\ Found' = Found
           /\ Risks' = Risks
PROOF
<1>1. Scanned' = Scanned
  BY DEF Scanned, Kept, Reading
<1>2. Graph' = Graph
  BY <1>1 DEF Graph
<1>3. Found' = Found
  BY <1>1, <1>2 DEF Found
<1>4. Risks' = Risks
  BY <1>1, <1>2, <1>3 DEF Risks
<1> QED
  BY <1>1, <1>2, <1>3, <1>4

LEMMA ChainStep == Chain /\ [Next]_vars => Chain'
PROOF
<1> SUFFICES ASSUME Chain, [Next]_vars PROVE Chain'
  OBVIOUS
<1> USE DEF Chain, Phases
<1>1. ASSUME NEW raw \in estate, NEW kind \in GapsOf(raw), Miss(raw, kind)
      PROVE  Chain'
  BY <1>1 DEF Miss
<1>2. CASE Collect
  <2>1. resources' = Scanned
    BY <1>2, ScannedAre DEF Collect
  <2> QED
    BY <1>2, <2>1, SameReading DEF Collect
<1>3. CASE BuildGraph
  <2>1. graph' = Graph
    BY <1>3 DEF BuildGraph, Graph
  <2> QED
    BY <1>3, <2>1, SameReading DEF BuildGraph
<1>4. CASE Analyze
  <2>1. graph = Graph /\ resources = Scanned
    BY <1>4 DEF Analyze
  <2>2. paths' = {p \in Found : Constructible(p)}
        /\ refused' = {p \in Found : ~ Constructible(p)}
    BY <1>4, <2>1 DEF Analyze, Found
  <2>3. \A p \in Found : Constructible(p)
    BY AnalyzedAre DEF Found
  <2>4. paths' = Found /\ refused' = {}
    BY <2>2, <2>3
  <2> QED
    BY <1>4, <2>4, SameReading DEF Analyze
<1>5. CASE Enrich
  <2>1. graph = Graph /\ resources = Scanned /\ paths = Found
    BY <1>5 DEF Enrich
  <2>2. risks' = Risks
    BY <1>5, <2>1 DEF Enrich, Risks
  <2> QED
    BY <1>5, <2>2, SameReading DEF Enrich
<1>6. CASE StorePaths
  BY <1>6, SameReading DEF StorePaths
<1>7. CASE UNCHANGED vars
  BY <1>7, SameReading DEF vars
<1> QED
  BY <1>1, <1>2, <1>3, <1>4, <1>5, <1>6, <1>7 DEF Next

LEMMA AlwaysChain == Spec => []Chain
PROOF
<1>1. Init => Chain
  BY ChainInit
<1>2. Chain /\ [Next]_vars => Chain'
  BY ChainStep
<1> QED
  BY <1>1, <1>2, PTL DEF Spec

-----------------------------------------------------------------------------
(* The theorems                                                            *)

\* The variables have their types, and every edge of the graph joins two of
\* its nodes: no relationship, whatever it names, aborts the build.
THEOREM TypeCorrect == Spec => []TypeOK
PROOF
<1>1. ASSUME Chain
      PROVE  TypeOK
  <2> USE DEF Chain
  <2>1. \A e \in graph.edges : {e.from, e.to} \subseteq DOMAIN graph.nodes
    <3>1. CASE graph = Graph
      BY <1>1, <3>1, EdgesJoinNodes
    <3>2. CASE graph = [nodes |-> <<>>, edges |-> {}]
      BY <3>2
    <3> QED
      BY <1>1, <3>1, <3>2
  <2>2. \A p \in paths : ToSet(p.nodes) \subseteq DOMAIN graph.nodes
    <3>1. CASE paths = {}
      BY <3>1
    <3>2. CASE graph = Graph /\ paths = Found
      <4>1. \A p \in paths : p.nodes \in Seq(DOMAIN Graph.nodes)
        BY <1>1, <3>2, AnalyzedAre DEF Found, PathIsSo, CandidateIsSo
      <4> QED
        BY <3>2, <4>1 DEF ToSet
    <3> QED
      BY <1>1, <3>1, <3>2
  <2>3. \A id \in DOMAIN stored : stored[id] \in 0..100
    <3>1. CASE stored = <<>>
      BY <3>1
    <3>2. CASE stored = InsertPaths(Found)
      <4>1. \A p \in Found : p.score \in 0..100
        BY <1>1, AnalyzedAre DEF Found, PathIsSo
      <4> QED
        BY <3>2, <4>1, RowsAreWorst
    <3> QED
      BY <1>1, <3>1, <3>2
  <2> QED
    BY <1>1, <2>1, <2>2, <2>3 DEF TypeOK
<1> QED
  BY <1>1, AlwaysChain, PTL

\* An attack path rests on the cloud as it is, whatever the collectors
\* failed to read: each hop, the entry and the public store are so there.
THEOREM PathsAreTrue == Spec => []PathsRestOnEvidence
PROOF
<1>1. ASSUME Chain
      PROVE  PathsRestOnEvidence
  <2>1. paths \subseteq Found
    BY <1>1 DEF Chain
  <2>2. \A p \in paths : CandidateIsSo(p)
    BY <1>1, <2>1, AnalyzedAre DEF Chain, Found, PathIsSo
  <2> QED
    BY <2>2 DEF PathsRestOnEvidence, CandidateIsSo, PublicUnlessDisputed
<1> QED
  BY <1>1, AlwaysChain, PTL

\* No candidate is one the AttackPath aggregate refuses and no risk factor
\* is one RiskScore refuses: the validation never drops a path and never
\* aborts a scan.
THEOREM NothingRefused == Spec => []NothingIsRefused
PROOF
<1>1. ASSUME Chain
      PROVE  NothingIsRefused
  <2>1. \A f \in Findings :
            calculate(FactorsOf(f, PathsThrough(Graph, Found, f.resource)))
                >= 0
    <3>1. \A id : PathsThrough(Graph, Found, id) \subseteq Found
      BY DEF PathsThrough
    <3> QED
      BY <1>1, <3>1, RiskIsAccepted DEF Chain, Found
  <2>2. CASE risks = <<>>
    BY <1>1, <2>2 DEF Chain, NothingIsRefused
  <2>3. CASE risks = Risks
    BY <1>1, <2>1, <2>3 DEF Chain, NothingIsRefused, Risks
  <2> QED
    BY <1>1, <2>2, <2>3 DEF Chain
<1> QED
  BY <1>1, AlwaysChain, PTL

\* Paths that share a row leave the worst of their scores in it.
THEOREM WorstStored == Spec => []StoredIsWorst
PROOF
<1>1. ASSUME Chain
      PROVE  StoredIsWorst
  <2> SUFFICES ASSUME phase = "stored"
               PROVE  /\ DOMAIN stored = {PathId(p) : p \in paths}
                      /\ \A p \in paths : stored[PathId(p)] >= p.score
    BY DEF StoredIsWorst
  <2>1. paths = Found /\ stored = InsertPaths(Found)
    BY <1>1 DEF Chain
  <2>2. \A p \in Found : p.score \in 0..100
    BY <1>1, AnalyzedAre DEF Chain, Found, PathIsSo
  <2> QED
    BY <2>1, <2>2, RowsAreWorst
<1> QED
  BY <1>1, AlwaysChain, PTL

LEMMA CandidateHasPath ==
    ASSUME estate \in Estates, paths = Found, NEW c \in Candidates,
           NEW ids, ids \subseteq ToSet(c.nodes)
    PROVE  HasPath(c.scenario, ids)
BY AnalyzedAre DEF Found, HasPath

\* What is evident of the cloud when all of it was read.
Unmissed ==
    LET ids == DOMAIN gap
        data == {id \in ids : Raw(id).type \in DataTypes}
        roles == {id \in ids : Raw(id).type = "iam_role"}
        workloads == {id \in ids : Raw(id).type = "ec2_instance"}
        exposed == {w \in workloads : \E c \in ids : Entered(c, w)}
        chain == "internet_to_workload_to_identity_to_data"
    IN /\ \A id \in {x \in ids : PublicStore(x)} :
              Raw(id).type \in ReadForExposure =>
                  HasPath("internet_to_sensitive_data", {id})
       /\ \A r \in {x \in roles : AnyoneMayAssume(x)} :
              HasPath("public_identity_with_privilege", {r, "internet"})
       /\ \A c \in ids, w \in workloads :
              Entered(c, w) => HasPath("internet_to_exposed_workload", {c, w})
       /\ \A w \in exposed, r \in roles, t \in data :
              ActsAs(w, r) /\ ClearlyGrants(r, t) => HasPath(chain, {w, r, t})
       /\ \A w \in exposed, r, s \in roles, v \in workloads, t \in data :
              (/\ ActsAs(w, r) /\ ClearlyGrants(r, v)
               /\ ActsAs(v, s) /\ ClearlyGrants(s, t)
               /\ v # w /\ r # s) => HasPath(chain, {w, r, v, s, t})

LEMMA AllIsFound ==
    ASSUME estate \in Estates, DOMAIN gap = {r.id : r \in estate},
           \A id \in DOMAIN gap : gap[id] = "none", paths = Found
    PROVE  Unmissed
PROOF
<1>1. Kept = estate
  BY DEF Kept
<1>2. ASSUME NEW id \in DOMAIN gap
      PROVE  \E raw \in estate : raw.id = id /\ Raw(id) = raw
                                 /\ gap[raw.id] = "none"
  <2>1. PICK raw \in estate : raw.id = id
    OBVIOUS
  <2> QED
    BY <2>1, RawIsRaw
<1>3. ASSUME NEW id \in DOMAIN gap, PublicStore(id),
             Raw(id).type \in ReadForExposure
      PROVE  HasPath("internet_to_sensitive_data", {id})
  <2>1. PICK raw \in estate : raw.id = id /\ raw.type \in ReadForExposure
    BY <1>2, <1>3
  <2>2. /\ PublicExposure(Reading(raw)) # {}
        /\ raw.type \in Roles["storage"] \cup Roles["secrets"]
    BY <1>3, <2>1, PublicStoreIsSeen
  <2>3. /\ id \in DOMAIN Graph.nodes
        /\ AttributesOf(Scanned, id) = Reading(raw)
    BY <1>1, <2>1, CollectedNodes
  <2>4. is_data_bearing(Graph, id)
    <3>1. {"storage", "secrets"} \subseteq DOMAIN Roles
      BY RoleTypes
    <3>2. role_of(Graph, id) \in {"storage", "secrets"}
      BY <1>1, <2>1, <2>2, <3>1, RolesOfNodes
    <3> QED
      BY <3>2 DEF is_data_bearing
  <2>5. id \in ExposedStores(Graph, Scanned)
    BY <2>2, <2>3, <2>4 DEF ExposedStores
  <2>6. PICK c \in _exposed_sensitive_data(Graph, Scanned) :
            c.scenario = "internet_to_sensitive_data" /\ c.nodes = <<id>>
    <3> DEFINE C(x) == [Candidate("internet_to_sensitive_data", <<x>>, <<>>,
                                  PublicExposure(AttributesOf(Scanned, x)))
                        EXCEPT !.privileges = EvidenceOfKind(
                                   AttributesOf(Scanned, x),
                                   _PRIVILEGE_ATTRIBUTES),
                               !.incomplete = ExposureUndetermined(
                                   AttributesOf(Scanned, x))]
    <3>1. _exposed_sensitive_data(Graph, Scanned)
              = {C(x) : x \in ExposedStores(Graph, Scanned)}
      BY DEF _exposed_sensitive_data
    <3>2. C(id).scenario = "internet_to_sensitive_data"
          /\ C(id).nodes = <<id>>
      BY DEF Candidate
    <3> HIDE DEF C
    <3> QED
      BY <2>5, <3>1, <3>2
  <2>7. c \in Candidates
    BY DEF Candidates
  <2>8. {id} \subseteq ToSet(c.nodes)
    BY <2>6 DEF ToSet
  <2> QED
    BY <2>6, <2>7, <2>8, CandidateHasPath
<1>4. ASSUME NEW r \in DOMAIN gap, Raw(r).type = "iam_role",
             AnyoneMayAssume(r)
      PROVE  HasPath("public_identity_with_privilege", {r, "internet"})
  <2>1. PICK raw \in estate : raw.id = r /\ raw.type = "iam_role"
    BY <1>2, <1>4
  <2>2. [to |-> "internet", kind |-> "publicly_exposed"] \in Reading(raw).rels
    BY <1>4, <2>1, PublicRoleIsSeen
  <2>3. PICK e \in Graph.edges :
            /\ e.from = r /\ e.to = "internet"
            /\ e.kind = "publicly_exposed"
    BY <1>1, <2>1, <2>2, EvidentEdges
  <2>4. "internet" \in internet_node_ids(Graph)
    <3>1. "internet" \in DOMAIN Graph.nodes
      BY <2>3, EdgesJoinNodes
    <3>2. "internet" \notin {q.id : q \in Kept}
      <4>1. \A q \in Kept : q \in CloudResource
        BY <1>1, RawIsRaw
      <4>2. \A q \in CloudResource : q.id # "internet"
        BY DEF CloudResource
      <4> QED
        BY <4>1, <4>2
    <3>3. Graph.nodes["internet"].type = _external_type("internet")
      BY <3>1, <3>2, ExternalNodes
    <3>4. _external_type("internet") = "internet"
      <4>1. "internet" \notin Range(AccountId)
            /\ "internet" \notin Range(ServiceId)
        BY DEF Range, AccountId, ServiceId
      <4> QED
        BY <4>1 DEF _external_type
    <3> QED
      BY <3>1, <3>3, <3>4 DEF internet_node_ids
  <2>5. role_of(Graph, r) = "identity"
    <3>1. "identity" \in DOMAIN Roles /\ "iam_role" \in Roles["identity"]
      BY RoleTypes
    <3> QED
      BY <1>1, <2>1, <3>1, RolesOfNodes
  <2>6. PICK c \in _public_identities(Graph, Scanned) :
            /\ c.scenario = "public_identity_with_privilege"
            /\ c.nodes = <<e.to, e.from>>
    <3> DEFINE D == {d \in Graph.edges :
                        /\ d.kind = "publicly_exposed"
                        /\ d.to \in internet_node_ids(Graph)
                        /\ role_of(Graph, d.from) = "identity"}
               C(d) == [Candidate("public_identity_with_privilege",
                                  <<d.to, d.from>>, <<d>>,
                                  PublicExposure(AttributesOf(Scanned,
                                                              d.from)))
                        EXCEPT !.internet_edge = TRUE,
                               !.privileges = EvidenceOfKind(
                                   AttributesOf(Scanned, d.from),
                                   _PRIVILEGE_ATTRIBUTES),
                               !.incomplete = UndeterminedOf(
                                   AttributesOf(Scanned, d.from),
                                   _PRIVILEGE_ATTRIBUTES)]
    <3>1. _public_identities(Graph, Scanned) = {C(d) : d \in D}
      BY DEF _public_identities
    <3>2. e \in D
      BY <2>3, <2>4, <2>5
    <3>3. C(e).scenario = "public_identity_with_privilege"
          /\ C(e).nodes = <<e.to, e.from>>
      BY DEF Candidate
    <3> HIDE DEF C, D
    <3> QED
      BY <3>1, <3>2, <3>3
  <2>7. c \in Candidates
    BY DEF Candidates
  <2>8. {r, "internet"} \subseteq ToSet(c.nodes)
    <3>1. DOMAIN <<e.to, e.from>> = {1, 2}
      OBVIOUS
    <3> QED
      BY <2>3, <2>6, <3>1 DEF ToSet
  <2> QED
    BY <2>6, <2>7, <2>8, CandidateHasPath
\* The links of a chain, as edges to walk along.
<1>5. ASSUME NEW w \in DOMAIN gap, Raw(w).type = "ec2_instance",
             NEW r \in DOMAIN gap, Raw(r).type = "iam_role", ActsAs(w, r)
      PROVE  \E e \in Traversable(Graph) :
                 e.from = w /\ e.to = r /\ e.kind = "assumes"
  <2>1. PICK raw \in estate : /\ raw.id = w /\ raw.type = "ec2_instance"
                              /\ gap[raw.id] = "none"
    BY <1>2, <1>5
  <2>2. [to |-> r, kind |-> "assumes"] \in Reading(raw).rels
    BY <1>5, <2>1, WorkloadIsSeen
  <2>3. PICK e \in Graph.edges : e.from = w /\ e.to = r /\ e.kind = "assumes"
    BY <1>1, <2>1, <2>2, EvidentEdges
  <2> QED
    BY <2>3 DEF Traversable, _TRAVERSABLE_RELATIONSHIPS
<1>6. ASSUME NEW r \in DOMAIN gap, Raw(r).type = "iam_role",
             NEW t \in DOMAIN gap, Raw(t).type \notin Identity, ClearlyGrants(r, t)
      PROVE  \E e \in Traversable(Graph) :
                 e.from = r /\ e.to = t /\ e.kind = "accesses"
  <2>1. PICK raw \in estate : /\ raw.id = r /\ raw.type = "iam_role"
                              /\ gap[raw.id] = "none"
    BY <1>2, <1>6
  <2>2. PICK q \in estate : q.id = t /\ q.type \notin Identity
    BY <1>2, <1>6
  <2>3. \E e \in Graph.edges :
            e.from = raw.id /\ e.to = q.id /\ e.kind = "accesses"
    BY <1>1, <1>6, <2>1, <2>2, EvidentEdges
  <2> QED
    BY <2>1, <2>2, <2>3 DEF Traversable, _TRAVERSABLE_RELATIONSHIPS
<1>7. ASSUME NEW w \in DOMAIN gap, Raw(w).type = "ec2_instance",
             NEW x \in DOMAIN gap, Entered(x, w)
      PROVE  /\ w \in DOMAIN Graph.nodes
             /\ role_of(Graph, w) = "workload"
             /\ OpenControls(Graph, Scanned, w) # {}
             /\ HasPath("internet_to_exposed_workload", {x, w})
  <2>1. PICK raw \in estate : /\ raw.id = w /\ raw.type = "ec2_instance"
                              /\ gap[raw.id] = "none" /\ Raw(w) = raw
    BY <1>2, <1>7
  <2>2. PICK q \in estate : q.id = x
    BY <1>2
  <2>3. /\ "public_ip" \in raw.facts /\ OpenToAll(x)
        /\ Linked(w, {"security_group"}, x)
    BY <1>7, <2>1 DEF Entered, PublicAddress
  <2>4. /\ w \in DOMAIN Graph.nodes
        /\ AttributesOf(Scanned, w) = Reading(raw)
        /\ AttributesOf(Scanned, x) = Reading(q)
    BY <1>1, <2>1, <2>2, CollectedNodes
  <2>5. /\ "workload" \in DOMAIN Roles /\ "network_control" \in DOMAIN Roles
        /\ "ec2_instance" \in Roles["workload"]
    BY RoleTypes
  <2>6. role_of(Graph, w) = "workload"
    BY <1>1, <2>1, <2>5, RolesOfNodes
  <2>7. /\ EvidenceOfKind(Reading(q), INGRESS_ATTRIBUTES) # {}
        /\ q.type \in Roles["network_control"]
    BY <2>2, <2>3, OpenControlIsSeen
  <2>8. role_of(Graph, x) = "network_control"
    BY <1>1, <2>2, <2>5, <2>7, RolesOfNodes
  <2>9. "public_ip" \in Reading(raw).holds
    BY <2>1, <2>3, WorkloadIsSeen
  <2>10. PICK e \in Graph.edges :
             e.from = w /\ e.to = x /\ e.kind = "attached_to"
    <3>1. [to |-> x, kind |-> "attached_to"] \in Reading(raw).rels
      BY <2>1, <2>3, WorkloadIsSeen
    <3> QED
      BY <1>1, <2>1, <3>1, EvidentEdges
  <2>11. e \in OpenControls(Graph, Scanned, w)
    BY <2>4, <2>6, <2>7, <2>8, <2>9, <2>10 DEF OpenControls, edges_of
  <2>12. PICK c \in _exposed_workloads(Graph, Scanned) :
             /\ c.scenario = "internet_to_exposed_workload"
             /\ c.nodes = <<e.to, e.from>>
    <3> DEFINE all == UNION {OpenControls(Graph, Scanned, id) :
                                id \in DOMAIN Graph.nodes}
               C(d) == [Candidate("internet_to_exposed_workload",
                                  <<d.to, d.from>>, <<d>>,
                                  EntryEvidence(Scanned, d.to))
                        EXCEPT !.ingress = TRUE,
                               !.incomplete = ExposureUndetermined(
                                   AttributesOf(Scanned, d.to))]
    <3>1. _exposed_workloads(Graph, Scanned) = {C(d) : d \in all}
      BY DEF _exposed_workloads
    <3>2. e \in all
      BY <2>4, <2>11
    <3>3. /\ C(e).scenario = "internet_to_exposed_workload"
          /\ C(e).nodes = <<e.to, e.from>>
      BY DEF Candidate
    <3> HIDE DEF C, all
    <3> QED
      BY <3>1, <3>2, <3>3
  <2>13. c \in Candidates
    BY DEF Candidates
  <2>14. {x, w} \subseteq ToSet(c.nodes)
    <3>1. DOMAIN <<e.to, e.from>> = {1, 2}
      OBVIOUS
    <3> QED
      BY <2>10, <2>12, <3>1 DEF ToSet
  <2> QED
    BY <2>4, <2>6, <2>11, <2>12, <2>13, <2>14, CandidateHasPath
<1>8. ASSUME NEW t \in DOMAIN gap, Raw(t).type \in DataTypes
      PROVE  /\ t \in DOMAIN Graph.nodes
             /\ is_data_bearing(Graph, t)
             /\ Raw(t).type \notin Identity
             /\ Raw(t).type \notin {"ec2_instance", "iam_role"}
  <2>1. PICK raw \in estate : raw.id = t /\ raw.type \in DataTypes
                              /\ Raw(t) = raw
    BY <1>2, <1>8
  <2>2. /\ {"storage", "secrets"} \subseteq DOMAIN Roles
        /\ raw.type \in Roles["storage"] \cup Roles["secrets"]
    BY <2>1, RoleTypes DEF DataTypes
  <2>3. role_of(Graph, t) \in {"storage", "secrets"}
    BY <1>1, <2>1, <2>2, RolesOfNodes
  <2>4. t \in DOMAIN Graph.nodes
    BY <1>1, <2>1, CollectedNodes
  <2> QED
    BY <2>1, <2>3, <2>4 DEF is_data_bearing, DataTypes, Identity
<1>9. ASSUME NEW w \in DOMAIN gap, Raw(w).type = "ec2_instance",
             NEW x \in DOMAIN gap, Entered(x, w),
             NEW r \in DOMAIN gap, Raw(r).type = "iam_role",
             NEW t \in DOMAIN gap, Raw(t).type \in DataTypes,
             ActsAs(w, r), ClearlyGrants(r, t)
      PROVE  HasPath("internet_to_workload_to_identity_to_data", {w, r, t})
  <2>1. PICK d \in Traversable(Graph) :
            d.from = w /\ d.to = r /\ d.kind = "assumes"
    BY <1>5, <1>9
  <2>2. PICK e \in Traversable(Graph) :
            e.from = r /\ e.to = t /\ e.kind = "accesses"
    BY <1>6, <1>8, <1>9
  <2>3. r # w /\ t \notin {w, r}
    BY <1>8, <1>9
  <2>4. PICK path \in Walks2(Traversable(Graph), w) :
            Len(path) = 2 /\ path[1] = d /\ path[2] = e
    BY <2>1, <2>2, <2>3, WalksOfHops
  <2>5. path \in Walks(Traversable(Graph), w)
    BY <2>4 DEF Walks
  <2>6. DOMAIN path = 1..2
    BY <2>4, <2>5, WalksAreWalks DEF IsWalk
  <2>7. Last(path).to = t /\ _is_identity_chain(path)
    BY <2>1, <2>2, <2>4, <2>6 DEF Last, _is_identity_chain
  <2>8. PICK c \in Candidates :
            /\ c.scenario = "internet_to_workload_to_identity_to_data"
            /\ w \in ToSet(c.nodes)
            /\ \A i \in DOMAIN path : path[i].to \in ToSet(c.nodes)
    BY <1>7, <1>8, <1>9, <2>5, <2>7, ChainIsCandidate
  <2>9. {w, r, t} \subseteq ToSet(c.nodes)
    BY <2>1, <2>2, <2>4, <2>6, <2>8
  <2> QED
    BY <2>8, <2>9, CandidateHasPath
<1>10. ASSUME NEW w \in DOMAIN gap, Raw(w).type = "ec2_instance",
              NEW x \in DOMAIN gap, Entered(x, w),
              NEW r \in DOMAIN gap, Raw(r).type = "iam_role",
              NEW v \in DOMAIN gap, Raw(v).type = "ec2_instance",
              NEW s \in DOMAIN gap, Raw(s).type = "iam_role",
              NEW t \in DOMAIN gap, Raw(t).type \in DataTypes,
              ActsAs(w, r), ClearlyGrants(r, v), ActsAs(v, s), ClearlyGrants(s, t),
              v # w, r # s
       PROVE  HasPath("internet_to_workload_to_identity_to_data",
                      {w, r, v, s, t})
  <2>1. PICK d \in Traversable(Graph) :
            d.from = w /\ d.to = r /\ d.kind = "assumes"
    BY <1>5, <1>10
  <2>2. Raw(v).type \notin Identity
    BY <1>10 DEF Identity
  <2>3. PICK e \in Traversable(Graph) :
            e.from = r /\ e.to = v /\ e.kind = "accesses"
    BY <1>6, <1>10, <2>2
  <2>4. PICK f \in Traversable(Graph) :
            f.from = v /\ f.to = s /\ f.kind = "assumes"
    BY <1>5, <1>10
  <2>5. PICK h \in Traversable(Graph) :
            h.from = s /\ h.to = t /\ h.kind = "accesses"
    BY <1>6, <1>8, <1>10
  <2>6. /\ r # w /\ v \notin {w, r} /\ s \notin {w, r, v}
        /\ t \notin {w, r, v, s}
    BY <1>8, <1>10
  <2>7. PICK path \in Walks4(Traversable(Graph), w) :
            /\ Len(path) = 4 /\ path[1] = d /\ path[2] = e
            /\ path[3] = f /\ path[4] = h
    BY <2>1, <2>3, <2>4, <2>5, <2>6, WalksOfHops, SMTT(30)
  <2>8. path \in Walks(Traversable(Graph), w)
    BY <2>7 DEF Walks
  <2>9. DOMAIN path = 1..4
    BY <2>7, <2>8, WalksAreWalks DEF IsWalk
  <2>10. Last(path).to = t /\ _is_identity_chain(path)
    BY <2>1, <2>3, <2>5, <2>7, <2>9 DEF Last, _is_identity_chain
  <2>11. PICK c \in Candidates :
             /\ c.scenario = "internet_to_workload_to_identity_to_data"
             /\ w \in ToSet(c.nodes)
             /\ \A i \in DOMAIN path : path[i].to \in ToSet(c.nodes)
    BY <1>7, <1>8, <1>10, <2>8, <2>10, ChainIsCandidate
  <2>12. {w, r, v, s, t} \subseteq ToSet(c.nodes)
    <3>1. 1 \in 1..4 /\ 2 \in 1..4 /\ 3 \in 1..4 /\ 4 \in 1..4
      OBVIOUS
    <3> QED
      BY <2>1, <2>3, <2>4, <2>5, <2>7, <2>9, <2>11, <3>1
  <2> QED
    BY <2>11, <2>12, CandidateHasPath
<1> QED
  BY <1>3, <1>4, <1>7, <1>9, <1>10 DEF Unmissed

\* When everything could be read, what is evident of the cloud has its
\* attack path.
THEOREM NothingMissed == Spec => []EvidenceBecomesPaths
PROOF
<1>1. ASSUME Chain
      PROVE  EvidenceBecomesPaths
  <2>1. ASSUME phase \in {"analyzed", "enriched", "stored"},
               \A id \in DOMAIN gap : gap[id] = "none"
        PROVE  Unmissed
    <3>1. paths = Found
      BY <1>1, <2>1 DEF Chain
    <3> QED
      BY <1>1, <2>1, <3>1, AllIsFound DEF Chain
  <2> QED
    BY <2>1 DEF EvidenceBecomesPaths, AllWasRead, Unmissed
<1> QED
  BY <1>1, AlwaysChain, PTL
=============================================================================
