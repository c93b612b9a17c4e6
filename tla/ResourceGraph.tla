---------------------------- MODULE ResourceGraph ----------------------------
(***************************************************************************)
(* The graph of one scan: a node for every collected resource and for      *)
(* every target nobody collected (build_resource_graph.py), the edges the  *)
(* resources assert and those derived from policy grants                   *)
(* (identity_access.py), and the paths through it (queries.py).            *)
(*                                                                         *)
(* A graph is [nodes, edges], nodes mapping an id to its type, kind and    *)
(* confidence.  Resource ids are taken as unique: a duplicate aborts the   *)
(* build.  No code sets the blocked mark of an edge, so it is left out.    *)
(***************************************************************************)
EXTENDS Normalizers

\* Evidence a pattern can support: a name, a prefix, or nothing specific.
classify_pattern(pattern) ==
    CASE pattern.shape = "literal" -> "exact"
      [] pattern.shape = "prefix*" -> "broad"
      [] OTHER -> "potential"

\* The patterns of a grant that select the resource with real evidence.
MatchingPatterns(grant, id) ==
    {p \in grant.resources : ~ grant.inverted_resources
                             /\ classify_pattern(p) # "potential"
                             /\ id \in p.ids}

grant_matches_resource(grant, id) == MatchingPatterns(grant, id) # {}

EvidenceOf(grant, id) ==
    IF \E p \in MatchingPatterns(grant, id) : classify_pattern(p) = "exact"
    THEN "exact" ELSE "broad"

ConfidenceOf(grant, id) ==
    LET full == [exact |-> "high", broad |-> "medium"]
        downgraded == [exact |-> "medium", broad |-> "low"]
    IN IF grant.has_condition THEN downgraded[EvidenceOf(grant, id)]
       ELSE full[EvidenceOf(grant, id)]

\* Variant: a Deny is not looked at.
derive_access_edges_allows_only(grants, candidates) ==
    LET Allows(id) == {i \in DOMAIN grants :
                          /\ grants[i].effect = "allow"
                          /\ grant_matches_resource(grants[i], id)}
    IN {[to |-> id, confidence |-> ConfidenceOf(grants[Min(Allows(id))], id)] :
           id \in {x \in candidates : Allows(x) # {}}}

\* The resources the grants name: no Deny that names it too, and the
\* confidence of the first exact grant, else of the first grant.
derive_access_edges(grants, candidates) ==
    LET Matching(effect, id) ==
            {i \in DOMAIN grants :
                grants[i].effect = effect
                /\ grant_matches_resource(grants[i], id)}
        Exact(id) == {i \in Matching("allow", id) :
                        EvidenceOf(grants[i], id) = "exact"}
        Best(id) == grants[Min(IF Exact(id) # {} THEN Exact(id)
                               ELSE Matching("allow", id))]
        reached == {id \in candidates : Matching("allow", id) # {}
                                        /\ Matching("deny", id) = {}}
    IN {[to |-> id, confidence |-> ConfidenceOf(Best(id), id)] :
           id \in reached}

_IDENTITY_TYPES == {"iam_role", "iam_user"}

_external_type(id) ==
    CASE id = "internet" -> "internet"
      [] id \in Range(AccountId) -> "aws_account"
      [] id \in Range(ServiceId) -> "aws_service"
      [] OTHER -> "external_resource"

CollectedIds(resources) == {r.id : r \in resources}

ExternalTargets(resources) ==
    {rel.to : rel \in UNION {r.rels : r \in resources}}
        \ CollectedIds(resources)

AssertedEdges(resources) ==
    UNION {{[from |-> r.id, to |-> rel.to, kind |-> rel.kind,
             confidence |-> "high"] : rel \in r.rels} : r \in resources}

\* Access edges of every identity to the other resources its grants name,
\* unless a collector asserted the same edge.
derive_identity_access(resources) ==
    LET candidates ==
            CollectedIds({r \in resources : r.type \notin _IDENTITY_TYPES})
        asserted == {<<e.from, e.to, e.kind>> : e \in AssertedEdges(resources)}
        Derived(r) ==
            {[from |-> r.id, to |-> a.to, kind |-> "accesses",
              confidence |-> a.confidence] :
                a \in derive_access_edges(r.grants, candidates)}
    IN {e \in UNION {Derived(r) : r \in {q \in resources :
                                         q.type \in _IDENTITY_TYPES}} :
           <<e.from, e.to, e.kind>> \notin asserted}

\* Variant: targets nobody collected get no node.
NodesOf_no_externals(resources) ==
    [id \in CollectedIds(resources) |->
        [type |-> (CHOOSE r \in resources : r.id = id).type,
         kind |-> "collected", confidence |-> "high"]]

NodesOf(resources) ==
    [id \in CollectedIds(resources) \cup ExternalTargets(resources) |->
        IF id \in CollectedIds(resources)
        THEN [type |-> (CHOOSE r \in resources : r.id = id).type,
              kind |-> "collected", confidence |-> "high"]
        ELSE [type |-> _external_type(id), kind |-> "external",
              confidence |-> "medium"]]

build(resources) ==
    [nodes |-> NodesOf(resources),
     edges |-> AssertedEdges(resources) \cup
               derive_identity_access(resources)]

is_external(graph, id) == graph.nodes[id].kind = "external"

edges_of(edges, id, kind) == {e \in edges : e.from = id /\ e.kind = kind}

\* The nodes a path visits, its source first.
VisitedBy(source, path) ==
    <<source>> \o [i \in DOMAIN path |-> path[i].to]

\* Every path of at most max_depth edges that visits no node twice.
find_paths(edges, source, target, max_depth) ==
    LET walks[n \in 0..max_depth] ==
            IF n = 0 THEN {<<>>}
            ELSE UNION {LET visited == VisitedBy(source, path)
                        IN {Append(path, e) : e \in {d \in edges :
                              /\ d.from = Last(visited)
                              /\ d.to \notin ToSet(visited)}} :
                        path \in walks[n - 1]}
    IN {path \in UNION {walks[n] : n \in 1..max_depth} :
           Last(path).to = target}

internet_node_ids(graph) ==
    {id \in DOMAIN graph.nodes : graph.nodes[id].type = "internet"}
=============================================================================
