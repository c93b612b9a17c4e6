--------------------------- MODULE RuleEvaluation ---------------------------
(***************************************************************************)
(* The three-valued evaluation of one rule on one resource                 *)
(* (domain/rules/conditions.py, domain/rules/trace.py), by two scans of    *)
(* the same estate: "full" reads everything, "partial" is refused some of  *)
(* it.  What a refusal does is what the collectors do: the resources of a  *)
(* refused collector are missing; a refused attribute is UNKNOWN, or the   *)
(* plain value that its collector leaves there (Plain); a refused listing  *)
(* leaves no edge, also when its resource is kept.  The graph of each scan *)
(* is built from what it collected (application/graph/                     *)
(* build_resource_graph.py).                                               *)
(*                                                                         *)
(* A condition tree is a table of nodes.  The recursion of                 *)
(* evaluate_condition is a set of pairs <<node, subject>>: a pair is open  *)
(* from its call to its return, and returns once its operands have.  The   *)
(* code never short-circuits, so their order does not change the outcome.  *)
(***************************************************************************)
CONSTANTS
    Resources,     \* everything that exists or that an edge may name
    Collectable,   \* those among them that have a collector
    TypeOf,        \* the type of each resource
    ExternalType,  \* the type its identifier suggests (_external_type)
    Placeholder,   \* "external_resource", suggested by every other identifier
    Skippable,     \* types whose items are skipped one by one (collect_each)
    Elements,      \* the members of list-valued attributes
    Mappings,      \* those that are mappings
    Data,          \* values that can be compared
    Lists,         \* those among them that are lists
    Items,         \* the members of each list
    Nested,        \* fields reached through another one, "a.b"
    Links,         \* RelationshipType
    Inferred,      \* links that are not in their source's own description
    Compare,       \* the outcome of each operator on each value
    Nodes,         \* names of the nodes of a condition
    Estates,       \* what may exist: facts, asserted and granted edges
    Refusals,      \* what may be refused: pairs <<type, field or link>>
    Plain,         \* the value left by those whose collector has no UNKNOWN
    Rules,         \* the catalogue
    Absent,        \* no such field
    Unknown,       \* the UNKNOWN sentinel
    NoNode,        \* no `where'
    AnyType        \* no `target_type', `requires_collected' or `applies_to'

VARIABLES
    estate, seen, unread,   \* what exists; what the partial scan is let see
    rule, subject,          \* what is evaluated
    status,                 \* how far each scan is
    verdict,                \* of each pair in each scan
    trace                   \* the observations of each scan

given == <<estate, seen, unread, rule, subject>>
vars  == <<given, status, verdict, trace>>

Scans    == {"partial", "full"}
Subjects == Resources \union Elements
Pairs    == Nodes \X Subjects
Decided  == {"matched", "not_matched"}
Results  == Decided \union {"indeterminate"}
Outcomes == Results \union {"type_error", "raise"}
Ended    == {"concluded", "raised"}
Satisfactions == {"true", "false", "none"}

Presence    == {"exists", "not_exists"}
Quantifiers == {"any", "all", "none"}
Relational  == {"relationship", "no_relationship"}

\* What can be missed: all of a type or nothing of it, unless its collector
\* skips single items.
Coverage ==
    {S \in SUBSET Collectable :
        \A r, t \in Collectable :
            TypeOf[r] = TypeOf[t] /\ TypeOf[r] \notin Skippable =>
                (r \in S <=> t \in S)}

\* Identifiers say nothing of the type of a resource that has a collector,
\* and no rule is written about the placeholder.
ASSUME IdentifierAssumption ==
    /\ Collectable \subseteq Resources
    /\ \A r \in Collectable :
          /\ ExternalType[r] = Placeholder
          /\ \A t \in Resources : TypeOf[r] # ExternalType[t]
    /\ Placeholder # AnyType
    /\ \A r \in Rules : \A n \in Nodes :
          /\ r.node[n].target # Placeholder
          /\ r.node[n].requires # Placeholder

ASSUME DataAssumption ==
    /\ Resources \intersect Elements = {}
    /\ Mappings \subseteq Elements
    /\ Lists \subseteq Data
    /\ Absent \notin Data /\ Unknown \notin Data /\ Absent # Unknown
    /\ Items \in [Lists -> SUBSET Elements]
    /\ \A f \in DOMAIN Compare : Compare[f] \in [Data -> Outcomes]

ASSUME RuleAssumption ==
    /\ NoNode \notin Nodes
    /\ \A r \in Rules :
          /\ r.root \in Nodes
          /\ \A n \in Nodes :
                /\ r.node[n].kids \subseteq Nodes
                /\ r.node[n].where \in Nodes \union {NoNode}
                /\ r.node[n].kind = "leaf" =>
                      r.node[n].op \in DOMAIN Compare \union Presence

\* Edges that are granted are of an inferred link.
ASSUME EstateAssumption ==
    /\ \A e \in Estates :
          /\ e.asserted \subseteq Resources \X Links \X Resources
          /\ e.granted \subseteq Resources \X Inferred \X Resources
          /\ \A r \in Rules, n \in Nodes, s \in Resources \union Elements :
                e.fact[s][r.node[n].field] \in Data \union {Absent}
    /\ DOMAIN Plain \subseteq Refusals
    /\ Plain \in [DOMAIN Plain -> Data \union {Absent}]

-----------------------------------------------------------------------------
(* What a scan knows.                                                      *)

Collected(w) == IF w = "full" THEN Collectable ELSE seen

Lost(w, r, what) == w = "partial" /\ <<TypeOf[r], what>> \in unread

\* _lookup_field: a field below a value that is UNKNOWN is not present.
Read(w, s, f) ==
    IF s \in Resources /\ Lost(w, s, f) /\ estate.fact[s][f] # Absent
    THEN IF <<TypeOf[s], f>> \in DOMAIN Plain THEN Plain[<<TypeOf[s], f>>]
         ELSE IF f \in Nested THEN Absent ELSE Unknown
    ELSE estate.fact[s][f]

\* An asserted edge needs its source, a granted one both of its ends.
Linked(w, a, link, b) ==
    /\ a \in Collected(w) /\ ~Lost(w, a, link)
    /\ \/ <<a, link, b>> \in estate.asserted
       \/ b \in Collected(w) /\ <<a, link, b>> \in estate.granted

neighbors(w, n, r) ==
    {x \in Resources : IF n.direction = "outgoing" THEN Linked(w, r, n.link, x)
                                                   ELSE Linked(w, x, n.link, r)}

NodeType(w, r) == IF r \in Collected(w) THEN TypeOf[r] ELSE ExternalType[r]

resource_ids_of_type(w, type) ==
    {r \in Resources : /\ NodeType(w, r) = type
                       /\ \/ r \in Collected(w)
                          \/ \E e \in estate.asserted :
                                e[3] = r /\ Linked(w, e[1], e[2], r)}

(* _partition_neighbors *)
Typed(w, n, r) ==
    {x \in neighbors(w, n, r) : n.target \in {AnyType, NodeType(w, x)}}
\* Variant: an external node is dropped on its placeholder type.
NoUnenumerated(w, n, r) == {}
Unenumerated(w, n, r) ==
    {x \in neighbors(w, n, r) \ Typed(w, n, r) : x \notin Collected(w)}

requires_collected(n) == IF n.requires # AnyType THEN n.requires ELSE n.target

\* The coverage guard of an absence condition.
Covered(w, n) ==
    \/ n.kind = "relationship"
    \/ resource_ids_of_type(w, requires_collected(n)) # {}

Listed(w, n, s) ==
    LET value == Read(w, s, n.field)
    IN  IF value \in Lists THEN Items[value] ELSE {}

-----------------------------------------------------------------------------
(* The operands of a pair, and its result once they are decided.           *)

Node(p) == rule.node[p[1]]

\* Variant: a neighbour is asked the whole condition again.
OperandsUnchanged(w, p) ==
    LET n == Node(p) s == p[2]
    IN  CASE n.kind \in {"and", "or", "not"} -> n.kids \X {s}
          [] n.kind \in Quantifiers ->
                {n.where} \X (Listed(w, n, s) \intersect Mappings)
          [] n.kind \in Relational /\ n.where # NoNode /\ Covered(w, n) ->
                {p[1]} \X (Typed(w, n, s) \intersect Collected(w))
          [] OTHER -> {}
Operands(w, p) ==
    LET n == Node(p) s == p[2]
    IN  CASE n.kind \in {"and", "or", "not"} -> n.kids \X {s}
          [] n.kind \in Quantifiers ->
                {n.where} \X (Listed(w, n, s) \intersect Mappings)
          [] n.kind \in Relational /\ n.where # NoNode /\ Covered(w, n) ->
                {n.where} \X (Typed(w, n, s) \intersect Collected(w))
          [] OTHER -> {}

\* What contributes INDETERMINATE without being evaluated.
Gaps(w, p) ==
    LET n == Node(p) s == p[2]
    IN  CASE n.kind \in Quantifiers -> Listed(w, n, s) \ Mappings
          [] n.kind \in Relational ->
                Unenumerated(w, n, s) \union (Typed(w, n, s) \ Collected(w))
          [] OTHER -> {}

Contributions(w, p) ==
    {verdict[w][q] : q \in Operands(w, p)}
    \union {"indeterminate" : x \in Gaps(w, p)}

kleene_not(result) == CASE result = "matched"     -> "not_matched"
                         [] result = "not_matched" -> "matched"
                         [] OTHER                  -> "indeterminate"

\* Also _quantified_and and _existence_quantified_or: the empty `and' and `or'
\* raise.
kleene_and(results) == IF "not_matched" \in results THEN "not_matched"
                       ELSE IF "indeterminate" \in results
                       THEN "indeterminate" ELSE "matched"

kleene_or(results) == IF "matched" \in results THEN "matched"
                      ELSE IF "indeterminate" \in results
                      THEN "indeterminate" ELSE "not_matched"

(* _evaluate_leaf_against_data *)
Present(value, op) ==
    IF value # Absent <=> op = "exists" THEN "matched" ELSE "not_matched"
\* Variant: the exception of an incomparable value is not caught.
AnswerUncaught(outcome) == outcome
Answer(outcome) == IF outcome = "type_error" THEN "indeterminate" ELSE outcome
Leaf(w, n, s) ==
    LET value == Read(w, s, n.field)
    IN  IF n.op \in Presence THEN Present(value, n.op)
        ELSE IF value \in {Absent, Unknown} THEN "indeterminate"
        ELSE Answer(Compare[n.op][value])

(* _evaluate_quantifier *)
Quantified(kind, results) ==
    CASE kind = "any"  -> kleene_or(results)
      [] kind = "all"  -> kleene_and(results)
      [] kind = "none" -> kleene_not(kleene_or(results))

(* _evaluate_no_relationship, past the coverage guard *)
NoRelationship(w, p) ==
    IF Node(p).where = NoNode /\ Typed(w, Node(p), p[2]) # {}
    THEN "not_matched"
    ELSE kleene_not(kleene_or(Contributions(w, p)))

Result(w, p) ==
    LET n == Node(p)
    IN  CASE n.kind = "leaf" -> Leaf(w, n, p[2])
          [] n.kind = "and"  -> kleene_and(Contributions(w, p))
          [] n.kind = "or"   -> kleene_or(Contributions(w, p))
          [] n.kind = "not"  -> kleene_not(kleene_or(Contributions(w, p)))
          [] n.kind \in Quantifiers /\ Read(w, p[2], n.field) \in Lists ->
                Quantified(n.kind, Contributions(w, p))
          [] n.kind = "relationship" -> kleene_or(Contributions(w, p))
          [] n.kind = "no_relationship" /\ Covered(w, n) -> NoRelationship(w, p)
          [] OTHER -> "indeterminate"

\* Variant: the sentinel is handed to the operator.
ComparisonRaisesUnknown(n, value) ==
    /\ n.kind = "leaf" /\ n.op \notin Presence
    /\ \/ value = Unknown
       \/ value \in Data /\ Compare[n.op][value] = "raise"
ComparisonRaises(n, value) ==
    /\ n.kind = "leaf" /\ n.op \notin Presence
    /\ value \in Data /\ Compare[n.op][value] = "raise"

\* InvalidRuleCondition, or an exception that nothing on the way catches.
Raises(w, p) ==
    LET n == Node(p) s == p[2]
    IN  \/ n.kind = "invalid"
        \/ n.kind \in {"and", "or"} /\ n.kids = {}
        \/ n.kind \in Relational /\ s \in Elements
        \/ n.kind = "relationship" /\ n.where = NoNode
        \/ n.kind = "no_relationship" /\ requires_collected(n) = AnyType
        \/ /\ n.kind \in Quantifiers /\ n.where = NoNode
           /\ Read(w, s, n.field) \in Lists
        \/ n.kind = "leaf" /\ ComparisonRaises(n, Read(w, s, n.field))

(* _record *)
\* Variant: what was not refuted counts as satisfied.
SatisfiedUnlessRefuted(result) ==
    IF result = "not_matched" THEN "false" ELSE "true"
Satisfied(result) == CASE result = "matched"     -> "true"
                       [] result = "not_matched" -> "false"
                       [] OTHER                  -> "none"

Examined(w, p) ==
    LET n == Node(p)
    IN  IF n.kind \notin Relational \/ ~Covered(w, n) THEN {}
        ELSE IF n.where = NoNode /\ Typed(w, n, p[2]) # {}
        THEN Typed(w, n, p[2])
        ELSE Typed(w, n, p[2]) \union Unenumerated(w, n, p[2])

Observation(w, p, x) ==
    [neighbour |-> x,
     satisfied |-> IF x \notin Typed(w, Node(p), p[2]) THEN "none"
                   ELSE IF Node(p).where = NoNode THEN "true"
                   ELSE IF x \notin Collected(w) THEN "none"
                   ELSE Satisfied(verdict[w][<<Node(p).where, x>>]),
     absence   |-> Node(p).kind = "no_relationship"]

\* matched_resource_ids: the resources a finding names as related.
Related(w) ==
    {o.neighbour : o \in {o \in trace[w] : o.satisfied = "true" /\ ~o.absence}}

-----------------------------------------------------------------------------
(* The evaluation, as the calls and returns of evaluate_condition.         *)

Top == <<rule.root, subject>>

applies_to(r, resource) == r.applies_to \in {AnyType, TypeOf[resource]}

Init ==
    /\ estate \in Estates /\ rule \in Rules
    /\ seen \in Coverage /\ unread \in SUBSET Refusals
    /\ subject \in {r \in seen : applies_to(rule, r)}
    /\ status = [w \in Scans |-> "waiting"]
    /\ verdict = [w \in Scans |-> [p \in Pairs |-> "unasked"]]
    /\ trace = [w \in Scans |-> {}]

\* EvaluateRules calls Rule.evaluate with a new trace.
Begin(w) ==
    /\ status[w] = "waiting"
    /\ w = "full" => status["partial"] \in Ended
    /\ status' = [status EXCEPT ![w] = "running"]
    /\ verdict' = [verdict EXCEPT ![w][Top] = "open"]
    /\ UNCHANGED <<given, trace>>

Open(w, p) == status[w] = "running" /\ verdict[w][p] = "open"

\* A call of evaluate_condition calls it for its operands.
Ask(w, p) ==
    /\ Open(w, p) /\ ~Raises(w, p)
    /\ \E q \in Operands(w, p) : verdict[w][q] = "unasked"
    /\ verdict' = [verdict EXCEPT ![w] = [q \in Pairs |->
                      IF q \in Operands(w, p) /\ verdict[w][q] = "unasked"
                      THEN "open" ELSE verdict[w][q]]]
    /\ UNCHANGED <<given, status, trace>>

\* It returns, and leaves its observations in the trace.
Return(w, p) ==
    /\ Open(w, p) /\ ~Raises(w, p)
    /\ \A q \in Operands(w, p) : verdict[w][q] \in Results
    /\ verdict' = [verdict EXCEPT ![w][p] = Result(w, p)]
    /\ trace' = [trace EXCEPT ![w] =
                    @ \union {Observation(w, p, x) : x \in Examined(w, p)}]
    /\ status' = IF p = Top THEN [status EXCEPT ![w] = "concluded"] ELSE status
    /\ UNCHANGED given

\* It raises: the scan ends without a finding.
Raise(w, p) ==
    /\ Open(w, p) /\ Raises(w, p)
    /\ status' = [status EXCEPT ![w] = "raised"]
    /\ UNCHANGED <<given, verdict, trace>>

Next ==
    \E w \in Scans :
        \/ Begin(w)
        \/ \E p \in Pairs : Ask(w, p) \/ Return(w, p) \/ Raise(w, p)

Spec     == Init /\ [][Next]_vars
FairSpec == Spec /\ WF_vars(Next)

-----------------------------------------------------------------------------
(* Properties.                                                             *)

Observations == [neighbour : Resources, satisfied : Satisfactions,
                 absence : BOOLEAN]

\* Type invariant: a verdict is one of the three values and nothing else, and
\* an observation is yes, no or unknown.
TypeOK ==
    /\ estate \in Estates /\ rule \in Rules
    /\ seen \in Coverage /\ subject \in seen /\ unread \subseteq Refusals
    /\ status \in [Scans -> Ended \union {"waiting", "running"}]
    /\ verdict \in [Scans -> [Pairs -> Results \union {"unasked", "open"}]]
    /\ trace \in [Scans -> SUBSET Observations]

\* A test whose value, if the scan was refused it, is marked as UNKNOWN.
Candid(p) ==
    Node(p).kind \in {"leaf"} \union Quantifiers /\ p[2] \in Resources =>
        \/ ~Lost("partial", p[2], Node(p).field)
        \/ <<TypeOf[p[2]], Node(p).field>> \notin DOMAIN Plain

\* A pair whose answer rests on what its subject says of itself: a candid test
\* that is no presence test below a value that is UNKNOWN; edges that come with
\* their source's own description and were not refused apart from it, looked at
\* from that source; or an absence of such incoming edges that is guarded by
\* the type they come from, when that type is collected whole or not at all.
Sturdy(p) ==
    LET n == Node(p)
    IN  /\ Candid(p)
        /\ n.kind = "leaf" /\ n.op \in Presence /\ p[2] \in Resources =>
              n.field \notin Nested \/ ~Lost("partial", p[2], n.field)
        /\ n.kind \in Relational =>
              /\ n.link \notin Inferred
              /\ \/ /\ n.direction = "outgoing"
                    /\ p[2] \in Resources => ~Lost("partial", p[2], n.link)
                 \/ /\ n.kind = "no_relationship" /\ n.direction = "incoming"
                    /\ n.target \notin {AnyType} \union Skippable
                    /\ requires_collected(n) = n.target
                    /\ <<n.target, n.link>> \notin unread

\* The evaluation of the partial scan has come only upon pairs of such a kind.
CandidSoFar ==
    \A p \in Pairs : verdict["partial"][p] # "unasked" => Candid(p)
Guarded ==
    \A p \in Pairs : verdict["partial"][p] # "unasked" => Sturdy(p)

\* What a scan that was refused something decides, a scan that reads
\* everything decides too (conditions.py: INDETERMINATE, "the data needed to
\* decide was not collected", "must never silently become
\* MATCHED/NOT_MATCHED").  The catalogue does not keep it: an edge that was
\* lost with a network interface, an incoming edge, a plain value in the place
\* of a refused one make a rule pass.
DecidedOnData ==
    /\ verdict["partial"][Top] \in Decided
    /\ verdict["full"][Top] \in Results
    => verdict["full"][Top] = verdict["partial"][Top]

\* It holds of what was decided on sturdy pairs: UNKNOWN, an uncollected
\* neighbour and an empty listing never turn into a pass or a failure, however
\* the connectives, quantifiers and relationships of the condition are nested.
GuardedVerdictsSurvive == Guarded => DecidedOnData

\* A resource that a finding names as related is a confirmed one: a scan that
\* reads everything names it too (RelationshipTrace.matched_resource_ids: "a
\* data gap is never presented as a confirmed relationship").
RelatedIsConfirmed ==
    Guarded /\ status = [w \in Scans |-> "concluded"] =>
        Related("partial") \subseteq Related("full")

\* Data that is marked as missing never aborts a scan: a rule that raises on a
\* partial reading raises on the full one too, it is the rule or the data that
\* is malformed.
GapsNeverRaise ==
    CandidSoFar /\ status["partial"] = "raised" => status["full"] # "concluded"

\* A comparison never raises (conditions.py, of the exceptions it catches:
\* "the data exists but cannot answer the question, so it's unknown, not
\* false").  One that is asked of a number or of None does: starts_with raises
\* an AttributeError, which is not among them.
ComparisonsNeverRaise ==
    \A w \in Scans, p \in Pairs :
        Open(w, p) /\ Node(p).kind = "leaf" => ~Raises(w, p)

\* Every evaluation returns or raises, also when edges form cycles.
EvaluationEnds == <>(\A w \in Scans : status[w] \in Ended)
=============================================================================
