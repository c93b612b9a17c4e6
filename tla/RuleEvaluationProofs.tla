------------------------ MODULE RuleEvaluationProofs ------------------------
(***************************************************************************)
(* Proofs about RuleEvaluation, for every estate, catalogue and refusal.   *)
(*                                                                         *)
(* That the decided verdicts of a partial scan survive is proved without   *)
(* an induction on conditions, by an invariant of the evaluation: every    *)
(* pair that has returned has the result that its operands give            *)
(* (Consistent), and the two scans agree on every pair that both have      *)
(* returned (Agreement).  A pair that returns agrees because its operands  *)
(* do, which is a lemma for each kind of node.                             *)
(***************************************************************************)
EXTENDS RuleEvaluation, TLAPS

\* A scan evaluates on the resources it collected, and on list elements.
Sane == \A w \in Scans, p \in Pairs :
            verdict[w][p] # "unasked" => p[2] \in Collected(w) \union Elements

\* Nothing is asked before a scan begins.
Untouched == \A w \in Scans : status[w] = "waiting" =>
                \A p \in Pairs : verdict[w][p] = "unasked"

Returned(w, p) == /\ ~Raises(w, p)
                  /\ \A q \in Operands(w, p) : verdict[w][q] \in Results
                  /\ verdict[w][p] = Result(w, p)

Consistent == \A w \in Scans, p \in Pairs :
                  verdict[w][p] \in Results => Returned(w, p)

\* A decision of the partial scan is a decision of the full one.
Agrees(q) == verdict["partial"][q] \in Decided =>
                verdict["full"][q] = verdict["partial"][q]

Agreement ==
    Guarded => \A q \in Pairs :
        (\A v \in Scans : verdict[v][q] \in Results) => Agrees(q)

IInv == TypeOK /\ Sane /\ Untouched /\ Consistent /\ Agreement

-----------------------------------------------------------------------------
(* What the two scans read.                                                *)

\* The partial scan collects less.
LEMMA CollectedLess == TypeOK => Collected("partial") \subseteq Collected("full")
BY DEF TypeOK, Coverage, Collected

LEMMA ReadAgrees ==
    ASSUME TypeOK, NEW p \in Pairs, Candid(p),
           Node(p).kind \in {"leaf"} \union Quantifiers,
           Read("partial", p[2], Node(p).field) \in Data
    PROVE  Read("full", p[2], Node(p).field) = Read("partial", p[2], Node(p).field)
BY DataAssumption DEF Read, Lost, Candid

LEMMA NodeFacts ==
    ASSUME TypeOK, NEW p \in Pairs
    PROVE  /\ rule \in Rules /\ p[1] \in Nodes /\ p[2] \in Subjects
           /\ p = <<p[1], p[2]>>
           /\ Node(p).kids \subseteq Nodes
           /\ Node(p).where \in Nodes \union {NoNode}
           /\ Node(p).target # Placeholder /\ Node(p).requires # Placeholder
           /\ Node(p).kind = "leaf" => Node(p).op \in DOMAIN Compare \union Presence
BY RuleAssumption, IdentifierAssumption DEF TypeOK, Pairs, Node

LEMMA LeafAgrees ==
    ASSUME TypeOK, NEW p \in Pairs, Node(p).kind = "leaf", Sturdy(p),
           Leaf("partial", Node(p), p[2]) \in Decided
    PROVE  Leaf("full", Node(p), p[2]) = Leaf("partial", Node(p), p[2])
<1> DEFINE n == Node(p)
           value == Read("partial", p[2], n.field)
<1>1. CASE n.op \in Presence
  <2>1. value # Absent <=> Read("full", p[2], n.field) # Absent
    BY <1>1, DataAssumption DEF Sturdy, Candid, Read, Lost
  <2>2. \A w \in Scans : Leaf(w, n, p[2]) = Present(Read(w, p[2], n.field), n.op)
    BY <1>1 DEF Leaf
  <2> QED  BY <2>1, <2>2 DEF Scans, Present
<1>2. CASE n.op \notin Presence
  <2>1. value \notin {Absent, Unknown}
    BY <1>2 DEF Leaf, Decided
  <2>2. Read("full", p[2], n.field) = value
    BY <2>1 DEF Read, Lost, Sturdy, Candid
  <2> QED  BY <1>2, <2>1, <2>2 DEF Leaf
<1> QED  BY <1>1, <1>2

\* An edge of a link that is not inferred and was not refused needs its source
\* only.
LEMMA LinkedAsserted ==
    ASSUME TypeOK, NEW w \in Scans, NEW link, link \notin Inferred,
           NEW a \in Resources, NEW b \in Resources, ~Lost("partial", a, link)
    PROVE  Linked(w, a, link, b) <=>
              a \in Collected(w) /\ <<a, link, b>> \in estate.asserted
<1>1. ~Lost(w, a, link)
  BY DEF Lost
<1>2. <<a, link, b>> \notin estate.granted
  BY EstateAssumption DEF TypeOK
<1> QED  BY <1>1, <1>2 DEF Linked

-----------------------------------------------------------------------------
(* What the neighbours of the two scans have in common.                    *)

\* What the partial operands give, the full ones give too; and when the
\* partial scan has no gap there, the operands are the same and neither has.
Inherits(p) ==
    /\ Operands("partial", p) \subseteq Operands("full", p)
    /\ Gaps("partial", p) = {} =>
          /\ Operands("full", p) = Operands("partial", p)
          /\ Gaps("full", p) = {}

\* An outgoing edge of a collected resource is in both graphs.
LEMMA OutgoingAgree ==
    ASSUME TypeOK, NEW p \in Pairs, p[2] \in seen,
           Node(p).kind \in Relational, Sturdy(p),
           Node(p).direction = "outgoing"
    PROVE  neighbors("partial", Node(p), p[2]) = neighbors("full", Node(p), p[2])
<1>1. /\ p[2] \in Resources /\ p[2] \in Collected("partial")
      /\ p[2] \in Collected("full")
  BY IdentifierAssumption DEF TypeOK, Coverage, Collected
<1>2. Node(p).link \notin Inferred /\ ~Lost("partial", p[2], Node(p).link)
  BY <1>1 DEF Sturdy
<1>3. \A x \in Resources :
          Linked("partial", p[2], Node(p).link, x)
              <=> Linked("full", p[2], Node(p).link, x)
  BY <1>1, <1>2, LinkedAsserted DEF Scans
<1> QED  BY <1>3 DEF neighbors

\* The type of a node that both graphs hold differs only in the placeholder.
LEMMA NodeTypes ==
    ASSUME TypeOK, NEW x \in Resources
    PROVE  \/ NodeType("partial", x) = NodeType("full", x)
           \/ /\ NodeType("partial", x) = Placeholder
              /\ x \in Collectable \ seen
BY IdentifierAssumption DEF TypeOK, Coverage, NodeType, Collected

\* With the same neighbours, the partial scan types fewer of them, and those
\* that it leaves out are among the unenumerated.
LEMMA PartitionsAgree ==
    ASSUME TypeOK, NEW i \in Nodes, NEW s \in Subjects,
           neighbors("partial", rule.node[i], s)
              = neighbors("full", rule.node[i], s)
    PROVE  LET n == rule.node[i]
           IN  /\ Typed("partial", n, s) \subseteq Typed("full", n, s)
               /\ Typed("full", n, s) \ Typed("partial", n, s)
                      \subseteq Unenumerated("partial", n, s)
               /\ Unenumerated("full", n, s) \subseteq Unenumerated("partial", n, s)
<1> DEFINE n == rule.node[i]
<1>1. n.target # Placeholder /\ Placeholder # AnyType
  BY IdentifierAssumption DEF TypeOK
<1>2. seen \subseteq Collectable
  BY DEF TypeOK, Coverage
<1>3. \A x \in neighbors("full", n, s) : x \in Resources
  BY DEF neighbors
<1>4. Typed("partial", n, s) \subseteq Typed("full", n, s)
  BY <1>1, <1>3, NodeTypes DEF Typed
<1>5. Typed("full", n, s) \ Typed("partial", n, s)
         \subseteq Unenumerated("partial", n, s)
  BY <1>1, <1>3, NodeTypes DEF Typed, Unenumerated, Collected
<1>6. Unenumerated("full", n, s) \subseteq Unenumerated("partial", n, s)
  BY <1>2, <1>4 DEF Unenumerated, Collected
<1> QED  BY <1>4, <1>5, <1>6

\* A type that the guard of an absence finds, the full scan finds too.
LEMMA CoveredAgrees ==
    ASSUME TypeOK, NEW i \in Nodes, Covered("partial", rule.node[i])
    PROVE  Covered("full", rule.node[i])
<1> DEFINE n == rule.node[i]
           type == requires_collected(n)
<1>1. CASE n.kind = "relationship"
  BY <1>1 DEF Covered
<1>2. CASE n.kind # "relationship"
  <2>1. PICK r \in resource_ids_of_type("partial", type) : TRUE
    BY <1>2 DEF Covered
  <2>2. type # Placeholder
    BY IdentifierAssumption DEF TypeOK, requires_collected
  <2>3. r \in Resources /\ NodeType("partial", r) = type
    BY <2>1 DEF resource_ids_of_type
  <2>4. NodeType("full", r) = type
    BY <2>2, <2>3, NodeTypes
  <2>5. CASE r \in seen
    <3>1. r \in Collected("full")
      BY <2>5 DEF TypeOK, Coverage, Collected
    <3> QED  BY <2>3, <2>4, <3>1 DEF resource_ids_of_type, Covered
  <2>6. CASE r \notin seen
    <3>1. PICK e \in estate.asserted : e[3] = r /\ Linked("partial", e[1], e[2], r)
      BY <2>1, <2>6 DEF resource_ids_of_type, Collected
    <3>2. e \in Resources \X Links \X Resources
      BY <3>1, EstateAssumption DEF TypeOK
    <3>3. <<e[1], e[2], r>> = e
      BY <3>1, <3>2
    <3>4. Linked("full", e[1], e[2], r)
      BY <3>1, <3>3, CollectedLess DEF Linked, Lost
    <3> QED  BY <2>3, <2>4, <3>1, <3>4 DEF resource_ids_of_type, Covered
  <2> QED  BY <2>5, <2>6
<1> QED  BY <1>1, <1>2

LEMMA NeighboursExist ==
    ASSUME TypeOK, NEW w \in Scans, NEW n, NEW s
    PROVE  /\ Typed(w, n, s) \subseteq Resources
           /\ Unenumerated(w, n, s) \subseteq Resources
BY DEF Typed, Unenumerated, neighbors

\* What an existence condition contributes, when the neighbours are the same.
LEMMA PartitionInherits ==
    ASSUME TypeOK, NEW p \in Pairs, Node(p).kind \in Relational,
           Node(p).kind = "no_relationship" => Covered("partial", Node(p)),
           neighbors("partial", Node(p), p[2]) = neighbors("full", Node(p), p[2])
    PROVE  Inherits(p)
<1> DEFINE n == Node(p)
           s == p[2]
<1>1. /\ Typed("partial", n, s) \subseteq Typed("full", n, s)
      /\ Typed("full", n, s) \ Typed("partial", n, s)
            \subseteq Unenumerated("partial", n, s)
      /\ Unenumerated("full", n, s) \subseteq Unenumerated("partial", n, s)
  BY NodeFacts, PartitionsAgree DEF Node
<1>2. \A w \in Scans : Covered(w, n)
  BY NodeFacts, CoveredAgrees DEF Covered, Scans, Node, Relational
<1>3. \A w \in Scans : Operands(w, p) =
        IF n.where # NoNode
        THEN {n.where} \X (Typed(w, n, s) \intersect Collected(w)) ELSE {}
  BY <1>2 DEF Operands, Relational, Quantifiers
<1>4. \A w \in Scans : Gaps(w, p) =
        Unenumerated(w, n, s) \union (Typed(w, n, s) \ Collected(w))
  BY DEF Gaps, Relational, Quantifiers
<1>5. Operands("partial", p) \subseteq Operands("full", p)
  BY <1>1, <1>3, CollectedLess DEF Scans
<1>6. ASSUME Gaps("partial", p) = {}
      PROVE  /\ Operands("full", p) = Operands("partial", p)
             /\ Gaps("full", p) = {}
  <2>1. /\ Typed("full", n, s) = Typed("partial", n, s)
        /\ Typed("partial", n, s) \subseteq Collected("partial")
        /\ Unenumerated("full", n, s) = {}
    BY <1>1, <1>4, <1>6 DEF Scans
  <2>2. Typed("full", n, s) \subseteq Collected("full")
    BY <2>1, CollectedLess
  <2>3. Gaps("full", p) = {}
    BY <1>4, <2>1, <2>2 DEF Scans
  <2>4. /\ Typed("full", n, s) \intersect Collected("full") = Typed("full", n, s)
        /\ Typed("partial", n, s) \intersect Collected("partial")
              = Typed("partial", n, s)
    BY <2>1, <2>2
  <2>5. Operands("full", p) = Operands("partial", p)
    BY <1>3, <2>1, <2>4 DEF Scans
  <2> QED  BY <2>3, <2>5
<1> QED  BY <1>5, <1>6 DEF Inherits

\* An absence of incoming edges is guarded by the type they come from: one
\* node of it in the graph means that all of it was collected.
LEMMA GuardedAbsence ==
    ASSUME TypeOK, NEW p \in Pairs, p[2] \in Resources,
           Node(p).kind = "no_relationship", Sturdy(p),
           Node(p).direction # "outgoing", Covered("partial", Node(p))
    PROVE  /\ Inherits(p)
           /\ Typed("partial", Node(p), p[2]) = Typed("full", Node(p), p[2])
           /\ Gaps("partial", p) = {}
<1> DEFINE n == Node(p)
           s == p[2]
           type == n.target
<1>1. /\ n.link \notin Inferred /\ type \notin Skippable
      /\ type # AnyType /\ requires_collected(n) = type
      /\ <<type, n.link>> \notin unread
  BY DEF Sturdy, Relational
<1>2. type # Placeholder /\ p[1] \in Nodes /\ n = rule.node[p[1]]
  BY NodeFacts DEF Node
<1>3. PICK r \in resource_ids_of_type("partial", type) : TRUE
  BY <1>1 DEF Covered
<1>4. r \in Resources /\ NodeType("partial", r) = type
  BY <1>3 DEF resource_ids_of_type
<1>5. \A x \in Collectable : TypeOf[x] = type => x \in seen
  <2>1. CASE r \in seen
    <3>1. r \in Collectable /\ TypeOf[r] = type
      BY <1>4, <2>1 DEF TypeOK, Coverage, NodeType, Collected
    <3>2. \A x \in Collectable : TypeOf[x] = TypeOf[r] => x \in seen
      BY <1>1, <2>1, <3>1 DEF TypeOK, Coverage
    <3> QED  BY <3>1, <3>2
  <2>2. CASE r \notin seen
    <3>1. ExternalType[r] = type
      BY <1>4, <2>2 DEF NodeType, Collected
    <3> QED  BY <1>4, <3>1, IdentifierAssumption
  <2> QED  BY <2>1, <2>2
<1>6. \A w \in Scans, x \in Resources :
        Linked(w, x, n.link, s) => x \in Collected(w)
  BY DEF Linked
<1>7. \A w \in Scans : Unenumerated(w, n, s) = {}
  BY <1>6 DEF Unenumerated, neighbors
<1>8. \A w \in Scans, x \in Resources :
        x \in Typed(w, n, s) <=>
            /\ x \in Collected(w) /\ TypeOf[x] = type
            /\ <<x, n.link, s>> \in estate.asserted
  <2> SUFFICES ASSUME NEW w \in Scans, NEW x \in Resources
               PROVE  x \in Typed(w, n, s) <=>
                        /\ x \in Collected(w) /\ TypeOf[x] = type
                        /\ <<x, n.link, s>> \in estate.asserted
    OBVIOUS
  <2>1. x \in Typed(w, n, s) <=>
          x \in Collected(w) /\ TypeOf[x] = type /\ Linked(w, x, n.link, s)
    BY <1>1, <1>6 DEF Typed, NodeType, neighbors
  <2>2. TypeOf[x] = type => ~Lost("partial", x, n.link)
    BY <1>1 DEF Lost
  <2> QED  BY <1>1, <2>1, <2>2, LinkedAsserted
<1>9. \A w \in Scans : Typed(w, n, s) \subseteq Collected(w)
  BY <1>8, NeighboursExist
<1>10. Typed("partial", n, s) = Typed("full", n, s)
  <2>1. \A x \in Resources : x \in Typed("partial", n, s) <=> x \in Typed("full", n, s)
    BY <1>5, <1>8, CollectedLess DEF Scans, Collected
  <2> QED  BY <2>1, NeighboursExist DEF Scans
<1>11. \A w \in Scans : Gaps(w, p) = {}
  BY <1>7, <1>9 DEF Gaps, Relational, Quantifiers
<1>12. Covered("full", n)
  BY <1>2, CoveredAgrees
<1>13. Operands("full", p) = Operands("partial", p)
  <2>1. Typed("partial", n, s) \intersect Collected("partial")
          = Typed("full", n, s) \intersect Collected("full")
    BY <1>9, <1>10 DEF Scans
  <2>2. \A w \in Scans : Covered(w, n)
    BY <1>12 DEF Scans
  <2>3. \A w \in Scans : Operands(w, p) =
          IF n.where # NoNode
          THEN {n.where} \X (Typed(w, n, s) \intersect Collected(w)) ELSE {}
    BY <2>2 DEF Operands, Relational, Quantifiers
  <2> QED  BY <2>1, <2>3 DEF Scans
<1> QED  BY <1>10, <1>11, <1>13 DEF Inherits, Scans

-----------------------------------------------------------------------------
(* The result of a pair, when the scans agree on its operands.             *)

\* The operands have returned in both scans, which agree on them.
Settled(p) ==
    /\ \A w \in Scans : \A q \in Operands(w, p) : verdict[w][q] \in Results
    /\ \A q \in Operands("partial", p) \intersect Operands("full", p) : Agrees(q)

\* A contribution that the partial scan has, and that is decided, the full one
\* has too; and when all that it has is decided, they have the same.
LEMMA ContributionsAgree ==
    ASSUME NEW p \in Pairs, Inherits(p), Settled(p)
    PROVE  /\ \A v \in Decided : v \in Contributions("partial", p) =>
                v \in Contributions("full", p)
           /\ Contributions("partial", p) \subseteq Decided =>
                Contributions("full", p) = Contributions("partial", p)
<1>1. ASSUME NEW v \in Decided, v \in Contributions("partial", p)
      PROVE  v \in Contributions("full", p)
  <2>1. PICK q \in Operands("partial", p) : verdict["partial"][q] = v
    BY <1>1 DEF Contributions, Decided
  <2>2. verdict["full"][q] = v /\ q \in Operands("full", p)
    BY <1>1, <2>1 DEF Settled, Agrees, Inherits
  <2> QED  BY <2>2 DEF Contributions
<1>2. ASSUME Contributions("partial", p) \subseteq Decided
      PROVE  Contributions("full", p) = Contributions("partial", p)
  <2>1. Gaps("partial", p) = {}
    BY <1>2 DEF Contributions, Decided
  <2>2. Operands("full", p) = Operands("partial", p) /\ Gaps("full", p) = {}
    BY <2>1 DEF Inherits
  <2>3. \A q \in Operands("partial", p) :
           verdict["full"][q] = verdict["partial"][q]
    BY <1>2, <2>2 DEF Contributions, Settled, Agrees
  <2> QED  BY <2>1, <2>2, <2>3 DEF Contributions
<1> QED  BY <1>1, <1>2

LEMMA ContributionsType ==
    ASSUME NEW p \in Pairs, Settled(p), NEW w \in Scans
    PROVE  Contributions(w, p) \subseteq Results
BY DEF Settled, Contributions, Results

LEMMA OrAgrees ==
    ASSUME NEW p \in Pairs, Inherits(p), Settled(p),
           kleene_or(Contributions("partial", p)) \in Decided
    PROVE  kleene_or(Contributions("full", p))
              = kleene_or(Contributions("partial", p))
<1>1. CASE "matched" \in Contributions("partial", p)
  BY <1>1, ContributionsAgree DEF kleene_or, Decided
<1>2. CASE "matched" \notin Contributions("partial", p)
  <2>1. Contributions("partial", p) \subseteq Decided
    BY <1>2, ContributionsType DEF kleene_or, Decided, Results, Scans
  <2> QED  BY <2>1, ContributionsAgree
<1> QED  BY <1>1, <1>2

LEMMA AndAgrees ==
    ASSUME NEW p \in Pairs, Inherits(p), Settled(p),
           kleene_and(Contributions("partial", p)) \in Decided
    PROVE  kleene_and(Contributions("full", p))
              = kleene_and(Contributions("partial", p))
<1>1. CASE "not_matched" \in Contributions("partial", p)
  BY <1>1, ContributionsAgree DEF kleene_and, Decided
<1>2. CASE "not_matched" \notin Contributions("partial", p)
  <2>1. Contributions("partial", p) \subseteq Decided
    BY <1>2, ContributionsType DEF kleene_and, Decided, Results, Scans
  <2> QED  BY <2>1, ContributionsAgree
<1> QED  BY <1>1, <1>2

LEMMA NotOrAgrees ==
    ASSUME NEW p \in Pairs, Inherits(p), Settled(p),
           kleene_not(kleene_or(Contributions("partial", p))) \in Decided
    PROVE  kleene_not(kleene_or(Contributions("full", p)))
              = kleene_not(kleene_or(Contributions("partial", p)))
<1>1. kleene_or(Contributions("partial", p)) \in Decided
  BY DEF kleene_not, Decided
<1> QED  BY <1>1, OrAgrees

\* Connectives have the same operands in both scans, and no gap.
LEMMA ConnectiveInherits ==
    ASSUME NEW p \in Pairs, Node(p).kind \in {"and", "or", "not"}
    PROVE  Inherits(p)
BY DEF Inherits, Operands, Gaps, Quantifiers, Relational

\* So has a quantifier over a list that the partial scan read.
LEMMA QuantifierInherits ==
    ASSUME TypeOK, NEW p \in Pairs, Node(p).kind \in Quantifiers, Candid(p),
           Read("partial", p[2], Node(p).field) \in Lists
    PROVE  Inherits(p) /\ Read("full", p[2], Node(p).field) \in Lists
<1>1. Read("full", p[2], Node(p).field) = Read("partial", p[2], Node(p).field)
  BY ReadAgrees, DataAssumption
<1>2. Listed("full", Node(p), p[2]) = Listed("partial", Node(p), p[2])
  BY <1>1 DEF Listed
<1>3. /\ Operands("full", p) = Operands("partial", p)
      /\ Gaps("full", p) = Gaps("partial", p)
  BY <1>2 DEF Operands, Gaps, Quantifiers, Relational
<1> QED  BY <1>1, <1>3 DEF Inherits

\* A sturdy relationship or absence, on a resource that was collected.
LEMMA RelationalInherits ==
    ASSUME TypeOK, NEW p \in Pairs, p[2] \in seen,
           Node(p).kind \in Relational, Sturdy(p),
           Covered("partial", Node(p))
    PROVE  /\ Inherits(p)
           /\ Covered("full", Node(p))
           /\ Typed("partial", Node(p), p[2]) \subseteq Typed("full", Node(p), p[2])
           /\ Gaps("partial", p) = {} =>
                Typed("partial", Node(p), p[2]) = Typed("full", Node(p), p[2])
<1>1. /\ p[1] \in Nodes /\ Node(p) = rule.node[p[1]]
      /\ p[2] \in Resources /\ p[2] \in Subjects
  BY NodeFacts, IdentifierAssumption DEF Node, TypeOK, Coverage
<1>2. Covered("full", Node(p))
  BY <1>1, CoveredAgrees
<1>3. CASE Node(p).direction = "outgoing"
  <2>1. neighbors("partial", Node(p), p[2]) = neighbors("full", Node(p), p[2])
    BY <1>1, <1>3, OutgoingAgree
  <2>2. Inherits(p)
    BY <2>1, PartitionInherits
  <2>3. /\ Typed("partial", Node(p), p[2]) \subseteq Typed("full", Node(p), p[2])
        /\ Typed("full", Node(p), p[2]) \ Typed("partial", Node(p), p[2])
              \subseteq Unenumerated("partial", Node(p), p[2])
    BY <1>1, <2>1, PartitionsAgree
  <2>4. Unenumerated("partial", Node(p), p[2]) \subseteq Gaps("partial", p)
    BY DEF Gaps, Relational, Quantifiers
  <2> QED  BY <1>2, <2>2, <2>3, <2>4
<1>4. CASE Node(p).direction # "outgoing"
  <2>1. Node(p).kind = "no_relationship"
    BY <1>4 DEF Sturdy, Relational
  <2> QED  BY <1>1, <1>2, <1>4, <2>1, GuardedAbsence
<1> QED  BY <1>3, <1>4

LEMMA AbsenceAgrees ==
    ASSUME TypeOK, NEW p \in Pairs, p[2] \in seen, Settled(p),
           Node(p).kind = "no_relationship", Sturdy(p),
           Covered("partial", Node(p)), NoRelationship("partial", p) \in Decided
    PROVE  NoRelationship("full", p) = NoRelationship("partial", p)
<1> DEFINE typed(w) == Typed(w, Node(p), p[2])
<1>1. /\ Inherits(p)
      /\ typed("partial") \subseteq typed("full")
      /\ Gaps("partial", p) = {} => typed("partial") = typed("full")
  BY RelationalInherits DEF Relational
<1>2. CASE Node(p).where # NoNode
  BY <1>1, <1>2, NotOrAgrees DEF NoRelationship
<1>3. CASE Node(p).where = NoNode
  <2>1. CASE typed("partial") # {}
    <3>1. typed("full") # {}
      BY <1>1, <2>1
    <3> QED  BY <1>3, <2>1, <3>1 DEF NoRelationship
  <2>2. CASE typed("partial") = {}
    <3>1. kleene_not(kleene_or(Contributions("partial", p))) \in Decided
      BY <2>2 DEF NoRelationship
    <3>2. Operands("partial", p) = {}
      BY <1>3 DEF Operands, Relational, Quantifiers
    <3>3. Gaps("partial", p) = {}
      BY <3>1, <3>2 DEF Contributions, kleene_not, kleene_or, Decided
    <3>4. typed("full") = {}
      BY <1>1, <2>2, <3>3
    <3> QED  BY <1>1, <2>2, <3>1, <3>4, NotOrAgrees DEF NoRelationship
  <2> QED  BY <2>1, <2>2
<1> QED  BY <1>2, <1>3

\* The heart of the proof: what the partial scan decides from operands on
\* which the scans agree, the full scan decides too.
LEMMA ResultAgrees ==
    ASSUME TypeOK, NEW p \in Pairs, p[2] \in seen \union Elements,
           Sturdy(p), Settled(p), ~Raises("partial", p),
           Result("partial", p) \in Decided
    PROVE  Result("full", p) = Result("partial", p)
<1> DEFINE n == Node(p)
<1> USE DEF Result
<1>1. CASE n.kind = "leaf"
  BY <1>1, LeafAgrees DEF Quantifiers
<1>2. CASE n.kind = "and"
  BY <1>2, ConnectiveInherits, AndAgrees DEF Quantifiers
<1>3. CASE n.kind = "or"
  BY <1>3, ConnectiveInherits, OrAgrees DEF Quantifiers
<1>4. CASE n.kind = "not"
  BY <1>4, ConnectiveInherits, NotOrAgrees DEF Quantifiers
<1>5. CASE n.kind \in Quantifiers
  <2>1. Read("partial", p[2], n.field) \in Lists
    BY <1>5 DEF Quantifiers, Decided
  <2>2. Inherits(p) /\ Read("full", p[2], n.field) \in Lists
    BY <1>5, <2>1, QuantifierInherits DEF Sturdy
  <2>3. \A w \in Scans : Result(w, p) = Quantified(n.kind, Contributions(w, p))
    BY <1>5, <2>1, <2>2 DEF Quantifiers, Scans
  <2>4. CASE n.kind = "any"
    BY <2>2, <2>3, <2>4, OrAgrees DEF Quantified, Scans
  <2>5. CASE n.kind = "all"
    BY <2>2, <2>3, <2>5, AndAgrees DEF Quantified, Scans
  <2>6. CASE n.kind = "none"
    BY <2>2, <2>3, <2>6, NotOrAgrees DEF Quantified, Scans
  <2> QED  BY <1>5, <2>4, <2>5, <2>6 DEF Quantifiers
<1>6. CASE n.kind = "relationship"
  <2>1. p[2] \in seen /\ Covered("partial", n)
    BY <1>6 DEF Raises, Relational, Covered
  <2>2. Inherits(p)
    BY <1>6, <2>1, RelationalInherits DEF Relational
  <2> QED  BY <1>6, <2>2, OrAgrees DEF Quantifiers
<1>7. CASE n.kind = "no_relationship"
  <2>1. p[2] \in seen /\ Covered("partial", n)
    BY <1>7 DEF Raises, Relational, Decided, Quantifiers
  <2>2. Covered("full", n)
    BY <1>7, <2>1, RelationalInherits DEF Relational
  <2> QED  BY <1>7, <2>1, <2>2, AbsenceAgrees DEF Quantifiers
<1>8. CASE n.kind \notin {"leaf", "and", "or", "not"} \union Quantifiers
                             \union Relational
  BY <1>8 DEF Decided, Relational
<1> QED
  BY <1>1, <1>2, <1>3, <1>4, <1>5, <1>6, <1>7, <1>8 DEF Relational

-----------------------------------------------------------------------------
(* Types.                                                                  *)

\* A value that can be compared, absent or unknown.
LEMMA ReadType ==
    ASSUME TypeOK, NEW w \in Scans, NEW p \in Pairs
    PROVE  Read(w, p[2], Node(p).field) \in Data \union {Absent, Unknown}
<1>1. /\ rule \in Rules /\ estate \in Estates
      /\ p[1] \in Nodes /\ p[2] \in Resources \union Elements
  BY NodeFacts DEF TypeOK, Subjects
<1>2. estate.fact[p[2]][rule.node[p[1]].field] \in Data \union {Absent}
  BY <1>1, EstateAssumption
<1>3. Plain \in [DOMAIN Plain -> Data \union {Absent}]
  BY EstateAssumption
<1> QED  BY <1>2, <1>3 DEF Read, Node

LEMMA LeafType ==
    ASSUME TypeOK, NEW w \in Scans, NEW p \in Pairs,
           Node(p).kind = "leaf", ~Raises(w, p)
    PROVE  Leaf(w, Node(p), p[2]) \in Results
<1> DEFINE n == Node(p)
           value == Read(w, p[2], n.field)
<1>1. CASE n.op \in Presence
  BY <1>1 DEF Leaf, Present, Results, Decided
<1>2. CASE n.op \notin Presence /\ value \in {Absent, Unknown}
  BY <1>2 DEF Leaf, Results
<1>3. CASE n.op \notin Presence /\ value \notin {Absent, Unknown}
  <2>1. value \in Data /\ n.op \in DOMAIN Compare
    BY <1>3, ReadType, NodeFacts
  <2>2. Compare[n.op][value] \in Outcomes
    BY <2>1, DataAssumption
  <2>3. Compare[n.op][value] # "raise"
    BY <1>3, <2>1 DEF Raises, ComparisonRaises
  <2>4. Leaf(w, n, p[2]) = Answer(Compare[n.op][value])
    BY <1>3 DEF Leaf
  <2> QED  BY <2>2, <2>3, <2>4 DEF Answer, Outcomes, Results
<1> QED  BY <1>1, <1>2, <1>3

LEMMA KleeneType ==
    ASSUME NEW S
    PROVE  /\ kleene_and(S) \in Results
           /\ kleene_or(S) \in Results
           /\ kleene_not(kleene_or(S)) \in Results
BY DEF kleene_and, kleene_or, kleene_not, Results, Decided

LEMMA ResultType ==
    ASSUME TypeOK, NEW w \in Scans, NEW p \in Pairs, ~Raises(w, p)
    PROVE  Result(w, p) \in Results
<1> DEFINE n == Node(p)
           C == Contributions(w, p)
<1>1. CASE n.kind = "leaf"
  BY <1>1, LeafType DEF Result, Quantifiers
<1>2. CASE n.kind \in {"and", "or", "not"}
  BY <1>2, KleeneType DEF Result, Quantifiers
<1>3. CASE n.kind \in Quantifiers
  <2>1. Quantified(n.kind, C) \in Results
    BY <1>3, KleeneType DEF Quantified, Quantifiers
  <2> QED  BY <1>3, <2>1 DEF Result, Quantifiers, Results
<1>4. CASE n.kind = "relationship"
  BY <1>4, KleeneType DEF Result, Quantifiers
<1>5. CASE n.kind = "no_relationship"
  <2>1. NoRelationship(w, p) \in Results
    BY KleeneType DEF NoRelationship, Results, Decided
  <2> QED  BY <1>5, <2>1 DEF Result, Quantifiers, Results
<1>6. CASE n.kind \notin {"leaf", "and", "or", "not", "relationship",
                          "no_relationship"} \union Quantifiers
  BY <1>6 DEF Result, Results
<1> QED  BY <1>1, <1>2, <1>3, <1>4, <1>5, <1>6

\* An evaluation asks only for nodes of the condition, on resources that were
\* collected or on elements of a list.
LEMMA OperandsType ==
    ASSUME TypeOK, NEW w \in Scans, NEW p \in Pairs, ~Raises(w, p),
           p[2] \in Collected(w) \union Elements
    PROVE  \A q \in Operands(w, p) :
              q \in Pairs /\ q[2] \in Collected(w) \union Elements
<1> DEFINE n == Node(p)
<1>1. /\ n.kids \subseteq Nodes /\ n.where \in Nodes \union {NoNode}
      /\ p[2] \in Subjects
  BY NodeFacts
<1>2. CASE n.kind \in {"and", "or", "not"}
  BY <1>1, <1>2 DEF Operands, Quantifiers, Relational, Pairs
<1>3. CASE n.kind \in Quantifiers
  <2>1. Operands(w, p) = {n.where} \X (Listed(w, n, p[2]) \intersect Mappings)
    BY <1>3 DEF Operands, Quantifiers, Relational
  <2>2. CASE Read(w, p[2], n.field) \in Lists
    <3>1. n.where \in Nodes
      BY <1>1, <1>3, <2>2 DEF Raises
    <3> QED  BY <2>1, <3>1, DataAssumption DEF Pairs, Subjects
  <2>3. CASE Read(w, p[2], n.field) \notin Lists
    BY <2>1, <2>3 DEF Listed
  <2> QED  BY <2>2, <2>3
<1>4. CASE n.kind \in Relational /\ n.where # NoNode /\ Covered(w, n)
  <2>1. Operands(w, p)
          = {n.where} \X (Typed(w, n, p[2]) \intersect Collected(w))
    BY <1>4 DEF Operands, Quantifiers, Relational
  <2> QED  BY <1>1, <1>4, <2>1, NeighboursExist DEF Pairs, Subjects
<1>5. CASE /\ n.kind \notin {"and", "or", "not"} \union Quantifiers
           /\ ~(n.kind \in Relational /\ n.where # NoNode /\ Covered(w, n))
  BY <1>5 DEF Operands
<1> QED  BY <1>2, <1>3, <1>4, <1>5

LEMMA ObservationType ==
    ASSUME TypeOK, NEW w \in Scans, NEW p \in Pairs, NEW x \in Examined(w, p)
    PROVE  Observation(w, p, x) \in Observations
<1>1. x \in Resources
  BY NeighboursExist DEF Examined
<1>2. Observation(w, p, x).satisfied \in Satisfactions
  BY DEF Observation, Satisfied, Satisfactions
<1> QED  BY <1>1, <1>2 DEF Observation, Observations

-----------------------------------------------------------------------------
(* What a scan knows does not change while rules are evaluated.            *)

LEMMA FrameGiven ==
    ASSUME UNCHANGED given, NEW w \in Scans, NEW p \in Pairs
    PROVE  /\ Operands(w, p)' = Operands(w, p)
           /\ Gaps(w, p)' = Gaps(w, p)
           /\ Raises(w, p)' = Raises(w, p)
           /\ Covered(w, Node(p))' = Covered(w, Node(p))
           /\ Typed(w, Node(p), p[2])' = Typed(w, Node(p), p[2])
           /\ Examined(w, p)' = Examined(w, p)
           /\ Leaf(w, Node(p), p[2])' = Leaf(w, Node(p), p[2])
           /\ Read(w, p[2], Node(p).field)' = Read(w, p[2], Node(p).field)
           /\ Collected(w)' = Collected(w)
           /\ Node(p)' = Node(p)
           /\ Candid(p)' = Candid(p)
           /\ Sturdy(p)' = Sturdy(p)
<1>1. estate' = estate /\ seen' = seen /\ unread' = unread /\ rule' = rule
  BY DEF given
<1>2. Node(p)' = Node(p)
  BY <1>1 DEF Node
<1>3. Collected(w)' = Collected(w)
  BY <1>1 DEF Collected
<1>4. ASSUME NEW r, NEW what  PROVE Lost(w, r, what)' = Lost(w, r, what)
  BY <1>1 DEF Lost
<1>5. ASSUME NEW s, NEW f  PROVE Read(w, s, f)' = Read(w, s, f)
  BY <1>1, <1>4, Zenon DEF Read
<1>6. ASSUME NEW a, NEW link, NEW b
      PROVE Linked(w, a, link, b)' = Linked(w, a, link, b)
  BY <1>1, <1>3, <1>4, Zenon DEF Linked
<1>7. ASSUME NEW r  PROVE NodeType(w, r)' = NodeType(w, r)
  BY <1>3, Zenon DEF NodeType
<1>8. ASSUME NEW n, NEW r  PROVE neighbors(w, n, r)' = neighbors(w, n, r)
  BY <1>6, Zenon DEF neighbors
<1>9. ASSUME NEW n, NEW r
      PROVE /\ Typed(w, n, r)' = Typed(w, n, r)
            /\ Unenumerated(w, n, r)' = Unenumerated(w, n, r)
  <2>1. Typed(w, n, r)' = Typed(w, n, r)
    BY <1>7, <1>8 DEF Typed
  <2> QED  BY <2>1, <1>3, <1>8, Zenon DEF Unenumerated
<1>10. ASSUME NEW n  PROVE Covered(w, n)' = Covered(w, n)
  <2>1. resource_ids_of_type(w, requires_collected(n))'
        = resource_ids_of_type(w, requires_collected(n))
    BY <1>1, <1>3, <1>6, <1>7 DEF resource_ids_of_type
  <2> QED  BY <2>1, Zenon DEF Covered
<1>11. ASSUME NEW n, NEW s  PROVE Listed(w, n, s)' = Listed(w, n, s)
  BY <1>5, Zenon DEF Listed
<1>12. ASSUME NEW n, NEW s  PROVE Leaf(w, n, s)' = Leaf(w, n, s)
  BY <1>5, Zenon DEF Leaf
<1>13. Operands(w, p)' = Operands(w, p)
  BY <1>2, <1>3, <1>9, <1>10, <1>11, Zenon DEF Operands
<1>14. Gaps(w, p)' = Gaps(w, p)
  BY <1>2, <1>3, <1>9, <1>11, Zenon DEF Gaps
<1>15. Raises(w, p)' = Raises(w, p)
  BY <1>2, <1>5, Zenon DEF Raises
<1>16. Leaf(w, Node(p), p[2])' = Leaf(w, Node(p), p[2])
  BY <1>2, <1>12, Zenon
<1>17. Read(w, p[2], Node(p).field)' = Read(w, p[2], Node(p).field)
  BY <1>2, <1>5, Zenon
<1>18. Typed(w, Node(p), p[2])' = Typed(w, Node(p), p[2])
  BY <1>2, <1>9, Zenon
<1>19. Covered(w, Node(p))' = Covered(w, Node(p))
  BY <1>2, <1>10, Zenon
<1>20. Examined(w, p)' = Examined(w, p)
  <2>1. Unenumerated(w, Node(p), p[2])' = Unenumerated(w, Node(p), p[2])
    BY <1>2, <1>9, Zenon
  <2> QED  BY <2>1, <1>2, <1>18, <1>19, Zenon DEF Examined
<1>21. Candid(p)' = Candid(p)
  BY <1>1, <1>2 DEF Candid, Lost
<1>22. Sturdy(p)' = Sturdy(p)
  BY <1>1, <1>2, <1>21 DEF Sturdy, requires_collected, Lost
<1> QED
  BY <1>2, <1>3, <1>13, <1>14, <1>15, <1>16, <1>17, <1>18, <1>19, <1>20,
     <1>21, <1>22

\* A pair that has returned keeps its result while its operands keep theirs.
LEMMA FrameReturned ==
    ASSUME UNCHANGED given, NEW w \in Scans, NEW p \in Pairs, Returned(w, p),
           verdict'[w][p] = verdict[w][p],
           \A q \in Operands(w, p) : verdict'[w][q] = verdict[w][q]
    PROVE  Returned(w, p)'
<1>1. Contributions(w, p)' = Contributions(w, p)
  BY FrameGiven DEF Contributions
<1>2. Result(w, p)' = Result(w, p)
  BY <1>1, FrameGiven, Zenon DEF Result, NoRelationship
<1> QED
  BY <1>2, FrameGiven DEF Returned

-----------------------------------------------------------------------------
(* The steps.                                                              *)

LEMMA InitIInv == Init => IInv
<1> SUFFICES ASSUME Init PROVE IInv
  OBVIOUS
<1>1. /\ \A w \in Scans : status[w] = "waiting" /\ trace[w] = {}
      /\ \A w \in Scans, p \in Pairs : verdict[w][p] = "unasked"
  BY DEF Init
<1>2. TypeOK
  <2>1. subject \in seen /\ seen \in Coverage
    BY DEF Init
  <2>2. verdict \in [Scans -> [Pairs -> Results \union {"unasked", "open"}]]
    BY DEF Init
  <2>3. /\ status \in [Scans -> Ended \union {"waiting", "running"}]
        /\ trace \in [Scans -> SUBSET Observations]
    BY DEF Init
  <2> QED  BY <2>1, <2>2, <2>3 DEF Init, TypeOK
<1>3. Sane /\ Untouched
  BY <1>1 DEF Sane, Untouched
<1>4. "unasked" \notin Results
  BY DEF Results, Decided
<1>5. Consistent
  BY <1>1, <1>4 DEF Consistent
<1>6. Agreement
  <2>1. \A q \in Pairs : verdict["partial"][q] \notin Results
    BY <1>1, <1>4 DEF Scans
  <2> QED  BY <2>1 DEF Agreement, Scans
<1> QED  BY <1>2, <1>3, <1>5, <1>6 DEF IInv

\* A step in which no pair returns.
LEMMA QuietStep ==
    ASSUME IInv, UNCHANGED given,
           \A w \in Scans, p \in Pairs :
              \/ verdict'[w][p] = verdict[w][p]
              \/ verdict[w][p] \notin Results /\ verdict'[w][p] = "open"
    PROVE  Consistent' /\ Agreement'
<1> "open" \notin Results
  BY DEF Results, Decided
<1>1. Consistent'
  <2> SUFFICES ASSUME NEW w \in Scans, NEW p \in Pairs, verdict'[w][p] \in Results
               PROVE  Returned(w, p)'
    BY DEF Consistent
  <2>1. verdict[w][p] = verdict'[w][p] /\ Returned(w, p)
    BY DEF IInv, Consistent
  <2>2. p[2] \in Collected(w) \union Elements
    BY <2>1 DEF IInv, Sane, Results, Decided
  <2>3. \A q \in Operands(w, p) : verdict'[w][q] = verdict[w][q]
    BY <2>1, <2>2, OperandsType DEF IInv, Returned
  <2> QED  BY <2>1, <2>3, FrameReturned
<1>2. Guarded' => Guarded
  BY FrameGiven DEF Guarded, Scans
<1>3. Agreement'
  <2> SUFFICES ASSUME Guarded', NEW q \in Pairs,
                      verdict'["partial"][q] \in Results,
                      verdict'["full"][q] \in Results
               PROVE  Agrees(q)'
    BY Zenon DEF Agreement, Scans
  <2>1. /\ verdict'["partial"][q] = verdict["partial"][q]
        /\ verdict'["full"][q] = verdict["full"][q]
    BY DEF Scans
  <2>2. Agrees(q)
    BY <1>2, <2>1 DEF IInv, Agreement, Scans
  <2> QED  BY <2>1, <2>2 DEF Agrees
<1> QED  BY <1>1, <1>3

LEMMA TopType == TypeOK => Top \in Pairs
BY RuleAssumption, IdentifierAssumption
DEF TypeOK, Coverage, Top, Pairs, Subjects

LEMMA BeginIInv ==
    ASSUME IInv, NEW w \in Scans, Begin(w)
    PROVE  IInv'
<1>1. Top \in Pairs
  BY TopType DEF IInv
<1>2. UNCHANGED given /\ UNCHANGED trace
  BY DEF Begin
<1>3. \A v \in Scans, p \in Pairs :
         verdict'[v][p] = IF v = w /\ p = Top THEN "open" ELSE verdict[v][p]
  BY <1>1 DEF IInv, TypeOK, Begin
<1>4. \A p \in Pairs : verdict[w][p] = "unasked"
  BY DEF IInv, Untouched, Begin
<1>5. TypeOK'
  <2>1. verdict' \in [Scans -> [Pairs -> Results \union {"unasked", "open"}]]
    BY <1>1 DEF IInv, TypeOK, Begin
  <2>2. status' \in [Scans -> Ended \union {"waiting", "running"}]
    BY DEF IInv, TypeOK, Begin
  <2> QED  BY <1>2, <2>1, <2>2 DEF IInv, TypeOK, given
<1>6. subject \in seen
  BY DEF IInv, TypeOK
<1>7. Sane'
  <2>1. \A v \in Scans : Top[2] \in Collected(v)
    BY <1>6, CollectedLess DEF IInv, Top, Collected, Scans
  <2>2. \A v \in Scans : Collected(v)' = Collected(v)
    BY <1>2 DEF given, Collected
  <2> QED  BY <1>3, <2>1, <2>2 DEF IInv, Sane
<1>8. Untouched'
  BY <1>3 DEF IInv, TypeOK, Untouched, Begin
<1>9. "unasked" \notin Results /\ "open" \notin Results
  BY DEF Results, Decided
<1>10. Consistent' /\ Agreement'
  BY <1>2, <1>3, <1>4, <1>9, QuietStep
<1> QED  BY <1>5, <1>7, <1>8, <1>10 DEF IInv

LEMMA AskIInv ==
    ASSUME IInv, NEW w \in Scans, NEW p \in Pairs, Ask(w, p)
    PROVE  IInv'
<1>1. UNCHANGED <<given, status, trace>>
  BY DEF Ask
<1>2. \A v \in Scans, q \in Pairs :
         verdict'[v][q] = IF v = w /\ q \in Operands(w, p) /\ verdict[w][q] = "unasked"
                          THEN "open" ELSE verdict[v][q]
  BY DEF IInv, TypeOK, Ask
<1>3. TypeOK'
  <2>1. verdict' \in [Scans -> [Pairs -> Results \union {"unasked", "open"}]]
    BY DEF IInv, TypeOK, Ask
  <2> QED  BY <1>1, <2>1 DEF IInv, TypeOK, given
<1>4. \A q \in Operands(w, p) : q[2] \in Collected(w) \union Elements
  BY OperandsType DEF IInv, Sane, Ask, Open
<1>5. Sane'
  BY <1>1, <1>2, <1>4 DEF IInv, Sane, given, Collected
<1>6. Untouched'
  BY <1>1, <1>2 DEF IInv, Untouched, Ask, Open
<1>7. "unasked" \notin Results /\ "open" \notin Results
  BY DEF Results, Decided
<1>8. Consistent' /\ Agreement'
  BY <1>1, <1>2, <1>7, QuietStep
<1> QED  BY <1>3, <1>5, <1>6, <1>8 DEF IInv

LEMMA RaiseIInv ==
    ASSUME IInv, NEW w \in Scans, NEW p \in Pairs, Raise(w, p)
    PROVE  IInv'
<1>1. UNCHANGED <<given, verdict, trace>>
  BY DEF Raise
<1>2. TypeOK'
  <2>1. status' \in [Scans -> Ended \union {"waiting", "running"}]
    BY DEF IInv, TypeOK, Raise, Ended
  <2> QED  BY <1>1, <2>1 DEF IInv, TypeOK, given
<1>3. Sane'
  BY <1>1 DEF IInv, Sane, given, Collected
<1>4. Untouched'
  BY <1>1 DEF IInv, TypeOK, Untouched, Raise, Open
<1>5. Consistent' /\ Agreement'
  BY <1>1, QuietStep
<1> QED  BY <1>2, <1>3, <1>4, <1>5 DEF IInv

\* A pair returns: its operands have, in this scan by the guard and in the
\* other one, if it has returned there, by Consistent.
LEMMA ReturnIInv ==
    ASSUME IInv, NEW w \in Scans, NEW p \in Pairs, Return(w, p)
    PROVE  IInv'
<1>1. UNCHANGED given
  BY DEF Return
<1>2. \A v \in Scans, q \in Pairs :
         verdict'[v][q] = IF v = w /\ q = p THEN Result(w, p) ELSE verdict[v][q]
  BY DEF IInv, TypeOK, Return
<1>3. Result(w, p) \in Results
  BY ResultType DEF IInv, Return
<1>4. p[2] \in Collected(w) \union Elements
  BY DEF IInv, Sane, Return, Open
<1>5. verdict[w][p] = "open" /\ "open" \notin Results
  BY DEF Return, Open, Results, Decided
<1>6. TypeOK'
  <2>1. verdict' \in [Scans -> [Pairs -> Results \union {"unasked", "open"}]]
    BY <1>3 DEF IInv, TypeOK, Return
  <2>2. status' \in [Scans -> Ended \union {"waiting", "running"}]
    BY DEF IInv, TypeOK, Return, Ended
  <2>3. trace' \in [Scans -> SUBSET Observations]
    <3>1. {Observation(w, p, x) : x \in Examined(w, p)} \subseteq Observations
      BY ObservationType DEF IInv
    <3> QED  BY <3>1 DEF IInv, TypeOK, Return
  <2> QED  BY <1>1, <2>1, <2>2, <2>3 DEF IInv, TypeOK, given
<1>7. Sane'
  BY <1>1, <1>2, <1>4 DEF IInv, Sane, given, Collected
<1>8. Untouched'
  BY <1>2 DEF IInv, TypeOK, Untouched, Return, Open
<1>9. Consistent'
  <2> SUFFICES ASSUME NEW v \in Scans, NEW q \in Pairs, verdict'[v][q] \in Results
               PROVE  Returned(v, q)'
    BY DEF Consistent
  <2>1. CASE v = w /\ q = p
    <3>1. \A o \in Operands(w, p) : o \in Pairs /\ o # p
      BY <1>4, <1>5, OperandsType DEF IInv, Return
    <3>2. \A o \in Operands(w, p) : verdict'[w][o] = verdict[w][o]
      BY <1>2, <3>1
    <3>3. Contributions(w, p)' = Contributions(w, p)
      BY <1>1, <3>2, FrameGiven DEF Contributions
    <3>4. Result(w, p)' = Result(w, p)
      BY <1>1, <3>3, FrameGiven, Zenon DEF Result, NoRelationship
    <3> QED
      BY <1>1, <1>2, <2>1, <3>2, <3>4, FrameGiven DEF Return, Returned
  <2>2. CASE ~(v = w /\ q = p)
    <3>1. verdict'[v][q] = verdict[v][q] /\ Returned(v, q)
      BY <1>2, <2>2 DEF IInv, Consistent
    <3>2. q[2] \in Collected(v) \union Elements
      BY <3>1 DEF IInv, Sane, Results, Decided
    <3>3. \A o \in Operands(v, q) : o \in Pairs /\ ~(v = w /\ o = p)
      BY <1>5, <3>1, <3>2, OperandsType DEF IInv, Returned
    <3>4. \A o \in Operands(v, q) : verdict'[v][o] = verdict[v][o]
      BY <1>2, <3>3
    <3> QED  BY <1>1, <3>1, <3>4, FrameReturned
  <2> QED  BY <2>1, <2>2
<1>10. Agreement'
  <2> SUFFICES ASSUME Guarded', NEW q \in Pairs,
                      \A v \in Scans : verdict'[v][q] \in Results
               PROVE  Agrees(q)'
    BY Zenon DEF Agreement
  <2>1. Guarded /\ (w = "partial" => Sturdy(p))
    BY <1>1, <1>2, <1>3, <1>5, FrameGiven DEF Guarded, Scans, Results, Decided
  <2>2. CASE q # p
    <3>1. \A v \in Scans : verdict'[v][q] = verdict[v][q]
      BY <1>2, <2>2
    <3>2. Agrees(q)
      BY <2>1, <3>1 DEF IInv, Agreement
    <3> QED  BY <3>1, <3>2 DEF Agrees, Scans
  <2>3. CASE q = p
    <3>1. \A v \in Scans : verdict'[v][p] = Result(v, p) /\ ~Raises(v, p)
                /\ \A o \in Operands(v, p) : verdict[v][o] \in Results
      BY <1>2, <2>3 DEF IInv, Consistent, Returned, Return
    <3>2. p[2] \in seen \union Elements
      <4>1. verdict["partial"][p] # "unasked"
        BY <1>2, <1>5, <2>3 DEF Scans, Results, Decided
      <4> QED  BY <4>1 DEF IInv, Sane, Scans, Collected
    <3>3. \A o \in Operands("partial", p) : o \in Pairs
      BY <3>1, <3>2, OperandsType DEF IInv, Scans, Collected
    <3>4. Sturdy(p)
      BY <1>2, <1>5, <2>1, <2>3 DEF Guarded, Scans, Results, Decided
    <3>5. Settled(p)
      BY <2>1, <3>1, <3>3 DEF IInv, Agreement, Settled, Scans
    <3>6. Result("partial", p) \in Decided => Result("full", p) = Result("partial", p)
      BY <3>1, <3>2, <3>4, <3>5, ResultAgrees DEF IInv, Scans
    <3> QED  BY <2>3, <3>1, <3>6 DEF Agrees, Scans
  <2> QED  BY <2>2, <2>3
<1> QED  BY <1>6, <1>7, <1>8, <1>9, <1>10 DEF IInv

LEMMA Inductive == IInv /\ [Next]_vars => IInv'
<1> SUFFICES ASSUME IInv, [Next]_vars PROVE IInv'
  OBVIOUS
<1>1. ASSUME NEW w \in Scans, Begin(w) PROVE IInv'
  BY <1>1, BeginIInv
<1>2. ASSUME NEW w \in Scans, NEW p \in Pairs, Ask(w, p) PROVE IInv'
  BY <1>2, AskIInv
<1>3. ASSUME NEW w \in Scans, NEW p \in Pairs, Return(w, p) PROVE IInv'
  BY <1>3, ReturnIInv
<1>4. ASSUME NEW w \in Scans, NEW p \in Pairs, Raise(w, p) PROVE IInv'
  BY <1>4, RaiseIInv
<1>5. CASE UNCHANGED vars
  <2>1. UNCHANGED <<given, status, verdict, trace>>
    BY <1>5 DEF vars
  <2>2. TypeOK'
    BY <2>1 DEF IInv, TypeOK, given
  <2>3. Sane' /\ Untouched'
    BY <2>1 DEF IInv, Sane, Untouched, given, Collected
  <2>4. Consistent' /\ Agreement'
    BY <2>1, QuietStep
  <2> QED  BY <2>2, <2>3, <2>4 DEF IInv
<1> QED  BY <1>1, <1>2, <1>3, <1>4, <1>5 DEF Next

-----------------------------------------------------------------------------
(* The theorems.                                                           *)

\* Every verdict is one of the three values and every observation is yes, no
\* or unknown, whatever is compared with whatever (conditions.py).
THEOREM TypeCorrect == Spec => []TypeOK
<1>1. IInv => TypeOK
  BY DEF IInv
<1> QED  BY InitIInv, Inductive, <1>1, PTL DEF Spec

\* Every call that has returned has the result that the three-valued tables
\* give for its operands, all of which have returned (evaluate_condition).
THEOREM EvaluationCompositional == Spec => []Consistent
<1>1. IInv => Consistent
  BY DEF IInv
<1> QED  BY InitIInv, Inductive, <1>1, PTL DEF Spec

\* What a scan that was refused something decides of a sturdy rule, a scan
\* that reads everything decides too (conditions.py: INDETERMINATE "must never
\* silently become MATCHED/NOT_MATCHED").
THEOREM VerdictsOfSturdyRulesSurvive == Spec => []GuardedVerdictsSurvive
<1>1. IInv => GuardedVerdictsSurvive
  <2> SUFFICES ASSUME IInv, Guarded, verdict["partial"][Top] \in Decided,
                      verdict["full"][Top] \in Results
               PROVE  verdict["full"][Top] = verdict["partial"][Top]
    BY DEF GuardedVerdictsSurvive, DecidedOnData
  <2>1. Top \in Pairs
    BY TopType DEF IInv
  <2>2. Agrees(Top)
    BY <2>1 DEF IInv, Agreement, Scans, Results
  <2> QED  BY <2>2 DEF Agrees
<1> QED  BY InitIInv, Inductive, <1>1, PTL DEF Spec

-----------------------------------------------------------------------------
(***************************************************************************)
(* What a gap that is marked does not do: raise, or confirm a              *)
(* relationship.  Both need that the full scan asks all that the partial   *)
(* one asked, which is an induction on the calls of the partial scan.      *)
(* Grounded states it before the full scan has begun: what was asked lies  *)
(* in every set that holds the root and is closed under the operands of    *)
(* the full scan; one such set is what the full scan has returned when it  *)
(* has concluded.                                                          *)
(***************************************************************************)
Closed(S) == Top \in S /\ \A p \in S : Operands("full", p) \subseteq S

Grounded == CandidSoFar => \A S \in SUBSET Pairs : Closed(S) =>
                \A p \in Pairs : verdict["partial"][p] # "unasked" => p \in S

Ends == \A w \in Scans :
            /\ status[w] = "concluded" => verdict[w][Top] \in Results
            /\ status[w] = "raised" =>
                  \E p \in Pairs : verdict[w][p] = "open" /\ Raises(w, p)

\* The trace holds the observations of what has returned and no others.
Traced == \A w \in Scans :
    /\ \A o \in trace[w] : \E p \in Pairs :
          /\ verdict[w][p] \in Results
          /\ \E x \in Examined(w, p) : o = Observation(w, p, x)
    /\ \A p \in Pairs : verdict[w][p] \in Results =>
          \A x \in Examined(w, p) : Observation(w, p, x) \in trace[w]

History == Grounded /\ Ends /\ Traced

\* The full scan asks at least what the partial one asks, for any rule: the
\* neighbours that were collected and typed are so in both.
LEMMA OperandsGrow ==
    ASSUME TypeOK, NEW p \in Pairs, Candid(p)
    PROVE  Operands("partial", p) \subseteq Operands("full", p)
<1> DEFINE n == Node(p)
           s == p[2]
<1>1. p[1] \in Nodes /\ n = rule.node[p[1]] /\ s \in Subjects
  BY NodeFacts DEF Node
<1>2. CASE n.kind \in {"and", "or", "not"}
  BY <1>2, ConnectiveInherits DEF Inherits
<1>3. CASE n.kind \in Quantifiers
  <2>1. CASE Read("partial", s, n.field) \in Lists
    BY <1>3, <2>1, QuantifierInherits DEF Inherits
  <2>2. CASE Read("partial", s, n.field) \notin Lists
    <3>1. Listed("partial", n, s) = {}
      BY <2>2 DEF Listed
    <3>2. Operands("partial", p)
            = {n.where} \X (Listed("partial", n, s) \intersect Mappings)
      BY <1>3 DEF Operands, Quantifiers, Relational
    <3> QED  BY <3>1, <3>2
  <2> QED  BY <2>1, <2>2
<1>4. CASE n.kind \in Relational /\ n.where # NoNode /\ Covered("partial", n)
  <2>1. Covered("full", n)
    BY <1>1, <1>4, CoveredAgrees
  <2>2. \A w \in Scans : Operands(w, p)
          = {n.where} \X (Typed(w, n, s) \intersect Collected(w))
    BY <1>4, <2>1 DEF Operands, Quantifiers, Relational, Scans
  <2>3. ASSUME NEW x \in Typed("partial", n, s), x \in Collected("partial")
        PROVE  x \in Typed("full", n, s) /\ x \in Collected("full")
    <3>1. x \in Resources /\ x \in neighbors("partial", n, s)
      BY <2>3 DEF Typed, neighbors
    <3>2. x \in neighbors("full", n, s)
      BY <3>1, CollectedLess DEF neighbors, Linked, Lost
    <3>3. x \in Collected("full")
      BY <2>3, CollectedLess
    <3>4. NodeType("full", x) = NodeType("partial", x)
      BY <2>3, <3>3 DEF NodeType
    <3> QED  BY <2>3, <3>2, <3>3, <3>4 DEF Typed
  <2> QED  BY <2>2, <2>3 DEF Scans
<1>5. CASE /\ n.kind \notin {"and", "or", "not"} \union Quantifiers
           /\ ~(/\ n.kind \in Relational /\ n.where # NoNode
                /\ Covered("partial", n))
  BY <1>5 DEF Operands
<1> QED  BY <1>2, <1>3, <1>4, <1>5

\* What raises on a partial reading raises on the full one.
LEMMA RaisesAgrees ==
    ASSUME TypeOK, NEW p \in Pairs, Candid(p), Raises("partial", p)
    PROVE  Raises("full", p)
<1> DEFINE n == Node(p)
<1>1. /\ n.kind \in {"leaf"} \union Quantifiers
      /\ Read("partial", p[2], n.field) \in Data
      => Read("full", p[2], n.field) = Read("partial", p[2], n.field)
  BY ReadAgrees
<1>2. CASE /\ n.kind \in Quantifiers /\ n.where = NoNode
           /\ Read("partial", p[2], n.field) \in Lists
  BY <1>1, <1>2, DataAssumption DEF Raises
<1>3. CASE n.kind = "leaf" /\ ComparisonRaises(n, Read("partial", p[2], n.field))
  BY <1>1, <1>3 DEF Raises, ComparisonRaises
<1> QED  BY <1>2, <1>3 DEF Raises

\* How the steps change the verdicts: what has returned stays, and only the
\* root and operands of what was asked are asked.
LEMMA VerdictStep ==
    ASSUME IInv, [Next]_vars, NEW w \in Scans, NEW p \in Pairs
    PROVE  /\ UNCHANGED given
           /\ verdict[w][p] # "unasked" => verdict'[w][p] # "unasked"
           /\ verdict[w][p] \in Results => verdict'[w][p] = verdict[w][p]
           /\ verdict'[w][p] # "unasked" =>
                \/ verdict[w][p] # "unasked" \/ p = Top
                \/ \E q \in Pairs : verdict[w][q] # "unasked"
                                    /\ p \in Operands(w, q)
<1> DEFINE Goal ==
      /\ UNCHANGED given
      /\ verdict[w][p] # "unasked" => verdict'[w][p] # "unasked"
      /\ verdict[w][p] \in Results => verdict'[w][p] = verdict[w][p]
      /\ verdict'[w][p] # "unasked" =>
           \/ verdict[w][p] # "unasked" \/ p = Top
           \/ \E q \in Pairs : verdict[w][q] # "unasked"
                               /\ p \in Operands(w, q)
<1>1. "unasked" \notin Results /\ "open" \notin Results
  BY DEF Results, Decided
<1>2. /\ verdict \in [Scans -> [Pairs -> Results \union {"unasked", "open"}]]
      /\ Top \in Pairs
  BY TopType DEF IInv, TypeOK
<1>3. CASE UNCHANGED <<given, verdict>>
  BY <1>3
<1>4. ASSUME NEW v \in Scans, Begin(v) PROVE Goal
  <2>1. verdict[v][Top] = "unasked"
    BY <1>2, <1>4 DEF IInv, Untouched, Begin
  <2>2. verdict'[w][p] = IF w = v /\ p = Top THEN "open" ELSE verdict[w][p]
    BY <1>2, <1>4 DEF Begin
  <2>3. UNCHANGED given
    BY <1>4 DEF Begin
  <2> QED  BY <1>1, <2>1, <2>2, <2>3
<1>5. ASSUME NEW v \in Scans, NEW r \in Pairs, Ask(v, r) PROVE Goal
  <2>1. verdict'[w][p] = IF w = v /\ p \in Operands(v, r)
                               /\ verdict[v][p] = "unasked"
                         THEN "open" ELSE verdict[w][p]
    BY <1>2, <1>5 DEF Ask
  <2>2. verdict[v][r] # "unasked" /\ UNCHANGED given
    BY <1>5 DEF Ask, Open
  <2> QED  BY <1>1, <2>1, <2>2
<1>6. ASSUME NEW v \in Scans, NEW r \in Pairs, Return(v, r) PROVE Goal
  <2>1. verdict'[w][p] = IF w = v /\ p = r THEN Result(v, r)
                                           ELSE verdict[w][p]
    BY <1>2, <1>6 DEF Return
  <2>2. verdict[v][r] = "open" /\ UNCHANGED given
    BY <1>6 DEF Return, Open
  <2>3. Result(v, r) \in Results
    BY <1>6, ResultType DEF IInv, Return
  <2> QED  BY <1>1, <2>1, <2>2, <2>3
<1>7. ASSUME NEW v \in Scans, NEW r \in Pairs, Raise(v, r) PROVE Goal
  BY <1>3, <1>7 DEF Raise
<1>8. CASE UNCHANGED vars
  BY <1>3, <1>8 DEF vars
<1> QED  BY <1>4, <1>5, <1>6, <1>7, <1>8 DEF Next

\* What was asked stays asked.
LEMMA CandidStep ==
    ASSUME IInv, [Next]_vars, CandidSoFar'
    PROVE  CandidSoFar
<1>1. "partial" \in Scans
  BY DEF Scans
<1> SUFFICES ASSUME NEW p \in Pairs, verdict["partial"][p] # "unasked"
             PROVE  Candid(p)
  BY DEF CandidSoFar
<1>2. UNCHANGED given /\ verdict'["partial"][p] # "unasked"
  BY <1>1, VerdictStep
<1> QED  BY <1>1, <1>2, FrameGiven DEF CandidSoFar

LEMMA GroundedStep == IInv /\ Grounded /\ [Next]_vars => Grounded'
<1> SUFFICES ASSUME IInv, Grounded, [Next]_vars, CandidSoFar',
                    NEW S \in SUBSET Pairs, Closed(S)',
                    NEW p \in Pairs, verdict'["partial"][p] # "unasked"
             PROVE  p \in S
  BY DEF Grounded
<1>1. UNCHANGED given /\ "partial" \in Scans /\ "full" \in Scans
  BY VerdictStep DEF Scans
<1>2. Closed(S)
  <2>1. Top' = Top
    BY <1>1 DEF given, Top
  <2>2. \A q \in S : Operands("full", q)' = Operands("full", q)
    BY <1>1, FrameGiven
  <2> QED  BY <2>1, <2>2 DEF Closed
<1>5. CandidSoFar
  BY <1>1, CandidStep
<1>3. \/ verdict["partial"][p] # "unasked" \/ p = Top
      \/ \E q \in Pairs : verdict["partial"][q] # "unasked"
                          /\ p \in Operands("partial", q)
  BY <1>1, VerdictStep
<1>4. ASSUME NEW q \in Pairs, verdict["partial"][q] # "unasked",
             p \in Operands("partial", q)
      PROVE  p \in S
  <2>1. q \in S
    BY <1>2, <1>4, <1>5 DEF Grounded
  <2>2. p \in Operands("full", q)
    BY <1>4, <1>5, OperandsGrow DEF IInv, CandidSoFar
  <2> QED  BY <1>2, <2>1, <2>2 DEF Closed
<1> QED  BY <1>2, <1>3, <1>4, <1>5 DEF Grounded, Closed

LEMMA EndsStep == IInv /\ Ends /\ [Next]_vars => Ends'
<1> SUFFICES ASSUME IInv, Ends, [Next]_vars, NEW w \in Scans
             PROVE  /\ status'[w] = "concluded" => verdict'[w][Top'] \in Results
                    /\ status'[w] = "raised" =>
                         \E p \in Pairs : verdict'[w][p] = "open" /\ Raises(w, p)'
  BY DEF Ends
<1>1. UNCHANGED given /\ Top \in Pairs
  BY TopType, VerdictStep DEF IInv
<1>2. Top' = Top /\ \A p \in Pairs : Raises(w, p)' = Raises(w, p)
  BY <1>1, FrameGiven DEF given, Top
<1>3. /\ verdict \in [Scans -> [Pairs -> Results \union {"unasked", "open"}]]
      /\ status \in [Scans -> Ended \union {"waiting", "running"}]
  BY DEF IInv, TypeOK
<1>4. ASSUME status'[w] = "concluded"  PROVE verdict'[w][Top] \in Results
  <2>1. CASE status[w] = "concluded"
    BY <1>1, <2>1, VerdictStep DEF Ends
  <2>2. CASE status[w] # "concluded"
    <3>1. Return(w, Top)
      BY <1>3, <1>4, <2>2 DEF Next, Begin, Ask, Return, Raise, vars
    <3>2. Result(w, Top) \in Results
      BY <1>1, <3>1, ResultType DEF IInv, Return
    <3> QED  BY <1>1, <1>3, <3>1, <3>2 DEF Return
  <2> QED  BY <2>1, <2>2
<1>5. ASSUME status'[w] = "raised"
      PROVE  \E p \in Pairs : verdict'[w][p] = "open" /\ Raises(w, p)
  <2>1. CASE status[w] = "raised"
    <3>1. PICK p \in Pairs : verdict[w][p] = "open" /\ Raises(w, p)
      BY <2>1 DEF Ends
    <3>2. verdict'[w] = verdict[w]
      BY <1>3, <2>1 DEF Next, Begin, Ask, Return, Raise, Open, vars
    <3> QED  BY <3>1, <3>2
  <2>2. CASE status[w] # "raised"
    <3>1. PICK p \in Pairs : Raise(w, p)
      BY <1>3, <1>5, <2>2 DEF Next, Begin, Ask, Return, Raise, vars
    <3> QED  BY <3>1 DEF Raise, Open
  <2> QED  BY <2>1, <2>2
<1> QED  BY <1>2, <1>4, <1>5

\* An observation stays what it was while the operands keep their verdicts.
LEMMA FrameObservation ==
    ASSUME UNCHANGED given, NEW w \in Scans, NEW p \in Pairs,
           NEW x \in Examined(w, p),
           \A q \in Operands(w, p) : verdict'[w][q] = verdict[w][q]
    PROVE  Observation(w, p, x)' = Observation(w, p, x)
<1>1. /\ Node(p)' = Node(p) /\ Collected(w)' = Collected(w)
      /\ Typed(w, Node(p), p[2])' = Typed(w, Node(p), p[2])
  BY FrameGiven
<1>2. CASE /\ x \in Typed(w, Node(p), p[2]) /\ Node(p).where # NoNode
           /\ x \in Collected(w)
  <2>1. Node(p).kind \in Relational /\ Covered(w, Node(p))
    BY DEF Examined
  <2>2. <<Node(p).where, x>> \in Operands(w, p)
    BY <1>2, <2>1 DEF Operands, Relational, Quantifiers
  <2>3. verdict'[w][<<Node(p).where, x>>] = verdict[w][<<Node(p).where, x>>]
    BY <2>2
  <2> QED  BY <1>1, <2>3, Zenon DEF Observation
<1>3. CASE ~(/\ x \in Typed(w, Node(p), p[2]) /\ Node(p).where # NoNode
             /\ x \in Collected(w))
  BY <1>1, <1>3 DEF Observation
<1> QED  BY <1>2, <1>3

LEMMA TracedStep == IInv /\ Traced /\ [Next]_vars => Traced'
<1> SUFFICES ASSUME IInv, Traced, [Next]_vars, NEW w \in Scans
             PROVE  /\ \A o \in trace'[w] : \E p \in Pairs :
                          /\ verdict'[w][p] \in Results
                          /\ \E x \in Examined(w, p)' : o = Observation(w, p, x)'
                    /\ \A p \in Pairs : verdict'[w][p] \in Results =>
                          \A x \in Examined(w, p)' :
                              Observation(w, p, x)' \in trace'[w]
  BY DEF Traced
<1>1. UNCHANGED given
  BY TopType, VerdictStep DEF IInv
<1>2. ASSUME NEW p \in Pairs, Returned(w, p), p[2] \in Collected(w) \union Elements
      PROVE  /\ Examined(w, p)' = Examined(w, p)
             /\ \A x \in Examined(w, p) :
                    Observation(w, p, x)' = Observation(w, p, x)
  <2>1. \A q \in Operands(w, p) : verdict'[w][q] = verdict[w][q]
    BY <1>2, OperandsType, VerdictStep DEF IInv, Returned
  <2> QED  BY <1>1, <2>1, FrameGiven, FrameObservation
<1>3. ASSUME NEW p \in Pairs, verdict[w][p] \in Results
      PROVE  /\ Returned(w, p) /\ p[2] \in Collected(w) \union Elements
             /\ verdict'[w][p] = verdict[w][p]
  BY <1>3, VerdictStep DEF IInv, Consistent, Sane, Results, Decided
<1>4. /\ \A o \in trace[w] : \E p \in Pairs :
             /\ verdict'[w][p] \in Results
             /\ \E x \in Examined(w, p)' : o = Observation(w, p, x)'
      /\ \A p \in Pairs : verdict[w][p] \in Results =>
             \A x \in Examined(w, p)' : Observation(w, p, x)' \in trace[w]
  BY <1>2, <1>3 DEF Traced
<1>5. ASSUME NEW p \in Pairs, Return(w, p)
      PROVE  /\ \A o \in trace'[w] : \E q \in Pairs :
                   /\ verdict'[w][q] \in Results
                   /\ \E x \in Examined(w, q)' : o = Observation(w, q, x)'
             /\ \A q \in Pairs : verdict'[w][q] \in Results =>
                   \A x \in Examined(w, q)' : Observation(w, q, x)' \in trace'[w]
  <2>1. /\ Result(w, p) \in Results /\ p[2] \in Collected(w) \union Elements
        /\ verdict[w][p] = "open" /\ ~Raises(w, p)
    BY <1>5, ResultType DEF IInv, Sane, Return, Open
  <2>2. /\ verdict'[w][p] = Result(w, p)
        /\ \A q \in Pairs \ {p} : verdict'[w][q] = verdict[w][q]
        /\ trace'[w] = trace[w] \union {Observation(w, p, x) : x \in Examined(w, p)}
    BY <1>5 DEF IInv, TypeOK, Return
  <2>3. \A q \in Operands(w, p) : verdict'[w][q] = verdict[w][q]
    BY <1>5, <2>1, OperandsType, VerdictStep DEF IInv, Return
  <2>4. /\ Examined(w, p)' = Examined(w, p)
        /\ \A x \in Examined(w, p) : Observation(w, p, x)' = Observation(w, p, x)
    BY <1>1, <2>3, FrameGiven, FrameObservation
  <2>5. ASSUME NEW o \in {Observation(w, p, x) : x \in Examined(w, p)}
        PROVE  \E x \in Examined(w, p)' : o = Observation(w, p, x)'
    BY <2>4
  <2>6. ASSUME NEW x \in Examined(w, p)'
        PROVE  Observation(w, p, x)' \in trace'[w]
    BY <2>2, <2>4
  <2>7. ASSUME NEW q \in Pairs, q # p, verdict'[w][q] \in Results,
               NEW x \in Examined(w, q)'
        PROVE  Observation(w, q, x)' \in trace'[w]
    BY <1>4, <2>2, <2>7
  <2> QED  BY <1>4, <2>1, <2>2, <2>5, <2>6, <2>7
<1>6. CASE /\ trace'[w] = trace[w]
           /\ \A p \in Pairs : verdict'[w][p] \in Results =>
                                   verdict[w][p] \in Results
  BY <1>4, <1>6
<1>7. "open" \notin Results
  BY DEF Results, Decided
<1>8. /\ verdict \in [Scans -> [Pairs -> Results \union {"unasked", "open"}]]
      /\ trace \in [Scans -> SUBSET Observations] /\ Top \in Pairs
  BY TopType DEF IInv, TypeOK
<1>9. ASSUME NEW v \in Scans, Begin(v)
      PROVE  /\ trace'[w] = trace[w]
             /\ \A p \in Pairs : verdict'[w][p] \in Results =>
                                     verdict[w][p] \in Results
  BY <1>7, <1>8, <1>9 DEF Begin
<1>10. ASSUME NEW v \in Scans, NEW p \in Pairs, Ask(v, p)
       PROVE  /\ trace'[w] = trace[w]
              /\ \A q \in Pairs : verdict'[w][q] \in Results =>
                                      verdict[w][q] \in Results
  BY <1>7, <1>8, <1>10 DEF Ask
<1>11. ASSUME NEW v \in Scans, v # w, NEW p \in Pairs, Return(v, p)
       PROVE  /\ trace'[w] = trace[w]
              /\ \A q \in Pairs : verdict'[w][q] \in Results =>
                                      verdict[w][q] \in Results
  BY <1>8, <1>11 DEF Return
<1>12. ASSUME NEW v \in Scans, NEW p \in Pairs, Raise(v, p)
       PROVE  trace' = trace /\ verdict' = verdict
  BY <1>12 DEF Raise
<1> QED
  BY <1>5, <1>6, <1>9, <1>10, <1>11, <1>12 DEF Next, vars

LEMMA HistoryInvariant == Spec => [](IInv /\ History)
<1>1. Init => IInv /\ History
  <2> SUFFICES ASSUME Init PROVE History
    BY InitIInv
  <2>1. /\ \A w \in Scans : status[w] = "waiting" /\ trace[w] = {}
        /\ \A w \in Scans, p \in Pairs : verdict[w][p] = "unasked"
    BY DEF Init
  <2>2. "unasked" \notin Results /\ "partial" \in Scans
    BY DEF Results, Decided, Scans
  <2> QED  BY <2>1, <2>2 DEF History, Grounded, Ends, Traced
<1>2. IInv /\ History /\ [Next]_vars => (IInv /\ History)'
  BY Inductive, GroundedStep, EndsStep, TracedStep DEF History
<1> QED  BY <1>1, <1>2, PTL DEF Spec

\* What a concluded full scan has returned holds all that was ever asked.
LEMMA AskedIsReturned ==
    ASSUME IInv, History, CandidSoFar, status["full"] = "concluded",
           NEW p \in Pairs, verdict["partial"][p] # "unasked"
    PROVE  verdict["full"][p] \in Results /\ Returned("full", p)
<1> DEFINE S == {q \in Pairs : verdict["full"][q] \in Results}
<1>1. "full" \in Scans /\ Top \in Pairs
  BY TopType DEF IInv, Scans
<1>2. Top \in S
  BY <1>1 DEF History, Ends
<1>3. ASSUME NEW q \in S  PROVE Operands("full", q) \subseteq S
  <2>1. q \in Pairs /\ Returned("full", q)
    BY <1>1 DEF IInv, Consistent
  <2>2. q[2] \in Collected("full") \union Elements
    BY <1>1 DEF IInv, Sane, Results, Decided
  <2> QED  BY <1>1, <2>1, <2>2, OperandsType DEF IInv, Returned
<1>4. Closed(S)
  BY <1>2, <1>3 DEF Closed
<1>5. p \in S
  BY <1>4 DEF History, Grounded
<1> QED  BY <1>1, <1>5 DEF IInv, Consistent

\* A rule that raises on a partial reading raises on the full one too: no
\* refusal that is marked as such turns a rule that works into one that ends
\* the scan.
THEOREM GapsAreNoErrors == Spec => []GapsNeverRaise
<1>1. IInv /\ History => GapsNeverRaise
  <2> SUFFICES ASSUME IInv, History, CandidSoFar,
                      status["partial"] = "raised",
                      status["full"] = "concluded"
               PROVE  FALSE
    BY DEF GapsNeverRaise
  <2>1. PICK p \in Pairs : verdict["partial"][p] = "open" /\ Raises("partial", p)
    BY DEF History, Ends, Scans
  <2>2. ~Raises("full", p) /\ Candid(p)
    BY <2>1, AskedIsReturned DEF Returned, CandidSoFar
  <2> QED  BY <2>1, <2>2, RaisesAgrees DEF IInv
<1> QED  BY <1>1, HistoryInvariant, PTL

\* A resource that a finding of a partial scan names as related is one that a
\* full scan names too (RelationshipTrace.matched_resource_ids).
THEOREM RelatedConfirmed == Spec => []RelatedIsConfirmed
<1>1. IInv /\ History => RelatedIsConfirmed
  <2> SUFFICES ASSUME IInv, History, Guarded,
                      status = [w \in Scans |-> "concluded"],
                      NEW x \in Related("partial")
               PROVE  x \in Related("full")
    BY DEF RelatedIsConfirmed
  <2>1. PICK o \in trace["partial"] :
          o.satisfied = "true" /\ ~o.absence /\ o.neighbour = x
    BY DEF Related
  <2>2. PICK p \in Pairs : /\ verdict["partial"][p] \in Results
                           /\ \E y \in Examined("partial", p) :
                                 o = Observation("partial", p, y)
    BY DEF History, Traced, Scans
  <2> DEFINE n == Node(p)
             s == p[2]
  <2>3. /\ "partial" \in Scans /\ "full" \in Scans /\ TypeOK
        /\ status["full"] = "concluded"
    BY DEF Scans, IInv
  <2>4. x \in Examined("partial", p) /\ o = Observation("partial", p, x)
    BY <2>1, <2>2 DEF Observation
  <2>19. CandidSoFar
    BY DEF Guarded, CandidSoFar, Sturdy
  <2>5. /\ Returned("partial", p) /\ s \in seen \union Elements
        /\ verdict["partial"][p] # "unasked"
    BY <2>2, <2>3 DEF IInv, Consistent, Sane, Collected, Results, Decided
  <2>6. n.kind \in Relational /\ n.kind # "no_relationship"
    <3>1. o.absence <=> n.kind = "no_relationship"
      BY <2>4, Zenon DEF Observation
    <3>2. n.kind \in Relational
      BY <2>4 DEF Examined
    <3> QED  BY <2>1, <3>1, <3>2
  <2>7. n.kind = "relationship" /\ n.where # NoNode /\ s \in seen
    BY <2>5, <2>6 DEF Relational, Returned, Raises
  <2>8. /\ x \in Typed("partial", n, s) /\ x \in Collected("partial")
        /\ Satisfied(verdict["partial"][<<n.where, x>>]) = "true"
    BY <2>1, <2>4, <2>7 DEF Observation
  <2>9. verdict["partial"][<<n.where, x>>] = "matched"
    BY <2>8 DEF Satisfied
  <2>10. Covered("partial", n) /\ Covered("full", n)
    BY <2>7 DEF Covered
  <2>11. <<n.where, x>> \in Operands("partial", p)
    BY <2>7, <2>8, <2>10 DEF Operands, Relational, Quantifiers
  <2>12. /\ <<n.where, x>> \in Pairs
         /\ <<n.where, x>> \in Operands("full", p)
    BY <2>3, <2>5, <2>11, <2>19, OperandsType, OperandsGrow
    DEF Returned, Collected, CandidSoFar
  <2>13. /\ verdict["full"][p] \in Results
         /\ verdict["full"][<<n.where, x>>] \in Results
    BY <2>3, <2>5, <2>9, <2>12, <2>19, AskedIsReturned
  <2>14. verdict["full"][<<n.where, x>>] = "matched"
    BY <2>9, <2>12, <2>13 DEF IInv, Agreement, Agrees, Scans, Results, Decided
  <2>15. x \in Typed("full", n, s) /\ x \in Collected("full")
    <3>1. Sturdy(p)
      BY <2>5 DEF Guarded
    <3>2. Typed("partial", n, s) \subseteq Typed("full", n, s)
      BY <2>3, <2>6, <2>7, <2>10, <3>1, RelationalInherits
    <3> QED  BY <2>3, <2>8, <3>2, CollectedLess
  <2>16. x \in Examined("full", p)
    BY <2>6, <2>10, <2>15 DEF Examined
  <2>17. Observation("full", p, x)
           = [neighbour |-> x, satisfied |-> "true", absence |-> FALSE]
    BY <2>7, <2>14, <2>15 DEF Observation, Satisfied
  <2>18. Observation("full", p, x) \in trace["full"]
    BY <2>3, <2>13, <2>16 DEF History, Traced
  <2> QED  BY <2>17, <2>18 DEF Related
<1> QED  BY <1>1, HistoryInvariant, PTL
=============================================================================
