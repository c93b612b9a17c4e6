------------------------- MODULE MCRuleEvaluation -------------------------
(* An instance between two security groups that allow each other, the      *)
(* internet and a route table that points at it, and conditions of every   *)
(* kind, nested as the catalogue nests them and one level deeper.          *)
EXTENDS RuleEvaluation

MCResources   == {"vm", "g1", "g2", "rt", "net"}
MCCollectable == {"vm", "g1", "g2", "rt"}
MCTypeOf == [vm |-> "instance", g1 |-> "group", g2 |-> "group",
             rt |-> "table", net |-> "internet"]
MCExternalType == [r \in MCResources |->
                      IF r = "net" THEN "internet" ELSE "external_resource"]

MCLists   == {"none", "one", "mixed"}
MCItems   == [none |-> {}, one |-> {"e1"}, mixed |-> {"e1", "e2"}]
MCData    == {"yes", "no", "odd", "null"} \union MCLists
MCCompare == [is_true      |-> [v \in MCData |-> IF v = "yes" THEN "matched"
                                                            ELSE "not_matched"],
              greater_than |-> [v \in MCData |-> IF v = "yes" THEN "matched"
                                                            ELSE "type_error"],
              is_not_null  |-> [v \in MCData |-> IF v = "null" THEN "not_matched"
                                                 ELSE "matched"],
              starts_with  |-> [v \in MCData |-> IF v = "yes" THEN "matched"
                                                 ELSE "raise"]]

\* The last two are a machine's edges, lost with its network interface, and
\* its public address, which is None then (azure/resource_collectors/
\* compute.py:119-130, 176-181).
MCRefusals == {<<"instance", "ports">>, <<"group", "open">>,
               <<"instance", "deep">>, <<"instance", "attached_to">>,
               <<"instance", "ip">>}
MCPlain == [c \in {<<"instance", "ip">>} |-> "null"]

\* What is open, and what the instance lists.
Fact(open, ports, deep) ==
    [open |-> open, ports |-> ports, deep |-> deep, ip |-> "yes"]
Facts(open1, open2, ports, e) ==
    [s \in MCResources \union {"e1", "e2"} |->
        CASE s = "vm" -> Fact("yes", ports, "no")
          [] s = "g1" -> Fact(open1, Absent, Absent)
          [] s = "g2" -> Fact(open2, "odd", Absent)
          [] s = "e1" -> Fact(e, Absent, Absent)
          [] OTHER -> Fact("yes", Absent, Absent)]

MCAsserted == {<<"vm", "attached_to", "g1">>, <<"vm", "attached_to", "g2">>,
               <<"vm", "attached_to", "net">>, <<"rt", "attached_to", "vm">>,
               <<"g1", "allows", "g2">>, <<"g2", "allows", "g1">>}
MCGranted == {<<"vm", "accesses", "g2">>}

\* Without ports, nothing routes the instance.
Estate(open, ports) ==
    [fact |-> Facts(open, "no", ports, "no"), granted |-> MCGranted,
     asserted |-> IF ports = "none"
                  THEN MCAsserted \ {<<"rt", "attached_to", "vm">>}
                  ELSE MCAsserted]
MCEstates ==
    {Estate("yes", "none"), Estate("no", "one"), Estate("yes", "mixed")}

MCNodes == {"a", "b", "c", "d"}

Blank == [kind |-> "invalid", kids |-> {}, where |-> NoNode, field |-> "open",
          op |-> "is_true", link |-> "attached_to", direction |-> "outgoing",
          target |-> AnyType, requires |-> AnyType]
Test(op, field) == [Blank EXCEPT !.kind = "leaf", !.op = op, !.field = field]
Tree(kind, kids) == [Blank EXCEPT !.kind = kind, !.kids = kids]
Each(kind, where) ==
    [Blank EXCEPT !.kind = kind, !.where = where, !.field = "ports"]
Rel(kind, link, direction, target, where) ==
    [Blank EXCEPT !.kind = kind, !.link = link, !.direction = direction,
                  !.target = target, !.where = where]

Rule(a, b, c, d) ==
    [root |-> "a", applies_to |-> "instance",
     node |-> [a |-> a, b |-> b, c |-> c, d |-> d]]

IsOpen == Test("is_true", "open")

\* rules/aws/ec2.yaml: attached to an open security group.
OpenGroup ==
    Rule(Rel("relationship", "attached_to", "outgoing", "group", "b"),
         IsOpen, IsOpen, IsOpen)
\* rules/aws/network_topology.yaml: routed to the internet.
OpenRoute ==
    Rule(Tree("and", {"b", "c"}), IsOpen,
         Rel("relationship", "attached_to", "incoming", "table", "d"), IsOpen)

MCRules ==
    {OpenGroup, OpenRoute,
     \* rules/aws/security_group.yaml: allows an open group.
     [Rule(Rel("relationship", "allows", "outgoing", "group", "b"),
           IsOpen, IsOpen, IsOpen) EXCEPT !.applies_to = "group"],
     \* No group that allows an open one.
     Rule(Tree("not", {"b"}),
          Rel("relationship", "attached_to", "outgoing", "group", "c"),
          Rel("relationship", "allows", "outgoing", AnyType, "d"), IsOpen),
     \* No route table that is open, and a group.
     Rule(Tree("and", {"b", "c"}),
          Rel("no_relationship", "attached_to", "incoming", "table", "d"),
          Rel("relationship", "attached_to", "outgoing", "group", "d"),
          IsOpen),
     \* No edge to the internet, or all ports open.
     Rule(Tree("or", {"b", "c"}),
          Rel("no_relationship", "attached_to", "outgoing", "internet", NoNode),
          Each("all", "d"), IsOpen),
     \* No open port, but some large one.
     Rule(Tree("and", {"b", "c"}), Each("none", "d"), Each("any", "d"),
          Test("greater_than", "open")),
     \* Relationships over granted edges, and a test that may raise.
     Rule(Tree("or", {"b", "c"}),
          Rel("relationship", "accesses", "outgoing", "group", "d"),
          Test("not_exists", "deep"), Test("starts_with", "ports")),
     \* Malformed: a relationship in a quantifier, and an empty connective.
     Rule(Each("any", "b"),
          Rel("relationship", "attached_to", "outgoing", "group", "c"),
          IsOpen, IsOpen),
     Rule(Rel("no_relationship", "attached_to", "outgoing", "group", "b"),
          Tree("and", {}), IsOpen, IsOpen),
     \* rules/azure/compute.yaml: has a public address; and one that begins
     \* with some text.
     Rule(Tree("and", {"b", "c"}), Test("is_not_null", "ip"),
          Test("starts_with", "ip"), IsOpen)}
=============================================================================
