--------------------------- MODULE PolicyAnalysis ---------------------------
(***************************************************************************)
(* What an IAM policy document grants, as the collectors read it           *)
(* (policy_analysis.py).  A document is a sequence of statements           *)
(*                                                                         *)
(*   [effect, actions, not_actions, resources, inverted, principals,       *)
(*    conditioned]                                                         *)
(*                                                                         *)
(* where effect is "allow", "deny" or "malformed"; an action pattern is    *)
(* "*", a service's "iam:*", or one action; a resource pattern is a record *)
(* [shape, ids] of its form and the resource ids it selects; inverted says *)
(* that the statement used NotResource; a principal is [type, value].      *)
(* Conditions are noted and never evaluated, as in the code.               *)
(***************************************************************************)
EXTENDS Naturals, Sequences, SequencesExt

\* The dangerous actions by mechanism, one action standing for each group.
PRIVILEGE_ESCALATION_ACTIONS ==
    [policy_attachment |-> {"iam:PutRolePolicy"},
     credential_creation |-> {"iam:CreateAccessKey"},
     pass_role |-> {"iam:PassRole"},
     assume_role |-> {"sts:AssumeRole"}]

COMPUTE_ACTIONS == {"ec2:RunInstances"}

IamActions == {"iam:PutRolePolicy", "iam:CreateAccessKey", "iam:PassRole"}

action_matches(pattern, action) ==
    \/ pattern = "*"
    \/ pattern = action
    \/ pattern = "iam:*" /\ action \in IamActions

\* NotAction selects everything except what it lists.
Selects(statement, action) ==
    IF statement.not_actions # {}
    THEN ~ \E p \in statement.not_actions : action_matches(p, action)
    ELSE \E p \in statement.actions : action_matches(p, action)

allows_action(statement, action) ==
    statement.effect = "allow" /\ Selects(statement, action)

denies_action(statement, action) ==
    statement.effect = "deny" /\ Selects(statement, action)

has_wildcard_action(statement) == "*" \in statement.actions

has_wildcard_resource(statement) ==
    statement.inverted \/ \E p \in statement.resources : p.shape = "*"

\* A malformed statement is skipped, the others still count.
parse_statements(document) ==
    {s \in ToSet(document) : s.effect # "malformed"}

StatementsOf(documents) == UNION {parse_statements(d) : d \in ToSet(documents)}

\* The documents of one identity are judged together.  A Deny counts
\* whatever its resources are.
analyze_policy_documents(documents) ==
    LET statements == StatementsOf(documents)
        allows == {s \in statements : s.effect = "allow"}
        denies == {s \in statements : s.effect = "deny"}
        IsEffectivelyAllowed(action) ==
            /\ \A s \in denies : ~ denies_action(s, action)
            /\ \E s \in allows : allows_action(s, action)
        groups == {g \in DOMAIN PRIVILEGE_ESCALATION_ACTIONS :
                     \E a \in PRIVILEGE_ESCALATION_ACTIONS[g] :
                         IsEffectivelyAllowed(a)}
    IN [has_wildcard_action |-> \E s \in allows : has_wildcard_action(s),
        has_wildcard_resource |-> \E s \in allows : has_wildcard_resource(s),
        is_administrator |->
            /\ \E s \in allows :
                   has_wildcard_action(s) /\ has_wildcard_resource(s)
            /\ \A s \in denies : ~ has_wildcard_action(s),
        escalation_groups |-> groups,
        has_pass_role_escalation |->
            /\ "pass_role" \in groups
            /\ \E a \in COMPUTE_ACTIONS : IsEffectivelyAllowed(a)]

\* A wildcard principal makes a role public unless its statement carries
\* some condition; an account is external only to a known own account.
analyze_trust_policy(document, own) ==
    LET statements == {s \in parse_statements(document) : s.effect = "allow"}
        named == {p \in UNION {s.principals : s \in statements} :
                     p.value # "*"}
    IN [is_publicly_assumable |->
            \E s \in statements :
                ~ s.conditioned /\ \E p \in s.principals : p.value = "*",
        external_accounts |->
            {p.value : p \in {q \in named :
                 q.type = "AWS" /\ own # "none" /\ q.value # own}},
        service_principals |->
            {p.value : p \in {q \in named : q.type = "Service"}}]

\* The attributes that hold, by name.
to_attributes(policy, trust) ==
    LET value == [has_wildcard_action |-> policy.has_wildcard_action,
                  has_wildcard_resource |-> policy.has_wildcard_resource,
                  has_administrator_access |-> policy.is_administrator,
                  has_privilege_escalation_path |->
                      policy.escalation_groups # {},
                  has_pass_role_escalation |->
                      policy.has_pass_role_escalation,
                  has_external_account_principal |->
                      trust.external_accounts # {},
                  has_service_principal |-> trust.service_principals # {},
                  is_publicly_assumable |-> trust.is_publicly_assumable]
    IN {name \in DOMAIN value : value[name]}

\* A statement becomes a grant when it names actions, by either form.  A
\* grant keeps the place of its statement, as the order of the grants counts.
extract_access_grants(documents) ==
    LET statements == FlattenSeq(documents)
        places == {i \in DOMAIN statements :
                     /\ statements[i].effect # "malformed"
                     /\ statements[i].actions # {}
                        \/ statements[i].not_actions # {}}
    IN [i \in places |->
            [effect |-> statements[i].effect,
             resources |-> statements[i].resources,
             has_condition |-> statements[i].conditioned,
             inverted_resources |-> statements[i].inverted]]

\* The two older checks, which take a condition for a safe statement and
\* read the literal form only.
policy_allows_public_principal(document) ==
    \E s \in ToSet(document) :
        /\ s.effect = "allow"
        /\ ~ s.conditioned
        /\ \E p \in s.principals : p.value = "*" /\ p.type \in {"*", "AWS"}

policy_grants_full_admin(document) ==
    \E s \in ToSet(document) :
        /\ s.effect = "allow"
        /\ has_wildcard_action(s)
        /\ \E p \in s.resources : p.shape = "*"
=============================================================================
