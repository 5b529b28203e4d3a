---------------------------- MODULE MCConsulACL -----------------------------
(* Instances of ConsulACL for TLC.                                         *)
EXTENDS ConsulACL, TLC

CONSTANTS a, b, c, ns1, ns2, p, q, r, jwt, old

\* a and b are siblings, c lives in another namespace.
TwoNamespaces == [x \in CRs |-> IF x = c THEN ns2 ELSE ns1]

SiblingSymmetry == Permutations({a, b})

Config(explicit, policies, roles, rules) ==
    [explicit |-> explicit, valid |-> TRUE, policies |-> policies, roles |-> roles,
     rules |-> rules]

Role(n, links) == [name |-> n, links |-> links]

Rule(n, m) == [name |-> n, method |-> m]

Broken == [NoConfig EXCEPT !.explicit = TRUE, !.valid = FALSE]

Full(explicit) == Config(explicit, {p}, {Role(r, {p})}, {Rule(r, jwt)})

Policy(explicit) == Config(explicit, {p}, {}, {})

RuleUnder(explicit, m) == Config(explicit, {}, {}, {Rule(r, m)})

SharedConfigs == {Full(TRUE), Policy(TRUE), Broken}

\* Prefixed names, a rule declared under the legacy method, a role that names the
\* policy of nobody, and entries that set the IDs of an existing policy and of an
\* existing role.
FaultyConfigs ==
    {Full(FALSE), RuleUnder(FALSE, old), Config(TRUE, {q}, {Role(q, {p})}, {})}

IDs == {<<"policy", q>>, <<"role", q>>}

PolicyID == {<<"policy", p>>}

OnePolicy == {Policy(TRUE)}

RoleAndPolicy == {Policy(TRUE), Config(TRUE, {}, {Role(r, {p})}, {})}

NothingExists == {}

SharedPolicy == {Entity("policy", p, a, TRUE, NoMethod)}

LegacyEntities ==
    {Entity("rule", r, x, FALSE, old) : x \in CRs}
      \cup {Entity("policy", n, a, TRUE, NoMethod) : n \in {p, q}}
      \cup {Entity("role", q, a, TRUE, NoMethod)}
=============================================================================
