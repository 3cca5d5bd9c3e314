--------------------------- MODULE AccessQuestions ---------------------------
(***************************************************************************)
(* The questions asked of an Authorizer, one at a time, over every small   *)
(* snapshot and registry: may this call run, and what may be listed.  The  *)
(* properties compare the code's passes over lists of grants and policies  *)
(* with what a configuration means, written without any order.             *)
(***************************************************************************)
EXTENDS AccessControl

CONSTANTS
    AskedPolicies,   \* sequences of policies
    AskedGrants,     \* sets of grants
    AskedAllow,      \* allowlists of operations
    AskedRegistries, \* registries: functions from accounts to active identities
    AskedPrincipals

\* the registry holds no account without an ID or an owner
ASSUME AskedAssumption ==
    /\ \A ps \in AskedPolicies : Len(ps) \in Nat /\ DOMAIN ps = 1..Len(ps)
    /\ \A reg \in AskedRegistries : \A a \in DOMAIN reg : a # Unset /\ reg[a].principal # Unset

VARIABLE question

accessVars == <<question>>

Unasked == [asked |-> FALSE]

AccessInit == question = Unasked

Ask ==
    /\ question = Unasked
    /\ \E ps \in AskedPolicies, gs \in AskedGrants, al \in AskedAllow :
           LET s == [policies |-> ps, grants |-> gs, allow |-> al]
           IN  /\ ValidSnapshot(s)
               /\ \E reg \in AskedRegistries, p \in AskedPrincipals :
                      question' = [asked |-> TRUE, snapshot |-> s, registry |-> reg, principal |-> p]

Answered == question.asked /\ question' = Unasked

AccessNext == Ask \/ Answered

------------------------------------------------------------------------------
(* What a configuration means.                                              *)

\* of the policies that apply, those no other one is more specific than: an
\* explicit deny there wins, and an allowlist has to mention the action
PolicyPermits(policies, id, a) ==
    LET applies == {p \in ToSet(policies) : /\ p.account \in {Unset, id.email, id.account}
                                            /\ p.client \in {Unset, id.client}}
        targets(p) == {f \in {"account", "client"} : p[f] # Unset}
        top == {p \in applies : ~\E q \in applies :
                    Cardinality(targets(q)) > Cardinality(targets(p))}
    IN  /\ \A p \in top : ~\E d \in p.deny : MatchAction(d, a)
        /\ (\E p \in top : p.allow # {}) => \E p \in top : \E d \in p.allow : MatchAction(d, a)

\* one grant that covers the whole of the call
GrantPermits(s, principal, id, op, actions) ==
    \E g \in s.grants :
        /\ g.principal = principal /\ id.account \in g.accounts /\ id.client \in g.clients
        /\ op \in g.names \/ \A x \in actions : \E d \in g.patterns : MatchAction(d, x)

\* Authorize grants a call exactly when the account is an active one of the caller,
\* a single grant covers it whole, no most specific policy forbids any of its
\* actions, and its scopes suffice: grants of several entries never add up, and
\* the order of policies never matters.
AuthorizeSound ==
    question.asked =>
        LET s == question.snapshot
            p == question.principal
        IN  \A a \in DOMAIN question.registry, op \in {o \in OpNames : ~Definition[o].local} :
            LET id == question.registry[a]
            IN  \A actions \in (SUBSET Definition[op].actions) \ {{}} :
                (Authorize(s, question.registry, p, a, op, actions) = NoRefusal) <=>
                    /\ id.principal = p /\ MCPReady(id)
                    /\ op \in s.allow
                    /\ GrantPermits(s, p, id, op, actions)
                    /\ \A x \in actions : PolicyPermits(s.policies, id, x)
                    /\ ScopesSatisfied(id.scopes, Definition[op])

\* Discovery and execution agree: an operation is visible exactly when some account
\* and some selection of its actions would be authorised at the same moment, and an
\* account that some call may use is one accounts_list shows.
DiscoveryHonest ==
    question.asked =>
        LET s == question.snapshot
            reg == question.registry
            p == question.principal
            remote == {o \in OpNames : ~Definition[o].local}
        IN  /\ \A op \in remote :
                  Visible(s, reg, p, op) <=> \E a \in DOMAIN reg : UsableBy(s, reg, p, a, op)
            /\ ListsAccounts(s, p) => \A a \in DOMAIN reg, op \in remote :
                  UsableBy(s, reg, p, a, op) => reg[a] \in ListAccounts(s, reg, p)
=============================================================================
