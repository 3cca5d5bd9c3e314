---------------------------- MODULE AccessControl ----------------------------
(***************************************************************************)
(* The access decisions of internal/access: policy patterns, policies,     *)
(* grants, and the four questions asked of a snapshot and the registry:    *)
(* Visible, Authorize, ListAccounts and the capabilities of an account.    *)
(*                                                                         *)
(* An action is "service:segment.segment"; here a record of its service,   *)
(* whether it has a ":", and the sequence of its segments.  What a         *)
(* configuration file or a decoder supplies is not normalised: a service   *)
(* may be an alias, segments may be empty (two separators in a row).       *)
(***************************************************************************)
EXTENDS Naturals, Sequences, FiniteSets, SequencesExt

CONSTANTS
    OpNames,         \* the names of the operations the catalogs define
    Definition,      \* their mcpcontract.Definition, by name
    ServiceAlias     \* serviceAliases: from aliases to services

Unset == ""          \* a field that is not given
NoRefusal == ""      \* the category when there is no error

Blank == [svc |-> Unset, colon |-> FALSE, rest |-> <<>>]
Act(s, r) == [svc |-> s, colon |-> TRUE, rest |-> r]

------------------------------------------------------------------------------
(* Actions and patterns.                                                    *)

CanonicalService(s) == IF s \in DOMAIN ServiceAlias THEN ServiceAlias[s] ELSE s

\* separators collapse, gmail:settings covers all of Gmail and "settings." is
\* dropped there, and nothing behind the colon stands for everything
CanonicalAction(raw) ==
    LET svc  == CanonicalService(raw.svc)
        segs == SelectSeq(raw.rest, LAMBDA s : s # Unset)
        own  == IF svc # "gmail" \/ segs = <<>> \/ segs[1] # "settings" THEN segs
                ELSE IF Len(segs) = 1 THEN <<"*">> ELSE Tail(segs)
    IN  IF raw = Blank THEN Blank
        ELSE IF ~raw.colon THEN [raw EXCEPT !.svc = svc]
        ELSE Act(svc, IF own = <<>> THEN <<"*">> ELSE own)

ReadLike == {"attachment", "attachments", "get", "history", "list", "opens", "search",
             "status", "url"}

IsReadLikeAction(svc, rest) == svc = "gmail" /\ Last(rest) \in ReadLike

RestMatches(svc, p, a) ==
    IF p \in {<<"*">>, <<"all">>} THEN TRUE
    ELSE IF Len(p) > 1 /\ Last(p) = "*" THEN IsPrefix(Front(p), a)
    ELSE IF p = <<"read">> THEN IsReadLikeAction(svc, a)
    ELSE IF p = <<"reply">> THEN Last(a) = "send"
    ELSE Len(p) = 1 /\ Last(a) = p[1]

MatchAction(pattern, action) ==
    LET p == CanonicalAction(pattern)
        a == CanonicalAction(action)
    IN  /\ p # Blank /\ a # Blank
        /\ \/ p = a
           \/ p.colon /\ a.colon /\ p.svc = a.svc /\ RestMatches(p.svc, p.rest, a.rest)

MatchesAnyAction(patterns, action) == \E p \in patterns : MatchAction(p, action)

\* the catalog: every action is written as CanonicalAction writes it, and
\* accounts_list asks for no account
ASSUME CatalogAssumption ==
    \A op \in OpNames : /\ op = "accounts_list" => Definition[op].local
                        /\ \A a \in Definition[op].actions : a # Blank /\ CanonicalAction(a) = a

------------------------------------------------------------------------------
(* Policies: [account, client, allow, deny], Unset for a target that is not *)
(* set.  The most specific policies that apply decide.                      *)

PolicyApplies(p, id) ==
    /\ p.account = Unset \/ p.account = id.email \/ p.account = id.account
    /\ p.client = Unset \/ p.client = id.client

PolicySpecificity(p) ==
    (IF p.account # Unset THEN 1 ELSE 0) + (IF p.client # Unset THEN 1 ELSE 0)

\* one pass over the configuration, keeping the best seen so far and its ties
KeepBest(acc, p, id) ==
    IF ~PolicyApplies(p, id) \/ PolicySpecificity(p) < acc.best THEN acc
    ELSE IF acc.some /\ PolicySpecificity(p) = acc.best THEN [acc EXCEPT !.found = Append(@, p)]
    ELSE [best |-> PolicySpecificity(p), some |-> TRUE, found |-> <<p>>]

NonePassed == [best |-> 0, some |-> FALSE, found |-> <<>>]

ApplicablePolicies(policies, id) ==
    FoldLeft(LAMBDA acc, p : KeepBest(acc, p, id), NonePassed, policies).found

\* evaluate(...).Denied: a deny of any candidate, or allowlists none of which
\* mentions the action
Denied(policies, action, id) ==
    LET a == CanonicalAction(action)
        candidates == ToSet(ApplicablePolicies(policies, id))
    IN  /\ a # Blank
        /\ \/ \E p \in candidates : MatchesAnyAction(p.deny, a)
           \/ /\ \E p \in candidates : p.allow # {}
              /\ ~\E p \in candidates : MatchesAnyAction(p.allow, a)

ActionsAllowed(s, id, actions) ==
    actions # {} /\ \A a \in actions : ~Denied(s.policies, a, id)

------------------------------------------------------------------------------
(* Grants: [principal, accounts, clients, operations].  Operations holds    *)
(* operation names (strings) and patterns (records).                        *)

\* what a grant's operation entry says of an operation and its actions
Names(g, op) == op \in g.names
Covers(g, op, actions) ==
    /\ g.names # {} \/ g.patterns # {}
    /\ \/ Names(g, op)
       \/ op = "accounts_list"
       \/ actions # {} /\ \A a \in actions : MatchesAnyAction(g.patterns, a)

GrantNamesAccount(g, principal, id) ==
    g.principal = principal /\ id.account \in g.accounts /\ id.client \in g.clients

HasGrant(s, principal) == \E g \in s.grants : g.principal = principal

\* fault seeded in GrantMatches: the actions may be covered by one grant each
GrantsMatchTogether(s, principal, id, op, actions) ==
    LET mine == {g \in s.grants : GrantNamesAccount(g, principal, id)}
    IN  \/ \E g \in mine : Covers(g, op, {})
        \/ actions # {} /\ \A a \in actions : \E g \in s.grants :
               g.principal = principal /\ MatchesAnyAction(g.patterns, a)

GrantMatches(s, principal, id, op, actions) ==
    \E g \in s.grants : GrantNamesAccount(g, principal, id) /\ Covers(g, op, actions)

GrantMatchesAnyOperation(s, principal, id) ==
    \E g \in s.grants : /\ GrantNamesAccount(g, principal, id)
                        /\ g.names # {} \/ g.patterns # {}

------------------------------------------------------------------------------
(* Identities and eligibility.                                              *)

\* one of the scopes accepted in the place of the one required
ScopesSatisfied(granted, def) ==
    LET Granted(required) == \E alternative \in required : alternative \in granted
    IN  IF def.anyScope THEN \E required \in def.scopes : Granted(required)
        ELSE \A required \in def.scopes : Granted(required)

MCPReady(id) == id.subject # Unset /\ id.email # Unset /\ id.generation > 0

OperationAllowed(s, op) == op \in s.allow

IdentityEligible(s, principal, id, op, actions) ==
    /\ MCPReady(id) /\ id.principal = principal
    /\ op \in OpNames /\ ~Definition[op].local
    /\ OperationAllowed(s, op)
    /\ GrantMatches(s, principal, id, op, actions)
    /\ ActionsAllowed(s, id, actions)
    /\ ScopesSatisfied(id.scopes, Definition[op])

\* the selections an operation may be called with for discovery to list it
Projections(op) ==
    IF Definition[op].anyAction THEN {{a} : a \in Definition[op].actions}
    ELSE {Definition[op].actions}

EligibleSomehow(s, principal, id, op) ==
    \E actions \in Projections(op) : IdentityEligible(s, principal, id, op, actions)

------------------------------------------------------------------------------
(* The questions.  reg is what AccountSource answers: the active identities *)
(* by account ID.                                                           *)

PrincipalIdentities(reg, principal) ==
    {reg[a] : a \in {x \in DOMAIN reg : reg[x].principal = principal /\ MCPReady(reg[x])}}

\* fault seeded in Visible: an allowed operation is listed whatever the account
VisibleIfAllowed(s, reg, principal, op) ==
    /\ op \in OpNames /\ OperationAllowed(s, op)
    /\ HasGrant(s, principal)

Visible(s, reg, principal, op) ==
    /\ principal # Unset /\ op \in OpNames
    /\ OperationAllowed(s, op)
    /\ IF Definition[op].local THEN HasGrant(s, principal)
       ELSE \E id \in PrincipalIdentities(reg, principal) : EligibleSomehow(s, principal, id, op)

\* the actions a decoder selected must lie in the catalog's; narrowActions
NarrowActions(catalog, requested) ==
    LET selected == {CanonicalAction(a) : a \in requested}
    IN  [ok |-> requested # {} /\ Blank \notin selected /\ selected \subseteq catalog,
         actions |-> selected]

\* the category of the answer, NoRefusal when the identity is returned
Authorize(s, reg, principal, account, op, requested) ==
    LET selected == NarrowActions(Definition[op].actions, requested)
        id == reg[account]
    IN  IF principal = Unset THEN "authentication_required"
        ELSE IF op \notin OpNames \/ Definition[op].local THEN "forbidden_operation"
        ELSE IF ~OperationAllowed(s, op) THEN "forbidden_operation"
        ELSE IF account = Unset THEN "invalid_input"
        ELSE IF account \notin DOMAIN reg THEN "forbidden_operation"
        ELSE IF id.principal # principal THEN "forbidden_operation"
        ELSE IF ~selected.ok
        THEN IF requested = {} \/ \E a \in requested : CanonicalAction(a) = Blank
             THEN "invalid_input" ELSE "forbidden_operation"
        ELSE IF IdentityEligible(s, principal, id, op, selected.actions) THEN NoRefusal
        ELSE IF /\ MCPReady(id) /\ GrantMatches(s, principal, id, op, selected.actions)
                /\ ActionsAllowed(s, id, selected.actions)
                /\ ~ScopesSatisfied(id.scopes, Definition[op])
        THEN "insufficient_scope" ELSE "forbidden_operation"

\* operationUsableBy: some projection of the operation is authorised
UsableBy(s, reg, principal, account, op) ==
    \E actions \in Projections(op) : Authorize(s, reg, principal, account, op, actions) = NoRefusal

\* ListAccounts: refused (FALSE), or the identities the caller may see
ListsAccounts(s, principal) ==
    principal # Unset /\ OperationAllowed(s, "accounts_list") /\ HasGrant(s, principal)

ListAccounts(s, reg, principal) ==
    {id \in PrincipalIdentities(reg, principal) :
        \/ GrantMatches(s, principal, id, "accounts_list", {})
        \/ GrantMatchesAnyOperation(s, principal, id)}

\* Snapshot.Validate: every name and every pattern matches the catalog
ValidSnapshot(s) ==
    /\ s.allow \subseteq OpNames
    /\ \A g \in s.grants :
        /\ g.names \subseteq OpNames
        /\ \A p \in g.patterns \ {Blank} :
               \E op \in OpNames : \E a \in Definition[op].actions : MatchAction(p, a)
=============================================================================
