------------------------------ MODULE MCServing ------------------------------
(* The serving side on small instances: one run, in which a part chosen at   *)
(* the start moves and the others rest.                                      *)
EXTENDS AccessQuestions, Runtime, Gateway, TLC

VARIABLE part

------------------------------------------------------------------------------
(* Instances.                                                               *)

Op(local, any, anyScope, actions, scopes, readOnly) ==
    [local |-> local, anyAction |-> any, anyScope |-> anyScope, actions |-> actions,
     scopes |-> scopes, readOnly |-> readOnly]

Get   == Act("gmail", <<"messages", "get">>)
List  == Act("gmail", <<"messages", "list">>)
Send  == Act("gmail", <<"messages", "send">>)
Query == Act("analytics", <<"metadata">>)

MCDefinition ==
    [accounts_list |-> Op(TRUE, FALSE, FALSE, {}, {}, TRUE),
     gmail_search  |-> Op(FALSE, FALSE, FALSE, {Get, List}, {{"mail.read", "mail.full"}}, TRUE),
     gmail_send    |-> Op(FALSE, FALSE, TRUE, {Send}, {{"mail.send"}, {"mail.full"}}, FALSE),
     metadata      |-> Op(FALSE, TRUE, FALSE, {Query, Get}, {{"ga.read"}}, TRUE)]
MCOpNames == DOMAIN MCDefinition
MCServiceAlias == [mail |-> "gmail", ga4 |-> "analytics"]

Ident(a, p, scopes, gen) ==
    [account |-> a, subject |-> "s", email |-> IF a = "a1" THEN "one@x" ELSE "two@x",
     principal |-> p, client |-> "native", scopes |-> scopes, generation |-> gen]

Full(a, p, gen) == Ident(a, p, {"mail.full", "ga.read"}, gen)
Narrow(a, p, gen) == Ident(a, p, {"mail.read"}, gen)

Grant(p, accounts, names, patterns) ==
    [principal |-> p, accounts |-> accounts, clients |-> {"native"}, names |-> names,
     patterns |-> patterns]
Policy(account, client, allow, deny) ==
    [account |-> account, client |-> client, allow |-> allow, deny |-> deny]

MailRead == [svc |-> "mail", colon |-> TRUE, rest |-> <<"read">>]
MessagesAll == Act("gmail", <<"settings", "messages", "*">>)

MCAskedPolicies ==
    LET ps == {Policy("", "", {}, {MessagesAll}), Policy("one@x", "", {Act("gmail", <<"*">>)}, {}),
               Policy("a1", "", {}, {Act("gmail", <<"", "list">>)}),
               Policy("two@x", "native", {}, {Query}), Policy("", "other", {}, {Act("gmail", <<>>)}),
               Policy("", "native", {MailRead}, {Act("gmail", <<"send">>)})}
    IN  {<<>>} \cup {<<x>> : x \in ps} \cup {<<x, y>> : x \in ps, y \in ps}

MCAskedGrants ==
    LET gs == {Grant("p1", {"a1"}, {"gmail_search"}, {}), Grant("p1", {"a1", "a2"}, {}, {MailRead}),
               Grant("p1", {"a1"}, {}, {Act("gmail", <<"get">>)}),
               Grant("p1", {"a1"}, {}, {Act("gmail", <<"list">>), Act("ga4", <<"metadata">>)}),
               Grant("p2", {"a1", "a2"}, {"metadata"}, {Act("gmail", <<"reply">>)}),
               Grant("p1", {"a1"}, {}, {})}
    IN  {{x, y} : x \in gs, y \in gs}

MCAskedAllow == {MCOpNames, MCOpNames \ {"accounts_list", "gmail_send"}, {"metadata", "accounts_list"}}
MCAskedRegistries ==
    {[a1 |-> Full("a1", "p1", 1), a2 |-> Full("a2", "p2", 1)],
     [a1 |-> Narrow("a1", "p1", 2), a2 |-> Full("a2", "p1", 0)],
     [a2 |-> Full("a2", "p1", 1)]}

\* reconnecting gives a1 a new generation, with other scopes or another owner
MCIdentities == [a1 |-> {Full("a1", "p1", 1), Narrow("a1", "p1", 2), Full("a1", "p2", 3)}]

MCSnapshots ==
    {[policies |-> <<>>, grants |-> {Grant("p1", {"a1"}, MCOpNames, {}), Grant("p2", {"a1"}, MCOpNames, {})},
      allow |-> MCOpNames],
     [policies |-> <<Policy("", "", {}, {Get})>>, grants |-> {Grant("p1", {"a1"}, MCOpNames, {})},
      allow |-> {"gmail_search", "gmail_send", "metadata"}],
     [policies |-> <<>>, grants |-> {}, allow |-> {"unknown"}]}

MCRuntimeOps == <<"gmail_search", "gmail_send">>

MCConfigs ==
    LET usual == [compact |-> FALSE, writes |-> TRUE, http |-> FALSE]
    IN  {usual, [usual EXCEPT !.writes = FALSE], [usual EXCEPT !.compact = TRUE],
         [usual EXCEPT !.http = TRUE]}

MCFlags ==
    LET usual == [addr |-> TRUE, file |-> TRUE, stdioGrants |-> FALSE, connect |-> FALSE,
                  loopback |-> TRUE, principal |-> ""]
    IN  {usual, [usual EXCEPT !.connect = TRUE], [usual EXCEPT !.connect = TRUE, !.loopback = FALSE],
         [usual EXCEPT !.stdioGrants = TRUE], [usual EXCEPT !.connect = TRUE, !.principal = "p2"]}

MCCallerFiles ==
    LET Raw(id, digest, p, gs) == [id |-> id, digest |-> digest, principal |-> p, grants |-> gs,
                                   allow |-> {"", "gmail_search"}]
        c1 == Raw("c1", "t1", "p1", {Grant("", {"a1"}, {"gmail_search"}, {})})
        raws == {c1, Raw("c2", "t2", "p1", {}), Raw("c2", "t1", "p2", {}), Raw("c1", "t2", "p2", {}),
                 Raw("c3", "t2", "p2", {}), Raw("c4", "t2", "p1", {Grant("p2", {"a1"}, {}, {Get})}),
                 Raw("", "t2", "p1", {})}
    IN  {<<>>} \cup {<<c1, x>> : x \in raws} \cup {<<x>> : x \in raws} \cup {<<c1, c1, c1>>}

\* media references are random: only their equality matters
MCSymmetry == Permutations(URIs)

MCTokens == {"t1", "t2", "t3"}

------------------------------------------------------------------------------

servingVars == <<question, config, registry, snapshot, tools, sync, due, syncFailed, calls, media,
                 clock, left, gateway, requests, slots, part>>

MCInit ==
    /\ part \in {"access", "runtime", "media", "gateway"}
    /\ AccessInit /\ GatewayInit
    /\ RuntimeInit
    /\ part # "runtime" => config = [compact |-> FALSE, writes |-> TRUE, http |-> FALSE]
    /\ part \in {"access", "gateway"} => DOMAIN registry = {} /\ \A p \in Serving : snapshot[p].policies = <<>>

\* the runtime as any process with every disturbance and one small artifact, or as
\* the usual process with one disturbance and the media store up to its limits
MCNext ==
    \/ part = "access" /\ AccessNext /\ UNCHANGED <<runtimeVars, gatewayVars, part>>
    \/ /\ part \in {"runtime", "media"} /\ RuntimeNext
       /\ IF part = "runtime" THEN media'.bytes <= 1 ELSE left' + 1 >= MaxDisturbances
       /\ UNCHANGED <<accessVars, gatewayVars, part>>
    \/ part = "gateway" /\ GatewayNext /\ UNCHANGED <<accessVars, runtimeVars, part>>

MCSpec == MCInit /\ [][MCNext]_servingVars
=============================================================================
