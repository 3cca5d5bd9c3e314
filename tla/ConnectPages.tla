---------------------------- MODULE ConnectPages ----------------------------
(***************************************************************************)
(* The account pages (internal/accountconnect/handler.go): a browser       *)
(* starts a sign-in from a form the server gave it, is sent to Google with *)
(* a state and comes back to the callback, in whichever browser the link   *)
(* was followed.  Answers travel separately from requests, so two tabs of  *)
(* a browser may have several under way, and their cookies arrive in any   *)
(* order.  A request that is refused changes nothing and is not a step.    *)
(* What the controller does to the registry and to tokens is the subject   *)
(* of AccountConnect; here an account is a row with a state and scopes.    *)
(***************************************************************************)
EXTENDS Integers, Sequences, FiniteSets, GoMaps

CONSTANTS
    Browsers,
    OwnAccounts, ForeignAccounts,  \* AccountIDs of this page's principal, and of others
    BaseChoices, ExtraChoices,     \* capabilityPairs; the additional choices configured
    GrantedBy,                     \* GrantedBy[s]: the scopes that include s
    PageBodies,                    \* the bodies of connect and reconnect requests
    MaxChoices,                    \* maxAdditionalScopeChoices
    MaxStarts, MaxForms, MaxUnderWay  \* bounds: sign-ins started, CSRF secrets made, answers under way

NoText == ""                                \* no account, no capability, no note

ASSUME PagesBounds == MaxStarts \in Nat /\ MaxForms \in Nat /\ MaxUnderWay \in Nat /\ MaxChoices \in Nat

\* an AccountID is one principal's, and what a request without a body asks for is offered
ASSUME PagesAssumption ==
    /\ OwnAccounts \cap ForeignAccounts = {} /\ NoText \notin OwnAccounts \cup ForeignAccounts
    /\ \E c \in BaseChoices : c.scope = "gmail.readonly"

VARIABLES
    choices,      \* the capabilities offered, fixed when the process starts
    pending,      \* the controller's sessions by state
    accounts,     \* the registry's rows
    jar,          \* each browser's cookies for the callback host and for its alias
    forms,        \* the pages open in a browser, with the secret in their forms
    links,        \* states whose consent link has reached a browser
    inbox,        \* answers under way to a browser
    made, signed  \* CSRF secrets made; the sign-ins completed

pagesVars == <<choices, pending, accounts, jar, forms, links, inbox, made, signed>>

(***************************************************************************)
(* Scopes                                                                  *)
(***************************************************************************)

IdentityScopes == {"openid", "email"}
DefaultScopes  == IdentityScopes \cup {"gmail.readonly"}

WellFormed(c) == ~c.required /\ c.capability # NoText /\ c.google

\* the choices offered, unless the configuration contradicts itself
ConflictingChoices(extra) ==
    \E c \in extra, d \in extra \cup BaseChoices : c.capability = d.capability /\ c.scope # d.scope
ConfiguredAs(extra) ==
    /\ Cardinality(extra) <= MaxChoices
    /\ \A c \in extra : WellFormed(c)
    /\ ~ConflictingChoices(extra)

Offered       == {c.scope : c \in choices}
UnionScopes(wanted) == wanted \cap (IdentityScopes \cup Offered)

\* the scopes a body names, directly or by capability; unknown names are dropped
Named(body) == body.scopes \cup {c.scope : c \in {d \in choices : d.capability \in body.capabilities}}

ConnectScopes(body) ==
    IF body.present THEN UnionScopes(IdentityScopes \cup Named(body)) ELSE DefaultScopes
ReconnectScopes(existing, body) ==
    UnionScopes(IdentityScopes \cup existing \cup (IF body.present THEN Named(body) ELSE {}))

\* a body that is not JSON, or too long, is refused; an absent one only on reconnect
Decodes(body, emptyAllowed) == body.kind = "fields" \/ (body.kind = "empty" /\ emptyAllowed)

ScopeGranted(scopes, s) == GrantedBy[s] \cap scopes # {}
GrantedCapabilities(row) == {c.capability : c \in {d \in choices : ScopeGranted(row.scopes, d.scope)}}

\* one row of the page: what is granted, and what could be added by reconnecting
AccountItem(row) ==
    LET active == row.state = "active"
        granted == GrantedCapabilities(row)
    IN  [granted |-> IF active THEN granted ELSE {},
         additional |-> IF active THEN {c.capability : c \in choices} \ granted ELSE {},
         note |-> IF active THEN (IF row.cleanup THEN "cleanup" ELSE NoText) ELSE row.state]

(***************************************************************************)
(* Requests                                                                *)
(***************************************************************************)

Hosts   == {"callback", "alias", "other"}   \* alias: another name of the loopback, same port
Origins == {"none"} \cup Hosts              \* what cannot be parsed counts as other
Viewing == {"accounts", "status"}

\* checkRequestHost: only pages that are viewed may use an alias
HostAllowed(path, host, origin) ==
    LET fits == {"callback"} \cup (IF path \in Viewing THEN {"alias"} ELSE {})
    IN  host \in fits /\ origin \in fits \cup {"none"}

NoCookies == [csrf |-> 0, oauth |-> 0]
Keep == -1                                  \* the answer sets no such cookie

Respond(b, host, csrf, oauth, form, shows) ==
    /\ Cardinality(inbox) < MaxUnderWay
    /\ inbox' = inbox \cup {[to |-> b, host |-> host, csrf |-> csrf, oauth |-> oauth,
                             form |-> form, shows |-> shows]}

\* the account the status page names: the record is active and the principal's
StatusAccount(id) ==
    IF id \in DOMAIN accounts /\ accounts[id].state = "active" /\ accounts[id].own
    THEN id ELSE NoText

\* an alias is redirected to the callback host before a cookie is set
RedirectsAlias(host) == host # "callback"

ViewPage(b, path, host, origin, id) ==
    /\ HostAllowed(path, host, origin)
    /\ ~RedirectsAlias(host)
    /\ LET had == jar[b][host].csrf
           token == IF had # 0 THEN had ELSE made + 1
       IN  /\ token <= MaxForms
           /\ made' = IF had # 0 THEN made ELSE token
           /\ Respond(b, host, IF had # 0 THEN Keep ELSE token, Keep, token,
                      IF path = "status" THEN StatusAccount(id) ELSE NoText)
    /\ UNCHANGED <<choices, pending, accounts, jar, forms, links, signed>>

\* requireCSRF: the request comes from a form open in b, or its secret is not the cookie's
SecretMatches(b, form) == jar[b][form.host].csrf # 0 /\ jar[b][form.host].csrf = form.token

Mutation(b, path, form, origin) == HostAllowed(path, form.host, origin) /\ SecretMatches(b, form)

\* start: the state is the session's key and its cookie, and part of the consent link
Begin(b, host, account, scopes, k) ==
    /\ k \in 1 .. MaxStarts /\ k \notin links \cup DOMAIN pending
    /\ scopes # {}
    /\ pending' = SetKey(pending, k, [by |-> b, account |-> account, scopes |-> scopes, late |-> FALSE])
    /\ Respond(b, host, Keep, k, 0, NoText)
    /\ UNCHANGED <<choices, accounts, jar, forms, links, made, signed>>

Connect(b, form, origin, body, k) ==
    /\ Mutation(b, "connect", form, origin)
    /\ Decodes(body, TRUE)
    /\ Begin(b, form.host, NoText, ConnectScopes(body), k)

OwnRow(id) == id \in DOMAIN accounts /\ accounts[id].own

Reconnect(b, form, origin, body, id, k) ==
    /\ Mutation(b, "reconnect", form, origin)
    /\ Decodes(body, FALSE)
    /\ OwnRow(id) /\ accounts[id].state # "disconnecting"
    /\ Begin(b, form.host, id, ReconnectScopes(accounts[id].scopes, body), k)

\* the row goes, or stays disconnecting for a retry
DisconnectAccount(b, form, origin, id) ==
    /\ Mutation(b, "disconnect", form, origin)
    /\ OwnRow(id)
    /\ \/ accounts' = DropKey(accounts, id)
       \/ accounts' = [accounts EXCEPT ![id].state = "disconnecting"]
    /\ UNCHANGED <<choices, pending, jar, forms, links, inbox, made, signed>>

(***************************************************************************)
(* The callback                                                            *)
(***************************************************************************)

\* fault seeded in SameBrowser: the cookie is not compared with the state
AnyBrowser(b, k) == TRUE
SameBrowser(b, k) == jar[b]["callback"].oauth = k

\* takeSession: the first callback removes the session, late or not
Takes(b, k, origin) ==
    /\ k \in links
    /\ HostAllowed("callback", "callback", origin)
    /\ SameBrowser(b, k)
    /\ k \in DOMAIN pending
    /\ pending' = DropKey(pending, k)

\* the row of the subject that signed in: the one to reconnect, or any but one
\* that another principal owns
Matches(k, id) ==
    /\ IF pending[k].account = NoText THEN id \in OwnAccounts
                                  ELSE id = pending[k].account /\ id \in DOMAIN accounts
    /\ id \in DOMAIN accounts => accounts[id].own /\ accounts[id].state # "disconnecting"

Row(state, scopes, cleanup) == [own |-> TRUE, state |-> state, scopes |-> scopes, cleanup |-> cleanup]

\* Google refuses the code, names no verified identity, another subject or no
\* scope, or a write fails, perhaps after the pending row; the cookie stays
CallbackFails(b, k, origin, id) ==
    /\ Takes(b, k, origin)
    /\ \/ UNCHANGED accounts
       \/ ~pending[k].late /\ Matches(k, id)
          /\ accounts' = SetKey(accounts, id, Row("pending", pending[k].scopes, FALSE))
    /\ UNCHANGED <<choices, jar, forms, links, inbox, made, signed>>

\* an address counts only from Google's issuer, with a subject, and verified
VerifiedIdentity(payload) == payload.google /\ payload.subject /\ payload.email /\ payload.verified

CallbackCompletes(b, k, origin, payload, id, granted, cleanup) ==
    /\ VerifiedIdentity(payload)
    /\ Takes(b, k, origin) /\ ~pending[k].late
    /\ granted # {}
    /\ Matches(k, id)
    /\ accounts' = SetKey(accounts, id, Row("active", granted, cleanup))
    /\ signed' = Append(signed, [state |-> k, by |-> pending[k].by, in |-> b,
                                 scopes |-> pending[k].scopes])
    /\ Respond(b, "callback", Keep, 0, 0, NoText)
    /\ UNCHANGED <<choices, jar, forms, links, made>>

Lapse(k) ==
    /\ k \in DOMAIN pending /\ ~pending[k].late
    /\ pending' = [pending EXCEPT ![k].late = TRUE]
    /\ UNCHANGED <<choices, accounts, jar, forms, links, inbox, made, signed>>

(***************************************************************************)
(* The browser                                                             *)
(***************************************************************************)

\* cookies are kept for the host that answered
Deliver(r) ==
    /\ inbox' = inbox \ {r}
    /\ jar' = [jar EXCEPT ![r.to][r.host].csrf  = IF r.csrf = Keep THEN @ ELSE r.csrf,
                          ![r.to][r.host].oauth = IF r.oauth = Keep THEN @ ELSE r.oauth]
    /\ forms' = IF r.form = 0 THEN forms
                ELSE forms \cup {[by |-> r.to, token |-> r.form, host |-> r.host]}
    /\ links' = IF r.oauth > 0 THEN links \cup {r.oauth} ELSE links
    /\ UNCHANGED <<choices, pending, accounts, made, signed>>

Payloads ==
    {[google |-> f # 1, subject |-> f # 2, email |-> f # 3, verified |-> f # 4] : f \in 1 .. 5}

PagesInit ==
    /\ choices \in {BaseChoices \cup extra : extra \in {x \in ExtraChoices : ConfiguredAs(x)}}
    /\ pending = EmptyMap /\ links = {} /\ inbox = {} /\ forms = {} /\ made = 0 /\ signed = <<>>
    /\ accounts = [a \in ForeignAccounts |-> [own |-> FALSE, state |-> "active", scopes |-> DefaultScopes,
                                              cleanup |-> FALSE]]
    /\ jar = [b \in Browsers |-> [h \in Hosts |-> NoCookies]]

PagesNext ==
    \/ \E b \in Browsers, path \in Viewing, host \in Hosts, origin \in Origins,
          id \in OwnAccounts \cup ForeignAccounts : ViewPage(b, path, host, origin, id)
    \/ \E f \in forms, origin \in Origins, body \in PageBodies, k \in 1 .. MaxStarts :
          \/ Connect(f.by, f, origin, body, k)
          \/ \E id \in DOMAIN accounts : Reconnect(f.by, f, origin, body, id, k)
    \/ \E f \in forms, origin \in Origins, id \in DOMAIN accounts : DisconnectAccount(f.by, f, origin, id)
    \/ \E b \in Browsers, k \in links \cap DOMAIN pending, origin \in Origins :
          \/ \E id \in OwnAccounts : CallbackFails(b, k, origin, id)
          \/ \E payload \in Payloads, id \in OwnAccounts, granted \in {{}, pending[k].scopes}, cleanup \in BOOLEAN :
                CallbackCompletes(b, k, origin, payload, id, granted, cleanup)
    \/ \E k \in DOMAIN pending : Lapse(k)
    \/ \E r \in inbox : Deliver(r)

(***************************************************************************)
(* Properties                                                              *)
(***************************************************************************)

\* A sign-in completes at most once, in the browser whose form started it, with
\* scopes that were offered; a status page names no other principal's account,
\* and a row shows each offered capability either as granted or as one to add
\* (handler.go:248 callback, :176 beginMutation, :284 status; controller.go:798 takeSession).
SignInBound ==
    /\ \A i \in DOMAIN signed :
          /\ signed[i].by = signed[i].in
          /\ signed[i].scopes \subseteq IdentityScopes \cup Offered
          /\ \A j \in DOMAIN signed : signed[i].state = signed[j].state => i = j
    /\ \A r \in inbox : r.shows \notin ForeignAccounts
    /\ \A id \in DOMAIN accounts :
          LET item == AccountItem(accounts[id])
          IN  /\ item.granted \cap item.additional = {}
              /\ item.note = NoText => item.granted \cup item.additional = {c.capability : c \in choices}
=============================================================================
