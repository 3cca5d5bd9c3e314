-------------------------- MODULE OperationsProofs --------------------------
(***************************************************************************)
(* The account pages, the keyring store, the writes of the mail and the    *)
(* media workflows, searches and message views, creations and prepared     *)
(* workflows, each under its own specification, for any browsers,          *)
(* sign-ins, accounts, tokens, requests, messages, recipes and files.      *)
(***************************************************************************)
EXTENDS Operations, SumProofs, FiniteSetTheorems, SequenceTheorems, TLAPS

-----------------------------------------------------------------------------
(* The account pages: SignInBound. *)

\* The pages alone, whatever the other parts do.
PagesSpec == PagesInit /\ [][PagesNext]_pagesVars

\* The states given out: a session is only taken once its link has been followed.
Begun == links \cup DOMAIN pending

\* The shape of what the server and the browsers keep.
PagesTyped ==
    /\ Begun \subseteq Nat \ {0}
    /\ BaseChoices \subseteq choices /\ made \in Nat
    /\ \A k \in DOMAIN pending : DOMAIN pending[k] = {"by", "account", "scopes", "late"}
    /\ \A id \in DOMAIN accounts : DOMAIN accounts[id] = {"own", "state", "scopes", "cleanup"}
    /\ jar \in [Browsers -> [Hosts -> [csrf : Int, oauth : Int]]]
    /\ \A f \in forms : f.by \in Browsers /\ f.host \in Hosts
    /\ \A r \in inbox : r.to \in Browsers /\ r.host \in Hosts /\ r.csrf \in Int /\ r.oauth \in Int

\* A state's cookie is, or is on its way to, the browser that began the sign-in.
CookieOf(k, b) == k \in Begun => (k \in DOMAIN pending => pending[k].by = b)
CookiesBound ==
    /\ \A b \in Browsers, h \in Hosts :
          jar[b][h].oauth \in {0} \cup Begun /\ CookieOf(jar[b][h].oauth, b)
    /\ \A r \in inbox : r.oauth \in {Keep, 0} \cup Begun /\ CookieOf(r.oauth, r.to)

\* What a session asks for is offered.
SessionsOffered == \A k \in DOMAIN pending : pending[k].scopes \subseteq IdentityScopes \cup Offered

\* A completed sign-in is one whose session is gone and whose state is used up.
SignedOnce ==
    /\ \E n \in Nat : DOMAIN signed = 1 .. n
    /\ \A i \in DOMAIN signed :
          /\ signed[i].state \in links \ DOMAIN pending
          /\ signed[i].by = signed[i].in
          /\ signed[i].scopes \subseteq IdentityScopes \cup Offered
          /\ \A j \in DOMAIN signed : signed[i].state = signed[j].state => i = j

\* The rows: a foreign one stays foreign.
RowsOwned ==
    \A id \in DOMAIN accounts : /\ id \in ForeignAccounts => ~accounts[id].own
                                /\ accounts[id].state \in {"active", "pending", "disconnecting"}

ShownOwn == \A r \in inbox : r.shows \notin ForeignAccounts

PagesInv == PagesTyped /\ CookiesBound /\ SessionsOffered /\ SignedOnce /\ RowsOwned /\ ShownOwn

\* A state, and a note, is told from none.
LEMMA NoTextTold == NoText \notin {"active", "pending", "disconnecting", "cleanup"}
  BY Zenon DEF NoText

\* PagesInv is enough.
LEMMA PagesInvEnough == PagesInv => SignInBound
  <1> SUFFICES ASSUME PagesInv PROVE SignInBound
    OBVIOUS
  <1>1. \A i \in DOMAIN signed :
          /\ signed[i].by = signed[i].in
          /\ signed[i].scopes \subseteq IdentityScopes \cup Offered
          /\ \A j \in DOMAIN signed : signed[i].state = signed[j].state => i = j
    BY DEF PagesInv, SignedOnce
  <1>2. \A r \in inbox : r.shows \notin ForeignAccounts
    BY DEF PagesInv, ShownOwn
  <1>3. ASSUME NEW id \in DOMAIN accounts
        PROVE  LET item == AccountItem(accounts[id])
               IN  /\ item.granted \cap item.additional = {}
                   /\ item.note = NoText => item.granted \cup item.additional = {c.capability : c \in choices}
    <2> DEFINE all == {c.capability : c \in choices}
               granted == GrantedCapabilities(accounts[id])
               active == accounts[id].state = "active"
    <2>1. granted \subseteq all
      BY DEF GrantedCapabilities
    <2>2. accounts[id].state \in {"active", "pending", "disconnecting"}
      BY DEF PagesInv, RowsOwned
    <2> HIDE DEF granted, all
    <2>3. /\ AccountItem(accounts[id]).granted = (IF active THEN granted ELSE {})
          /\ AccountItem(accounts[id]).additional = (IF active THEN all \ granted ELSE {})
          /\ AccountItem(accounts[id]).note =
               (IF active THEN (IF accounts[id].cleanup THEN "cleanup" ELSE NoText) ELSE accounts[id].state)
      BY DEF AccountItem, granted, all
    <2> DEFINE item == AccountItem(accounts[id])
    <2> HIDE DEF item
    <2>4. item.granted \cap item.additional = {}
      BY <2>3 DEF item
    <2>5. item.note = NoText => active
      BY <2>2, <2>3, NoTextTold DEF item
    <2>6. active => item.granted \cup item.additional = all
      BY <2>1, <2>3 DEF item
    <2> QED
      BY <2>4, <2>5, <2>6 DEF item, all
  <1> QED
    BY <1>1, <1>2, <1>3 DEF SignInBound

\* The process starts with the choices the configuration offers, and no session.
LEMMA PagesInvInit == PagesInit => PagesInv
  <1> SUFFICES ASSUME PagesInit PROVE PagesInv
    OBVIOUS
  <1>1. pending = EmptyMap /\ DOMAIN pending = {} /\ links = {} /\ inbox = {} /\ forms = {} /\ signed = <<>>
    BY DEF PagesInit, EmptyMap
  <1>2. jar = [b \in Browsers |-> [h \in Hosts |-> NoCookies]]
    BY DEF PagesInit
  <1>3. NoCookies \in [csrf : Int, oauth : Int] /\ NoCookies.oauth = 0
    BY DEF NoCookies
  <1>4. DOMAIN accounts = ForeignAccounts
        /\ \A id \in ForeignAccounts : accounts[id] = [own |-> FALSE, state |-> "active",
                                                      scopes |-> DefaultScopes, cleanup |-> FALSE]
    BY DEF PagesInit
  <1>5. PagesTyped
    <2>1. BaseChoices \subseteq choices /\ made \in Nat
      BY DEF PagesInit
    <2>2. jar \in [Browsers -> [Hosts -> [csrf : Int, oauth : Int]]]
      <3> HIDE DEF NoCookies
      <3> QED
        BY <1>2, <1>3
    <2>3. \A id \in DOMAIN accounts : DOMAIN accounts[id] = {"own", "state", "scopes", "cleanup"}
      BY <1>4
    <2> QED
      BY <1>1, <2>1, <2>2, <2>3 DEF PagesTyped, Begun
  <1>6. CookiesBound
    BY <1>1, <1>2, <1>3 DEF CookiesBound, CookieOf, Begun
  <1>7. SignedOnce
    <2>1. DOMAIN signed = 1 .. 0
      BY <1>1
    <2> QED
      BY <2>1 DEF SignedOnce
  <1>8. RowsOwned
    BY <1>4 DEF RowsOwned
  <1> QED
    BY <1>1, <1>5, <1>6, <1>7, <1>8 DEF PagesInv, SessionsOffered, ShownOwn

\* An answer under way.
Sent(b, host, csrf, oauth, form, shows) ==
    [to |-> b, host |-> host, csrf |-> csrf, oauth |-> oauth, form |-> form, shows |-> shows]

\* An answer that gives no state away keeps what is known of cookies and sessions.
LEMMA AnswerKeeps ==
  ASSUME PagesInv, NEW b \in Browsers, NEW host \in Hosts, NEW csrf \in Int, NEW oauth \in {Keep, 0},
         NEW form, NEW shows, shows \notin ForeignAccounts,
         Respond(b, host, csrf, oauth, form, shows),
         UNCHANGED <<choices, pending, accounts, jar, forms, links, signed>>, made' \in Nat
  PROVE  PagesInv'
  <1> DEFINE m == Sent(b, host, csrf, oauth, form, shows)
  <1>1. inbox' = inbox \cup {m}
    BY DEF Respond, Sent
  <1>2. m.to = b /\ m.host = host /\ m.csrf = csrf /\ m.oauth = oauth /\ m.shows = shows
    BY DEF Sent
  <1>3. Keep \in Int /\ Keep < 0
    BY DEF Keep
  <1> HIDE DEF m
  <1>4. Begun' = Begun
    BY DEF Begun
  <1>5. PagesTyped'
    <2>1. \A r \in inbox' : r.to \in Browsers /\ r.host \in Hosts /\ r.csrf \in Int /\ r.oauth \in Int
      <3>1. m.to \in Browsers /\ m.host \in Hosts /\ m.csrf \in Int /\ m.oauth \in Int
        BY <1>2, <1>3
      <3>2. \A r \in inbox : r.to \in Browsers /\ r.host \in Hosts /\ r.csrf \in Int /\ r.oauth \in Int
        BY DEF PagesInv, PagesTyped
      <3> QED
        BY <1>1, <3>1, <3>2
    <2> QED
      BY <1>4, <2>1 DEF PagesInv, PagesTyped
  <1>6. CookiesBound'
    <2>1. \A r \in inbox' : r.oauth \in {Keep, 0} \cup Begun /\ CookieOf(r.oauth, r.to)
      <3>1. 0 \notin Begun /\ Keep \notin Begun
        BY <1>3 DEF PagesInv, PagesTyped
      <3> QED
        BY <1>1, <1>2, <3>1 DEF PagesInv, CookiesBound, CookieOf
    <2> QED
      BY <1>4, <2>1 DEF PagesInv, CookiesBound, CookieOf
  <1>7. SessionsOffered' /\ SignedOnce' /\ RowsOwned'
    BY DEF PagesInv, SessionsOffered, SignedOnce, RowsOwned, Offered
  <1>8. ShownOwn'
    BY <1>1, <1>2 DEF PagesInv, ShownOwn
  <1> QED
    BY <1>5, <1>6, <1>7, <1>8 DEF PagesInv

\* The pages that are viewed (handler.accounts, handler.status).
LEMMA ViewPageKeeps ==
  ASSUME PagesInv, NEW b \in Browsers, NEW path \in Viewing, NEW host \in Hosts, NEW origin \in Origins,
         NEW id, ViewPage(b, path, host, origin, id)
  PROVE  PagesInv'
  <1> DEFINE had == jar[b][host].csrf
             token == IF had # 0 THEN had ELSE made + 1
             csrf == IF had # 0 THEN Keep ELSE token
             shows == IF path = "status" THEN StatusAccount(id) ELSE NoText
  <1>1. Respond(b, host, csrf, Keep, token, shows)
        /\ UNCHANGED <<choices, pending, accounts, jar, forms, links, signed>>
    BY DEF ViewPage
  <1>2. shows \notin ForeignAccounts
    BY PagesAssumption DEF StatusAccount, PagesInv, RowsOwned
  <1>3. csrf \in Int /\ made' \in Nat
    <2>1. made \in Nat /\ jar[b][host].csrf \in Int
      BY DEF PagesInv, PagesTyped
    <2> QED
      BY <2>1 DEF Keep, ViewPage
  <1> HIDE DEF csrf, shows, token
  <1> QED
    BY <1>1, <1>2, <1>3, AnswerKeeps

\* A connect or a reconnect that begins a sign-in (handler.start).
LEMMA BeginKeeps ==
  ASSUME PagesInv, NEW b \in Browsers, NEW host \in Hosts, NEW account, NEW scopes, NEW k,
         scopes \subseteq IdentityScopes \cup Offered, Begin(b, host, account, scopes, k)
  PROVE  PagesInv'
  <1> DEFINE s == [by |-> b, account |-> account, scopes |-> scopes, late |-> FALSE]
             m == Sent(b, host, Keep, k, 0, NoText)
  <1>1. /\ k \in Nat \ {0} /\ k \notin Begun
        /\ pending' = SetKey(pending, k, s) /\ inbox' = inbox \cup {m}
        /\ UNCHANGED <<choices, accounts, jar, forms, links, made, signed>>
    BY PagesBounds DEF Begin, Respond, Sent, Begun
  <1>2. m.to = b /\ m.host = host /\ m.csrf = Keep /\ m.oauth = k /\ m.shows = NoText
    BY DEF Sent
  <1>3. s.by = b /\ s.scopes = scopes /\ DOMAIN s = {"by", "account", "scopes", "late"}
    OBVIOUS
  <1>4. Keep \in Int /\ Keep < 0
    BY DEF Keep
  <1> HIDE DEF m, s
  <1>5. /\ DOMAIN pending' = DOMAIN pending \cup {k} /\ pending'[k] = s
        /\ \A x \in DOMAIN pending : x # k /\ pending'[x] = pending[x]
    <2>1. pending' = SetKey(pending, k, s) /\ k \notin DOMAIN pending
      BY <1>1 DEF Begun
    <2> QED
      BY <2>1 DEF SetKey
  <1>6. Begun' = Begun \cup {k}
    BY <1>1, <1>5 DEF Begun
  <1>7. PagesTyped'
    <2>1. \A r \in inbox' : r.to \in Browsers /\ r.host \in Hosts /\ r.csrf \in Int /\ r.oauth \in Int
      <3>1. m.to \in Browsers /\ m.host \in Hosts /\ m.csrf \in Int /\ m.oauth \in Int
        BY <1>1, <1>2, <1>4
      <3>2. \A r \in inbox : r.to \in Browsers /\ r.host \in Hosts /\ r.csrf \in Int /\ r.oauth \in Int
        BY DEF PagesInv, PagesTyped
      <3> QED
        BY <1>1, <3>1, <3>2
    <2>2. \A x \in DOMAIN pending' : DOMAIN pending'[x] = {"by", "account", "scopes", "late"}
      BY <1>3, <1>5 DEF PagesInv, PagesTyped
    <2> QED
      BY <1>1, <1>6, <2>1, <2>2 DEF PagesInv, PagesTyped
  <1>8. \A x \in {0, Keep} \cup Begun, c \in Browsers : CookieOf(x, c) => CookieOf(x, c)'
    <2>1. \A x \in {0, Keep} \cup Begun : x # k
      BY <1>1, <1>4
    <2> QED
      BY <2>1, <1>5, <1>6 DEF CookieOf, Begun
  <1>9. CookiesBound'
    <2>1. \A c \in Browsers, h \in Hosts :
             jar'[c][h].oauth \in {0} \cup Begun' /\ CookieOf(jar[c][h].oauth, c)'
      BY <1>1, <1>6, <1>8 DEF PagesInv, CookiesBound
    <2>2. \A r \in inbox : r.oauth \in {Keep, 0} \cup Begun' /\ CookieOf(r.oauth, r.to)'
      BY <1>6, <1>8 DEF PagesInv, CookiesBound, PagesTyped
    <2>3. m.oauth \in Begun' /\ CookieOf(m.oauth, m.to)'
      BY <1>2, <1>3, <1>5, <1>6 DEF CookieOf
    <2> QED
      BY <1>1, <2>1, <2>2, <2>3 DEF CookiesBound, CookieOf
  <1>10. SessionsOffered'
    BY <1>1, <1>3, <1>5 DEF PagesInv, SessionsOffered, Offered
  <1>11. SignedOnce'
    <2>1. \A i \in DOMAIN signed : signed[i].state \in links \ DOMAIN pending'
      BY <1>1, <1>5 DEF PagesInv, SignedOnce, Begun
    <2> QED
      BY <1>1, <2>1 DEF PagesInv, SignedOnce, Offered
  <1>12. RowsOwned' /\ ShownOwn'
    BY <1>1, <1>2, PagesAssumption DEF PagesInv, RowsOwned, ShownOwn
  <1> QED
    BY <1>7, <1>9, <1>10, <1>11, <1>12 DEF PagesInv

\* A form of a page begins a sign-in with scopes that are offered
\* (beginMutation, connectScopes, reconnectScopes).
LEMMA MutationsKeep ==
  ASSUME PagesInv, NEW f \in forms, NEW origin, NEW body, NEW id, NEW k,
         \/ Connect(f.by, f, origin, body, k)
         \/ Reconnect(f.by, f, origin, body, id, k)
  PROVE  PagesInv'
  <1>1. f.by \in Browsers /\ f.host \in Hosts
    BY DEF PagesInv, PagesTyped
  <1>2. "gmail.readonly" \in Offered
    BY PagesAssumption DEF PagesInv, PagesTyped, Offered
  <1>3. ConnectScopes(body) \subseteq IdentityScopes \cup Offered
    BY <1>2 DEF ConnectScopes, UnionScopes, DefaultScopes
  <1>4. \A existing : ReconnectScopes(existing, body) \subseteq IdentityScopes \cup Offered
    BY DEF ReconnectScopes, UnionScopes
  <1>5. CASE Connect(f.by, f, origin, body, k)
    BY <1>1, <1>3, <1>5, BeginKeeps DEF Connect
  <1>6. CASE Reconnect(f.by, f, origin, body, id, k)
    BY <1>1, <1>4, <1>6, BeginKeeps DEF Reconnect
  <1> QED
    BY <1>5, <1>6

\* A session that times out (the controller's sessionTTL).
LEMMA LapseKeeps ==
  ASSUME PagesInv, NEW k \in DOMAIN pending, Lapse(k)
  PROVE  PagesInv'
  <1>1. /\ DOMAIN pending' = DOMAIN pending
        /\ \A x \in DOMAIN pending : /\ DOMAIN pending'[x] = DOMAIN pending[x]
                                     /\ DOMAIN pending[x] = {"by", "account", "scopes", "late"}
                                       => pending'[x].by = pending[x].by /\ pending'[x].scopes = pending[x].scopes
        /\ UNCHANGED <<choices, accounts, jar, forms, links, inbox, made, signed>>
    BY DEF Lapse
  <1>2. \A x \in DOMAIN pending : /\ DOMAIN pending'[x] = {"by", "account", "scopes", "late"}
                                  /\ pending'[x].by = pending[x].by /\ pending'[x].scopes = pending[x].scopes
    BY <1>1 DEF PagesInv, PagesTyped
  <1>3. Begun' = Begun
    BY <1>1 DEF Begun
  <1>4. PagesTyped'
    BY <1>1, <1>2, <1>3 DEF PagesInv, PagesTyped
  <1>5. CookiesBound'
    <2>1. \A x, c : CookieOf(x, c)' <=> CookieOf(x, c)
      BY <1>1, <1>2, <1>3 DEF CookieOf
    <2> QED
      BY <1>1, <1>3, <2>1 DEF PagesInv, CookiesBound, CookieOf
  <1>6. SessionsOffered' /\ SignedOnce' /\ RowsOwned' /\ ShownOwn'
    BY <1>1, <1>2 DEF PagesInv, SessionsOffered, SignedOnce, RowsOwned, ShownOwn, Offered
  <1> QED
    BY <1>4, <1>5, <1>6 DEF PagesInv

\* A row that is removed, or kept as disconnecting (handler.disconnect).
LEMMA DisconnectKeeps ==
  ASSUME PagesInv, NEW f \in forms, NEW origin, NEW id \in DOMAIN accounts,
         DisconnectAccount(f.by, f, origin, id)
  PROVE  PagesInv'
  <1>1. UNCHANGED <<choices, pending, jar, forms, links, inbox, made, signed>>
    BY DEF DisconnectAccount
  <1>2. \A x \in DOMAIN accounts :
           /\ DOMAIN accounts[x] = {"own", "state", "scopes", "cleanup"}
           /\ x \in ForeignAccounts => ~accounts[x].own
           /\ accounts[x].state \in {"active", "pending", "disconnecting"}
    BY DEF PagesInv, PagesTyped, RowsOwned
  <1>3. \A x \in DOMAIN accounts' :
           /\ DOMAIN accounts'[x] = {"own", "state", "scopes", "cleanup"}
           /\ x \in ForeignAccounts => ~accounts'[x].own
           /\ accounts'[x].state \in {"active", "pending", "disconnecting"}
    <2>1. CASE accounts' = DropKey(accounts, id)
      BY <2>1, <1>2 DEF DropKey
    <2>2. CASE accounts' = [accounts EXCEPT ![id].state = "disconnecting"]
      BY <2>2, <1>2
    <2> QED
      BY <2>1, <2>2 DEF DisconnectAccount
  <1>4. Begun' = Begun
    BY <1>1 DEF Begun
  <1>5. PagesTyped' /\ RowsOwned'
    BY <1>1, <1>3, <1>4 DEF PagesInv, PagesTyped, RowsOwned
  <1>6. CookiesBound' /\ SessionsOffered' /\ SignedOnce' /\ ShownOwn'
    <2>1. \A x, c : CookieOf(x, c)' <=> CookieOf(x, c)
      BY <1>1, <1>4 DEF CookieOf
    <2>2. CookiesBound'
      BY <1>1, <1>4, <2>1 DEF PagesInv, CookiesBound, CookieOf
    <2> QED
      BY <1>1, <2>2 DEF PagesInv, SessionsOffered, SignedOnce, ShownOwn, Offered
  <1> QED
    BY <1>5, <1>6 DEF PagesInv

\* A callback that takes its session: the state stays used up.
LEMMA TakenKeeps ==
  ASSUME PagesInv, NEW b \in Browsers, NEW k \in links \cap DOMAIN pending, NEW origin,
         Takes(b, k, origin), UNCHANGED <<choices, jar, links>>
  PROVE  /\ Begun' = Begun
         /\ DOMAIN pending' = DOMAIN pending \ {k}
         /\ \A x \in DOMAIN pending' : pending'[x] = pending[x]
         /\ \A x, c : CookieOf(x, c) => CookieOf(x, c)'
         /\ SessionsOffered'
         /\ pending[k].by = b
  <1>1. DOMAIN pending' = DOMAIN pending \ {k} /\ \A x \in DOMAIN pending' : pending'[x] = pending[x]
    <2>1. pending' = DropKey(pending, k)
      BY DEF Takes
    <2> QED
      BY <2>1 DEF DropKey
  <1>2. Begun' = Begun
    BY <1>1 DEF Begun
  <1>3. \A x, c : CookieOf(x, c) => CookieOf(x, c)'
    BY <1>1, <1>2 DEF CookieOf
  <1>4. SessionsOffered'
    BY <1>1 DEF PagesInv, SessionsOffered, Offered
  <1>5. pending[k].by = b
    <2>1. CookieOf(jar[b]["callback"].oauth, b) /\ jar[b]["callback"].oauth = k
      BY DEF PagesInv, CookiesBound, Takes, SameBrowser, Hosts
    <2> QED
      BY <2>1 DEF CookieOf, Begun
  <1> QED
    BY <1>1, <1>2, <1>3, <1>4, <1>5

\* The row a callback writes is the principal's own.
LEMMA MatchedOwn ==
  ASSUME PagesInv, NEW k \in DOMAIN pending, NEW id \in OwnAccounts, Matches(k, id),
         NEW state \in {"active", "pending"}, NEW scopes, NEW cleanup,
         accounts' = SetKey(accounts, id, Row(state, scopes, cleanup))
  PROVE  /\ RowsOwned'
         /\ \A x \in DOMAIN accounts' : DOMAIN accounts'[x] = {"own", "state", "scopes", "cleanup"}
  <1>1. id \notin ForeignAccounts
    BY PagesAssumption
  <1> DEFINE row == Row(state, scopes, cleanup)
  <1>2. DOMAIN row = {"own", "state", "scopes", "cleanup"} /\ row.state = state
    BY DEF Row
  <1>5. accounts' = SetKey(accounts, id, row)
    OBVIOUS
  <1> HIDE DEF row
  <1>3. DOMAIN accounts' = DOMAIN accounts \cup {id} /\ accounts'[id] = row
        /\ \A x \in DOMAIN accounts \ {id} : accounts'[x] = accounts[x]
    BY <1>5 DEF SetKey
  <1>4. \A x \in DOMAIN accounts :
           /\ DOMAIN accounts[x] = {"own", "state", "scopes", "cleanup"}
           /\ x \in ForeignAccounts => ~accounts[x].own
           /\ accounts[x].state \in {"active", "pending", "disconnecting"}
    BY DEF PagesInv, PagesTyped, RowsOwned
  <1>6. ASSUME NEW x \in DOMAIN accounts'
        PROVE  /\ DOMAIN accounts'[x] = {"own", "state", "scopes", "cleanup"}
               /\ x \in ForeignAccounts => ~accounts'[x].own
               /\ accounts'[x].state \in {"active", "pending", "disconnecting"}
    BY <1>1, <1>2, <1>3, <1>4
  <1> QED
    BY <1>6 DEF RowsOwned

\* A callback that fails, perhaps after its pending row was saved.
LEMMA CallbackFailsKeeps ==
  ASSUME PagesInv, NEW b \in Browsers, NEW k \in links \cap DOMAIN pending, NEW origin,
         NEW id \in OwnAccounts, CallbackFails(b, k, origin, id)
  PROVE  PagesInv'
  <1>1. Takes(b, k, origin) /\ UNCHANGED <<choices, jar, forms, links, inbox, made, signed>>
    BY DEF CallbackFails
  <1>2. /\ Begun' = Begun
        /\ DOMAIN pending' = DOMAIN pending \ {k}
        /\ \A x \in DOMAIN pending' : pending'[x] = pending[x]
        /\ \A x, c : CookieOf(x, c) => CookieOf(x, c)'
        /\ SessionsOffered'
    BY <1>1, TakenKeeps
  <1>3. RowsOwned' /\ \A x \in DOMAIN accounts' : DOMAIN accounts'[x] = {"own", "state", "scopes", "cleanup"}
    <2>1. CASE UNCHANGED accounts
      BY <2>1 DEF PagesInv, RowsOwned, PagesTyped
    <2>2. CASE Matches(k, id) /\ accounts' = SetKey(accounts, id, Row("pending", pending[k].scopes, FALSE))
      BY <2>2, MatchedOwn
    <2> QED
      BY <2>1, <2>2 DEF CallbackFails
  <1>4. PagesTyped'
    BY <1>1, <1>2, <1>3 DEF PagesInv, PagesTyped
  <1>5. CookiesBound'
    BY <1>1, <1>2 DEF PagesInv, CookiesBound, CookieOf
  <1>6. SignedOnce'
    BY <1>1, <1>2 DEF PagesInv, SignedOnce, Offered
  <1>7. ShownOwn'
    BY <1>1 DEF PagesInv, ShownOwn
  <1> QED
    BY <1>2, <1>3, <1>4, <1>5, <1>6, <1>7 DEF PagesInv

\* A callback that completes the sign-in (handler.callback, CompleteCallback).
LEMMA CallbackCompletesKeeps ==
  ASSUME PagesInv, NEW b \in Browsers, NEW k \in links \cap DOMAIN pending, NEW origin, NEW payload,
         NEW id \in OwnAccounts, NEW granted, NEW cleanup,
         CallbackCompletes(b, k, origin, payload, id, granted, cleanup)
  PROVE  PagesInv'
  <1> DEFINE m == Sent(b, "callback", Keep, 0, 0, NoText)
             done == [state |-> k, by |-> pending[k].by, in |-> b, scopes |-> pending[k].scopes]
  <1>1. /\ Takes(b, k, origin) /\ inbox' = inbox \cup {m} /\ signed' = Append(signed, done)
        /\ Matches(k, id) /\ accounts' = SetKey(accounts, id, Row("active", granted, cleanup))
        /\ UNCHANGED <<choices, jar, forms, links, made>>
    BY DEF CallbackCompletes, Respond, Sent
  <1>2. m.to = b /\ m.host = "callback" /\ m.csrf = Keep /\ m.oauth = 0 /\ m.shows = NoText
    BY DEF Sent
  <1>3. done.state = k /\ done.by = pending[k].by /\ done.in = b /\ done.scopes = pending[k].scopes
    OBVIOUS
  <1>4. Keep \in Int /\ "callback" \in Hosts
    BY DEF Keep, Hosts
  <1>5. PICK n \in Nat : DOMAIN signed = 1 .. n
    BY DEF PagesInv, SignedOnce
  <1>6. DOMAIN signed' = 1 .. (n + 1) /\ signed'[n + 1] = done /\ \A i \in 1 .. n : signed'[i] = signed[i]
    <2> HIDE DEF done
    <2>1. Len(signed) = n
      BY <1>5
    <2> QED
      BY <1>1, <1>5, <2>1
  <1> HIDE DEF m, done
  <1>7. /\ Begun' = Begun
        /\ DOMAIN pending' = DOMAIN pending \ {k}
        /\ \A x \in DOMAIN pending' : pending'[x] = pending[x]
        /\ \A x, c : CookieOf(x, c) => CookieOf(x, c)'
        /\ SessionsOffered'
        /\ pending[k].by = b
    BY <1>1, TakenKeeps
  <1>8. RowsOwned' /\ \A x \in DOMAIN accounts' : DOMAIN accounts'[x] = {"own", "state", "scopes", "cleanup"}
    BY <1>1, MatchedOwn
  <1>9. PagesTyped'
    <2>1. \A r \in inbox' : r.to \in Browsers /\ r.host \in Hosts /\ r.csrf \in Int /\ r.oauth \in Int
      BY <1>1, <1>2, <1>4 DEF PagesInv, PagesTyped
    <2> QED
      BY <1>1, <1>7, <1>8, <2>1 DEF PagesInv, PagesTyped
  <1>10. CookiesBound'
    <2>1. \A r \in inbox' : r.oauth \in {Keep, 0} \cup Begun' /\ CookieOf(r.oauth, r.to)'
      <3>1. CookieOf(m.oauth, m.to)'
        BY <1>2, <1>7 DEF CookieOf, PagesInv, PagesTyped
      <3> QED
        BY <1>1, <1>2, <1>7, <3>1 DEF PagesInv, CookiesBound
    <2>2. \A c \in Browsers, h \in Hosts :
             jar'[c][h].oauth \in {0} \cup Begun' /\ CookieOf(jar[c][h].oauth, c)'
      BY <1>1, <1>7 DEF PagesInv, CookiesBound, CookieOf
    <2> QED
      BY <1>1, <2>1, <2>2 DEF CookiesBound, CookieOf
  <1>11. SignedOnce'
    <2>1. \A i \in 1 .. n : /\ signed[i].state \in links \ DOMAIN pending
                            /\ signed[i].by = signed[i].in
                            /\ signed[i].scopes \subseteq IdentityScopes \cup Offered
                            /\ \A j \in 1 .. n : signed[i].state = signed[j].state => i = j
      BY <1>5 DEF PagesInv, SignedOnce
    <2>2. done.state \in links /\ done.state \in DOMAIN pending /\ done.state \notin DOMAIN pending'
          /\ done.by = done.in /\ done.scopes \subseteq IdentityScopes \cup Offered
      BY <1>3, <1>7 DEF PagesInv, SessionsOffered
    <2>3. Offered' = Offered /\ links' = links
      BY <1>1 DEF Offered
    <2>4. \A i \in 1 .. (n + 1) : i \in 1 .. n \/ i = n + 1
      BY <1>5
    <2>5. ASSUME NEW i \in 1 .. (n + 1)
          PROVE  /\ signed'[i].state \in links \ DOMAIN pending'
                 /\ signed'[i].by = signed'[i].in
                 /\ signed'[i].scopes \subseteq IdentityScopes \cup Offered
                 /\ \A j \in 1 .. (n + 1) : signed'[i].state = signed'[j].state => i = j
      BY <1>6, <1>7, <2>1, <2>2, <2>4
    <2> QED
      BY <1>6, <2>3, <2>5 DEF SignedOnce
  <1>12. ShownOwn'
    BY <1>1, <1>2, PagesAssumption DEF PagesInv, ShownOwn
  <1> QED
    BY <1>7, <1>8, <1>9, <1>10, <1>11, <1>12 DEF PagesInv

\* An answer that arrives sets its cookies for its host (Set-Cookie).
LEMMA DeliverKeeps ==
  ASSUME PagesInv, NEW r \in inbox, Deliver(r)
  PROVE  PagesInv'
  <1>1. /\ inbox' = inbox \ {r} /\ UNCHANGED <<choices, pending, accounts, made, signed>>
        /\ links' = IF r.oauth > 0 THEN links \cup {r.oauth} ELSE links
    BY DEF Deliver
  <1>2. r.to \in Browsers /\ r.host \in Hosts /\ r.csrf \in Int /\ r.oauth \in Int
        /\ r.oauth \in {Keep, 0} \cup Begun /\ CookieOf(r.oauth, r.to)
    BY DEF PagesInv, PagesTyped, CookiesBound
  <1>3. Keep \in Int /\ Keep < 0
    BY DEF Keep
  <1>4. Begun \subseteq Nat \ {0}
    BY DEF PagesInv, PagesTyped
  <1>5. Begun' = Begun
    BY <1>1, <1>2, <1>3 DEF Begun
  <1>6. \A x, c : CookieOf(x, c) <=> CookieOf(x, c)'
    BY <1>1, <1>5 DEF CookieOf
  <1>8. /\ jar' \in [Browsers -> [Hosts -> [csrf : Int, oauth : Int]]]
        /\ jar'[r.to][r.host].oauth = IF r.oauth = Keep THEN jar[r.to][r.host].oauth ELSE r.oauth
        /\ \A b \in Browsers, h \in Hosts : (b # r.to \/ h # r.host) => jar'[b][h] = jar[b][h]
    <2> DEFINE half == [jar EXCEPT ![r.to][r.host].csrf = IF r.csrf = Keep THEN @ ELSE r.csrf]
    <2>1. jar \in [Browsers -> [Hosts -> [csrf : Int, oauth : Int]]]
      BY DEF PagesInv, PagesTyped
    <2>2. /\ half \in [Browsers -> [Hosts -> [csrf : Int, oauth : Int]]]
          /\ half[r.to][r.host].oauth = jar[r.to][r.host].oauth
          /\ \A b \in Browsers, h \in Hosts : (b # r.to \/ h # r.host) => half[b][h] = jar[b][h]
      <3>1. PICK v \in Int : half = [jar EXCEPT ![r.to][r.host].csrf = v]
        BY <1>2, <2>1
      <3> HIDE DEF half
      <3> QED
        BY <1>2, <2>1, <3>1
    <2>3. jar' = [half EXCEPT ![r.to][r.host].oauth = IF r.oauth = Keep THEN @ ELSE r.oauth]
      BY DEF Deliver
    <2> HIDE DEF half
    <2> DEFINE v == IF r.oauth = Keep THEN half[r.to][r.host].oauth ELSE r.oauth
    <2>4. jar' = [half EXCEPT ![r.to][r.host].oauth = v]
      BY <2>3
    <2>8. v \in Int /\ v = (IF r.oauth = Keep THEN half[r.to][r.host].oauth ELSE r.oauth)
      <3>1. half[r.to][r.host] \in [csrf : Int, oauth : Int]
        BY <1>2, <2>2
      <3> QED
        BY <1>2, <3>1
    <2> HIDE DEF v
    <2>9. [half[r.to][r.host] EXCEPT !.oauth = v] \in [csrf : Int, oauth : Int]
      <3>1. half[r.to][r.host] \in [csrf : Int, oauth : Int]
        BY <1>2, <2>2
      <3> QED
        BY <2>8, <3>1
    <2>10. [half[r.to] EXCEPT ![r.host] = [half[r.to][r.host] EXCEPT !.oauth = v]]
             \in [Hosts -> [csrf : Int, oauth : Int]]
      <3> DEFINE new == [half[r.to][r.host] EXCEPT !.oauth = v]
      <3>1. new \in [csrf : Int, oauth : Int] /\ half[r.to] \in [Hosts -> [csrf : Int, oauth : Int]]
        BY <1>2, <2>2, <2>9
      <3> HIDE DEF new
      <3> QED
        BY <1>2, <3>1 DEF new
    <2>5. jar' \in [Browsers -> [Hosts -> [csrf : Int, oauth : Int]]]
      <3> DEFINE new == [half[r.to] EXCEPT ![r.host] = [half[r.to][r.host] EXCEPT !.oauth = v]]
      <3>1. jar' = [half EXCEPT ![r.to] = new]
        BY <2>4
      <3>2. new \in [Hosts -> [csrf : Int, oauth : Int]]
        BY <2>10
      <3> HIDE DEF new
      <3> QED
        BY <1>2, <2>2, <3>1, <3>2
    <2>6. jar'[r.to][r.host].oauth = v
      BY <1>2, <2>2, <2>4
    <2>7. \A b \in Browsers, h \in Hosts : (b # r.to \/ h # r.host) => jar'[b][h] = half[b][h]
      BY <1>2, <2>2, <2>4
    <2> QED
      BY <2>2, <2>5, <2>6, <2>7, <2>8
  <1>9. PagesTyped'
    <2>1. \A f \in forms' : f.by \in Browsers /\ f.host \in Hosts
      BY <1>2 DEF Deliver, PagesInv, PagesTyped
    <2> QED
      BY <1>1, <1>5, <1>8, <2>1 DEF PagesInv, PagesTyped
  <1>10. CookiesBound'
    <2>1. ASSUME NEW b \in Browsers, NEW h \in Hosts
          PROVE  jar'[b][h].oauth \in {0} \cup Begun /\ CookieOf(jar'[b][h].oauth, b)
      <3>1. jar[b][h].oauth \in {0} \cup Begun /\ CookieOf(jar[b][h].oauth, b)
        BY DEF PagesInv, CookiesBound
      <3>2. CASE b = r.to /\ h = r.host
        BY <3>1, <3>2, <1>2, <1>8
      <3>3. CASE b # r.to \/ h # r.host
        BY <3>1, <3>3, <1>8
      <3> QED
        BY <3>2, <3>3
    <2>2. \A x \in inbox' : x.oauth \in {Keep, 0} \cup Begun /\ CookieOf(x.oauth, x.to)
      BY <1>1 DEF PagesInv, CookiesBound
    <2> QED
      BY <2>1, <2>2, <1>1, <1>5 DEF CookiesBound, CookieOf
  <1>11. SignedOnce'
    <2>1. links \subseteq links'
      BY <1>1
    <2> QED
      BY <1>1, <2>1 DEF PagesInv, SignedOnce, Offered
  <1>12. SessionsOffered' /\ RowsOwned' /\ ShownOwn'
    BY <1>1 DEF PagesInv, SessionsOffered, RowsOwned, ShownOwn, Offered
  <1> QED
    BY <1>9, <1>10, <1>11, <1>12 DEF PagesInv

\* Every step keeps the invariant of the pages.
LEMMA PagesInvNext == PagesInv /\ [PagesNext]_pagesVars => PagesInv'
  <1> SUFFICES ASSUME PagesInv, [PagesNext]_pagesVars PROVE PagesInv'
    OBVIOUS
  <1>1. CASE \E b \in Browsers, path \in Viewing, host \in Hosts, origin \in Origins,
                id \in OwnAccounts \cup ForeignAccounts : ViewPage(b, path, host, origin, id)
    BY <1>1, ViewPageKeeps
  <1>2. CASE \E f \in forms, origin \in Origins, body \in PageBodies, k \in 1 .. MaxStarts :
                \/ Connect(f.by, f, origin, body, k)
                \/ \E id \in DOMAIN accounts : Reconnect(f.by, f, origin, body, id, k)
    BY <1>2, MutationsKeep
  <1>3. CASE \E f \in forms, origin \in Origins, id \in DOMAIN accounts : DisconnectAccount(f.by, f, origin, id)
    BY <1>3, DisconnectKeeps
  <1>4. CASE \E b \in Browsers, k \in links \cap DOMAIN pending, origin \in Origins :
                \/ \E id \in OwnAccounts : CallbackFails(b, k, origin, id)
                \/ \E payload \in Payloads, id \in OwnAccounts, granted \in {{}, pending[k].scopes},
                      cleanup \in BOOLEAN : CallbackCompletes(b, k, origin, payload, id, granted, cleanup)
    BY <1>4, CallbackFailsKeeps, CallbackCompletesKeeps
  <1>5. CASE \E k \in DOMAIN pending : Lapse(k)
    BY <1>5, LapseKeeps
  <1>6. CASE \E r \in inbox : Deliver(r)
    BY <1>6, DeliverKeeps
  <1>7. CASE UNCHANGED pagesVars
    <2>1. \A x, c : CookieOf(x, c)' <=> CookieOf(x, c)
      BY <1>7 DEF pagesVars, CookieOf, Begun
    <2>2. PagesTyped' /\ CookiesBound'
      BY <1>7, <2>1 DEF pagesVars, PagesInv, PagesTyped, CookiesBound, CookieOf, Begun
    <2> QED
      BY <1>7, <2>2 DEF pagesVars, PagesInv, SessionsOffered, SignedOnce, RowsOwned, ShownOwn, Offered
  <1> QED
    BY <1>1, <1>2, <1>3, <1>4, <1>5, <1>6, <1>7 DEF PagesNext

\* The inductive invariant of the pages: the cookie of a state is only in, or on its way
\* to, the browser that began the sign-in, and a state is never used again (handler.go).
THEOREM PagesInductive == PagesSpec => []PagesInv
  BY PagesInvInit, PagesInvNext, PTL DEF PagesSpec

\* A sign-in completes at most once, in the browser whose form started it, with scopes
\* that were offered, for any browsers, tabs, answers and accounts in any order
\* (handler.callback, takeSession, beginMutation).
THEOREM SignInsBound == PagesSpec => []SignInBound
  BY PagesInductive, PagesInvEnough, PTL

-----------------------------------------------------------------------------
(* The keyring store: KeyringKept. *)

\* The store alone, whatever the other parts do.
KeyringSpec == KeyringInit /\ [][KeyringNext]_keyringVars

TokenKeys  == {TokenKey(c, e) : c \in KeyringClients, e \in KeyringEmails}
LegacyKeys == {LegacyKey(e) : e \in KeyringEmails}

\* what a key holds
Item(r, k) == IF k \in DOMAIN r THEN r[k] ELSE Absent

\* No key holds the item that stands for none.
Full(r) == \A k \in DOMAIN r : r[k] # Absent

\* What may be read under the key a token has, and under the one it had.
OwnKept(r, may, c, e) == Item(r, TokenKey(c, e)) \in may[Slot(c, e)] \cup {Corrupt}
OldKept(r, may, e)    == Item(r, LegacyKey(e)) \in may[Slot(DefaultClient, e)] \cup {Corrupt, Absent}

\* Every item there is may be there, whichever write of the two keys failed.
RingKept(r, may) ==
    /\ Full(r) /\ DOMAIN r \subseteq TokenKeys \cup LegacyKeys \cup AccountKeys
    /\ DOMAIN may = TokenKeys \cup AccountKeys
    /\ \A c \in KeyringClients, e \in KeyringEmails : OwnKept(r, may, c, e)
    /\ \A e \in KeyringEmails : OldKept(r, may, e)
    /\ \A k \in AccountKeys : Item(r, k) \in may[k]

KeyringInv == RingKept(ring, possible) /\ AnswersStand /\ OpenedAsAsked

\* Two keys are the same only if they are made of the same.
LEMMA KeysApart ==
  /\ \A c, e, d, f : TokenKey(c, e) = TokenKey(d, f) => c = d /\ e = f
  /\ \A e, f : LegacyKey(e) = LegacyKey(f) => e = f
  /\ \A c, e, f : TokenKey(c, e) # LegacyKey(f)
  /\ \A c, e, d : TokenKey(c, e) # AccountKey(d) /\ LegacyKey(e) # AccountKey(d)
  /\ \A c, e : TokenKey(c, e) # GlobalAccountKey /\ LegacyKey(e) # GlobalAccountKey /\ AccountKey(c) # GlobalAccountKey
  /\ \A c, e : Slot(c, e) = TokenKey(c, e)
  <1>1. \A c, e : Len(TokenKey(c, e)) = 3 /\ TokenKey(c, e)[1] = "token" /\ TokenKey(c, e)[2] = c /\ TokenKey(c, e)[3] = e
    BY DEF TokenKey
  <1>2. \A e : Len(LegacyKey(e)) = 2 /\ LegacyKey(e)[1] = "token" /\ LegacyKey(e)[2] = e
    BY DEF LegacyKey
  <1>3. \A c : Len(AccountKey(c)) = 2 /\ AccountKey(c)[1] = "default_account"
    BY DEF AccountKey
  <1>4. Len(GlobalAccountKey) = 1
    BY DEF GlobalAccountKey
  <1>5. \A c, e : Slot(c, e) = TokenKey(c, e)
    BY DEF Slot, TokenKey
  <1>6. \A c, e, d, f : TokenKey(c, e) = TokenKey(d, f) => c = d /\ e = f
    <2> TAKE c, e, d, f
    <2>1. TokenKey(c, e)[2] = c /\ TokenKey(d, f)[2] = d /\ TokenKey(c, e)[3] = e /\ TokenKey(d, f)[3] = f
      BY <1>1
    <2> QED
      BY <2>1
  <1>7. \A e, f : LegacyKey(e) = LegacyKey(f) => e = f
    <2> TAKE e, f
    <2>1. LegacyKey(e)[2] = e /\ LegacyKey(f)[2] = f
      BY <1>2
    <2> QED
      BY <2>1
  <1>8. \A e, d : LegacyKey(e) # AccountKey(d)
    <2> TAKE e, d
    <2>1. LegacyKey(e)[1] = "token" /\ AccountKey(d)[1] = "default_account"
      BY <1>2, <1>3
    <2> QED
      BY <2>1
  <1>9. \A c, e, f : TokenKey(c, e) # LegacyKey(f) /\ TokenKey(c, e) # AccountKey(f)
    <2> TAKE c, e, f
    <2>1. Len(TokenKey(c, e)) = 3 /\ Len(LegacyKey(f)) = 2 /\ Len(AccountKey(f)) = 2
      BY <1>1, <1>2, <1>3
    <2> QED
      BY <2>1
  <1>10. \A c, e : TokenKey(c, e) # GlobalAccountKey /\ LegacyKey(e) # GlobalAccountKey /\ AccountKey(c) # GlobalAccountKey
    <2> TAKE c, e
    <2>1. Len(TokenKey(c, e)) = 3 /\ Len(LegacyKey(e)) = 2 /\ Len(AccountKey(c)) = 2
      BY <1>1, <1>2, <1>3
    <2> QED
      BY <1>4, <2>1
  <1> QED
    BY <1>5, <1>6, <1>7, <1>8, <1>9, <1>10

\* One write changes its key alone, and to the item written if at all.
LEMMA WriteChanges ==
  ASSUME NEW r, Full(r), NEW k, NEW v, NEW w \in Writes(r, k, v)
  PROVE  /\ Full(w.ring) /\ DOMAIN w.ring \subseteq DOMAIN r \cup {k}
         /\ \A x : x # k => Item(w.ring, x) = Item(r, x)
         /\ Item(w.ring, k) \in {Item(r, k), v}
         /\ w.ok => Item(w.ring, k) = v
  <1> DEFINE after == IF v = Absent THEN DropKey(r, k) ELSE SetKey(r, k, v)
  <1>1. (w.ring = r /\ ~w.ok) \/ w.ring = after
    BY DEF Writes
  <1>2. /\ Full(after) /\ DOMAIN after \subseteq DOMAIN r \cup {k}
        /\ \A x : x # k => Item(after, x) = Item(r, x)
        /\ Item(after, k) = v
    <2>1. CASE v = Absent
      <3>1. after = DropKey(r, k)
        BY <2>1
      <3> HIDE DEF after
      <3>2. DOMAIN after = DOMAIN r \ {k} /\ \A x \in DOMAIN r \ {k} : after[x] = r[x]
        BY <3>1 DEF DropKey
      <3>3. Full(after) /\ DOMAIN after \subseteq DOMAIN r \cup {k}
        BY <3>2 DEF Full
      <3>4. Item(after, k) = v /\ \A x : x # k => Item(after, x) = Item(r, x)
        BY <2>1, <3>2 DEF Item
      <3> QED
        BY <3>3, <3>4
    <2>2. CASE v # Absent
      <3>1. after = SetKey(r, k, v)
        BY <2>2
      <3> HIDE DEF after
      <3>2. DOMAIN after = DOMAIN r \cup {k} /\ after[k] = v /\ \A x \in DOMAIN r \ {k} : after[x] = r[x]
        BY <3>1 DEF SetKey
      <3>3. Full(after) /\ DOMAIN after \subseteq DOMAIN r \cup {k}
        <4>1. \A x \in DOMAIN after : x = k \/ x \in DOMAIN r \ {k}
          BY <3>2
        <4> QED
          BY <2>2, <3>2, <4>1 DEF Full
      <3>4. Item(after, k) = v /\ \A x : x # k => Item(after, x) = Item(r, x)
        BY <2>2, <3>2 DEF Item
      <3> QED
        BY <3>3, <3>4
    <2> QED
      BY <2>1, <2>2
  <1> HIDE DEF after
  <1>3. CASE w.ring = r /\ ~w.ok
    BY <1>3
  <1>4. CASE w.ring = after
    BY <1>2, <1>4
  <1> QED
    BY <1>1, <1>3, <1>4

\* Two writes in a row: each key may or may not have changed, and both have when it is done.
LEMMA BothChange ==
  ASSUME NEW r, Full(r), NEW k1, NEW k2, k1 # k2, NEW v, NEW w \in WritesBoth(r, k1, k2, v)
  PROVE  /\ Full(w.ring) /\ DOMAIN w.ring \subseteq DOMAIN r \cup {k1, k2}
         /\ \A x : x # k1 /\ x # k2 => Item(w.ring, x) = Item(r, x)
         /\ \A x \in {k1, k2} : Item(w.ring, x) \in {Item(r, x), v} /\ (w.ok => Item(w.ring, x) = v)
  <1>1. PICK first \in Writes(r, k1, v) : w \in IF first.ok THEN Writes(first.ring, k2, v) ELSE {first}
    BY DEF WritesBoth
  <1>2. /\ Full(first.ring) /\ DOMAIN first.ring \subseteq DOMAIN r \cup {k1}
        /\ \A x : x # k1 => Item(first.ring, x) = Item(r, x)
        /\ Item(first.ring, k1) \in {Item(r, k1), v}
        /\ first.ok => Item(first.ring, k1) = v
    BY WriteChanges
  <1>3. CASE ~first.ok
    BY <1>1, <1>2, <1>3
  <1>4. CASE first.ok
    <2>1. w \in Writes(first.ring, k2, v)
      BY <1>1, <1>4
    <2>2. /\ Full(w.ring) /\ DOMAIN w.ring \subseteq DOMAIN first.ring \cup {k2}
          /\ \A x : x # k2 => Item(w.ring, x) = Item(first.ring, x)
          /\ Item(w.ring, k2) \in {Item(first.ring, k2), v}
          /\ w.ok => Item(w.ring, k2) = v
      BY <1>2, <2>1, WriteChanges
    <2> QED
      BY <1>2, <1>4, <2>2
  <1> QED
    BY <1>3, <1>4

\* The keys a token's write changes are its own and, for the default client, the old one.
LEMMA TokenWriteChanges ==
  ASSUME NEW r, Full(r), NEW c, NEW e, NEW v, NEW w \in TokenWrites(r, c, e, v)
  PROVE  /\ Full(w.ring) /\ DOMAIN w.ring \subseteq DOMAIN r \cup {TokenKey(c, e), LegacyKey(e)}
         /\ \A x : x # TokenKey(c, e) /\ (c = DefaultClient => x # LegacyKey(e)) => Item(w.ring, x) = Item(r, x)
         /\ Item(w.ring, TokenKey(c, e)) \in {Item(r, TokenKey(c, e)), v}
         /\ w.ok => Item(w.ring, TokenKey(c, e)) = v
         /\ c = DefaultClient => /\ Item(w.ring, LegacyKey(e)) \in {Item(r, LegacyKey(e)), v}
                                 /\ w.ok => Item(w.ring, LegacyKey(e)) = v
  <1> DEFINE own == TokenKey(c, e)
             old == LegacyKey(e)
  <1>1. own # old
    BY KeysApart
  <1>2. w \in IF c = DefaultClient THEN WritesBoth(r, own, old, v) ELSE Writes(r, own, v)
    BY DEF TokenWrites
  <1> HIDE DEF own, old
  <1>3. CASE c = DefaultClient
    <2>1. /\ Full(w.ring) /\ DOMAIN w.ring \subseteq DOMAIN r \cup {own, old}
          /\ \A x : x # own /\ x # old => Item(w.ring, x) = Item(r, x)
          /\ \A x \in {own, old} : Item(w.ring, x) \in {Item(r, x), v} /\ (w.ok => Item(w.ring, x) = v)
      BY <1>1, <1>2, <1>3, BothChange
    <2> QED
      BY <1>3, <2>1 DEF own, old
  <1>4. CASE c # DefaultClient
    <2>1. /\ Full(w.ring) /\ DOMAIN w.ring \subseteq DOMAIN r \cup {own}
          /\ \A x : x # own => Item(w.ring, x) = Item(r, x)
          /\ Item(w.ring, own) \in {Item(r, own), v}
          /\ w.ok => Item(w.ring, own) = v
      BY <1>2, <1>4, WriteChanges
    <2> QED
      BY <1>4, <2>1 DEF own, old
  <1> QED
    BY <1>3, <1>4

\* What is known of each token after a write or a delete of one (SetToken, DeleteToken).
LEMMA TokenWriteKeeps ==
  ASSUME RingKept(ring, possible), NEW c \in KeyringClients, NEW e \in KeyringEmails, NEW v,
         NEW w \in TokenWrites(ring, c, e, v), Wrote({Slot(c, e)}, w, v)
  PROVE  RingKept(ring', possible')
  <1> DEFINE own == TokenKey(c, e)
             old == LegacyKey(e)
  <1>1. /\ Full(ring') /\ DOMAIN ring' \subseteq DOMAIN ring \cup {own, old}
        /\ \A x : x # own /\ (c = DefaultClient => x # old) => Item(ring', x) = Item(ring, x)
        /\ Item(ring', own) \in {Item(ring, own), v}
        /\ w.ok => Item(ring', own) = v
        /\ c = DefaultClient => /\ Item(ring', old) \in {Item(ring, old), v}
                                /\ w.ok => Item(ring', old) = v
    <2>1. ring' = w.ring /\ Full(ring)
      BY DEF Wrote, RingKept
    <2> QED
      BY <2>1, TokenWriteChanges
  <1>2. /\ DOMAIN possible' = DOMAIN possible /\ own \in DOMAIN possible
        /\ possible'[own] = IF w.ok THEN {v} ELSE possible[own] \cup {v}
        /\ \A s \in DOMAIN possible : s # own => possible'[s] = possible[s]
    BY KeysApart DEF Wrote, RingKept, TokenKeys
  <1>3. DOMAIN ring' \subseteq TokenKeys \cup LegacyKeys \cup AccountKeys
    BY <1>1 DEF RingKept, TokenKeys, LegacyKeys
  <1>4. ASSUME NEW d \in KeyringClients, NEW f \in KeyringEmails PROVE OwnKept(ring', possible', d, f)
    <2>1. OwnKept(ring, possible, d, f) /\ TokenKey(d, f) \in DOMAIN possible /\ Slot(d, f) = TokenKey(d, f)
      BY KeysApart DEF RingKept, TokenKeys
    <2>2. CASE TokenKey(d, f) = own
      BY <1>1, <1>2, <2>1, <2>2 DEF OwnKept
    <2>3. CASE TokenKey(d, f) # own
      <3>1. TokenKey(d, f) # old
        BY KeysApart
      <3>2. Item(ring', TokenKey(d, f)) = Item(ring, TokenKey(d, f))
        BY <1>1, <2>3, <3>1
      <3> QED
        BY <1>2, <2>1, <2>3, <3>2 DEF OwnKept
    <2> QED
      BY <2>2, <2>3
  <1>5. ASSUME NEW f \in KeyringEmails PROVE OldKept(ring', possible', f)
    <2> DEFINE slot == TokenKey(DefaultClient, f)
    <2>1. OldKept(ring, possible, f) /\ slot \in DOMAIN possible /\ Slot(DefaultClient, f) = slot
      BY KeysApart, DefaultClientAssumption DEF RingKept, TokenKeys
    <2>2. CASE slot = own
      <3>1. c = DefaultClient /\ LegacyKey(f) = old
        BY <2>2, KeysApart
      <3> HIDE DEF slot, own, old
      <3> QED
        BY <1>1, <1>2, <2>1, <2>2, <3>1 DEF OldKept
    <2>3. CASE slot # own
      <3>1. LegacyKey(f) # own /\ (c = DefaultClient => LegacyKey(f) # old)
        BY <2>3, KeysApart
      <3>2. Item(ring', LegacyKey(f)) = Item(ring, LegacyKey(f))
        BY <1>1, <3>1
      <3> HIDE DEF slot, own, old
      <3> QED
        BY <1>2, <2>1, <2>3, <3>2 DEF OldKept
    <2> QED
      BY <2>2, <2>3
  <1>6. ASSUME NEW k \in AccountKeys PROVE Item(ring', k) \in possible'[k]
    <2>1. k # own /\ k # old
      BY KeysApart DEF AccountKeys
    <2>2. Item(ring, k) \in possible[k] /\ k \in DOMAIN possible
      BY DEF RingKept
    <2> QED
      BY <1>1, <1>2, <2>1, <2>2
  <1> QED
    BY <1>1, <1>2, <1>3, <1>4, <1>5, <1>6 DEF RingKept

\* The same after a write of a default account (SetDefaultAccount).
LEMMA AccountWriteKeeps ==
  ASSUME RingKept(ring, possible), NEW c \in KeyringClients, NEW v,
         NEW w \in WritesBoth(ring, AccountKey(c), GlobalAccountKey, v),
         Wrote({AccountKey(c), GlobalAccountKey}, w, v)
  PROVE  RingKept(ring', possible')
  <1> DEFINE k1 == AccountKey(c)
             k2 == GlobalAccountKey
  <1>1. k1 # k2 /\ k1 \in AccountKeys /\ k2 \in AccountKeys
    BY KeysApart DEF AccountKeys
  <1>2. w \in WritesBoth(ring, k1, k2, v) /\ ring' = w.ring /\ Full(ring)
    BY DEF Wrote, RingKept
  <1>3. /\ DOMAIN possible' = DOMAIN possible
        /\ \A s \in DOMAIN possible :
              possible'[s] = IF s \notin {k1, k2} THEN possible[s] ELSE IF w.ok THEN {v} ELSE possible[s] \cup {v}
    BY DEF Wrote
  <1>4. \A d, f : TokenKey(d, f) \notin {k1, k2} /\ LegacyKey(f) \notin {k1, k2}
    BY KeysApart
  <1> HIDE DEF k1, k2
  <1>5. /\ Full(ring') /\ DOMAIN ring' \subseteq DOMAIN ring \cup {k1, k2}
        /\ \A x : x # k1 /\ x # k2 => Item(ring', x) = Item(ring, x)
        /\ \A x \in {k1, k2} : Item(ring', x) \in {Item(ring, x), v} /\ (w.ok => Item(ring', x) = v)
    BY <1>1, <1>2, BothChange
  <1>6. DOMAIN ring' \subseteq TokenKeys \cup LegacyKeys \cup AccountKeys
    BY <1>1, <1>5 DEF RingKept
  <1>7. ASSUME NEW d \in KeyringClients, NEW f \in KeyringEmails PROVE OwnKept(ring', possible', d, f)
    <2>1. OwnKept(ring, possible, d, f) /\ TokenKey(d, f) \in DOMAIN possible /\ Slot(d, f) = TokenKey(d, f)
      BY KeysApart DEF RingKept, TokenKeys
    <2> QED
      BY <1>3, <1>4, <1>5, <2>1 DEF OwnKept
  <1>8. ASSUME NEW f \in KeyringEmails PROVE OldKept(ring', possible', f)
    <2>1. OldKept(ring, possible, f) /\ TokenKey(DefaultClient, f) \in DOMAIN possible
          /\ Slot(DefaultClient, f) = TokenKey(DefaultClient, f)
      BY KeysApart, DefaultClientAssumption DEF RingKept, TokenKeys
    <2> QED
      BY <1>3, <1>4, <1>5, <2>1 DEF OldKept
  <1>9. ASSUME NEW k \in AccountKeys PROVE Item(ring', k) \in possible'[k]
    <2>1. Item(ring, k) \in possible[k] /\ k \in DOMAIN possible
      BY DEF RingKept
    <2>2. CASE k \in {k1, k2}
      BY <1>3, <1>5, <2>1, <2>2
    <2>3. CASE k \notin {k1, k2}
      BY <1>3, <1>5, <2>1, <2>3
    <2> QED
      BY <2>2, <2>3
  <1> QED
    BY <1>3, <1>5, <1>6, <1>7, <1>8, <1>9 DEF RingKept

\* Reading copies at most: the own keys of tokens may change, to items that may be there.
LEMMA CopiesKeep ==
  ASSUME NEW r, NEW s, NEW may, RingKept(r, may), Full(s), DOMAIN s \subseteq DOMAIN r \cup TokenKeys,
         \A k : k \notin TokenKeys => Item(s, k) = Item(r, k),
         \A c \in KeyringClients, e \in KeyringEmails : OwnKept(s, may, c, e)
  PROVE  RingKept(s, may)
  <1>1. DOMAIN s \subseteq TokenKeys \cup LegacyKeys \cup AccountKeys /\ DOMAIN may = TokenKeys \cup AccountKeys
    BY DEF RingKept
  <1>2. ASSUME NEW e \in KeyringEmails PROVE OldKept(s, may, e)
    <2>1. LegacyKey(e) \notin TokenKeys
      BY KeysApart DEF TokenKeys
    <2>2. Item(s, LegacyKey(e)) = Item(r, LegacyKey(e)) /\ OldKept(r, may, e)
      BY <2>1 DEF RingKept
    <2> QED
      BY <2>2 DEF OldKept
  <1>3. ASSUME NEW k \in AccountKeys PROVE Item(s, k) \in may[k]
    <2>1. k \notin TokenKeys
      BY KeysApart DEF TokenKeys, AccountKeys
    <2> QED
      BY <2>1 DEF RingKept
  <1> QED
    BY <1>1, <1>2, <1>3 DEF RingKept

\* What a token's read answers may be there, and so may what it leaves under the own key
\* (GetToken, from either key).
LEMMA ReadStands ==
  ASSUME NEW r, NEW may, RingKept(r, may), NEW c \in KeyringClients, NEW e \in KeyringEmails,
         NEW migrates \in BOOLEAN, NEW x \in TokenReads(r, c, e, migrates)
  PROVE  /\ x.kind = "found" => x.item \in may[Slot(c, e)]
         /\ x.kind = "none" => Absent \in may[Slot(c, e)]
         /\ Full(x.ring) /\ DOMAIN x.ring \subseteq DOMAIN r \cup {TokenKey(c, e)}
         /\ \A k : k # TokenKey(c, e) => Item(x.ring, k) = Item(r, k)
         /\ OwnKept(x.ring, may, c, e)
         /\ ~migrates => x.ring = r
         /\ migrates /\ x.kind = "found" => TokenKey(c, e) \in DOMAIN x.ring
  <1> DEFINE own == TokenKey(c, e)
             old == LegacyKey(e)
             slot == Slot(c, e)
  <1>1. Full(r) /\ OwnKept(r, may, c, e) /\ OldKept(r, may, e)
    BY DEF RingKept
  <1>2. Item(r, own) \in may[slot] \cup {Corrupt}
    BY <1>1 DEF OwnKept
  <1>3. c = DefaultClient => Item(r, old) \in may[slot] \cup {Corrupt, Absent}
    BY <1>1 DEF OldKept
  <1>4. OwnKept(x.ring, may, c, e) <=> Item(x.ring, own) \in may[slot] \cup {Corrupt}
    BY DEF OwnKept
  <1>5. Corrupt # Absent
    BY DefaultClientAssumption
  <1>6. \A item, q : item = Corrupt \/ Decoded(item, q) = Read("found", item, q)
    BY DEF Decoded
  <1>7. \A q : Decoded(Corrupt, q) = Read("error", Absent, q)
    BY DEF Decoded
  <1>8. \A kind, item, q : Read(kind, item, q).kind = kind /\ Read(kind, item, q).item = item /\ Read(kind, item, q).ring = q
    BY DEF Read
  <1>9. \/ own \in DOMAIN r /\ x = Decoded(r[own], r)
        \/ x = Read("error", Absent, r)
        \/ own \notin DOMAIN r /\ x = Read("none", Absent, r)
        \/ c = DefaultClient /\ old \in DOMAIN r /\ ~migrates /\ x = Decoded(r[old], r)
        \/ c = DefaultClient /\ old \in DOMAIN r /\ migrates
           /\ \E w \in Writes(r, own, r[old]) : x = IF w.ok THEN Decoded(r[old], w.ring) ELSE Read("error", Absent, w.ring)
    BY DEF TokenReads
  <1> HIDE DEF own, old, slot
  <1>10. CASE own \in DOMAIN r /\ x = Decoded(r[own], r)
    <2>1. r[own] = Item(r, own)
      BY <1>10 DEF Item
    <2>2. CASE r[own] = Corrupt
      BY <1>1, <1>2, <1>4, <1>7, <1>8, <1>10, <2>2 DEF own
    <2>3. CASE r[own] # Corrupt
      <3>1. x.kind = "found" /\ x.item = r[own] /\ x.ring = r
        BY <1>6, <1>8, <1>10, <2>3
      <3> QED
        BY <1>1, <1>2, <1>4, <1>10, <2>1, <2>3, <3>1 DEF own, slot
    <2> QED
      BY <2>2, <2>3
  <1>11. CASE x = Read("error", Absent, r)
    <2>1. x.kind = "error" /\ x.ring = r
      BY <1>8, <1>11
    <2> QED
      BY <1>1, <1>2, <1>4, <2>1 DEF own
  <1>12. CASE own \notin DOMAIN r /\ x = Read("none", Absent, r)
    <2>1. x.kind = "none" /\ x.ring = r
      BY <1>8, <1>12
    <2>2. Item(r, own) = Absent
      BY <1>12 DEF Item
    <2> QED
      BY <1>1, <1>2, <1>4, <1>5, <2>1, <2>2 DEF own, slot
  <1>13. CASE c = DefaultClient /\ old \in DOMAIN r /\ ~migrates /\ x = Decoded(r[old], r)
    <2>1. r[old] = Item(r, old) /\ r[old] # Absent
      BY <1>1, <1>13 DEF Item, Full
    <2>2. CASE r[old] = Corrupt
      <3>1. x.kind = "error" /\ x.ring = r
        BY <1>7, <1>8, <1>13, <2>2
      <3> QED
        BY <1>1, <1>2, <1>4, <3>1 DEF own
    <2>3. CASE r[old] # Corrupt
      <3>1. x.kind = "found" /\ x.item = r[old] /\ x.ring = r
        BY <1>6, <1>8, <1>13, <2>3
      <3> QED
        BY <1>1, <1>2, <1>3, <1>4, <1>13, <2>1, <2>3, <3>1 DEF own, slot
    <2> QED
      BY <2>2, <2>3
  <1>14. CASE /\ c = DefaultClient /\ old \in DOMAIN r /\ migrates
              /\ \E w \in Writes(r, own, r[old]) :
                    x = IF w.ok THEN Decoded(r[old], w.ring) ELSE Read("error", Absent, w.ring)
    <2>1. PICK w \in Writes(r, own, r[old]) :
                 x = IF w.ok THEN Decoded(r[old], w.ring) ELSE Read("error", Absent, w.ring)
      BY <1>14
    <2>2. r[old] = Item(r, old) /\ r[old] # Absent
      BY <1>1, <1>14 DEF Item, Full
    <2>3. /\ Full(w.ring) /\ DOMAIN w.ring \subseteq DOMAIN r \cup {own}
          /\ \A k : k # own => Item(w.ring, k) = Item(r, k)
          /\ Item(w.ring, own) \in {Item(r, own), r[old]}
          /\ w.ok => Item(w.ring, own) = r[old]
      BY <1>1, WriteChanges
    <2>4. r[old] \in may[slot] \cup {Corrupt}
      BY <1>3, <1>14, <2>2
    <2>5. x.ring = w.ring /\ (x.kind = "error" \/ (w.ok /\ r[old] # Corrupt /\ x.kind = "found" /\ x.item = r[old]))
      BY <1>6, <1>7, <1>8, <2>1
    <2>6. w.ok => own \in DOMAIN w.ring
      BY <2>2, <2>3 DEF Item
    <2>7. Item(x.ring, own) \in may[slot] \cup {Corrupt}
      BY <1>2, <2>3, <2>4, <2>5
    <2> QED
      BY <1>4, <1>14, <2>3, <2>4, <2>5, <2>6, <2>7 DEF own, slot
  <1> QED
    BY <1>9, <1>10, <1>11, <1>12, <1>13, <1>14

\* The entries that are listed are of the clients and addresses there are.
LEMMA ListedOwn ==
  ASSUME NEW r, DOMAIN r \subseteq TokenKeys \cup LegacyKeys \cup AccountKeys, NEW id \in Listed(r)
  PROVE  \E c \in KeyringClients, e \in KeyringEmails : id = <<c, e>>
  <1>1. PICK k \in DOMAIN r : k[1] = "token" /\ id = IF Len(k) = 3 THEN <<k[2], k[3]>> ELSE <<DefaultClient, k[2]>>
    BY DEF Listed, IsTokenKey, Parsed
  <1>2. CASE k \in TokenKeys
    <2>1. PICK c \in KeyringClients, e \in KeyringEmails : k = TokenKey(c, e)
      BY <1>2 DEF TokenKeys
    <2>2. Len(k) = 3 /\ k[2] = c /\ k[3] = e
      BY <2>1 DEF TokenKey
    <2> QED
      BY <1>1, <2>2
  <1>3. CASE k \in LegacyKeys
    <2>1. PICK e \in KeyringEmails : k = LegacyKey(e)
      BY <1>3 DEF LegacyKeys
    <2>2. Len(k) = 2 /\ k[2] = e
      BY <2>1 DEF LegacyKey
    <2> QED
      BY <1>1, <2>2, DefaultClientAssumption
  <1>4. CASE k \in AccountKeys
    <2>1. k[1] = "default_account"
      BY <1>4 DEF AccountKeys, AccountKey, GlobalAccountKey
    <2> QED
      BY <1>1, <2>1
  <1> QED
    BY <1>1, <1>2, <1>3, <1>4

\* GetToken answers what may be there and leaves what may be there.
LEMMA GetTokenKeeps ==
  ASSUME RingKept(ring, possible), NEW c \in KeyringClients, NEW e \in KeyringEmails, GetToken(c, e)
  PROVE  RingKept(ring', possible') /\ AnswersStand'
  <1>1. PICK x \in TokenReads(ring, c, e, TRUE) : ring' = x.ring /\ answers' = {Answer(Slot(c, e), x)}
    BY DEF GetToken
  <1>2. possible' = possible
    BY DEF GetToken
  <1>3. /\ x.kind = "found" => x.item \in possible[Slot(c, e)]
        /\ x.kind = "none" => Absent \in possible[Slot(c, e)]
        /\ Full(x.ring) /\ DOMAIN x.ring \subseteq DOMAIN ring \cup {TokenKey(c, e)}
        /\ \A k : k # TokenKey(c, e) => Item(x.ring, k) = Item(ring, k)
        /\ OwnKept(x.ring, possible, c, e)
    <2> DEFINE m == TRUE
    <2>1. m \in BOOLEAN /\ x \in TokenReads(ring, c, e, m)
      OBVIOUS
    <2> HIDE DEF m
    <2> QED
      BY <2>1, ReadStands
  <1>4. AnswersStand'
    <2> DEFINE a == Answer(Slot(c, e), x)
    <2>1. a.slot = Slot(c, e) /\ a.kind = x.kind /\ a.item = x.item
      BY DEF Answer
    <2>2. answers' = {a}
      BY <1>1
    <2> HIDE DEF a
    <2> QED
      BY <1>2, <1>3, <2>1, <2>2 DEF AnswersStand
  <1>5. ASSUME NEW d \in KeyringClients, NEW f \in KeyringEmails PROVE OwnKept(x.ring, possible, d, f)
    <2>1. CASE TokenKey(d, f) = TokenKey(c, e)
      <3>1. d = c /\ f = e
        BY <2>1, KeysApart
      <3> QED
        BY <1>3, <3>1
    <2>2. CASE TokenKey(d, f) # TokenKey(c, e)
      <3>1. OwnKept(ring, possible, d, f)
        BY DEF RingKept
      <3> QED
        BY <1>3, <2>2, <3>1 DEF OwnKept
    <2> QED
      BY <2>1, <2>2
  <1>6. TokenKey(c, e) \in TokenKeys
    BY DEF TokenKeys
  <1>7. DOMAIN x.ring \subseteq DOMAIN ring \cup TokenKeys /\ \A k : k \notin TokenKeys => Item(x.ring, k) = Item(ring, k)
    BY <1>3, <1>6
  <1>8. RingKept(x.ring, possible)
    BY <1>3, <1>5, <1>7, CopiesKeep
  <1> QED
    BY <1>1, <1>2, <1>4, <1>8

\* ListTokens copies as it goes and keeps each item within what its slot may hold.
LEMMA ListTokensKeeps ==
  ASSUME RingKept(ring, possible), ListTokens
  PROVE  RingKept(ring', possible') /\ AnswersStand'
  <1>0. PICK done \in SUBSET Listed(ring) :
          \E reads \in [done -> UNION {TokenReads(ring, id[1], id[2], TRUE) : id \in done}] :
             /\ \A id \in done : reads[id] \in TokenReads(ring, id[1], id[2], TRUE) /\ reads[id].kind = "found"
             /\ ring' = [k \in (UNION {DOMAIN reads[id].ring : id \in done}) \cup DOMAIN ring |->
                           IF \E id \in done : k = TokenKey(id[1], id[2])
                           THEN LET id == CHOOSE id \in done : k = TokenKey(id[1], id[2])
                                IN  reads[id].ring[k]
                           ELSE ring[k]]
             /\ answers' = IF done = Listed(ring)
                           THEN {Answer(Slot(id[1], id[2]), reads[id]) : id \in done} ELSE {}
    BY DEF ListTokens
  <1>1. PICK reads \in [done -> UNION {TokenReads(ring, id[1], id[2], TRUE) : id \in done}] :
          /\ \A id \in done : reads[id] \in TokenReads(ring, id[1], id[2], TRUE) /\ reads[id].kind = "found"
          /\ ring' = [k \in (UNION {DOMAIN reads[id].ring : id \in done}) \cup DOMAIN ring |->
                        IF \E id \in done : k = TokenKey(id[1], id[2])
                        THEN LET id == CHOOSE id \in done : k = TokenKey(id[1], id[2])
                             IN  reads[id].ring[k]
                        ELSE ring[k]]
          /\ answers' = IF done = Listed(ring)
                        THEN {Answer(Slot(id[1], id[2]), reads[id]) : id \in done} ELSE {}
    BY <1>0
  <1>2. possible' = possible
    BY DEF ListTokens
  <1>3. \A id \in done : id[1] \in KeyringClients /\ id[2] \in KeyringEmails /\ id = <<id[1], id[2]>>
    <2> TAKE id \in done
    <2>1. DOMAIN ring \subseteq TokenKeys \cup LegacyKeys \cup AccountKeys /\ id \in Listed(ring)
      BY DEF RingKept
    <2>2. PICK c \in KeyringClients, e \in KeyringEmails : id = <<c, e>>
      BY <2>1, ListedOwn
    <2> QED
      BY <2>2
  <1>4. ASSUME NEW id \in done
        PROVE  /\ reads[id].item \in possible[Slot(id[1], id[2])]
               /\ Full(reads[id].ring) /\ DOMAIN reads[id].ring \subseteq DOMAIN ring \cup {TokenKey(id[1], id[2])}
               /\ OwnKept(reads[id].ring, possible, id[1], id[2])
               /\ TokenKey(id[1], id[2]) \in DOMAIN reads[id].ring
    <2> DEFINE x == reads[id]
               c == id[1]
               e == id[2]
    <2>1. c \in KeyringClients /\ e \in KeyringEmails /\ x \in TokenReads(ring, c, e, TRUE) /\ x.kind = "found" /\ TRUE \in BOOLEAN
      BY <1>1, <1>3
    <2> HIDE DEF x, c, e
    <2>2. /\ x.item \in possible[Slot(c, e)]
          /\ Full(x.ring) /\ DOMAIN x.ring \subseteq DOMAIN ring \cup {TokenKey(c, e)}
          /\ OwnKept(x.ring, possible, c, e)
          /\ TokenKey(c, e) \in DOMAIN x.ring
      BY <2>1, ReadStands
    <2> QED
      BY <2>2 DEF x, c, e
  <1>5. AnswersStand'
    <2> SUFFICES ASSUME NEW a \in answers' PROVE a.kind = "found" /\ a.item \in possible[a.slot]
      BY <1>2 DEF AnswersStand
    <2>1. PICK id \in done : a = Answer(Slot(id[1], id[2]), reads[id])
      BY <1>1
    <2>2. a.slot = Slot(id[1], id[2]) /\ a.kind = reads[id].kind /\ a.item = reads[id].item
      BY <2>1 DEF Answer
    <2> QED
      BY <1>1, <1>4, <2>2
  <1> DEFINE keys == (UNION {DOMAIN reads[id].ring : id \in done}) \cup DOMAIN ring
  <1>6. \A id, od \in done : TokenKey(id[1], id[2]) = TokenKey(od[1], od[2]) => id = od
    BY <1>3, KeysApart
  <1>7. DOMAIN ring' = keys
    BY <1>1
  <1>8. ASSUME NEW id \in done
        PROVE  TokenKey(id[1], id[2]) \in keys
               /\ ring'[TokenKey(id[1], id[2])] = reads[id].ring[TokenKey(id[1], id[2])]
    <2> DEFINE k == TokenKey(id[1], id[2])
    <2>1. k \in keys
      BY <1>4
    <2>2. (CHOOSE od \in done : k = TokenKey(od[1], od[2])) = id
      BY <1>6
    <2> QED
      BY <1>1, <2>1, <2>2
  <1>9. ASSUME NEW k \in keys, \A id \in done : k # TokenKey(id[1], id[2])
        PROVE  k \in DOMAIN ring /\ ring'[k] = ring[k]
    <2>1. k \in DOMAIN ring
      BY <1>4, <1>9
    <2> QED
      BY <1>1, <1>9, <2>1
  <1> HIDE DEF keys
  <1>10. Full(ring')
    <2> SUFFICES ASSUME NEW k \in keys PROVE ring'[k] # Absent
      BY <1>7 DEF Full
    <2>1. CASE \E id \in done : k = TokenKey(id[1], id[2])
      BY <1>4, <1>8, <2>1 DEF Full
    <2>2. CASE \A id \in done : k # TokenKey(id[1], id[2])
      <3>1. k \in DOMAIN ring /\ ring'[k] = ring[k]
        BY <1>9, <2>2
      <3> QED
        BY <3>1 DEF RingKept, Full
    <2> QED
      BY <2>1, <2>2
  <1>11. \A id \in done : TokenKey(id[1], id[2]) \in TokenKeys
    BY <1>3 DEF TokenKeys
  <1>12. DOMAIN ring \subseteq keys /\ keys \subseteq DOMAIN ring \cup TokenKeys
    BY <1>4, <1>11 DEF keys
  <1>13. ASSUME NEW k, \A id \in done : k # TokenKey(id[1], id[2]) PROVE Item(ring', k) = Item(ring, k)
    <2>1. CASE k \in keys
      <3>1. k \in DOMAIN ring /\ ring'[k] = ring[k]
        BY <1>9, <1>13, <2>1
      <3> QED
        BY <1>7, <2>1, <3>1 DEF Item
    <2>2. CASE k \notin keys
      BY <1>7, <1>12, <2>2 DEF Item
    <2> QED
      BY <2>1, <2>2
  <1>14. ASSUME NEW c \in KeyringClients, NEW e \in KeyringEmails PROVE OwnKept(ring', possible, c, e)
    <2>1. CASE <<c, e>> \in done
      <3> DEFINE id == <<c, e>>
      <3>1. id \in done /\ id[1] = c /\ id[2] = e
        BY <2>1
      <3> HIDE DEF id
      <3>2. TokenKey(c, e) \in keys /\ ring'[TokenKey(c, e)] = reads[id].ring[TokenKey(c, e)]
            /\ TokenKey(c, e) \in DOMAIN reads[id].ring /\ OwnKept(reads[id].ring, possible, c, e)
        BY <1>4, <1>8, <3>1
      <3> QED
        BY <1>7, <3>2 DEF OwnKept, Item
    <2>2. CASE <<c, e>> \notin done
      <3>1. \A id \in done : TokenKey(c, e) # TokenKey(id[1], id[2])
        BY <1>3, <2>2, KeysApart
      <3>2. Item(ring', TokenKey(c, e)) = Item(ring, TokenKey(c, e)) /\ OwnKept(ring, possible, c, e)
        BY <1>13, <3>1 DEF RingKept
      <3> QED
        BY <3>2 DEF OwnKept
    <2> QED
      BY <2>1, <2>2
  <1>15. \A k : k \notin TokenKeys => Item(ring', k) = Item(ring, k)
    BY <1>11, <1>13
  <1>16. RingKept(ring', possible)
    BY <1>7, <1>10, <1>12, <1>14, <1>15, CopiesKeep
  <1> QED
    BY <1>2, <1>5, <1>16

\* InspectTokens copies nothing and answers what may be there.
LEMMA InspectTokensKeeps ==
  ASSUME RingKept(ring, possible), InspectTokens
  PROVE  RingKept(ring', possible') /\ AnswersStand'
  <1>1. PICK reads \in [Listed(ring) -> UNION {TokenReads(ring, id[1], id[2], FALSE) : id \in Listed(ring)}] :
          /\ \A id \in Listed(ring) : reads[id] \in TokenReads(ring, id[1], id[2], FALSE)
          /\ answers' = {Answer(Slot(id[1], id[2]), reads[id]) : id \in Listed(ring)}
    BY DEF InspectTokens
  <1>2. ring' = ring /\ possible' = possible
    BY DEF InspectTokens
  <1>3. ASSUME NEW a \in answers'
        PROVE  (a.kind = "found" => a.item \in possible[a.slot]) /\ (a.kind = "none" => Absent \in possible[a.slot])
    <2>1. PICK id \in Listed(ring) : a = Answer(Slot(id[1], id[2]), reads[id])
      BY <1>1
    <2>2. a.slot = Slot(id[1], id[2]) /\ a.kind = reads[id].kind /\ a.item = reads[id].item
      BY <2>1 DEF Answer
    <2>3. DOMAIN ring \subseteq TokenKeys \cup LegacyKeys \cup AccountKeys
      BY DEF RingKept
    <2>4. PICK c \in KeyringClients, e \in KeyringEmails : id = <<c, e>>
      BY <2>3, ListedOwn
    <2> DEFINE m == FALSE
               x == reads[id]
    <2>5. id[1] = c /\ id[2] = e /\ x \in TokenReads(ring, c, e, m) /\ m \in BOOLEAN
      BY <1>1, <2>4
    <2> HIDE DEF m, x
    <2>6. /\ x.kind = "found" => x.item \in possible[Slot(c, e)]
          /\ x.kind = "none" => Absent \in possible[Slot(c, e)]
      BY <2>5, ReadStands
    <2> QED
      BY <2>2, <2>5, <2>6 DEF x
  <1> QED
    BY <1>2, <1>3 DEF AnswersStand

\* GetDefaultAccount answers what one of its two keys may hold.
LEMMA GetDefaultAccountKeeps ==
  ASSUME RingKept(ring, possible), NEW c \in KeyringClients, GetDefaultAccount(c)
  PROVE  RingKept(ring', possible') /\ AnswersStand'
  <1> DEFINE k == IF AccountKey(c) \in DOMAIN ring THEN AccountKey(c) ELSE GlobalAccountKey
  <1>1. k \in AccountKeys
    BY DEF AccountKeys
  <1>2. Item(ring, k) \in possible[k] /\ Full(ring)
    BY <1>1 DEF RingKept
  <1>3. ring' = ring /\ possible' = possible
    BY DEF GetDefaultAccount
  <1>4. answers' = {[slot |-> k, kind |-> IF k \in DOMAIN ring THEN "found" ELSE "none",
                     item |-> IF k \in DOMAIN ring THEN ring[k] ELSE Absent]}
    BY DEF GetDefaultAccount
  <1>5. AnswersStand'
    <2> HIDE DEF k
    <2> DEFINE a == [slot |-> k, kind |-> IF k \in DOMAIN ring THEN "found" ELSE "none",
                     item |-> IF k \in DOMAIN ring THEN ring[k] ELSE Absent]
    <2>1. a.slot = k /\ a.kind = (IF k \in DOMAIN ring THEN "found" ELSE "none")
      OBVIOUS
    <2>2. a.item = IF k \in DOMAIN ring THEN ring[k] ELSE Absent
      OBVIOUS
    <2>3. answers' = {a}
      BY <1>4
    <2> HIDE DEF a
    <2>4. CASE k \in DOMAIN ring
      BY <1>2, <1>3, <2>1, <2>2, <2>3, <2>4 DEF AnswersStand, Item
    <2>5. CASE k \notin DOMAIN ring
      BY <1>2, <1>3, <2>1, <2>2, <2>3, <2>5 DEF AnswersStand, Item
    <2> QED
      BY <2>4, <2>5
  <1> QED
    BY <1>3, <1>5

\* An opening that is accepted is as its mode asks (openKeyringAt).
LEMMA OpensAsAsked ==
  ASSUME NEW mode \in Modes, NEW env \in Environments, OpenStore(mode, env)
  PROVE  OpenedAsAsked'
  <1> DEFINE o == OpenKeyring(mode, env)
             readOnly == mode = "inspect"
             allowed == IF readOnly /\ ~env.directory THEN WithoutFile(AllowedBackends(env)) ELSE AllowedBackends(env)
             refused == \/ BackendName(env) \notin {"auto", "keychain", "file"}
                        \/ readOnly /\ ~env.directory /\ allowed = {}
                        \/ mode = "noInput" /\ (BackendName(env) = "file" \/ ForcesFile(env)) /\ env.password # "set"
             timed == mode = "unattended" \/ (env.linux /\ BackendName(env) = "auto" /\ env.dbus)
             found == env.directory \/ ~readOnly
  <1>1. opening' = o
    BY DEF OpenStore
  <1>2. o = IF refused THEN [Closed EXCEPT !.mode = mode]
            ELSE Opened(mode, TRUE, allowed, Prompt(mode, env), timed, found)
    BY DEF OpenKeyring
  <1>3. readOnly /\ ~env.directory => "file" \notin allowed
    BY DEF WithoutFile
  <1>4. mode = "unattended" => Prompt(mode, env) # "terminal"
    BY DEF Prompt
  <1>5. mode = "noInput" /\ env.password = "set" => Prompt(mode, env) = "fixed"
    BY DEF Prompt
  <1>6. allowed = {"file"} => BackendName(env) = "file" \/ ForcesFile(env) \/ readOnly
    BY DEF AllowedBackends
  <1>7. CASE refused
    <2> HIDE DEF refused
    <2>1. o = [Closed EXCEPT !.mode = mode]
      BY <1>2, <1>7
    <2>2. ~o.ok
      BY <2>1 DEF Closed, Opened
    <2> QED
      BY <1>1, <2>2 DEF OpenedAsAsked
  <1>8. CASE ~refused
    <2>1. readOnly /\ ~env.directory => allowed # {}
      BY <1>8
    <2>2. mode = "noInput" /\ allowed = {"file"} => env.password = "set"
      BY <1>6, <1>8
    <2>3. o = Opened(mode, TRUE, allowed, Prompt(mode, env), timed, found)
      BY <1>2, <1>8
    <2>4. mode = "unattended" => timed
      OBVIOUS
    <2>5. ~found => ~env.directory /\ readOnly
      OBVIOUS
    <2> DEFINE prompt == Prompt(mode, env)
    <2> HIDE DEF o, allowed, timed, found, prompt
    <2>6. o = Opened(mode, TRUE, allowed, prompt, timed, found)
      BY <2>3 DEF prompt
    <2>7. o.mode = mode /\ o.ok = TRUE /\ o.backends = allowed /\ o.prompt = prompt
      BY <2>6 DEF Opened
    <2>8. o.timed = timed /\ o.found = found
      BY <2>6 DEF Opened
    <2>9. mode = "unattended" => prompt # "terminal" /\ timed
      BY <1>4, <2>4 DEF prompt
    <2>10. mode = "inspect" /\ ~found => allowed # {} /\ "file" \notin allowed
      BY <1>3, <2>1, <2>5
    <2>11. mode = "noInput" /\ allowed = {"file"} => prompt = "fixed"
      BY <1>5, <2>2 DEF prompt
    <2> QED
      BY <1>1, <2>7, <2>8, <2>9, <2>10, <2>11 DEF OpenedAsAsked
  <1> QED
    BY <1>7, <1>8

\* The keyring of an older version, or none, may hold what it holds.
LEMMA KeyringInvInit == KeyringInit => KeyringInv
  <1> SUFFICES ASSUME KeyringInit PROVE KeyringInv
    OBVIOUS
  <1>1. opening = Closed /\ answers = {}
    BY DEF KeyringInit
  <1>2. DOMAIN possible = TokenKeys \cup AccountKeys
    BY KeysApart DEF KeyringInit, TokenKeys
  <1>3. \A s \in DOMAIN possible :
           /\ Absent \in possible[s]
           /\ \A k \in DOMAIN ring : s = Slot(DefaultClient, k[2]) => ring[k] \in possible[s]
    BY DEF KeyringInit
  <1>4. \/ ring = EmptyMap
        \/ \E e \in KeyringEmails, v \in KeyringTokens \cup {Corrupt} : ring = [k \in {LegacyKey(e)} |-> v]
    BY DEF KeyringInit
  <1>5. Full(ring) /\ DOMAIN ring \subseteq LegacyKeys
    BY <1>4, DefaultClientAssumption DEF EmptyMap, Full, LegacyKeys
  <1>6. ASSUME NEW k, k \in TokenKeys \cup AccountKeys PROVE Item(ring, k) \in possible[k]
    <2>1. CASE k \in TokenKeys
      <3>1. k \notin LegacyKeys
        BY <2>1, KeysApart DEF TokenKeys, LegacyKeys
      <3> QED
        BY <1>2, <1>3, <1>5, <2>1, <3>1 DEF Item
    <2>2. CASE k \in AccountKeys
      <3>1. k \notin LegacyKeys
        BY <2>2, KeysApart DEF AccountKeys, LegacyKeys
      <3> QED
        BY <1>2, <1>3, <1>5, <2>2, <3>1 DEF Item
    <2> QED
      BY <1>6, <2>1, <2>2
  <1>7. ASSUME NEW c \in KeyringClients, NEW e \in KeyringEmails PROVE OwnKept(ring, possible, c, e)
    <2>1. TokenKey(c, e) \in TokenKeys /\ Slot(c, e) = TokenKey(c, e)
      BY KeysApart DEF TokenKeys
    <2> QED
      BY <1>6, <2>1 DEF OwnKept
  <1>8. ASSUME NEW e \in KeyringEmails PROVE OldKept(ring, possible, e)
    <2>1. CASE LegacyKey(e) \in DOMAIN ring
      <3> DEFINE k == LegacyKey(e)
      <3>1. k[2] = e
        BY DEF LegacyKey
      <3>2. Slot(DefaultClient, e) \in DOMAIN possible
        BY <1>2, KeysApart, DefaultClientAssumption DEF TokenKeys
      <3>3. ring[k] \in possible[Slot(DefaultClient, e)]
        BY <1>3, <2>1, <3>1, <3>2
      <3> QED
        BY <2>1, <3>3 DEF OldKept, Item
    <2>2. CASE LegacyKey(e) \notin DOMAIN ring
      BY <2>2 DEF OldKept, Item
    <2> QED
      BY <2>1, <2>2
  <1>9. RingKept(ring, possible)
    BY <1>2, <1>5, <1>6, <1>7, <1>8 DEF RingKept
  <1>10. ~Closed.ok
    BY DEF Closed, Opened
  <1> QED
    BY <1>1, <1>9, <1>10 DEF KeyringInv, AnswersStand, OpenedAsAsked

\* Every operation of the store keeps it.
LEMMA KeyringInvNext == KeyringInv /\ [KeyringNext]_keyringVars => KeyringInv'
  <1> SUFFICES ASSUME KeyringInv, [KeyringNext]_keyringVars PROVE KeyringInv'
    OBVIOUS
  <1>1. RingKept(ring, possible) /\ AnswersStand /\ OpenedAsAsked
    BY DEF KeyringInv
  <1>2. ASSUME opening' = opening PROVE OpenedAsAsked'
    BY <1>1, <1>2 DEF OpenedAsAsked
  <1>3. ASSUME answers' = {} PROVE AnswersStand'
    BY <1>3 DEF AnswersStand
  <1>4. ASSUME UNCHANGED <<ring, possible, answers>> PROVE RingKept(ring', possible') /\ AnswersStand'
    BY <1>1, <1>4 DEF AnswersStand
  <1>5. CASE \E mode \in Modes, env \in Environments : OpenStore(mode, env)
    <2>1. UNCHANGED <<ring, possible, answers>>
      BY <1>5 DEF OpenStore
    <2> QED
      BY <1>4, <1>5, <2>1, OpensAsAsked DEF KeyringInv
  <1>6. CASE StartStore
    <2>1. opening' = Ready /\ UNCHANGED <<ring, possible, answers>>
      BY <1>6 DEF StartStore
    <2>2. ~Ready.ok
      BY DEF Ready, Closed, Opened
    <2> QED
      BY <1>4, <2>1, <2>2 DEF KeyringInv, OpenedAsAsked
  <1>7. ASSUME NEW c \in KeyringClients, NEW e \in KeyringEmails, NEW t \in KeyringTokens, SetToken(c, e, t) PROVE KeyringInv'
    <2>1. PICK w \in TokenWrites(ring, c, e, t) : Wrote({Slot(c, e)}, w, t)
      BY <1>7 DEF SetToken
    <2>2. answers' = {} /\ opening' = opening
      BY <2>1 DEF Wrote
    <2> QED
      BY <1>1, <1>2, <1>3, <2>1, <2>2, TokenWriteKeeps DEF KeyringInv
  <1>8. ASSUME NEW c \in KeyringClients, NEW e \in KeyringEmails, DeleteToken(c, e) PROVE KeyringInv'
    <2>1. PICK w \in TokenWrites(ring, c, e, Absent) : Wrote({Slot(c, e)}, w, Absent)
      BY <1>8 DEF DeleteToken
    <2>2. answers' = {} /\ opening' = opening
      BY <2>1 DEF Wrote
    <2> QED
      BY <1>1, <1>2, <1>3, <2>1, <2>2, TokenWriteKeeps DEF KeyringInv
  <1>9. ASSUME NEW c \in KeyringClients, NEW e \in KeyringEmails, GetToken(c, e) PROVE KeyringInv'
    <2>1. opening' = opening
      BY <1>9 DEF GetToken
    <2> QED
      BY <1>1, <1>2, <1>9, <2>1, GetTokenKeeps DEF KeyringInv
  <1>10. ASSUME NEW c \in KeyringClients, NEW e \in KeyringEmails, SetDefaultAccount(c, e) PROVE KeyringInv'
    <2>1. PICK w \in WritesBoth(ring, AccountKey(c), GlobalAccountKey, e) : Wrote({AccountKey(c), GlobalAccountKey}, w, e)
      BY <1>10 DEF SetDefaultAccount
    <2>2. answers' = {} /\ opening' = opening
      BY <2>1 DEF Wrote
    <2> QED
      BY <1>1, <1>2, <1>3, <2>1, <2>2, AccountWriteKeeps DEF KeyringInv
  <1>11. ASSUME NEW c \in KeyringClients, GetDefaultAccount(c) PROVE KeyringInv'
    <2>1. opening' = opening
      BY <1>11 DEF GetDefaultAccount
    <2> QED
      BY <1>1, <1>2, <1>11, <2>1, GetDefaultAccountKeeps DEF KeyringInv
  <1>12. CASE ListTokens
    <2>1. opening' = opening
      BY <1>12 DEF ListTokens
    <2> QED
      BY <1>1, <1>2, <1>12, <2>1, ListTokensKeeps DEF KeyringInv
  <1>13. CASE InspectTokens
    <2>1. opening' = opening
      BY <1>13 DEF InspectTokens
    <2> QED
      BY <1>1, <1>2, <1>13, <2>1, InspectTokensKeeps DEF KeyringInv
  <1>14. CASE UNCHANGED keyringVars
    <2>1. opening' = opening /\ UNCHANGED <<ring, possible, answers>>
      BY <1>14 DEF keyringVars
    <2> QED
      BY <1>2, <1>4, <2>1 DEF KeyringInv
  <1> QED
    BY <1>5, <1>6, <1>7, <1>8, <1>9, <1>10, <1>11, <1>12, <1>13, <1>14 DEF KeyringNext

\* The inductive invariant of the keyring: under either key of a token, and of a default
\* account, is an item that its slot may hold, or one that is no token (store.go).
THEOREM KeyringInductive == KeyringSpec => []KeyringInv
  BY KeyringInvInit, KeyringInvNext, PTL DEF KeyringSpec

\* What is read is what the last completed write or delete left or one that failed since
\* may have left, and each opening is as its mode asks, for any clients, addresses and
\* tokens (SetToken, GetToken, DeleteToken, openKeyringAt).
THEOREM KeyringHolds == KeyringSpec => []KeyringKept
  BY KeyringInductive, PTL DEF KeyringInv, KeyringKept

-----------------------------------------------------------------------------
(* Lists of calls and of what they left: for the mail and media workflows. *)

\* s is a sequence
IsList(s) == s \in Seq({s[i] : i \in DOMAIN s})

\* A list that grows keeps what it has.
LEMMA ListGrows ==
  ASSUME NEW s, IsList(s), NEW x
  PROVE  /\ IsList(Append(s, x)) /\ Len(s) \in Nat
         /\ DOMAIN Append(s, x) = DOMAIN s \cup {Len(s) + 1} /\ Len(s) + 1 \notin DOMAIN s
         /\ Append(s, x)[Len(s) + 1] = x
         /\ \A i \in DOMAIN s : Append(s, x)[i] = s[i]
  <1> DEFINE t == Append(s, x)
             S == {s[i] : i \in DOMAIN s}
  <1>1. s \in Seq(S) /\ Len(s) \in Nat /\ DOMAIN s = 1 .. Len(s)
    BY DEF IsList
  <1>2. /\ Len(t) = Len(s) + 1 /\ DOMAIN t = 1 .. Len(s) + 1
        /\ t[Len(s) + 1] = x /\ \A i \in 1 .. Len(s) : t[i] = s[i]
    BY <1>1
  <1>3. t \in Seq({t[i] : i \in DOMAIN t})
    <2> DEFINE T == {t[i] : i \in DOMAIN t}
    <2>1. PICK n \in Nat : n = Len(s) + 1 /\ DOMAIN t = 1 .. n
      BY <1>1, <1>2
    <2>2. t \in Seq(S \cup {x})
      <3>1. s \in Seq(S \cup {x})
        <4> HIDE DEF S
        <4> QED
          BY <1>1
      <3> HIDE DEF S
      <3> QED
        BY <3>1
    <2>3. \A i \in 1 .. n : t[i] \in T
      BY <2>1
    <2>4. t \in [1 .. n -> T]
      <3> HIDE DEF t, T, S
      <3> QED
        BY <2>1, <2>2, <2>3
    <2> HIDE DEF T, t
    <2> QED
      BY <2>4, SeqDef
  <1> QED
    BY <1>1, <1>2, <1>3 DEF IsList

\* A list of which some places are changed is one of the same length.
LEMMA ListChanges ==
  ASSUME NEW s, IsList(s), NEW t, t = [i \in DOMAIN s |-> t[i]]
  PROVE  IsList(t)
  <1>1. Len(s) \in Nat /\ DOMAIN s = 1 .. Len(s)
    BY DEF IsList
  <1>2. DOMAIN t = 1 .. Len(s) /\ t \in [1 .. Len(s) -> {t[i] : i \in DOMAIN t}]
    BY <1>1
  <1>3. \A n \in Nat : \A f, T : f \in [1 .. n -> T] => f \in Seq(T)
    OBVIOUS
  <1> QED
    BY <1>1, <1>2, <1>3 DEF IsList

-----------------------------------------------------------------------------
(* The mail workflow: MailAsPreviewed. *)

\* Preparing, drafting and sending alone, whatever the other parts do.
MailSpec == MailInit /\ [][MailNext]_mailVars

\* What each stage of a call has established.
CallSound(k) ==
    LET e == emails[k]
    IN  /\ DOMAIN e = {"op", "in", "expected", "stage", "alias", "reply", "outcome"}
        /\ \A d \in e.expected : d \in Digests
        /\ e.stage = "sender" => e.reply = NoSummary
        /\ e.stage \in {"source", "compose", "write"} => e.alias.primary \/ e.alias.status = "accepted"
        /\ e.stage \in {"compose", "write"} => e.reply.thread = e.in.reply.thread
        /\ e.stage = "write" => PreviewCurrent(k)
        /\ e.stage # "done" => e.outcome \notin {"prepared", "written"}
        /\ e.outcome = "written" => \E i \in DOMAIN mailbox : mailbox[i].call = k

\* What is written is what its call had composed, and the call has ended.
MessageSound(w) ==
    LET e == emails[w.call]
    IN  /\ w.call \in DOMAIN emails
        /\ e.stage = "done" /\ e.outcome \in {"written", "unknown"} /\ w.kind = e.op
        /\ w.content = Compose(w.call) /\ w.thread = e.in.reply.thread
        /\ e.alias.primary \/ e.alias.status = "accepted"
        /\ PreviewCurrent(w.call)

MailInv ==
    /\ IsList(emails) /\ IsList(mailbox)
    /\ \A k \in DOMAIN emails : CallSound(k)
    /\ \A i \in DOMAIN mailbox : MessageSound(mailbox[i])
    /\ \A i, j \in DOMAIN mailbox : mailbox[i].call = mailbox[j].call => i = j

\* MailInv is enough: the digest a call carries is that of a preview.
LEMMA MailInvEnough == MailInv => MailAsPreviewed
  <1> SUFFICES ASSUME MailInv PROVE MailAsPreviewed
    OBVIOUS
  <1>1. ASSUME NEW i \in DOMAIN mailbox
        PROVE  LET w == mailbox[i]
                   e == emails[w.call]
               IN  /\ e.expected # {} => \E k \in Previews : Undated(Compose(k)) = Undated(w.content)
                   /\ \A j \in DOMAIN mailbox : mailbox[j].call = w.call => i = j
                   /\ e.alias.primary \/ e.alias.status = "accepted"
                   /\ w.thread = e.in.reply.thread
                   /\ w.kind = e.op /\ e.outcome \in {"written", "unknown"}
    <2> DEFINE w == mailbox[i]
               e == emails[w.call]
    <2>1. MessageSound(w) /\ \A j \in DOMAIN mailbox : mailbox[j].call = w.call => i = j
      BY DEF MailInv
    <2>2. /\ w.call \in DOMAIN emails /\ e.outcome \in {"written", "unknown"} /\ w.kind = e.op
          /\ w.content = Compose(w.call) /\ w.thread = e.in.reply.thread
          /\ e.alias.primary \/ e.alias.status = "accepted"
          /\ PreviewCurrent(w.call)
      BY <2>1 DEF MessageSound
    <2>3. \A d \in e.expected : d \in Digests /\ d = ContentDigest(w.content)
      BY <2>2 DEF MailInv, CallSound, PreviewCurrent
    <2>4. ASSUME NEW d \in e.expected
          PROVE  \E k \in Previews : Undated(Compose(k)) = Undated(w.content)
      <3>1. PICK k \in Previews : d = ContentDigest(Compose(k))
        BY <2>3 DEF Digests
      <3>2. Undated(Compose(k)) = ContentDigest(Compose(k)) /\ Undated(w.content) = ContentDigest(w.content)
        BY DEF Undated, ContentDigest
      <3> QED
        BY <2>3, <3>1, <3>2
    <2> QED
      BY <2>1, <2>2, <2>4
  <1>2. \A k \in DOMAIN emails :
          emails[k].outcome = "written" => \E i \in DOMAIN mailbox : mailbox[i].call = k
    BY DEF MailInv, CallSound
  <1> QED
    BY <1>1, <1>2 DEF MailAsPreviewed

\* A message is composed of what its call has resolved.
LEMMA ComposedOf ==
  ASSUME NEW k, emails'[k].alias = emails[k].alias, emails'[k].in = emails[k].in, emails'[k].reply = emails[k].reply
  PROVE  Compose(k)' = Compose(k)
  BY DEF Compose, ResolveSignature

\* What was prepared stays what it was.
LEMMA DigestsStay ==
  ASSUME DOMAIN emails \subseteq DOMAIN emails',
         \A k \in DOMAIN emails : emails[k].outcome = "prepared" => emails'[k] = emails[k]
  PROVE  Digests \subseteq Digests'
  <1> SUFFICES ASSUME NEW d \in Digests PROVE d \in Digests'
    OBVIOUS
  <1>1. PICK k \in Previews : d = ContentDigest(Compose(k))
    BY DEF Digests
  <1>2. k \in DOMAIN emails /\ emails[k].outcome = "prepared"
    BY <1>1 DEF Previews
  <1>3. k \in Previews'
    BY <1>2 DEF Previews
  <1>4. Compose(k)' = Compose(k)
    BY <1>2, ComposedOf
  <1> QED
    BY <1>1, <1>3, <1>4 DEF Digests

\* A call that does not move keeps what it has established, and so does its message.
LEMMA CallStays ==
  ASSUME NEW k \in DOMAIN emails, CallSound(k), emails'[k] = emails[k], Digests \subseteq Digests',
         DOMAIN mailbox \subseteq DOMAIN mailbox', \A i \in DOMAIN mailbox : mailbox'[i] = mailbox[i]
  PROVE  CallSound(k)'
  <1>1. Compose(k)' = Compose(k)
    BY ComposedOf
  <1>2. PreviewCurrent(k) => PreviewCurrent(k)'
    BY <1>1 DEF PreviewCurrent, ContentDigest
  <1> QED
    BY <1>2 DEF CallSound

\* A message that is there stays what its call composed.
LEMMA MessageStays ==
  ASSUME NEW w, MessageSound(w), DOMAIN emails \subseteq DOMAIN emails', emails'[w.call] = emails[w.call]
  PROVE  MessageSound(w)'
  <1>1. Compose(w.call)' = Compose(w.call)
    BY ComposedOf
  <1>2. PreviewCurrent(w.call)'
    BY <1>1 DEF MessageSound, PreviewCurrent, ContentDigest
  <1> QED
    BY <1>1, <1>2 DEF MessageSound

\* A step of one call disturbs neither the others nor what was written.
LEMMA CallMoves ==
  ASSUME MailInv, NEW k \in DOMAIN emails, emails[k].stage # "done", emails' = [i \in DOMAIN emails |-> emails'[i]],
         \A i \in DOMAIN emails : i # k => emails'[i] = emails[i], mailbox' = mailbox,
         Digests \subseteq Digests' => CallSound(k)'
  PROVE  MailInv'
  <1>1. DOMAIN emails' = DOMAIN emails
    OBVIOUS
  <1>2. IsList(emails')
    BY ListChanges DEF MailInv
  <1>3. \A i \in DOMAIN emails : CallSound(i)
    BY DEF MailInv
  <1>4. emails[k].outcome # "prepared"
    BY <1>3 DEF CallSound
  <1>5. Digests \subseteq Digests'
    BY <1>1, <1>4, DigestsStay
  <1>6. ASSUME NEW i \in DOMAIN emails PROVE CallSound(i)'
    <2>1. CASE i = k
      BY <1>5, <2>1
    <2>2. CASE i # k
      BY <1>3, <1>5, <2>2, CallStays
    <2> QED
      BY <2>1, <2>2
  <1>7. ASSUME NEW i \in DOMAIN mailbox PROVE MessageSound(mailbox[i])'
    <2>0. PICK w : w = mailbox[i]
      OBVIOUS
    <2>1. MessageSound(w)
      BY <2>0 DEF MailInv
    <2>2. w.call \in DOMAIN emails /\ w.call # k
      BY <2>1 DEF MessageSound
    <2>3. MessageSound(w)'
      BY <1>1, <2>1, <2>2, MessageStays
    <2>4. mailbox'[i] = w
      BY <2>0
    <2> QED
      BY <2>3, <2>4 DEF MessageSound
  <1> QED
    BY <1>1, <1>2, <1>6, <1>7 DEF MailInv

\* A request that begins knows the digest of a preview, if any (StartEmail).
LEMMA StartEmailKeeps ==
  ASSUME MailInv, NEW op, NEW in, NEW expected, \A d \in expected : d \in Digests, StartEmail(op, in, expected)
  PROVE  MailInv'
  <1> DEFINE n == Len(emails) + 1
             e == [op |-> op, in |-> in, expected |-> expected, stage |-> "sender",
                   alias |-> NoAlias, reply |-> NoSummary, outcome |-> ""]
  <1>1. emails' = Append(emails, e) /\ mailbox' = mailbox
    BY DEF StartEmail
  <1>2. /\ DOMAIN e = {"op", "in", "expected", "stage", "alias", "reply", "outcome"}
        /\ e.expected = expected /\ e.stage = "sender" /\ e.reply = NoSummary
    OBVIOUS
  <1>3. e.outcome \notin {"prepared", "written"}
    BY Zenon
  <1> HIDE DEF e
  <1>4. /\ IsList(emails') /\ DOMAIN emails' = DOMAIN emails \cup {n} /\ n \notin DOMAIN emails
        /\ emails'[n] = e /\ \A i \in DOMAIN emails : emails'[i] = emails[i]
    BY <1>1, ListGrows DEF MailInv
  <1> HIDE DEF n
  <1>5. Digests \subseteq Digests'
    BY <1>4, DigestsStay
  <1>6. ASSUME NEW i \in DOMAIN emails' PROVE CallSound(i)'
    <2>1. CASE i = n
      BY <1>2, <1>3, <1>4, <1>5, <2>1 DEF CallSound
    <2>2. CASE i # n
      <3>1. i \in DOMAIN emails /\ CallSound(i)
        BY <1>4, <2>2 DEF MailInv
      <3> QED
        BY <1>1, <1>4, <1>5, <3>1, CallStays
    <2> QED
      BY <2>1, <2>2
  <1>7. ASSUME NEW i \in DOMAIN mailbox PROVE MessageSound(mailbox[i])'
    <2>0. PICK w : w = mailbox[i]
      OBVIOUS
    <2>1. MessageSound(w)
      BY <2>0 DEF MailInv
    <2>2. w.call \in DOMAIN emails
      BY <2>1 DEF MessageSound
    <2>3. MessageSound(w)'
      BY <1>4, <2>1, <2>2, MessageStays
    <2>4. mailbox'[i] = w
      BY <1>1, <2>0
    <2> QED
      BY <2>3, <2>4 DEF MessageSound
  <1> QED
    BY <1>1, <1>4, <1>6, <1>7 DEF MailInv

\* A call that ends without a write has nothing to show for it.
LEMMA EndKeeps ==
  ASSUME MailInv, NEW k \in DOMAIN emails, emails[k].stage # "done", NEW outcome, outcome # "written",
         EndEmail(k, outcome), mailbox' = mailbox
  PROVE  MailInv'
  <1>1. emails' = [emails EXCEPT ![k].stage = "done", ![k].outcome = outcome]
    BY DEF EndEmail
  <1>2. CallSound(k)
    BY DEF MailInv
  <1>3. emails'[k] = [emails[k] EXCEPT !.stage = "done", !.outcome = outcome]
    BY <1>1
  <1>4. /\ DOMAIN emails'[k] = DOMAIN emails[k] /\ emails'[k].expected = emails[k].expected
        /\ emails'[k].stage = "done" /\ emails'[k].outcome = outcome
    BY <1>2, <1>3 DEF CallSound
  <1>5. Digests \subseteq Digests' => CallSound(k)'
    BY <1>2, <1>4 DEF CallSound
  <1>6. emails' = [i \in DOMAIN emails |-> emails'[i]] /\ \A i \in DOMAIN emails : i # k => emails'[i] = emails[i]
    BY <1>1
  <1> QED
    BY <1>5, <1>6, CallMoves

\* The sender is one the account may send as, or the request is refused (ReadSender).
LEMMA ReadSenderKeeps ==
  ASSUME MailInv, NEW k \in DOMAIN emails, ReadSender(k)
  PROVE  MailInv'
  <1>1. emails[k].stage = "sender" /\ mailbox' = mailbox
    BY DEF ReadSender
  <1>2. CallSound(k)
    BY DEF MailInv
  <1>3. CASE EndEmail(k, "refused")
    BY <1>1, <1>3, EndKeeps
  <1>4. CASE \E alias \in ResolveSender(emails[k].in) :
                /\ SignatureResolves(alias, emails[k].in)
                /\ emails' = [emails EXCEPT ![k].alias = alias,
                                ![k].stage = IF emails[k].in.reply = NoContext THEN "compose" ELSE "source"]
    <2>1. PICK alias \in ResolveSender(emails[k].in) :
                 emails' = [emails EXCEPT ![k].alias = alias,
                              ![k].stage = IF emails[k].in.reply = NoContext THEN "compose" ELSE "source"]
      BY <1>4
    <2>2. alias.primary \/ alias.status = "accepted"
      BY DEF ResolveSender
    <2>3. emails' = [i \in DOMAIN emails |-> emails'[i]] /\ \A i \in DOMAIN emails : i # k => emails'[i] = emails[i]
      BY <2>1
    <2>4. emails'[k] = [emails[k] EXCEPT !.alias = alias,
                          !.stage = IF emails[k].in.reply = NoContext THEN "compose" ELSE "source"]
      BY <2>1
    <2>5. /\ DOMAIN emails'[k] = DOMAIN emails[k] /\ emails'[k].expected = emails[k].expected
          /\ emails'[k].alias = alias /\ emails'[k].in = emails[k].in /\ emails'[k].reply = emails[k].reply
          /\ emails'[k].outcome = emails[k].outcome
      BY <1>2, <2>4 DEF CallSound
    <2>6. emails'[k].stage = IF emails[k].in.reply = NoContext THEN "compose" ELSE "source"
      BY <1>2, <2>4 DEF CallSound
    <2>7. emails'[k].stage = "compose" => emails'[k].reply.thread = emails'[k].in.reply.thread
      <3>1. NoSummary.thread = NoContext.thread
        BY Zenon DEF NoSummary, NoContext
      <3>2. emails[k].reply = NoSummary
        BY <1>1, <1>2 DEF CallSound
      <3> QED
        BY <2>5, <2>6, <3>1, <3>2
    <2>8. Digests \subseteq Digests' => CallSound(k)'
      BY <1>1, <1>2, <2>2, <2>5, <2>6, <2>7 DEF CallSound
    <2> QED
      BY <1>1, <2>3, <2>8, CallMoves
  <1> QED
    BY <1>3, <1>4 DEF ReadSender

\* The message replied to is in the thread the request names (ReadSource).
LEMMA ReadSourceKeeps ==
  ASSUME MailInv, NEW k \in DOMAIN emails, ReadSource(k)
  PROVE  MailInv'
  <1>1. emails[k].stage = "source" /\ mailbox' = mailbox
    BY DEF ReadSource
  <1>2. CallSound(k)
    BY DEF MailInv
  <1>3. CASE EndEmail(k, "refused")
    BY <1>1, <1>3, EndKeeps
  <1>4. CASE /\ SourceMatches(emails[k].in)
             /\ emails' = [emails EXCEPT ![k].reply = ResolveReply, ![k].stage = "compose"]
    <2>1. ResolveReply.thread = emails[k].in.reply.thread
      BY <1>4 DEF ResolveReply, SourceMatches
    <2>2. PICK reply : reply = ResolveReply
      OBVIOUS
    <2>3. emails' = [emails EXCEPT ![k].reply = reply, ![k].stage = "compose"]
      BY <1>4, <2>2
    <2>4. emails' = [i \in DOMAIN emails |-> emails'[i]] /\ \A i \in DOMAIN emails : i # k => emails'[i] = emails[i]
      BY <2>3
    <2>5. emails'[k] = [emails[k] EXCEPT !.reply = reply, !.stage = "compose"]
      BY <2>3
    <2>6. /\ DOMAIN emails'[k] = DOMAIN emails[k] /\ emails'[k].expected = emails[k].expected
          /\ emails'[k].alias = emails[k].alias /\ emails'[k].in = emails[k].in /\ emails'[k].reply = reply
          /\ emails'[k].outcome = emails[k].outcome /\ emails'[k].stage = "compose"
      BY <1>2, <2>5 DEF CallSound
    <2>7. Digests \subseteq Digests' => CallSound(k)'
      BY <1>1, <1>2, <2>1, <2>2, <2>6 DEF CallSound
    <2> QED
      BY <1>1, <2>4, <2>7, CallMoves
  <1> QED
    BY <1>3, <1>4 DEF ReadSource

\* A call goes on to its write only with the digest of what it has composed
\* (resolvePreflight).
LEMMA PreflightKeeps ==
  ASSUME MailInv, NEW k \in DOMAIN emails, ResolvePreflight(k)
  PROVE  MailInv'
  <1>1. emails[k].stage = "compose" /\ mailbox' = mailbox
    BY DEF ResolvePreflight
  <1>2. CallSound(k)
    BY DEF MailInv
  <1>3. CASE EndEmail(k, "refused") \/ EndEmail(k, "prepared")
    BY <1>1, <1>3, EndKeeps
  <1>4. CASE PreviewCurrent(k) /\ emails' = [emails EXCEPT ![k].stage = "write"]
    <2>1. emails' = [i \in DOMAIN emails |-> emails'[i]] /\ \A i \in DOMAIN emails : i # k => emails'[i] = emails[i]
      BY <1>4
    <2>2. emails'[k] = [emails[k] EXCEPT !.stage = "write"]
      BY <1>4
    <2>3. /\ DOMAIN emails'[k] = DOMAIN emails[k] /\ emails'[k].expected = emails[k].expected
          /\ emails'[k].alias = emails[k].alias /\ emails'[k].in = emails[k].in /\ emails'[k].reply = emails[k].reply
          /\ emails'[k].outcome = emails[k].outcome /\ emails'[k].stage = "write"
      BY <1>2, <2>2 DEF CallSound
    <2>4. Compose(k)' = Compose(k)
      BY <2>3, ComposedOf
    <2>5. PreviewCurrent(k)'
      BY <1>4, <2>3, <2>4 DEF PreviewCurrent, ContentDigest
    <2>6. Digests \subseteq Digests' => CallSound(k)'
      BY <1>1, <1>2, <2>3, <2>5 DEF CallSound
    <2> QED
      BY <1>1, <2>1, <2>6, CallMoves
  <1> QED
    BY <1>3, <1>4 DEF ResolvePreflight

\* A write, taken or not, ends its call (WriteEmail).
LEMMA WriteEmailKeeps ==
  ASSUME MailInv, NEW k \in DOMAIN emails, WriteEmail(k)
  PROVE  MailInv'
  <1>1. emails[k].stage = "write"
    BY DEF WriteEmail
  <1>2. CallSound(k)
    BY DEF MailInv
  <1>3. CASE mailbox' = mailbox /\ (EndEmail(k, "failed") \/ EndEmail(k, "unknown"))
    BY <1>1, <1>3, EndKeeps
  <1>4. CASE /\ mailbox' = Append(mailbox, [call |-> k, kind |-> emails[k].op, content |-> Compose(k),
                                            thread |-> emails[k].reply.thread])
             /\ EndEmail(k, "written") \/ EndEmail(k, "unknown")
    <2>1. PICK w : w = [call |-> k, kind |-> emails[k].op, content |-> Compose(k), thread |-> emails[k].reply.thread]
      OBVIOUS
    <2>2. w.call = k /\ w.kind = emails[k].op /\ w.content = Compose(k) /\ w.thread = emails[k].reply.thread
      BY <2>1
    <2>3. PICK n : n = Len(mailbox) + 1
      OBVIOUS
    <2>4. /\ IsList(mailbox') /\ DOMAIN mailbox' = DOMAIN mailbox \cup {n} /\ n \notin DOMAIN mailbox
          /\ mailbox'[n] = w /\ \A i \in DOMAIN mailbox : mailbox'[i] = mailbox[i]
      <3>1. mailbox' = Append(mailbox, w)
        BY <1>4, <2>1
      <3> QED
        BY <2>3, <3>1, ListGrows DEF MailInv
    <2>5. PICK outcome \in {"written", "unknown"} : EndEmail(k, outcome)
      BY <1>4
    <2>6. emails' = [emails EXCEPT ![k].stage = "done", ![k].outcome = outcome]
      BY <2>5 DEF EndEmail
    <2>7. /\ emails' = [i \in DOMAIN emails |-> emails'[i]] /\ DOMAIN emails' = DOMAIN emails
          /\ \A i \in DOMAIN emails : i # k => emails'[i] = emails[i]
      BY <2>6
    <2>8. emails'[k] = [emails[k] EXCEPT !.stage = "done", !.outcome = outcome]
      BY <2>6
    <2>9. /\ DOMAIN emails'[k] = DOMAIN emails[k] /\ emails'[k].expected = emails[k].expected
          /\ emails'[k].alias = emails[k].alias /\ emails'[k].in = emails[k].in /\ emails'[k].reply = emails[k].reply
          /\ emails'[k].outcome = outcome /\ emails'[k].stage = "done" /\ emails'[k].op = emails[k].op
      BY <1>2, <2>8 DEF CallSound
    <2>10. Compose(k)' = Compose(k)
      BY <2>9, ComposedOf
    <2>11. PreviewCurrent(k)'
      BY <1>1, <1>2, <2>9, <2>10 DEF CallSound, PreviewCurrent, ContentDigest
    <2>12. emails[k].outcome # "prepared"
      BY <1>1, <1>2 DEF CallSound
    <2>13. Digests \subseteq Digests'
      BY <2>7, <2>12, DigestsStay
    <2>14. CallSound(k)'
      BY <1>2, <2>2, <2>4, <2>9, <2>13 DEF CallSound
    <2>15. ASSUME NEW i \in DOMAIN emails' PROVE CallSound(i)'
      <3>1. CASE i = k
        BY <2>14, <3>1
      <3>2. CASE i # k
        <4>1. i \in DOMAIN emails /\ CallSound(i) /\ emails'[i] = emails[i]
          BY <2>7, <3>2 DEF MailInv
        <4> QED
          BY <2>4, <2>13, <4>1, CallStays
      <3> QED
        BY <3>1, <3>2
    <2>16. MessageSound(w)'
      BY <1>1, <1>2, <2>2, <2>7, <2>9, <2>10, <2>11 DEF CallSound, MessageSound
    <2>17. \A i \in DOMAIN mailbox : mailbox[i].call # k
      BY <1>1 DEF MailInv, MessageSound
    <2>18. ASSUME NEW i \in DOMAIN mailbox PROVE MessageSound(mailbox[i])'
      <3>1. PICK m : m = mailbox[i]
        OBVIOUS
      <3>2. MessageSound(m) /\ m.call # k
        BY <2>17, <3>1 DEF MailInv
      <3>3. m.call \in DOMAIN emails
        BY <3>2 DEF MessageSound
      <3>4. MessageSound(m)'
        BY <2>7, <3>2, <3>3, MessageStays
      <3>5. mailbox'[i] = m
        BY <2>4, <3>1
      <3> QED
        BY <3>4, <3>5 DEF MessageSound
    <2>19. MessageSound(mailbox[n])'
      BY <2>4, <2>16 DEF MessageSound
    <2>20. \A i, j \in DOMAIN mailbox' : mailbox'[i].call = mailbox'[j].call => i = j
      BY <2>2, <2>4, <2>17 DEF MailInv
    <2>21. IsList(emails')
      BY <2>7, ListChanges DEF MailInv
    <2> QED
      BY <2>4, <2>15, <2>18, <2>19, <2>20, <2>21 DEF MailInv
  <1> QED
    BY <1>3, <1>4 DEF WriteEmail

\* Every step of the mail workflow keeps it.
LEMMA MailInvNext == MailInv /\ [MailNext]_mailVars => MailInv'
  <1> SUFFICES ASSUME MailInv, [MailNext]_mailVars PROVE MailInv'
    OBVIOUS
  <1>1. CASE \E op \in {"prepare", "draft", "send"}, in \in EmailRequests,
                expected \in {{}} \cup {{d} : d \in Digests} : StartEmail(op, in, expected)
    BY <1>1, StartEmailKeeps
  <1>2. CASE \E k \in DOMAIN emails : ReadSender(k) \/ ReadSource(k) \/ ResolvePreflight(k) \/ WriteEmail(k)
    BY <1>2, ReadSenderKeeps, ReadSourceKeeps, PreflightKeeps, WriteEmailKeeps
  <1>3. CASE OwnerChanges \/ UNCHANGED mailVars
    <2>1. emails' = emails /\ mailbox' = mailbox
      BY <1>3 DEF OwnerChanges, mailVars
    <2>2. Digests' = Digests
      BY <2>1 DEF Digests, Previews, Compose, ContentDigest, ResolveSignature
    <2>3. \A k \in DOMAIN emails : CallSound(k)'
      BY <2>1, <2>2, CallStays DEF MailInv
    <2>4. ASSUME NEW i \in DOMAIN mailbox PROVE MessageSound(mailbox[i])'
      <3>1. PICK m : m = mailbox[i]
        OBVIOUS
      <3>2. MessageSound(m)
        BY <3>1 DEF MailInv
      <3>3. MessageSound(m)'
        BY <2>1, <3>2, MessageStays
      <3> QED
        BY <2>1, <3>1, <3>3 DEF MessageSound
    <2> QED
      BY <2>1, <2>3, <2>4 DEF MailInv
  <1> QED
    BY <1>1, <1>2, <1>3 DEF MailNext

\* Before the first call there is nothing to relate.
LEMMA MailInvInit == MailInit => MailInv
  <1> SUFFICES ASSUME MailInit PROVE MailInv
    OBVIOUS
  <1>1. emails = <<>> /\ mailbox = <<>>
    BY DEF MailInit
  <1>2. DOMAIN emails = {} /\ DOMAIN mailbox = {}
    BY <1>1
  <1>3. IsList(emails) /\ IsList(mailbox)
    BY <1>1 DEF IsList
  <1> QED
    BY <1>2, <1>3 DEF MailInv

\* The inductive invariant of the mail workflow: at each stage of a call what it has
\* resolved, and of what was written that it is what its call composed (mailworkflow.go).
THEOREM MailInductive == MailSpec => []MailInv
  BY MailInvInit, MailInvNext, PTL DEF MailSpec

\* What is written with a digest is a message some caller was shown, and each is written
\* once, for any requests, calls and changes by the owner (send, resolvePreflight).
THEOREM MailWrittenAsPreviewed == MailSpec => []MailAsPreviewed
  BY MailInductive, MailInvEnough, PTL

-----------------------------------------------------------------------------
(* The media workflow: FilesAsAsked. *)

\* Reading and writing files alone, whatever the other parts do.
TransferSpec == TransferInit /\ [][TransferNext]_transferVars

Reads == {"attachment", "download", "export"}

\* What is delivered is within what was asked for, and in one place.
DataSound(t) ==
    t.data # Nothing => /\ t.data.bytes <= MaxBytesOrDefault(t.in.max) /\ t.data.inline # t.data.artifact
                        /\ t.data.artifact => store

\* What each stage of a call has established.
TransferSound(k) ==
    LET t == transfers[k]
    IN  /\ DOMAIN t = {"op", "in", "stage", "etag", "outcome", "data"}
        /\ t.op \in Reads => t.in.delivery \in Deliveries /\ ValidDelivery(t.in.delivery)
        /\ t.op = "update" => t.in.expected \in Int
        /\ t.op = "update" /\ t.stage = "write" => t.etag = t.in.expected
        /\ t.stage # "done" => t.data = Nothing /\ t.outcome # "done"
        /\ DataSound(t)
        /\ t.op \in {"create", "update"} /\ t.outcome = "done" => \E i \in DOMAIN writes : writes[i].call = k

\* What is written replaced what its call expected, and the call has ended.
WriteSound(w) ==
    LET t == transfers[w.call]
    IN  /\ w.call \in DOMAIN transfers
        /\ t.stage = "done" /\ t.outcome \in {"done", "unknown"}
        /\ t.op = "update" /\ t.in.expected > 0 => w.replaced = t.in.expected
        /\ t.op = "create" => w.replaced = 0 /\ t.in.id \in {NoText, w.id}

TransferInv ==
    /\ IsList(transfers) /\ IsList(writes)
    /\ \A k \in DOMAIN transfers : TransferSound(k)
    /\ \A i \in DOMAIN writes : WriteSound(writes[i])
    /\ \A i, j \in DOMAIN writes : writes[i].call = writes[j].call => i = j

\* TransferInv is enough.
LEMMA TransferInvEnough == TransferInv => FilesAsAsked
  <1> SUFFICES ASSUME TransferInv PROVE FilesAsAsked
    OBVIOUS
  <1>0. \A x, y : x \in {"", y} <=> x \in {NoText, y}
    BY Zenon DEF NoText
  <1>1. ASSUME NEW i \in DOMAIN writes
        PROVE  LET w == writes[i]
                   t == transfers[w.call]
               IN  /\ t.outcome \in {"done", "unknown"}
                   /\ t.op = "update" /\ t.in.expected > 0 => w.replaced = t.in.expected
                   /\ t.op = "create" => w.replaced = 0 /\ t.in.id \in {"", w.id}
                   /\ \A j \in DOMAIN writes : writes[j].call = w.call => i = j
    <2>1. PICK w : w = writes[i]
      OBVIOUS
    <2>2. WriteSound(w) /\ \A j \in DOMAIN writes : writes[j].call = w.call => i = j
      BY <2>1 DEF TransferInv
    <2>3. transfers[w.call].op = "create" => w.replaced = 0 /\ transfers[w.call].in.id \in {"", w.id}
      <3>1. transfers[w.call].op = "create" => w.replaced = 0 /\ transfers[w.call].in.id \in {NoText, w.id}
        BY <2>2 DEF WriteSound
      <3> QED
        BY <1>0, <3>1, Zenon
    <2>4. /\ transfers[w.call].outcome \in {"done", "unknown"}
          /\ transfers[w.call].op = "update" /\ transfers[w.call].in.expected > 0
             => w.replaced = transfers[w.call].in.expected
      BY <2>2 DEF WriteSound
    <2> QED
      BY <2>1, <2>2, <2>3, <2>4, Zenon
  <1>2. ASSUME NEW k \in DOMAIN transfers
        PROVE  LET t == transfers[k]
               IN  /\ t.data # Nothing =>
                         /\ t.data.bytes <= MaxBytesOrDefault(t.in.max) /\ t.data.inline # t.data.artifact
                         /\ t.data.artifact => store
                   /\ t.op \in {"create", "update"} /\ t.outcome = "done" => \E i \in DOMAIN writes : writes[i].call = k
    <2>1. TransferSound(k)
      BY DEF TransferInv
    <2> QED
      BY <2>1 DEF TransferSound, DataSound
  <1> QED
    BY <1>1, <1>2 DEF FilesAsAsked

\* A call that does not move keeps what it has established, and so does a write.
LEMMA TransferStays ==
  ASSUME NEW k \in DOMAIN transfers, TransferSound(k), transfers'[k] = transfers[k], store' = store,
         DOMAIN writes \subseteq DOMAIN writes', \A i \in DOMAIN writes : writes'[i] = writes[i]
  PROVE  TransferSound(k)'
  BY DEF TransferSound, DataSound, ValidDelivery

\* A write that was accepted stays what it was.
LEMMA WriteStays ==
  ASSUME NEW w, WriteSound(w), DOMAIN transfers \subseteq DOMAIN transfers', transfers'[w.call] = transfers[w.call]
  PROVE  WriteSound(w)'
  BY DEF WriteSound

\* A step of one call disturbs neither the others nor what was written.
LEMMA TransferMoves ==
  ASSUME TransferInv, NEW k \in DOMAIN transfers, transfers[k].stage # "done",
         transfers' = [i \in DOMAIN transfers |-> transfers'[i]],
         \A i \in DOMAIN transfers : i # k => transfers'[i] = transfers[i],
         store' = store, writes' = writes, TransferSound(k)'
  PROVE  TransferInv'
  <1>1. DOMAIN transfers' = DOMAIN transfers
    OBVIOUS
  <1>2. IsList(transfers')
    BY ListChanges DEF TransferInv
  <1>3. ASSUME NEW i \in DOMAIN transfers PROVE TransferSound(i)'
    <2>1. CASE i = k
      BY <2>1
    <2>2. CASE i # k
      BY <2>2, TransferStays DEF TransferInv
    <2> QED
      BY <2>1, <2>2
  <1>4. ASSUME NEW i \in DOMAIN writes PROVE WriteSound(writes[i])'
    <2>1. PICK w : w = writes[i]
      OBVIOUS
    <2>2. WriteSound(w)
      BY <2>1 DEF TransferInv
    <2>3. w.call \in DOMAIN transfers /\ w.call # k
      BY <2>2 DEF WriteSound
    <2>4. WriteSound(w)'
      BY <1>1, <2>2, <2>3, WriteStays
    <2> QED
      BY <2>1, <2>4 DEF WriteSound
  <1> QED
    BY <1>1, <1>2, <1>3, <1>4 DEF TransferInv

\* A call that ends without a write or data has nothing to show for it.
LEMMA EndTransferKeeps ==
  ASSUME TransferInv, NEW k \in DOMAIN transfers, transfers[k].stage # "done", NEW outcome, outcome # "done",
         End(k, outcome), store' = store, writes' = writes
  PROVE  TransferInv'
  <1>1. transfers' = [transfers EXCEPT ![k].stage = "done", ![k].outcome = outcome]
    BY DEF End
  <1>2. TransferSound(k)
    BY DEF TransferInv
  <1>3. transfers'[k] = [transfers[k] EXCEPT !.stage = "done", !.outcome = outcome]
    BY <1>1
  <1>4. /\ DOMAIN transfers'[k] = DOMAIN transfers[k] /\ transfers'[k].op = transfers[k].op
        /\ transfers'[k].in = transfers[k].in /\ transfers'[k].stage = "done" /\ transfers'[k].outcome = outcome
        /\ transfers'[k].data = transfers[k].data
    BY <1>2, <1>3 DEF TransferSound
  <1>5. transfers'[k].data = Nothing
    BY <1>2, <1>4 DEF TransferSound
  <1>6. TransferSound(k)'
    BY <1>2, <1>4, <1>5 DEF TransferSound, DataSound, ValidDelivery
  <1>7. /\ transfers' = [i \in DOMAIN transfers |-> transfers'[i]]
        /\ \A i \in DOMAIN transfers : i # k => transfers'[i] = transfers[i]
    BY <1>1
  <1> QED
    BY <1>6, <1>7, TransferMoves

\* What is asked to be an artifact is only asked where there is a store.
LEMMA ArtifactNeedsStore ==
  \A delivery \in Deliveries : ValidDelivery(delivery) /\ ~WantsInline(delivery) => store
  BY Zenon DEF Deliveries, ValidDelivery, WantsInline

\* A call that starts has nothing yet, and a request that was checked.
LEMMA StartKeeps ==
  ASSUME TransferInv, NEW op, NEW in, Start(op, in),
         op \in Reads => in.delivery \in Deliveries /\ ValidDelivery(in.delivery),
         op = "update" => in.expected \in Int
  PROVE  TransferInv'
  <1> DEFINE n == Len(transfers) + 1
             t == NewTransfer(op, in)
  <1>1. transfers' = Append(transfers, t) /\ store' = store /\ writes' = writes
    BY DEF Start
  <1>2. /\ DOMAIN t = {"op", "in", "stage", "etag", "outcome", "data"}
        /\ t.op = op /\ t.in = in /\ t.stage = "first" /\ t.data = Nothing
    BY DEF NewTransfer
  <1>3. t.outcome # "done"
    BY Zenon DEF NewTransfer
  <1> HIDE DEF t
  <1>4. /\ IsList(transfers') /\ DOMAIN transfers' = DOMAIN transfers \cup {n} /\ n \notin DOMAIN transfers
        /\ transfers'[n] = t /\ \A i \in DOMAIN transfers : transfers'[i] = transfers[i]
    BY <1>1, ListGrows DEF TransferInv
  <1> HIDE DEF n
  <1>5. ASSUME NEW i \in DOMAIN transfers' PROVE TransferSound(i)'
    <2>1. CASE i = n
      BY <1>1, <1>2, <1>3, <1>4, <2>1 DEF TransferSound, DataSound, ValidDelivery
    <2>2. CASE i # n
      <3>1. i \in DOMAIN transfers /\ TransferSound(i)
        BY <1>4, <2>2 DEF TransferInv
      <3> QED
        BY <1>1, <1>4, <3>1, TransferStays
    <2> QED
      BY <2>1, <2>2
  <1>6. ASSUME NEW i \in DOMAIN writes PROVE WriteSound(writes[i])'
    <2>1. PICK w : w = writes[i]
      OBVIOUS
    <2>2. WriteSound(w)
      BY <2>1 DEF TransferInv
    <2>3. w.call \in DOMAIN transfers
      BY <2>2 DEF WriteSound
    <2>4. WriteSound(w)'
      BY <1>4, <2>2, <2>3, WriteStays
    <2> QED
      BY <1>1, <2>1, <2>4 DEF WriteSound
  <1> QED
    BY <1>1, <1>4, <1>5, <1>6 DEF TransferInv

\* What is delivered is within the limit of its call, and goes one way (DeliverBytes).
LEMMA DataKeeps ==
  ASSUME TransferInv, NEW k \in DOMAIN transfers, transfers[k].stage # "done", transfers[k].op \in Reads,
         NEW size, Bounded(k, size), DeliverBytes(k, size), store' = store, writes' = writes
  PROVE  TransferInv'
  <1>1. TransferSound(k)
    BY DEF TransferInv
  <1>2. CASE End(k, "refused")
    BY <1>2, EndTransferKeeps
  <1>3. CASE transfers' = [transfers EXCEPT ![k].stage = "done", ![k].outcome = "done",
                             ![k].data = [inline |-> WantsInline(transfers[k].in.delivery),
                                          artifact |-> ~WantsInline(transfers[k].in.delivery), bytes |-> size]]
    <2>1. PICK d : d = [inline |-> WantsInline(transfers[k].in.delivery),
                        artifact |-> ~WantsInline(transfers[k].in.delivery), bytes |-> size]
      OBVIOUS
    <2>2. d.inline <=> WantsInline(transfers[k].in.delivery)
      BY <2>1
    <2>3. d.artifact <=> ~WantsInline(transfers[k].in.delivery)
      BY <2>1
    <2>4. d.bytes = size
      BY <2>1
    <2>5. d.inline # d.artifact
      BY <2>1, Zenon
    <2>6. d.artifact => store
      BY <1>1, <2>3, ArtifactNeedsStore DEF TransferSound
    <2>7. transfers' = [transfers EXCEPT ![k].stage = "done", ![k].outcome = "done", ![k].data = d]
      BY <1>3, <2>1, Zenon
    <2>8. transfers'[k] = [transfers[k] EXCEPT !.stage = "done", !.outcome = "done", !.data = d]
      BY <2>7
    <2>9. /\ DOMAIN transfers'[k] = DOMAIN transfers[k] /\ transfers'[k].op = transfers[k].op
          /\ transfers'[k].in = transfers[k].in /\ transfers'[k].stage = "done" /\ transfers'[k].data = d
      BY <1>1, <2>8 DEF TransferSound
    <2>10. DataSound(transfers[k])'
      BY <2>4, <2>5, <2>6, <2>9 DEF DataSound, Bounded
    <2>11. transfers[k].op \notin {"create", "update"}
      BY DEF Reads
    <2>12. TransferSound(k)'
      BY <1>1, <2>9, <2>10, <2>11 DEF TransferSound, ValidDelivery
    <2>13. /\ transfers' = [i \in DOMAIN transfers |-> transfers'[i]]
           /\ \A i \in DOMAIN transfers : i # k => transfers'[i] = transfers[i]
      BY <2>7
    <2> QED
      BY <2>12, <2>13, TransferMoves
  <1> QED
    BY <1>2, <1>3, Zenon DEF DeliverBytes

\* Metadata, content and attachments (downloadFile, exportFile, getAttachment).
LEMMA ReadsKeep ==
  ASSUME TransferInv, NEW k \in DOMAIN transfers,
         \/ ReadMetadata(k) \/ ReadContent(k)
         \/ \E declared \in 0 .. MaxSize, size \in 0 .. MaxSize : GetAttachment(k, declared, size)
  PROVE  TransferInv'
  <1>1. CASE ReadMetadata(k)
    <2>1. transfers[k].stage = "first" /\ transfers[k].op = "download" /\ store' = store /\ writes' = writes
      BY <1>1 DEF ReadMetadata
    <2>2. CASE End(k, "refused")
      BY <2>1, <2>2, EndTransferKeeps
    <2>3. CASE transfers' = [transfers EXCEPT ![k].stage = "content"]
      <3>1. TransferSound(k)
        BY DEF TransferInv
      <3>2. transfers'[k] = [transfers[k] EXCEPT !.stage = "content"]
        BY <2>3
      <3>3. /\ DOMAIN transfers'[k] = DOMAIN transfers[k] /\ transfers'[k].op = transfers[k].op
            /\ transfers'[k].in = transfers[k].in /\ transfers'[k].stage = "content"
            /\ transfers'[k].outcome = transfers[k].outcome /\ transfers'[k].data = transfers[k].data
        BY <3>1, <3>2 DEF TransferSound
      <3>4. TransferSound(k)'
        BY <2>1, <3>1, <3>3 DEF TransferSound, DataSound, ValidDelivery
      <3>5. /\ transfers' = [i \in DOMAIN transfers |-> transfers'[i]]
            /\ \A i \in DOMAIN transfers : i # k => transfers'[i] = transfers[i]
        BY <2>3
      <3> QED
        BY <2>1, <3>4, <3>5, TransferMoves
    <2> QED
      BY <1>1, <2>2, <2>3 DEF ReadMetadata
  <1>2. CASE ReadContent(k)
    <2>1. transfers[k].op \in Reads /\ transfers[k].stage # "done" /\ store' = store /\ writes' = writes
      BY <1>2 DEF ReadContent, Reads
    <2>2. CASE End(k, "refused")
      BY <2>1, <2>2, EndTransferKeeps
    <2>3. CASE \E size : Bounded(k, size) /\ DeliverBytes(k, size)
      BY <2>1, <2>3, DataKeeps
    <2> QED
      BY <1>2, <2>2, <2>3 DEF ReadContent
  <1>3. ASSUME NEW declared, NEW size, GetAttachment(k, declared, size) PROVE TransferInv'
    <2>1. transfers[k].op \in Reads /\ transfers[k].stage # "done" /\ store' = store /\ writes' = writes
      BY <1>3 DEF GetAttachment, Reads
    <2>2. CASE End(k, "refused")
      BY <2>1, <2>2, EndTransferKeeps
    <2>3. CASE Bounded(k, size) /\ DeliverBytes(k, size)
      BY <2>1, <2>3, DataKeeps
    <2> QED
      BY <1>3, <2>2, <2>3 DEF GetAttachment
  <1> QED
    BY <1>1, <1>2, <1>3

\* A write that Drive does not take.
LEMMA RejectKeeps ==
  ASSUME TransferInv, NEW k \in DOMAIN transfers, transfers[k].stage # "done", Reject(k), store' = store
  PROVE  TransferInv'
  BY EndTransferKeeps DEF Reject

\* A write that Drive takes, of the version its call expected.
LEMMA AcceptKeeps ==
  ASSUME TransferInv, NEW k \in DOMAIN transfers, transfers[k].stage # "done", NEW id, NEW version, NEW size,
         Accept(k, id, version, size), store' = store,
         transfers[k].op = "update" /\ transfers[k].in.expected > 0 => Replaced(id) = transfers[k].in.expected,
         transfers[k].op = "create" => Replaced(id) = 0 /\ transfers[k].in.id \in {NoText, id}
  PROVE  TransferInv'
  <1>1. TransferSound(k)
    BY DEF TransferInv
  <1>2. PICK w : w = [call |-> k, id |-> id, replaced |-> Replaced(id), size |-> size]
    OBVIOUS
  <1>3. w.call = k /\ w.id = id /\ w.replaced = Replaced(id)
    BY <1>2
  <1>4. PICK n : n = Len(writes) + 1
    OBVIOUS
  <1>5. /\ IsList(writes') /\ DOMAIN writes' = DOMAIN writes \cup {n} /\ n \notin DOMAIN writes
        /\ writes'[n] = w /\ \A i \in DOMAIN writes : writes'[i] = writes[i]
    <2>1. writes' = Append(writes, w)
      BY <1>2 DEF Accept
    <2> QED
      BY <1>4, <2>1, ListGrows DEF TransferInv
  <1>6. PICK outcome \in {"done", "unknown"} : End(k, outcome)
    BY DEF Accept
  <1>7. transfers' = [transfers EXCEPT ![k].stage = "done", ![k].outcome = outcome]
    BY <1>6 DEF End
  <1>8. /\ transfers' = [i \in DOMAIN transfers |-> transfers'[i]] /\ DOMAIN transfers' = DOMAIN transfers
        /\ \A i \in DOMAIN transfers : i # k => transfers'[i] = transfers[i]
    BY <1>7
  <1>9. transfers'[k] = [transfers[k] EXCEPT !.stage = "done", !.outcome = outcome]
    BY <1>7
  <1>10. /\ DOMAIN transfers'[k] = DOMAIN transfers[k] /\ transfers'[k].op = transfers[k].op
         /\ transfers'[k].in = transfers[k].in /\ transfers'[k].stage = "done" /\ transfers'[k].outcome = outcome
         /\ transfers'[k].data = Nothing
    BY <1>1, <1>9 DEF TransferSound
  <1>11. TransferSound(k)'
    BY <1>1, <1>3, <1>5, <1>10 DEF TransferSound, DataSound, ValidDelivery
  <1>12. ASSUME NEW i \in DOMAIN transfers' PROVE TransferSound(i)'
    <2>1. CASE i = k
      BY <1>11, <2>1
    <2>2. CASE i # k
      <3>1. i \in DOMAIN transfers /\ TransferSound(i) /\ transfers'[i] = transfers[i]
        BY <1>8, <2>2 DEF TransferInv
      <3> QED
        BY <1>5, <3>1, TransferStays
    <2> QED
      BY <2>1, <2>2
  <1>13. WriteSound(w)'
    BY <1>3, <1>8, <1>10 DEF WriteSound
  <1>14. \A i \in DOMAIN writes : writes[i].call # k
    BY DEF TransferInv, WriteSound
  <1>15. ASSUME NEW i \in DOMAIN writes PROVE WriteSound(writes[i])'
    <2>1. PICK m : m = writes[i]
      OBVIOUS
    <2>2. WriteSound(m) /\ m.call # k
      BY <1>14, <2>1 DEF TransferInv
    <2>3. m.call \in DOMAIN transfers
      BY <2>2 DEF WriteSound
    <2>4. WriteSound(m)'
      BY <1>8, <2>2, <2>3, WriteStays
    <2>5. writes'[i] = m
      BY <1>5, <2>1
    <2> QED
      BY <2>4, <2>5 DEF WriteSound
  <1>16. WriteSound(writes[n])'
    BY <1>5, <1>13 DEF WriteSound
  <1>17. \A i, j \in DOMAIN writes' : writes'[i].call = writes'[j].call => i = j
    BY <1>3, <1>5, <1>14 DEF TransferInv
  <1>18. IsList(transfers')
    BY <1>8, ListChanges DEF TransferInv
  <1> QED
    BY <1>5, <1>12, <1>15, <1>16, <1>17, <1>18 DEF TransferInv

\* A file is created under an id that no file has (createFile).
LEMMA CreateFileKeeps ==
  ASSUME TransferInv, NEW k \in DOMAIN transfers, NEW id, CreateFile(k, id)
  PROVE  TransferInv'
  <1>1. transfers[k].op = "create" /\ transfers[k].stage = "first" /\ store' = store
    BY DEF CreateFile
  <1>2. transfers[k].in.id \in {NoText, id}
    BY Zenon DEF CreateFile, NoText
  <1>3. CASE Reject(k)
    BY <1>1, <1>3, RejectKeeps
  <1>4. CASE id \notin DOMAIN files /\ Accept(k, id, 1, transfers[k].in.size)
    <2>1. Replaced(id) = 0
      BY <1>4 DEF Replaced
    <2> QED
      BY <1>1, <1>2, <1>4, <2>1, AcceptKeeps
  <1> QED
    BY <1>3, <1>4 DEF CreateFile

\* The version looked up is the one expected, and the ETag's (updateFile).
LEMMA LookUpKeeps ==
  ASSUME TransferInv, NEW k \in DOMAIN transfers, LookUpVersion(k)
  PROVE  TransferInv'
  <1>1. transfers[k].op = "update" /\ transfers[k].stage = "first" /\ store' = store /\ writes' = writes
    BY DEF LookUpVersion
  <1>2. CASE End(k, "refused")
    BY <1>1, <1>2, EndTransferKeeps
  <1>3. CASE transfers' = [transfers EXCEPT ![k].stage = "write", ![k].etag = transfers[k].in.expected]
    <2>1. TransferSound(k)
      BY DEF TransferInv
    <2>2. transfers'[k] = [transfers[k] EXCEPT !.stage = "write", !.etag = transfers[k].in.expected]
      BY <1>3
    <2>3. /\ DOMAIN transfers'[k] = DOMAIN transfers[k] /\ transfers'[k].op = transfers[k].op
          /\ transfers'[k].in = transfers[k].in /\ transfers'[k].stage = "write"
          /\ transfers'[k].etag = transfers[k].in.expected
          /\ transfers'[k].outcome = transfers[k].outcome /\ transfers'[k].data = transfers[k].data
      BY <2>1, <2>2 DEF TransferSound
    <2>4. TransferSound(k)'
      BY <1>1, <2>1, <2>3 DEF TransferSound, DataSound, ValidDelivery
    <2>5. /\ transfers' = [i \in DOMAIN transfers |-> transfers'[i]]
          /\ \A i \in DOMAIN transfers : i # k => transfers'[i] = transfers[i]
      BY <1>3
    <2> QED
      BY <1>1, <2>4, <2>5, TransferMoves
  <1> QED
    BY <1>2, <1>3 DEF LookUpVersion

\* An update that names a version replaces that one, whoever wrote since the lookup
\* (updateFile, If-Match).
LEMMA UpdateFileKeeps ==
  ASSUME TransferInv, NEW k \in DOMAIN transfers, UpdateFile(k)
  PROVE  TransferInv'
  <1> DEFINE id == transfers[k].in.id
  <1>1. transfers[k].op = "update" /\ transfers[k].stage # "done" /\ store' = store
    BY DEF UpdateFile
  <1>2. CASE Reject(k)
    BY <1>1, <1>2, RejectKeeps
  <1>3. CASE Precondition(k) /\ Accept(k, id, files[id].version + 1, transfers[k].in.size)
    <2>1. transfers[k].in.expected > 0 => transfers[k].stage = "write"
      BY DEF UpdateFile
    <2>2. transfers[k].in.expected \in Int /\ (transfers[k].stage = "write" => transfers[k].etag = transfers[k].in.expected)
      BY <1>1 DEF TransferInv, TransferSound
    <2>3. transfers[k].in.expected > 0 => Replaced(id) = transfers[k].in.expected
      BY <1>3, <2>1, <2>2 DEF Precondition
    <2> QED
      BY <1>1, <1>3, <2>3, AcceptKeeps
  <1> QED
    BY <1>2, <1>3 DEF UpdateFile

\* Every step of the media workflow keeps it.
LEMMA TransferInvNext == TransferInv /\ [TransferNext]_transferVars => TransferInv'
  <1> SUFFICES ASSUME TransferInv, [TransferNext]_transferVars PROVE TransferInv'
    OBVIOUS
  <1>1. CASE \E op \in Reads, in \in {x \in ReadRequests : ValidRead(x)} : Start(op, in)
    <2>1. PICK op \in Reads, in \in {x \in ReadRequests : ValidRead(x)} : Start(op, in)
      BY <1>1
    <2>2. in.delivery \in Deliveries /\ ValidDelivery(in.delivery) /\ op # "update"
      BY DEF ReadRequests, ValidRead, Reads
    <2> QED
      BY <2>1, <2>2, StartKeeps
  <1>2. CASE \E in : Start("create", in)
    BY <1>2, StartKeeps DEF Reads
  <1>3. CASE \E in \in {x \in UpdateRequests : ValidUpdate(x)} : Start("update", in)
    <2>1. PICK in \in {x \in UpdateRequests : ValidUpdate(x)} : Start("update", in)
      BY <1>3
    <2>2. in.expected \in Int
      BY DEF UpdateRequests
    <2> QED
      BY <2>1, <2>2, StartKeeps DEF Reads
  <1>4. CASE \E k \in DOMAIN transfers :
                \/ ReadMetadata(k) \/ ReadContent(k) \/ LookUpVersion(k) \/ UpdateFile(k)
                \/ \E declared \in 0 .. MaxSize, size \in 0 .. MaxSize : GetAttachment(k, declared, size)
                \/ \E id \in FileIds : CreateFile(k, id)
    BY <1>4, ReadsKeep, LookUpKeeps, UpdateFileKeeps, CreateFileKeeps
  <1>5. CASE (\E id \in FileIds, size \in 0 .. MaxSize : OthersWrite(id, size)) \/ UNCHANGED transferVars
    <2>1. transfers' = transfers /\ writes' = writes /\ store' = store
      BY <1>5 DEF OthersWrite, transferVars
    <2>2. \A k \in DOMAIN transfers : TransferSound(k)'
      BY <2>1, TransferStays DEF TransferInv
    <2>3. ASSUME NEW i \in DOMAIN writes PROVE WriteSound(writes[i])'
      <3>1. PICK w : w = writes[i]
        OBVIOUS
      <3>2. WriteSound(w)'
        BY <2>1, <3>1, WriteStays DEF TransferInv
      <3> QED
        BY <2>1, <3>1, <3>2 DEF WriteSound
    <2> QED
      BY <2>1, <2>2, <2>3 DEF TransferInv
  <1> QED
    BY <1>1, <1>2, <1>3, <1>4, <1>5 DEF TransferNext, Reads

\* Before the first call nothing is written.
LEMMA TransferInvInit == TransferInit => TransferInv
  <1> SUFFICES ASSUME TransferInit PROVE TransferInv
    OBVIOUS
  <1>1. transfers = <<>> /\ writes = <<>>
    BY DEF TransferInit
  <1>2. DOMAIN transfers = {} /\ DOMAIN writes = {}
    BY <1>1
  <1>3. IsList(transfers) /\ IsList(writes)
    BY <1>1 DEF IsList
  <1> QED
    BY <1>2, <1>3 DEF TransferInv

\* The inductive invariant of the media workflow: a call about to write has the ETag of the
\* version it expects, and what was written replaced that one (drive.go).
THEOREM TransfersInductive == TransferSpec => []TransferInv
  BY TransferInvInit, TransferInvNext, PTL DEF TransferSpec

\* An update replaces the version it named, no id is created twice and what is delivered is
\* within its limit, for any calls, sizes and writers in between (updateFile, createFile,
\* downloadFile).
THEOREM FilesWrittenAsAsked == TransferSpec => []FilesAsAsked
  BY TransfersInductive, TransferInvEnough, PTL

\* Both: what callers were shown, or asked to replace, is what a write changes
\* (resolvePreflight, updateFile).
THEOREM WritesAsSeen == MailSpec /\ TransferSpec => []WrittenAsSeen
  BY MailWrittenAsPreviewed, FilesWrittenAsAsked, PTL DEF WrittenAsSeen

-----------------------------------------------------------------------------
(* Searches of mail: LabelsCurrent. *)

\* The searches and threads alone, whatever the other parts do.
SearchSpec == SearchInit /\ [][SearchNext]_searchVars

\* A list of distinct members.
Distinct(s) == \A i, j \in DOMAIN s : s[i] = s[j] => i = j

LabelKeys == [account : MailAccounts, generation : Nat]

\* Names of labels that were fetched, and were in force since they were asked for.
NamesSound(n) ==
    /\ DOMAIN n = {"by", "version", "asked", "at"}
    /\ n.by \in LabelKeys /\ n.asked \in Nat /\ n.at \in Nat /\ n.at <= now
    /\ n.version \in 1 .. Len(renamed[n.by.account])
    /\ InForce(n)

\* What a call has established: its names, and those Google has read for it, are its
\* own connection's.
SearchSound(s) ==
    /\ DOMAIN s = {"kind", "id", "list", "stage", "read", "names", "cached", "used", "outcome", "items", "fetch"}
    /\ s.id \in LabelKeys
    /\ s.stage \in {"labels", "fetch", "answered", "store"} => ~s.cached
    /\ s.stage = "labels" => s.read = NoNames
    /\ s.stage = "fetch" => s.read.asked \in Nat /\ s.read.asked <= now
    /\ s.stage = "answered" => NamesSound(s.read) /\ s.read.by = s.id
    /\ s.stage = "store" => s.names # NoNames
    /\ s.names # NoNames => /\ NamesSound(s.names) /\ s.names.by = s.id
                            /\ s.cached => s.used - s.names.at < LabelTTL

\* The cache is whole, and each entry is what its key says.
CacheSound ==
    /\ order \in Seq(LabelKeys) /\ Distinct(order) /\ Len(order) <= CacheLimit
    /\ Range(order) = DOMAIN entries
    /\ \A key \in DOMAIN entries : NamesSound(entries[key]) /\ entries[key].by = key

\* Labels were renamed in the past, for the first time at the start.
RenamesSound ==
    /\ now \in Nat /\ generation \in [MailAccounts -> Nat] /\ renamed \in [MailAccounts -> Seq(Nat)]
    /\ \A a \in MailAccounts : Len(renamed[a]) >= 1 /\ \A i \in DOMAIN renamed[a] : renamed[a][i] <= now

SearchInv ==
    /\ RenamesSound /\ CacheSound
    /\ IsList(searches) /\ \A k \in DOMAIN searches : SearchSound(searches[k])

\* A list of distinct members has as many of them as it is long.
LEMMA DistinctCount ==
  ASSUME NEW S, NEW s \in Seq(S), Distinct(s)
  PROVE  Cardinality(Range(s)) = Len(s)
  <1>1. DOMAIN s = 1 .. Len(s) /\ Len(s) \in Nat /\ IsFiniteSet(1 .. Len(s)) /\ Cardinality(1 .. Len(s)) = Len(s)
    <2>1. Len(s) \in Nat /\ DOMAIN s = 1 .. Len(s)
      OBVIOUS
    <2>2. IsFiniteSet(1 .. Len(s)) /\ Cardinality(1 .. Len(s)) = (IF 1 > Len(s) THEN 0 ELSE Len(s) - 1 + 1)
      BY <2>1, FS_Interval
    <2> QED
      BY <2>1, <2>2
  <1>2. s \in Bijection(1 .. Len(s), Range(s))
    <2>1. s \in [1 .. Len(s) -> Range(s)]
      BY <1>1 DEF Range
    <2>2. s \in Surjection(1 .. Len(s), Range(s))
      BY <1>1, <2>1 DEF Surjection, Range
    <2>3. s \in Injection(1 .. Len(s), Range(s))
      BY <1>1, <2>1 DEF Injection, IsInjective, Distinct
    <2> QED
      BY <2>2, <2>3 DEF Bijection
  <1> QED
    BY <1>1, <1>2, FS_Bijection DEF ExistsBijection

\* SearchInv is enough.
LEMMA SearchInvEnough == SearchInv => LabelsCurrent
  <1> SUFFICES ASSUME SearchInv PROVE LabelsCurrent
    OBVIOUS
  <1>1. CacheConsistent
    BY DistinctCount DEF SearchInv, CacheSound, CacheConsistent
  <1>2. ASSUME NEW k \in DOMAIN searches
        PROVE  LET s == searches[k]
               IN  s.names # NoNames => /\ s.names.by = s.id /\ InForce(s.names)
                                        /\ s.cached => s.used - s.names.at < LabelTTL
    <2>1. SearchSound(searches[k])
      BY DEF SearchInv
    <2> QED
      BY <2>1 DEF SearchSound, NamesSound
  <1> QED
    BY <1>1, <1>2 DEF LabelsCurrent

\* Taking the first place of a member out of a list of distinct ones leaves the others.
LEMMA RemovedFirst ==
  ASSUME NEW S, NEW s \in Seq(S), Distinct(s), NEW e \in Range(s), NEW t, t = Seqs!RemoveFirst(s, e)
  PROVE  t \in Seq(S) /\ Distinct(t) /\ Range(t) = Range(s) \ {e} /\ Len(t) <= Len(s)
  <1>1. PICK i \in 1 .. Len(s) : s[i] = e
    BY DEF Range
  <1>2. DOMAIN s = 1 .. Len(s) /\ Len(s) \in Nat /\ i \in Nat /\ 1 <= i /\ i <= Len(s)
    OBVIOUS
  <1>3. {j \in 1 .. Len(s) : s[j] = e} = {i}
    BY <1>1, <1>2 DEF Distinct
  <1>4. Seqs!Min({i}) = i
    BY <1>1 DEF Seqs!Min
  <1>5. t = SubSeq(s, 1, i - 1) \o SubSeq(s, i + 1, Len(s))
    BY <1>1, <1>3, <1>4 DEF Seqs!RemoveFirst, Seqs!RemoveAt, Seqs!SelectInSeq
  <1>6. /\ t \in Seq(S) /\ Len(t) = Len(s) - 1
        /\ \A j \in 1 .. Len(t) : t[j] = IF j < i THEN s[j] ELSE s[j + 1]
    <2> DEFINE u == SubSeq(s, 1, i - 1)
               v == SubSeq(s, i + 1, Len(s))
    <2>1. u \in Seq(S) /\ Len(u) = i - 1 /\ \A j \in 1 .. i - 1 : u[j] = s[j]
      BY <1>2
    <2>2. v \in Seq(S) /\ Len(v) = Len(s) - i /\ \A j \in 1 .. Len(s) - i : v[j] = s[i + j]
      <3>1. i + 1 \in Int /\ Len(s) \in Int /\ \A j \in i + 1 .. Len(s) : s[j] \in S
        BY <1>2, ElementOfSeq
      <3>2. /\ v \in Seq(S) /\ Len(v) = (IF i + 1 <= Len(s) THEN Len(s) - (i + 1) + 1 ELSE 0)
            /\ \A j \in 1 .. Len(s) - (i + 1) + 1 : v[j] = s[(i + 1) + j - 1]
        BY <3>1, SubSeqProperties
      <3> HIDE DEF v
      <3>3. Len(s) - (i + 1) + 1 = Len(s) - i /\ \A j \in 1 .. Len(s) - i : (i + 1) + j - 1 = i + j
        BY <1>2
      <3>4. Len(v) = Len(s) - i
        <4>1. Len(v) = IF i + 1 <= Len(s) THEN Len(s) - (i + 1) + 1 ELSE 0
          BY <3>2, Zenon
        <4>2. PICK n \in Nat : n = Len(s)
          BY <1>2
        <4>3. Len(v) = IF i + 1 <= n THEN n - (i + 1) + 1 ELSE 0
          BY <4>1, <4>2, Zenon
        <4>4. i \in Nat /\ i <= n
          BY <1>2, <4>2
        <4>5. n - (i + 1) + 1 = n - i /\ (~(i + 1 <= n) => n - i = 0)
          BY <4>4
        <4> QED
          BY <4>2, <4>3, <4>4, <4>5
      <3>5. ASSUME NEW j \in 1 .. Len(s) - i PROVE v[j] = s[i + j]
        <4>1. j \in 1 .. Len(s) - (i + 1) + 1
          BY <3>3
        <4>2. v[j] = s[(i + 1) + j - 1]
          BY <3>2, <4>1, Zenon
        <4> QED
          BY <3>3, <4>2
      <3> QED
        BY <3>2, <3>4, <3>5
    <2>3. t = u \o v
      BY <1>5
    <2> HIDE DEF u, v
    <2>4. t \in Seq(S) /\ Len(t) = Len(u) + Len(v)
      <3>1. u \in Seq(S) /\ v \in Seq(S)
        BY <2>1, <2>2
      <3> QED
        BY <2>3, <3>1, ConcatProperties, Zenon
    <2>5. \A j \in 1 .. Len(u) + Len(v) : t[j] = IF j <= Len(u) THEN u[j] ELSE v[j - Len(u)]
      <3>1. u \in Seq(S) /\ v \in Seq(S)
        BY <2>1, <2>2
      <3> QED
        BY <2>3, <3>1, ConcatProperties, Zenon
    <2>6. Len(u) + Len(v) = Len(s) - 1
      BY <1>2, <2>1, <2>2
    <2>7. ASSUME NEW j \in 1 .. Len(t) PROVE t[j] = IF j < i THEN s[j] ELSE s[j + 1]
      <3>1. j \in Nat /\ 1 <= j /\ j <= Len(s) - 1
        BY <1>2, <2>4, <2>6
      <3>2. t[j] = IF j <= Len(u) THEN u[j] ELSE v[j - Len(u)]
        BY <2>4, <2>5
      <3>3. CASE j < i
        BY <1>2, <2>1, <3>1, <3>2, <3>3
      <3>4. CASE ~(j < i)
        <4>1. ~(j <= Len(u)) /\ j - Len(u) = j - i + 1 /\ j - i + 1 \in 1 .. Len(s) - i /\ i + (j - i + 1) = j + 1
          BY <1>2, <2>1, <3>1, <3>4
        <4> QED
          BY <2>2, <3>2, <3>4, <4>1
      <3> QED
        BY <3>3, <3>4
    <2> QED
      BY <2>4, <2>6, <2>7
  <1>7. DOMAIN t = 1 .. Len(t) /\ Len(t) \in Nat
    BY <1>6
  <1>8. Distinct(t)
    <2> SUFFICES ASSUME NEW j \in DOMAIN t, NEW l \in DOMAIN t, t[j] = t[l] PROVE j = l
      BY DEF Distinct
    <2> DEFINE at(x) == IF x < i THEN x ELSE x + 1
    <2>1. t[j] = s[at(j)] /\ t[l] = s[at(l)]
      BY <1>6, <1>7
    <2>2. at(j) \in DOMAIN s /\ at(l) \in DOMAIN s
      BY <1>2, <1>6, <1>7
    <2>3. at(j) = at(l)
      BY <2>1, <2>2 DEF Distinct
    <2> QED
      BY <1>2, <1>6, <1>7, <2>3
  <1>9. \A x : x \in Range(t) <=> x \in Range(s) /\ x # e
    <2>1. ASSUME NEW j \in DOMAIN t PROVE t[j] \in Range(s) /\ t[j] # e
      <3> DEFINE at == IF j < i THEN j ELSE j + 1
      <3>1. t[j] = s[at] /\ at \in DOMAIN s /\ at # i
        BY <1>2, <1>6, <1>7
      <3>2. s[at] # e
        BY <1>1, <1>2, <3>1 DEF Distinct
      <3> QED
        BY <3>1, <3>2 DEF Range
    <2>2. ASSUME NEW j \in DOMAIN s, s[j] # e PROVE \E l \in DOMAIN t : t[l] = s[j]
      <3>1. CASE j < i
        BY <1>2, <1>6, <1>7, <3>1
      <3>2. CASE j > i
        <4>1. j - 1 \in DOMAIN t /\ ~(j - 1 < i) /\ j - 1 + 1 = j
          BY <1>2, <1>6, <1>7, <3>2
        <4>2. t[j - 1] = s[j]
          BY <1>6, <1>7, <4>1
        <4> QED
          BY <4>1, <4>2
      <3> QED
        BY <1>1, <1>2, <2>2, <3>1, <3>2
    <2> QED
      BY <2>1, <2>2 DEF Range
  <1> QED
    BY <1>2, <1>6, <1>8, <1>9

\* The last places of a list of distinct members.
LEMMA LastOfDistinct ==
  ASSUME NEW S, NEW s \in Seq(S), Distinct(s), NEW i \in Nat, 1 <= i, i <= Len(s) + 1, NEW t, t = SubSeq(s, i, Len(s))
  PROVE  t \in Seq(S) /\ Distinct(t) /\ Range(t) \subseteq Range(s) /\ Len(t) = Len(s) - i + 1
  <1>1. Len(s) \in Nat /\ DOMAIN s = 1 .. Len(s)
    OBVIOUS
  <1>2. t \in Seq(S) /\ Len(t) = Len(s) - i + 1
    BY <1>1
  <1>3. DOMAIN t = 1 .. Len(s) - i + 1
    BY <1>2
  <1>4. \A j \in 1 .. Len(s) - i + 1 : t[j] = s[i + j - 1] /\ i + j - 1 \in DOMAIN s
    BY <1>1
  <1>5. Distinct(t)
    BY <1>1, <1>3, <1>4 DEF Distinct
  <1>6. Range(t) \subseteq Range(s)
    BY <1>3, <1>4 DEF Range
  <1> QED
    BY <1>2, <1>5, <1>6

\* A list of distinct members stays one when another member is added.
LEMMA DistinctGrows ==
  ASSUME NEW S, NEW s \in Seq(S), Distinct(s), NEW x \in S, x \notin Range(s)
  PROVE  LET t == Append(s, x)
         IN  t \in Seq(S) /\ Distinct(t) /\ Range(t) = Range(s) \cup {x} /\ Len(t) = Len(s) + 1
  <1> DEFINE t == Append(s, x)
  <1>1. Len(s) \in Nat /\ DOMAIN s = 1 .. Len(s)
    OBVIOUS
  <1>2. t \in Seq(S) /\ Len(t) = Len(s) + 1 /\ DOMAIN t = 1 .. Len(s) + 1
    BY <1>1
  <1>3. t[Len(s) + 1] = x /\ \A j \in 1 .. Len(s) : t[j] = s[j]
    BY <1>1
  <1>4. Distinct(t)
    BY <1>1, <1>2, <1>3 DEF Distinct, Range
  <1>5. Range(t) = Range(s) \cup {x}
    <2>1. \A j \in DOMAIN t : t[j] \in Range(s) \cup {x}
      BY <1>1, <1>2, <1>3 DEF Range
    <2>2. \A j \in DOMAIN s : s[j] = t[j] /\ j \in DOMAIN t
      BY <1>1, <1>2, <1>3
    <2>3. Len(s) + 1 \in DOMAIN t
      BY <1>1, <1>2
    <2> QED
      BY <1>3, <2>1, <2>2, <2>3 DEF Range
  <1> QED
    BY <1>2, <1>4, <1>5

\* What was in force at a date stays so when time passes and labels are renamed.
LEMMA NamesStay ==
  ASSUME RenamesSound, NEW n, NamesSound(n), now' \in Nat, now <= now', renamed' \in [MailAccounts -> Seq(Nat)],
         \A a \in MailAccounts : \A i \in DOMAIN renamed[a] : i \in DOMAIN renamed'[a] /\ renamed'[a][i] = renamed[a][i],
         \A a \in MailAccounts : \A i \in DOMAIN renamed'[a] : i \in DOMAIN renamed[a] \/ now <= renamed'[a][i]
  PROVE  NamesSound(n)'
  <1>1. PICK a \in MailAccounts : a = n.by.account
    BY DEF NamesSound, LabelKeys
  <1>2. PICK b \in Seq(Nat) : b = renamed[a]
    BY DEF RenamesSound
  <1>3. PICK c \in Seq(Nat) : c = renamed'[a]
    OBVIOUS
  <1>4. /\ n.version \in 1 .. Len(b) /\ b[n.version] <= n.at /\ n.asked <= n.at
        /\ n.version < Len(b) => n.asked <= b[n.version + 1]
    BY <1>1, <1>2 DEF NamesSound, InForce
  <1>5. /\ \A i \in DOMAIN b : i \in DOMAIN c /\ c[i] = b[i]
        /\ \A i \in DOMAIN c : i \in DOMAIN b \/ now <= c[i]
    BY <1>2, <1>3
  <1>6. n.asked \in Nat /\ n.at \in Nat /\ n.at <= now /\ now \in Nat
    BY DEF NamesSound, RenamesSound
  <1>7. DOMAIN b = 1 .. Len(b) /\ DOMAIN c = 1 .. Len(c) /\ Len(b) \in Nat /\ Len(c) \in Nat
    OBVIOUS
  <1>10. n.asked <= now
    BY <1>4, <1>6
  <1>8. n.version \in 1 .. Len(c) /\ c[n.version] <= n.at
    BY <1>4, <1>5, <1>7
  <1>9. ASSUME n.version < Len(c) PROVE n.asked <= c[n.version + 1]
    <2>1. n.version + 1 \in DOMAIN c /\ c[n.version + 1] \in Nat
      BY <1>7, <1>8, <1>9
    <2>2. CASE n.version + 1 \in DOMAIN b
      BY <1>4, <1>5, <1>7, <2>2
    <2>3. CASE now <= c[n.version + 1]
      <3>1. PICK asked \in Nat : asked = n.asked
        BY <1>6
      <3>2. PICK next \in Nat : next = c[n.version + 1]
        BY <2>1
      <3>3. now \in Nat /\ asked <= now /\ now <= next
        BY <1>6, <1>10, <2>3, <3>1, <3>2
      <3>4. asked <= next
        BY <3>3
      <3> QED
        BY <3>1, <3>2, <3>4, Zenon
    <2> QED
      BY <1>5, <2>1, <2>2, <2>3
  <1> QED
    BY <1>1, <1>3, <1>4, <1>6, <1>8, <1>9 DEF NamesSound, InForce

\* Names that are dated later were still in force since they were asked for.
LEMMA DatedLater ==
  ASSUME RenamesSound, NEW n, NamesSound(n), NEW m, m = [n EXCEPT !.at = now]
  PROVE  NamesSound(m) /\ m.by = n.by /\ m.version = n.version /\ m.at = now
  <1>1. /\ DOMAIN m = DOMAIN n /\ m.by = n.by /\ m.version = n.version /\ m.asked = n.asked /\ m.at = now
    BY DEF NamesSound
  <1>2. PICK a \in MailAccounts : a = n.by.account
    BY DEF NamesSound, LabelKeys
  <1>3. PICK b \in Seq(Nat) : b = renamed[a]
    BY DEF RenamesSound
  <1>4. /\ n.version \in 1 .. Len(b) /\ b[n.version] <= n.at /\ n.asked <= n.at
        /\ n.version < Len(b) => n.asked <= b[n.version + 1]
    BY <1>2, <1>3 DEF NamesSound, InForce
  <1>5. n.asked \in Nat /\ n.at \in Nat /\ n.at <= now /\ now \in Nat /\ b[n.version] \in Nat
    BY <1>4 DEF NamesSound, RenamesSound
  <1>6. b[n.version] <= now /\ n.asked <= now
    BY <1>4, <1>5
  <1> QED
    BY <1>1, <1>2, <1>3, <1>4, <1>5, <1>6 DEF NamesSound, InForce

\* What moves only the world leaves calls and cache sound.
LEMMA WorldMoves ==
  ASSUME SearchInv, RenamesSound', UNCHANGED <<entries, order, searches>>, now <= now',
         \A n : NamesSound(n) => NamesSound(n)'
  PROVE  SearchInv'
  <1>1. CacheSound'
    BY DEF SearchInv, CacheSound
  <1>2. ASSUME NEW k \in DOMAIN searches PROVE SearchSound(searches[k])'
    <2>1. PICK s : s = searches[k]
      OBVIOUS
    <2>2. SearchSound(s)
      BY <2>1 DEF SearchInv
    <2>3. now \in Nat /\ now' \in Nat
      BY DEF SearchInv, RenamesSound
    <2>4. s.stage = "fetch" => s.read.asked \in Nat /\ s.read.asked <= now'
      BY <2>2, <2>3 DEF SearchSound
    <2>5. SearchSound(s)'
      BY <2>2, <2>4 DEF SearchSound
    <2> QED
      BY <2>1, <2>5
  <1> QED
    BY <1>1, <1>2 DEF SearchInv

\* A step of one call disturbs no other.
LEMMA SearchMoves ==
  ASSUME SearchInv, NEW k \in DOMAIN searches, UNCHANGED <<now, generation, renamed>>, CacheSound',
         searches' = [i \in DOMAIN searches |-> searches'[i]],
         \A i \in DOMAIN searches : i # k => searches'[i] = searches[i],
         SearchSound(searches[k])'
  PROVE  SearchInv'
  <1>1. IsList(searches') /\ DOMAIN searches' = DOMAIN searches
    BY ListChanges DEF SearchInv
  <1>2. ASSUME NEW i \in DOMAIN searches, i # k PROVE SearchSound(searches[i])'
    <2>1. PICK s : s = searches[i]
      OBVIOUS
    <2>2. SearchSound(s)
      BY <2>1 DEF SearchInv
    <2>3. SearchSound(s)'
      BY <2>2 DEF SearchSound, NamesSound, InForce
    <2> QED
      BY <1>2, <2>1, <2>3
  <1>3. RenamesSound'
    BY DEF SearchInv, RenamesSound
  <1> QED
    BY <1>1, <1>2, <1>3 DEF SearchInv

\* A cache that is not touched stays sound.
LEMMA CacheStays ==
  ASSUME SearchInv, UNCHANGED <<now, renamed, entries, order>>
  PROVE  CacheSound'
  BY DEF SearchInv, CacheSound, NamesSound, InForce

\* An entry that has expired is removed with its place (cache.go get).
LEMMA GetKeeps ==
  ASSUME SearchInv, UNCHANGED <<now, renamed>>, NEW key, Get(key)
  PROVE  CacheSound'
  <1>1. CASE UNCHANGED <<entries, order>>
    BY <1>1, CacheStays
  <1>2. CASE /\ key \in DOMAIN entries /\ entries' = DropKey(entries, key)
             /\ order' = Seqs!RemoveFirst(order, key)
    <2>1. order' \in Seq(LabelKeys) /\ Distinct(order') /\ Range(order') = Range(order) \ {key} /\ Len(order') <= Len(order)
      BY <1>2, RemovedFirst DEF SearchInv, CacheSound
    <2>2. DOMAIN entries' = DOMAIN entries \ {key} /\ \A x \in DOMAIN entries' : entries'[x] = entries[x]
      BY <1>2 DEF DropKey
    <2>3. Len(order') <= CacheLimit
      BY <2>1, SearchBounds DEF SearchInv, CacheSound
    <2>4. \A n : NamesSound(n) => NamesSound(n)'
      BY DEF NamesSound, InForce
    <2>5. \A x \in DOMAIN entries' : NamesSound(entries'[x]) /\ entries'[x].by = x
      BY <2>2 DEF SearchInv, CacheSound
    <2>6. \A x \in DOMAIN entries' : NamesSound(entries[x])' /\ entries'[x].by = x
      BY <2>4, <2>5
    <2> QED
      BY <2>1, <2>2, <2>3, <2>6 DEF SearchInv, CacheSound
  <1> QED
    BY <1>1, <1>2 DEF Get

\* Fetched names are kept under their key; beyond the limit the oldest go (cache.go set).
LEMMA SetKeeps ==
  ASSUME SearchInv, UNCHANGED <<now, renamed>>, NEW key \in LabelKeys, NEW names, NamesSound(names), names.by = key,
         Set(key, names)
  PROVE  CacheSound'
  <1>1. PICK ordered : ordered = IF key \in DOMAIN entries THEN order ELSE Append(order, key)
    OBVIOUS
  <1>2. order \in Seq(LabelKeys) /\ Distinct(order) /\ Range(order) = DOMAIN entries /\ Len(order) \in Nat
    BY DEF SearchInv, CacheSound
  <1>3. ordered \in Seq(LabelKeys) /\ Distinct(ordered) /\ Range(ordered) = DOMAIN entries \cup {key}
    <2>1. CASE key \in DOMAIN entries
      BY <1>1, <1>2, <2>1
    <2>2. CASE key \notin DOMAIN entries
      <3>1. ordered = Append(order, key) /\ key \notin Range(order)
        BY <1>1, <1>2, <2>2
      <3>2. ordered \in Seq(LabelKeys) /\ Distinct(ordered) /\ Range(ordered) = Range(order) \cup {key}
        <4>1. /\ order \in Seq(LabelKeys) /\ Distinct(order) /\ key \in LabelKeys /\ key \notin Range(order)
              /\ ordered = Append(order, key)
          BY <1>2, <3>1
        <4> QED
          BY <4>1, DistinctGrows
      <3> QED
        BY <1>2, <3>2
    <2> QED
      BY <2>1, <2>2
  <1>4. PICK i : i = IF Len(ordered) > CacheLimit THEN Len(ordered) - CacheLimit + 1 ELSE 1
    OBVIOUS
  <1>5. Len(ordered) \in Nat
    BY <1>3
  <1>6. i \in Nat /\ 1 <= i /\ i <= Len(ordered) + 1 /\ Len(ordered) - i + 1 <= CacheLimit
    BY <1>4, <1>5, SearchBounds
  <1>7. order' = SubSeq(ordered, i, Len(ordered))
    BY <1>1, <1>4 DEF Set
  <1>8. order' \in Seq(LabelKeys) /\ Distinct(order') /\ Range(order') \subseteq Range(ordered) /\ Len(order') <= CacheLimit
    BY <1>3, <1>6, <1>7, LastOfDistinct
  <1>9. entries' = [k \in (DOMAIN entries \cup {key}) \ (Range(ordered) \ Range(order')) |->
                       IF k = key THEN names ELSE entries[k]]
    BY <1>1, <1>4, <1>7 DEF Set
  <1>10. DOMAIN entries' = Range(order')
    BY <1>3, <1>8, <1>9
  <1>11. ASSUME NEW x \in DOMAIN entries' PROVE NamesSound(entries[x])' /\ entries'[x].by = x
    <2>1. PICK n : n = entries'[x]
      OBVIOUS
    <2>2. n = IF x = key THEN names ELSE entries[x]
      BY <1>9, <2>1
    <2>3. x \in DOMAIN entries \cup {key}
      BY <1>9
    <2>4. NamesSound(n) /\ n.by = x
      BY <2>2, <2>3 DEF SearchInv, CacheSound
    <2>5. NamesSound(n)'
      BY <2>4 DEF NamesSound, InForce
    <2> QED
      BY <2>1, <2>4, <2>5
  <1> QED
    BY <1>8, <1>10, <1>11 DEF CacheSound

\* A call starts with no names.
LEMMA StartSearchKeeps ==
  ASSUME SearchInv, NEW kind, NEW list, NEW a \in MailAccounts,
         StartSearch(kind, [account |-> a, generation |-> generation[a]], list)
  PROVE  SearchInv'
  <1>1. PICK id : id = [account |-> a, generation |-> generation[a]]
    OBVIOUS
  <1>2. id \in LabelKeys
    BY <1>1 DEF SearchInv, RenamesSound, LabelKeys
  <1>3. PICK s : s = [kind |-> kind, id |-> id, list |-> list, stage |-> "labels",
                      read |-> NoNames, names |-> NoNames, cached |-> FALSE, used |-> 0, outcome |-> "",
                      items |-> <<>>, fetch |-> [i \in DOMAIN list |-> "waiting"]]
    OBVIOUS
  <1>4. PICK n : n = Len(searches) + 1
    OBVIOUS
  <1>5. searches' = Append(searches, s) /\ UNCHANGED <<now, generation, renamed, entries, order>>
    BY <1>1, <1>3, Zenon DEF StartSearch
  <1>6. /\ DOMAIN s = {"kind", "id", "list", "stage", "read", "names", "cached", "used", "outcome", "items", "fetch"}
        /\ s.id = id /\ s.stage = "labels" /\ s.read = NoNames /\ s.names = NoNames /\ ~s.cached
    BY <1>3
  <1>7. /\ IsList(searches') /\ DOMAIN searches' = DOMAIN searches \cup {n} /\ n \notin DOMAIN searches
        /\ searches'[n] = s /\ \A i \in DOMAIN searches : searches'[i] = searches[i]
    BY <1>4, <1>5, ListGrows DEF SearchInv
  <1>8. \A m : NamesSound(m) => NamesSound(m)'
    BY <1>5 DEF NamesSound, InForce
  <1>9. SearchSound(s)'
    BY <1>2, <1>6 DEF SearchSound
  <1>10. ASSUME NEW i \in DOMAIN searches' PROVE SearchSound(searches[i])'
    <2>1. CASE i = n
      BY <1>7, <1>9, <2>1
    <2>2. CASE i # n
      <3>1. PICK t : t = searches[i]
        OBVIOUS
      <3>2. SearchSound(t) /\ t = searches'[i]
        BY <1>7, <1>10, <2>2, <3>1 DEF SearchInv
      <3>3. SearchSound(t)'
        BY <1>5, <1>8, <3>2 DEF SearchSound
      <3> QED
        BY <3>2, <3>3
    <2> QED
      BY <2>1, <2>2
  <1>11. CacheSound' /\ RenamesSound'
    BY <1>5, CacheStays DEF SearchInv, RenamesSound
  <1> QED
    BY <1>7, <1>10, <1>11 DEF SearchInv

\* The names a call goes on with are its own connection's (HaveLabels).
LEMMA HaveLabelsKeeps ==
  ASSUME SearchInv, NEW k \in DOMAIN searches, NEW names, NEW cached \in BOOLEAN,
         names # NoNames => NamesSound(names) /\ names.by = searches[k].id /\ (cached => now - names.at < LabelTTL),
         HaveLabels(k, names, cached), UNCHANGED <<now, generation, renamed>>, CacheSound'
  PROVE  SearchInv'
  <1>1. SearchSound(searches[k])
    BY DEF SearchInv
  <1>2. searches' = [searches EXCEPT ![k].stage = "messages", ![k].names = names, ![k].cached = cached, ![k].used = now]
    BY DEF HaveLabels
  <1>3. searches'[k] = [searches[k] EXCEPT !.stage = "messages", !.names = names, !.cached = cached, !.used = now]
    BY <1>2
  <1>4. /\ DOMAIN searches'[k] = DOMAIN searches[k] /\ searches'[k].id = searches[k].id
        /\ searches'[k].stage = "messages" /\ searches'[k].names = names
        /\ searches'[k].cached = cached /\ searches'[k].used = now
    BY <1>1, <1>3 DEF SearchSound
  <1>5. NamesSound(names) => NamesSound(names)'
    BY DEF NamesSound, InForce
  <1>6. SearchSound(searches[k])'
    BY <1>1, <1>4, <1>5 DEF SearchSound
  <1>7. /\ searches' = [i \in DOMAIN searches |-> searches'[i]]
        /\ \A i \in DOMAIN searches : i # k => searches'[i] = searches[i]
    BY <1>2
  <1> QED
    BY <1>6, <1>7, SearchMoves

\* A step that leaves a call's names alone, and does not go back to before it has any.
LEMMA NamesKept ==
  ASSUME SearchInv, NEW k \in DOMAIN searches, UNCHANGED <<now, generation, renamed, entries, order>>,
         searches' = [i \in DOMAIN searches |-> searches'[i]],
         \A i \in DOMAIN searches : i # k => searches'[i] = searches[i],
         DOMAIN searches'[k] = DOMAIN searches[k],
         \A f \in {"id", "read", "names", "cached", "used"} : searches'[k][f] = searches[k][f],
         searches'[k].stage \in {"messages", "done", searches[k].stage}
  PROVE  SearchInv'
  <1>1. SearchSound(searches[k])
    BY DEF SearchInv
  <1>2. PICK s : s = searches[k]
    OBVIOUS
  <1>3. PICK t : t = searches'[k]
    OBVIOUS
  <1>4. SearchSound(s) /\ DOMAIN t = DOMAIN s /\ t.id = s.id /\ t.read = s.read /\ t.names = s.names /\ t.cached = s.cached
        /\ t.used = s.used /\ t.stage \in {"messages", "done", s.stage}
    BY <1>1, <1>2, <1>3
  <1>5. \A n : NamesSound(n) => NamesSound(n)'
    BY DEF NamesSound, InForce
  <1>6. SearchSound(t)'
    BY <1>4, <1>5 DEF SearchSound
  <1>7. SearchSound(searches[k])'
    BY <1>3, <1>6
  <1> QED
    BY <1>7, CacheStays, SearchMoves

\* Labels come from the cache when they are fresh (search).
LEMMA ReadLabelsKeeps ==
  ASSUME SearchInv, NEW k \in DOMAIN searches, ReadLabels(k)
  PROVE  SearchInv'
  <1>1. SearchSound(searches[k])
    BY DEF SearchInv
  <1>2. PICK key : key = searches[k].id
    OBVIOUS
  <1>3. /\ searches[k].stage = "labels" /\ Get(key) /\ UNCHANGED <<now, generation, renamed>>
        /\ IF Fresh(key) THEN HaveLabels(k, entries[key], TRUE)
           ELSE searches' = [searches EXCEPT ![k].stage = "fetch", ![k].read.asked = now]
    BY <1>2 DEF ReadLabels, LabelKey
  <1>4. CacheSound'
    BY <1>3, GetKeeps
  <1>5. CASE Fresh(key)
    <2>1. PICK names : names = entries[key]
      OBVIOUS
    <2>2. NamesSound(names) /\ names.by = key /\ now - names.at < LabelTTL
      BY <1>5, <2>1 DEF SearchInv, CacheSound, Fresh
    <2>3. HaveLabels(k, names, TRUE)
      BY <1>3, <1>5, <2>1
    <2>4. TRUE \in BOOLEAN
      OBVIOUS
    <2> DEFINE yes == TRUE
    <2>5. yes \in BOOLEAN /\ HaveLabels(k, names, yes)
      BY <2>3
    <2> HIDE DEF yes
    <2> QED
      BY <1>2, <1>3, <1>4, <2>2, <2>5, HaveLabelsKeeps
  <1>6. CASE ~Fresh(key)
    <2>1. searches' = [searches EXCEPT ![k].stage = "fetch", ![k].read.asked = now]
      BY <1>3, <1>6
    <2>2. searches'[k] = [searches[k] EXCEPT !.stage = "fetch", !.read.asked = now]
      BY <2>1
    <2>3. /\ DOMAIN searches'[k] = DOMAIN searches[k] /\ searches'[k].id = searches[k].id
          /\ searches'[k].names = searches[k].names /\ searches'[k].cached = searches[k].cached
          /\ searches'[k].used = searches[k].used /\ searches'[k].stage = "fetch"
          /\ searches'[k].read.asked = now
      <3>1. searches[k].read = NoNames /\ "asked" \in DOMAIN NoNames
        BY <1>1, <1>3 DEF SearchSound, NoNames
      <3>2. DOMAIN searches[k] = {"kind", "id", "list", "stage", "read", "names", "cached", "used", "outcome", "items", "fetch"}
        BY <1>1 DEF SearchSound
      <3> QED
        BY <2>2, <3>1, <3>2
    <2>4. PICK s : s = searches[k]
      OBVIOUS
    <2>5. PICK t : t = searches'[k]
      OBVIOUS
    <2>6. SearchSound(s) /\ s.stage = "labels" /\ DOMAIN t = DOMAIN s /\ t.id = s.id /\ t.names = s.names
          /\ t.cached = s.cached /\ t.used = s.used /\ t.stage = "fetch" /\ t.read.asked = now
      BY <1>1, <1>3, <2>3, <2>4, <2>5
    <2>7. \A n : NamesSound(n) => NamesSound(n)'
      BY <1>3 DEF NamesSound, InForce
    <2>8. SearchSound(t)'
      <3>1. now \in Nat /\ now' = now
        BY <1>3 DEF SearchInv, RenamesSound
      <3> QED
        BY <2>6, <2>7, <3>1 DEF SearchSound
    <2>9. SearchSound(searches[k])'
      BY <2>5, <2>8
    <2>10. /\ searches' = [i \in DOMAIN searches |-> searches'[i]]
           /\ \A i \in DOMAIN searches : i # k => searches'[i] = searches[i]
      BY <2>1
    <2> QED
      BY <1>3, <1>4, <2>9, <2>10, SearchMoves
  <1> QED
    BY <1>5, <1>6

\* The names Google reads are in force then (fetchLabelNames).
LEMMA FetchLabelNamesKeeps ==
  ASSUME SearchInv, NEW k \in DOMAIN searches, FetchLabelNames(k)
  PROVE  SearchInv'
  <1>1. PICK s : s = searches[k]
    OBVIOUS
  <1>2. SearchSound(s)
    BY <1>1 DEF SearchInv
  <1>3. PICK n : n = [by |-> s.id, version |-> Len(renamed[s.id.account]), asked |-> s.read.asked, at |-> now]
    OBVIOUS
  <1>4. /\ s.stage = "fetch" /\ UNCHANGED <<now, generation, renamed, entries, order>>
        /\ searches' = [searches EXCEPT ![k].stage = "answered", ![k].read = n]
    BY <1>1, <1>3, Zenon DEF FetchLabelNames
  <1>5. /\ DOMAIN n = {"by", "version", "asked", "at"} /\ n.by = s.id /\ n.at = now
        /\ n.version = Len(renamed[n.by.account]) /\ n.asked = s.read.asked
    BY <1>3
  <1>6. PICK a \in MailAccounts : a = n.by.account /\ n.by \in LabelKeys
    BY <1>2, <1>5 DEF SearchSound, LabelKeys
  <1>7. PICK b \in Seq(Nat) : b = renamed[a] /\ Len(b) >= 1 /\ \A i \in DOMAIN b : b[i] <= now
    BY DEF SearchInv, RenamesSound
  <1>8. Len(b) \in DOMAIN b /\ Len(b) \in 1 .. Len(b) /\ ~(Len(b) < Len(b))
    BY <1>7
  <1>9. n.asked \in Nat /\ n.asked <= now /\ now \in Nat
    BY <1>2, <1>4, <1>5 DEF SearchSound, SearchInv, RenamesSound
  <1>10. NamesSound(n)
    BY <1>5, <1>6, <1>7, <1>8, <1>9 DEF NamesSound, InForce
  <1>11. PICK t : t = searches'[k]
    OBVIOUS
  <1>12. t = [s EXCEPT !.stage = "answered", !.read = n]
    BY <1>1, <1>4, <1>11
  <1>13. /\ DOMAIN t = DOMAIN s /\ t.id = s.id /\ t.names = s.names /\ t.read = n
         /\ t.cached = s.cached /\ t.used = s.used /\ t.stage = "answered"
    BY <1>2, <1>12 DEF SearchSound
  <1>14. \A m : NamesSound(m) => NamesSound(m)'
    BY <1>4 DEF NamesSound, InForce
  <1>15. SearchSound(t)'
    BY <1>2, <1>4, <1>5, <1>10, <1>13, <1>14 DEF SearchSound
  <1>16. SearchSound(searches[k])'
    BY <1>11, <1>15
  <1>17. /\ searches' = [i \in DOMAIN searches |-> searches'[i]]
         /\ \A i \in DOMAIN searches : i # k => searches'[i] = searches[i]
    BY <1>4
  <1> QED
    BY <1>4, <1>16, <1>17, CacheStays, SearchMoves

\* The answer is dated when it has arrived, not before the names were read.
LEMMA DateLabelsKeeps ==
  ASSUME SearchInv, NEW k \in DOMAIN searches, DateLabels(k)
  PROVE  SearchInv'
  <1>1. PICK s : s = searches[k]
    OBVIOUS
  <1>2. SearchSound(s)
    BY <1>1 DEF SearchInv
  <1>3. PICK n : n = [s.read EXCEPT !.at = now]
    OBVIOUS
  <1>4. /\ s.stage = "answered" /\ UNCHANGED <<now, generation, renamed, entries, order>>
        /\ searches' = [searches EXCEPT ![k].stage = "store", ![k].read = NoNames, ![k].names = n]
    BY <1>1, <1>3, Zenon DEF DateLabels
  <1>5. NamesSound(s.read) /\ s.read.by = s.id
    BY <1>2, <1>4 DEF SearchSound
  <1>6. NamesSound(n) /\ n.by = s.id
    BY <1>3, <1>5, DatedLater DEF SearchInv
  <1>7. n # NoNames
    <2>1. n.version \in 1 .. Len(renamed[n.by.account])
      BY <1>6 DEF NamesSound
    <2>2. NoNames.version = 0
      BY DEF NoNames
    <2> QED
      BY <2>1, <2>2
  <1>8. PICK t : t = searches'[k]
    OBVIOUS
  <1>9. t = [s EXCEPT !.stage = "store", !.read = NoNames, !.names = n]
    BY <1>1, <1>4, <1>8
  <1>10. /\ DOMAIN t = DOMAIN s /\ t.id = s.id /\ t.names = n
         /\ t.cached = s.cached /\ t.stage = "store"
    BY <1>2, <1>9 DEF SearchSound
  <1>11. NamesSound(n)'
    BY <1>4, <1>6 DEF NamesSound, InForce
  <1>12. SearchSound(t)'
    BY <1>2, <1>4, <1>6, <1>7, <1>10, <1>11 DEF SearchSound
  <1>13. SearchSound(searches[k])'
    BY <1>8, <1>12
  <1>14. /\ searches' = [i \in DOMAIN searches |-> searches'[i]]
         /\ \A i \in DOMAIN searches : i # k => searches'[i] = searches[i]
    BY <1>4
  <1> QED
    BY <1>4, <1>13, <1>14, CacheStays, SearchMoves

\* What was fetched is stored for the calls of the same connection.
LEMMA StoreLabelsKeeps ==
  ASSUME SearchInv, NEW k \in DOMAIN searches, StoreLabels(k)
  PROVE  SearchInv'
  <1>1. SearchSound(searches[k])
    BY DEF SearchInv
  <1>2. PICK names : names = searches[k].names
    OBVIOUS
  <1>3. PICK key : key = searches[k].id
    OBVIOUS
  <1>4. /\ searches[k].stage = "store" /\ Set(key, names) /\ HaveLabels(k, names, FALSE)
        /\ UNCHANGED <<now, generation, renamed>>
    BY <1>2, <1>3 DEF StoreLabels, LabelKey
  <1>5. key \in LabelKeys /\ NamesSound(names) /\ names.by = key
    BY <1>1, <1>2, <1>3, <1>4 DEF SearchSound
  <1>6. CacheSound'
    BY <1>4, <1>5, SetKeeps
  <1> DEFINE no == FALSE
  <1>7. no \in BOOLEAN /\ HaveLabels(k, names, no) /\ ~no
    BY <1>4
  <1> HIDE DEF no
  <1> QED
    BY <1>3, <1>4, <1>5, <1>6, <1>7, HaveLabelsKeeps

\* Reading the messages, collecting them and failing change no names.
LEMMA MessagesKeep ==
  ASSUME SearchInv, NEW k \in DOMAIN searches,
         \/ CollectMessages(k) \/ FailSearch(k) \/ ShowThread(k)
         \/ \E i \in DOMAIN searches[k].list : AcquireFetch(k, i) \/ EndFetch(k, i)
  PROVE  SearchInv'
  <1>1. DOMAIN searches[k] = {"kind", "id", "list", "stage", "read", "names", "cached", "used", "outcome", "items", "fetch"}
    BY DEF SearchInv, SearchSound
  <1>2. CASE \E i \in DOMAIN searches[k].list : AcquireFetch(k, i) \/ EndFetch(k, i)
    <2>1. PICK i \in DOMAIN searches[k].list : AcquireFetch(k, i) \/ EndFetch(k, i)
      BY <1>2
    <2>2. PICK to : searches' = [searches EXCEPT ![k].fetch[i] = to]
      BY <2>1 DEF AcquireFetch, EndFetch
    <2>3. searches'[k] = [searches[k] EXCEPT !.fetch[i] = to]
      BY <2>2
    <2>4. /\ DOMAIN searches'[k] = DOMAIN searches[k]
          /\ \A f \in {"id", "read", "names", "cached", "used", "stage"} : searches'[k][f] = searches[k][f]
      BY <1>1, <2>3
    <2>5. /\ searches' = [j \in DOMAIN searches |-> searches'[j]]
          /\ \A j \in DOMAIN searches : j # k => searches'[j] = searches[j]
      BY <2>2
    <2>6. UNCHANGED <<now, generation, renamed, entries, order>>
      BY <2>1 DEF AcquireFetch, EndFetch
    <2> QED
      BY <2>4, <2>5, <2>6, NamesKept
  <1>3. ASSUME NEW outcome, NEW fetch, NEW items, UNCHANGED <<now, generation, renamed, entries, order>>,
               searches' = [searches EXCEPT ![k].stage = "done", ![k].outcome = outcome, ![k].fetch = fetch,
                              ![k].items = items]
        PROVE  SearchInv'
    <2>1. searches'[k] = [searches[k] EXCEPT !.stage = "done", !.outcome = outcome, !.fetch = fetch, !.items = items]
      BY <1>3
    <2>2. /\ DOMAIN searches'[k] = DOMAIN searches[k] /\ searches'[k].stage = "done"
          /\ \A f \in {"id", "read", "names", "cached", "used"} : searches'[k][f] = searches[k][f]
      BY <1>1, <2>1
    <2>3. /\ searches' = [j \in DOMAIN searches |-> searches'[j]]
          /\ \A j \in DOMAIN searches : j # k => searches'[j] = searches[j]
      BY <1>3
    <2> QED
      BY <1>3, <2>2, <2>3, NamesKept
  <1>4. ASSUME NEW outcome, UNCHANGED <<now, generation, renamed, entries, order>>,
               searches' = [searches EXCEPT ![k].stage = "done", ![k].outcome = outcome]
        PROVE  SearchInv'
    <2>1. searches'[k] = [searches[k] EXCEPT !.stage = "done", !.outcome = outcome]
      BY <1>4
    <2>2. /\ DOMAIN searches'[k] = DOMAIN searches[k] /\ searches'[k].stage = "done"
          /\ \A f \in {"id", "read", "names", "cached", "used"} : searches'[k][f] = searches[k][f]
      BY <1>1, <2>1
    <2>3. /\ searches' = [j \in DOMAIN searches |-> searches'[j]]
          /\ \A j \in DOMAIN searches : j # k => searches'[j] = searches[j]
      BY <1>4
    <2> QED
      BY <1>4, <2>2, <2>3, NamesKept
  <1>5. ASSUME NEW outcome, NEW x, UNCHANGED <<now, generation, renamed, entries, order>>,
               \/ searches' = [searches EXCEPT ![k].stage = "done", ![k].outcome = outcome, ![k].fetch = x]
               \/ searches' = [searches EXCEPT ![k].stage = "done", ![k].outcome = outcome, ![k].items = x]
        PROVE  SearchInv'
    <2>1. \/ searches'[k] = [searches[k] EXCEPT !.stage = "done", !.outcome = outcome, !.fetch = x]
          \/ searches'[k] = [searches[k] EXCEPT !.stage = "done", !.outcome = outcome, !.items = x]
      BY <1>5
    <2>2. /\ DOMAIN searches'[k] = DOMAIN searches[k] /\ searches'[k].stage = "done"
          /\ \A g \in {"id", "read", "names", "cached", "used"} : searches'[k][g] = searches[k][g]
      BY <1>1, <2>1
    <2>3. /\ searches' = [j \in DOMAIN searches |-> searches'[j]]
          /\ \A j \in DOMAIN searches : j # k => searches'[j] = searches[j]
      BY <1>5
    <2> QED
      BY <1>5, <2>2, <2>3, NamesKept
  <1>6. CASE CollectMessages(k)
    <2>1. UNCHANGED <<now, generation, renamed, entries, order>>
      BY <1>6 DEF CollectMessages
    <2>2. PICK shown : shown = SelectSeq(searches[k].list, LAMBDA m : m # "")
      OBVIOUS
    <2>3. \/ searches' = [searches EXCEPT ![k].stage = "done", ![k].outcome = "failed", ![k].fetch = <<>>]
          \/ searches' = [searches EXCEPT ![k].stage = "done", ![k].outcome = "done", ![k].fetch = <<>>,
                            ![k].items = shown]
      BY <1>6, <2>2, Zenon DEF CollectMessages
    <2>4. CASE searches' = [searches EXCEPT ![k].stage = "done", ![k].outcome = "failed", ![k].fetch = <<>>]
      BY <1>5, <2>1, <2>4
    <2>5. CASE searches' = [searches EXCEPT ![k].stage = "done", ![k].outcome = "done", ![k].fetch = <<>>,
                              ![k].items = shown]
      BY <1>3, <2>1, <2>5
    <2> QED
      BY <2>3, <2>4, <2>5
  <1>7. CASE ShowThread(k)
    BY <1>3, <1>5, <1>7 DEF ShowThread
  <1>8. CASE FailSearch(k)
    BY <1>4, <1>8 DEF FailSearch
  <1> QED
    BY <1>2, <1>6, <1>7, <1>8

\* Every step of the searches keeps the invariant.
LEMMA SearchInvNext == SearchInv /\ [SearchNext]_searchVars => SearchInv'
  <1> SUFFICES ASSUME SearchInv, [SearchNext]_searchVars PROVE SearchInv'
    OBVIOUS
  <1>1. CASE \E kind \in {"search", "thread"}, a \in MailAccounts, list \in Lists :
                StartSearch(kind, [account |-> a, generation |-> generation[a]], list)
    BY <1>1, StartSearchKeeps
  <1>2. CASE \E k \in DOMAIN searches :
                \/ ReadLabels(k) \/ FetchLabelNames(k) \/ DateLabels(k) \/ StoreLabels(k)
                \/ CollectMessages(k) \/ FailSearch(k)
                \/ \E i \in DOMAIN searches[k].list : AcquireFetch(k, i) \/ EndFetch(k, i)
                \/ ShowThread(k)
    BY <1>2, ReadLabelsKeeps, FetchLabelNamesKeeps, DateLabelsKeeps, StoreLabelsKeeps, MessagesKeep
  <1>3. ASSUME NEW a \in MailAccounts, RenameLabels(a) PROVE SearchInv'
    <2>1. PICK b \in Seq(Nat) : b = renamed[a]
      BY DEF SearchInv, RenamesSound
    <2>2. PICK c : c = Append(b, now)
      OBVIOUS
    <2>3. /\ renamed' = [renamed EXCEPT ![a] = c] /\ UNCHANGED <<now, generation, entries, order, searches>>
      BY <1>3, <2>1, <2>2 DEF RenameLabels
    <2>4. now \in Nat /\ renamed \in [MailAccounts -> Seq(Nat)]
      BY DEF SearchInv, RenamesSound
    <2>5. /\ c \in Seq(Nat) /\ Len(c) = Len(b) + 1 /\ Len(b) \in Nat
          /\ c[Len(b) + 1] = now /\ \A i \in 1 .. Len(b) : c[i] = b[i]
      BY <2>1, <2>2, <2>4
    <2>6. DOMAIN b = 1 .. Len(b) /\ DOMAIN c = 1 .. Len(b) + 1
      BY <2>1, <2>5
    <2>7. /\ \A i \in DOMAIN b : i \in DOMAIN c /\ c[i] = b[i]
          /\ \A i \in DOMAIN c : i \in DOMAIN b \/ c[i] = now
      BY <2>5, <2>6
    <2>8. renamed' \in [MailAccounts -> Seq(Nat)]
      BY <2>3, <2>4, <2>5
    <2>9. ASSUME NEW x \in MailAccounts
          PROVE  /\ \A i \in DOMAIN renamed[x] : i \in DOMAIN renamed'[x] /\ renamed'[x][i] = renamed[x][i]
                 /\ \A i \in DOMAIN renamed'[x] : i \in DOMAIN renamed[x] \/ renamed'[x][i] = now
      BY <2>1, <2>3, <2>4, <2>7
    <2>10. ASSUME NEW n, NamesSound(n) PROVE NamesSound(n)'
      <3>1. now' \in Nat /\ now <= now'
        BY <2>3, <2>4
      <3>2. \A x \in MailAccounts : \A i \in DOMAIN renamed'[x] : i \in DOMAIN renamed[x] \/ now <= renamed'[x][i]
        BY <2>4, <2>9
      <3> QED
        BY <2>8, <2>9, <2>10, <3>1, <3>2, NamesStay DEF SearchInv
    <2>11. RenamesSound'
      <3>1. Len(b) >= 1 /\ \A i \in DOMAIN b : b[i] <= now
        BY <2>1 DEF SearchInv, RenamesSound
      <3>2. Len(c) >= 1 /\ \A i \in DOMAIN c : c[i] <= now
        <4>1. Len(c) >= 1
          BY <2>5
        <4>2. ASSUME NEW i \in DOMAIN c PROVE c[i] <= now
          <5>1. CASE i \in DOMAIN b
            BY <2>7, <3>1, <5>1
          <5>2. CASE c[i] = now
            BY <2>4, <5>2
          <5> QED
            BY <2>7, <5>1, <5>2
        <4> QED
          BY <4>1, <4>2
      <3>3. ASSUME NEW x \in MailAccounts
            PROVE  Len(renamed'[x]) >= 1 /\ \A i \in DOMAIN renamed'[x] : renamed'[x][i] <= now
        <4>1. CASE x = a
          BY <2>3, <2>4, <3>2, <4>1
        <4>2. CASE x # a
          BY <2>3, <2>4, <4>2 DEF SearchInv, RenamesSound
        <4> QED
          BY <4>1, <4>2
      <3> QED
        BY <2>3, <2>8, <3>3 DEF SearchInv, RenamesSound
    <2>12. now <= now'
      BY <2>3, <2>4
    <2> QED
      BY <2>3, <2>10, <2>11, <2>12, WorldMoves
  <1>4. ASSUME NEW a \in MailAccounts, ReconnectMailbox(a) PROVE SearchInv'
    <2>1. generation' = [generation EXCEPT ![a] = @ + 1] /\ UNCHANGED <<now, renamed, entries, order, searches>>
      BY <1>4 DEF ReconnectMailbox
    <2>2. RenamesSound'
      BY <2>1 DEF SearchInv, RenamesSound
    <2>3. \A n : NamesSound(n) => NamesSound(n)'
      BY <2>1 DEF NamesSound, InForce
    <2>4. now <= now'
      BY <2>1 DEF SearchInv, RenamesSound
    <2> QED
      BY <2>1, <2>2, <2>3, <2>4, WorldMoves
  <1>5. CASE Pass
    <2>1. now' = now + 1 /\ UNCHANGED <<generation, renamed, entries, order, searches>>
      BY <1>5 DEF Pass
    <2>2. now \in Nat /\ now' \in Nat /\ now <= now' /\ renamed \in [MailAccounts -> Seq(Nat)]
      BY <2>1 DEF SearchInv, RenamesSound
    <2>3. \A x \in MailAccounts : Len(renamed[x]) >= 1 /\ \A i \in DOMAIN renamed[x] : renamed[x][i] <= now /\ renamed[x][i] \in Nat
      BY <2>2 DEF SearchInv, RenamesSound
    <2>4. \A x \in MailAccounts : \A i \in DOMAIN renamed[x] : renamed[x][i] <= now'
      BY <2>2, <2>3
    <2>5. RenamesSound'
      BY <2>1, <2>2, <2>3, <2>4 DEF SearchInv, RenamesSound
    <2>6. ASSUME NEW n, NamesSound(n) PROVE NamesSound(n)'
      BY <2>1, <2>2, <2>6, NamesStay DEF SearchInv
    <2> QED
      BY <2>1, <2>2, <2>5, <2>6, WorldMoves
  <1>6. CASE UNCHANGED searchVars
    <2>1. UNCHANGED <<now, generation, renamed, entries, order, searches>>
      BY <1>6 DEF searchVars
    <2>2. \A n : NamesSound(n) => NamesSound(n)'
      BY <2>1 DEF NamesSound, InForce
    <2>3. RenamesSound' /\ now <= now'
      BY <2>1 DEF SearchInv, RenamesSound
    <2> QED
      BY <2>1, <2>2, <2>3, WorldMoves
  <1> QED
    BY <1>1, <1>2, <1>3, <1>4, <1>5, <1>6 DEF SearchNext

\* Before the first call the cache is empty.
LEMMA SearchInvInit == SearchInit => SearchInv
  <1> SUFFICES ASSUME SearchInit PROVE SearchInv
    OBVIOUS
  <1>1. /\ now = 0 /\ generation = [a \in MailAccounts |-> 1] /\ renamed = [a \in MailAccounts |-> <<0>>]
        /\ entries = EmptyMap /\ order = <<>> /\ searches = <<>>
    BY DEF SearchInit
  <1>2. <<0>> \in Seq(Nat) /\ Len(<<0>>) = 1 /\ DOMAIN <<0>> = {1} /\ <<0>>[1] = 0
    OBVIOUS
  <1>3. RenamesSound
    BY <1>1, <1>2 DEF RenamesSound
  <1>4. DOMAIN entries = {} /\ DOMAIN order = {} /\ DOMAIN searches = {}
    BY <1>1 DEF EmptyMap
  <1>5. order \in Seq(LabelKeys) /\ Len(order) <= CacheLimit
    BY <1>1, SearchBounds
  <1>6. Distinct(order) /\ Range(order) = DOMAIN entries
    BY <1>4 DEF Distinct, Range
  <1>7. IsList(searches)
    BY <1>1 DEF IsList
  <1> QED
    BY <1>3, <1>4, <1>5, <1>6, <1>7 DEF SearchInv, CacheSound

\* The inductive invariant of the searches: an entry of the cache is what was fetched for its
\* key, the list of its keys is the cache's, without repetitions, and the names a call has are
\* its own connection's and were in force between the time they were asked for and the date
\* they bear, which is that of the answer and not of the reading (cache.go, operations.go
\* search, fetchLabelNames).
THEOREM SearchesInductive == SearchSpec => []SearchInv
  BY SearchInvInit, SearchInvNext, PTL DEF SearchSpec

\* Every call names labels as its own account and connection had them between the time they
\* were asked for and the date it reports, for any accounts, renames, reconnections and limits
\* (cache.go get and set, search, fetchLabelNames).
THEOREM LabelsAreCurrent == SearchSpec => []LabelsCurrent
  BY SearchesInductive, SearchInvEnough, PTL

-----------------------------------------------------------------------------
(* Loops over lists, which the models write as functions of the place that *)
(* was reached.                                                            *)

\* f has what a loop of N steps over members of X has when it begins, and after each step.
IsStep(step, N, X) == step \in [(1 .. N) \X X -> X]
Loops(f, N, X, base, step) ==
    f \in [0 .. N -> X] /\ f[0] = base /\ \A n \in 1 .. N : f[n] = step[<<n, f[n - 1]>>]

\* Such a function exists.
LEMMA LoopExists ==
  ASSUME NEW N \in Nat, NEW X, NEW base \in X, NEW step, IsStep(step, N, X)
  PROVE  \E f : Loops(f, N, X, base, step)
  <1>0. step \in [(1 .. N) \X X -> X]
    BY DEF IsStep
  <1> DEFINE Upto(m) == \E f \in [0 .. m -> X] : f = [n \in 0 .. m |-> IF n = 0 THEN base ELSE step[<<n, f[n - 1]>>]]
             M == {m \in Nat : m <= N => Upto(m)}
  <1>1. 0 \in M
    <2> DEFINE f == [n \in 0 .. 0 |-> base]
    <2>1. f \in [0 .. 0 -> X]
      OBVIOUS
    <2>2. f = [n \in 0 .. 0 |-> IF n = 0 THEN base ELSE step[<<n, f[n - 1]>>]]
      OBVIOUS
    <2> QED
      BY <2>1, <2>2
  <1>2. ASSUME NEW m \in Nat, m \in M PROVE m + 1 \in M
    <2> SUFFICES ASSUME m + 1 <= N PROVE Upto(m + 1)
      OBVIOUS
    <2>1. PICK f \in [0 .. m -> X] : f = [n \in 0 .. m |-> IF n = 0 THEN base ELSE step[<<n, f[n - 1]>>]]
      BY <1>2
    <2> DEFINE g == [n \in 0 .. m + 1 |-> IF n = m + 1 THEN step[<<m + 1, f[m]>>] ELSE f[n]]
    <2>2. step[<<m + 1, f[m]>>] \in X
      <3>1. f[m] \in X /\ m + 1 \in 1 .. N
        OBVIOUS
      <3> QED
        BY <1>0, <3>1
    <2>3. g \in [0 .. m + 1 -> X]
      BY <2>2
    <2>4. ASSUME NEW n \in 0 .. m + 1
          PROVE  g[n] = IF n = 0 THEN base ELSE step[<<n, g[n - 1]>>]
      <3>1. CASE n = 0
        BY <2>1, <3>1
      <3>2. CASE n = m + 1
        <4>1. g[n - 1] = f[m] /\ n # 0
          BY <3>2
        <4> QED
          BY <3>2, <4>1
      <3>3. CASE n # 0 /\ n # m + 1
        <4>1. n \in 0 .. m /\ n - 1 \in 0 .. m /\ n - 1 \in 0 .. m + 1 /\ n - 1 # m + 1
          BY <3>3
        <4>2. g[n] = f[n] /\ g[n - 1] = f[n - 1]
          BY <3>3, <4>1
        <4>3. f[n] = step[<<n, f[n - 1]>>]
          BY <2>1, <3>3, <4>1
        <4> QED
          BY <3>3, <4>2, <4>3
      <3> QED
        BY <3>1, <3>2, <3>3
    <2> HIDE DEF g
    <2>5. g = [n \in 0 .. m + 1 |-> IF n = 0 THEN base ELSE step[<<n, g[n - 1]>>]]
      BY <2>3, <2>4
    <2> QED
      BY <2>3, <2>5
  <1>3. Nat \subseteq M
    <2> HIDE DEF M
    <2> QED
      BY <1>1, <1>2, SetInduction
  <1>4. PICK f \in [0 .. N -> X] : f = [n \in 0 .. N |-> IF n = 0 THEN base ELSE step[<<n, f[n - 1]>>]]
    <2>1. N \in M
      BY <1>3
    <2> QED
      BY <2>1
  <1>5. f[0] = base /\ \A n \in 1 .. N : f[n] = step[<<n, f[n - 1]>>]
    BY <1>4
  <1> QED
    BY <1>5 DEF Loops

\* A property of naturals that holds of 0 and passes from each to the next, up to a bound.
LEMMA UpTo ==
  ASSUME NEW N \in Nat, NEW S, 0 \in S, \A n \in 0 .. N : n \in S /\ n + 1 <= N => n + 1 \in S
  PROVE  0 .. N \subseteq S
  <1> DEFINE M == {m \in Nat : m <= N => m \in S}
  <1>1. 0 \in M
    OBVIOUS
  <1>2. ASSUME NEW m \in Nat, m \in M PROVE m + 1 \in M
    BY <1>2
  <1>3. Nat \subseteq M
    <2> HIDE DEF M
    <2> QED
      BY <1>1, <1>2, SetInduction
  <1> QED
    BY <1>3

\* The filtering loop.
FilterSolves(list, keep, g) ==
    g = [n \in 0 .. Len(list) |->
            IF n = 0 THEN <<>> ELSE IF n \in keep THEN Append(g[n - 1], list[n]) ELSE g[n - 1]]

\* The result of Filtered is a solution's.
LEMMA FilteredIs ==
  ASSUME NEW S, NEW list \in Seq(S), NEW keep
  PROVE  \E g : FilterSolves(list, keep, g) /\ Filtered(list, keep) = g[Len(list)]
  <1> DEFINE N == Len(list)
             step == [p \in (1 .. N) \X Seq(S) |-> IF p[1] \in keep THEN Append(p[2], list[p[1]]) ELSE p[2]]
  <1>1. N \in Nat /\ <<>> \in Seq(S)
    OBVIOUS
  <1>2. step \in [(1 .. N) \X Seq(S) -> Seq(S)]
    <2>1. ASSUME NEW p \in (1 .. N) \X Seq(S)
          PROVE  (IF p[1] \in keep THEN Append(p[2], list[p[1]]) ELSE p[2]) \in Seq(S)
      <3>1. p[1] \in 1 .. N /\ p[2] \in Seq(S) /\ list[p[1]] \in S
        OBVIOUS
      <3> QED
        BY <3>1
    <2> QED
      BY <2>1
  <1>3. PICK f : Loops(f, N, Seq(S), <<>>, step)
    <2>1. IsStep(step, N, Seq(S))
      BY <1>2 DEF IsStep
    <2> HIDE DEF step, N
    <2> QED
      BY <1>1, <2>1, LoopExists
  <1>4. ASSUME NEW n \in 0 .. N, n # 0
        PROVE  f[n] = IF n \in keep THEN Append(f[n - 1], list[n]) ELSE f[n - 1]
    <2>1. n \in 1 .. N /\ n - 1 \in 0 .. N
      BY <1>1, <1>4
    <2>2. f[n - 1] \in Seq(S)
      BY <1>3, <2>1 DEF Loops
    <2>3. f[n] = step[<<n, f[n - 1]>>]
      BY <1>3, <2>1 DEF Loops
    <2> QED
      BY <2>1, <2>2, <2>3
  <1>5. FilterSolves(list, keep, f)
    <2> HIDE DEF step
    <2>1. f = [n \in 0 .. N |-> IF n = 0 THEN <<>> ELSE IF n \in keep THEN Append(f[n - 1], list[n]) ELSE f[n - 1]]
      BY <1>3, <1>4 DEF Loops
    <2> QED
      BY <2>1 DEF FilterSolves
  <1> DEFINE g == CHOOSE x : FilterSolves(list, keep, x)
  <1> HIDE DEF step
  <1>7. FilterSolves(list, keep, g)
    BY <1>5
  <1>8. Filtered(list, keep) = g[Len(list)]
    BY DEF Filtered, FilterSolves
  <1> QED
    BY <1>7, <1>8

\* What is kept is what the places in keep hold; it keeps distinct members distinct.
LEMMA FilteredKeeps ==
  ASSUME NEW S, NEW list \in Seq(S), NEW keep
  PROVE  /\ Filtered(list, keep) \in Seq(S)
         /\ Range(Filtered(list, keep)) = {list[i] : i \in keep \cap DOMAIN list}
         /\ Distinct(list) => Distinct(Filtered(list, keep))
  <1>1. PICK g : FilterSolves(list, keep, g) /\ Filtered(list, keep) = g[Len(list)]
    BY FilteredIs
  <1>2. PICK N \in Nat : N = Len(list) /\ DOMAIN list = 1 .. N
    OBVIOUS
  <1>3. /\ g[0] = <<>>
        /\ \A n \in 1 .. N : g[n] = IF n \in keep THEN Append(g[n - 1], list[n]) ELSE g[n - 1]
    <2>1. g = [n \in 0 .. N |-> IF n = 0 THEN <<>> ELSE IF n \in keep THEN Append(g[n - 1], list[n]) ELSE g[n - 1]]
      BY <1>1, <1>2 DEF FilterSolves
    <2>2. 0 \in 0 .. N /\ \A n \in 1 .. N : n \in 0 .. N /\ n # 0
      OBVIOUS
    <2>3. g[0] = <<>>
      BY <2>1, <2>2
    <2>4. ASSUME NEW n \in 1 .. N PROVE g[n] = IF n \in keep THEN Append(g[n - 1], list[n]) ELSE g[n - 1]
      BY <2>1, <2>2
    <2> QED
      BY <2>3, <2>4
  <1> DEFINE Before(n) == {list[i] : i \in keep \cap (1 .. n)}
             Good(n) == g[n] \in Seq(S) /\ Range(g[n]) = Before(n) /\ (Distinct(list) => Distinct(g[n]))
             T == {n \in 0 .. N : Good(n)}
  <1>4. 0 \in T
    <2>1. Before(0) = {} /\ 0 \in 0 .. N
      BY <1>2
    <2>2. <<>> \in Seq(S) /\ Range(<<>>) = {} /\ Distinct(<<>>)
      BY DEF Range, Distinct
    <2> QED
      BY <1>3, <2>1, <2>2
  <1>5. ASSUME NEW n \in 0 .. N, n \in T, n + 1 <= N PROVE n + 1 \in T
    <2>1. n + 1 \in 0 .. N /\ n + 1 \in 1 .. N /\ (n + 1) - 1 = n
      BY <1>5
    <2>2. g[n + 1] = IF n + 1 \in keep THEN Append(g[n], list[n + 1]) ELSE g[n]
      BY <1>3, <2>1
    <2>3. Good(n)
      BY <1>5
    <2>4. list[n + 1] \in S
      BY <1>2, <2>1
    <2>5. CASE n + 1 \notin keep
      <3>1. keep \cap (1 .. n) = keep \cap (1 .. n + 1)
        BY <2>5
      <3>2. g[n + 1] = g[n]
        BY <2>2, <2>5
      <3> QED
        BY <2>1, <2>3, <3>1, <3>2
    <2>6. CASE n + 1 \in keep
      <3>1. Before(n + 1) = Before(n) \cup {list[n + 1]}
        <4>1. keep \cap (1 .. n + 1) = (keep \cap (1 .. n)) \cup {n + 1}
          BY <2>6
        <4> QED
          BY <4>1
      <3>2. PICK s \in Seq(S) : s = g[n]
        BY <2>3
      <3>3. PICK x \in S : x = list[n + 1]
        BY <2>4
      <3>4. g[n + 1] = Append(s, x)
        BY <2>2, <2>6, <3>2, <3>3
      <3>5. Append(s, x) \in Seq(S) /\ Range(Append(s, x)) = Range(s) \cup {x}
        <4>1. Len(s) \in Nat /\ DOMAIN s = 1 .. Len(s) /\ DOMAIN Append(s, x) = 1 .. Len(s) + 1
          OBVIOUS
        <4>2. Append(s, x)[Len(s) + 1] = x /\ \A i \in DOMAIN s : Append(s, x)[i] = s[i]
          BY <4>1
        <4> QED
          BY <4>1, <4>2 DEF Range
      <3>6. Distinct(list) => Distinct(Append(s, x))
        <4>1. SUFFICES ASSUME Distinct(list) PROVE Distinct(Append(s, x))
          OBVIOUS
        <4>2. x \notin Range(s)
          <5>1. \A i \in keep \cap (1 .. n) : i \in DOMAIN list /\ i # n + 1
            BY <1>2, <2>1
          <5>2. x \notin Before(n)
            BY <1>2, <2>1, <3>3, <4>1, <5>1 DEF Distinct
          <5> QED
            BY <2>3, <3>2, <5>2
        <4>3. Distinct(s)
          BY <2>3, <3>2, <4>1
        <4> QED
          BY <4>2, <4>3, DistinctGrows
      <3> HIDE DEF Before
      <3> QED
        BY <2>1, <2>3, <3>1, <3>2, <3>3, <3>4, <3>5, <3>6
    <2> QED
      BY <2>5, <2>6
  <1>6. 0 .. N \subseteq T
    <2> HIDE DEF T
    <2> QED
      BY <1>4, <1>5, UpTo
  <1>7. Good(N)
    <2>1. N \in 0 .. N
      OBVIOUS
    <2> QED
      BY <1>6, <2>1
  <1>8. Before(N) = {list[i] : i \in keep \cap DOMAIN list}
    BY <1>2
  <1> QED
    BY <1>1, <1>2, <1>7, <1>8

\* What is kept is in order: behind each member that was kept are those kept before it.
LEMMA FilteredOrder ==
  ASSUME NEW S, NEW list \in Seq(S), NEW keep \in SUBSET DOMAIN list, NEW left, left = Filtered(list, keep)
  PROVE  /\ left \in Seq(S)
         /\ \A i \in DOMAIN left : \E q \in keep :
               left[i] = list[q] /\ \A p \in keep : p < q => \E j \in 1 .. i - 1 : left[j] = list[p]
  <1>1. PICK g : FilterSolves(list, keep, g) /\ Filtered(list, keep) = g[Len(list)]
    BY FilteredIs
  <1>2. PICK N \in Nat : N = Len(list) /\ DOMAIN list = 1 .. N
    OBVIOUS
  <1>3. /\ g[0] = <<>>
        /\ \A n \in 1 .. N : g[n] = IF n \in keep THEN Append(g[n - 1], list[n]) ELSE g[n - 1]
    <2>1. g = [n \in 0 .. N |-> IF n = 0 THEN <<>> ELSE IF n \in keep THEN Append(g[n - 1], list[n]) ELSE g[n - 1]]
      BY <1>1, <1>2 DEF FilterSolves
    <2>2. 0 \in 0 .. N /\ \A n \in 1 .. N : n \in 0 .. N /\ n # 0
      OBVIOUS
    <2>3. g[0] = <<>>
      BY <2>1, <2>2
    <2>4. ASSUME NEW n \in 1 .. N PROVE g[n] = IF n \in keep THEN Append(g[n - 1], list[n]) ELSE g[n - 1]
      BY <2>1, <2>2
    <2> QED
      BY <2>3, <2>4
  <1> DEFINE InOrder(s, i, q) == s[i] = list[q] /\ \A p \in keep : p < q => \E j \in 1 .. i - 1 : s[j] = list[p]
             Good(n) == /\ g[n] \in Seq(S)
                        /\ \A p \in keep \cap (1 .. n) : \E j \in DOMAIN g[n] : g[n][j] = list[p]
                        /\ \A i \in DOMAIN g[n] : \E q \in keep : InOrder(g[n], i, q)
             T == {n \in 0 .. N : Good(n)}
  <1>4. 0 \in T
    <2>1. g[0] \in Seq(S) /\ DOMAIN g[0] = {} /\ 0 \in 0 .. N
      BY <1>3
    <2> QED
      BY <2>1
  <1>5. ASSUME NEW n \in 0 .. N, n \in T, n + 1 <= N PROVE n + 1 \in T
    <2>1. n + 1 \in 0 .. N /\ n + 1 \in 1 .. N /\ (n + 1) - 1 = n
      BY <1>5
    <2>2. g[n + 1] = IF n + 1 \in keep THEN Append(g[n], list[n + 1]) ELSE g[n]
      BY <1>3, <2>1
    <2>3. Good(n)
      BY <1>5
    <2>4. CASE n + 1 \notin keep
      <3>1. keep \cap (1 .. n) = keep \cap (1 .. n + 1)
        BY <2>4
      <3>2. g[n + 1] = g[n]
        BY <2>2, <2>4
      <3> HIDE DEF InOrder
      <3> QED
        BY <2>1, <2>3, <3>1, <3>2
    <2>5. CASE n + 1 \in keep
      <3>1. PICK s \in Seq(S) : s = g[n]
        BY <2>3
      <3>2. PICK x \in S : x = list[n + 1]
        BY <1>2, <2>1
      <3>3. PICK t : t = Append(s, x)
        OBVIOUS
      <3>4. g[n + 1] = t
        BY <2>2, <2>5, <3>1, <3>2, <3>3
      <3>5. PICK m \in Nat : m = Len(s) /\ DOMAIN s = 1 .. m
        OBVIOUS
      <3>6. t \in Seq(S) /\ DOMAIN t = 1 .. m + 1 /\ t[m + 1] = x /\ \A i \in 1 .. m : t[i] = s[i]
        BY <3>3, <3>5
      <3>7. \A p \in keep \cap (1 .. n) : \E j \in 1 .. m : t[j] = list[p]
        BY <2>3, <3>1, <3>5, <3>6
      <3>8. ASSUME NEW p \in keep \cap (1 .. n + 1) PROVE \E j \in 1 .. m + 1 : t[j] = list[p]
        <4>1. CASE p = n + 1
          <5>1. m + 1 \in 1 .. m + 1
            OBVIOUS
          <5> QED
            BY <3>2, <3>6, <4>1, <5>1
        <4>2. CASE p # n + 1
          <5>1. p \in keep \cap (1 .. n)
            BY <1>2, <4>2
          <5>2. PICK j \in 1 .. m : t[j] = list[p]
            BY <3>7, <5>1
          <5> QED
            BY <5>2
        <4> QED
          BY <4>1, <4>2
      <3>9. ASSUME NEW i \in 1 .. m + 1 PROVE \E q \in keep : InOrder(t, i, q)
        <4>1. CASE i = m + 1
          <5>1. t[i] = list[n + 1] /\ n + 1 \in keep /\ i - 1 = m
            BY <2>5, <3>2, <3>6, <4>1
          <5>2. ASSUME NEW p \in keep, p < n + 1 PROVE \E j \in 1 .. i - 1 : t[j] = list[p]
            <6>1. p \in keep \cap (1 .. n)
              BY <1>2, <5>2
            <6> QED
              BY <3>7, <5>1, <6>1
          <5>3. InOrder(t, i, n + 1)
            BY <5>1, <5>2
          <5> HIDE DEF InOrder
          <5> QED
            BY <2>5, <5>3
        <4>2. CASE i # m + 1
          <5>1. i \in 1 .. m
            BY <4>2
          <5>2. PICK q \in keep : InOrder(s, i, q)
            <6> HIDE DEF InOrder
            <6> QED
              BY <2>3, <3>1, <3>5, <5>1
          <5>3. ASSUME NEW p \in keep, p < q PROVE \E j \in 1 .. i - 1 : t[j] = list[p]
            <6>1. PICK j \in 1 .. i - 1 : s[j] = list[p]
              BY <5>2, <5>3
            <6>2. j \in 1 .. m
              BY <5>1
            <6> QED
              BY <3>6, <6>1, <6>2
          <5>4. InOrder(t, i, q)
            BY <3>6, <5>1, <5>2, <5>3
          <5> HIDE DEF InOrder
          <5> QED
            BY <5>4
        <4> QED
          BY <4>1, <4>2
      <3> HIDE DEF InOrder
      <3> QED
        BY <2>1, <3>4, <3>6, <3>8, <3>9
    <2> QED
      BY <2>4, <2>5
  <1>6. 0 .. N \subseteq T
    <2> HIDE DEF T
    <2> QED
      BY <1>4, <1>5, UpTo
  <1>7. Good(N)
    <2>1. N \in 0 .. N
      OBVIOUS
    <2> QED
      BY <1>6, <2>1
  <1>8. left = g[N]
    BY <1>1, <1>2
  <1> QED
    BY <1>7, <1>8

-----------------------------------------------------------------------------
(* Views of messages: ViewsFaithful. *)

\* The views alone, whatever the other parts do.
MessageSpec == MessageInit /\ [][MessageNext]_messageVars

\* Some place is the first, and one within a bound the last.
LEMMA FirstPlace ==
  ASSUME NEW S \in SUBSET Nat, S # {}
  PROVE  \E m \in S : \A n \in S : m <= n
  <1> DEFINE T == {k \in Nat : \A n \in S : k <= n}
  <1>1. 0 \in T
    OBVIOUS
  <1>2. SUFFICES ASSUME \A m \in S : \E n \in S : n < m PROVE FALSE
    OBVIOUS
  <1>3. ASSUME NEW k \in Nat, k \in T PROVE k + 1 \in T
    <2>1. k \notin S
      BY <1>2, <1>3
    <2>2. ASSUME NEW n \in S PROVE k + 1 <= n
      BY <1>3, <2>1
    <2> QED
      BY <2>2
  <1>4. Nat \subseteq T
    <2> HIDE DEF T
    <2> QED
      BY <1>1, <1>3, SetInduction
  <1>5. PICK n \in S : n \in Nat
    OBVIOUS
  <1>6. n + 1 \in T
    BY <1>4, <1>5
  <1> QED
    BY <1>5, <1>6

\* The last of some places.
LEMMA LastWithin ==
  ASSUME NEW b \in Nat, NEW S \in SUBSET (0 .. b), S # {}
  PROVE  \E m \in S : \A n \in S : n <= m
  <1> DEFINE R == {b - n : n \in S}
  <1>1. R \in SUBSET Nat /\ R # {}
    <2>1. ASSUME NEW n \in S PROVE b - n \in Nat
      <3>1. n \in 0 .. b
        OBVIOUS
      <3> QED
        BY <3>1
    <2>2. PICK n : n \in S
      OBVIOUS
    <2>3. b - n \in R
      BY <2>2
    <2> QED
      BY <2>1, <2>3
  <1>2. PICK r \in R : \A x \in R : r <= x
    <2> HIDE DEF R
    <2> QED
      BY <1>1, FirstPlace
  <1>3. PICK m \in S : r = b - m
    BY <1>2
  <1>4. ASSUME NEW n \in S PROVE n <= m
    <2>1. b - m <= b - n
      BY <1>2, <1>3
    <2> QED
      BY <2>1
  <1> QED
    BY <1>4

\* The bytes of a text of which a character starts at the first.
LEMMA BytesStart ==
  ASSUME NEW text \in Seq(Nat)
  PROVE  /\ BytesOf(text) \in Seq(BOOLEAN)
         /\ Len(BytesOf(text)) > 0 => BytesOf(text)[1] = TRUE
  <1> DEFINE N == Len(text)
             width(n) == IF text[n] = Tag THEN 1 ELSE text[n]
             chunk(n) == [b \in 1 .. width(n) |-> b = 1]
             X == Seq(BOOLEAN)
             step == [p \in (1 .. N) \X X |-> p[2] \o chunk(p[1])]
             Solves1(f) == f = [n \in 0 .. N |-> IF n = 0 THEN <<>> ELSE f[n - 1] \o chunk(n)]
  <1>1. N \in Nat /\ <<>> \in X
    OBVIOUS
  <1>2. ASSUME NEW n \in 1 .. N PROVE width(n) \in Nat /\ width(n) > 0
    <2>1. text[n] \in Nat
      BY <1>2
    <2> QED
      BY <2>1 DEF Tag
  <1>3. ASSUME NEW n \in 1 .. N PROVE chunk(n) \in X /\ Len(chunk(n)) > 0 /\ chunk(n)[1] = TRUE
    <2>1. PICK w \in Nat : w = width(n) /\ w > 0
      BY <1>2
    <2>2. PICK c : c = [b \in 1 .. w |-> b = 1]
      OBVIOUS
    <2>3. c \in [1 .. w -> BOOLEAN]
      BY <2>2
    <2>4. c \in Seq(BOOLEAN)
      BY <2>3, SeqDef
    <2>5. Len(c) = w /\ 1 \in 1 .. w
      BY <2>1, <2>3, <2>4
    <2>6. c[1] = (1 = 1)
      BY <2>2, <2>5
    <2>7. c = chunk(n)
      BY <2>1, <2>2
    <2> HIDE DEF width, X
    <2> QED
      BY <2>1, <2>4, <2>5, <2>6, <2>7 DEF X
  <1>4. IsStep(step, N, X)
    <2> HIDE DEF chunk
    <2>1. ASSUME NEW p \in (1 .. N) \X X PROVE p[2] \o chunk(p[1]) \in X
      <3>1. p[2] \in X /\ chunk(p[1]) \in X
        BY <1>3
      <3> QED
        BY <3>1
    <2>2. step \in [(1 .. N) \X X -> X]
      BY <2>1
    <2> QED
      BY <2>2 DEF IsStep
  <1>5. PICK f : Loops(f, N, X, <<>>, step)
    <2> HIDE DEF step, N, X
    <2> QED
      BY <1>1, <1>4, LoopExists
  <1>6. Solves1(f)
    <2> HIDE DEF chunk
    <2>1. ASSUME NEW n \in 1 .. N PROVE f[n] = f[n - 1] \o chunk(n)
      <3>0. n - 1 \in 0 .. N /\ f \in [0 .. N -> X]
        BY <1>1, <1>5 DEF Loops
      <3>1. f[n - 1] \in X /\ <<n, f[n - 1]>> \in (1 .. N) \X X
        <4> HIDE DEF X, N
        <4> QED
          BY <3>0
      <3>2. f[n] = step[<<n, f[n - 1]>>]
        BY <1>5 DEF Loops
      <3> QED
        BY <3>1, <3>2
    <2> HIDE DEF step
    <2> QED
      BY <1>1, <1>5, <2>1 DEF Loops
  <1> DEFINE g == CHOOSE x : Solves1(x)
  <1>7. Solves1(g)
    <2> HIDE DEF Solves1
    <2> QED
      BY <1>6
  <1>8. BytesOf(text) = g[N]
    BY DEF BytesOf
  <1> HIDE DEF g, step, chunk
  <1>9. g[0] = <<>> /\ \A n \in 1 .. N : g[n] = g[n - 1] \o chunk(n)
    <2>1. 0 \in 0 .. N /\ \A n \in 1 .. N : n \in 0 .. N /\ n # 0
      BY <1>1
    <2> QED
      BY <1>7, <2>1
  <1> DEFINE Good(s) == s \in X /\ (Len(s) > 0 => s[1] = TRUE)
             T == {n \in 0 .. N : Good(g[n])}
  <1>10. 0 \in T
    <2>1. Len(<<>>) = 0 /\ 0 \in 0 .. N
      BY <1>1
    <2> HIDE DEF X, N
    <2> QED
      BY <1>1, <1>9, <2>1
  <1>11. ASSUME NEW n \in 0 .. N, n \in T, n + 1 <= N PROVE n + 1 \in T
    <2>1. n + 1 \in 0 .. N /\ n + 1 \in 1 .. N /\ (n + 1) - 1 = n
      BY <1>1, <1>11
    <2>2. PICK s \in X : s = g[n] /\ (Len(s) > 0 => s[1] = TRUE)
      BY <1>11
    <2>3. PICK c \in X : c = chunk(n + 1) /\ Len(c) > 0 /\ c[1] = TRUE
      BY <1>3, <2>1
    <2>4. g[n + 1] = s \o c
      BY <1>9, <2>1, <2>2, <2>3
    <2>5. s \o c \in X /\ (s \o c)[1] = TRUE
      <3>0. Len(s) \in Nat /\ Len(c) \in Nat
        OBVIOUS
      <3>1. Len(s) \in Nat /\ Len(c) \in Nat /\ 1 \in 1 .. Len(s) + Len(c)
        <4>1. Len(c) > 0
          BY <2>3
        <4> QED
          BY <3>0, <4>1
      <3>2. s \o c \in X /\ (s \o c)[1] = IF 1 <= Len(s) THEN s[1] ELSE c[1 - Len(s)]
        BY <3>1, ConcatProperties
      <3>3. CASE Len(s) > 0
        BY <2>2, <3>1, <3>2, <3>3
      <3>4. CASE Len(s) = 0
        BY <2>3, <3>1, <3>2, <3>4
      <3>5. Len(s) > 0 \/ Len(s) = 0
        BY <3>0
      <3> QED
        BY <3>2, <3>3, <3>4, <3>5, Zenon
    <2> HIDE DEF X
    <2> QED
      BY <2>1, <2>4, <2>5
  <1>12. 0 .. N \subseteq T
    <2> HIDE DEF T, N
    <2> QED
      BY <1>1, <1>10, <1>11, UpTo
  <1>13. N \in 0 .. N
    BY <1>1
  <1> QED
    BY <1>8, <1>12, <1>13

\* Text is cut at a character, within its limit, and marked if it was (boundedBytes).
LEMMA BoundedKeeps ==
  ASSUME NEW bytes \in Seq(BOOLEAN), Len(bytes) > 0 => bytes[1] = TRUE, NEW limit \in Nat,
         NEW c, c = BoundedBytes(bytes, limit)
  PROVE  /\ DOMAIN c = {"text", "truncated"} /\ Len(c.text) <= limit /\ WholeCharacters(c.text, bytes)
         /\ ~c.truncated => c.text = bytes
  <1>1. CASE Len(bytes) <= limit
    <2>1. c = [text |-> bytes, truncated |-> FALSE]
      BY <1>1 DEF BoundedBytes
    <2> QED
      BY <1>1, <2>1 DEF WholeCharacters
  <1>2. CASE ~(Len(bytes) <= limit)
    <2> DEFINE starts == {d \in 0 .. limit : d = 0 \/ bytes[d + 1]}
               cut == CHOOSE d \in starts : \A x \in starts : x <= d
    <2>1. starts \in SUBSET (0 .. limit) /\ 0 \in starts
      OBVIOUS
    <2>2. \E d \in starts : \A x \in starts : x <= d
      <3> HIDE DEF starts
      <3> QED
        BY <2>1, LastWithin
    <2>3. cut \in starts
      <3> HIDE DEF starts
      <3> QED
        BY <2>2
    <2>4. c = [text |-> SubSeq(bytes, 1, cut), truncated |-> TRUE]
      BY <1>2 DEF BoundedBytes
    <2>5. cut \in 0 .. limit /\ (cut = 0 \/ bytes[cut + 1])
      BY <2>3
    <2> HIDE DEF cut
    <2>6. Len(bytes) \in Nat /\ cut \in Nat /\ cut <= limit /\ limit < Len(bytes)
      BY <1>2, <2>5
    <2>7. PICK t : t = SubSeq(bytes, 1, cut)
      OBVIOUS
    <2>8. Len(t) = cut
      BY <2>6, <2>7
    <2>9. bytes[cut + 1]
      <3>1. CASE cut = 0
        BY <2>6, <3>1
      <3> QED
        BY <2>5, <3>1
    <2>10. c.text = t /\ c.truncated = TRUE /\ DOMAIN c = {"text", "truncated"}
      <3>1. c = [text |-> t, truncated |-> TRUE]
        BY <2>4, <2>7
      <3> QED
        BY <3>1
    <2>11. Len(t) + 1 = cut + 1 /\ Len(t) <= limit
      BY <2>6, <2>8
    <2>12. bytes[Len(t) + 1]
      BY <2>9, <2>11, Zenon
    <2>13. WholeCharacters(t, bytes)
      BY <2>12, Zenon DEF WholeCharacters
    <2> QED
      BY <2>10, <2>11, <2>13, Zenon
  <1> QED
    BY <1>1, <1>2

\* Labels are shown once each (stableStrings, labelViews).
LEMMA LabelsOnce ==
  ASSUME NEW S, NEW ids \in Seq(S), NEW names
  PROVE  Distinct(LabelViews(ids, names))
  <1> DEFINE N == Len(ids)
             X == Seq(S)
             out(n, s) == IF ids[n] = NoName \/ ids[n] \in Range(s) THEN s ELSE Append(s, ids[n])
             step == [p \in (1 .. N) \X X |-> out(p[1], p[2])]
             Solves1(f) == f = [n \in 0 .. N |-> IF n = 0 THEN <<>>
                                   ELSE IF ids[n] = NoName \/ ids[n] \in Range(f[n - 1]) THEN f[n - 1]
                                        ELSE Append(f[n - 1], ids[n])]
  <1>1. N \in Nat /\ <<>> \in X
    OBVIOUS
  <1>2. ASSUME NEW n \in 1 .. N, NEW s \in X PROVE out(n, s) \in X
    <2>1. ids[n] \in S
      BY <1>2
    <2> QED
      BY <2>1
  <1>3. IsStep(step, N, X)
    <2> HIDE DEF out, N, X
    <2>1. step \in [(1 .. N) \X X -> X]
      BY <1>2
    <2> QED
      BY <2>1 DEF IsStep
  <1>4. PICK f : Loops(f, N, X, <<>>, step)
    <2> HIDE DEF step, N, X
    <2> QED
      BY <1>1, <1>3, LoopExists
  <1>5. Solves1(f)
    <2>1. ASSUME NEW n \in 1 .. N PROVE f[n] = out(n, f[n - 1])
      <3> HIDE DEF out
      <3>1. n - 1 \in 0 .. N /\ f \in [0 .. N -> X]
        BY <1>1, <1>4 DEF Loops
      <3>2. f[n] = step[<<n, f[n - 1]>>]
        BY <1>4 DEF Loops
      <3> HIDE DEF X, N
      <3>3. <<n, f[n - 1]>> \in (1 .. N) \X X
        BY <3>1
      <3> QED
        BY <3>2, <3>3
    <2>2. f \in [0 .. N -> X] /\ f[0] = <<>>
      BY <1>4 DEF Loops
    <2> DEFINE h == [n \in 0 .. N |-> IF n = 0 THEN <<>> ELSE out(n, f[n - 1])]
    <2>3. ASSUME NEW n \in 0 .. N PROVE f[n] = h[n]
      <3> HIDE DEF out
      <3>1. CASE n = 0
        BY <2>2, <3>1
      <3>2. CASE n # 0
        <4>1. n \in 1 .. N
          BY <1>1, <3>2
        <4> QED
          BY <2>1, <3>2, <4>1
      <3> QED
        BY <3>1, <3>2
    <2>4. f = h
      <3>1. DOMAIN h = 0 .. N
        OBVIOUS
      <3>2. h = [n \in 0 .. N |-> h[n]]
        BY <3>1
      <3> HIDE DEF h, X, N
      <3> QED
        BY <2>2, <2>3, <3>2
    <2> QED
      BY <2>4
  <1> DEFINE g == CHOOSE x : Solves1(x)
  <1>6. Solves1(g)
    <2> HIDE DEF Solves1
    <2> QED
      BY <1>5
  <1>7. StableStrings(ids) = g[N]
    BY DEF StableStrings
  <1> HIDE DEF g, step
  <1>8. g[0] = <<>> /\ \A n \in 1 .. N : g[n] = out(n, g[n - 1])
    <2>1. 0 \in 0 .. N /\ \A n \in 1 .. N : n \in 0 .. N /\ n # 0
      BY <1>1
    <2> QED
      BY <1>6, <2>1
  <1> HIDE DEF Solves1
  <1> DEFINE T == {n \in 0 .. N : g[n] \in X /\ Distinct(g[n])}
  <1>9. 0 \in T
    <2>1. Distinct(<<>>) /\ 0 \in 0 .. N
      BY <1>1 DEF Distinct
    <2> HIDE DEF X, N, out
    <2> QED
      BY <1>1, <1>8, <2>1
  <1>10. ASSUME NEW n \in 0 .. N, n \in T, n + 1 <= N PROVE n + 1 \in T
    <2>1. n + 1 \in 0 .. N /\ n + 1 \in 1 .. N /\ (n + 1) - 1 = n
      BY <1>1, <1>10
    <2>2. PICK s \in X : s = g[n] /\ Distinct(s)
      BY <1>10
    <2>3. PICK x \in S : x = ids[n + 1]
      BY <2>1
    <2>4. g[n + 1] = out(n + 1, s)
      <3> HIDE DEF out
      <3> QED
        BY <1>8, <2>1, <2>2
    <2>5. g[n + 1] = IF x = NoName \/ x \in Range(s) THEN s ELSE Append(s, x)
      BY <2>3, <2>4
    <2>6. CASE x = NoName \/ x \in Range(s)
      BY <2>1, <2>2, <2>5, <2>6
    <2>7. CASE ~(x = NoName \/ x \in Range(s))
      <3>1. g[n + 1] = Append(s, x) /\ x \notin Range(s)
        BY <2>5, <2>7
      <3>2. Append(s, x) \in X /\ Distinct(Append(s, x))
        BY <2>2, <3>1, DistinctGrows
      <3> HIDE DEF X
      <3> QED
        BY <2>1, <3>1, <3>2
    <2> QED
      BY <2>6, <2>7
  <1>11. 0 .. N \subseteq T
    <2> HIDE DEF T, N
    <2> QED
      BY <1>1, <1>9, <1>10, UpTo
  <1>12. PICK stable \in X : stable = StableStrings(ids) /\ Distinct(stable)
    <2>1. N \in 0 .. N
      BY <1>1
    <2> HIDE DEF N, X
    <2> QED
      BY <1>7, <1>11, <2>1
  <1>13. Distinct(Filtered(stable, {i \in DOMAIN stable : stable[i] \in names}))
    BY <1>12, FilteredKeeps
  <1> QED
    BY <1>12, <1>13 DEF LabelViews

\* The parts of a message a request may be about.
PartsOk(parts) ==
    /\ parts \in Seq(Range(parts))
    /\ \A i \in DOMAIN parts : parts[i].data \in Seq(Nat) /\ parts[i].stored \in Seq(Nat)

\* What is shown of a part is a text.
LEMMA ShownIsText ==
  ASSUME NEW p, p.data \in Seq(Nat), p.stored \in Seq(Nat)
  PROVE  Shown(p) \in Seq(Nat)
  <1> DEFINE text == IF p.data = <<>> THEN p.stored ELSE p.data
  <1>1. text \in Seq(Nat)
    OBVIOUS
  <1>2. PICK u \in Seq(Nat) : u = text
    BY <1>1
  <1>3. StripHTMLTags(u) \in Seq(Nat)
    BY FilteredKeeps DEF StripHTMLTags
  <1>4. Shown(p) = IF p.type = "text/html" \/ p.markup THEN StripHTMLTags(u) ELSE u
    BY <1>2 DEF Shown
  <1> QED
    BY <1>3, <1>4

\* At most one part holds the body; it is not an attachment, and it is a plain text if
\* some part is.
LEMMA BestPart ==
  ASSUME NEW parts, PartsOk(parts)
  PROVE  /\ BestBodyPart(parts) \subseteq DOMAIN parts
         /\ \A i, j \in BestBodyPart(parts) : i = j
         /\ \A i \in BestBodyPart(parts) : ~IsAttachmentPart(parts[i])
         /\ LET plain == {i \in DOMAIN parts : parts[i].type = "text/plain" /\ ~IsAttachmentPart(parts[i])
                                               /\ HasBodyData(parts[i])}
            IN  plain # {} => BestBodyPart(parts) \subseteq plain
  <1> DEFINE fits(type, j) == parts[j].type = type /\ ~IsAttachmentPart(parts[j]) /\ HasBodyData(parts[j])
             plain == {i \in DOMAIN parts : fits("text/plain", i)}
  <1>1. DOMAIN parts \in SUBSET Nat
    BY DEF PartsOk
  <1>2. ASSUME NEW type
        PROVE  /\ FindBodyPart(parts, type) \subseteq {i \in DOMAIN parts : fits(type, i)}
               /\ \A i, j \in FindBodyPart(parts, type) : i = j
    <2>1. FindBodyPart(parts, type) = {i \in DOMAIN parts : fits(type, i) /\ \A j \in DOMAIN parts : fits(type, j) => i <= j}
      BY DEF FindBodyPart
    <2> HIDE DEF fits
    <2> QED
      BY <1>1, <2>1
  <1>3. plain # {} => FindBodyPart(parts, "text/plain") # {}
    <2> SUFFICES ASSUME plain # {} PROVE FindBodyPart(parts, "text/plain") # {}
      OBVIOUS
    <2>1. plain \in SUBSET Nat
      BY <1>1
    <2>2. PICK i \in plain : \A j \in plain : i <= j
      <3> HIDE DEF plain
      <3> QED
        BY <2>1, FirstPlace
    <2>3. i \in FindBodyPart(parts, "text/plain")
      BY <2>2 DEF FindBodyPart
    <2> QED
      BY <2>3
  <1>4. BestBodyPart(parts) = IF FindBodyPart(parts, "text/plain") # {} THEN FindBodyPart(parts, "text/plain")
                              ELSE FindBodyPart(parts, "text/html")
    BY DEF BestBodyPart
  <1>5. \E type : BestBodyPart(parts) = FindBodyPart(parts, type)
    BY <1>4
  <1>6. PICK type : BestBodyPart(parts) = FindBodyPart(parts, type)
    BY <1>5
  <1>7. \A i \in BestBodyPart(parts) : i \in DOMAIN parts /\ fits(type, i)
    <2> HIDE DEF fits
    <2> QED
      BY <1>2, <1>6
  <1>8. \A i, j \in BestBodyPart(parts) : i = j
    <2> HIDE DEF fits
    <2> QED
      BY <1>2, <1>6
  <1>9. plain # {} => BestBodyPart(parts) \subseteq plain
    <2> HIDE DEF fits
    <2> QED
      BY <1>2, <1>3, <1>4
  <1> QED
    BY <1>7, <1>8, <1>9

\* The body is the best part's, whole or marked as cut (boundedBody).
LEMMA BodyIsBest ==
  ASSUME NEW parts, PartsOk(parts), NEW limit \in Nat, NEW body, body = BoundedBody(parts, limit)
  PROVE  /\ Len(body.text) <= limit
         /\ \A i \in BestBodyPart(parts) :
               /\ body.text = <<>> \/ WholeCharacters(body.text, BytesOf(Shown(parts[i])))
               /\ ~body.truncated => body.text = BytesOf(Shown(parts[i]))
         /\ body.selected = NoName \/ \E j \in BestBodyPart(parts) : parts[j].external = body.selected
  <1>1. CASE BestBodyPart(parts) = {}
    <2>1. body = NoBody
      BY <1>1 DEF BoundedBody
    <2> QED
      BY <1>1, <2>1 DEF NoBody
  <1>2. CASE BestBodyPart(parts) # {}
    <2>1. PICK k \in BestBodyPart(parts) : k = CHOOSE i \in BestBodyPart(parts) : TRUE
      BY <1>2
    <2>2. \A i \in BestBodyPart(parts) : i = k
      BY BestPart
    <2>3. k \in DOMAIN parts
      BY BestPart
    <2>4. PICK p : p = parts[k]
      OBVIOUS
    <2>5. Shown(p) \in Seq(Nat)
      <3>1. p.data \in Seq(Nat) /\ p.stored \in Seq(Nat)
        BY <2>3, <2>4 DEF PartsOk
      <3> QED
        BY <3>1, ShownIsText
    <2>6. PICK bytes : bytes = BytesOf(Shown(p))
      OBVIOUS
    <2>7. bytes \in Seq(BOOLEAN) /\ (Len(bytes) > 0 => bytes[1] = TRUE)
      BY <2>5, <2>6, BytesStart
    <2>8. PICK cut : cut = BoundedBytes(bytes, limit)
      OBVIOUS
    <2>9. /\ Len(cut.text) <= limit /\ WholeCharacters(cut.text, bytes)
          /\ ~cut.truncated => cut.text = bytes
      BY <2>7, <2>8, BoundedKeeps
    <2> DEFINE apart == p.external # NoName /\ p.data = <<>>
    <2>10. body = IF apart /\ p.size > MaxBodyBytes
                  THEN [NoBody EXCEPT !.truncated = TRUE, !.selected = p.external]
                  ELSE [text |-> cut.text, truncated |-> cut.truncated, selected |-> IF apart THEN p.external ELSE NoName,
                        fails |-> ~p.decodes]
      BY <1>2, <2>1, <2>4, <2>6, <2>8, Zenon DEF BoundedBody
    <2>11. CASE apart /\ p.size > MaxBodyBytes
      <3>1. body.text = <<>> /\ body.truncated = TRUE /\ body.selected = p.external
        <4> HIDE DEF apart
        <4>1. body = [NoBody EXCEPT !.truncated = TRUE, !.selected = p.external]
          BY <2>10, <2>11
        <4> QED
          BY <4>1 DEF NoBody
      <3>2. Len(<<>>) = 0
        OBVIOUS
      <3> QED
        BY <2>4, <3>1, <3>2
    <2>12. CASE ~(apart /\ p.size > MaxBodyBytes)
      <3>1. body.text = cut.text /\ body.truncated = cut.truncated
            /\ body.selected = IF apart THEN p.external ELSE NoName
        <4> HIDE DEF apart
        <4>1. body = [text |-> cut.text, truncated |-> cut.truncated, selected |-> IF apart THEN p.external ELSE NoName,
                      fails |-> ~p.decodes]
          BY <2>10, <2>12
        <4> QED
          BY <4>1
      <3>2. body.selected = p.external \/ body.selected = NoName
        BY <3>1
      <3>3. ~body.truncated => body.text = bytes
        BY <2>9, <3>1
      <3>4. Len(body.text) <= limit /\ WholeCharacters(body.text, bytes)
        BY <2>9, <3>1
      <3> HIDE DEF apart
      <3> QED
        BY <2>2, <2>4, <2>6, <3>2, <3>3, <3>4
    <2> QED
      BY <2>11, <2>12
  <1> QED
    BY <1>1, <1>2

\* The attachments listed are attachments; those left out of a list that is not marked
\* are kept apart where the body is (collectAttachments, attachmentViews).
LEMMA AttachmentsListed ==
  ASSUME NEW parts, PartsOk(parts), NEW selected, NEW listed, listed = AttachmentViews(parts, selected)
  PROVE  /\ \A i \in Range(listed.items) : IsAttachmentPart(parts[i])
         /\ ~listed.truncated =>
               \A i \in DOMAIN parts : IsAttachmentPart(parts[i]) =>
                  i \in Range(listed.items) \/ (selected # NoName /\ parts[i].external = selected)
  <1> DEFINE places == [i \in DOMAIN parts |-> i]
             keep == {i \in DOMAIN parts : IsAttachmentPart(parts[i]) /\ ~(parts[i].external # NoName /\ parts[i].external = selected)}
  <1>1. PICK N \in Nat : DOMAIN parts = 1 .. N
    <2>1. parts \in Seq(Range(parts))
      BY DEF PartsOk
    <2> QED
      BY <2>1
  <1>2. PICK pl : pl = places
    OBVIOUS
  <1>3. pl \in Seq(Nat) /\ DOMAIN pl = 1 .. N /\ \A i \in 1 .. N : pl[i] = i
    <2>1. pl \in [1 .. N -> Nat]
      BY <1>1, <1>2
    <2> QED
      BY <1>1, <1>2, <2>1, SeqDef
  <1>4. PICK all : all = CollectAttachments(parts, selected)
    OBVIOUS
  <1>5. all = Filtered(pl, keep)
    BY <1>2, <1>4 DEF CollectAttachments
  <1>6. all \in Seq(Nat) /\ Range(all) = {pl[i] : i \in keep \cap DOMAIN pl}
    <2> HIDE DEF keep
    <2> QED
      BY <1>3, <1>5, FilteredKeeps
  <1>7. Range(all) = keep
    <2>1. keep \subseteq 1 .. N
      BY <1>1
    <2> HIDE DEF keep
    <2> QED
      BY <1>3, <1>6, <2>1
  <1>8. PICK n : n = IF Len(all) > MaxAttachments THEN MaxAttachments ELSE Len(all)
    OBVIOUS
  <1>9. n \in Nat /\ n <= Len(all) /\ Len(all) \in Nat
    BY <1>6, <1>8, ViewBounds
  <1>10. PICK items : items = SubSeq(all, 1, n)
    OBVIOUS
  <1>11. listed = [items |-> items, truncated |-> Len(all) > MaxAttachments]
    BY <1>4, <1>8, <1>10 DEF AttachmentViews
  <1>12. listed.items = items /\ listed.truncated = (Len(all) > MaxAttachments)
    BY <1>11
  <1>13. DOMAIN items = 1 .. n /\ \A i \in 1 .. n : items[i] = all[i]
    BY <1>6, <1>9, <1>10
  <1>14. Range(items) \subseteq Range(all)
    <2>1. DOMAIN all = 1 .. Len(all)
      BY <1>6
    <2>2. \A i \in 1 .. n : i \in 1 .. Len(all)
      BY <1>9
    <2> QED
      BY <1>13, <2>1, <2>2 DEF Range
  <1>15. \A i \in Range(listed.items) : IsAttachmentPart(parts[i])
    <2>1. Range(listed.items) \subseteq keep
      BY <1>7, <1>12, <1>14
    <2> QED
      BY <2>1
  <1>16. ASSUME ~listed.truncated, NEW i \in DOMAIN parts, IsAttachmentPart(parts[i]),
                ~(selected # NoName /\ parts[i].external = selected)
         PROVE  i \in Range(listed.items)
    <2>1. ~(Len(all) > MaxAttachments)
      BY <1>12, <1>16
    <2>2. n = Len(all)
      BY <1>8, <2>1
    <2>3. Range(items) = Range(all)
      <3>1. DOMAIN all = 1 .. n
        BY <1>6, <2>2
      <3> QED
        BY <1>13, <3>1 DEF Range
    <2>4. i \in keep
      BY <1>16
    <2> HIDE DEF keep
    <2> QED
      BY <1>7, <1>12, <2>3, <2>4
  <1> QED
    BY <1>15, <1>16

\* A message that was read without its parts shows no attachment, and marks none as left
\* out.
LEMMA NothingListed ==
  ASSUME NEW none, none = <<>>, NEW selected, NEW listed, listed = AttachmentViews(none, selected)
  PROVE  listed.items = <<>> /\ ~listed.truncated
  <1>1. PICK pl : pl = [i \in DOMAIN none |-> i]
    OBVIOUS
  <1>2. PICK keep : keep = {i \in DOMAIN none : IsAttachmentPart(none[i])
                                               /\ ~(none[i].external # NoName /\ none[i].external = selected)}
    OBVIOUS
  <1>3. PICK all : all = CollectAttachments(none, selected)
    OBVIOUS
  <1>4. all = Filtered(pl, keep)
    BY <1>1, <1>2, <1>3, Zenon DEF CollectAttachments
  <1>5. DOMAIN none = 1 .. 0
    OBVIOUS
  <1>6. pl \in Seq(Nat) /\ DOMAIN pl = {}
    <2>1. pl \in [1 .. 0 -> Nat] /\ DOMAIN pl = 1 .. 0
      BY <1>1, <1>5
    <2>2. 1 .. 0 = {}
      OBVIOUS
    <2> QED
      BY <2>1, <2>2, SeqDef
  <1>7. all \in Seq(Nat) /\ Range(all) = {pl[i] : i \in keep \cap DOMAIN pl}
    BY <1>4, <1>6, FilteredKeeps
  <1>8. Range(all) = {}
    BY <1>6, <1>7
  <1>9. Len(all) = 0 /\ all = <<>>
    <2>1. Len(all) \in Nat /\ DOMAIN all = 1 .. Len(all)
      BY <1>7
    <2>2. Len(all) >= 1 => all[1] \in Range(all)
      BY <2>1 DEF Range
    <2>3. Len(all) = 0
      BY <1>8, <2>1, <2>2
    <2> QED
      BY <1>7, <2>3
  <1>10. MaxAttachments \in Nat
    BY ViewBounds
  <1>11. PICK n : n = IF Len(all) > MaxAttachments THEN MaxAttachments ELSE Len(all)
    OBVIOUS
  <1>12. n = 0 /\ ~(Len(all) > MaxAttachments)
    BY <1>9, <1>10, <1>11
  <1>13. listed = [items |-> SubSeq(all, 1, n), truncated |-> Len(all) > MaxAttachments]
    BY <1>3, <1>11 DEF AttachmentViews
  <1>14. listed.items = SubSeq(all, 1, n) /\ listed.truncated = (Len(all) > MaxAttachments)
    BY <1>13
  <1>15. SubSeq(all, 1, n) = <<>>
    BY <1>9, <1>12
  <1> QED
    BY <1>12, <1>14, <1>15

\* What a request is given is faithful.
LEMMA ViewIsFaithful ==
  ASSUME NEW parts \in MessageParts, NEW subject \in Subjects, NEW ids \in LabelIds, NEW names, NEW includeBody \in BOOLEAN,
         NEW limit, ValidBodyBytes(limit), NEW q,
         q = [parts |-> parts, subject |-> subject, ids |-> ids, names |-> names, includeBody |-> includeBody, limit |-> limit,
              view |-> NewMessageView(Fetched(parts, includeBody), subject, ids, names, includeBody, limit)]
  PROVE  ViewFaithful(q)
  <1>1. PartsOk(parts) /\ subject \in Seq(Nat)
    BY TextsAssumption DEF PartsOk
  <1>2. PICK most \in Nat : most = LimitOrDefault(limit)
    BY ViewBounds DEF ValidBodyBytes, LimitOrDefault
  <1>3. PICK header : header = BoundedBytes(BytesOf(subject), MaxHeaderBytes)
    OBVIOUS
  <1> DEFINE fetched == Fetched(parts, includeBody)
  <1>0. (includeBody => fetched = parts) /\ (~includeBody => fetched = <<>>)
    BY DEF Fetched
  <1>4. PICK body : body = IF includeBody THEN BoundedBody(fetched, most) ELSE NoBody
    OBVIOUS
  <1>5. PICK listed : listed = AttachmentViews(fetched, body.selected)
    OBVIOUS
  <1>6. PICK labels : labels = LabelViews(ids, names)
    OBVIOUS
  <1> HIDE DEF fetched
  <1>7. PICK v : v = NewMessageView(fetched, subject, ids, names, includeBody, limit)
    OBVIOUS
  <1>8. v = [fails |-> body.fails, subject |-> header.text, body |-> body.text, bodyTruncated |-> body.truncated,
             attachments |-> listed.items, labels |-> labels, attachmentsTruncated |-> listed.truncated,
             truncated |-> header.truncated \/ body.truncated \/ listed.truncated]
    BY <1>2, <1>3, <1>4, <1>5, <1>6, <1>7, Zenon DEF NewMessageView
  <1>9. /\ v.subject = header.text /\ v.body = body.text /\ v.attachments = listed.items /\ v.labels = labels
        /\ v.attachmentsTruncated = listed.truncated
        /\ ~v.truncated => ~header.truncated /\ ~body.truncated /\ ~listed.truncated
    BY <1>8
  <1>10. q.parts = parts /\ q.subject = subject /\ q.includeBody = includeBody /\ q.limit = limit /\ q.view = v
    BY <1>7 DEF fetched
  <1>11. /\ Len(header.text) <= MaxHeaderBytes /\ WholeCharacters(header.text, BytesOf(subject))
         /\ ~header.truncated => header.text = BytesOf(subject)
    <2>1. BytesOf(subject) \in Seq(BOOLEAN) /\ (Len(BytesOf(subject)) > 0 => BytesOf(subject)[1] = TRUE)
      BY <1>1, BytesStart
    <2>2. MaxHeaderBytes \in Nat
      BY ViewBounds
    <2> QED
      BY <1>3, <2>1, <2>2, BoundedKeeps
  <1>12. /\ Len(body.text) <= most
         /\ includeBody => \A i \in BestBodyPart(parts) :
               /\ body.text = <<>> \/ WholeCharacters(body.text, BytesOf(Shown(parts[i])))
               /\ ~body.truncated => body.text = BytesOf(Shown(parts[i]))
         /\ body.selected = NoName \/ \E j \in BestBodyPart(parts) : parts[j].external = body.selected
    <2>1. CASE includeBody
      <3>1. body = BoundedBody(parts, most)
        BY <1>0, <1>4, <2>1
      <3> QED
        BY <1>1, <3>1, BodyIsBest
    <2>2. CASE ~includeBody
      <3>1. body = NoBody
        BY <1>4, <2>2
      <3> QED
        BY <2>2, <3>1 DEF NoBody
    <2> QED
      BY <2>1, <2>2
  <1>13. /\ \A i \in Range(listed.items) : IsAttachmentPart(parts[i])
         /\ includeBody /\ ~listed.truncated =>
               \A i \in DOMAIN parts : IsAttachmentPart(parts[i]) =>
                  i \in Range(listed.items) \/ (body.selected # NoName /\ parts[i].external = body.selected)
         /\ ~includeBody => listed.items = <<>> /\ ~listed.truncated
    <2>1. CASE includeBody
      <3>1. listed = AttachmentViews(parts, body.selected)
        BY <1>0, <1>5, <2>1
      <3> QED
        BY <1>1, <2>1, <3>1, AttachmentsListed
    <2>2. CASE ~includeBody
      <3>1. fetched = <<>>
        BY <1>0, <2>2
      <3>2. listed.items = <<>> /\ ~listed.truncated
        BY <1>5, <3>1, NothingListed
      <3> QED
        BY <2>2, <3>2 DEF Range
    <2> QED
      BY <2>1, <2>2
  <1>14. \A i, j \in DOMAIN labels : labels[i] = labels[j] => i = j
    <2>1. ids \in Seq({"l1", "l2", NoName})
      <3>1. PICK S : S = {"l1", "l2", NoName}
        OBVIOUS
      <3>2. PICK a, b, c \in S : a = "l1" /\ b = "l2" /\ c = NoName
        BY <3>1
      <3>3. LabelIds = {<<>>, <<a, b, a>>, <<c, b>>}
        BY <3>2, Zenon DEF LabelIds
      <3>4. <<>> \in Seq(S) /\ <<a, b, a>> \in Seq(S) /\ <<c, b>> \in Seq(S)
        OBVIOUS
      <3> QED
        BY <3>1, <3>3, <3>4
    <2>2. Distinct(labels)
      BY <1>6, <2>1, LabelsOnce
    <2> QED
      BY <2>2 DEF Distinct
  <1>15. BestBodyPart(parts) \cap Range(listed.items) = {}
    <2>1. \A i \in BestBodyPart(parts) : ~IsAttachmentPart(parts[i])
      BY <1>1, BestPart
    <2> QED
      BY <1>13, <2>1
  <1> DEFINE plain == {i \in DOMAIN parts : parts[i].type = "text/plain" /\ ~IsAttachmentPart(parts[i]) /\ HasBodyData(parts[i])}
  <1>16. plain # {} => BestBodyPart(parts) \subseteq plain
    BY <1>1, BestPart
  <1> HIDE DEF plain
  <1>18. includeBody /\ ~v.truncated => \A i \in DOMAIN parts : IsAttachmentPart(parts[i]) =>
            \/ i \in Range(v.attachments)
            \/ \E j \in BestBodyPart(parts) : parts[j].external = parts[i].external
    BY <1>9, <1>12, <1>13
  <1>19. includeBody => \A i \in BestBodyPart(parts) :
            /\ plain # {} => i \in plain
            /\ v.body = <<>> \/ WholeCharacters(v.body, BytesOf(Shown(parts[i])))
            /\ ~v.truncated => v.body = BytesOf(Shown(parts[i]))
    BY <1>9, <1>12, <1>16
  <1>20. Len(v.body) <= most /\ Len(v.subject) <= MaxHeaderBytes /\ WholeCharacters(v.subject, BytesOf(subject))
         /\ (~v.truncated => v.subject = BytesOf(subject))
    BY <1>9, <1>11, <1>12
  <1>21. Range(v.attachments) \cap BestBodyPart(parts) = {} /\ \A i, j \in DOMAIN v.labels : v.labels[i] = v.labels[j] => i = j
    BY <1>9, <1>14, <1>15
  <1> DEFINE best == BestBodyPart(q.parts)
             plainq == {i \in DOMAIN q.parts : q.parts[i].type = "text/plain" /\ ~IsAttachmentPart(q.parts[i])
                                               /\ HasBodyData(q.parts[i])}
  <1>22. best = BestBodyPart(parts) /\ plainq = plain
    BY <1>10, Zenon DEF plain
  <1>23. q.includeBody /\ ~q.view.truncated => \A i \in DOMAIN q.parts : IsAttachmentPart(q.parts[i]) =>
            \/ i \in Range(q.view.attachments)
            \/ \E j \in best : q.parts[j].external = q.parts[i].external
    <2> HIDE DEF best, plainq
    <2> QED
      BY <1>10, <1>18, <1>22
  <1>24. q.includeBody => \A i \in best :
            /\ plainq # {} => i \in plainq
            /\ q.view.body = <<>> \/ WholeCharacters(q.view.body, BytesOf(Shown(q.parts[i])))
            /\ ~q.view.truncated => q.view.body = BytesOf(Shown(q.parts[i]))
    <2> HIDE DEF best, plainq
    <2> QED
      BY <1>10, <1>19, <1>22
  <1>25. /\ Len(q.view.body) <= LimitOrDefault(q.limit) /\ Len(q.view.subject) <= MaxHeaderBytes
         /\ WholeCharacters(q.view.subject, BytesOf(q.subject))
         /\ ~q.view.truncated => q.view.subject = BytesOf(q.subject)
    BY <1>2, <1>10, <1>20
  <1>26. /\ Range(q.view.attachments) \cap best = {}
         /\ \A i, j \in DOMAIN q.view.labels : q.view.labels[i] = q.view.labels[j] => i = j
    <2> HIDE DEF best, plainq
    <2> QED
      BY <1>10, <1>21, <1>22
  <1>27. ~q.includeBody => q.view.body = <<>> /\ q.view.attachments = <<>> /\ ~q.view.attachmentsTruncated
    BY <1>4, <1>9, <1>10, <1>13 DEF NoBody
  <1> QED
    BY <1>23, <1>24, <1>25, <1>26, <1>27, Zenon DEF ViewFaithful

\* Views are faithful in every state (ViewsFaithful).
THEOREM ViewsAreFaithful == MessageSpec => []ViewsFaithful
  <1>1. MessageInit => ViewsFaithful
    BY DEF MessageInit, ViewsFaithful
  <1>2. ViewsFaithful /\ [MessageNext]_messageVars => ViewsFaithful'
    <2> SUFFICES ASSUME ViewsFaithful, [MessageNext]_messageVars PROVE ViewsFaithful'
      OBVIOUS
    <2>1. CASE MessageNext
      <3>1. PICK parts \in MessageParts, subject \in Subjects, ids \in LabelIds, names \in SUBSET {"l1", "l2"},
                 includeBody \in BOOLEAN, limit \in BodyLimits : ViewMessage(parts, subject, ids, names, includeBody, limit)
        BY <2>1 DEF MessageNext
      <3>2. PICK q : q = [parts |-> parts, subject |-> subject, ids |-> ids, names |-> names, includeBody |-> includeBody,
                          limit |-> limit,
                          view |-> NewMessageView(Fetched(parts, includeBody), subject, ids, names, includeBody, limit)]
        OBVIOUS
      <3>3. ViewFaithful(q)
        <4>1. ValidBodyBytes(limit)
          BY <3>1 DEF ViewMessage
        <4> QED
          BY <3>2, <4>1, ViewIsFaithful
      <3>4. viewed' = {q}
        BY <3>1, <3>2 DEF ViewMessage
      <3> QED
        BY <3>3, <3>4 DEF ViewsFaithful
    <2>2. CASE UNCHANGED messageVars
      BY <2>2 DEF messageVars, ViewsFaithful
    <2> QED
      BY <2>1, <2>2
  <1> QED
    BY <1>1, <1>2, PTL DEF MessageSpec

\* Both: what a read reports is what was there, within the bounds asked for (search,
\* newMessageView).
THEOREM ReadsAsThere == SearchSpec /\ MessageSpec => []ReadAsThere
  BY LabelsAreCurrent, ViewsAreFaithful, PTL DEF ReadAsThere

-----------------------------------------------------------------------------
(* Created documents, presentations and spreadsheets: CreatedAsReported. *)

\* The creations alone, whatever the other parts do.
AuthoringSpec == AuthoringInit /\ [][AuthoringNext]_authoringVars

\* The code counts the units of a text that Docs counts: two for a wide character.
LEMMA UnitsTrue ==
  ASSUME NEW text, IsList(text)
  PROVE  Units(text) = TrueUnits(text) /\ Units(text) \in Nat
  <1> DEFINE N == Len(text)
             step == [p \in (1 .. N) \X Nat |-> p[2] + Width(text[p[1]])]
             Solves1(f) == f = [n \in 0 .. N |-> IF n = 0 THEN 0 ELSE f[n - 1] + Width(text[n])]
  <1>1. N \in Nat /\ DOMAIN text = 1 .. N
    BY DEF IsList
  <1>2. \A ch : Width(ch) \in Nat
    BY DEF Width
  <1>3. IsStep(step, N, Nat)
    <2>1. \A p \in (1 .. N) \X Nat : p[2] + Width(text[p[1]]) \in Nat
      BY <1>2
    <2>2. step \in [(1 .. N) \X Nat -> Nat]
      BY <2>1
    <2> QED
      BY <2>2 DEF IsStep
  <1>4. PICK f : Loops(f, N, Nat, 0, step)
    <2>1. 0 \in Nat
      OBVIOUS
    <2> HIDE DEF step, N
    <2> QED
      BY <1>1, <1>3, <2>1, LoopExists
  <1>5. Solves1(f)
    <2>1. ASSUME NEW n \in 1 .. N PROVE f[n] = f[n - 1] + Width(text[n])
      <3>1. n - 1 \in 0 .. N /\ f[n - 1] \in Nat
        BY <1>1, <1>4 DEF Loops
      <3>2. f[n] = step[<<n, f[n - 1]>>]
        BY <1>4 DEF Loops
      <3> QED
        BY <3>1, <3>2
    <2>2. f \in [0 .. N -> Nat] /\ f[0] = 0
      BY <1>4 DEF Loops
    <2>3. \A n \in 0 .. N : n = 0 \/ n \in 1 .. N
      BY <1>1
    <2> QED
      BY <2>1, <2>2, <2>3
  <1> DEFINE g == CHOOSE x : Solves1(x)
  <1>6. Solves1(g)
    <2> HIDE DEF Solves1
    <2> QED
      BY <1>5
  <1>7. Units(text) = g[N]
    BY DEF Units
  <1> HIDE DEF g, step
  <1>8. g[0] = 0 /\ \A n \in 1 .. N : g[n] = g[n - 1] + Width(text[n])
    <2>1. 0 \in 0 .. N /\ \A n \in 1 .. N : n \in 0 .. N /\ n # 0
      BY <1>1
    <2> QED
      BY <1>6, <2>1
  <1> DEFINE wide(n) == {i \in 1 .. n : text[i] = "wide"}
             T == {n \in 0 .. N : g[n] = n + Cardinality(wide(n))}
  <1>9. \A n \in Nat : IsFiniteSet(wide(n)) /\ Cardinality(wide(n)) \in Nat
    <2>1. ASSUME NEW n \in Nat PROVE IsFiniteSet(wide(n)) /\ Cardinality(wide(n)) \in Nat
      <3>1. IsFiniteSet(1 .. n)
        BY FS_Interval
      <3>2. IsFiniteSet(wide(n))
        BY <3>1, FS_Subset
      <3> QED
        BY <3>2, FS_CardinalityType
    <2> QED
      BY <2>1
  <1>10. 0 \in T
    <2>1. wide(0) = {}
      OBVIOUS
    <2>2. Cardinality(wide(0)) = 0
      BY <2>1, FS_EmptySet
    <2> HIDE DEF wide
    <2> QED
      BY <1>1, <1>8, <2>2
  <1>11. ASSUME NEW n \in 0 .. N, n \in T, n + 1 <= N PROVE n + 1 \in T
    <2>1. n + 1 \in 0 .. N /\ n + 1 \in 1 .. N /\ (n + 1) - 1 = n /\ n \in Nat
      BY <1>1, <1>11
    <2>2. g[n + 1] = g[n] + Width(text[n + 1])
      BY <1>8, <2>1
    <2>5. PICK w \in Nat : w = Cardinality(wide(n)) /\ g[n] = n + w
      <3>1. g[n] = n + Cardinality(wide(n))
        BY <1>11
      <3> QED
        BY <1>9, <2>1, <3>1
    <2>3. CASE text[n + 1] = "wide"
      <3>1. wide(n + 1) = wide(n) \cup {n + 1} /\ n + 1 \notin wide(n)
        BY <2>1, <2>3
      <3>2. Cardinality(wide(n + 1)) = Cardinality(wide(n)) + 1
        <4> HIDE DEF wide
        <4> QED
          BY <1>9, <2>1, <3>1, FS_AddElement
      <3>3. Width(text[n + 1]) = 2
        BY <2>3 DEF Width
      <3> HIDE DEF wide
      <3> QED
        BY <2>1, <2>2, <2>5, <3>2, <3>3
    <2>4. CASE text[n + 1] # "wide"
      <3>1. wide(n + 1) = wide(n)
        BY <2>1, <2>4
      <3>3. Width(text[n + 1]) = 1
        BY <2>4 DEF Width
      <3> HIDE DEF wide
      <3> QED
        BY <2>1, <2>2, <2>5, <3>1, <3>3
    <2> QED
      BY <2>3, <2>4
  <1>12. 0 .. N \subseteq T
    <2> HIDE DEF T, N
    <2> QED
      BY <1>1, <1>10, <1>11, UpTo
  <1>13. N \in 0 .. N
    BY <1>1
  <1>14. TrueUnits(text) = N + Cardinality(wide(N))
    BY <1>1 DEF TrueUnits
  <1>15. g[N] = N + Cardinality(wide(N))
    BY <1>12, <1>13
  <1> HIDE DEF wide, N
  <1> QED
    BY <1>1, <1>7, <1>9, <1>14, <1>15

\* Paragraphs begin one after another: each after the end of those before it.
LEMMA StartsGrow ==
  ASSUME NEW N \in Nat, NEW lengths \in [1 .. N -> Nat], NEW at, at = Starts(lengths)
  PROVE  /\ \A i \in 1 .. N : at[i] < at[i + 1]
         /\ \A i, j \in 1 .. N + 1 : i <= j => at[i] <= at[j]
         /\ \A i \in 1 .. N + 1 : at[i] \in Nat
  <1> DEFINE step == [p \in (1 .. N) \X Nat |-> p[2] + lengths[p[1]] + 1]
             Solves1(f) == f = [i \in 1 .. Len(lengths) + 1 |-> IF i = 1 THEN 1 ELSE f[i - 1] + lengths[i - 1] + 1]
  <1>1. Len(lengths) = N
    <2>1. lengths \in Seq(Nat)
      BY SeqDef
    <2> QED
      BY <2>1
  <1>2. IsStep(step, N, Nat)
    <2>1. \A p \in (1 .. N) \X Nat : p[2] + lengths[p[1]] + 1 \in Nat
      OBVIOUS
    <2>2. step \in [(1 .. N) \X Nat -> Nat]
      BY <2>1
    <2> QED
      BY <2>2 DEF IsStep
  <1>3. PICK f : Loops(f, N, Nat, 1, step)
    <2>1. 1 \in Nat
      OBVIOUS
    <2> HIDE DEF step
    <2> QED
      BY <1>2, <2>1, LoopExists
  <1>4. \A n \in 1 .. N : f[n] = f[n - 1] + lengths[n] + 1
    <2>1. ASSUME NEW n \in 1 .. N PROVE f[n] = f[n - 1] + lengths[n] + 1
      <3>1. n - 1 \in 0 .. N /\ f[n - 1] \in Nat
        BY <1>3 DEF Loops
      <3>2. f[n] = step[<<n, f[n - 1]>>]
        BY <1>3 DEF Loops
      <3> QED
        BY <3>1, <3>2
    <2> QED
      BY <2>1
  <1> DEFINE h == [i \in 1 .. N + 1 |-> f[i - 1]]
  <1>5. Solves1(h)
    <2>1. ASSUME NEW i \in 1 .. N + 1 PROVE h[i] = IF i = 1 THEN 1 ELSE h[i - 1] + lengths[i - 1] + 1
      <3>1. CASE i = 1
        BY <1>3, <3>1 DEF Loops
      <3>2. CASE i # 1
        <4>1. i - 1 \in 1 .. N /\ i - 1 \in 1 .. N + 1
          BY <3>2
        <4> QED
          BY <1>4, <3>2, <4>1
      <3> QED
        BY <3>1, <3>2
    <2>2. h = [i \in 1 .. N + 1 |-> h[i]]
      OBVIOUS
    <2> HIDE DEF h
    <2> QED
      BY <1>1, <2>1, <2>2
  <1>6. Solves1(at)
    <2>1. at = CHOOSE x : Solves1(x)
      BY DEF Starts
    <2> HIDE DEF Solves1, h
    <2> QED
      BY <1>5, <2>1
  <1>7. at[1] = 1 /\ \A i \in 1 .. N : at[i + 1] = at[i] + lengths[i] + 1
    <2>1. 1 \in 1 .. N + 1
      OBVIOUS
    <2>2. ASSUME NEW i \in 1 .. N PROVE at[i + 1] = at[i] + lengths[i] + 1
      <3>1. i + 1 \in 1 .. N + 1 /\ i + 1 # 1 /\ (i + 1) - 1 = i
        OBVIOUS
      <3> QED
        BY <1>1, <1>6, <3>1
    <2> QED
      BY <1>1, <1>6, <2>1, <2>2
  <1> HIDE DEF Solves1, h, step
  <1> DEFINE T == {n \in 0 .. N : at[n + 1] \in Nat /\ \A i \in 1 .. n + 1 : at[i] \in Nat /\ at[i] <= at[n + 1]}
  <1>8. 0 \in T
    <2>1. \A i \in 1 .. 0 + 1 : i = 1
      OBVIOUS
    <2> QED
      BY <1>7, <2>1
  <1>9. ASSUME NEW n \in 0 .. N, n \in T, n + 1 <= N PROVE n + 1 \in T
    <2>1. n + 1 \in 1 .. N /\ n + 1 \in 0 .. N /\ lengths[n + 1] \in Nat
      BY <1>9
    <2>2. at[(n + 1) + 1] = at[n + 1] + lengths[n + 1] + 1
      BY <1>7, <2>1
    <2>3. at[(n + 1) + 1] \in Nat /\ at[n + 1] <= at[(n + 1) + 1]
      BY <1>9, <2>1, <2>2
    <2>4. ASSUME NEW i \in 1 .. (n + 1) + 1 PROVE at[i] \in Nat /\ at[i] <= at[(n + 1) + 1]
      <3>1. CASE i = (n + 1) + 1
        BY <2>3, <3>1
      <3>2. CASE i # (n + 1) + 1
        <4>1. i \in 1 .. n + 1
          BY <3>2
        <4>2. at[i] \in Nat /\ at[i] <= at[n + 1] /\ at[n + 1] \in Nat
          BY <1>9, <4>1
        <4> QED
          BY <2>3, <4>2
      <3> QED
        BY <3>1, <3>2
    <2> QED
      BY <2>1, <2>3, <2>4
  <1>10. 0 .. N \subseteq T
    <2> HIDE DEF T
    <2> QED
      BY <1>8, <1>9, UpTo
  <1>11. ASSUME NEW j \in 1 .. N + 1 PROVE at[j] \in Nat /\ \A i \in 1 .. j : at[i] <= at[j]
    <2>1. j - 1 \in 0 .. N /\ (j - 1) + 1 = j
      OBVIOUS
    <2>2. j - 1 \in T
      BY <1>10, <2>1
    <2> QED
      BY <2>1, <2>2
  <1>12. ASSUME NEW i \in 1 .. N PROVE at[i] < at[i + 1]
    <2>1. at[i] \in Nat /\ lengths[i] \in Nat
      BY <1>11
    <2> QED
      BY <1>7, <2>1
  <1>13. ASSUME NEW i \in 1 .. N + 1, NEW j \in 1 .. N + 1, i <= j PROVE at[i] <= at[j]
    <2>1. i \in 1 .. j
      BY <1>13
    <2> QED
      BY <1>11, <2>1
  <1> QED
    BY <1>11, <1>12, <1>13

\* Each paragraph has the style asked for it and no other's: a range meets its own
\* paragraph alone (styleRequests).
LEMMA OwnStyle ==
  ASSUME NEW paragraphs, IsList(paragraphs), \A i \in DOMAIN paragraphs : IsList(paragraphs[i].text)
  PROVE  StyledBy(paragraphs, StyleRequests(paragraphs)) = [i \in DOMAIN paragraphs |-> StyleOf(paragraphs[i])]
  <1>1. PICK N \in Nat : DOMAIN paragraphs = 1 .. N
    BY DEF IsList
  <1>2. PICK lengths : lengths = [i \in DOMAIN paragraphs |-> Units(paragraphs[i].text)]
    OBVIOUS
  <1>3. /\ lengths \in [1 .. N -> Nat]
        /\ lengths = [p \in DOMAIN paragraphs |-> TrueUnits(paragraphs[p].text)]
    BY <1>1, <1>2, UnitsTrue
  <1>4. PICK at : at = Starts(lengths)
    OBVIOUS
  <1>5. /\ \A i \in 1 .. N : at[i] < at[i + 1]
        /\ \A i, j \in 1 .. N + 1 : i <= j => at[i] <= at[j]
        /\ \A i \in 1 .. N + 1 : at[i] \in Nat
    BY <1>3, <1>4, StartsGrow
  <1>6. PICK requests : requests = StyleRequests(paragraphs)
    OBVIOUS
  <1>7. requests = [i \in DOMAIN paragraphs |-> [start |-> at[i], end |-> at[i + 1], style |-> StyleOf(paragraphs[i])]]
    BY <1>2, <1>4, <1>6 DEF StyleRequests
  <1>8. DOMAIN requests = 1 .. N
    BY <1>1, <1>7
  <1>9. \A j \in 1 .. N : requests[j].start = at[j] /\ requests[j].end = at[j + 1] /\ requests[j].style = StyleOf(paragraphs[j])
    BY <1>1, <1>7
  <1> DEFINE meets(i) == {j \in DOMAIN requests : requests[j].start < at[i + 1] /\ at[i] < requests[j].end}
             style(i) == IF meets(i) = {} THEN "NORMAL_TEXT"
                         ELSE requests[CHOOSE j \in meets(i) : \A l \in meets(i) : l <= j].style
  <1>10. StyledBy(paragraphs, requests) = [i \in DOMAIN paragraphs |-> style(i)]
    BY <1>3, <1>4 DEF StyledBy
  <1>11. ASSUME NEW i \in 1 .. N PROVE style(i) = StyleOf(paragraphs[i])
    <2>1. i \in meets(i)
      BY <1>5, <1>8, <1>9
    <2>2. ASSUME NEW j \in meets(i) PROVE j = i
      <3>1. j \in 1 .. N /\ at[j] < at[i + 1] /\ at[i] < at[j + 1]
        BY <1>8, <1>9
      <3>2. i \in 1 .. N + 1 /\ j \in 1 .. N + 1 /\ i + 1 \in 1 .. N + 1 /\ j + 1 \in 1 .. N + 1
        BY <3>1
      <3>3. at[i] \in Nat /\ at[j] \in Nat /\ at[i + 1] \in Nat /\ at[j + 1] \in Nat
        BY <1>5, <3>2
      <3>4. ~(i + 1 <= j)
        BY <1>5, <3>1, <3>2, <3>3
      <3>5. ~(j + 1 <= i)
        BY <1>5, <3>1, <3>2, <3>3
      <3> QED
        BY <3>1, <3>4, <3>5
    <2>3. meets(i) = {i}
      BY <2>1, <2>2
    <2> HIDE DEF meets
    <2>4. (CHOOSE j \in meets(i) : \A l \in meets(i) : l <= j) = i
      BY <2>3
    <2> QED
      BY <1>9, <2>3, <2>4
  <1> HIDE DEF style
  <1>12. [i \in DOMAIN paragraphs |-> style(i)] = [i \in DOMAIN paragraphs |-> StyleOf(paragraphs[i])]
    BY <1>1, <1>11
  <1> QED
    BY <1>6, <1>10, <1>12

\* When all slides that were there are deleted, those asked for are left (replacePresentation).
LEMMA RefilledAsAsked ==
  ASSUME NEW there, IsList(there), NEW slides, IsList(slides)
  PROVE  Refilled(there, Ids(there), slides) = [i \in DOMAIN slides |-> Slide(i, slides[i])]
  <1> DEFINE keep == {i \in DOMAIN there : there[i].id \notin Ids(there)}
  <1>1. keep = {}
    BY DEF Ids
  <1>2. PICK left : left = Filtered(there, {})
    OBVIOUS
  <1>3. left \in Seq({there[i] : i \in DOMAIN there}) /\ Range(left) = {}
    BY <1>2, FilteredKeeps DEF IsList
  <1>4. left = <<>>
    <2>1. DOMAIN left = {} /\ DOMAIN left = 1 .. Len(left) /\ Len(left) \in Nat
      BY <1>3 DEF Range
    <2> QED
      BY <1>3, <2>1
  <1>5. PICK new : new = [i \in DOMAIN slides |-> Slide(i, slides[i])]
    OBVIOUS
  <1>6. new \in Seq({new[i] : i \in DOMAIN new})
    <2>1. PICK N \in Nat : DOMAIN slides = 1 .. N
      BY DEF IsList
    <2>2. new \in [1 .. N -> {new[i] : i \in DOMAIN new}]
      BY <1>5, <2>1
    <2> QED
      BY <2>2, SeqDef
  <1>7. Refilled(there, Ids(there), slides) = left \o new
    BY <1>1, <1>2, <1>5 DEF Refilled
  <1>8. <<>> \o new = new
    BY <1>6
  <1> QED
    BY <1>4, <1>5, <1>7, <1>8

\* The widest row is as wide as each row.
LEMMA WidestBounds ==
  ASSUME NEW rows, IsList(rows), \A r \in DOMAIN rows : IsList(rows[r])
  PROVE  Widest(rows) \in Nat /\ Widest(rows) >= 1 /\ \A r \in DOMAIN rows : Len(rows[r]) <= Widest(rows)
  <1> DEFINE N == Len(rows)
             step == [p \in (1 .. N) \X Nat |-> Larger(p[2], Len(rows[p[1]]))]
             Solves1(f) == f = [n \in 0 .. N |-> IF n = 0 THEN 1 ELSE Larger(f[n - 1], Len(rows[n]))]
  <1>1. N \in Nat /\ DOMAIN rows = 1 .. N
    BY DEF IsList
  <1>2. \A r \in 1 .. N : Len(rows[r]) \in Nat
    BY <1>1 DEF IsList
  <1>3. IsStep(step, N, Nat)
    <2>1. \A p \in (1 .. N) \X Nat : Larger(p[2], Len(rows[p[1]])) \in Nat
      BY <1>2 DEF Larger
    <2>2. step \in [(1 .. N) \X Nat -> Nat]
      BY <2>1
    <2> QED
      BY <2>2 DEF IsStep
  <1>4. PICK f : Loops(f, N, Nat, 1, step)
    <2>1. 1 \in Nat
      OBVIOUS
    <2> HIDE DEF step, N
    <2> QED
      BY <1>1, <1>3, <2>1, LoopExists
  <1>5. Solves1(f)
    <2>1. ASSUME NEW n \in 1 .. N PROVE f[n] = Larger(f[n - 1], Len(rows[n]))
      <3>1. n - 1 \in 0 .. N /\ f[n - 1] \in Nat
        BY <1>1, <1>4 DEF Loops
      <3>2. f[n] = step[<<n, f[n - 1]>>]
        BY <1>4 DEF Loops
      <3> QED
        BY <3>1, <3>2
    <2>2. f \in [0 .. N -> Nat] /\ f[0] = 1
      BY <1>4 DEF Loops
    <2>3. \A n \in 0 .. N : n = 0 \/ n \in 1 .. N
      BY <1>1
    <2> QED
      BY <2>1, <2>2, <2>3
  <1> DEFINE g == CHOOSE x : Solves1(x)
  <1>6. Solves1(g)
    <2> HIDE DEF Solves1
    <2> QED
      BY <1>5
  <1>7. Widest(rows) = g[N]
    BY DEF Widest
  <1> HIDE DEF g, step
  <1>8. g[0] = 1 /\ \A n \in 1 .. N : g[n] = Larger(g[n - 1], Len(rows[n]))
    <2>1. 0 \in 0 .. N /\ \A n \in 1 .. N : n \in 0 .. N /\ n # 0
      BY <1>1
    <2> QED
      BY <1>6, <2>1
  <1> DEFINE T == {n \in 0 .. N : g[n] \in Nat /\ g[n] >= 1 /\ \A r \in 1 .. n : Len(rows[r]) <= g[n]}
  <1>9. 0 \in T
    BY <1>1, <1>8
  <1>10. ASSUME NEW n \in 0 .. N, n \in T, n + 1 <= N PROVE n + 1 \in T
    <2>1. n + 1 \in 0 .. N /\ n + 1 \in 1 .. N /\ (n + 1) - 1 = n
      BY <1>1, <1>10
    <2>2. PICK w \in Nat : w = Len(rows[n + 1])
      BY <1>2, <2>1
    <2>3. PICK m \in Nat : m = g[n] /\ m >= 1 /\ \A r \in 1 .. n : Len(rows[r]) <= m
      BY <1>10
    <2>4. g[n + 1] = Larger(m, w)
      BY <1>8, <2>1, <2>2, <2>3
    <2>5. Larger(m, w) \in Nat /\ Larger(m, w) >= m /\ Larger(m, w) >= w
      BY DEF Larger
    <2>6. ASSUME NEW r \in 1 .. n + 1 PROVE Len(rows[r]) <= g[n + 1]
      <3>1. CASE r = n + 1
        BY <2>2, <2>4, <2>5, <3>1
      <3>2. CASE r # n + 1
        <4>1. r \in 1 .. n /\ r \in 1 .. N
          BY <2>1, <3>2
        <4>2. Len(rows[r]) <= m /\ Len(rows[r]) \in Nat
          BY <1>2, <2>3, <4>1
        <4> QED
          BY <2>4, <2>5, <4>2
      <3> QED
        BY <3>1, <3>2
    <2>7. g[n + 1] \in Nat /\ g[n + 1] >= 1
      BY <2>3, <2>4, <2>5
    <2> QED
      BY <2>1, <2>6, <2>7
  <1>11. 0 .. N \subseteq T
    <2> HIDE DEF T, N
    <2> QED
      BY <1>1, <1>9, <1>10, UpTo
  <1>12. N \in 0 .. N
    BY <1>1
  <1>13. N \in T
    BY <1>11, <1>12
  <1> QED
    BY <1>1, <1>7, <1>13

\* A function of the places of a list has its length.
LEMMA LengthKept ==
  ASSUME NEW s, IsList(s), NEW t, DOMAIN t = DOMAIN s, t = [i \in DOMAIN s |-> t[i]]
  PROVE  Len(t) = Len(s) /\ Len(s) \in Nat
  <1>1. PICK N \in Nat : DOMAIN s = 1 .. N /\ Len(s) = N
    BY DEF IsList
  <1>2. IsList(t)
    BY ListChanges
  <1>3. Len(t) \in Nat /\ DOMAIN t = 1 .. Len(t)
    BY <1>2 DEF IsList
  <1>4. 1 .. Len(t) = 1 .. N
    BY <1>1, <1>3
  <1>5. Len(t) = N
    <2> HIDE DEF IsList
    <2>1. PICK n \in Nat : n = Len(t)
      BY <1>3
    <2>2. 1 .. n = 1 .. N
      BY <1>4, <2>1
    <2>3. ~(n < N)
      <3>1. SUFFICES ASSUME n < N PROVE FALSE
        OBVIOUS
      <3>2. N \in 1 .. N /\ N \notin 1 .. n
        BY <3>1
      <3> QED
        BY <2>2, <3>2
    <2>4. ~(N < n)
      <3>1. SUFFICES ASSUME N < n PROVE FALSE
        OBVIOUS
      <3>2. n \in 1 .. n /\ n \notin 1 .. N
        BY <3>1
      <3> QED
        BY <2>2, <3>2
    <2> QED
      BY <2>1, <2>3, <2>4
  <1> QED
    BY <1>1, <1>5

\* A grid has room for its cells, and a row below a frozen header (createSpreadsheet).
LEMMA GridFits ==
  ASSUME NEW in \in Spreadsheets, ValidSpreadsheet(in), NEW content, content = Grid(in)
  PROVE  AsAsked("spreadsheet", in, content)
  <1>1. IsList(in.rows) /\ \A r \in DOMAIN in.rows : IsList(in.rows[r])
    BY RequestsAssumption DEF IsList, Range
  <1>2. PICK rows : rows = in.rows
    OBVIOUS
  <1>3. PICK n \in Nat : n = Len(rows) /\ n >= 1
    BY <1>1, <1>2 DEF IsList, ValidSpreadsheet
  <1>4. PICK w \in Nat : w = Widest(rows) /\ w >= 1 /\ \A r \in DOMAIN rows : Len(rows[r]) <= w
    BY <1>1, <1>2, WidestBounds
  <1> DEFINE row(r) == [c \in DOMAIN rows[r] |-> [value |-> CellValue(rows[r][c]), bold |-> in.header /\ r = 1]]
  <1>5. PICK cells : cells = [r \in DOMAIN rows |-> row(r)]
    OBVIOUS
  <1>6. content = [rows |-> IF in.header THEN Larger(n, 2) ELSE n, columns |-> w,
                   frozen |-> IF in.header THEN 1 ELSE 0, cells |-> cells]
    BY <1>2, <1>3, <1>4, <1>5, Zenon DEF Grid
  <1>7. /\ content.columns = w /\ content.cells = cells
        /\ content.rows = IF in.header THEN Larger(n, 2) ELSE n
        /\ content.frozen = IF in.header THEN 1 ELSE 0
    BY <1>6
  <1>8. content.rows \in Nat /\ content.rows >= n /\ content.frozen < content.rows
    BY <1>3, <1>7 DEF Larger
  <1>9. Len(cells) = n
    <2>1. DOMAIN cells = DOMAIN rows /\ cells = [r \in DOMAIN rows |-> cells[r]]
      BY <1>5
    <2> QED
      BY <1>1, <1>2, <1>3, <2>1, LengthKept
  <1>10. ASSUME NEW r \in DOMAIN cells PROVE Len(cells[r]) <= w
    <2>1. r \in DOMAIN rows /\ cells[r] = row(r)
      BY <1>5
    <2>2. PICK t : t = row(r)
      OBVIOUS
    <2>3. DOMAIN t = DOMAIN rows[r] /\ t = [c \in DOMAIN rows[r] |-> t[c]]
      BY <2>2
    <2>4. Len(t) = Len(rows[r])
      <3>1. IsList(rows[r])
        BY <1>1, <1>2, <2>1
      <3> QED
        BY <2>3, <3>1, LengthKept
    <2> QED
      BY <1>4, <2>1, <2>2, <2>4
  <1> QED
    BY <1>4, <1>7, <1>8, <1>9, <1>10 DEF AsAsked

-----------------------------------------------------------------------------
(* The calls. *)

CreationFields == {"kind", "in", "stage", "id", "deletes", "outcome", "populated"}

\* The request of a call is one that was let in.
Admitted(c) ==
    \/ c.kind = "document" /\ c.in \in Documents /\ ValidDocument(c.in)
    \/ c.kind = "presentation" /\ c.in \in Presentations /\ ValidPresentation(c.in)
    \/ c.kind = "spreadsheet" /\ c.in \in Spreadsheets /\ ValidSpreadsheet(c.in)

\* What is known of a call at each of its stages.
CreationSound(k) ==
    LET c == creations[k]
    IN  /\ DOMAIN c = CreationFields /\ Admitted(c)
        /\ c.stage \in {"create", "populate", "done"}
        /\ c.stage # "done" => c.outcome = Unsaid /\ c.populated = FALSE
        /\ c.stage = "populate" =>
              /\ c.id \in DOMAIN resources /\ resources[c.id].by = k /\ resources[c.id].filled = 0
              /\ c.kind # "spreadsheet"
              /\ c.kind = "presentation" => IsList(resources[c.id].content) /\ c.deletes = Ids(resources[c.id].content)
        /\ c.outcome \in {"done", "partial"} => c.id \in DOMAIN resources /\ resources[c.id].by = k
        /\ c.populated = (c.outcome = "done")
        /\ c.populated => AsAsked(c.kind, c.in, resources[c.id].content)

\* What is known of a resource: it is its call's only one, and that call did not fail.
ResourceSound(i) ==
    LET r == resources[i]
    IN  /\ DOMAIN r = {"kind", "by", "filled", "content"} /\ r.filled \in {0, 1}
        /\ r.by \in DOMAIN creations /\ creations[r.by].stage # "create" /\ creations[r.by].outcome # "failed"
        /\ \A j \in DOMAIN resources : resources[j].by = r.by => i = j

AuthoringInv ==
    /\ IsList(creations) /\ IsList(resources)
    /\ \A k \in DOMAIN creations : CreationSound(k)
    /\ \A i \in DOMAIN resources : ResourceSound(i)

\* AuthoringInv is enough.
LEMMA AuthoringInvEnough == AuthoringInv => CreatedAsReported
  <1> SUFFICES ASSUME AuthoringInv PROVE CreatedAsReported
    OBVIOUS
  <1>1. ASSUME NEW i \in DOMAIN resources
        PROVE  /\ resources[i].filled <= 1 /\ creations[resources[i].by].outcome # "failed"
               /\ \A j \in DOMAIN resources : resources[j].by = resources[i].by => i = j
    BY DEF AuthoringInv, ResourceSound
  <1>2. ASSUME NEW k \in DOMAIN creations
        PROVE  LET c == creations[k]
               IN  /\ c.outcome \in {"done", "partial"} => c.id \in DOMAIN resources /\ resources[c.id].by = k
                   /\ c.populated = (c.outcome = "done")
                   /\ c.populated => AsAsked(c.kind, c.in, resources[c.id].content)
    <2>1. CreationSound(k)
      BY DEF AuthoringInv
    <2> QED
      BY <2>1, Zenon DEF CreationSound
  <1> QED
    BY <1>1, <1>2, Zenon DEF CreatedAsReported

\* An outcome is told from none.
LEMMA UnsaidTold == Unsaid \notin {"done", "partial", "failed", "unknown"}
  BY Zenon DEF Unsaid

\* A call that does not move stays as it should when its resource does.
LEMMA CreationStays ==
  ASSUME NEW k \in DOMAIN creations, CreationSound(k), creations'[k] = creations[k],
         DOMAIN resources \subseteq DOMAIN resources', \A i \in DOMAIN resources : resources[i].by = k => resources'[i] = resources[i]
  PROVE  CreationSound(k)'
  <1>1. PICK c : c = creations[k]
    OBVIOUS
  <1>2. c = creations'[k]
    BY <1>1
  <1>3. ASSUME c.id \in DOMAIN resources, resources[c.id].by = k
        PROVE  c.id \in DOMAIN resources' /\ resources'[c.id] = resources[c.id]
    BY <1>3
  <1>4. /\ DOMAIN c = CreationFields /\ Admitted(c) /\ c.stage \in {"create", "populate", "done"}
        /\ c.stage # "done" => c.outcome = Unsaid /\ c.populated = FALSE
        /\ c.populated = (c.outcome = "done")
        /\ c.stage = "populate" \/ c.outcome \in {"done", "partial"} => c.id \in DOMAIN resources /\ resources[c.id].by = k
        /\ c.stage = "populate" => resources[c.id].filled = 0 /\ c.kind # "spreadsheet"
        /\ c.stage = "populate" /\ c.kind = "presentation" =>
              IsList(resources[c.id].content) /\ c.deletes = Ids(resources[c.id].content)
        /\ c.populated => AsAsked(c.kind, c.in, resources[c.id].content)
    BY <1>1, Zenon DEF CreationSound
  <1>5. c.populated => c.outcome \in {"done", "partial"}
    BY <1>4, Zenon
  <1>6. c.stage = "populate" \/ c.outcome \in {"done", "partial"} => c.id \in DOMAIN resources' /\ resources'[c.id].by = k
    BY <1>3, <1>4
  <1>7. c.stage = "populate" => /\ resources'[c.id].filled = 0
                                /\ c.kind = "presentation" => IsList(resources'[c.id].content) /\ c.deletes = Ids(resources'[c.id].content)
    BY <1>3, <1>4
  <1>8. c.populated => AsAsked(c.kind, c.in, resources'[c.id].content)
    BY <1>3, <1>4, <1>5
  <1> QED
    BY <1>2, <1>4, <1>6, <1>7, <1>8, Zenon DEF CreationSound, Admitted, AsAsked, ValidDocument, ValidPresentation, ValidSpreadsheet

\* A resource that does not change stays as it should while calls end well.
LEMMA ResourceStays ==
  ASSUME NEW i \in DOMAIN resources, ResourceSound(i), resources' = resources,
         resources[i].by \in DOMAIN creations',
         creations'[resources[i].by].stage # "create", creations'[resources[i].by].outcome # "failed"
  PROVE  ResourceSound(i)'
  BY Zenon DEF ResourceSound

\* A step of one call, and of its resource.
LEMMA CreationMoves ==
  ASSUME AuthoringInv, NEW k \in DOMAIN creations,
         IsList(creations'), DOMAIN creations' = DOMAIN creations,
         \A l \in DOMAIN creations : l # k => creations'[l] = creations[l],
         IsList(resources'), DOMAIN resources \subseteq DOMAIN resources',
         \A i \in DOMAIN resources :
            /\ resources[i].by # k => resources'[i] = resources[i]
            /\ resources'[i].by = resources[i].by
            /\ DOMAIN resources'[i] = {"kind", "by", "filled", "content"} /\ resources'[i].filled \in {0, 1}
            /\ resources[i].by = k => creations'[k].outcome # "failed",
         \A i \in DOMAIN resources' \ DOMAIN resources : ResourceSound(i)',
         creations'[k].stage # "create", CreationSound(k)'
  PROVE  AuthoringInv'
  <1>1. ASSUME NEW l \in DOMAIN creations' PROVE CreationSound(l)'
    <2>1. CASE l = k
      BY <2>1
    <2>2. CASE l # k
      <3>1. l \in DOMAIN creations /\ creations'[l] = creations[l] /\ CreationSound(l)
        BY <2>2 DEF AuthoringInv
      <3>2. \A i \in DOMAIN resources : resources[i].by = l => resources'[i] = resources[i]
        BY <2>2
      <3> QED
        BY <3>1, <3>2, CreationStays
    <2> QED
      BY <2>1, <2>2
  <1>2. ASSUME NEW i \in DOMAIN resources PROVE ResourceSound(i)'
    <2>1. PICK b : b = resources[i].by
      OBVIOUS
    <2>2. /\ b \in DOMAIN creations /\ creations[b].stage # "create" /\ creations[b].outcome # "failed"
          /\ \A j \in DOMAIN resources : resources[j].by = b => i = j
      BY <2>1 DEF AuthoringInv, ResourceSound
    <2>3. /\ resources'[i].by = b /\ DOMAIN resources'[i] = {"kind", "by", "filled", "content"}
          /\ resources'[i].filled \in {0, 1}
      BY <2>1
    <2>4. b \in DOMAIN creations' /\ creations'[b].stage # "create" /\ creations'[b].outcome # "failed"
      <3>1. CASE b = k
        BY <2>1, <2>2, <3>1
      <3>2. CASE b # k
        BY <2>2, <3>2
      <3> QED
        BY <3>1, <3>2
    <2>5. ASSUME NEW j \in DOMAIN resources', resources'[j].by = b PROVE i = j
      <3>1. CASE j \in DOMAIN resources
        <4>1. resources[j].by = b
          BY <2>5, <3>1
        <4> QED
          BY <2>2, <3>1, <4>1
      <3>2. CASE j \notin DOMAIN resources
        <4>1. ResourceSound(j)'
          BY <3>2
        <4>2. \A m \in DOMAIN resources' : resources'[m].by = resources'[j].by => j = m
          BY <4>1 DEF ResourceSound
        <4>3. i \in DOMAIN resources' /\ resources'[i].by = resources'[j].by
          BY <2>3, <2>5
        <4> QED
          BY <4>2, <4>3
      <3> QED
        BY <3>1, <3>2
    <2> QED
      BY <2>3, <2>4, <2>5 DEF ResourceSound
  <1>3. \A i \in DOMAIN resources' : ResourceSound(i)'
    BY <1>2
  <1> QED
    BY <1>1, <1>3 DEF AuthoringInv

\* What a call is when it ends.
LEMMA EndsAs ==
  ASSUME NEW k \in DOMAIN creations, IsList(creations), DOMAIN creations[k] = CreationFields,
         NEW outcome, NEW id, NEW populated, Ends(k, outcome, id, populated)
  PROVE  /\ IsList(creations') /\ DOMAIN creations' = DOMAIN creations
         /\ \A l \in DOMAIN creations : l # k => creations'[l] = creations[l]
         /\ DOMAIN creations'[k] = CreationFields
         /\ creations'[k].kind = creations[k].kind /\ creations'[k].in = creations[k].in
         /\ creations'[k].stage = "done" /\ creations'[k].outcome = outcome
         /\ creations'[k].id = id /\ creations'[k].populated = populated
  <1>1. PICK c : c = creations[k]
    OBVIOUS
  <1>2. PICK d : d = [c EXCEPT !.stage = "done", !.outcome = outcome, !.id = id, !.populated = populated]
    OBVIOUS
  <1>3. /\ DOMAIN d = CreationFields /\ d.kind = c.kind /\ d.in = c.in /\ d.stage = "done"
        /\ d.outcome = outcome /\ d.id = id /\ d.populated = populated
    BY <1>1, <1>2 DEF CreationFields
  <1>4. creations' = [creations EXCEPT ![k] = d]
    BY <1>1, <1>2, Zenon DEF Ends
  <1>5. /\ creations'[k] = d /\ DOMAIN creations' = DOMAIN creations
        /\ \A l \in DOMAIN creations : l # k => creations'[l] = creations[l]
    BY <1>4
  <1>6. IsList(creations')
    <2>1. creations' = [l \in DOMAIN creations |-> creations'[l]]
      BY <1>4
    <2> QED
      BY <2>1, ListChanges
  <1> QED
    BY <1>1, <1>3, <1>5, <1>6

\* A call that ends is sound if what it reports is so.
LEMMA EndsSound ==
  ASSUME NEW k \in DOMAIN creations, IsList(creations), CreationSound(k),
         NEW outcome, NEW id, NEW populated, Ends(k, outcome, id, populated),
         populated = (outcome = "done"),
         outcome \in {"done", "partial"} => id \in DOMAIN resources' /\ resources'[id].by = k,
         populated => AsAsked(creations[k].kind, creations[k].in, resources'[id].content)
  PROVE  CreationSound(k)'
  <1>1. DOMAIN creations[k] = CreationFields /\ Admitted(creations[k])
    BY DEF CreationSound
  <1>2. PICK c : c = creations'[k]
    OBVIOUS
  <1>3. /\ DOMAIN c = CreationFields /\ c.kind = creations[k].kind /\ c.in = creations[k].in
        /\ c.stage = "done" /\ c.outcome = outcome /\ c.id = id /\ c.populated = populated
    BY <1>1, <1>2, EndsAs
  <1>4. Admitted(c)
    BY <1>1, <1>3 DEF Admitted
  <1>5. /\ c.stage \in {"create", "populate", "done"} /\ ~(c.stage # "done") /\ c.stage # "populate"
        /\ c.outcome \in {"done", "partial"} => c.id \in DOMAIN resources' /\ resources'[c.id].by = k
        /\ c.populated => AsAsked(c.kind, c.in, resources'[c.id].content)
    BY <1>3
  <1>6. c.populated = (c.outcome = "done")
    BY <1>3, Zenon
  <1> QED
    BY <1>2, <1>3, <1>4, <1>5, <1>6, Zenon DEF CreationSound, Admitted, AsAsked, ValidDocument, ValidPresentation, ValidSpreadsheet

\* A call that ends and changes no resource.
LEMMA EndsKeeps ==
  ASSUME AuthoringInv, NEW k \in DOMAIN creations, UNCHANGED resources,
         NEW outcome, NEW id, NEW populated, Ends(k, outcome, id, populated),
         populated = (outcome = "done"), outcome # "done",
         outcome = "failed" => creations[k].stage = "create",
         outcome = "partial" => id \in DOMAIN resources /\ resources[id].by = k
  PROVE  AuthoringInv'
  <1>1. IsList(creations) /\ CreationSound(k) /\ IsList(resources)
    BY DEF AuthoringInv
  <1>2. CreationSound(k)'
    <2>1. outcome \in {"done", "partial"} => id \in DOMAIN resources' /\ resources'[id].by = k
      OBVIOUS
    <2>2. ~populated
      BY Zenon
    <2> QED
      BY <1>1, <2>1, <2>2, EndsSound
  <1>3. DOMAIN creations[k] = CreationFields
    BY <1>1 DEF CreationSound
  <1>4. /\ IsList(creations') /\ DOMAIN creations' = DOMAIN creations
        /\ \A l \in DOMAIN creations : l # k => creations'[l] = creations[l]
        /\ creations'[k].stage = "done" /\ creations'[k].outcome = outcome
    BY <1>1, <1>3, EndsAs
  <1>5. ASSUME NEW i \in DOMAIN resources
        PROVE  /\ DOMAIN resources'[i] = {"kind", "by", "filled", "content"} /\ resources'[i].filled \in {0, 1}
               /\ resources[i].by = k => outcome # "failed"
    BY DEF AuthoringInv, ResourceSound
  <1>6. resources' = resources
    OBVIOUS
  <1>7. DOMAIN resources' \ DOMAIN resources = {}
    BY <1>6
  <1> QED
    BY <1>1, <1>2, <1>4, <1>5, <1>6, <1>7, CreationMoves

\* A call starts.
LEMMA CreationStarts ==
  ASSUME AuthoringInv, NEW kind, NEW in, StartCreation(kind, in),
         Admitted([kind |-> kind, in |-> in])
  PROVE  AuthoringInv'
  <1>1. IsList(creations) /\ IsList(resources)
    BY DEF AuthoringInv
  <1>2. PICK c : c = [kind |-> kind, in |-> in, stage |-> "create", id |-> 0, deletes |-> {}, outcome |-> Unsaid,
                      populated |-> FALSE]
    OBVIOUS
  <1>3. creations' = Append(creations, c) /\ resources' = resources
    BY <1>2 DEF StartCreation
  <1>4. PICK n \in Nat : n = Len(creations) + 1
    BY <1>1, ListGrows
  <1>5. /\ IsList(creations') /\ DOMAIN creations' = DOMAIN creations \cup {n} /\ creations'[n] = c
        /\ \A l \in DOMAIN creations : creations'[l] = creations[l]
    BY <1>1, <1>3, <1>4, ListGrows
  <1>6. Admitted(c)
    BY <1>2 DEF Admitted
  <1>7. /\ DOMAIN c = CreationFields /\ c.stage = "create" /\ c.outcome = Unsaid /\ c.populated = FALSE
    BY <1>2 DEF CreationFields
  <1>8. CreationSound(n)'
    <2>1. c.populated = (c.outcome = "done")
      BY <1>7, UnsaidTold, Zenon
    <2>2. c.outcome \notin {"done", "partial"} /\ c.stage # "populate" /\ ~c.populated
      BY <1>7, UnsaidTold
    <2>3. c.stage \in {"create", "populate", "done"} /\ c = creations'[n]
      BY <1>5, <1>7
    <2> QED
      BY <1>6, <1>7, <2>1, <2>2, <2>3, Zenon DEF CreationSound, Admitted, AsAsked, ValidDocument, ValidPresentation, ValidSpreadsheet
  <1>9. ASSUME NEW l \in DOMAIN creations PROVE CreationSound(l)'
    <2>1. CreationSound(l)
      BY DEF AuthoringInv
    <2> QED
      BY <1>3, <1>5, <2>1, CreationStays
  <1>10. ASSUME NEW i \in DOMAIN resources PROVE ResourceSound(i)'
    <2>1. ResourceSound(i)
      BY DEF AuthoringInv
    <2>2. /\ resources[i].by \in DOMAIN creations /\ creations[resources[i].by].stage # "create"
          /\ creations[resources[i].by].outcome # "failed"
      BY <2>1 DEF ResourceSound
    <2>3. resources[i].by \in DOMAIN creations' /\ creations'[resources[i].by] = creations[resources[i].by]
      BY <1>5, <2>2
    <2> QED
      BY <1>3, <2>1, <2>2, <2>3, ResourceStays
  <1>11. \A l \in DOMAIN creations' : CreationSound(l)'
    BY <1>5, <1>8, <1>9
  <1> QED
    BY <1>1, <1>3, <1>5, <1>10, <1>11 DEF AuthoringInv

\* A call ends without a resource.
LEMMA CreateFailsKeeps ==
  ASSUME AuthoringInv, NEW k \in DOMAIN creations, CreateFails(k)
  PROVE  AuthoringInv'
  <1>1. PICK populated \in BOOLEAN : populated = FALSE
    OBVIOUS
  <1>2. PICK outcome \in {"failed", "unknown"} : Ends(k, outcome, 0, populated)
    BY <1>1 DEF CreateFails
  <1>3. UNCHANGED resources /\ creations[k].stage = "create"
    BY DEF CreateFails
  <1>4. outcome # "done" /\ outcome # "partial"
    BY <1>2
  <1>5. populated = (outcome = "done")
    BY <1>1, <1>4, Zenon
  <1> QED
    BY <1>2, <1>3, <1>4, <1>5, EndsKeeps

\* The slides that a presentation begins with are a list.
LEMMA InitialIsList ==
  ASSUME NEW initial \in InitialSlides
  PROVE  IsList(initial)
  <1>1. PICK ids \in {<<>>, <<101>>, <<101, NoId>>} :
           initial = [i \in 1 .. Len(ids) |-> [id |-> ids[i], title |-> Unsaid, body |-> <<>>]]
    BY DEF InitialSlides
  <1>2. PICK n \in Nat : n = Len(ids)
    BY <1>1
  <1>3. initial \in [1 .. n -> {initial[i] : i \in DOMAIN initial}]
    BY <1>1, <1>2
  <1> QED
    BY <1>3, SeqDef DEF IsList

\* Google makes the resource.
LEMMA CreateKeeps ==
  ASSUME AuthoringInv, NEW k \in DOMAIN creations, NEW initial \in InitialSlides, Create(k, initial)
  PROVE  AuthoringInv'
  <1>1. IsList(creations) /\ IsList(resources) /\ CreationSound(k) /\ creations[k].stage = "create"
    BY DEF AuthoringInv, Create
  <1>2. PICK c : c = creations[k]
    OBVIOUS
  <1>3. DOMAIN c = CreationFields /\ Admitted(c) /\ c.stage = "create" /\ c.outcome = Unsaid /\ c.populated = FALSE
    BY <1>1, <1>2 DEF CreationSound
  <1>4. PICK n \in Nat : n = Len(resources) + 1
    BY <1>1, ListGrows
  <1>5. PICK content : content = IF c.kind = "spreadsheet" THEN Grid(c.in)
                                 ELSE IF c.kind = "presentation" THEN initial ELSE <<>>
    OBVIOUS
  <1>6. PICK r : r = Resource(c.kind, k, content)
    OBVIOUS
  <1>7. /\ DOMAIN r = {"kind", "by", "filled", "content"} /\ r.by = k /\ r.filled = 0 /\ r.content = content
    BY <1>6 DEF Resource
  <1>8. resources' = Append(resources, r)
    BY <1>2, <1>5, <1>6, Zenon DEF Create
  <1>9. /\ IsList(resources') /\ DOMAIN resources' = DOMAIN resources \cup {n} /\ n \notin DOMAIN resources
        /\ resources'[n] = r /\ \A i \in DOMAIN resources : resources'[i] = resources[i]
    BY <1>1, <1>4, <1>8, ListGrows
  <1>10. ASSUME NEW i \in DOMAIN resources
         PROVE  resources[i].by # k /\ DOMAIN resources[i] = {"kind", "by", "filled", "content"} /\ resources[i].filled \in {0, 1}
    BY <1>1 DEF AuthoringInv, ResourceSound
  <1> DEFINE Moved == /\ IsList(creations') /\ DOMAIN creations' = DOMAIN creations
                      /\ \A l \in DOMAIN creations : l # k => creations'[l] = creations[l]
                      /\ creations'[k].stage # "create" /\ creations'[k].outcome # "failed"
  <1>11. ASSUME Moved, CreationSound(k)' PROVE AuthoringInv'
    <2>1. ResourceSound(n)'
      <3>1. \A j \in DOMAIN resources' : resources'[j].by = k => j = n
        BY <1>9, <1>10
      <3> QED
        BY <1>7, <1>9, <1>11, <3>1 DEF ResourceSound
    <2>2. DOMAIN resources' \ DOMAIN resources = {n}
      BY <1>9
    <2> QED
      BY <1>9, <1>10, <1>11, <2>1, <2>2, CreationMoves
  <1>12. ASSUME NEW outcome \in {"done", "partial", "unknown"}, NEW id, NEW populated, Ends(k, outcome, id, populated),
                populated = (outcome = "done"), outcome \in {"done", "partial"} => id = n,
                populated => c.kind = "spreadsheet"
         PROVE  AuthoringInv'
    <2>1. Moved
      BY <1>1, <1>2, <1>3, <1>12, EndsAs
    <2>2. outcome \in {"done", "partial"} => id \in DOMAIN resources' /\ resources'[id].by = k
      BY <1>7, <1>9, <1>12
    <2>3. populated => AsAsked(c.kind, c.in, resources'[id].content)
      <3>1. SUFFICES ASSUME populated PROVE AsAsked(c.kind, c.in, resources'[id].content)
        OBVIOUS
      <3>2. outcome = "done" /\ c.kind = "spreadsheet"
        BY <1>12, <3>1, Zenon
      <3>3. resources'[id].content = Grid(c.in)
        BY <1>5, <1>7, <1>9, <1>12, <3>2
      <3>4. c.in \in Spreadsheets /\ ValidSpreadsheet(c.in)
        BY <1>3, <3>2 DEF Admitted
      <3>5. AsAsked("spreadsheet", c.in, resources'[id].content)
        BY <3>3, <3>4, GridFits
      <3> QED
        BY <3>2, <3>5, Zenon
    <2>4. CreationSound(k)'
      BY <1>1, <1>2, <1>12, <2>2, <2>3, EndsSound
    <2> HIDE DEF Moved
    <2> QED
      BY <1>11, <2>1, <2>4
  <1>13. CASE Ends(k, "unknown", 0, FALSE)
    <2>1. PICK populated \in BOOLEAN : populated = FALSE
      OBVIOUS
    <2>2. PICK outcome \in {"done", "partial", "unknown"} : outcome = "unknown"
      OBVIOUS
    <2>3. populated = (outcome = "done") /\ ~populated /\ outcome \notin {"done", "partial"}
      <3>1. outcome # "done" /\ outcome \notin {"done", "partial"}
        BY <2>2
      <3> QED
        BY <2>1, <3>1, Zenon
    <2>4. Ends(k, outcome, 0, populated)
      BY <1>13, <2>1, <2>2
    <2> QED
      BY <1>12, <2>3, <2>4
  <1>14. CASE c.kind = "spreadsheet" /\ Ends(k, "done", n, TRUE)
    <2>1. PICK populated \in BOOLEAN : populated = TRUE
      OBVIOUS
    <2>2. PICK outcome \in {"done", "partial", "unknown"} : outcome = "done"
      OBVIOUS
    <2>3. populated = (outcome = "done")
      BY <2>1, <2>2, Zenon
    <2>4. Ends(k, outcome, n, populated)
      BY <1>14, <2>1, <2>2
    <2> QED
      BY <1>12, <1>14, <2>3, <2>4
  <1>15. CASE Ends(k, "partial", n, FALSE)
    <2>1. PICK populated \in BOOLEAN : populated = FALSE
      OBVIOUS
    <2>2. PICK outcome \in {"done", "partial", "unknown"} : outcome = "partial"
      OBVIOUS
    <2>3. populated = (outcome = "done") /\ ~populated
      <3>1. outcome # "done"
        BY <2>2
      <3> QED
        BY <2>1, <3>1, Zenon
    <2>4. Ends(k, outcome, n, populated)
      BY <1>15, <2>1, <2>2
    <2> QED
      BY <1>12, <2>3, <2>4
  <1>16. CASE /\ c.kind # "spreadsheet"
              /\ creations' = [creations EXCEPT ![k].stage = "populate", ![k].id = n, ![k].deletes = Ids(initial)]
    <2>1. PICK d : d = [c EXCEPT !.stage = "populate", !.id = n, !.deletes = Ids(initial)]
      OBVIOUS
    <2>2. /\ DOMAIN d = CreationFields /\ d.kind = c.kind /\ d.in = c.in /\ d.stage = "populate" /\ d.id = n
          /\ d.deletes = Ids(initial) /\ d.outcome = Unsaid /\ d.populated = FALSE
      BY <1>3, <2>1 DEF CreationFields
    <2>3. creations' = [creations EXCEPT ![k] = d]
      BY <1>2, <1>16, <2>1, Zenon
    <2>4. /\ creations'[k] = d /\ DOMAIN creations' = DOMAIN creations
          /\ \A l \in DOMAIN creations : l # k => creations'[l] = creations[l]
          /\ creations' = [l \in DOMAIN creations |-> creations'[l]]
      BY <2>3
    <2>5. Moved
      <3>1. IsList(creations')
        BY <1>1, <2>4, ListChanges
      <3>2. d.stage # "create" /\ d.outcome # "failed"
        BY <2>2, UnsaidTold
      <3> QED
        BY <2>4, <3>1, <3>2
    <2>6. Admitted(d)
      BY <1>3, <2>2 DEF Admitted
    <2>7. d.populated = (d.outcome = "done")
      BY <2>2, UnsaidTold, Zenon
    <2>8. d.outcome \notin {"done", "partial"} /\ ~d.populated
      BY <2>2, UnsaidTold
    <2>9. d.kind = "presentation" => IsList(resources'[d.id].content) /\ d.deletes = Ids(resources'[d.id].content)
      <3>1. d.kind = "presentation" => resources'[d.id].content = initial
        BY <1>5, <1>7, <1>9, <2>2
      <3> QED
        BY <2>2, <3>1, InitialIsList
    <2>10. d.id \in DOMAIN resources' /\ resources'[d.id].by = k /\ resources'[d.id].filled = 0 /\ d.kind # "spreadsheet"
      BY <1>7, <1>9, <1>16, <2>2
    <2>11. d.stage \in {"create", "populate", "done"} /\ (d.stage # "done" => d.outcome = Unsaid /\ d.populated = FALSE)
      BY <2>2
    <2>12. CreationSound(k)'
      BY <2>2, <2>4, <2>6, <2>7, <2>8, <2>9, <2>10, <2>11, Zenon
         DEF CreationSound, Admitted, AsAsked, ValidDocument, ValidPresentation, ValidSpreadsheet
    <2> HIDE DEF Moved
    <2> QED
      BY <1>11, <2>5, <2>12
  <1> QED
    <2>1. \/ Ends(k, "unknown", 0, FALSE)
          \/ IF c.kind = "spreadsheet" THEN Ends(k, "done", n, TRUE)
             ELSE IF c.kind = "presentation" /\ ~SlidesNamed(initial) THEN Ends(k, "partial", n, FALSE)
             ELSE creations' = [creations EXCEPT ![k].stage = "populate", ![k].id = n, ![k].deletes = Ids(initial)]
      BY <1>2, <1>4, Zenon DEF Create
    <2> QED
      BY <1>13, <1>14, <1>15, <1>16, <2>1, Zenon

\* What a batch leaves is what was asked: documents and presentations.
LEMMA ContentAsAsked ==
  ASSUME AuthoringInv, NEW k \in DOMAIN creations, creations[k].stage = "populate"
  PROVE  AsAsked(creations[k].kind, creations[k].in, Content(k))
  <1>1. PICK c : c = creations[k]
    OBVIOUS
  <1>2. /\ Admitted(c) /\ c.kind # "spreadsheet"
        /\ c.kind = "presentation" => IsList(resources[c.id].content) /\ c.deletes = Ids(resources[c.id].content)
    <2>1. CreationSound(k)
      BY DEF AuthoringInv
    <2> QED
      BY <1>1, <2>1, Zenon DEF CreationSound
  <1>3. Content(k) = IF c.kind = "document" THEN StyledBy(c.in.paragraphs, StyleRequests(c.in.paragraphs))
                     ELSE Refilled(resources[c.id].content, c.deletes, c.in.slides)
    BY <1>1, Zenon DEF Content
  <1>4. CASE c.kind = "document"
    <2>1. IsList(c.in.paragraphs) /\ \A i \in DOMAIN c.in.paragraphs : IsList(c.in.paragraphs[i].text)
      <3>1. c.in \in Documents
        BY <1>2, <1>4 DEF Admitted
      <3> QED
        BY <3>1, RequestsAssumption DEF IsList, Range
    <2>2. Content(k) = [i \in DOMAIN c.in.paragraphs |-> StyleOf(c.in.paragraphs[i])]
      BY <1>3, <1>4, <2>1, OwnStyle
    <2> QED
      BY <1>1, <1>4, <2>2 DEF AsAsked
  <1>5. CASE c.kind = "presentation"
    <2>1. IsList(c.in.slides)
      <3>1. c.in \in Presentations
        BY <1>2, <1>5 DEF Admitted
      <3> QED
        BY <3>1, RequestsAssumption DEF IsList, Range
    <2>2. Content(k) = [i \in DOMAIN c.in.slides |-> Slide(i, c.in.slides[i])]
      BY <1>2, <1>3, <1>5, <2>1, RefilledAsAsked
    <2> QED
      BY <1>1, <1>5, <2>2 DEF AsAsked
  <1>6. c.kind = "document" \/ c.kind = "presentation"
    BY <1>2 DEF Admitted
  <1> QED
    BY <1>4, <1>5, <1>6

\* One batch: it is done and the call is, or it is done or not and the call is partial.
LEMMA PopulateKeeps ==
  ASSUME AuthoringInv, NEW k \in DOMAIN creations, Populate(k)
  PROVE  AuthoringInv'
  <1>1. IsList(creations) /\ IsList(resources) /\ CreationSound(k) /\ creations[k].stage = "populate"
    BY DEF AuthoringInv, Populate
  <1>2. PICK c : c = creations[k]
    OBVIOUS
  <1>3. /\ DOMAIN c = CreationFields /\ c.id \in DOMAIN resources /\ resources[c.id].by = k
        /\ resources[c.id].filled = 0
    BY <1>1, <1>2 DEF CreationSound
  <1>4. PICK id \in DOMAIN resources : id = c.id
    BY <1>3
  <1>5. PICK r : r = resources[id]
    OBVIOUS
  <1>6. DOMAIN r = {"kind", "by", "filled", "content"} /\ r.by = k /\ r.filled = 0
        /\ \A j \in DOMAIN resources : resources[j].by = k => id = j
    <2>1. ResourceSound(id)
      BY DEF AuthoringInv
    <2> QED
      BY <1>3, <1>4, <1>5, <2>1 DEF ResourceSound
  <1>7. PICK content : content = Content(k)
    OBVIOUS
  <1>8. AsAsked(c.kind, c.in, content)
    BY <1>1, <1>2, <1>7, ContentAsAsked
  <1>9. PICK f : f = [r EXCEPT !.filled = @ + 1, !.content = content]
    OBVIOUS
  <1>10. DOMAIN f = {"kind", "by", "filled", "content"} /\ f.by = k /\ f.filled = 1 /\ f.content = content
    BY <1>6, <1>9
  <1>11. PICK filled : filled = [resources EXCEPT ![id] = f]
    OBVIOUS
  <1>12. filled = [resources EXCEPT ![creations[k].id].filled = @ + 1, ![creations[k].id].content = Content(k)]
    BY <1>2, <1>4, <1>5, <1>7, <1>9, <1>11
  <1>13. /\ DOMAIN filled = DOMAIN resources /\ filled[id] = f /\ \A i \in DOMAIN resources : i # id => filled[i] = resources[i]
         /\ IsList(filled)
    <2>1. filled = [i \in DOMAIN resources |-> filled[i]]
      BY <1>11
    <2>2. IsList(filled)
      BY <1>1, <2>1, ListChanges
    <2> QED
      BY <1>11, <2>2
  <1>14. ASSUME NEW i \in DOMAIN resources
         PROVE  /\ DOMAIN resources[i] = {"kind", "by", "filled", "content"} /\ resources[i].filled \in {0, 1}
                /\ resources[i].by # k => i # id
    <2>1. ResourceSound(i)
      BY DEF AuthoringInv
    <2> QED
      BY <1>5, <1>6, <2>1 DEF ResourceSound
  <1>15. ASSUME NEW outcome \in {"done", "partial"}, NEW populated, populated = (outcome = "done"),
                resources' = filled, Ends(k, outcome, id, populated)
         PROVE  AuthoringInv'
    <2>1. id \in DOMAIN resources' /\ resources'[id].by = k /\ resources'[id].content = content
      BY <1>10, <1>13, <1>15
    <2>2. CreationSound(k)'
      BY <1>1, <1>2, <1>8, <1>15, <2>1, EndsSound
    <2>3. /\ IsList(creations') /\ DOMAIN creations' = DOMAIN creations
          /\ \A l \in DOMAIN creations : l # k => creations'[l] = creations[l]
          /\ creations'[k].stage = "done" /\ creations'[k].outcome = outcome
      BY <1>1, <1>2, <1>3, <1>15, EndsAs
    <2>4. ASSUME NEW i \in DOMAIN resources
          PROVE  /\ resources[i].by # k => resources'[i] = resources[i]
                 /\ resources'[i].by = resources[i].by
                 /\ DOMAIN resources'[i] = {"kind", "by", "filled", "content"} /\ resources'[i].filled \in {0, 1}
      <3>1. CASE i = id
        BY <1>5, <1>6, <1>10, <1>13, <1>15, <3>1
      <3>2. CASE i # id
        BY <1>13, <1>14, <1>15, <3>2
      <3> QED
        BY <3>1, <3>2
    <2>5. DOMAIN resources' = DOMAIN resources /\ IsList(resources')
      BY <1>13, <1>15
    <2>6. DOMAIN resources' \ DOMAIN resources = {}
      BY <2>5
    <2>7. creations'[k].outcome # "failed" /\ creations'[k].stage # "create"
      BY <1>15, <2>3
    <2> QED
      BY <2>2, <2>3, <2>4, <2>5, <2>6, <2>7, CreationMoves
  <1>16. CASE resources' = filled /\ Ends(k, "done", id, TRUE)
    <2>1. PICK populated \in BOOLEAN : populated = TRUE
      OBVIOUS
    <2>2. PICK outcome \in {"done", "partial"} : outcome = "done"
      OBVIOUS
    <2>3. populated = (outcome = "done")
      BY <2>1, <2>2, Zenon
    <2>4. Ends(k, outcome, id, populated)
      BY <1>16, <2>1, <2>2
    <2> QED
      BY <1>15, <1>16, <2>3, <2>4
  <1>17. CASE resources' \in {resources, filled} /\ Ends(k, "partial", id, FALSE)
    <2>1. PICK populated \in BOOLEAN : populated = FALSE
      OBVIOUS
    <2>2. PICK outcome \in {"done", "partial"} : outcome = "partial"
      OBVIOUS
    <2>3. outcome # "done" /\ outcome # "failed"
      BY <2>2
    <2>4. populated = (outcome = "done")
      BY <2>1, <2>3, Zenon
    <2>5. Ends(k, outcome, id, populated)
      BY <1>17, <2>1, <2>2
    <2>6. CASE resources' = filled
      BY <1>15, <2>4, <2>5, <2>6
    <2>7. CASE resources' = resources
      <3>1. resources[id].by = k
        BY <1>5, <1>6
      <3> QED
        BY <2>3, <2>4, <2>5, <2>7, <3>1, EndsKeeps
    <2> QED
      BY <1>17, <2>6, <2>7
  <1> QED
    <2>1. \/ resources' = filled /\ Ends(k, "done", id, TRUE)
          \/ resources' \in {resources, filled} /\ Ends(k, "partial", id, FALSE)
      BY <1>2, <1>4, <1>12, Zenon DEF Populate
    <2> QED
      BY <1>16, <1>17, <2>1

\* The invariant is inductive.
LEMMA AuthoringInvNext == AuthoringInv /\ [AuthoringNext]_authoringVars => AuthoringInv'
  <1> SUFFICES ASSUME AuthoringInv, [AuthoringNext]_authoringVars PROVE AuthoringInv'
    OBVIOUS
  <1>1. ASSUME NEW in \in Documents, ValidDocument(in), StartCreation("document", in) PROVE AuthoringInv'
    <2>1. PICK kind : kind = "document"
      OBVIOUS
    <2>2. Admitted([kind |-> kind, in |-> in])
      BY <1>1, <2>1 DEF Admitted
    <2>3. StartCreation(kind, in)
      BY <1>1, <2>1
    <2> QED
      BY <2>2, <2>3, CreationStarts
  <1>2. ASSUME NEW in \in Presentations, ValidPresentation(in), StartCreation("presentation", in) PROVE AuthoringInv'
    <2>1. PICK kind : kind = "presentation"
      OBVIOUS
    <2>2. Admitted([kind |-> kind, in |-> in])
      BY <1>2, <2>1 DEF Admitted
    <2>3. StartCreation(kind, in)
      BY <1>2, <2>1
    <2> QED
      BY <2>2, <2>3, CreationStarts
  <1>3. ASSUME NEW in \in Spreadsheets, ValidSpreadsheet(in), StartCreation("spreadsheet", in) PROVE AuthoringInv'
    <2>1. PICK kind : kind = "spreadsheet"
      OBVIOUS
    <2>2. Admitted([kind |-> kind, in |-> in])
      BY <1>3, <2>1 DEF Admitted
    <2>3. StartCreation(kind, in)
      BY <1>3, <2>1
    <2> QED
      BY <2>2, <2>3, CreationStarts
  <1>4. ASSUME NEW k \in DOMAIN creations,
               CreateFails(k) \/ Populate(k) \/ \E initial \in InitialSlides : Create(k, initial)
        PROVE  AuthoringInv'
    BY <1>4, CreateFailsKeeps, PopulateKeeps, CreateKeeps
  <1>5. CASE UNCHANGED authoringVars
    <2>1. creations' = creations /\ resources' = resources
      BY <1>5 DEF authoringVars
    <2>2. ASSUME NEW k \in DOMAIN creations PROVE CreationSound(k)'
      <3>1. CreationSound(k)
        BY DEF AuthoringInv
      <3> QED
        BY <2>1, <3>1, CreationStays
    <2>3. ASSUME NEW i \in DOMAIN resources PROVE ResourceSound(i)'
      <3>1. ResourceSound(i)
        BY DEF AuthoringInv
      <3>2. /\ resources[i].by \in DOMAIN creations /\ creations[resources[i].by].stage # "create"
            /\ creations[resources[i].by].outcome # "failed"
        BY <3>1 DEF ResourceSound
      <3> QED
        BY <2>1, <3>1, <3>2, ResourceStays
    <2> QED
      BY <2>1, <2>2, <2>3 DEF AuthoringInv
  <1> QED
    BY <1>1, <1>2, <1>3, <1>4, <1>5 DEF AuthoringNext

\* Before the first call nothing is made.
LEMMA AuthoringInvInit == AuthoringInit => AuthoringInv
  <1> SUFFICES ASSUME AuthoringInit PROVE AuthoringInv
    OBVIOUS
  <1>1. creations = <<>> /\ resources = <<>>
    BY DEF AuthoringInit
  <1>2. DOMAIN creations = {} /\ DOMAIN resources = {}
    BY <1>1
  <1>3. IsList(creations) /\ IsList(resources)
    BY <1>1 DEF IsList
  <1> QED
    BY <1>2, <1>3 DEF AuthoringInv

\* The inductive invariant of the creations: a resource is its call's only one, is filled while
\* that call is at its batch, and a call's result names it from then on (create.go, authoring.go).
THEOREM CreationsInductive == AuthoringSpec => []AuthoringInv
  BY AuthoringInvInit, AuthoringInvNext, PTL DEF AuthoringSpec

\* A call makes one resource at most, fills it once at most, and says "populated" only if it
\* holds what was asked, for any documents, presentations and spreadsheets (createDocument,
\* createPresentation, createSpreadsheet, partial).
THEOREM CreationsReported == AuthoringSpec => []CreatedAsReported
  BY CreationsInductive, AuthoringInvEnough, PTL

-----------------------------------------------------------------------------
(* Prepared workflows: RecipeHonest. *)

\* The preparations alone, whatever the other parts do.
RecipeSpec == RecipeInit /\ [][RecipeNext]_recipeVars

\* A lookup that an input of a step waits for.
Awaited(recipe, i, key) ==
    \E p \in 1 .. i - 1, f \in recipe.facts :
       /\ recipe.steps[p].kind = "lookup" /\ key \in recipe.steps[p].produces
       /\ f.key = key /\ f.source = "lookup" /\ f.producedBy = recipe.steps[p].operation
       /\ recipe.steps[p].skipIf = {} \/ key \in recipe.steps[p].skipIf
       /\ recipe.steps[p].onlyIfFacts \subseteq recipe.steps[i].onlyIfFacts
       /\ \A k \in DOMAIN recipe.steps[p].onlyIf :
             k \in DOMAIN recipe.steps[i].onlyIf /\ recipe.steps[i].onlyIf[k] = recipe.steps[p].onlyIf[k]

\* What RecipesReviewed says of one recipe.
Reviewed(recipe) ==
    /\ recipe.steps \in Seq(Range(recipe.steps))
    /\ \A i \in DOMAIN recipe.steps : \A j \in DOMAIN recipe.steps[i].inputs :
          LET input == recipe.steps[i].inputs[j]
          IN  /\ input.from \in {"fact", "caller"}
              /\ input.from = "fact" => \E f \in recipe.facts : f.key = input.key
              /\ input.from = "fact" /\ (\E f \in recipe.facts : f.key = input.key /\ f.source = "lookup")
                    => Awaited(recipe, i, input.key)

\* Each recipe is reviewed.
LEMMA AllReviewed == \A intent \in DOMAIN Recipes : Reviewed(Recipes[intent])
  BY RecipesReviewed, Zenon DEF Reviewed, Awaited

\* A step may be left out or not.
IsLeft(step, facts) == OnlyIfMatches(step, facts) /\ ~AllFactsPresent(facts, step.skipIf)

\* The steps left are the recipe's, in its order (selectSteps).
LEMMA StepsLeft ==
  ASSUME NEW recipe, Reviewed(recipe), NEW facts, NEW steps, steps = SelectSteps(recipe, facts)
  PROVE  \A i \in DOMAIN steps :
            /\ i \in Nat /\ DOMAIN steps[i] = {"operation", "kind", "availability", "inputs"}
            /\ \E q \in DOMAIN recipe.steps :
                  /\ IsLeft(recipe.steps[q], facts)
                  /\ steps[i].operation = recipe.steps[q].operation /\ steps[i].kind = recipe.steps[q].kind
                  /\ steps[i].inputs = [j \in DOMAIN recipe.steps[q].inputs |-> InputSource(recipe, recipe.steps[q].inputs[j], facts)]
                  /\ \A p \in 1 .. q - 1 : IsLeft(recipe.steps[p], facts) =>
                        \E j \in 1 .. i - 1 : /\ j \in DOMAIN steps
                                              /\ steps[j].operation = recipe.steps[p].operation
                                              /\ steps[j].kind = recipe.steps[p].kind
  <1>1. PICK list \in Seq(Range(recipe.steps)) : list = recipe.steps
    BY DEF Reviewed
  <1> DEFINE keep == {i \in DOMAIN list : IsLeft(list[i], facts)}
  <1>2. PICK left : left = Filtered(list, keep)
    OBVIOUS
  <1>3. keep \in SUBSET DOMAIN list
    OBVIOUS
  <1>4. /\ left \in Seq(Range(recipe.steps))
        /\ \A i \in DOMAIN left : \E q \in keep :
               left[i] = list[q] /\ \A p \in keep : p < q => \E j \in 1 .. i - 1 : left[j] = list[p]
    <2> HIDE DEF keep
    <2> QED
      BY <1>2, <1>3, FilteredOrder
  <1> DEFINE prepared(s) == [operation |-> s.operation, kind |-> s.kind, availability |-> Untold,
                             inputs |-> [j \in DOMAIN s.inputs |-> InputSource(recipe, s.inputs[j], facts)]]
  <1>5. steps = [i \in DOMAIN left |-> prepared(left[i])]
    BY <1>1, <1>2 DEF SelectSteps, IsLeft
  <1>6. \A s : /\ DOMAIN prepared(s) = {"operation", "kind", "availability", "inputs"}
               /\ prepared(s).operation = s.operation /\ prepared(s).kind = s.kind
               /\ prepared(s).inputs = [j \in DOMAIN s.inputs |-> InputSource(recipe, s.inputs[j], facts)]
    OBVIOUS
  <1> HIDE DEF prepared
  <1>7. DOMAIN steps = DOMAIN left /\ \A i \in DOMAIN left : steps[i] = prepared(left[i])
    BY <1>5
  <1>8. PICK m \in Nat : DOMAIN left = 1 .. m
    BY <1>4
  <1>9. PICK n \in Nat : DOMAIN list = 1 .. n
    OBVIOUS
  <1>10. ASSUME NEW i \in DOMAIN steps
         PROVE  \E q \in DOMAIN recipe.steps :
                  /\ IsLeft(recipe.steps[q], facts)
                  /\ steps[i].operation = recipe.steps[q].operation /\ steps[i].kind = recipe.steps[q].kind
                  /\ steps[i].inputs = [j \in DOMAIN recipe.steps[q].inputs |-> InputSource(recipe, recipe.steps[q].inputs[j], facts)]
                  /\ \A p \in 1 .. q - 1 : IsLeft(recipe.steps[p], facts) =>
                        \E j \in 1 .. i - 1 : /\ j \in DOMAIN steps
                                              /\ steps[j].operation = recipe.steps[p].operation
                                              /\ steps[j].kind = recipe.steps[p].kind
    <2>1. PICK q \in keep : left[i] = list[q] /\ \A p \in keep : p < q => \E j \in 1 .. i - 1 : left[j] = list[p]
      <3> HIDE DEF keep
      <3> QED
        BY <1>4, <1>7
    <2>2. q \in DOMAIN list /\ IsLeft(list[q], facts)
      OBVIOUS
    <2>3. PICK s : s = list[q]
      OBVIOUS
    <2>4. /\ steps[i].operation = s.operation /\ steps[i].kind = s.kind
          /\ steps[i].inputs = [j \in DOMAIN s.inputs |-> InputSource(recipe, s.inputs[j], facts)]
      BY <1>6, <1>7, <2>1, <2>3
    <2>5. ASSUME NEW p \in 1 .. q - 1, IsLeft(list[p], facts)
          PROVE  \E j \in 1 .. i - 1 : /\ j \in DOMAIN steps /\ steps[j].operation = list[p].operation
                                       /\ steps[j].kind = list[p].kind
      <3>1. p \in keep /\ p < q
        BY <1>9, <2>2, <2>5
      <3>2. PICK j \in 1 .. i - 1 : left[j] = list[p]
        <4> HIDE DEF keep
        <4> QED
          BY <2>1, <3>1
      <3>3. j \in DOMAIN left
        BY <1>7, <1>8
      <3> QED
        BY <1>6, <1>7, <3>2, <3>3
    <2> QED
      BY <1>1, <2>2, <2>3, <2>4, <2>5
  <1>11. \A i \in DOMAIN steps : i \in Nat /\ DOMAIN steps[i] = {"operation", "kind", "availability", "inputs"}
    BY <1>6, <1>7, <1>8
  <1> QED
    BY <1>10, <1>11

\* Each step left is one of the recipe's.
LEMMA StepOfRecipe ==
  ASSUME NEW recipe, Reviewed(recipe), NEW facts, NEW i \in DOMAIN SelectSteps(recipe, facts)
  PROVE  \E l \in DOMAIN recipe.steps :
            /\ SelectSteps(recipe, facts)[i].operation = recipe.steps[l].operation
            /\ SelectSteps(recipe, facts)[i].kind = recipe.steps[l].kind
  <1>1. PICK steps : steps = SelectSteps(recipe, facts)
    OBVIOUS
  <1>2. PICK l \in DOMAIN recipe.steps : steps[i].operation = recipe.steps[l].operation /\ steps[i].kind = recipe.steps[l].kind
    <2>1. i \in DOMAIN steps
      BY <1>1
    <2>2. PICK q \in DOMAIN recipe.steps :
                  /\ IsLeft(recipe.steps[q], facts)
                  /\ steps[i].operation = recipe.steps[q].operation /\ steps[i].kind = recipe.steps[q].kind
                  /\ steps[i].inputs = [j \in DOMAIN recipe.steps[q].inputs |-> InputSource(recipe, recipe.steps[q].inputs[j], facts)]
      BY <1>1, <2>1, StepsLeft
    <2> QED
      BY <2>2
  <1> QED
    BY <1>1, <1>2

\* The facts that a step may do without.
OptionalKeys(recipe) ==
    {f.key : f \in {g \in recipe.facts : g.optional \/ DOMAIN g.when # {} \/ DOMAIN g.optionalWhen # {}}}

\* Where the inputs of the steps come from (inputSource, missingCallerFacts, unresolvedLookupOutputs).
LEMMA InputsHonest ==
  ASSUME NEW recipe, Reviewed(recipe), NEW facts, NEW steps, steps = SelectSteps(recipe, facts),
         NEW i \in DOMAIN steps, NEW j \in DOMAIN steps[i].inputs, NEW input, input = steps[i].inputs[j]
  PROVE  /\ input.from = "previous_step" =>
               /\ input.key \in UnresolvedLookupOutputs(recipe, steps, facts)
               /\ \E p \in 1 .. i - 1, s \in Range(recipe.steps) :
                     /\ s.operation = steps[p].operation /\ s.kind = steps[p].kind
                     /\ input.key \in s.produces
         /\ input.from = "fact" =>
               input.key \in DOMAIN facts \cup MissingCallerFacts(recipe, facts) \cup OptionalKeys(recipe)
  <1>1. PICK q \in DOMAIN recipe.steps :
                  /\ IsLeft(recipe.steps[q], facts)
                  /\ steps[i].inputs = [l \in DOMAIN recipe.steps[q].inputs |-> InputSource(recipe, recipe.steps[q].inputs[l], facts)]
                  /\ \A p \in 1 .. q - 1 : IsLeft(recipe.steps[p], facts) =>
                        \E l \in 1 .. i - 1 : /\ l \in DOMAIN steps
                                              /\ steps[l].operation = recipe.steps[p].operation
                                              /\ steps[l].kind = recipe.steps[p].kind
    BY StepsLeft
  <1>2. PICK step : step = recipe.steps[q]
    OBVIOUS
  <1>3. j \in DOMAIN step.inputs
    BY <1>1, <1>2
  <1>4. PICK raw : raw = step.inputs[j]
    OBVIOUS
  <1>5. input = InputSource(recipe, raw, facts)
    BY <1>1, <1>2, <1>3, <1>4
  <1>6. /\ raw.from \in {"fact", "caller"}
        /\ raw.from = "fact" => \E f \in recipe.facts : f.key = raw.key
        /\ raw.from = "fact" /\ raw.key \in LookupKeys(recipe) => Awaited(recipe, q, raw.key)
    <2>1. raw.key \in LookupKeys(recipe) => \E f \in recipe.facts : f.key = raw.key /\ f.source = "lookup"
      BY DEF LookupKeys
    <2> QED
      BY <1>2, <1>3, <1>4, <2>1 DEF Reviewed
  <1>7. ASSUME input.from = "previous_step"
        PROVE  /\ input.key \in UnresolvedLookupOutputs(recipe, steps, facts)
               /\ \E p \in 1 .. i - 1, s \in Range(recipe.steps) :
                     /\ s.operation = steps[p].operation /\ s.kind = steps[p].kind
                     /\ input.key \in s.produces
    <2>1. /\ raw.from = "fact" /\ raw.key \notin DOMAIN facts /\ raw.key \in LookupKeys(recipe)
          /\ input.key = raw.key
      BY <1>5, <1>6, <1>7 DEF InputSource
    <2>2. PICK key : key = raw.key
      OBVIOUS
    <2>3. PICK p \in 1 .. q - 1, f \in recipe.facts :
             /\ recipe.steps[p].kind = "lookup" /\ key \in recipe.steps[p].produces
             /\ f.key = key /\ f.source = "lookup" /\ f.producedBy = recipe.steps[p].operation
             /\ recipe.steps[p].skipIf = {} \/ key \in recipe.steps[p].skipIf
             /\ recipe.steps[p].onlyIfFacts \subseteq recipe.steps[q].onlyIfFacts
             /\ \A k \in DOMAIN recipe.steps[p].onlyIf :
                   k \in DOMAIN recipe.steps[q].onlyIf /\ recipe.steps[q].onlyIf[k] = recipe.steps[p].onlyIf[k]
      BY <1>6, <2>1, <2>2, Zenon DEF Awaited
    <2>4. PICK s : s = recipe.steps[p]
      OBVIOUS
    <2>5. OnlyIfMatches(s, facts)
      <3>1. OnlyIfMatches(step, facts)
        BY <1>1, <1>2 DEF IsLeft
      <3> QED
        BY <1>2, <2>3, <2>4, <3>1 DEF OnlyIfMatches, WhenMatches
    <2>6. ~AllFactsPresent(facts, s.skipIf)
      BY <2>1, <2>2, <2>3, <2>4 DEF AllFactsPresent
    <2>7. PICK l \in 1 .. i - 1 : l \in DOMAIN steps /\ steps[l].operation = s.operation /\ steps[l].kind = s.kind
      BY <1>1, <2>4, <2>5, <2>6 DEF IsLeft
    <2>8. l \in Producers(recipe, steps, f)
      <3>1. steps[l].kind = "lookup" /\ steps[l].operation = f.producedBy
        BY <2>3, <2>4, <2>7
      <3> QED
        BY <2>7, <3>1, Zenon DEF Producers
    <2>9. key \in UnresolvedLookupOutputs(recipe, steps, facts)
      <3>1. f.source = "lookup" /\ f.key \notin DOMAIN facts /\ Producers(recipe, steps, f) # {} /\ f.key = key
        BY <2>1, <2>2, <2>3, <2>8
      <3> QED
        BY <3>1 DEF UnresolvedLookupOutputs
    <2>10. s \in Range(recipe.steps)
      <3>1. PICK n \in Nat : DOMAIN recipe.steps = 1 .. n
        BY DEF Reviewed
      <3>2. p \in DOMAIN recipe.steps
        BY <3>1
      <3> QED
        BY <2>4, <3>2 DEF Range
    <2> QED
      BY <2>1, <2>2, <2>3, <2>4, <2>7, <2>9, <2>10
  <1>8. ASSUME input.from = "fact"
        PROVE  input.key \in DOMAIN facts \cup MissingCallerFacts(recipe, facts) \cup OptionalKeys(recipe)
    <2>1. input = raw /\ raw.from = "fact" /\ (raw.key \in DOMAIN facts \/ raw.key \notin LookupKeys(recipe))
      BY <1>5, <1>8 DEF InputSource
    <2>2. CASE raw.key \in DOMAIN facts
      BY <2>1, <2>2
    <2>3. CASE raw.key \notin DOMAIN facts
      <3>1. PICK f \in recipe.facts : f.key = raw.key
        BY <1>6, <2>1
      <3>2. f.source # "lookup"
        BY <2>1, <2>3, <3>1 DEF LookupKeys
      <3>3. CASE f.optional \/ DOMAIN f.when # {} \/ DOMAIN f.optionalWhen # {}
        BY <2>1, <3>1, <3>3 DEF OptionalKeys
      <3>4. CASE ~(f.optional \/ DOMAIN f.when # {} \/ DOMAIN f.optionalWhen # {})
        <4>1. WhenMatches(f.when, facts)
          BY <3>4 DEF WhenMatches
        <4>2. ~f.optional /\ ~(DOMAIN f.optionalWhen # {} /\ WhenMatches(f.optionalWhen, facts))
          BY <3>4
        <4>3. f.key \notin DOMAIN facts
          BY <2>3, <3>1
        <4> QED
          BY <2>1, <3>1, <3>2, <4>1, <4>2, <4>3 DEF MissingCallerFacts
      <3> QED
        BY <3>3, <3>4
    <2> QED
      BY <2>2, <2>3
  <1> QED
    BY <1>7, <1>8

AnswerFields == {"status", "steps", "missing", "unresolved", "supplied", "calls"}
StepFields   == {"operation", "kind", "availability", "inputs"}

\* What is made of an answer for a server and a caller (gatePreparation).
LEMMA GatedAs ==
  ASSUME NEW answer, DOMAIN answer = AnswerFields, \A i \in DOMAIN answer.steps : DOMAIN answer.steps[i] = StepFields,
         NEW server, NEW a, a = GatePreparation(answer, server)
  PROVE  /\ a.missing = answer.missing /\ a.unresolved = answer.unresolved /\ a.supplied = answer.supplied
         /\ DOMAIN a.steps = DOMAIN answer.steps
         /\ \A i \in DOMAIN a.steps :
               /\ a.steps[i].operation = answer.steps[i].operation /\ a.steps[i].kind = answer.steps[i].kind
               /\ a.steps[i].inputs = answer.steps[i].inputs \/ a.steps[i].inputs = <<>>
         /\ a.status = "ready" =>
               /\ answer.status = "ready"
               /\ \A i \in DOMAIN answer.steps : Availability(answer.steps[i], server) = "executable"
  <1> DEFINE by(i) == Availability(answer.steps[i], server)
             step(i) == [answer.steps[i] EXCEPT !.availability = by(i), !.inputs = IF by(i) = "executable" THEN @ ELSE <<>>]
             gated == [i \in DOMAIN answer.steps |-> step(i)]
             unavailable == \E i \in DOMAIN gated : gated[i].availability # "executable"
  <1>1. a = [answer EXCEPT !.steps = gated, !.status = IF unavailable THEN "unavailable" ELSE @]
    BY Zenon DEF GatePreparation
  <1>2. ASSUME NEW i \in DOMAIN answer.steps
        PROVE  /\ step(i).operation = answer.steps[i].operation /\ step(i).kind = answer.steps[i].kind
               /\ step(i).inputs = answer.steps[i].inputs \/ step(i).inputs = <<>>
               /\ step(i).availability = by(i)
    <2> HIDE DEF by
    <2> QED
      BY DEF StepFields
  <1> HIDE DEF by, step
  <1>3. DOMAIN gated = DOMAIN answer.steps /\ \A i \in DOMAIN answer.steps : gated[i] = step(i)
    OBVIOUS
  <1>4. ~unavailable => \A i \in DOMAIN answer.steps : by(i) = "executable"
    BY <1>2, <1>3
  <1> HIDE DEF gated, unavailable
  <1>5. /\ a.missing = answer.missing /\ a.unresolved = answer.unresolved /\ a.supplied = answer.supplied
        /\ a.steps = gated /\ a.status = IF unavailable THEN "unavailable" ELSE answer.status
    BY <1>1 DEF AnswerFields
  <1>6. a.status = "ready" => ~unavailable /\ answer.status = "ready"
    BY <1>5
  <1> QED
    BY <1>2, <1>3, <1>4, <1>5, <1>6 DEF by

\* An answer without steps says nothing that could be wrong, unless it says "ready".
LEMMA EmptyIsHonest ==
  ASSUME NEW q, DOMAIN q.answer.steps = {}, q.answer.missing = {}, q.answer.unresolved = {}, q.answer.supplied = {},
         q.answer.status # "ready"
  PROVE  AnswerHonest(q)
  BY DEF AnswerHonest

\* What a preparation says holds.
LEMMA PreparedIsHonest ==
  ASSUME NEW recipe, Reviewed(recipe), NEW selected, NEW known, NEW server, server.writing = Writing(recipe),
         NEW tooLong, NEW q,
         q = [recipe |-> recipe, selected |-> selected, known |-> known, server |-> server,
              answer |-> BoundPreparation(GatePreparation(Prepare(recipe, selected, known), server), tooLong)]
  PROVE  AnswerHonest(q)
  <1>1. PICK prepared : prepared = Prepare(recipe, selected, known)
    OBVIOUS
  <1>2. PICK gated : gated = GatePreparation(prepared, server)
    OBVIOUS
  <1>3. q.answer = BoundPreparation(gated, tooLong) /\ q.recipe = recipe /\ q.selected = selected /\ q.known = known /\ q.server = server
    BY <1>1, <1>2
  <1>4. CASE tooLong
    <2>1. q.answer = EmptyAnswer("unavailable")
      BY <1>3, <1>4 DEF BoundPreparation
    <2>2. /\ DOMAIN q.answer.steps = {} /\ q.answer.missing = {} /\ q.answer.unresolved = {} /\ q.answer.supplied = {}
          /\ q.answer.status # "ready"
      BY <2>1 DEF EmptyAnswer
    <2> QED
      BY <2>2, EmptyIsHonest
  <1>5. CASE ~tooLong /\ ~AppliesTo(recipe, selected)
    <2>1. q.answer = gated
      BY <1>3, <1>5 DEF BoundPreparation
    <2>2. prepared = EmptyAnswer("not_applicable")
      BY <1>1, <1>5 DEF Prepare
    <2>3. /\ DOMAIN prepared = AnswerFields /\ DOMAIN prepared.steps = {} /\ prepared.missing = {}
          /\ prepared.unresolved = {} /\ prepared.supplied = {} /\ prepared.status # "ready"
      BY <2>2 DEF EmptyAnswer, AnswerFields
    <2>4. /\ DOMAIN gated.steps = {} /\ gated.missing = {} /\ gated.unresolved = {} /\ gated.supplied = {}
          /\ gated.status # "ready"
      BY <1>2, <2>3, GatedAs
    <2> QED
      BY <2>1, <2>4, EmptyIsHonest
  <1>6. CASE ~tooLong /\ AppliesTo(recipe, selected)
    <2>1. q.answer = gated
      BY <1>3, <1>6 DEF BoundPreparation
    <2>2. PICK facts : facts = SanitizeFacts(known)
      OBVIOUS
    <2>3. PICK steps : steps = SelectSteps(recipe, facts)
      OBVIOUS
    <2>4. PICK missing : missing = MissingCallerFacts(recipe, facts)
      OBVIOUS
    <2>5. PICK unresolved : unresolved = UnresolvedLookupOutputs(recipe, steps, facts)
      OBVIOUS
    <2>6. prepared = [status |-> StatusOf(recipe, steps, missing), steps |-> steps, missing |-> missing,
                      unresolved |-> unresolved, supplied |-> SuppliedKeys(recipe, facts), calls |-> Len(steps)]
      BY <1>1, <1>6, <2>2, <2>3, <2>4, <2>5, Zenon DEF Prepare
    <2>7. /\ DOMAIN prepared = AnswerFields /\ prepared.steps = steps /\ prepared.missing = missing
          /\ prepared.unresolved = unresolved /\ prepared.supplied = SuppliedKeys(recipe, facts)
          /\ prepared.status = StatusOf(recipe, steps, missing)
      BY <2>6 DEF AnswerFields
    <2>8. \A i \in DOMAIN steps : i \in Nat /\ DOMAIN steps[i] = StepFields
      BY <2>3, StepsLeft DEF StepFields
    <2>9. /\ gated.missing = missing /\ gated.unresolved = unresolved /\ gated.supplied = SuppliedKeys(recipe, facts)
          /\ DOMAIN gated.steps = DOMAIN steps
          /\ \A i \in DOMAIN steps :
                /\ gated.steps[i].operation = steps[i].operation /\ gated.steps[i].kind = steps[i].kind
                /\ gated.steps[i].inputs = steps[i].inputs \/ gated.steps[i].inputs = <<>>
          /\ gated.status = "ready" =>
                /\ StatusOf(recipe, steps, missing) = "ready"
                /\ \A i \in DOMAIN steps : Availability(steps[i], server) = "executable"
      BY <1>2, <2>7, <2>8, GatedAs
    <2> DEFINE given == {k \in DOMAIN known : known[k] # Untold}
    <2>10. DOMAIN facts = given
      BY <2>2 DEF SanitizeFacts
    <2> HIDE DEF given
    <2>11. ASSUME NEW i \in DOMAIN gated.steps, NEW j \in DOMAIN gated.steps[i].inputs, NEW input, input = gated.steps[i].inputs[j]
           PROVE  /\ input.from = "previous_step" =>
                        /\ input.key \in unresolved
                        /\ \E p \in 1 .. i - 1, s \in Range(recipe.steps) :
                              /\ s.operation = gated.steps[p].operation /\ s.kind = gated.steps[p].kind
                              /\ input.key \in s.produces
                  /\ input.from = "fact" => input.key \in given \cup missing \cup OptionalKeys(recipe)
      <3>1. i \in DOMAIN steps /\ gated.steps[i].inputs = steps[i].inputs
        <4>1. DOMAIN <<>> = {}
          OBVIOUS
        <4> QED
          BY <2>9, <2>11, <4>1
      <3>2. j \in DOMAIN steps[i].inputs /\ input = steps[i].inputs[j]
        BY <2>11, <3>1
      <3>3. \A p \in 1 .. i - 1 : p \in DOMAIN steps
        <4>1. PICK m \in Nat : DOMAIN steps = 1 .. m
          <5>1. PICK list \in Seq(Range(recipe.steps)) : list = recipe.steps
            BY DEF Reviewed
          <5>2. PICK left : left = Filtered(list, {l \in DOMAIN list : IsLeft(list[l], facts)})
            OBVIOUS
          <5>3. left \in Seq(Range(recipe.steps))
            BY <5>2, FilteredOrder
          <5>4. DOMAIN steps = DOMAIN left
            BY <2>3, <5>1, <5>2 DEF SelectSteps, IsLeft
          <5> QED
            BY <5>3, <5>4
        <4> QED
          BY <3>1, <4>1
      <3>4. /\ input.from = "previous_step" =>
                        /\ input.key \in unresolved
                        /\ \E p \in 1 .. i - 1, s \in Range(recipe.steps) :
                              /\ s.operation = steps[p].operation /\ s.kind = steps[p].kind
                              /\ input.key \in s.produces
            /\ input.from = "fact" => input.key \in DOMAIN facts \cup missing \cup OptionalKeys(recipe)
        BY <2>3, <2>4, <2>5, <3>1, <3>2, InputsHonest
      <3> QED
        BY <2>9, <2>10, <3>3, <3>4
    <2>12. ASSUME gated.status = "ready"
           PROVE  /\ missing = {} /\ selected \in recipe.appliesTo
                  /\ \A i \in DOMAIN gated.steps :
                        /\ gated.steps[i].operation \in server.registered \cap server.granted
                        /\ gated.steps[i].kind = "write" => server.writes
      <3>1. missing = {}
        BY <2>9, <2>12 DEF StatusOf
      <3>2. selected \in recipe.appliesTo
        BY <1>6 DEF AppliesTo
      <3>3. ASSUME NEW i \in DOMAIN steps
            PROVE  /\ steps[i].operation \in server.registered \cap server.granted
                   /\ steps[i].kind = "write" => server.writes
        <4>1. Availability(steps[i], server) = "executable"
          BY <2>9, <2>12
        <4>2. /\ steps[i].operation \in server.registered /\ steps[i].operation \in server.granted
              /\ steps[i].operation \in server.writing => server.writes
          BY <4>1 DEF Availability
        <4>3. steps[i].kind = "write" => steps[i].operation \in Writing(recipe)
          <5>1. PICK l \in DOMAIN recipe.steps :
                   steps[i].operation = recipe.steps[l].operation /\ steps[i].kind = recipe.steps[l].kind
            BY <2>3, StepOfRecipe
          <5>2. recipe.steps[l] \in Range(recipe.steps)
            BY DEF Range
          <5> QED
            BY <5>1, <5>2 DEF Writing
        <4> QED
          BY <4>2, <4>3
      <3> QED
        BY <2>9, <3>1, <3>2, <3>3
    <2>13. missing \cap given = {} /\ unresolved \cap given = {} /\ gated.supplied \subseteq given
      <3>1. missing \cap DOMAIN facts = {}
        BY <2>4 DEF MissingCallerFacts
      <3>2. unresolved \cap DOMAIN facts = {}
        BY <2>5 DEF UnresolvedLookupOutputs
      <3>3. gated.supplied \subseteq DOMAIN facts
        BY <2>9 DEF SuppliedKeys
      <3> QED
        BY <2>10, <3>1, <3>2, <3>3
    <2> DEFINE givenq == {k \in DOMAIN q.known : q.known[k] # Untold}
               optionalq == {f.key : f \in {g \in q.recipe.facts : g.optional \/ DOMAIN g.when # {}
                                                                   \/ DOMAIN g.optionalWhen # {}}}
    <2>14. given = givenq
      BY <1>3, Zenon DEF given
    <2>15. OptionalKeys(recipe) = optionalq
      BY <1>3, Zenon DEF OptionalKeys
    <2> HIDE DEF givenq, optionalq
    <2> DEFINE a == q.answer
    <2>16. a.missing = missing /\ a.unresolved = unresolved /\ a = gated
      BY <2>1, <2>9
    <2> HIDE DEF a
    <2>17. \A i \in DOMAIN a.steps : \A j \in DOMAIN a.steps[i].inputs :
              LET input == a.steps[i].inputs[j]
              IN  /\ input.from = "previous_step" =>
                        /\ input.key \in a.unresolved
                        /\ \E p \in 1 .. i - 1, s \in Range(q.recipe.steps) :
                              /\ s.operation = a.steps[p].operation /\ s.kind = a.steps[p].kind
                              /\ input.key \in s.produces
                  /\ input.from = "fact" => input.key \in givenq \cup a.missing \cup optionalq
      BY <1>3, <2>11, <2>14, <2>15, <2>16
    <2>18. a.status = "ready" =>
              /\ a.missing = {} /\ q.selected \in q.recipe.appliesTo
              /\ \A i \in DOMAIN a.steps :
                    /\ a.steps[i].operation \in q.server.registered \cap q.server.granted
                    /\ a.steps[i].kind = "write" => q.server.writes
      BY <1>3, <2>12, <2>16
    <2>19. a.missing \cap givenq = {} /\ a.unresolved \cap givenq = {} /\ a.supplied \subseteq givenq
      BY <2>13, <2>14, <2>16
    <2> QED
      BY <2>17, <2>18, <2>19, Zenon DEF AnswerHonest, a, givenq, optionalq
  <1> QED
    BY <1>4, <1>5, <1>6

\* A caller may rely on what a preparation says of its steps, inputs and status, for any recipes
\* that were reviewed, facts, servers and grants (Prepare, inputSource, gatePreparation).
THEOREM PreparationsHonest == RecipeSpec => []RecipeHonest
  <1>1. RecipeInit => RecipeHonest
    BY DEF RecipeInit, RecipeHonest
  <1>2. RecipeHonest /\ [RecipeNext]_recipeVars => RecipeHonest'
    <2> SUFFICES ASSUME RecipeHonest, [RecipeNext]_recipeVars PROVE RecipeHonest'
      OBVIOUS
    <2>1. CASE RecipeNext
      <3>1. PICK intent \in DOMAIN Recipes :
               \E selected, known, tooLong, registered, writable, granted :
                  PrepareDescribeRecipe(intent, selected, known,
                      [registered |-> registered, writing |-> Writing(Recipes[intent]), writes |-> writable, granted |-> granted],
                      tooLong)
        BY <2>1, Zenon DEF RecipeNext
      <3>2. PICK selected, known, tooLong, registered, writable, granted :
               PrepareDescribeRecipe(intent, selected, known,
                   [registered |-> registered, writing |-> Writing(Recipes[intent]), writes |-> writable, granted |-> granted],
                   tooLong)
        BY <3>1
      <3>3. PICK server : server = [registered |-> registered, writing |-> Writing(Recipes[intent]), writes |-> writable,
                                    granted |-> granted]
        OBVIOUS
      <3>4. server.writing = Writing(Recipes[intent]) /\ Reviewed(Recipes[intent])
        BY <3>3, AllReviewed
      <3>5. PICK q : q = [recipe |-> Recipes[intent], selected |-> selected, known |-> known, server |-> server,
                          answer |-> BoundPreparation(
                                        GatePreparation(Prepare(Recipes[intent], selected, known), server), tooLong)]
        OBVIOUS
      <3>6. AnswerHonest(q)
        BY <3>4, <3>5, PreparedIsHonest
      <3>7. recipeAnswer' = {q}
        BY <3>2, <3>3, <3>5, Zenon DEF PrepareDescribeRecipe
      <3> QED
        BY <3>6, <3>7 DEF RecipeHonest
    <2>2. CASE UNCHANGED recipeVars
      BY <2>2 DEF recipeVars, RecipeHonest
    <2> QED
      BY <2>1, <2>2
  <1> QED
    BY <1>1, <1>2, PTL DEF RecipeSpec

=============================================================================
