--------------------------- MODULE ClientProvider ---------------------------
(***************************************************************************)
(* NativeProvider (internal/googleapi): Google clients cached per account  *)
(* and generation, whose token sources refresh access tokens, persist a    *)
(* rotated refresh token and are fenced off when the connection changes.   *)
(* It is composed with the token store of one mailbox and with the         *)
(* connection changes of AccountConnect that concern it, by one handler at *)
(* a time; AccountConnect has the interleavings of several.                *)
(*                                                                         *)
(* Everything that reads or writes the store does so under the lifecycle   *)
(* lock; exchanges with Google, waiting requests and revocations do not.   *)
(***************************************************************************)
EXTENDS Naturals

CONSTANTS
    Requests,       \* authenticated requests, each of one call
    Sources,        \* bound: token sources alive at once
    Controller,     \* the handler of a connect or a disconnect
    NoOne,          \* the value of lock when the lifecycle lock is free
    MaxChanges,     \* bound: connects and disconnects begun
    MaxRotations,   \* bound: refresh tokens Google replaces
    MaxFaults       \* bound: failed writes, failed reads and restarts

ASSUME ProcessesAssumption ==
    /\ Requests \cap Sources = {}
    /\ Controller \notin Requests \cup Sources
    /\ NoOne \notin Requests \cup Sources \cup {Controller}
ASSUME BoundsAssumption ==
    MaxChanges \in Nat /\ MaxRotations \in Nat /\ MaxFaults \in Nat

Callers == Requests \cup Sources \cup {Controller}

\* A refresh token is known by the consent it was issued for and by its
\* place in the sequence of tokens that replaced one another.
Token   == [consent : 1 .. MaxChanges, rotation : 0 .. MaxRotations]
NoToken == [consent |-> 0, rotation |-> 0]

VARIABLES
    stored, poisoned, worker, call,   \* the token store
    row,            \* in the registry: the connection of the mailbox
    lock,           \* in memory: who holds the lifecycle lock
    fence,          \* in memory: invalidations of each account
    source,         \* in memory: token sources, cached or not
    req,            \* in memory: where each request stands
    ctl,            \* in memory: where the controller stands
    changes,        \* connects and disconnects begun: names consents and AccountIDs
    rotations,      \* refresh tokens Google has replaced
    faults

INSTANCE TokenStore WITH NoCaller <- NoOne

store  == <<stored, poisoned, worker, call>>
vars == <<store, row, lock, fence, source, req, ctl, changes, rotations, faults>>

AccountIds == 1 .. MaxChanges

\* consent is the one the row was last activated with, for the properties
NoRow == [account |-> 0, state |-> "absent", generation |-> 0, local |-> FALSE,
          consent |-> 0]

\* A source has a refresh token of its own (inner) next to the one it knows to
\* be stored (refresh); fresh says that its access token has not expired, and
\* current that requests are given it.  flight is where its refresh stands.
Unborn == [account |-> 0, generation |-> 0, fence |-> 0, invalid |-> FALSE,
           cached |-> FALSE, refresh |-> NoToken, inner |-> NoToken,
           fresh |-> FALSE, current |-> FALSE, flight |-> "none"]

NoReq == [at |-> "idle", account |-> 0, generation |-> 0, source |-> NoOne]
NoCtl == [at |-> "idle", token |-> NoToken, plan |-> "idle"]

RowStates == [account : AccountIds, local : BOOLEAN, generation : Nat,
              state : {"pending", "active", "disconnecting"}, consent : 0 .. MaxChanges]
SourceStates ==
    [account : 0 .. MaxChanges, generation : Nat, fence : Nat, invalid : BOOLEAN,
     cached : BOOLEAN, fresh : BOOLEAN, current : BOOLEAN,
     refresh : Token \cup {NoToken}, inner : Token \cup {NoToken},
     flight : {"none", "exchange", "check", "lock", "read", "write", "final", "won", "lost"}]
RequestStates ==
    [at : {"idle", "lock", "fill", "token", "begin", "wait", "send"},
     account : 0 .. MaxChanges, generation : Nat, source : Sources \cup {NoOne}]
ControlStates ==
    [at : {"idle", "lookup", "commit", "put", "activate", "begin", "evict", "revoke", "relock", "erase"},
     token : Token \cup {NoToken}, plan : {"idle", "revoke", "relock"}]

TypeOK ==
    /\ StoreTypeOK
    /\ row \in RowStates \cup {NoRow}
    /\ lock \in Callers \cup {NoOne}
    /\ fence \in [AccountIds -> Nat]
    /\ source \in [Sources -> SourceStates]
    /\ req \in [Requests -> RequestStates]
    /\ ctl \in ControlStates
    /\ changes \in 0 .. MaxChanges
    /\ rotations \in 0 .. MaxRotations

Init ==
    /\ StoreInit
    /\ row = NoRow
    /\ lock = NoOne
    /\ fence = [a \in AccountIds |-> 0]
    /\ source = [s \in Sources |-> Unborn]
    /\ req = [r \in Requests |-> NoReq]
    /\ ctl = NoCtl
    /\ changes = 0
    /\ rotations = 0

Unlock == lock' = NoOne

(***************************************************************************)
(* HTTPClient: a cached client, or one filled from the row and the store   *)
(***************************************************************************)

LiveFor(account, generation) ==
    row.state = "active" /\ row.account = account /\ row.generation = generation

Keyed(s, r) ==
    source[s].account = req[r].account /\ source[s].generation = req[r].generation

Usable(r) == {s \in Sources : source[s].cached /\ Keyed(s, r) /\ ~ source[s].invalid}

Move(r, at) == req' = [req EXCEPT ![r].at = at]
Use(r, s)   == req' = [req EXCEPT ![r].at = "token", ![r].source = s]
Fail(r)     == req' = [req EXCEPT ![r] = NoReq]

\* a call resolves its account to the identity it has at that moment
Resolve(r) ==
    /\ req[r].at = "idle"
    /\ row.state = "active"
    /\ req' = [req EXCEPT ![r] = [at |-> "lock", account |-> row.account,
                                  generation |-> row.generation, source |-> NoOne]]
    /\ UNCHANGED <<store, row, lock, fence, source, ctl, changes, rotations, faults>>

\* under the lock: the record must be the one resolved, and active
OpenClient(r) ==
    /\ req[r].at = "lock"
    /\ lock = NoOne
    /\ \/ /\ ~ LiveFor(req[r].account, req[r].generation)
          /\ Fail(r) /\ UNCHANGED <<call, lock>>
       \/ /\ LiveFor(req[r].account, req[r].generation)
          /\ \E s \in Usable(r) : Use(r, s)
          /\ UNCHANGED <<call, lock>>
       \/ /\ LiveFor(req[r].account, req[r].generation)
          /\ Usable(r) = {}
          /\ \E s \in Sources : source[s] = Unborn
          /\ lock' = r
          /\ Move(r, "fill")
          /\ Ask(r, "get", NoToken)
    /\ UNCHANGED <<stored, poisoned, worker, row, fence, source, ctl, changes, rotations, faults>>

Born(r, token) ==
    [Unborn EXCEPT !.account = req[r].account, !.generation = req[r].generation,
                   !.fence = fence[req[r].account], !.cached = TRUE,
                   !.refresh = token, !.inner = token]

NewSource == CHOOSE s \in Sources : source[s] = Unborn

\* an invalid client under the same key is replaced
Cached(s, r, token) ==
    source' = [x \in Sources |->
                 IF x = s THEN Born(r, token)
                 ELSE IF Keyed(x, r) THEN [source[x] EXCEPT !.cached = FALSE]
                 ELSE source[x]]

\* under the lock the row and the fence are still those the fill began with;
\* reading the credentials or the row again may fail
FillClient(r) ==
    /\ req[r].at = "fill"
    /\ \E res \in Result :
         /\ Returns(r, res, NoCall)
         /\ \/ /\ res.kind = "ok"
               /\ LiveFor(req[r].account, req[r].generation)
               /\ Cached(NewSource, r, res.token) /\ Use(r, NewSource)
            \/ Fail(r) /\ UNCHANGED source
    /\ Unlock
    /\ UNCHANGED <<row, fence, ctl, changes, rotations, faults>>

(***************************************************************************)
(* token: what a request is given, and the refresh it starts or joins      *)
(***************************************************************************)

\* fault seeded in Blocked: invalidations are not noticed
BlockedNever(s) == FALSE

\* invalidated, or made before an invalidation of its account
Blocked(s) == source[s].invalid \/ fence[source[s].account] # source[s].fence

\* Blocked marks the source it finds fenced off
Noticed(s) == source' = [source EXCEPT ![s].invalid = Blocked(s)]

EnterToken(r) ==
    LET s == req[r].source IN
    /\ req[r].at = "token"
    /\ Noticed(s)
    /\ IF Blocked(s) THEN Fail(r) ELSE Move(r, "begin")
    /\ UNCHANGED <<store, row, lock, fence, ctl, changes, rotations, faults>>

\* one refresh per source: a request finds a token, joins a refresh or starts one
BeginRefresh(r) ==
    LET s == req[r].source IN
    /\ req[r].at = "begin"
    /\ Move(r, IF source[s].current THEN "send" ELSE "wait")
    /\ source' = IF source[s].current \/ source[s].flight # "none" THEN source
                 ELSE [source EXCEPT ![s].flight = "exchange"]
    /\ UNCHANGED <<store, row, lock, fence, ctl, changes, rotations, faults>>

Send(r) ==
    /\ req[r].at = "send"
    /\ Fail(r)
    /\ UNCHANGED <<store, row, lock, fence, source, ctl, changes, rotations, faults>>

\* the request's deadline passes while it holds nothing
CancelRequest(r) ==
    /\ req[r].at \in {"lock", "token", "wait"}
    /\ Fail(r)
    /\ UNCHANGED <<store, row, lock, fence, source, ctl, changes, rotations, faults>>

(***************************************************************************)
(* runRefresh and persistRotated, outside the request that started them    *)
(***************************************************************************)

Fly(s, at) == source' = [source EXCEPT ![s].flight = at]

\* the inner source answers from its unexpired access token, or asks Google,
\* which may replace the refresh token
Exchange(s) ==
    /\ source[s].flight = "exchange"
    /\ \/ source[s].fresh /\ Fly(s, "check") /\ UNCHANGED rotations
       \/ /\ ~ source[s].fresh
          /\ source' = [source EXCEPT ![s].invalid = Blocked(s), ![s].flight = "lost"]
          /\ UNCHANGED rotations
       \/ /\ ~ source[s].fresh
          /\ source' = [source EXCEPT ![s].flight = "check", ![s].fresh = TRUE]
          /\ UNCHANGED rotations
       \/ /\ ~ source[s].fresh
          /\ rotations < MaxRotations
          /\ rotations' = rotations + 1
          /\ source' = [source EXCEPT ![s].flight = "check", ![s].fresh = TRUE,
                                      ![s].inner.rotation = rotations + 1]
    /\ UNCHANGED <<store, row, lock, fence, req, ctl, changes, faults>>

\* nothing is stored for a source fenced off, or when nothing was replaced
CheckRotated(s) ==
    /\ source[s].flight = "check"
    /\ source' = [source EXCEPT
                    ![s].invalid = Blocked(s),
                    ![s].flight = IF Blocked(s) THEN "lost"
                                  ELSE IF source[s].inner = source[s].refresh THEN "final"
                                  ELSE "lock"]
    /\ UNCHANGED <<store, row, lock, fence, req, ctl, changes, rotations, faults>>

\* fault seeded in LiveUsable: the row is not compared
LiveUsableUnread(s) == TRUE

LiveUsable(s) == ~ Blocked(s) /\ LiveFor(source[s].account, source[s].generation)

\* the row must still be the one the source was made for
LockRefresh(s) ==
    /\ source[s].flight = "lock"
    /\ lock = NoOne
    /\ \/ /\ LiveUsable(s)
          /\ lock' = s
          /\ Ask(s, "get", NoToken)
          /\ Fly(s, "read")
       \/ /\ ~ LiveUsable(s)
          /\ source' = [source EXCEPT ![s].invalid = TRUE, ![s].flight = "lost"]
          /\ UNCHANGED <<lock, call>>
    /\ UNCHANGED <<stored, poisoned, worker, row, fence, req, ctl, changes, rotations, faults>>

\* the deadline for storing passes, or the row cannot be read
GiveUpLock(s) ==
    /\ source[s].flight = "lock"
    /\ Fly(s, "lost")
    /\ UNCHANGED <<store, row, lock, fence, req, ctl, changes, rotations, faults>>

\* without a token in the store there is nothing to replace
ReadStored(s) ==
    /\ source[s].flight = "read"
    /\ \E res \in Result :
         \/ /\ res.kind = "ok"
            /\ Returns(s, res, Asked("put", source[s].inner))
            /\ Fly(s, "write")
            /\ UNCHANGED lock
         \/ /\ res.kind # "ok"
            /\ Returns(s, res, NoCall)
            /\ source' = [source EXCEPT ![s].invalid = TRUE, ![s].flight = "lost"]
            /\ Unlock
    /\ UNCHANGED <<row, fence, req, ctl, changes, rotations, faults>>

\* fault seeded in Persisted: a failed Put counts as done
PersistedAnyway(s) ==
    /\ source[s].flight = "write"
    /\ \E res \in Result : Returns(s, res, NoCall)
    /\ source' = [source EXCEPT ![s].refresh = source[s].inner, ![s].flight = "final"]
    /\ Unlock
    /\ UNCHANGED <<row, fence, req, ctl, changes, rotations, faults>>

\* fault seeded in Persisted: the error path keeps the lock
PersistedKeepingLock(s) ==
    /\ source[s].flight = "write"
    /\ \E res \in Result :
         /\ Returns(s, res, NoCall)
         /\ IF res.kind = "ok"
              THEN /\ source' = [source EXCEPT ![s].refresh = source[s].inner,
                                               ![s].flight = "final"]
                   /\ Unlock
              ELSE Fly(s, "lost") /\ UNCHANGED lock
    /\ UNCHANGED <<row, fence, req, ctl, changes, rotations, faults>>

Persisted(s) ==
    /\ source[s].flight = "write"
    /\ \E res \in Result :
         /\ Returns(s, res, NoCall)
         /\ IF res.kind = "ok"
              THEN source' = [source EXCEPT ![s].refresh = source[s].inner,
                                            ![s].flight = "final"]
              ELSE Fly(s, "lost")
    /\ Unlock
    /\ UNCHANGED <<row, fence, req, ctl, changes, rotations, faults>>

CheckFinal(s) ==
    /\ source[s].flight = "final"
    /\ source' = [source EXCEPT ![s].invalid = Blocked(s),
                                ![s].flight = IF Blocked(s) THEN "lost" ELSE "won"]
    /\ UNCHANGED <<store, row, lock, fence, req, ctl, changes, rotations, faults>>

\* the refresh ends, and with it the wait of every request that joined it
EndRefresh(s) ==
    LET won == source[s].flight = "won" IN
    /\ source[s].flight \in {"won", "lost"}
    /\ source' = [source EXCEPT ![s].flight = "none",
                                ![s].current = won \/ @]
    /\ req' = [r \in Requests |->
                 IF req[r].at # "wait" \/ req[r].source # s THEN req[r]
                 ELSE IF won THEN [req[r] EXCEPT !.at = "send"] ELSE NoReq]
    /\ UNCHANGED <<store, row, lock, fence, ctl, changes, rotations, faults>>

\* an access token expires; it outlives the refresh that brings it
AccessExpires(s) ==
    /\ source[s].fresh /\ source[s].flight = "none"
    /\ source' = [source EXCEPT ![s].fresh = FALSE, ![s].current = FALSE]
    /\ UNCHANGED <<store, row, lock, fence, req, ctl, changes, rotations, faults>>

\* nothing refers to the source any more
Garbage(s) ==
    /\ source[s] # Unborn
    /\ ~ source[s].cached /\ source[s].flight = "none"
    /\ \A r \in Requests : req[r].source # s

Collect(s) ==
    /\ Garbage(s)
    /\ source' = [source EXCEPT ![s] = Unborn]
    /\ UNCHANGED <<store, row, lock, fence, req, ctl, changes, rotations, faults>>

(***************************************************************************)
(* The controller's changes of the connection (AccountConnect has them in  *)
(* full), each ending what was cached with InvalidateAccount               *)
(***************************************************************************)

\* fault seeded in InvalidateAccount: the account's fence stays
InvalidateNothing(a) == UNCHANGED <<fence, source>>

\* every cached client of the account goes, and its fence moves
InvalidateAccount(a) ==
    /\ fence' = [fence EXCEPT ![a] = @ + 1]
    /\ source' = [s \in Sources |->
                    IF source[s].cached /\ source[s].account = a
                      THEN [source[s] EXCEPT !.invalid = TRUE, !.cached = FALSE]
                      ELSE source[s]]

Control(at) == ctl' = [ctl EXCEPT !.at = at]
Done        == ctl' = NoCtl /\ Unlock

\* a handler takes the lock
Begin ==
    /\ ctl.at = "idle" /\ lock = NoOne
    /\ changes < MaxChanges
    /\ changes' = changes + 1
    /\ lock' = Controller

\* a callback whose exchange gave a refresh token, or none: then the one on
\* file is looked up
BeginConnect ==
    /\ row.state # "disconnecting"
    /\ Begin
    /\ \/ /\ ctl' = [NoCtl EXCEPT !.at = "commit", !.token = [consent |-> changes', rotation |-> 0]]
          /\ UNCHANGED call
       \/ Control("lookup") /\ Ask(Controller, "get", NoToken)
    /\ UNCHANGED <<stored, poisoned, worker, row, fence, source, req, rotations, faults>>

LookupToken ==
    /\ ctl.at = "lookup"
    /\ \E res \in Result :
         /\ Returns(Controller, res, NoCall)
         /\ IF res.kind = "ok"
              THEN ctl' = [NoCtl EXCEPT !.at = "commit", !.token = res.token] /\ UNCHANGED lock
              ELSE Done
    /\ UNCHANGED <<row, fence, source, req, changes, rotations, faults>>

\* the clients are evicted before the pending row is written
CommitPending ==
    LET a == IF row.account = 0 THEN changes ELSE row.account IN
    /\ ctl.at = "commit"
    /\ InvalidateAccount(a)
    /\ \/ /\ row' = [NoRow EXCEPT !.account = a, !.state = "pending",
                                  !.generation = row.generation + 1]
          /\ Control("put")
          /\ Ask(Controller, "put", ctl.token)
          /\ NoFault /\ UNCHANGED lock
       \/ Fault /\ Done /\ UNCHANGED <<row, call>>
    /\ UNCHANGED <<stored, poisoned, worker, req, changes, rotations>>

\* fault seeded in PutToken: the store's error is ignored
PutTokenAnyway ==
    /\ ctl.at = "put"
    /\ \E res \in Result : Returns(Controller, res, NoCall)
    /\ Control("activate")
    /\ UNCHANGED <<row, lock, fence, source, req, changes, rotations, faults>>

\* a store that reports an error leaves the row pending
PutToken ==
    /\ ctl.at = "put"
    /\ \E res \in Result :
         /\ Returns(Controller, res, NoCall)
         /\ IF res.kind = "ok"
              THEN Control("activate") /\ UNCHANGED <<lock, fence, source>>
              ELSE InvalidateAccount(row.account) /\ Done
    /\ UNCHANGED <<row, req, changes, rotations, faults>>

\* the commit and the eviction are one step: since CommitPending no source is left that
\* is not fenced off, and none is made without the lock
Activate ==
    /\ ctl.at = "activate"
    /\ \/ /\ row' = [row EXCEPT !.state = "active", !.consent = ctl.token.consent]
          /\ InvalidateAccount(row.account)
          /\ NoFault
       \/ Fault /\ UNCHANGED <<row, fence, source>>
    /\ Done
    /\ UNCHANGED <<store, req, changes, rotations>>

BeginDisconnect ==
    /\ row.account # 0
    /\ Begin
    /\ Control("begin")
    /\ Ask(Controller, "get", NoToken)
    /\ UNCHANGED <<stored, poisoned, worker, row, fence, source, req, rotations, faults>>

\* what follows: revoke the token read, skip a step already made, or stop
\* when the token could not be read
PlanOf(res) ==
    IF row.state = "disconnecting" /\ row.local THEN "relock"
    ELSE CASE res.kind = "ok"   -> "revoke"
           [] res.kind = "none" -> "relock"
           [] ~ Answered(res)   -> "idle"

Evict(plan) ==
    /\ InvalidateAccount(row.account)
    /\ ctl' = [NoCtl EXCEPT !.at = plan]
    /\ Unlock

\* under the lock: the row is committed first and its clients are evicted after;
\* a row found disconnecting is not written again
MarkDisconnecting ==
    /\ ctl.at = "begin"
    /\ \E res \in Result :
         /\ Returns(Controller, res, NoCall)
         /\ \/ /\ row.state = "disconnecting"
               /\ Evict(PlanOf(res))
               /\ NoFault /\ UNCHANGED row
            \/ /\ row.state # "disconnecting"
               /\ row' = [NoRow EXCEPT !.account = row.account, !.state = "disconnecting",
                                       !.generation = row.generation + 1]
               /\ ctl' = [NoCtl EXCEPT !.at = "evict", !.plan = PlanOf(res)]
               /\ NoFault /\ UNCHANGED <<lock, fence, source>>
            \/ /\ row.state # "disconnecting"
               /\ Done
               /\ Fault /\ UNCHANGED <<row, fence, source>>
    /\ UNCHANGED <<req, changes, rotations>>

\* until here sources made before go on serving: they do not take the lock
EvictDisconnecting ==
    /\ ctl.at = "evict"
    /\ Evict(ctl.plan)
    /\ UNCHANGED <<store, row, req, changes, rotations, faults>>

\* Google revokes the grant, or the disconnect is to be retried
Revoke ==
    /\ ctl.at = "revoke"
    /\ Control("relock") \/ Control("idle")
    /\ UNCHANGED <<store, row, lock, fence, source, req, changes, rotations, faults>>

GiveUpControl ==
    /\ ctl.at = "relock"
    /\ Control("idle")
    /\ UNCHANGED <<store, row, lock, fence, source, req, changes, rotations, faults>>

RecordLocalStage ==
    /\ ctl.at = "relock" /\ lock = NoOne
    /\ \/ /\ row' = [row EXCEPT !.local = TRUE]
          /\ lock' = Controller
          /\ Control("erase")
          /\ Ask(Controller, "delete", NoToken)
          /\ NoFault
       \/ Fault /\ Control("idle") /\ UNCHANGED <<row, lock, call>>
    /\ UNCHANGED <<stored, poisoned, worker, fence, source, req, changes, rotations>>

\* fault seeded in DeleteRecord: the row goes although the token may not have
DeleteRecordAnyway ==
    /\ ctl.at = "erase"
    /\ \E res \in Result : Returns(Controller, res, NoCall)
    /\ row' = NoRow /\ NoFault
    /\ Done
    /\ UNCHANGED <<fence, source, req, changes, rotations>>

\* fault seeded in DeleteRecord: the row is only marked
DeleteRecordMarked ==
    /\ ctl.at = "erase"
    /\ \E res \in Result : Returns(Controller, res, NoCall)
    /\ row' = [row EXCEPT !.state = "absent"] /\ NoFault
    /\ Done
    /\ UNCHANGED <<fence, source, req, changes, rotations>>

\* the row goes once its token is gone
DeleteRecord ==
    /\ ctl.at = "erase"
    /\ \E res \in Result :
         /\ Returns(Controller, res, NoCall)
         /\ \/ res.kind = "ok" /\ row' = NoRow /\ NoFault
            \/ res.kind = "ok" /\ Fault /\ UNCHANGED row
            \/ res.kind # "ok" /\ NoFault /\ UNCHANGED row
    /\ Done
    /\ UNCHANGED <<fence, source, req, changes, rotations>>

(***************************************************************************)
(* The whole                                                               *)
(***************************************************************************)

\* the process stops: the registry and the keyring survive
Restart ==
    /\ Fault
    /\ StoreRestart
    /\ lock' = NoOne
    /\ fence' = [a \in AccountIds |-> 0]
    /\ source' = [s \in Sources |-> Unborn]
    /\ req' = [r \in Requests |-> NoReq]
    /\ ctl' = NoCtl
    /\ UNCHANGED <<row, changes, rotations>>

StoreStep ==
    /\ WorkerStep
    /\ UNCHANGED <<row, lock, fence, source, req, ctl, changes, rotations>>

RequestStep(r) ==
    \/ OpenClient(r) \/ FillClient(r) \/ EnterToken(r) \/ BeginRefresh(r) \/ Send(r)

RefreshStep(s) ==
    \/ Exchange(s) \/ CheckRotated(s) \/ LockRefresh(s) \/ GiveUpLock(s)
    \/ ReadStored(s) \/ Persisted(s) \/ CheckFinal(s) \/ EndRefresh(s)

ControlStep ==
    \/ LookupToken \/ CommitPending \/ PutToken \/ Activate \/ MarkDisconnecting
    \/ EvictDisconnecting \/ Revoke \/ GiveUpControl \/ RecordLocalStage \/ DeleteRecord

\* nobody can see garbage: it goes before anything else happens
Next ==
    \/ \E s \in Sources : Collect(s)
    \/ /\ \A s \in Sources : ~ Garbage(s)
       /\ \/ \E r \in Requests : Resolve(r) \/ RequestStep(r) \/ CancelRequest(r)
          \/ \E s \in Sources : RefreshStep(s) \/ AccessExpires(s)
          \/ BeginConnect \/ BeginDisconnect \/ ControlStep
          \/ StoreStep
          \/ Restart

Spec == Init /\ [][Next]_vars

(***************************************************************************)
(* Fairness.  Goroutines run, and every context ends: requests have        *)
(* deadlines, exchanges and lock waits time out, a store operation is      *)
(* bounded by its own timeout.  Nothing is assumed of the worker, which    *)
(* may hang in the keyring for ever.                                       *)
(***************************************************************************)

Fairness ==
    /\ \A s \in Sources : WF_vars(Collect(s))
    /\ \A r \in Requests : WF_vars(RequestStep(r))
    /\ \A s \in Sources : WF_vars(RefreshStep(s))
    /\ WF_vars(ControlStep)

FairSpec == Spec /\ Fairness

(***************************************************************************)
(* Properties                                                              *)
(***************************************************************************)

\* A disconnect has committed its row and, still under the lock, is about to
\* evict what was made for the connection it ends.
Ending(account, generation) ==
    ctl.at = "evict" /\ row.account = account /\ row.generation = generation + 1

Standing(account, generation) ==
    LiveFor(account, generation) \/ Ending(account, generation)

\* A source that still serves requests belongs to the connection as it is: the
\* active row's account and generation, or those that a disconnect which has not
\* given up the lock is ending.  Refreshes of older sources that are still under
\* way, and clients filled while the connection changed, are fenced off
\* (InvalidateAccount, blocked, cachedClient).
UnblockedSourceCurrent ==
    \A s \in Sources :
        source[s] # Unborn /\ ~ Blocked(s)
            => Standing(source[s].account, source[s].generation)

\* An access token requests are given came with the refresh token now in the
\* store: a rotated refresh token is durable before anyone uses what came with
\* it, so that a restart does not lose the account (persistRotated).
ServedIsDurable ==
    \A s \in Sources :
        source[s].current /\ ~ Blocked(s) => stored = source[s].inner

\* The store holds, for an active connection, a token of the consent it was
\* activated with: neither a refresh that began before, nor a write whose
\* caller gave up, puts an older one in its place (persistRotated, failClosed).
ActiveRowHasItsToken ==
    row.state = "active" => stored.consent = row.consent

\* A removed connection leaves no token behind, however late a refresh or an
\* abandoned write ends (liveUsable, failClosed).
NoResurrection ==
    row.state = "absent" => stored = NoToken

\* A rotated token is only ever written over the token it replaces, or an
\* earlier one of the same consent.
RotationExtends ==
    [][stored' # stored /\ stored'.rotation > 0
         => /\ stored.consent = stored'.consent
            /\ stored.rotation < stored'.rotation]_vars

\* A call is authorised only while the identity it was resolved to is the
\* account's current one, or the disconnect that ends it has not yet given up the
\* lock: one that starts after a disconnect or a reconnect is refused, whatever
\* client it had obtained (token, blocked).
AuthorisedIsCurrent ==
    [][\A r \in Requests :
          req[r].at = "token" /\ req'[r].at = "begin"
            => Standing(req[r].account, req[r].generation)]_vars

\* Every refresh ends, and every holder releases the lock, although the keyring
\* may hang and Google may not answer (persistTimeout, bound).
RefreshEnds == \A s \in Sources : source[s].flight # "none" ~> source[s].flight = "none"

LockReleased == lock # NoOne ~> lock = NoOne
=============================================================================
