--------------------------- MODULE AccountConnect ---------------------------
(***************************************************************************)
(* The account connection controller (internal/accountconnect): OAuth      *)
(* connect and reconnect callbacks, disconnects and listings that share a  *)
(* durable registry, a protected refresh-token store and the lifecycle     *)
(* lock, while the Google exchange and revoke calls run outside the lock.  *)
(*                                                                         *)
(* One step is one durable write or one network call: every point at which *)
(* another handler, a failure or a restart can come between.  All records  *)
(* are those of one OAuth client bucket, which scopes every key.           *)
(***************************************************************************)
EXTENDS Naturals, GoMaps

CONSTANTS
    Subjects,       \* Google subjects (the stable account identifiers)
    Principals,     \* authenticated callers that own connections
    EmailsOf,       \* EmailsOf[s]: the addresses Google may report for s
    Ops,            \* concurrent handler invocations
    NoOp,           \* the value of lock when the lifecycle lock is free
    RevokeIsIdempotent, \* Google answers success when a dead token is revoked
    MaxAccounts,    \* bound: AccountIDs minted
    MaxSessions,    \* bound: OAuth sessions started
    MaxFaults       \* bound: failed writes, failed calls and restarts

Emails == UNION {EmailsOf[s] : s \in Subjects}

ASSUME OpsAssumption == NoOp \notin Ops
ASSUME NamesAssumption == "" \notin Subjects /\ "" \notin Emails /\ "" \notin Principals
ASSUME BoundsAssumption ==
    /\ MaxAccounts \in Nat
    /\ MaxSessions \in Nat
    /\ MaxFaults \in Nat
    /\ RevokeIsIdempotent \in BOOLEAN

VARIABLES
    records,        \* registry file: AccountID -> Record
    epochs,         \* registry file: revoke epoch of each subject
    tokens,         \* token store: email -> refresh token
    sessions,       \* in memory: pending OAuth sessions
    lock,           \* in memory: the Ops member holding the lifecycle lock
    clients,        \* in memory: cached authenticated clients per AccountID
    pc, job,        \* in memory: where each handler stands, and its locals
    grant,          \* at Google: which grant of the subject is the live one
    consented,      \* at Google: subjects whose live grant issued a token
    nextAccount, nextSession, faults

durable == <<records, epochs, tokens>>
google  == <<grant, consented>>
minted  == <<nextAccount, nextSession>>
vars == <<durable, sessions, lock, clients, pc, job, google, minted, faults>>

(***************************************************************************)
(* Data                                                                    *)
(***************************************************************************)

AccountIds == 1 .. MaxAccounts

\* A refresh token is known by its subject and by the grant it belongs to.
Token   == [subject : Subjects, grant : Nat]
NoToken == [subject |-> "", grant |-> 0]

Live(t) == t.subject \in Subjects /\ t.grant = grant[t.subject]

Cleanup     == [kind : {"none", "token_key", "revoke"},
                stage : {"", "local"}, email : Emails \cup {""}]
NoCleanup   == [kind |-> "none", stage |-> "", email |-> ""]
TokenKey(e) == [kind |-> "token_key", stage |-> "", email |-> e]
RevokeOf(e, stage) == [kind |-> "revoke", stage |-> stage, email |-> e]

Record == [subject : Subjects, email : Emails, principal : Principals,
           state : {"active", "pending", "disconnecting"},
           generation : Nat, revokeEpoch : Nat, cleanup : Cleanup]

Client == [generation : Nat, token : Token]

Session == [principal : Principals, account : AccountIds \cup {0}]

PCs == {"idle", "exchange", "callback", "commit", "put", "activate", "finish",
        "settle", "settled", "bump", "mark", "revoke", "relock", "stage",
        "complete", "delete_token", "delete_record", "list"}

\* The locals of a handler.  token is the token exchanged or to be revoked,
\* before the epochs read when the callback began, after the step that
\* follows a settled cleanup, plan what a disconnect does once unlocked.
Job == [principal : Principals \cup {""}, account : AccountIds \cup {0},
        subject : Subjects \cup {""}, email : Emails \cup {""},
        token : Token \cup {NoToken}, before : [Subjects -> Nat],
        after : {"idle", "commit", "finish", "bump", "list"},
        plan : {"idle", "revoke", "relock"}, todo : SUBSET AccountIds]
NoJob == [principal |-> "", account |-> 0, subject |-> "", email |-> "",
          token |-> NoToken, before |-> [s \in Subjects |-> 0],
          after |-> "idle", plan |-> "idle", todo |-> {}]

TypeOK ==
    /\ IsMap(records, AccountIds, Record)
    /\ epochs \in [Subjects -> Nat]
    /\ IsMap(tokens, Emails, Token)
    /\ IsMap(sessions, 1 .. MaxSessions, Session)
    /\ lock \in Ops \cup {NoOp}
    /\ IsMap(clients, AccountIds, Client)
    /\ pc \in [Ops -> PCs]
    /\ job \in [Ops -> Job]
    /\ grant \in [Subjects -> Nat]
    /\ consented \in SUBSET Subjects
    /\ nextAccount \in 0 .. MaxAccounts
    /\ nextSession \in 0 .. MaxSessions
    /\ faults \in 0 .. MaxFaults

(***************************************************************************)
(* commitRecords: the registry keeps one record per subject and one per    *)
(* address, reuses the AccountID of the subject and never lowers its       *)
(* generation or its revoke epoch.                                         *)
(***************************************************************************)

\* fault seeded in Clash: the address is not checked
ClashOnOwnerOnly(rec) ==
    \E id \in DOMAIN records :
        records[id].subject = rec.subject /\ records[id].principal # rec.principal

Clash(rec) ==
    \E id \in DOMAIN records :
        \/ records[id].subject = rec.subject /\ records[id].principal # rec.principal
        \/ records[id].subject # rec.subject /\ records[id].email = rec.email

Owners(s) == {id \in DOMAIN records : records[id].subject = s}

AtLeast(a, b) == IF a < b THEN b ELSE a

\* the AccountID under which rec is stored when its caller knows it as id
Winner(id, rec) ==
    IF Owners(rec.subject) = {} THEN id ELSE CHOOSE w \in Owners(rec.subject) : TRUE

\* fault seeded in Merged: a new consent keeps the generation
MergedKeepingGeneration(rec) ==
    IF Owners(rec.subject) = {}
      THEN [rec EXCEPT !.generation = AtLeast(rec.generation, 1)]
      ELSE LET prev == records[CHOOSE w \in Owners(rec.subject) : TRUE]
           IN  [rec EXCEPT !.generation = AtLeast(rec.generation, prev.generation),
                           !.revokeEpoch = AtLeast(rec.revokeEpoch, prev.revokeEpoch)]

Merged(rec) ==
    IF Owners(rec.subject) = {}
      THEN [rec EXCEPT !.generation = AtLeast(rec.generation, 1)]
      ELSE LET prev == records[CHOOSE w \in Owners(rec.subject) : TRUE]
           IN  [rec EXCEPT
                  !.generation = IF rec.generation = 0 \/ rec.generation < prev.generation
                                   THEN prev.generation + 1 ELSE rec.generation,
                  !.revokeEpoch = AtLeast(rec.revokeEpoch, prev.revokeEpoch)]

Commit(id, rec) ==
    /\ ~ Clash(rec)
    /\ records' = SetKey(records, Winner(id, rec), Merged(rec))

(***************************************************************************)
(* Handler bookkeeping                                                     *)
(***************************************************************************)

Fault   == faults < MaxFaults /\ faults' = faults + 1
NoFault == UNCHANGED faults

Goto(o, step) == pc' = [pc EXCEPT ![o] = step] /\ UNCHANGED job

\* fault seeded in Return: a return path without its Unlock
ReturnLocked(o) ==
    /\ pc' = [pc EXCEPT ![o] = "idle"]
    /\ job' = [job EXCEPT ![o] = NoJob]
    /\ UNCHANGED lock

\* return from the handler; a handler that holds the lock releases it
Return(o) ==
    /\ pc' = [pc EXCEPT ![o] = "idle"]
    /\ job' = [job EXCEPT ![o] = NoJob]
    /\ lock' = IF lock = o THEN NoOp ELSE lock

\* fault seeded in Invalidate: the cached clients stay
InvalidateNothing(id) == UNCHANGED clients

Invalidate(id) == clients' = DropKey(clients, id)

Owned(id, p) == id \in DOMAIN records /\ records[id].principal = p
InDebt(id)   == records[id].cleanup.kind = "token_key"

Init ==
    /\ records = EmptyMap
    /\ epochs = [s \in Subjects |-> 0]
    /\ tokens = EmptyMap
    /\ sessions = EmptyMap
    /\ lock = NoOp
    /\ clients = EmptyMap
    /\ pc = [o \in Ops |-> "idle"]
    /\ job = [o \in Ops |-> NoJob]
    /\ grant = [s \in Subjects |-> 1]
    /\ consented = {}
    /\ nextAccount = 0
    /\ nextSession = 0
    /\ faults = 0

(***************************************************************************)
(* OAuth sessions: started without the lifecycle lock, taken at most once  *)
(***************************************************************************)

NewSession(sess) ==
    /\ nextSession < MaxSessions
    /\ nextSession' = nextSession + 1
    /\ sessions' = SetKey(sessions, nextSession + 1, sess)
    /\ UNCHANGED <<durable, lock, clients, pc, job, google, nextAccount, faults>>

StartConnect(p) == NewSession([principal |-> p, account |-> 0])

StartReconnect(p, id) ==
    /\ Owned(id, p)
    /\ records[id].state # "disconnecting"
    /\ NewSession([principal |-> p, account |-> id])

\* past its TTL a session is refused, and deleted, by the callback that takes it
ExpireSession(k) ==
    /\ k \in DOMAIN sessions
    /\ sessions' = DropKey(sessions, k)
    /\ UNCHANGED <<durable, lock, clients, pc, job, google, minted, faults>>

(***************************************************************************)
(* CompleteCallback                                                        *)
(***************************************************************************)

\* the session is taken and the epochs are read, both before the exchange
TakeSession(o, k) ==
    /\ pc[o] = "idle"
    /\ k \in DOMAIN sessions
    /\ sessions' = DropKey(sessions, k)
    /\ pc' = [pc EXCEPT ![o] = "exchange"]
    /\ job' = [job EXCEPT ![o] = [NoJob EXCEPT !.principal = sessions[k].principal,
                                               !.account = sessions[k].account,
                                               !.before = epochs]]
    /\ UNCHANGED <<durable, lock, clients, google, minted, faults>>

\* without forced consent (a reconnect forces it) a subject that already
\* consented may get no refresh token
IssuedTo(o, s) ==
    {[subject |-> s, grant |-> grant[s]]} \cup
        (IF s \in consented /\ job[o].account = 0 THEN {NoToken} ELSE {})

\* Google returns the consenting subject, one of its addresses and a token
Exchange(o) ==
    /\ pc[o] = "exchange"
    /\ \E s \in Subjects : \E e \in EmailsOf[s], t \in IssuedTo(o, s) :
         /\ job' = [job EXCEPT ![o].subject = s, ![o].email = e, ![o].token = t]
         /\ consented' = consented \cup {s}
    /\ pc' = [pc EXCEPT ![o] = "callback"]
    /\ UNCHANGED <<durable, sessions, lock, clients, grant, minted, faults>>

\* the record matchRecord finds for the callback, 0 when one is to be created
Matched(o) ==
    IF job[o].account # 0 THEN job[o].account
    ELSE LET mine == {id \in Owners(job[o].subject) : records[id].principal = job[o].principal}
         IN  IF mine = {} THEN 0 ELSE CHOOSE id \in mine : TRUE

\* the refresh token to store: the one exchanged, else the one on file
RefreshOf(o, id) ==
    IF job[o].token # NoToken THEN job[o].token
    ELSE LET lookup == IF id = 0 THEN job[o].email ELSE records[id].email
         IN  IF lookup \in DOMAIN tokens THEN tokens[lookup] ELSE NoToken

\* fault seeded in CallbackAccepted: the epochs are not compared
CallbackAcceptedUnfenced(o, id) ==
    /\ \/ id = 0
       \/ /\ Owned(id, job[o].principal)
          /\ records[id].subject = job[o].subject
          /\ records[id].state # "disconnecting"
    /\ RefreshOf(o, id) # NoToken

\* fault seeded in CallbackAccepted: a disconnecting row is accepted
CallbackAcceptedDisconnecting(o, id) ==
    /\ job[o].before[job[o].subject] = epochs[job[o].subject]
    /\ id = 0 \/ (Owned(id, job[o].principal) /\ records[id].subject = job[o].subject)
    /\ RefreshOf(o, id) # NoToken

CallbackAccepted(o, id) ==
    /\ job[o].before[job[o].subject] = epochs[job[o].subject]
    /\ \/ id = 0
       \/ /\ Owned(id, job[o].principal)
          /\ records[id].subject = job[o].subject
          /\ records[id].state # "disconnecting"
    /\ RefreshOf(o, id) # NoToken

\* the checks made under the lock, and the mint of an AccountID for a new record
LockCallback(o) ==
    LET id  == Matched(o)
        acc == IF id = 0 THEN nextAccount + 1 ELSE id
    IN  /\ pc[o] = "callback"
        /\ lock = NoOp
        /\ IF CallbackAccepted(o, id)
             THEN /\ acc \in AccountIds
                  /\ lock' = o
                  /\ nextAccount' = IF id = 0 THEN acc ELSE nextAccount
                  /\ job' = [job EXCEPT ![o].account = acc,
                                        ![o].token = RefreshOf(o, id),
                                        ![o].after = "commit"]
                  /\ pc' = [pc EXCEPT ![o] = IF id # 0 /\ InDebt(id)
                                               THEN "settle" ELSE "commit"]
             ELSE Return(o) /\ UNCHANGED nextAccount
        /\ UNCHANGED <<durable, sessions, clients, google, nextSession, faults>>

\* fault seeded in PendingRow: the previous address is forgotten
PendingRowWithoutDebt(o) ==
    LET id == job[o].account
    IN  IF id \in DOMAIN records
          THEN [records[id] EXCEPT !.email = job[o].email, !.state = "pending",
                                   !.generation = 0, !.cleanup = NoCleanup]
          ELSE [subject |-> job[o].subject, email |-> job[o].email,
                principal |-> job[o].principal, state |-> "pending",
                generation |-> 0, revokeEpoch |-> 0, cleanup |-> NoCleanup]

\* the row persistConnection commits: pending, under a new generation, with
\* the previous address owed to the token store when the address changed
PendingRow(o) ==
    LET id == job[o].account
        e  == job[o].email
    IN  IF id \in DOMAIN records
          THEN [records[id] EXCEPT
                  !.email = e, !.state = "pending", !.generation = 0,
                  !.cleanup = IF records[id].email # e THEN TokenKey(records[id].email)
                                                       ELSE NoCleanup]
          ELSE [subject |-> job[o].subject, email |-> e, principal |-> job[o].principal,
                state |-> "pending", generation |-> 0, revokeEpoch |-> 0,
                cleanup |-> NoCleanup]

\* a row that clashes with another account, or a failed write, ends the callback
CommitPending(o) ==
    LET rec == PendingRow(o) IN
    /\ pc[o] = "commit"
    /\ Invalidate(job[o].account)
    /\ \/ /\ Commit(job[o].account, rec)
          /\ Goto(o, "put") /\ NoFault
          /\ UNCHANGED lock
       \/ /\ IF Clash(rec) THEN NoFault ELSE Fault
          /\ Return(o)
          /\ UNCHANGED records
    /\ UNCHANGED <<epochs, tokens, sessions, google, minted>>

\* a store that reports an error may have written the token all the same
PutToken(o) ==
    LET id      == job[o].account
        written == SetKey(tokens, records[id].email, job[o].token)
    IN  /\ pc[o] = "put"
        /\ \/ /\ tokens' = written
              /\ Goto(o, "activate") /\ NoFault
              /\ UNCHANGED <<lock, clients>>
           \/ /\ tokens' \in {tokens, written}
              /\ Fault
              /\ Invalidate(id)
              /\ Return(o)
        /\ UNCHANGED <<records, epochs, sessions, google, minted>>

Activate(o) ==
    LET id  == job[o].account
        rec == [records[id] EXCEPT !.state = "active"]
    IN  /\ pc[o] = "activate"
        /\ \/ /\ Commit(id, rec) /\ NoFault
              /\ pc' = [pc EXCEPT ![o] = IF InDebt(id) THEN "settle" ELSE "finish"]
              /\ job' = [job EXCEPT ![o].after = "finish"]
              /\ UNCHANGED lock
           \/ Fault /\ Return(o) /\ UNCHANGED records
        /\ UNCHANGED <<epochs, tokens, sessions, clients, google, minted>>

FinishCallback(o) ==
    /\ pc[o] = "finish"
    /\ Invalidate(job[o].account)
    /\ Return(o)
    /\ UNCHANGED <<durable, sessions, google, minted, faults>>

(***************************************************************************)
(* settleTokenCleanup: delete the token under the owed address, then clear *)
(* the debt.  A failure leaves the debt on the record: it ends a callback  *)
(* before its commit and a disconnect, and is only reported otherwise.     *)
(***************************************************************************)

StillPending(o) ==
    IF job[o].after \in {"finish", "list"}
      THEN Goto(o, job[o].after) /\ UNCHANGED lock
      ELSE Return(o)

SettleDelete(o) ==
    LET gone == DropKey(tokens, records[job[o].account].cleanup.email) IN
    /\ pc[o] = "settle"
    /\ \/ tokens' = gone /\ Goto(o, "settled") /\ NoFault /\ UNCHANGED lock
       \/ tokens' \in {tokens, gone} /\ Fault /\ StillPending(o)
    /\ UNCHANGED <<records, epochs, sessions, clients, google, minted>>

SettleCommit(o) ==
    LET id == job[o].account IN
    /\ pc[o] = "settled"
    /\ \/ /\ Commit(id, [records[id] EXCEPT !.cleanup = NoCleanup])
          /\ Goto(o, job[o].after) /\ NoFault
          /\ UNCHANGED lock
       \/ Fault /\ StillPending(o) /\ UNCHANGED records
    /\ UNCHANGED <<epochs, tokens, sessions, clients, google, minted>>

(***************************************************************************)
(* ListAccounts settles the debts of the caller's records                  *)
(***************************************************************************)

ListAccounts(o, p) ==
    /\ pc[o] = "idle"
    /\ lock = NoOp
    /\ LET debts == {id \in DOMAIN records : Owned(id, p) /\ InDebt(id)} IN
       IF debts = {}
         THEN UNCHANGED <<lock, pc, job>>
         ELSE /\ lock' = o
              /\ pc' = [pc EXCEPT ![o] = "list"]
              /\ job' = [job EXCEPT ![o] = [NoJob EXCEPT !.principal = p,
                                              !.after = "list", !.todo = debts]]
    /\ UNCHANGED <<durable, sessions, clients, google, minted, faults>>

ListNext(o) ==
    /\ pc[o] = "list"
    /\ \/ /\ job[o].todo = {}
          /\ Return(o)
       \/ \E id \in job[o].todo :
            /\ job' = [job EXCEPT ![o].account = id, ![o].todo = @ \ {id}]
            /\ pc' = [pc EXCEPT ![o] = "settle"]
            /\ UNCHANGED lock
    /\ UNCHANGED <<durable, sessions, clients, google, minted, faults>>

(***************************************************************************)
(* Disconnect: fence the account under the lock, revoke at Google without  *)
(* it, then delete the token and the record under the lock again.          *)
(***************************************************************************)

LocalStage(rec) == rec.state = "disconnecting" /\ rec.cleanup.stage = "local"

\* fault seeded in PlanOf: a token that cannot be read counts as missing
PlanOfUnreadAsMissing(rec, readFailed) ==
    IF LocalStage(rec) \/ readFailed \/ rec.email \notin DOMAIN tokens
      THEN "relock" ELSE "revoke"

\* fault seeded in PlanOf: a missing token counts as a failed read
PlanOfMissingAsUnread(rec, readFailed) ==
    IF readFailed \/ rec.email \notin DOMAIN tokens THEN "idle" ELSE "revoke"

\* what follows the first critical section
PlanOf(rec, readFailed) ==
    CASE LocalStage(rec)                -> "relock"
      [] ~ LocalStage(rec) /\ readFailed -> "idle"
      [] OTHER -> IF rec.email \in DOMAIN tokens THEN "revoke" ELSE "relock"

\* leave the first critical section: evict the clients, unlock, follow the plan
Fenced(o, id, plan) ==
    /\ Invalidate(id)
    /\ lock' = NoOp
    /\ pc' = [pc EXCEPT ![o] = plan]

Disconnect(o, p, id) ==
    /\ pc[o] = "idle"
    /\ lock = NoOp
    /\ Owned(id, p)
    /\ \E readFailed \in BOOLEAN :
         LET rec  == records[id]
             plan == PlanOf(rec, readFailed)
             mine == [NoJob EXCEPT !.principal = p, !.account = id, !.plan = plan,
                        !.after = "bump",
                        !.token = IF rec.email \in DOMAIN tokens /\ ~ readFailed
                                    THEN tokens[rec.email] ELSE NoToken]
         IN  /\ IF readFailed THEN Fault ELSE NoFault
             /\ IF rec.state = "disconnecting"
                  THEN /\ Fenced(o, id, plan)
                       /\ job' = [job EXCEPT ![o] = IF plan = "idle" THEN NoJob ELSE mine]
                  ELSE /\ lock' = o
                       /\ pc' = [pc EXCEPT ![o] = IF InDebt(id) THEN "settle" ELSE "bump"]
                       /\ job' = [job EXCEPT ![o] = mine]
                       /\ UNCHANGED clients
    /\ UNCHANGED <<durable, sessions, google, minted>>

\* fault seeded in BumpEpoch: the roll-back of a failed save is applied
BumpEpochRolledBack(s) == epochs' = [epochs EXCEPT ![s] = @ - 1]

BumpEpoch(s) == epochs' = [epochs EXCEPT ![s] = @ + 1]

BumpOnStart(o) ==
    /\ pc[o] = "bump"
    /\ \/ /\ BumpEpoch(records[job[o].account].subject)
          /\ Goto(o, "mark") /\ NoFault
          /\ UNCHANGED lock
       \/ Fault /\ Return(o) /\ UNCHANGED epochs
    /\ UNCHANGED <<records, tokens, sessions, clients, google, minted>>

\* the commit and the eviction are one step: clients are made and looked at under the
\* lock only, and what is served in between is a matter of ClientProvider
MarkDisconnecting(o) ==
    LET id   == job[o].account
        rec  == records[id]
        plan == job[o].plan
    IN  /\ pc[o] = "mark"
        /\ \/ /\ Commit(id, [rec EXCEPT !.state = "disconnecting", !.generation = 0,
                               !.revokeEpoch = epochs[rec.subject],
                               !.cleanup = RevokeOf(rec.email, "")])
              /\ Fenced(o, id, plan)
              /\ job' = [job EXCEPT ![o] = IF plan = "idle" THEN NoJob ELSE @]
              /\ NoFault
           \/ Fault /\ Return(o) /\ UNCHANGED <<records, clients>>
        /\ UNCHANGED <<epochs, tokens, sessions, google, minted>>

\* revoking a live token ends the whole grant of its subject
Kill(t) ==
    /\ grant' = [grant EXCEPT ![t.subject] = IF Live(t) THEN @ + 1 ELSE @]
    /\ consented' = IF Live(t) THEN consented \ {t.subject} ELSE consented

\* Google's answer may be lost after it acted; a dead token is refused
\* unless Google treats the revoke as idempotent
Revoke(o) ==
    LET t == job[o].token IN
    /\ pc[o] = "revoke"
    /\ \/ /\ Live(t) \/ RevokeIsIdempotent
          /\ Kill(t) /\ NoFault
          /\ Goto(o, "relock")
          /\ UNCHANGED lock
       \/ /\ Kill(t) \/ UNCHANGED google
          /\ Fault /\ Return(o)
       \/ /\ ~ Live(t) /\ ~ RevokeIsIdempotent
          /\ Return(o)
          /\ NoFault /\ UNCHANGED google
    /\ UNCHANGED <<durable, sessions, clients, minted>>

\* a record that another disconnect already removed ends this one
Relock(o) ==
    LET id == job[o].account IN
    /\ pc[o] = "relock"
    /\ lock = NoOp
    /\ IF id \in DOMAIN records /\ records[id].state = "disconnecting"
         THEN lock' = o /\ Goto(o, "stage")
         ELSE Return(o)
    /\ UNCHANGED <<durable, sessions, clients, google, minted, faults>>

RecordLocalStage(o) ==
    LET id == job[o].account IN
    /\ pc[o] = "stage"
    /\ \/ /\ Commit(id, [records[id] EXCEPT !.cleanup = RevokeOf(records[id].email, "local")])
          /\ Goto(o, "complete") /\ NoFault
          /\ UNCHANGED lock
       \/ Fault /\ Return(o) /\ UNCHANGED records
    /\ UNCHANGED <<epochs, tokens, sessions, clients, google, minted>>

BumpOnComplete(o) ==
    /\ pc[o] = "complete"
    /\ \/ /\ BumpEpoch(records[job[o].account].subject)
          /\ Goto(o, "delete_token") /\ NoFault
          /\ UNCHANGED lock
       \/ Fault /\ Return(o) /\ UNCHANGED epochs
    /\ UNCHANGED <<records, tokens, sessions, clients, google, minted>>

DeleteToken(o) ==
    LET gone == DropKey(tokens, records[job[o].account].email) IN
    /\ pc[o] = "delete_token"
    /\ \/ tokens' = gone /\ Goto(o, "delete_record") /\ NoFault /\ UNCHANGED lock
       \/ tokens' \in {tokens, gone} /\ Fault /\ Return(o)
    /\ UNCHANGED <<records, epochs, sessions, clients, google, minted>>

DeleteRecord(o) ==
    /\ pc[o] = "delete_record"
    /\ \/ records' = DropKey(records, job[o].account) /\ NoFault
       \/ UNCHANGED records /\ Fault
    /\ Return(o)
    /\ UNCHANGED <<epochs, tokens, sessions, clients, google, minted>>

(***************************************************************************)
(* The environment of the handlers                                         *)
(***************************************************************************)

\* a request deadline or a failed read ends a handler that holds no lock
GiveUp(o) ==
    /\ pc[o] \in {"exchange", "callback", "relock"}
    /\ Fault /\ Return(o)
    /\ UNCHANGED <<durable, sessions, clients, google, minted>>

\* NativeProvider.HTTPClient: under the lock, cache a client for a live record
UseClient(id) ==
    /\ lock = NoOp
    /\ id \in DOMAIN records \ DOMAIN clients
    /\ records[id].state = "active"
    /\ records[id].email \in DOMAIN tokens
    /\ clients' = SetKey(clients, id, [generation |-> records[id].generation,
                                       token |-> tokens[records[id].email]])
    /\ UNCHANGED <<durable, sessions, lock, pc, job, google, minted, faults>>

\* the process stops: the registry and token files survive, nothing else does
Restart ==
    /\ Fault
    /\ sessions' = EmptyMap
    /\ lock' = NoOp
    /\ clients' = EmptyMap
    /\ pc' = [o \in Ops |-> "idle"]
    /\ job' = [o \in Ops |-> NoJob]
    /\ UNCHANGED <<durable, google, minted>>

CallbackStep(o) ==
    \/ Exchange(o) \/ LockCallback(o) \/ CommitPending(o) \/ PutToken(o)
    \/ Activate(o) \/ FinishCallback(o)

SettleStep(o) == SettleDelete(o) \/ SettleCommit(o) \/ ListNext(o)

DisconnectStep(o) ==
    \/ BumpOnStart(o) \/ MarkDisconnecting(o) \/ Revoke(o) \/ Relock(o)
    \/ RecordLocalStage(o) \/ BumpOnComplete(o) \/ DeleteToken(o) \/ DeleteRecord(o)

Step(o) == CallbackStep(o) \/ SettleStep(o) \/ DisconnectStep(o)

Next ==
    \/ \E p \in Principals : StartConnect(p) \/ \E id \in AccountIds : StartReconnect(p, id)
    \/ \E k \in 1 .. MaxSessions : ExpireSession(k)
    \/ \E o \in Ops :
         \/ Step(o) \/ GiveUp(o)
         \/ \E k \in 1 .. MaxSessions : TakeSession(o, k)
         \/ \E p \in Principals :
              ListAccounts(o, p) \/ \E id \in AccountIds : Disconnect(o, p, id)
    \/ \E id \in AccountIds : UseClient(id)
    \/ Restart

Spec == Init /\ [][Next]_vars

-----------------------------------------------------------------------------
(***************************************************************************)
(* Fairness.  A handler is a goroutine: once it runs it takes its next     *)
(* step, and every wait it makes is bounded by a deadline.  Retrying a     *)
(* disconnect is the owner's doing; OwnerRetries assumes that an owner who *)
(* is told to retry does so for as long as the account is still there.     *)
(***************************************************************************)

Fairness == \A o \in Ops : WF_vars(Step(o))

OwnerRetries ==
    \A id \in AccountIds :
        SF_vars(/\ id \in DOMAIN records /\ records[id].state = "disconnecting"
                /\ \E o \in Ops, p \in Principals : Disconnect(o, p, id))

FairSpec  == Spec /\ Fairness
RetrySpec == FairSpec /\ OwnerRetries

(***************************************************************************)
(* Properties                                                              *)
(***************************************************************************)

\* One connection per subject and per address: two callbacks for the same
\* subject, or two subjects at one address, never leave two rows behind
\* (commitRecords under the lifecycle lock).
OneConnectionPerIdentity ==
    \A a, b \in DOMAIN records :
        records[a].subject = records[b].subject \/ records[a].email = records[b].email => a = b

\* An active connection can serve calls: the store holds a refresh token for
\* its address, issued to its own subject, and no disconnect has revoked the
\* grant of that token, whatever callbacks and disconnects overlapped.
ActiveConnectionUsable ==
    \A id \in DOMAIN records :
        records[id].state = "active" =>
            /\ records[id].email \in DOMAIN tokens
            /\ tokens[records[id].email].subject = records[id].subject
            /\ Live(tokens[records[id].email])

\* Every stored refresh token is still reachable from the registry, as the
\* address of a row or as the address its cleanup debt names, so that a
\* disconnect or a listing can delete it; failed writes and restarts included.
NoStrandedToken ==
    \A e \in DOMAIN tokens :
        \E id \in DOMAIN records : records[id].email = e \/
            (InDebt(id) /\ records[id].cleanup.email = e)

\* Outside the critical section a cached client always belongs to an active
\* row of the same generation and holds the token now in the store: every
\* write that changes either also evicts the client (InvalidateAccount).
CachedClientsCurrent ==
    lock = NoOp =>
        \A id \in DOMAIN clients :
            /\ id \in DOMAIN records
            /\ records[id].state = "active"
            /\ records[id].generation = clients[id].generation
            /\ records[id].email \in DOMAIN tokens
            /\ tokens[records[id].email] = clients[id].token

\* A disconnect that reports "retry" has kept the token its retry needs: the
\* token of a disconnecting account stays stored while it is live at Google.
RetryTokenKept ==
    [][\A id \in DOMAIN records :
          /\ records[id].state = "disconnecting"
          /\ records[id].email \in DOMAIN tokens
          /\ Live(tokens[records[id].email])
          => /\ records[id].email \in DOMAIN tokens'
             /\ tokens'[records[id].email] = tokens[records[id].email]]_vars

\* "Other connected Google accounts were not changed": no step of a handler
\* deletes the stored token of an active account whose own row it leaves alone.
OtherAccountsUnchanged ==
    [][\A id \in DOMAIN records :
          /\ records[id].state = "active"
          /\ id \in DOMAIN records' /\ records'[id] = records[id]
          /\ records[id].email \in DOMAIN tokens
          => records[id].email \in DOMAIN tokens']_vars

\* A callback "binds the connection to the verified Google subject": the token
\* an active connection would use was issued to the subject of its row.
BoundToVerifiedSubject ==
    \A id \in DOMAIN records :
        records[id].state = "active" /\ records[id].email \in DOMAIN tokens
            => tokens[records[id].email].subject = records[id].subject

\* Every return path of every handler releases the lifecycle lock.
LockReleased == lock # NoOp ~> lock = NoOp

\* An owner who keeps retrying a disconnect that failed gets the account
\* removed in the end (the answers of Disconnect are marked retryable).
RetriedDisconnectCompletes ==
    \A id \in AccountIds :
        (id \in DOMAIN records /\ records[id].state = "disconnecting")
            ~> id \notin DOMAIN records

-----------------------------------------------------------------------------
(***************************************************************************)
(* The inductive invariant behind TypeOK, LockDiscipline and               *)
(* OneConnectionPerIdentity: what a handler knows at each of its steps.    *)
(***************************************************************************)

\* the steps made inside a critical section, and those that work on one row
Holding == PCs \ {"idle", "exchange", "callback", "revoke", "relock"}
OnRow   == Holding \ {"commit", "list"}

AwaitsCommit(o) ==
    pc[o] = "commit" \/ (pc[o] \in {"settle", "settled"} /\ job[o].after = "commit")

\* A handler is inside a critical section exactly while it holds the lock:
\* no return path leaks it, no step runs on without it (Lifecycle.Lock/Unlock).
LockDiscipline == \A o \in Ops : pc[o] \in Holding <=> lock = o

IdsMinted == DOMAIN records \subseteq 1 .. nextAccount

Lists(o) ==
    pc[o] = "list" \/ (pc[o] \in {"settle", "settled"} /\ job[o].after = "list")

\* the rows a handler under the lock works on exist until it deletes them
RowsHeld(o) ==
    /\ pc[o] \in OnRow => job[o].account \in DOMAIN records
    /\ Lists(o) => job[o].todo \subseteq DOMAIN records

\* what a handler has learnt by the step it stands at
Learnt(o) ==
    /\ pc[o] \in {"exchange", "callback"} \/ AwaitsCommit(o) => job[o].principal \in Principals
    /\ pc[o] = "callback" \/ AwaitsCommit(o)
         => job[o].subject \in Subjects /\ job[o].email \in Emails
    /\ pc[o] = "put" \/ AwaitsCommit(o) => job[o].token \in Token
    /\ pc[o] \in {"settle", "settled"} => job[o].after # "idle"
    /\ pc[o] = "list" => job[o].after = "list"

\* a callback about to commit reuses the row of its subject, or creates the
\* first row its principal has for that subject
CommitTarget(o) ==
    AwaitsCommit(o) =>
        \/ /\ job[o].account \in DOMAIN records
           /\ records[job[o].account].subject = job[o].subject
        \/ /\ job[o].account \in (1 .. nextAccount) \ DOMAIN records
           /\ \A id \in Owners(job[o].subject) : records[id].principal # job[o].principal

HandlerKnows(o) ==
    /\ pc[o] \in Holding <=> lock = o
    /\ RowsHeld(o)
    /\ Learnt(o)
    /\ CommitTarget(o)

IInv ==
    /\ TypeOK
    /\ OneConnectionPerIdentity
    /\ IdsMinted
    /\ \A o \in Ops : HandlerKnows(o)
=============================================================================
