------------------------------- MODULE Runtime -------------------------------
(***************************************************************************)
(* internal/mcpserver's Runtime: one per caller, over a shared registry    *)
(* and a shared media store.  A runtime advertises tools, which it         *)
(* recomputes under toolsMu when its access snapshot is reloaded or the    *)
(* connections change, and answers calls, each of which reads the snapshot *)
(* and the registry at moments of its own.  Slots, deadlines, budgets and  *)
(* what a call does at Google are CallPath's subject.                      *)
(***************************************************************************)
EXTENDS AccessControl, MediaArtifacts

CONSTANTS
    Configs,       \* [compact, writes, http]: discovery mode, --enable-writes, transport
    Principals,    \* the principals of the runtimes
    Accounts,      \* account IDs
    Identities,    \* the active rows an account may have: [Accounts -> SUBSET identities]
    Snapshots,     \* the snapshots configuration files may hold
    Callers,       \* calls in flight
    RuntimeOps,    \* cfg.Operations: the names of the native operations, in order
    MediaOps,      \* those whose result is kept in the media store
    URIs,          \* media references
    Sizes,         \* sizes of media
    NoURI, NoIdentity,
    MaxDisturbances, MaxClock

ASSUME RuntimeAssumption == RuntimeOps \in Seq(OpNames) /\ Sizes \subseteq Nat

VARIABLES
    config,     \* how the process was started
    registry,   \* the active rows, by account
    snapshot,   \* the snapshot the authorizer of each runtime holds
    tools,      \* the names registered with the MCP server
    sync,       \* who holds toolsMu, and how far it has got
    due,        \* ConnectionsChanged calls not carried out yet
    syncFailed, \* whether the last synchronisation that ended failed
    calls,
    media,
    clock,
    left        \* the changes, reloads and read errors still to come

runtimeVars == <<config, registry, snapshot, tools, sync, due, syncFailed, calls, media, clock,
                 left>>

------------------------------------------------------------------------------
(* Helpers.                                                                 *)

CompactTools == {"capabilities_search", "capabilities_describe", "capabilities_execute"}

Write(op) == ~Definition[op].readOnly

\* operationDiscoverable
Discoverable(s, reg, p, op) ==
    /\ ~Definition[op].local
    /\ config.writes \/ ~Write(op)
    /\ Visible(s, reg, p, op)

\* what collectWanted asks about one name
WantedTool(s, reg, p, name) ==
    IF name = "accounts_list" THEN Visible(s, reg, p, name) ELSE Discoverable(s, reg, p, name)

ToolsToCheck == <<"accounts_list">> \o (IF config.compact THEN <<>> ELSE RuntimeOps)
AlwaysWanted == IF config.compact THEN CompactTools ELSE {}

Wanted(s, reg, p) == {t \in ToSet(ToolsToCheck) : WantedTool(s, reg, p, t)} \cup AlwaysWanted

\* the operations a capability may stand for
Offered == {op \in ToSet(RuntimeOps) : config.writes \/ ~Write(op)}

\* the runtimes that exist: one over stdio, one per caller over HTTP
Serving == IF config.http THEN Principals ELSE {CHOOSE p \in Principals : TRUE}

Idle == [by |-> "nobody"]
NoCall == [pc |-> "idle"]


------------------------------------------------------------------------------
(* Start: New reads the configuration and synchronises the tools.           *)

RuntimeInit ==
    /\ config \in Configs
    /\ \E on \in SUBSET Accounts : registry \in {r \in [on -> UNION {Identities[a] : a \in Accounts}] :
                                                    \A a \in on : r[a] \in Identities[a]}
    /\ snapshot \in [Serving -> {s \in Snapshots : ValidSnapshot(s)}]
    /\ tools = [p \in Serving |-> Wanted(snapshot[p], registry, p)]
    /\ sync = [p \in Serving |-> Idle]
    /\ due = [p \in Serving |-> 0]
    /\ syncFailed = [p \in Serving |-> FALSE]
    /\ calls = [c \in Callers |-> NoCall]
    /\ media = EmptyStore
    /\ clock = 0
    /\ left = MaxDisturbances

------------------------------------------------------------------------------
(* The account connection controller changes the active rows, then calls    *)
(* ConnectionsChanged, which resynchronises every runtime.                  *)

\* what the calls in flight may have seen: every snapshot and registry since they started
Witnessed(s, reg) ==
    calls' = [c \in Callers |->
        IF calls[c].pc \in {"idle", "answered"} THEN calls[c]
        ELSE [calls[c] EXCEPT !.seenSnapshots = @ \cup {s[calls[c].principal]},
                              !.seenRegistries = @ \cup {reg}]]

ConnectionsChange(a) ==
    /\ left > 0
    /\ \/ a \in DOMAIN registry /\ registry' = DropKey(registry, a)
       \/ \E id \in Identities[a] : registry' = SetKey(registry, a, id) /\ registry' # registry
    /\ due' = [p \in Serving |-> due[p] + 1]
    /\ left' = left - 1
    /\ Witnessed(snapshot, registry')
    /\ UNCHANGED <<config, snapshot, tools, sync, syncFailed, media, clock>>

------------------------------------------------------------------------------
(* toolsMu: ReloadAccess and ResyncTools.  The registry is read once for    *)
(* every operation, and may change in between.                              *)

Locked(p, by, s) ==
    /\ sync[p] = Idle
    /\ sync' = [sync EXCEPT ![p] = [by |-> by, using |-> s, todo |-> ToolsToCheck,
                                    wanted |-> AlwaysWanted]]

ResyncTools(p) ==
    /\ due[p] > 0
    /\ Locked(p, "resync", snapshot[p])
    /\ due' = [due EXCEPT ![p] = @ - 1]
    /\ UNCHANGED <<config, registry, snapshot, tools, syncFailed, calls, media, clock, left>>

\* SIGHUP: only over stdio; a snapshot that does not validate is refused by Preview
ReloadAccess(p) ==
    /\ ~config.http
    /\ left > 0
    /\ left' = left - 1
    /\ \E s \in Snapshots : IF ValidSnapshot(s) THEN Locked(p, "reload", s)
                            ELSE sync[p] = Idle /\ UNCHANGED sync
    /\ UNCHANGED <<config, registry, snapshot, tools, due, syncFailed, calls, media, clock>>

\* fault seeded in CollectWanted: the candidate is judged by the snapshot in force
CollectByCurrent(p) ==
    LET t == Head(sync[p].todo)
    IN  /\ sync' = [sync EXCEPT ![p].todo = Tail(@),
                                ![p].wanted = IF WantedTool(snapshot[p], registry, p, t)
                                              THEN @ \cup {t} ELSE @]
        /\ UNCHANGED <<syncFailed, left>>

CollectWanted(p) ==
    LET t == Head(sync[p].todo)
    IN  /\ sync' = [sync EXCEPT ![p].todo = Tail(@),
                                ![p].wanted = IF WantedTool(sync[p].using, registry, p, t)
                                              THEN @ \cup {t} ELSE @]
        /\ UNCHANGED <<syncFailed, left>>

\* the registry file cannot be read: everything stays as it was
CollectFails(p) ==
    /\ left > 0
    /\ left' = left - 1
    /\ sync' = [sync EXCEPT ![p] = Idle]
    /\ syncFailed' = [syncFailed EXCEPT ![p] = TRUE]

Collect(p) ==
    /\ sync[p] # Idle /\ sync[p].todo # <<>>
    /\ CollectWanted(p) \/ CollectFails(p)
    /\ UNCHANGED <<config, registry, snapshot, tools, due, calls, media, clock>>

\* Replace, then applyWanted, then unlock
ApplyWanted(p) ==
    /\ sync[p] # Idle /\ sync[p].todo = <<>>
    /\ snapshot' = [snapshot EXCEPT ![p] = sync[p].using]
    /\ tools' = [tools EXCEPT ![p] = sync[p].wanted]
    /\ sync' = [sync EXCEPT ![p] = Idle]
    /\ syncFailed' = [syncFailed EXCEPT ![p] = FALSE]
    /\ Witnessed(snapshot', registry)
    /\ UNCHANGED <<config, registry, due, media, clock, left>>

------------------------------------------------------------------------------
(* Calls.                                                                   *)

Base(kind, p, pc) ==
    [pc |-> pc, kind |-> kind, principal |-> p, op |-> Unset, account |-> Unset, actions |-> {},
     using |-> snapshot[p], id |-> NoIdentity, uri |-> NoURI, origin |-> NoIdentity,
     todo |-> <<>>, found |-> {},
     seenSnapshots |-> {snapshot[p]}, seenRegistries |-> {registry}]

Step(c, call) ==
    /\ calls' = [calls EXCEPT ![c] = call]
    /\ UNCHANGED <<config, registry, snapshot, tools, sync, due, syncFailed, clock>>

Answer(c, how) ==
    LET k == calls[c]
    IN  Step(c, [pc |-> "answered", kind |-> k.kind, principal |-> k.principal, id |-> k.id,
                 origin |-> k.origin, answer |-> how])

Forget(c) == /\ calls[c].pc = "answered"
             /\ Step(c, NoCall)
             /\ UNCHANGED <<media, left>>

\* handlerFor, directly or through capabilities_execute, as far as the decoder
CallTool(c, p, op, account) ==
    /\ calls[c] = NoCall
    /\ op \in ToSet(RuntimeOps)
    /\ \E actions \in Projections(op) \cup {Definition[op].actions} :
           Step(c, [Base("tool", p, "authorizing") EXCEPT !.op = op, !.account = account,
                                                          !.actions = actions])
    /\ config.writes \/ ~Write(op)
    /\ UNCHANGED <<media, left>>

\* a resource read: the binding tells what to authorise
ReadResource(c, p, uri) ==
    /\ calls[c] = NoCall
    /\ media' = Expire(media, clock)
    /\ uri \in DOMAIN media'.entries
    /\ LET e == media.entries[uri]
       IN  Step(c, [Base("media", p, "authorizing") EXCEPT !.op = e.op, !.account = e.id.account,
                        !.actions = Definition[e.op].actions, !.uri = uri, !.origin = e.id])
    /\ UNCHANGED left

ListCall(c, p) ==
    /\ calls[c] = NoCall
    /\ Step(c, Base("accounts", p, "authorizing"))
    /\ UNCHANGED <<media, left>>

\* capabilities_search asks for the visibility of every operation, in order
SearchCall(c, p) ==
    /\ calls[c] = NoCall /\ config.compact
    /\ Step(c, [Base("discover", p, "discovering") EXCEPT !.todo = RuntimeOps])
    /\ UNCHANGED <<media, left>>

\* capabilities_describe asks for that of the one it names
DescribeCall(c, p, op) ==
    /\ calls[c] = NoCall /\ config.compact
    /\ Step(c, [Base("discover", p, "discovering") EXCEPT !.todo = <<op>>])
    /\ UNCHANGED <<media, left>>

\* Authorize and ListAccounts load the snapshot, then read the registry
Load(c) ==
    /\ calls[c].pc = "authorizing"
    /\ Step(c, [calls[c] EXCEPT !.pc = "deciding", !.using = snapshot[calls[c].principal]])
    /\ UNCHANGED <<media, left>>

\* fault seeded in Refusal: an advertised tool is not authorised again
RefusalByTools(k) ==
    IF k.op \in tools[k.principal] /\ k.account \in DOMAIN registry THEN NoRefusal ELSE "forbidden_operation"

Refusal(k) == Authorize(k.using, registry, k.principal, k.account, k.op, k.actions)

Decide(c) ==
    LET k == calls[c]
    IN  /\ k.pc = "deciding"
        /\ IF k.kind = "accounts"
           THEN IF ListsAccounts(k.using, k.principal)
                THEN Step(c, [k EXCEPT !.pc = "listing",
                         !.todo = SetToSeq({id.account :
                             id \in ListAccounts(k.using, registry, k.principal)} \X Offered)])
                ELSE Answer(c, "forbidden_operation")
           ELSE IF Refusal(k) # NoRefusal THEN Answer(c, Refusal(k))
           ELSE Step(c, [k EXCEPT !.pc = "running", !.id = registry[k.account]])
        /\ UNCHANGED <<media, left>>

ReadError(c) ==
    /\ calls[c].pc \in {"deciding", "discovering", "listing"}
    /\ left > 0
    /\ left' = left - 1
    /\ Answer(c, "upstream_failure")
    /\ UNCHANGED media

\* accountCapabilities: every listed account and operation is decided afresh
DescribeAccount(c) ==
    LET k == calls[c]
    IN  /\ k.pc = "listing"
        /\ IF k.todo = <<>> THEN Answer(c, NoRefusal)
           ELSE LET ask == Head(k.todo)
                IN  Step(c, [k EXCEPT !.todo = Tail(@),
                                      !.found = IF UsableBy(snapshot[k.principal], registry,
                                                            k.principal, ask[1], ask[2])
                                                THEN @ \cup {ask} ELSE @])
        /\ UNCHANGED <<media, left>>

DiscoverOne(c) ==
    LET k == calls[c]
    IN  /\ k.pc = "discovering"
        /\ IF k.todo = <<>> THEN Answer(c, IF k.found = {} THEN "not_found" ELSE NoRefusal)
           ELSE LET op == Head(k.todo)
                IN  Step(c, [k EXCEPT !.todo = Tail(@),
                                      !.found = IF Discoverable(snapshot[k.principal], registry,
                                                                k.principal, op)
                                                THEN @ \cup {op} ELSE @])
        /\ UNCHANGED <<media, left>>

\* Run: the operation works for the identity it was given; a media operation
\* keeps what it read, a resource read fetches it
FinishTool(c) ==
    LET k == calls[c]
    IN  /\ k.pc = "running" /\ k.kind = "tool"
        /\ IF k.op \in MediaOps
           THEN \E u \in URIs \ media.issued, size \in Sizes :
                    LET put == Put(media, clock, u, k.id, k.op, ~Write(k.op), size)
                    IN  /\ media' = put.store
                        /\ Answer(c, IF put.ok THEN NoRefusal ELSE "budget_exhausted")
           ELSE Answer(c, NoRefusal) /\ UNCHANGED media
        /\ UNCHANGED left

FinishRead(c) ==
    LET k == calls[c]
    IN  /\ k.pc = "running" /\ k.kind = "media"
        /\ media' = Expire(media, clock)
        /\ Answer(c, IF Readable(media, clock, k.uri, k.id) THEN NoRefusal ELSE "not_found")
        /\ UNCHANGED left

------------------------------------------------------------------------------
(* Time and shutdown.                                                       *)

Tick ==
    /\ clock < MaxClock /\ DOMAIN media.entries # {}   \* time matters to media only
    /\ clock' = clock + 1
    /\ UNCHANGED <<config, registry, snapshot, tools, sync, due, syncFailed, calls, media, left>>

\* the timer of an entry fires at or after its expiry
TimerFires(u) ==
    /\ u \in DOMAIN media.entries /\ clock >= media.entries[u].expires
    /\ media' = DropArtifact(media, u)
    /\ UNCHANGED <<config, registry, snapshot, tools, sync, due, syncFailed, calls, clock, left>>

Shutdown ==
    /\ ~media.closed /\ clock = MaxClock
    /\ media' = Close(media)
    /\ UNCHANGED <<config, registry, snapshot, tools, sync, due, syncFailed, calls, clock, left>>

RuntimeNext ==
    \/ \E a \in Accounts : ConnectionsChange(a)
    \/ \E p \in Serving : ResyncTools(p) \/ ReloadAccess(p) \/ Collect(p) \/ ApplyWanted(p)
    \/ \E c \in Callers, p \in Serving :
          \/ \E op \in ToSet(RuntimeOps), a \in Accounts : CallTool(c, p, op, a)
          \/ \E u \in URIs : ReadResource(c, p, u)
          \/ ListCall(c, p) \/ SearchCall(c, p)
          \/ \E op \in ToSet(RuntimeOps) : DescribeCall(c, p, op)
    \/ \E c \in Callers : \/ Load(c) \/ Decide(c) \/ ReadError(c) \/ DescribeAccount(c)
                          \/ DiscoverOne(c) \/ FinishTool(c) \/ FinishRead(c) \/ Forget(c)
    \/ Tick \/ (\E u \in URIs : TimerFires(u)) \/ Shutdown

------------------------------------------------------------------------------
(* Properties.                                                              *)

\* When no synchronisation is running or due, and the last one did not fail to
\* read the registry, the advertised tools are exactly those the snapshot in
\* force and the registry call for, however reloads, connections and the reads
\* in between were interleaved (Runtime.ReloadAccess, ResyncTools).
ToolsFollowAccess ==
    \A p \in Serving : (sync[p] = Idle /\ due[p] = 0 /\ ~syncFailed[p])
        => tools[p] = Wanted(snapshot[p], registry, p)

\* A call runs only if a snapshot and a registry that were both in force at some
\* time since it started let it, and an account is shown with a capability only if
\* they did: what was revoked before a call began, and stays revoked, has no part
\* in it, whatever reloads and reconnects happen beside it.
CallsDecidedFresh ==
    \A c \in Callers : LET k == calls[c] IN
        /\ (k.pc = "running") => \E s \in k.seenSnapshots, r \in k.seenRegistries :
              /\ Authorize(s, r, k.principal, k.account, k.op, k.actions) = NoRefusal
              /\ k.id = r[k.account]
        /\ (k.pc = "listing") => \A f \in k.found :
              \E s \in k.seenSnapshots, r \in k.seenRegistries :
                  UsableBy(s, r, k.principal, f[1], f[2])

\* Media is served only under the very identity it was read with, as that
\* identity was authorised again: not after a reconnect, with other scopes or to
\* another owner; and the store's count of bytes always agrees with its entries.
MediaHeld ==
    /\ Accounted(media)
    /\ \A c \in Callers : LET k == calls[c] IN
          (k.pc = "answered" /\ k.kind = "media" /\ k.answer = NoRefusal)
             => k.origin = k.id /\ k.origin.principal = k.principal
=============================================================================
