# gog-mcp: models, checks and proofs

`gog-mcp` is an MCP server that lets an agent use Google Workspace through the
Google accounts its owner has connected. This directory holds TLA+ models of
its stateful parts, TLC configurations that check them on small instances and
TLAPS proofs of what matters most. Paths are relative to the repository.

    tlc -config MCAccountConnect_faults.cfg MCAccountConnect
    tlapm AccountConnectProofs.tla AccountTokensProofs.tla AccountLifecycleProofs.tla
    tlc -config MCCallPath_outcomes.cfg MCCallPath
    tlapm CallPathProofs.tla
    tlc -config MCClientProvider_refresh.cfg MCClientProvider
    tlapm ClientProviderProofs.tla
    tlc -config MCServing_serving.cfg MCServing
    tlapm ServingProofs.tla SumProofs.tla
    tlc -config MCOperations_operations.cfg MCOperations
    tlapm OperationsProofs.tla

`PROJECT.json` lists the runs, which property each mutant of the code breaks,
the source lines behind every definition, the hazards and the findings.

## 1. The system

| Component (`internal/...`) | State it keeps | Operations | Hard behaviour |
|---|---|---|---|
| `accountconnect/controller.go` | OAuth sessions (memory) | StartConnect, StartReconnect, CompleteCallback, ListAccounts, Disconnect | Google calls outside the lock; several durable writes per operation; retries |
| `accountconnect/registry.go` | rows and revoke epochs (one JSON file) | Get, List, Commit, Delete, BumpRevokeEpoch | failed saves; merge of concurrent identities |
| `accountconnect/lifecycle.go` | one lock | Lock, Unlock | every return path must release it |
| `accountconnect/handler.go`, `host.go`, `scope_config.go` | cookies, forms, consent links (at browsers) | accounts, connect, reconnect, disconnect, callback, status | tabs and browsers at once, answers that arrive late |
| `accountconnect/tokens.go` | the queue of one worker | Get, Put, Delete | calls that time out but still write |
| `secrets/store.go` | the OS keyring's items | open, SetToken, GetToken, DeleteToken, ListTokens, default accounts | two keys for one token, errors after the effect |
| `googleapi/native.go`, `native_token.go` | authenticated clients per account, fences | HTTPClient, InvalidateAccount, token refresh, rotation | refresh racing disconnect; stale clients |
| `googleapi/native_retry.go`, `native_budget.go`, `native_error.go` | per-call budget, request slots | RoundTrip | replay of reads, single dispatch of writes, truthful outcomes |
| `mcpserver/handler.go`, `runtime.go` | tool set, concurrency slots | tool calls, ReloadAccess, ResyncTools | reload under traffic; a result too large to report |
| `mcpserver/http.go` | caller and global slots | ServeHTTP | limits shared by callers |
| `access/` | the current snapshot | Visible, Authorize, Replace | one snapshot per decision; deny over allow |
| `mediaartifact/store.go` | bounded in-memory artifacts | Put, Lookup, Read, expiry | counters against contents, identity binding |
| `googleops/gmail` | label cache | search, get message, get thread | calls that share the cache; order list against entries at the limit; a view cut to its bounds |
| `workflowguide/recipe.go` | none (recipes in a file) | Prepare | which inputs a skipped step leaves without a source |
| `googleops/mailworkflow`, `authoring`, `media` | none (multi-call workflows) | preview, send, create, update | stale preview, partial creation, conditional update |
| `config/atomic.go` | files | WriteFileAtomic | a stop half-way |
| `googleops/*` (others), `mcpcontract`, `googlecatalog`, `mailcompose`, `accountconnect/web`, `scripts` | none or static tables | one Google call each; text processing | data, not control |

How they interact: an MCP tool call enters through `mcpserver` (stdio or the
HTTP gateway), is authorised against the `access` snapshot, and runs an
operation of `googleops` with an HTTP client from `googleapi`.  The client's
tokens come from the registry and the token store that the account connection
pages change; `accountconnect.Lifecycle` is the one lock that the controller and
the client provider share, `InvalidateAccount` the callback by which the
controller evicts clients, `ConnectionsChanged` the one by which it makes the
runtime recompute its tools.

What makes each component correct:

* *Connections*: one row per Google subject and per address; an active row can
  serve calls; a revoked grant never comes back through an overlapping
  callback; every stored token can still be found and deleted; an interrupted
  operation can be retried to its end.
* *Clients*: what is cached is what the registry and the token store say now; a
  refreshed token is never written over a newer one.
* *Calls*: a write reaches Google at most once; what is reported as not done was
  not done; the budget is never exceeded; slots return.
* *Access*: a decision uses one snapshot; an explicit deny wins; the tool list
  follows the last reload.
* *Artifacts and caches*: limits hold, counters agree with contents, nothing is
  served to another identity or after expiry.
* *Gateway*: a token is one caller's; slots return however a request ends.
* *Account pages*: a sign-in completes once, in the browser that began it, with
  scopes that were offered.
* *Keyring*: what is read is what was last written, whichever key it is under.
* *Workflows*: a write is what the caller was shown, of the version it named; a
  result says what was made; a prepared workflow has a source for every input.

## 2. Modules

### AccountConnect

One step per durable write or network call of the connection controller, i.e.
one step for each place where another handler, a failure or a restart can come
between.  A handler invocation is a member of `Ops`; `pc[o]` says which step it
takes next and `job[o]` holds its locals.

| Variable | Code |
|---|---|
| `records`, `epochs` | the file behind `FileRegistry` |
| `tokens` | the refresh-token store, keyed by address (one OAuth client bucket) |
| `sessions` | `Controller.sessions` |
| `lock` | `Lifecycle` |
| `clients` | `NativeProvider.cache`, per AccountID |
| `grant`, `consented` | Google: which consent of a subject is alive, and whether it already gave out a refresh token |

A callback is `TakeSession` (epochs are read here), `Exchange` (outside the
lock), `LockCallback` (all the checks under the lock), `CommitPending`,
`PutToken`, `Activate`, `FinishCallback`, with `SettleDelete`/`SettleCommit`
wherever the code calls `settleTokenCleanup`.  A disconnect is `Disconnect`,
`BumpOnStart`, `MarkDisconnecting`, then without the lock `Revoke`, then
`Relock`, `RecordLocalStage`, `BumpOnComplete`, `DeleteToken`, `DeleteRecord`.
`UseClient` is `NativeProvider.HTTPClient` filling its cache.  A commit under the
lock and the eviction of clients that follows it are one step here: clients are
made, and `CachedClientsCurrent` is stated, while the lock is free.  What sources
serve in between, without the lock, is `ClientProvider`'s subject.  `Restart` empties
everything that is only in memory.  A durable registry write fails without
effect (`config.WriteFileAtomic` renames last); a token-store write may have
happened although it reports an error (`controller.go:516`).

Abstracted: a token is its subject and consent; scopes, labels, times and the
OAuth parameters are left out; all rows belong to one client bucket, which is
part of every key in the code; the epochs of the registry are per subject for
the same reason.  `ListAccounts` and `GetRecord` return views that nothing here
depends on.  A commit that lands on another AccountID than the callback's own
(`controller.go:509`) cannot happen, which `CommitTarget` states and the proofs
show.

### ConnectionLifecycle and AccountConnectRefinement

`ConnectionLifecycle` is the promise to the rest of the program: per subject a
phase (absent, pending, active, disconnecting), an owner, a generation, and the
set of subjects served from a cache, each changed by atomic steps.
`AccountConnectRefinement` maps the row of a subject to its phase and the cached
clients to `serving`; `ImplementsLifecycle` is the refinement.

`GoMaps` holds the two operations on a Go map the models use, `GoSlices` the loop
by which Go filters a slice.

### CallPath

A tool call from the handler to Google and back, across `mcpserver/handler.go`,
`runtime.go`, the operations of `googleops` and the transports of `googleapi`.
What a caller may conclude from an error depends on all of them: each transport
types its errors or leaves them untyped, `http.Client` and the Google SDK may
replace them, and each operation classifies what arrives.  The model therefore
keeps the whole chain and abstracts the calls to five scripts of at most three
requests:

| Kind | Code | Requests |
|---|---|---|
| `search` | `gmail/operations.go` `search`, `fetchMessageViews` | a list, then two concurrent reads |
| `api` | `apiexec/operations.go` `run` | one write |
| `update` | `media/drive.go` `updateFile` with an expected version | a lookup through the write's client, then the upload |
| `send` | `mailworkflow.go` `send` | the send-as settings, then the send |
| `author` | `authoring/create.go` `createDocument`, `createPresentation` | the creation, then the content |

| Variable | Code |
|---|---|
| `phase`, `answer` | where the handler of a call stands, what its caller was told |
| `expired` | the deadline of `withTimeout`, or the client's cancellation |
| `limit`, `used` | `nativeCallBudget` |
| `req` | one record per request: the step its goroutine is at, the budget value it loaded, its retry counts, how often it was sent, how it ended |
| `google` | what became of a write that was sent: Google may carry it out or refuse it at any later time |
| `rtSlots`, `apiSlots` | `Runtime.slots`, `NativeProvider.slots` |

A call is `Submit`, `Admit` or `GiveUpQueue`, `Begin` (every check before the
first request), then `FirstFailed`, `FirstSucceeded`, `FollowerFailed`,
`AllSucceeded`, each ending in `Answer` with `Fitted` for a result too large to
return.  A request is `GetToken`, `TakeSlot`, `LoadBudget`, `SwapBudget`, then
what comes back (`Delivered`, `Rejected`, `LoseAnswer`, `RetryLater`,
`RetryNoMore`, `AbandonFlight`), and `WakeUp` after a retry's sleep.  `Surfaces`
gives the errors an operation can see in the place of the transport's own,
`Classified` what it makes of them.

Abstracted: `"denied"` is any refusal before a request (writes disabled, input,
`Authorize`, scope, client acquisition), `"auth"` any failure to get a token;
statuses are the classes the code distinguishes.  The response body is read
after the slot has been returned; the model ends both in one step, as reading
touches neither slots nor budget.  Only the slots are shared by calls: the
budget is in the call's context.  Replies to a thread (a third request in
`send`), an uncached label list, a search of more than two messages and a Drive
write without a version are not separate kinds; each is a prefix of, or one more
request of, a sequence that is there.

### TokenStore and ClientProvider

`TokenStore` is `SecretsTokenStore` for one key: callers that offer a job to the
single worker, wait for it or give up, and the worker, which reads, changes and
may hang in the keyring.  `call[c]` is where caller `c` stands in
`SecretsTokenStore.do`, `worker` the job `serve` is at (with `orphan` when its
caller has given up), `poisoned` the fail-closed state.  A context may end at
any time: that is the choice between `Receive`, `GiveUpOffer` and `GiveUpWait`.
The checks the worker makes before it first touches the keyring are part of
`Take`, since a job can only be refused in between.

`ClientProvider` extends it with `NativeProvider` and its token sources, for one
mailbox:

| Variable | Code |
|---|---|
| `row` | the registry row of the mailbox (`FileRegistry`) |
| `lock`, `fence` | `Lifecycle`, `NativeProvider.fences` |
| `source` | `nativeTokenSource`: its fence and generation, `invalid`, the refresh token it knows to be stored (`refresh`), the one its `oauth2.TokenSource` holds (`inner`), whether `current` is valid, and where `runRefresh` stands (`flight`); `cached` is membership in `NativeProvider.cache` |
| `req` | a request: the identity it was resolved to, its source, its place in `HTTPClient` and `token` |
| `ctl` | the connect or disconnect under way |

A request is `Resolve`, `OpenClient` (cached, refused, or a fill begun),
`FillClient`, `EnterToken` and `BeginRefresh` (two steps: `blocked` and
`beginRefresh` look at different things at different times), then `Send`, or a
wait ended by `EndRefresh`.  A refresh is a goroutine of its own: `Exchange`,
`CheckRotated`, `LockRefresh`, `ReadStored`, `Persisted`, `CheckFinal`,
`EndRefresh`.  The controller is reduced to what touches this mailbox, by one
handler at a time.  A disconnect commits its row (`MarkDisconnecting`) and evicts
what was made for the connection (`EvictDisconnecting`) in two steps under the
lock, because sources do not take the lock: in between they are not fenced off
and go on authorising requests (`blocked`, `native_token.go:43`), which the
properties allow for exactly that long (`Ending`).  A connect evicts before it
commits its pending row, so its activation is one step; revoke epochs, cleanup debts and overlapping handlers are
`AccountConnect`'s, which in turn has a client fill and a store operation as one
step each and no refresh.

A refresh token is its consent and its place among the tokens that replaced one
another.  `row.consent` is a history variable.  Sources are garbage-collected
before anything else happens, and reused; an access token does not expire while
the refresh that brought it is still under way.  The second key the keyring
store keeps for the default OAuth client is `KeyringStore`'s subject.

The comment on `InvalidateAccount` (`native.go:232`) says that a fenced source
cannot persist a rotated token.  Where a `Put` was given up while the keyring
was writing, it still may; the store then answers nobody until a restart, and
the properties below hold across that late write.

### Access, Runtime, media and the gateway

`AccessControl` is the access decision as operators over a snapshot and a
registry: `CanonicalAction`, `MatchAction`, policies by specificity, grants,
`Visible`, `Authorize`, `ListAccounts`.  `AccessQuestions` asks every question of
every configuration of an instance and compares the answers with what a
configuration means (`PolicyPermits`, `GrantPermits`).  `Unset` is the empty
string of a field that is not given; `CatalogAssumption` says of the catalog, and
`AskedAssumption` of the registry, what the code's tables and checks guarantee.

`Runtime` extends it with `mcpserver`'s runtimes, one per principal of a process:

| Variable | Code |
|---|---|
| `snapshot` | the snapshot each runtime's `Authorizer` holds |
| `registry` | the active rows (`AccountConnect` reduced to the change of a row) |
| `tools`, `sync` | the registered tools; who holds `toolsMu` and how far `collectWanted` is |
| `due`, `syncFailed` | `ConnectionsChanged` not yet carried out; whether the last synchronisation failed |
| `calls` | the calls in flight: `Load` of the snapshot and `Decide` with the registry are two steps, as in `Authorize` |
| `media`, `clock` | `mediaartifact.Store`, with an operator of `MediaArtifacts` per method; its timers |

`collectWanted` asks about one name per step (`Collect`) while snapshots and rows
change; `CallTool`, `ListCall`, `SearchCall`, `DescribeCall` and `ReadResource`
begin the calls.  `seenSnapshots` and `seenRegistries` of a call are history.  A
reference to media is 16 random bytes: the store never gives one out twice
(`issued`).

`Gateway` is `http.go` and `http_config.go`: the command line and the caller file
are checked (`ServeGateway`), a request passes `Arrive`, `TakeGlobal` and
`TakeCaller`, its tool calls `StartTool` and `EndTool`; it ends by itself, by its
timeout or by the signal, and the server stops (`StopServing`).  `slots` has the
three kinds of slots; those of a caller are shared by its principal (`SlotKey`).

### ConnectPages and KeyringStore

`ConnectPages` has browsers with a cookie jar, pages with a CSRF secret, consent
links, and answers under way (`inbox`): `Deliver` applies an answer's cookies and
page, in any order.  A handler's request is one step (`ViewPage`, `Connect`,
`Reconnect`, `DisconnectAccount`, `CallbackFails`, `CallbackCompletes`): it holds
no lock of its own, and what the controller does meanwhile is `AccountConnect`'s
subject.  Scopes are sets; `GrantedBy` is which wider scope stands for which.

`KeyringStore` opens a keyring (`OpenStore`, by mode and environment) and then
has one operation of `secrets/store.go` per action, over `ring`, with every
keyring call succeeding, failing, or failing after its effect.  The token store
above runs one operation at a time (`TokenStore`), so operations do not overlap.
`possible` is a history variable: what each token may be, after what its writers
were told.

### Operations, MailWorkflow, MediaTransfers, Authoring, GmailSearch, MessageViews, WorkflowRecipes

One module per family of operations, each with its own view of Google; a step is
one request to Google, and others (`OwnerChanges`, `OthersWrite`, `RenameLabels`)
act between requests.

* `MailWorkflow`: prepare, draft and send read the sender and a source message,
  compose (`Compose`) and compare the digest (`ContentDigest`) with the one the
  caller expects.  A digest is the record of what goes into it.
* `MediaTransfers`: downloads, exports, attachments, creations and updates of
  files; sizes stand for contents, an ETag for a version.
* `Authoring`: creation and filling of documents, presentations and sheets;
  characters are of one or two UTF-16 units.  `RequestsAssumption`: what a request
  holds are lists.
* `GmailSearch`: searches and threads with the shared label cache (`entries`,
  `order`), a bounded number of fetches in any order.  A fetch of label names is
  three steps: it is asked for (`ReadLabels`, a miss), Google reads the names
  (`FetchLabelNames`), and the answer is dated when it has arrived (`DateLabels`,
  `operations.go:445`), so a rename in between leaves names older than their date.
* `MessageViews`: the view of a message over its parts, in bytes of UTF-8.  Without
  the body a message is fetched with its headers only (`Fetched`,
  `operations.go:231`): its view lists no attachment and marks none as left out.
  `TextsAssumption`: a message is a list of parts, a text a list of characters.
* `WorkflowRecipes`: `Prepare` for known facts and what `capabilities.go` makes of
  it, over five recipes of `recipes.json`, one of each shape.  `RecipesReviewed`
  is what the recipes keep and `loadRecipes` does not look at: a step names
  declared facts, and one that a lookup is to produce comes after that lookup,
  which is left whenever the step is and the fact is not known.  It holds of all
  21 recipes of the file; that facts are declared is tested (`recipe_test.go:412`),
  the order is not.

What a failed request means to the caller is `CallPath`'s subject for all of them.

`Operations` composes these six with the pages and the keyring, and states what
several of them promise together: `WrittenAsSeen` of mail and files, `ReadAsThere`
of searches and views.

### AccountConnectProofs, AccountTokensProofs, AccountLifecycleProofs, CallPathProofs, ClientProviderProofs, ServingProofs, SumProofs, OperationsProofs

See section 5.

## 3. Runs

The runs of `AccountConnect` use two concurrent handlers (symmetric), the smallest number for which
every race of the code exists: the lock admits one, and the windows are between
one handler inside and one outside it.

| Run | Question | Instance |
|---|---|---|
| `faults` | Are active rows usable, tokens reachable, clients current and retry tokens kept, with failures and restarts, and does the interleaved code implement the atomic lifecycle? | 1 subject with 2 addresses, 2 callers, 3 sessions, 2 faults |
| `reassigned` | Do identities stay unique when an address moves to another subject? Is the lock held exactly inside critical sections? | 2 subjects sharing an address, 3 sessions, 1 fault |
| `retry` | Is the lock always released, and does a retried disconnect finish? | 1 subject, 2 sessions, 2 faults, idempotent revoke |
| `outcomes` | Is every answer true, every write sent once, the budget kept, and does every goroutine end? | 1 call of any kind, budgets of 1 to 4 requests, 2 request slots, 1 retry per sort |
| `contended` | Does every slot have one owner, and is every call answered though Google never replies? | 3 calls, 2 runtime slots, 1 request slot |
| `refresh` | Do refreshes and connection changes that overlap leave the right token stored, and only current sources in use? | 2 requests (symmetric), 2 sources, 2 connection changes, 1 rotation, 1 fault |
| `hanging` | Does every refresh end, and the lock return, though the keyring hangs? | 1 request, otherwise the same |
| `serving` | Are access decisions right and fresh, tools in step with them, media kept apart, and slots of the gateway kept? | four parts, below |
| `operations` | Do pages, keyring and workflows do and report what was asked? | eight parts, below |
| `reassigned_debt` | finding 1 | as `reassigned` |
| `reassigned_token` | finding 2 | 4 sessions, 2 faults, 3 accounts |
| `retry_dead` | finding 3 | as `retry`, revoke not idempotent |

Bounds: three sessions are a connect, a rename and a reconnect (or a connect by
the second caller) of the same subject, the longest chain that leaves a debt and
meets it again; two faults are a failure and a failure of its recovery, or a
failure and a restart; two AccountIDs are one more than a correct registry
needs for one subject.  Deadlock is checked in every run of `AccountConnect`: a
listing with nothing to settle is always possible while the lock is free, so a
stuck state would be a lost lock.

One call is enough for `outcomes`: calls share nothing but slots, so what
another call can do to this one is to delay it, and a request may wait in front
of a slot for any time anyway.  Its concurrency is within the call, between the
workers of a search, the handler that leaves them behind, the deadline and
Google.  Budgets of 1 to 4 lie below, at and above what each kind needs, with
and without a retry, so that a worker finds the last unit gone before, between
and after its load and swap.  `contended` has more calls than runtime slots and
more admitted calls than request slots; a call of one request that may end in
every way is enough to lose or duplicate a slot.  The system stops when all
calls are done, so deadlock is not checked there; `EveryCallAnswered` says that
it does not stop earlier.

`refresh` has a connect and then a reconnect or a disconnect, each at every point
of a request and of a refresh.  Two sources are the one in the cache and an
older one whose refresh is still under way; a second request joins a refresh or
finds the lock taken.  One rotation is enough for the token in the source and
the one in the store to differ; one fault is a failed registry write, an error
of the keyring with or without its effect, or a restart.  Contexts end, and the
worker hangs, without limit.  The model stops when its bounds are spent, so
deadlock is not checked; `hanging` shows that nothing waits for ever.

`serving` and `operations` consist of parts: a variable `part`, chosen at the
start, says which module moves, and the others rest in one state, so that the
parts' state spaces add up and do not multiply.  What a module needs of another
(an account that reconnects, settings that change) is an action of its own.

* `access`: up to two of six policies in either order, two of six grants, three
  allowlists and three registries, so that two policies of the same and of
  different specificity meet, grants overlap or only add up, and rows have wider,
  narrower or no scopes.
* `runtime`: one account that reconnects with other scopes or another owner,
  three snapshots (all, some, none), two operations and two changes, reloads or
  read errors, enough for a change to come while a reload is collecting.  One
  call: calls share nothing but media.
* `media`: two entries of one or two bytes, three references (symmetric), three
  bytes: both limits are met, and entries expire before and after puts.
* `gateway`: two callers of one or of two principals, two requests, one slot per
  principal, batches of two.
* `pages`: two browsers, two sign-ins, two forms, two answers under way: the
  fewest for a link followed elsewhere and a cookie that arrives late.
* `keyring`: two clients, one of them the default, one address, two tokens and
  two keys filled: both keys of one token, or one key of each client.
* `mail`: two calls (a preview and a write, or two writes), three states of the
  settings and five of the source message, which change at any time.
* `files`: two calls on one file, another writer, sizes below, at and above the
  limits.
* `authoring`: two creations; texts with wide characters and line breaks, slides
  Google adds by itself, rows of unequal length.
* `search`: two calls, a cache of one entry, a rename and a reconnection, a TTL of
  two ticks; one message, as the concurrency of a search is `outcomes`' subject.
* `views`: messages of up to two parts of ten sorts, limits on both sides of the
  sizes.
* `recipes`: every subset of facts, of registered and of granted operations.

The properties of these two runs are invariants, some over histories (what was
shown, what was written); the parts stop when their bounds are spent, so deadlock
is not checked there.

Fairness: `Fairness` is weak fairness of every handler's next step: a handler is
a goroutine and each of its waits has a deadline (`lifecycle.Lock` takes the
request's context, the token store and the OAuth client are bounded).
`OwnerRetries` is an assumption about the owner, needed because retrying is
left to the owner by design (`Retryable: true`): an account that stays
disconnecting is retried again and again.  It is strong fairness because the
lock may be busy in between.

In `ClientProvider` every goroutine's next step is weakly fair, giving up
included: requests have deadlines, `RefreshHTTP` and `persistTimeout` bound a
refresh, `bound` every store operation.  Nothing is assumed of the worker.

In `CallPath` the fairness is weak: on `Expire`, because `withTimeout` gives
every call a deadline; on the handler's and each request's own steps, which are
goroutines that can run.  Nothing is assumed of Google or the network (`Reply`,
`GoogleActs`), nor of who gets a slot (`Admit`): a Go channel is first come
first served, but the answers do not need it.

## 4. Findings

1. **A cleanup debt deletes another account's token** (`reassigned_debt`).  A
   row whose address changed owes the deletion of the token under the old
   address.  If that address is connected by another subject before the debt is
   settled, settling it deletes the new account's only refresh token and leaves
   its row active (`controller.go:545`; `commitRecords` does not compare with
   `Cleanup.Email`).
2. **A connect can adopt another subject's token** (`reassigned_token`).  The
   fallback for an exchange without refresh token looks the token up by address
   (`controller.go:407-420`).
3. **A disconnect of a dead grant never ends** (`retry_dead`).  Every refused
   revoke is answered "retry", and reconnecting is refused meanwhile
   (`oauth.go:268`, `controller.go:668`).  The run `retry` shows that this is
   the only obstacle.

`ActiveConnectionUsable` is therefore checked where addresses stay with their
subject (`faults`).

## 5. Proofs

Everything here is proved for every value of the constants that the named
assumptions of the modules allow.  Where a property is not inductive, the
strengthening was first checked by TLC as an invariant, on the instances named
below; the theorem says that it is one on all.

### The connection controller

`AccountConnectProofs`, for any number of subjects, callers, handlers, sessions
and faults: `Inductive` (`Spec => []IInv`), `TypeCorrect`, `OneConnection`
(`OneConnectionPerIdentity`) and `LockHeldInside` (`LockDiscipline`).

`OneConnectionPerIdentity` is not inductive: that a commit does not create a
second row depends on what the handler found out under the lock several steps
earlier.  `IInv` says, for every step a handler can stand at, what it knows:
that it is inside a critical section exactly if it holds the lock
(`LockDiscipline`), that the rows it works on exist (`RowsHeld`), which locals it
has learnt (`Learnt`), and that a callback about to commit either has the row of
its own subject or creates the first one its caller has for it
(`CommitTarget`).  `CommitKeeps` is the central lemma: what a commit leaves
unique.  There is one lemma per action, and `NextKeeps` puts them together.

`AccountTokensProofs` has the tokens.  `DebtInv` holds without any assumption on
addresses, and gives `TokensReachable` (`NoStrandedToken`): every stored token is
under the address of a row, owed by a debt, or about to be recorded by the
handler inside the lock.  The other three, `ActiveUsable`
(`ActiveConnectionUsable`), `ClientsCurrent` (`CachedClientsCurrent`) and
`RetryKeepsToken` (`RetryTokenKept`), have the hypothesis `OwnAddresses`: no
address is ever reported for two subjects.  Without it they are false of the
code, which is what findings 1 and 2 show; with it they hold for any handlers,
failures and restarts.  Their invariant `TokenInv` is an argument about epochs.
A callback's token may have been revoked since its exchange; but as long as the
epoch is the one it read before, the token is alive, or a row of its subject is
being disconnected and its second bump is still to come (`CallbackSound`), and
under the lock that row is a refusal.  A callback past its checks therefore has
a live token, or its commit clashes with another principal's row
(`CommitSound`).  A disconnect holds the very token stored for its row until it
has revoked it, and one past the revoke knows the stored token to be dead
(`DisconnectSound`), which is why deleting it loses nothing.
TLC checked `IInv`, `DebtInv` and `TokenInv` on four instances with addresses of
their own (up to 2 842 799 distinct states), and `IInv` with `DebtInv` where an
address is reassigned (284 144).

`AccountLifecycleProofs` proves `ControllerImplementsLifecycle`: `Spec =>
ImplementsLifecycle`, with the mapping of `AccountConnectRefinement` and no
assumption on addresses.  Every step of the controller is one step of one
connection or a stutter: `CommitPending` is the specification's connect,
`Activate` its activation, `MarkDisconnecting` the start of a disconnect,
`DeleteRecord` its end, `UseClient` is serving, evictions and a restart end
serving, and all other steps leave phase, owner, generation and serving alone.
`PhaseInv` is what makes it true: the phase the row of a handler is in, at each
of the handler's steps, though other handlers move between them.

### The call path

`CallPathProofs`, for any calls, kinds, budgets, slots and retry limits, proves
every safety property the runs of `CallPath` check: `FailuresHonest`,
`SuccessesHonest`, `WritesOnce`, `BudgetHolds`, `CreationsFunded`
(`PopulationFunded`), `SlotsHold` and `CallPathTypeCorrect`.

`FailureIsHonest` speaks of the answer only, and what makes it true is spread
over the call's past.  The invariant `IInv` of `CallPathInductive` adds: what a
request's step says about Google (`DispatchInv`: before its swap a write has not
been sent; one that ended in a definite failure was never sent or was refused,
one that ended well was applied); in which order requests are made (`OrderInv`:
followers start after the first one succeeded, a call not yet running has made
none, and one that has ended has no write under way); and the accounting
(`CountInv`: the units used are the requests sent and at most the limit, a
request that has not begun has sent nothing, and a goroutine about to swap saw
room).  That a classification is never definite
after the dispatch is a lemma on `Surfaces` and `Classified`, by cases on the
finite set of errors.  Each action has a lemma saying how it changes the one
request it touches (`Becomes`), and the invariant is shown per call.

`SlotInv` is `SlotsAccounted` with the counters' bounds.  `Held` and `Running`
are subsets of finite sets, and each action adds one element, removes one or
leaves them as they are; the cardinality lemmas of `FiniteSetTheorems` then give
the counters.

### The client provider and the token store

`ClientProviderProofs`, for any requests, sources, connection changes, rotations
and faults, proves every safety property the runs of `ClientProvider` check:
`ServingIsCurrent` (`UnblockedSourceCurrent`), `ServedTokensDurable`
(`ServedIsDurable`), `ActiveRowsHaveTheirToken` (`ActiveRowHasItsToken`),
`RemovedStaysRemoved` (`NoResurrection`), the two action properties
`RotationsExtend` (`RotationExtends`) and `AuthorisedWhileCurrent`
(`AuthorisedIsCurrent`), and `ProviderTypeCorrect`.  `UnblockedSourceCurrent`
and `AuthorisedIsCurrent` are about the *standing* connection: the active row's, or, while a
disconnect still holds the lock between its commit and its eviction, the one it
is ending.  The code gives no more: a request may pass its client in that window,
although the row is already disconnecting.  Once the lock is given up it may not.

None of them is inductive, because a job that its caller gave up may write long
after the caller has gone.  The conjuncts of `IInv`: only the holder of the lock
is in a store operation, and the worker is at its job, or at one left behind in
a poisoned store, which takes no other (`LockHeld`, `OneJob`); the operation is
the one its place calls for (`Operations`); whatever job is under way may be
done at any later time without harm (`JobSafe`: a put is of the row's consent
and extends what is stored, a delete belongs to a row that is going); a live
source is of the standing connection, and what is stored lies between the token it knows
to be stored and the one it refreshes with (`SourceSound`, `Between`); at most
one source is live; and what the controller has established at each place
(`ControlSound`).  The argument turns on `JobSafe`, which has to survive every
change of the row after the caller has left: a poisoned store refuses every other
operation, so no row becomes active or is removed while such a job is there.  TLC
checked `IInv` on the instance of `refresh` (1 235 023 distinct states), and with
two rotations and no fault (1 829 083).

### Access, runtime, media and gateway

`ServingProofs` has the components of the run `serving`, each under its own
specification, for any configurations, callers, limits and requests.

*Access.*  `AuthorizeIsSound` and `DiscoveryIsHonest` are theorems about the code's
passes, not about steps.  `ApplicablePolicies` is a fold that keeps the best
policies seen so far; `KeepBestKeeps` is the invariant of its loop (what is kept
of the first k policies is exactly those that apply and that no other of them
that applies is more specific than), and `PassKeeps` the induction over k.
`PassFindsTop` and `DeniedMeans` carry it to `PolicyPermits`, which knows no order;
`LetIn` says that `Authorize`'s chain of refusals lets in exactly who meets every
condition.  `CatalogAssumption` (each action is written as `CanonicalAction` writes
it, `accounts_list` is local) holds of every action of `manifest.json` and
`catalog.go`; `AskedAssumption` (no account without an ID or an owner) is what
the registry checks before it saves or returns a row (`registry.go:94`, `:236`,
`:306`).

*Tools.*  `ToolsFollow` (`ToolsFollowAccess`) with `ToolsInv`: as long as nothing
has become due since a synchronisation began, what it has collected is right for
the names it has asked about (`CollectedSoFar`), and what it still has to ask
about are tools there are.  A change while it collects makes a further
synchronisation due, which is why the property may then be silent.

*Calls and media.*  `DecidedOnWhatWasInForce` (`CallsDecidedFresh`) and `MediaHeldAlways`
(`MediaHeld`) with `CallsInv`: what a call has seen includes what is in force
(`SeenSound`), what it decided follows from something it has seen (`DecidedFresh`),
what it was served is what the reference it named stands for (`ServedSound`), and
the store's bytes are the sum of its entries (`StoreSound`).  A reference never
changes its meaning: with references that could be given out again, a call that
holds an old one could be served new bytes, and the invariant fails for two
callers; the code draws 16 random bytes for each.

*Gateway.*  `GatewayHolds` (`GatewayKept`) with `GatewayInv`: a request in flight
belongs to a caller the gateway knows by its token (`CallerKnown`), callers have
distinct digests and grants of their own principal (`CallersSound`), and every
counter is the number of its holders, for each principal and in all
(`SlotsCounted`), though callers share a principal's slots and a batch holds
several.  TLC checked `GatewayInv`, `ToolsInv` and `CallsInv` on the instance of
`serving` (614 898 distinct states).

`SumProofs` has the lemmas on sums that counters need: `SumFunction` of the
community modules is a fold whose meaning its definition does not show.  The
lemmas (one value changed, one place added or removed) are by induction on the
size of a finite set, carried out in the naturals, as the library's own induction
theorems take an operator as a parameter.

### Pages, keyring and workflows

`OperationsProofs` has the components of the run `operations`, each under its own
specification.

*Pages.*  `SignInsBound` (`SignInBound`), for any browsers, forms and accounts, with
`PagesInv`: the cookie of a state is in, or on its way to, only the browser that
began the sign-in, and a state is never given out twice; what a session asks for
was offered; rows of another OAuth client stay as they are.
`PagesAssumption` says that an AccountID is one principal's
(`controller.go` draws it at random for a new row) and that `gmail.readonly` is
among the base choices (`scope_config.go`).

*Keyring.*  `KeyringHolds` (`KeyringKept`), for any clients, addresses, tokens and
keyrings: whichever of the two writes for the default client failed, or failed
after its effect, each key of a token holds an item its slot may hold, a corrupt
one, or none (`RingKept`).  The two keys may then disagree, and `possible` is what
a reader can find.

*Mail and files.*  `WritesAsSeen` is `WrittenAsSeen` of `Operations`, from
`MailInv` and `TransferInv`.  `MailInv` has what each stage of a call has resolved,
that a digest which matches is that of the preview it came from, and that previews
never change.  `TransferInv`: a call about to write has the ETag of the version it
was told to expect, and each write belongs to one call that has ended.  Both hold
whatever the owner and other writers do in between.

*Reads.*  `ReadsAsThere` is `ReadAsThere` of `Operations`, from `SearchInv` and
`ViewsAreFaithful`.  `SearchInv`: the cache's order names each key once and exactly
the keys that have an entry, an entry holds names fetched under its own key which
were in force at some time between the request for them and the date they bear,
which is when the answer arrived, and a call that has names holds its own
connection's, whatever was renamed, evicted or reconnected while it waited.
That they were in force *at* that date is not claimed: a rename while the answer was
on its way makes them older (`DatedLater` says what dating them late keeps).
That a full cache loses one key for each it gains is counted (`DistinctCount`).
Of a view without the body only the header and the labels are claimed, since
nothing else was fetched.  A view is one answer, not a sequence of steps: `NewMessageView` is a chain of
loops over the text, the parts and the labels.  Each loop is a recursive function
of the place it has come to (`LoopExists` says that there is one, from its two
equations), and what it keeps is shown by induction over that place (`UpTo`, which
takes the set of places where it holds, since the library's induction takes an
operator); `FilteredKeeps` says of Go's filtering loop what it keeps, `BoundedKeeps`
that a cut is between characters.

*Creations.*  `CreationsReported` (`CreatedAsReported`) with `AuthoringInv`: a file
made belongs to one call that has had its answer and did not fail, a call about
to populate has the id of its own, still empty file and the slides that were in
it, and a call that reports success has filled it with what was asked.  That is
where the units come in: `Starts` is the loop that adds up lengths in UTF-16 units,
`UnitsTrue` that they are what Docs counts, `StartsGrow` that starts grow strictly,
so that each range meets its own paragraph only and each paragraph ends up in its
own style (`OwnStyle`), though paragraphs before it hold wide characters.
`GridFits` and `RefilledAsAsked` are the same for sheets and slides.

*Prepared workflows.*  `PreparationsHonest` (`RecipeHonest`), over any recipes that
satisfy `RecipesReviewed`.  A step that says it takes a fact from a previous step
has, in the recipe, a lookup before it; `FilteredOrder` says that filtering
keeps the order, and `StepsLeft` that a step left has before it every step before
it in the recipe that is left too, so the reference points backwards at a step
that is there.

TLC checked the six invariants (`PagesInv`, `KeyringInv`, `MailInv`, `TransferInv`,
`SearchInv`, `AuthoringInv`) on the instance of `operations` (1 463 169 distinct
states).

### Only model-checked

Liveness (`LockReleased`, `RetriedDisconnectCompletes`, `EveryCallAnswered`,
`WorkersStop`, `RefreshEnds`) and ENABLED are out of the prover's reach.  Every
safety property that a passing run checks is a theorem.

## 6. Plan

Modelled and checked: all modules of section 2.  Proved: section 5.  To come: the
components of the runs `operations` and `serving` are proved each under its own
specification, and could be stated of their composition; the token store and the
keyring store could be shown to implement one abstract store, whose writes may
still land after their caller has given up.

## 7. Not modelled, and why

* Text processing (`mailcompose`: HTML, CSS, MIME) is character data without
  control.  A composed message is the record of what it is made from.
* JSON schemas, the generated catalogue and its generator (`schema.go`,
  `contract.go`, `scripts/`) are tables.
* The single-call Google operations (calendar, docs, drive, sheets, analytics,
  search console, business profile) add nothing to the call path they share,
  which `CallPath` models.
* Parsing of configuration and policy files, paths, flags, rendering of pages,
  and the operating system's keyrings are I/O.
* `config.WriteFileAtomic` is taken as atomic: a save fails without effect or has
  it whole (it renames last).
* `MemoryRegistry`, `MemoryTokenStore` and `Registry.Upsert` have no caller
  outside tests.
