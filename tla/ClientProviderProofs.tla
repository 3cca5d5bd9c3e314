------------------------ MODULE ClientProviderProofs ------------------------
(***************************************************************************)
(* Theorems about ClientProvider and its token store for every number of   *)
(* requests, sources, connection changes, rotations and faults.  The       *)
(* argument is inductive: IInv holds initially and every action keeps it.  *)
(***************************************************************************)
EXTENDS ClientProvider, TLAPS

(***************************************************************************)
(* The inductive invariant                                                 *)
(***************************************************************************)

\* A source that is neither garbage nor fenced off: it serves requests.
Live(s) == source[s] # Unborn /\ ~ Blocked(s)

\* t is a token of the consent of source s, between the one s knows to be
\* stored and the one s refreshes with.
Between(s, t) ==
    /\ t.consent = source[s].inner.consent
    /\ source[s].refresh.consent = source[s].inner.consent
    /\ source[s].refresh.rotation <= t.rotation
    /\ t.rotation <= source[s].inner.rotation

\* The lock is held by whoever stands where it is held.
LockHeld ==
    /\ \A r \in Requests : lock = r <=> req[r].at = "fill"
    /\ \A s \in Sources : lock = s <=> source[s].flight \in {"read", "write"}
    /\ lock = Controller <=>
         ctl.at \in {"lookup", "commit", "put", "activate", "begin", "evict", "erase"}

\* What a get found and what a put or delete left is still what the store holds.
ReplyStands(c) ==
    LET res == call[c].reply IN
    Answered(res) =>
        /\ ~ poisoned
        /\ res.kind = "none" => call[c].op = "get"
        /\ call[c].op = "get" =>
              stored = res.token /\ (res.kind = "ok" => res.token # NoToken)
        /\ call[c].op = "put" => stored = call[c].token
        /\ call[c].op = "delete" => stored = NoToken

\* Only the holder of the lock is in an operation; the worker is at its job, or
\* at one left behind in a poisoned store, which takes no other.
OneJob ==
    /\ \A c \in Callers :
         /\ call[c].step # "none" => lock = c
         /\ call[c].step = "offer" => ~ poisoned
         /\ call[c].step = "wait" => worker.by = c /\ worker.phase # "idle" /\ ~ poisoned
         /\ call[c].step = "replied" => ReplyStands(c)
    /\ worker.phase = "idle" => worker = Idle
    /\ worker.phase # "idle" =>
         /\ worker.orphan <=> poisoned
         /\ worker.op = "get" => worker.phase = "read"
         /\ worker.op = "delete" => worker.phase = "change"
         /\ ~ poisoned => /\ worker.by \in Callers
                          /\ call[worker.by].step = "wait"
                          /\ call[worker.by].op = worker.op
                          /\ call[worker.by].token = worker.token

\* What a job may do to the store without harm, whenever it is done.
JobSafe(op, t) ==
    /\ op = "put" =>
         /\ t \in Token /\ t.rotation <= rotations
         /\ row.state # "absent"
         /\ row.state = "active" => t.consent = row.consent
         /\ t.rotation = 0 \/ (stored.consent = t.consent /\ stored.rotation <= t.rotation)
         /\ \A s \in Sources : Live(s) => Between(s, t)
    /\ op = "delete" => row.state = "disconnecting" /\ ctl.at # "evict"

JobsSafe ==
    /\ worker.phase # "idle" => JobSafe(worker.op, worker.token)
    /\ \A c \in Callers : call[c].step = "offer" => JobSafe(call[c].op, call[c].token)

\* The place of a token is counted among the replacements Google has made.
StoredIssued == stored.rotation <= rotations

\* The operation the holder of the lock is in is the one its place calls for.
Reading(c)    == call[c].step # "none" /\ call[c].op = "get"
Putting(c, t) ==
    \/ call[c].step # "none" /\ call[c].op = "put" /\ call[c].token = t
    \/ call[c].step = "replied" /\ ~ Answered(call[c].reply)
Deleting(c)   ==
    \/ call[c].step # "none" /\ call[c].op = "delete"
    \/ call[c].step = "replied" /\ ~ Answered(call[c].reply)

ControlOperation ==
    /\ ctl.at \in {"lookup", "begin"} => Reading(Controller)
    /\ ctl.at = "put" => Putting(Controller, ctl.token)
    /\ ctl.at = "erase" => Deleting(Controller)
    /\ ctl.at \in {"commit", "activate", "evict"} => call[Controller].step = "none"

Operations ==
    /\ \A r \in Requests : req[r].at = "fill" => Reading(r)
    /\ \A s \in Sources :
         /\ source[s].flight = "read" => Reading(s)
         /\ source[s].flight = "write" => Putting(s, source[s].inner)
    /\ ControlOperation

\* A live source is of the connection that stands; the store holds a token between
\* its own two, which are the same one where its refresh succeeded.
SourceSound(s) ==
    \/ source[s] = Unborn
    \/ /\ source[s].account \in AccountIds
       /\ source[s].fence <= fence[source[s].account]
       /\ source[s].refresh \in Token /\ source[s].inner \in Token
       /\ source[s].inner.rotation <= rotations
       /\ source[s].cached \/ source[s].invalid
       /\ source[s].flight # "none" => ~ source[s].current
       /\ source[s].flight \in {"read", "write"} => ~ Blocked(s)
       /\ ~ Blocked(s) =>
            /\ Standing(source[s].account, source[s].generation)
            /\ Between(s, stored)
            /\ source[s].flight \in {"final", "won"} \/ source[s].current
                 => source[s].inner = source[s].refresh

SourcesSound ==
    /\ \A s \in Sources : SourceSound(s)
    /\ \A s, t \in Sources : Live(s) /\ Live(t) => s = t

\* A request uses a source made for the identity it was resolved to; one that
\* makes a client has room for it and has found none to use.
RequestSound(r) ==
    /\ req[r].at \in {"token", "begin", "wait", "send"} =>
         /\ req[r].source \in Sources
         /\ source[req[r].source] # Unborn
         /\ Keyed(req[r].source, r)
    /\ req[r].at = "fill" =>
         /\ Usable(r) = {}
         /\ \E s \in Sources : source[s] = Unborn

\* The connection the controller is changing, and the token it changes it for.
ControlSound ==
    /\ ctl.at # "idle" => changes # 0
    /\ ctl.at \in {"commit", "put", "activate"} => ctl.token \in Token
    /\ ctl.at = "commit" =>
         /\ row.state # "disconnecting"
         /\ ctl.token.rotation = 0 \/ (stored = ctl.token /\ ~ poisoned)
    /\ ctl.at = "lookup" => row.state # "disconnecting"
    /\ ctl.at \in {"put", "activate"} => row.state = "pending"
    /\ ctl.at = "activate" => stored = ctl.token /\ ~ poisoned
    /\ ctl.at = "begin" => row.account # 0
    /\ ctl.at \in {"evict", "revoke", "relock", "erase"} => row.state = "disconnecting"

IInv ==
    /\ TypeOK
    /\ LockHeld
    /\ OneJob
    /\ JobsSafe
    /\ Operations
    /\ SourcesSound
    /\ \A r \in Requests : RequestSound(r)
    /\ ControlSound
    /\ StoredIssued
    /\ ActiveRowHasItsToken
    /\ NoResurrection

(***************************************************************************)
(* Initial states                                                          *)
(***************************************************************************)

\* Before the first request there is no connection, no client, no token and
\* no operation (NewNativeProvider, NewSecretsTokenStore).
LEMMA InitIInv == Init => IInv
  <1> USE ProcessesAssumption, BoundsAssumption
  <1> SUFFICES ASSUME Init PROVE IInv
    OBVIOUS
  <1>1. TypeOK
    <2>1. StoreTypeOK
      <3>1. Only("none") \in Result
        BY DEF Only, Result
      <3>2. NoCall \in CallStates
        BY <3>1 DEF NoCall, CallStates, Steps, Ops
      <3>3. Idle \in Jobs
        BY DEF Idle, Jobs, Ops
      <3>4. poisoned \in BOOLEAN
        BY DEF Init, StoreInit
      <3>5. faults \in 0 .. MaxFaults
        BY DEF Init, StoreInit
      <3>6. stored \in Token \cup {NoToken} /\ worker \in Jobs /\ call \in [Callers -> CallStates]
        BY <3>2, <3>3 DEF Init, StoreInit
      <3>7. QED
        BY <3>4, <3>5, <3>6 DEF StoreTypeOK
    <2>2. Unborn \in SourceStates /\ NoReq \in RequestStates /\ NoCtl \in ControlStates
      BY DEF Unborn, NoReq, NoCtl, SourceStates, RequestStates, ControlStates
    <2>3. QED
      BY <2>1, <2>2 DEF Init, TypeOK
  <1>2. LockHeld
    BY DEF Init, LockHeld, Unborn, NoReq, NoCtl, Callers
  <1>3. OneJob
    BY DEF Init, StoreInit, OneJob, NoCall, Idle
  <1>4. JobsSafe
    BY DEF Init, StoreInit, JobsSafe, NoCall, Idle
  <1>5. Operations
    BY DEF Init, StoreInit, Operations, ControlOperation, Unborn, NoReq, NoCtl
  <1>6. SourcesSound
    BY DEF Init, SourcesSound, SourceSound, Live
  <1>7. \A r \in Requests : RequestSound(r)
    BY DEF Init, RequestSound, NoReq
  <1>8. ControlSound /\ ActiveRowHasItsToken /\ NoResurrection /\ StoredIssued
    BY DEF Init, StoreInit, ControlSound, ActiveRowHasItsToken, NoResurrection, StoredIssued,
           NoRow, NoCtl, NoToken
  <1>9. QED
    BY <1>1, <1>2, <1>3, <1>4, <1>5, <1>6, <1>7, <1>8 DEF IInv

(***************************************************************************)
(* Steps of one source, or of requests alone                               *)
(***************************************************************************)

\* The places where a request uses a source.
Using == {"token", "begin", "wait", "send"}

\* A request that goes on with its source, ends or starts over, or does not move.
GoesOn(r) ==
    \/ req'[r] = req[r]
    \/ req'[r].at \in {"idle", "lock"} /\ req[r].at # "fill"
    \/ /\ req[r].at \in Using /\ req'[r].at \in Using
       /\ req'[r].source = req[r].source
       /\ req'[r].account = req[r].account
       /\ req'[r].generation = req[r].generation

\* What a source keeps while it refreshes outside the lock.
SameClient(s, new) ==
    /\ new.account = source[s].account /\ new.generation = source[s].generation
    /\ new.fence = source[s].fence /\ new.cached = source[s].cached
    /\ source[s].invalid => new.invalid

\* The inner token may have been replaced by a later one; a refresh that has
\* succeeded has nothing left to store.
SoundMove(s, new) ==
    /\ new \in SourceStates
    /\ SameClient(s, new)
    /\ new.inner \in Token /\ new.inner.consent = source[s].inner.consent
    /\ source[s].inner.rotation <= new.inner.rotation
    /\ new.inner.rotation <= rotations'
    /\ new.refresh = source[s].refresh \/ (new.refresh = stored /\ new.inner = stored)
    /\ new.flight \in {"read", "write"} => ~ Blocked(s) /\ ~ new.invalid
    /\ new.flight # "none" => ~ new.current
    /\ ~ Blocked(s) /\ ~ new.invalid /\ (new.flight \in {"final", "won"} \/ new.current)
         => new.inner = new.refresh

\* A sound move of a source that neither holds the lock nor takes it.
QuietMove(s, new) ==
    /\ SoundMove(s, new)
    /\ new.refresh = source[s].refresh
    /\ source[s].flight \notin {"read", "write"} /\ new.flight \notin {"read", "write"}

\* A born source has an account, and is told from an unborn one by it.
LEMMA BornHasAccount ==
    ASSUME IInv, NEW s \in Sources, source[s] # Unborn
    PROVE  source[s].account \in AccountIds /\ source[s].account # 0
  BY DEF IInv, SourcesSound, SourceSound, AccountIds

\* What is known of a born source, for use one source at a time.
LEMMA BornSound ==
    ASSUME IInv, NEW s \in Sources, source[s] # Unborn
    PROVE  /\ source[s] \in SourceStates
           /\ source[s].inner \in Token /\ source[s].inner.rotation \in Nat
           /\ source[s].refresh \in Token /\ source[s].refresh.rotation \in Nat
           /\ source[s].inner.rotation <= rotations
           /\ source[s].flight # "none" => ~ source[s].current
           /\ ~ Blocked(s) /\ (source[s].flight \in {"final", "won"} \/ source[s].current)
                => source[s].inner = source[s].refresh
  <1>1. source[s] \in SourceStates
    BY DEF IInv, TypeOK
  <1>2. source[s].inner \in Token /\ source[s].refresh \in Token
    BY DEF IInv, SourcesSound, SourceSound
  <1>3. source[s].inner.rotation \in Nat /\ source[s].refresh.rotation \in Nat
    BY <1>2 DEF Token
  <1>4. QED
    BY <1>1, <1>2, <1>3 DEF IInv, SourcesSound, SourceSound

\* A sound move of one source, whoever holds the lock, leaves sound sources and
\* requests, and what was safe to store (token, runRefresh, persistRotated).
LEMMA SourceMoveSound ==
    ASSUME IInv, NEW s \in Sources, source[s] # Unborn,
           NEW new, source' = [source EXCEPT ![s] = new], SoundMove(s, new),
           \/ UNCHANGED rotations
           \/ rotations < MaxRotations /\ rotations' = rotations + 1,
           UNCHANGED <<stored, row, fence, ctl>>
    PROVE  /\ source' \in [Sources -> SourceStates] /\ rotations' \in 0 .. MaxRotations
           /\ \A x \in Sources : source'[x] = IF x = s THEN new ELSE source[x]
           /\ SourcesSound' /\ StoredIssued' /\ ActiveRowHasItsToken' /\ NoResurrection'
           /\ \A r \in Requests :
                 req' \in [Requests -> RequestStates] /\ GoesOn(r) => RequestSound(r)'
           /\ new.refresh = source[s].refresh => \A op, t : JobSafe(op, t) => JobSafe(op, t)'
  <1> USE DEF IInv, SoundMove
  <1>0. rotations <= rotations' /\ rotations' \in 0 .. MaxRotations
    BY BoundsAssumption DEF TypeOK
  <1>1. \A x \in Sources : source'[x] = IF x = s THEN new ELSE source[x]
    BY DEF TypeOK
  <1>2. \A x \in Sources : source[x] = Unborn <=> source'[x] = Unborn
    <2>1. new.account # 0
      BY BornHasAccount DEF SameClient
    <2>2. new # Unborn
      BY <2>1 DEF Unborn
    <2>3. QED
      BY <1>1, <2>2
  <1>3. \A x \in Sources : Live(x)' => Live(x)
    BY <1>1, <1>2 DEF Live, Blocked, SameClient
  <1>4. ASSUME NEW x \in Sources, NEW t \in Token, Between(x, t), source[x] # Unborn,
               x # s \/ new.refresh = source[s].refresh
        PROVE  Between(x, t)'
    BY <1>1, <1>4 DEF Between, SameClient, SourcesSound, SourceSound, Token, TypeOK
  <1>8. ASSUME NEW op, NEW t, JobSafe(op, t), new.refresh = source[s].refresh
        PROVE  JobSafe(op, t)'
    <2>1. \A x \in Sources : op = "put" /\ Live(x)' => Between(x, t)'
      BY <1>3, <1>4, <1>8 DEF JobSafe, Live
    <2>2. op = "put" => t.rotation <= rotations'
      BY <1>0, <1>8 DEF JobSafe, Token, TypeOK
    <2>3. QED
      BY <1>8, <2>1, <2>2 DEF JobSafe
  <1>11. SourcesSound'
    <2>1. ASSUME NEW x \in Sources, x # s PROVE SourceSound(x)'
      <3>1. source'[x] = source[x]
        BY <1>1, <2>1
      <3>2. Blocked(x)' <=> Blocked(x)
        BY <3>1 DEF Blocked
      <3>3. SourceSound(x)
        BY DEF SourcesSound
      <3>4. CASE source[x] = Unborn
        BY <3>1, <3>4 DEF SourceSound
      <3>5. CASE source[x] # Unborn
        <4>1. source[x].inner.rotation <= rotations'
          BY <1>0, <3>5, BornSound DEF TypeOK
        <4>2. QED
          BY <3>1, <3>2, <3>3, <3>5, <4>1 DEF SourceSound, Standing, Ending, LiveFor, Between
      <3>6. QED
        BY <3>4, <3>5
    <2>2. SourceSound(s)'
      <3>1. SourceSound(s)
        BY DEF SourcesSound
      <3>2. source'[s] = new
        BY <1>1
      <3>3. /\ new.account \in AccountIds /\ new.fence <= fence'[new.account]
            /\ new.refresh \in Token /\ new.inner \in Token
            /\ new.cached \/ new.invalid
        BY <3>1 DEF SourceSound, SameClient
      <3>6. new.flight \in {"read", "write"} => ~ Blocked(s)'
        BY <3>2 DEF Blocked, SameClient
      <3>4. ASSUME ~ Blocked(s)'
            PROVE  /\ Standing(new.account, new.generation)'
                   /\ Between(s, stored)'
                   /\ new.flight \in {"final", "won"} \/ new.current => new.inner = new.refresh
        <4>1. ~ Blocked(s) /\ ~ new.invalid
          BY <3>2, <3>4 DEF Blocked, SameClient
        <4>2. Standing(source[s].account, source[s].generation) /\ Between(s, stored)
          BY <3>1, <4>1 DEF SourceSound
        <4>3. stored \in Token
          <5>1. stored.consent # 0
            BY <3>1, <4>1, <4>2 DEF SourceSound, Between, Token
          <5>2. QED
            BY <5>1 DEF TypeOK, StoreTypeOK, NoToken
        <4>4. Between(s, stored)'
          <5>1. CASE new.refresh = source[s].refresh
            BY <1>4, <4>2, <4>3, <5>1 DEF Between
          <5>2. CASE new.refresh = stored /\ new.inner = stored
            BY <3>2, <4>3, <5>2 DEF Between, Token
          <5>3. QED
            BY <5>1, <5>2
        <4>5. QED
          BY <4>1, <4>2, <4>4 DEF Standing, Ending, LiveFor, SameClient
      <3>5. QED
        BY <3>2, <3>3, <3>4, <3>6 DEF SourceSound
    <2>3. QED
      BY <1>3, <2>1, <2>2 DEF SourcesSound
  <1>12. ASSUME req' \in [Requests -> RequestStates], NEW r \in Requests, GoesOn(r)
         PROVE  RequestSound(r)'
    <2>1. CASE req'[r].at \in {"idle", "lock"}
      BY <2>1 DEF RequestSound
    <2>2. CASE req'[r].at = "fill"
      <3>1. req'[r] = req[r]
        BY <1>12, <2>2 DEF GoesOn, NoReq, Using
      <3>2. Usable(r) = {} /\ \E x \in Sources : source[x] = Unborn
        BY <2>2, <3>1 DEF RequestSound
      <3>3. Usable(r)' = {}
        BY <1>1, <3>1, <3>2 DEF Usable, Keyed, SameClient
      <3>4. QED
        BY <1>2, <2>2, <3>2, <3>3 DEF RequestSound
    <2>3. CASE req'[r].at \in Using
      <3>1. /\ req[r].at \in Using /\ req'[r].source = req[r].source
            /\ req'[r].account = req[r].account /\ req'[r].generation = req[r].generation
        BY <1>12, <2>3 DEF GoesOn, NoReq, Using
      <3>2. /\ req[r].source \in Sources /\ source[req[r].source] # Unborn
            /\ Keyed(req[r].source, r)
        BY <3>1 DEF RequestSound, Using
      <3>3. Keyed(req[r].source, r)'
        BY <1>1, <3>1, <3>2 DEF Keyed, SameClient
      <3>4. QED
        BY <1>2, <2>3, <3>1, <3>2, <3>3 DEF RequestSound, Using
    <2>4. QED
      BY <1>12, <2>1, <2>2, <2>3 DEF GoesOn, Using, RequestStates
  <1>13. ActiveRowHasItsToken' /\ NoResurrection' /\ StoredIssued'
    <2>1. stored.rotation \in Nat
      BY DEF TypeOK, StoreTypeOK, Token, NoToken
    <2>2. QED
      BY <1>0, <2>1 DEF ActiveRowHasItsToken, NoResurrection, StoredIssued, TypeOK
  <1>14. source' \in [Sources -> SourceStates]
    BY DEF TypeOK
  <1>15. QED
    BY <1>0, <1>1, <1>8, <1>11, <1>12, <1>13, <1>14

\* A step of one source that does not touch the store, the row or the lock
\* keeps the invariant, if what it leaves is sound.
LEMMA SourceMove ==
    ASSUME IInv, NEW s \in Sources, source[s] # Unborn,
           NEW new, source' = [source EXCEPT ![s] = new], QuietMove(s, new),
           \/ UNCHANGED rotations
           \/ rotations < MaxRotations /\ rotations' = rotations + 1,
           req' \in [Requests -> RequestStates],
           \A r \in Requests : GoesOn(r),
           UNCHANGED <<store, row, lock, fence, ctl, changes, faults>>
    PROVE  IInv'
  <1> USE DEF IInv, QuietMove
  <1>1. UNCHANGED <<stored, poisoned, worker, call, row, fence, ctl>>
    BY DEF store
  <1>2. /\ source' \in [Sources -> SourceStates] /\ rotations' \in 0 .. MaxRotations
        /\ \A x \in Sources : source'[x] = IF x = s THEN new ELSE source[x]
        /\ SourcesSound' /\ StoredIssued' /\ ActiveRowHasItsToken' /\ NoResurrection'
        /\ \A r \in Requests : RequestSound(r)'
    BY <1>1, SourceMoveSound
  <1>3. \A op, t : JobSafe(op, t) => JobSafe(op, t)'
    BY <1>1, SourceMoveSound
  <1>4. TypeOK'
    BY <1>1, <1>2 DEF TypeOK, StoreTypeOK
  <1>5. LockHeld'
    BY <1>2 DEF LockHeld, GoesOn, NoReq, Using
  <1>6. OneJob'
    BY <1>1 DEF OneJob, ReplyStands
  <1>7. JobsSafe'
    BY <1>1, <1>3 DEF JobsSafe
  <1>8. Operations'
    BY <1>1, <1>2 DEF Operations, ControlOperation, Reading, Putting, Deleting, GoesOn, NoReq, Using
  <1>9. ControlSound'
    BY <1>1 DEF ControlSound
  <1>10. QED
    BY <1>2, <1>4, <1>5, <1>6, <1>7, <1>8, <1>9

\* The moves of a request are sound requests.
LEMMA RequestMoves ==
    ASSUME IInv, NEW r \in Requests
    PROVE  /\ NoReq \in RequestStates
           /\ req[r] \in RequestStates
           /\ req \in [Requests -> RequestStates]
           /\ Fail(r) => req' \in [Requests -> RequestStates]
           /\ \A at \in Using : Move(r, at) => req' \in [Requests -> RequestStates]
           /\ Fail(r) /\ req[r].at # "fill" => \A x \in Requests : GoesOn(x)
           /\ \A at \in Using : Move(r, at) /\ req[r].at \in Using => \A x \in Requests : GoesOn(x)
           /\ UNCHANGED req => \A x \in Requests : GoesOn(x)
  <1>1. NoReq \in RequestStates
    BY BoundsAssumption DEF NoReq, RequestStates
  <1>2. req[r] \in RequestStates /\ req \in [Requests -> RequestStates]
    BY DEF IInv, TypeOK
  <1>3. \A at \in Using : [req[r] EXCEPT !.at = at] \in RequestStates
    BY <1>2 DEF RequestStates, Using
  <1>4. Fail(r) => req' \in [Requests -> RequestStates]
    BY <1>1, <1>2 DEF Fail
  <1>5. \A at \in Using : Move(r, at) => req' \in [Requests -> RequestStates]
    BY <1>2, <1>3 DEF Move
  <1>6. Fail(r) /\ req[r].at # "fill" => \A x \in Requests : GoesOn(x)
    BY <1>2 DEF Fail, GoesOn, NoReq
  <1>7. \A at \in Using : Move(r, at) /\ req[r].at \in Using => \A x \in Requests : GoesOn(x)
    BY <1>2 DEF Move, GoesOn, RequestStates
  <1>8. QED
    BY <1>1, <1>2, <1>4, <1>5, <1>6, <1>7 DEF GoesOn

\* A step of requests alone keeps the invariant.
LEMMA RequestMove ==
    ASSUME IInv, req' \in [Requests -> RequestStates],
           \A r \in Requests :
              \/ GoesOn(r)
              \/ req[r].at # "fill" /\ req'[r].at \in Using /\ RequestSound(r)',
           UNCHANGED <<store, row, lock, fence, source, ctl, changes, rotations, faults>>
    PROVE  IInv'
  <1> USE DEF IInv
  <1>1. TypeOK'
    BY DEF TypeOK, StoreTypeOK, store
  <1>2. LockHeld'
    BY DEF LockHeld, GoesOn, NoReq, Using
  <1>3. OneJob' /\ ControlSound' /\ ActiveRowHasItsToken' /\ NoResurrection' /\ StoredIssued'
    BY DEF OneJob, ReplyStands, ControlSound, ActiveRowHasItsToken, NoResurrection, StoredIssued, store
  <1>8. JobsSafe'
    BY DEF JobsSafe, JobSafe, Live, Blocked, Between, store
  <1>7. SourcesSound'
    BY DEF SourcesSound, SourceSound, Live, Blocked, Standing, Ending, LiveFor, Between, store
  <1>4. Operations'
    BY DEF Operations, ControlOperation, Reading, Putting, Deleting, store, GoesOn, NoReq, Using
  <1>5. ASSUME NEW r \in Requests PROVE RequestSound(r)'
    BY DEF RequestSound, GoesOn, NoReq, Using, Keyed, Usable
  <1>6. QED
    BY <1>1, <1>2, <1>3, <1>4, <1>5, <1>7, <1>8

\* A request that checks its source is refused when the source is fenced off;
\* what it finds is noted in the source (token, blocked).
LEMMA EnterTokenKeeps ==
    ASSUME IInv, NEW r \in Requests, EnterToken(r)
    PROVE  IInv'
  <1> DEFINE s   == req[r].source
             new == [source[s] EXCEPT !.invalid = Blocked(s)]
  <1>1. s \in Sources /\ source[s] # Unborn
    BY DEF EnterToken, IInv, RequestSound
  <1>2. source[s] \in SourceStates
    BY <1>1, BornSound
  <1>3. new \in SourceStates
    BY <1>2 DEF SourceStates, Blocked
  <1>4. source' = [source EXCEPT ![s] = new]
    BY <1>1, <1>2 DEF EnterToken, Noticed, SourceStates
  <1>6. req' \in [Requests -> RequestStates] /\ \A x \in Requests : GoesOn(x)
    BY RequestMoves DEF EnterToken, Using
  <1>7. CASE source[s].flight \in {"read", "write"}
    <2>1. ~ Blocked(s)
      BY <1>1, <1>7 DEF IInv, SourcesSound, SourceSound
    <2>2. source[s].invalid = FALSE
      BY <1>2, <2>1 DEF Blocked, SourceStates
    <2>3. [source[s] EXCEPT !.invalid = FALSE] = source[s]
      BY <1>2, <2>2 DEF SourceStates
    <2>4. Blocked(s) = FALSE
      BY <2>1 DEF Blocked
    <2>5. new = source[s]
      BY <2>3, <2>4
    <2>6. source' = source
      BY <1>1, <1>4, <2>5 DEF IInv, TypeOK
    <2>7. QED
      BY <1>6, <2>6, RequestMove DEF EnterToken
  <1>8. CASE source[s].flight \notin {"read", "write"}
    <2>1. SameClient(s, new)
      BY <1>2 DEF SameClient, Blocked, SourceStates
    <2>2. /\ new.inner = source[s].inner /\ new.refresh = source[s].refresh
          /\ new.flight = source[s].flight /\ new.current = source[s].current
      BY <1>2 DEF SourceStates
    <2>3. QuietMove(s, new)
      BY <1>1, <1>3, <1>8, <2>1, <2>2, BornSound DEF QuietMove, SoundMove, EnterToken
    <2>4. QED
      BY <1>1, <1>4, <1>6, <2>3, SourceMove DEF EnterToken
  <1>9. QED
    BY <1>7, <1>8

\* A request that has a current token is sent; another joins the source's
\* refresh, or starts it (beginRefresh).
LEMMA BeginRefreshKeeps ==
    ASSUME IInv, NEW r \in Requests, BeginRefresh(r)
    PROVE  IInv'
  <1> DEFINE s   == req[r].source
             new == [source[s] EXCEPT !.flight = "exchange"]
  <1>1. s \in Sources /\ source[s] # Unborn
    BY DEF BeginRefresh, IInv, RequestSound
  <1>2. source[s] \in SourceStates
    BY <1>1, BornSound
  <1>3. req' \in [Requests -> RequestStates] /\ \A x \in Requests : GoesOn(x)
    BY RequestMoves DEF BeginRefresh, Using
  <1>4. CASE source' = source
    BY <1>3, <1>4, RequestMove DEF BeginRefresh
  <1>5. CASE source' # source
    <2>1. ~ source[s].current /\ source[s].flight = "none"
      BY <1>5 DEF BeginRefresh
    <2>2. source' = [source EXCEPT ![s] = new]
      BY <1>5, <2>1 DEF BeginRefresh
    <2>3. QuietMove(s, new)
      BY <1>1, <1>2, <2>1, BornSound DEF QuietMove, SoundMove, SameClient, SourceStates, BeginRefresh
    <2>4. QED
      BY <1>1, <1>3, <2>2, <2>3, SourceMove DEF BeginRefresh
  <1>6. QED
    BY <1>4, <1>5

\* A call that starts, is sent or is given up moves only its own request
\* (HTTPClient, token).
LEMMA RequestStepsKeep ==
    ASSUME IInv, NEW r \in Requests, Resolve(r) \/ Send(r) \/ CancelRequest(r)
    PROVE  IInv'
  <1>1. CASE Send(r) \/ CancelRequest(r)
    <2>1. Fail(r) /\ req[r].at # "fill"
      BY <1>1 DEF Send, CancelRequest
    <2>2. QED
      BY <1>1, <2>1, RequestMoves, RequestMove DEF Send, CancelRequest
  <1>2. CASE Resolve(r)
    <2>1. row.account \in AccountIds /\ row.generation \in Nat
      BY <1>2 DEF Resolve, IInv, TypeOK, RowStates, NoRow
    <2> DEFINE new == [at |-> "lock", account |-> row.account,
                       generation |-> row.generation, source |-> NoOne]
    <2>2. new \in RequestStates /\ new.at = "lock"
      BY <2>1, BoundsAssumption DEF RequestStates, AccountIds
    <2>3. req' = [req EXCEPT ![r] = new] /\ req[r].at = "idle"
      BY <1>2 DEF Resolve
    <2>4. req' \in [Requests -> RequestStates] /\ \A x \in Requests : GoesOn(x)
      BY <2>2, <2>3 DEF IInv, TypeOK, GoesOn
    <2>5. QED
      BY <1>2, <2>4, RequestMove DEF Resolve
  <1>3. QED
    BY <1>1, <1>2

\* An exchange leaves an unexpired access token, with the refresh token it was
\* made with or a later one, or loses the refresh (runRefresh).
LEMMA ExchangeKeeps ==
    ASSUME IInv, NEW s \in Sources, Exchange(s)
    PROVE  IInv'
  <1>1. source[s].flight = "exchange" /\ source[s] # Unborn
    BY DEF Exchange, Unborn
  <1>2. source[s] \in SourceStates /\ ~ source[s].current
    BY <1>1, BornSound
  <1>3. \A r \in Requests : GoesOn(r)
    BY DEF Exchange, GoesOn
  <1>4. req' \in [Requests -> RequestStates] /\ rotations \in 0 .. MaxRotations
    BY DEF Exchange, IInv, TypeOK
  <1>5. ASSUME NEW new, source' = [source EXCEPT ![s] = new], QuietMove(s, new),
               UNCHANGED rotations \/ (rotations < MaxRotations /\ rotations' = rotations + 1)
        PROVE  IInv'
    BY <1>1, <1>3, <1>4, <1>5, SourceMove DEF Exchange
  <1>6. CASE source[s].fresh /\ Fly(s, "check") /\ UNCHANGED rotations
    <2> DEFINE new == [source[s] EXCEPT !.flight = "check"]
    <2>1. QuietMove(s, new)
      BY <1>1, <1>2, <1>6, BornSound DEF QuietMove, SoundMove, SameClient, SourceStates
    <2>2. QED
      BY <1>5, <1>6, <2>1 DEF Fly
  <1>7. CASE /\ source' = [source EXCEPT ![s].invalid = Blocked(s), ![s].flight = "lost"]
             /\ UNCHANGED rotations
    <2> DEFINE new == [source[s] EXCEPT !.invalid = Blocked(s), !.flight = "lost"]
    <2>1. new \in SourceStates /\ SameClient(s, new)
      BY <1>2 DEF SameClient, SourceStates, Blocked
    <2>2. QuietMove(s, new)
      BY <1>1, <1>2, <1>7, <2>1, BornSound DEF QuietMove, SoundMove, SourceStates
    <2>3. QED
      BY <1>5, <1>7, <2>2
  <1>8. CASE /\ source' = [source EXCEPT ![s].flight = "check", ![s].fresh = TRUE]
             /\ UNCHANGED rotations
    <2> DEFINE new == [source[s] EXCEPT !.flight = "check", !.fresh = TRUE]
    <2>1. new \in SourceStates /\ SameClient(s, new)
      BY <1>2 DEF SameClient, SourceStates
    <2>2. /\ new.inner = source[s].inner /\ new.refresh = source[s].refresh
          /\ new.flight = "check" /\ new.current = source[s].current
      BY <1>2 DEF SourceStates
    <2>3. source' = [source EXCEPT ![s] = new]
      BY <1>8
    <2> HIDE DEF new
    <2>4. QuietMove(s, new)
      BY <1>1, <1>2, <1>8, <2>1, <2>2, BornSound DEF QuietMove, SoundMove
    <2>5. QED
      BY <1>5, <1>8, <2>3, <2>4
  <1>9. CASE /\ rotations < MaxRotations /\ rotations' = rotations + 1
             /\ source' = [source EXCEPT ![s].flight = "check", ![s].fresh = TRUE,
                                         ![s].inner.rotation = rotations + 1]
    <2> DEFINE token == [source[s].inner EXCEPT !.rotation = rotations + 1]
               new   == [source[s] EXCEPT !.flight = "check", !.fresh = TRUE, !.inner = token]
    <2>1. /\ token \in Token /\ token.consent = source[s].inner.consent
          /\ token.rotation = rotations + 1
      BY <1>1, <1>4, <1>9, BornSound, BoundsAssumption DEF Token
    <2>2. new \in SourceStates /\ SameClient(s, new)
      BY <1>2, <2>1 DEF SameClient, SourceStates
    <2>3. /\ new.inner = token /\ new.refresh = source[s].refresh
          /\ new.flight = "check" /\ new.current = source[s].current
      BY <1>2 DEF SourceStates
    <2>4. source' = [source EXCEPT ![s] = new]
      BY <1>2, <1>9 DEF SourceStates
    <2> HIDE DEF new, token
    <2>5. QuietMove(s, new)
      BY <1>1, <1>2, <1>4, <1>9, <2>1, <2>2, <2>3, BornSound DEF QuietMove, SoundMove
    <2>6. QED
      BY <1>5, <1>9, <2>4, <2>5
  <1>10. QED
    BY <1>6, <1>7, <1>8, <1>9 DEF Exchange

\* The checks before and after storing, an expired deadline and an expired
\* access token touch only their source (persistRotated, runRefresh).
LEMMA SourceStepsKeep ==
    ASSUME IInv, NEW s \in Sources,
           CheckRotated(s) \/ GiveUpLock(s) \/ CheckFinal(s) \/ AccessExpires(s)
    PROVE  IInv'
  <1>1. /\ source[s] # Unborn
        /\ source[s].flight \in {"none", "check", "lock", "final"}
    BY DEF CheckRotated, GiveUpLock, CheckFinal, AccessExpires, Unborn
  <1>2. source[s] \in SourceStates
    BY <1>1, BornSound
  <1>3. \A r \in Requests : GoesOn(r)
    BY DEF CheckRotated, GiveUpLock, CheckFinal, AccessExpires, GoesOn
  <1>4. req' \in [Requests -> RequestStates]
    BY DEF CheckRotated, GiveUpLock, CheckFinal, AccessExpires, IInv, TypeOK
  <1>5. ASSUME NEW new, source' = [source EXCEPT ![s] = new], QuietMove(s, new)
        PROVE  IInv'
    BY <1>1, <1>3, <1>4, <1>5, SourceMove
       DEF CheckRotated, GiveUpLock, CheckFinal, AccessExpires
  <1>6. UNCHANGED rotations
    BY DEF CheckRotated, GiveUpLock, CheckFinal, AccessExpires
  <1>7. CASE CheckRotated(s) \/ CheckFinal(s)
    <2>1. PICK at \in {"lost", "final", "lock", "won"} :
             /\ source' = [source EXCEPT ![s].invalid = Blocked(s), ![s].flight = at]
             /\ ~ Blocked(s) /\ at \in {"final", "won"} => source[s].inner = source[s].refresh
      <3>1. CASE CheckRotated(s)
        BY <3>1 DEF CheckRotated
      <3>2. CASE CheckFinal(s)
        BY <1>1, <3>2, BornSound DEF CheckFinal
      <3>3. QED
        BY <1>7, <3>1, <3>2
    <2> DEFINE new == [source[s] EXCEPT !.invalid = Blocked(s), !.flight = at]
    <2>2. new \in SourceStates /\ SameClient(s, new)
      BY <1>2 DEF SameClient, SourceStates, Blocked
    <2>3. source[s].flight # "none"
      BY <1>7 DEF CheckRotated, CheckFinal
    <2>4. QuietMove(s, new)
      BY <1>1, <1>2, <1>6, <2>1, <2>2, <2>3, BornSound DEF QuietMove, SoundMove, SourceStates
    <2>5. QED
      BY <1>5, <2>1, <2>4
  <1>8. CASE GiveUpLock(s)
    <2> DEFINE new == [source[s] EXCEPT !.flight = "lost"]
    <2>1. QuietMove(s, new)
      BY <1>1, <1>2, <1>6, <1>8, BornSound DEF QuietMove, SoundMove, SameClient, SourceStates, GiveUpLock
    <2>2. QED
      BY <1>5, <1>8, <2>1 DEF GiveUpLock, Fly
  <1>9. CASE AccessExpires(s)
    <2> DEFINE new == [source[s] EXCEPT !.fresh = FALSE, !.current = FALSE]
    <2>1. new \in SourceStates /\ SameClient(s, new)
      BY <1>2 DEF SameClient, SourceStates
    <2>2. /\ new.inner = source[s].inner /\ new.refresh = source[s].refresh
          /\ new.flight = "none" /\ ~ new.current
      BY <1>2, <1>9 DEF SourceStates, AccessExpires
    <2>3. source' = [source EXCEPT ![s] = new]
      BY <1>9 DEF AccessExpires
    <2> HIDE DEF new
    <2>4. QuietMove(s, new)
      BY <1>1, <1>2, <1>6, <2>1, <2>2, BornSound DEF QuietMove, SoundMove
    <2>5. QED
      BY <1>5, <2>3, <2>4
  <1>10. QED
    BY <1>7, <1>8, <1>9

\* The end of a refresh gives its token to the requests that waited for it, if
\* it has one (finishRefresh).
LEMMA EndRefreshKeeps ==
    ASSUME IInv, NEW s \in Sources, EndRefresh(s)
    PROVE  IInv'
  <1> DEFINE won == source[s].flight = "won"
             new == [source[s] EXCEPT !.flight = "none", !.current = won \/ @]
  <1>1. source[s] # Unborn /\ source[s].flight \in {"won", "lost"}
    BY DEF EndRefresh, Unborn
  <1>2. source[s] \in SourceStates /\ ~ source[s].current
    BY <1>1, BornSound
  <1>3. new \in SourceStates /\ SameClient(s, new)
    BY <1>2 DEF SourceStates, SameClient
  <1>4. QuietMove(s, new)
    BY <1>1, <1>2, <1>3, BornSound DEF QuietMove, SoundMove, SourceStates, EndRefresh
  <1>5. source' = [source EXCEPT ![s] = new]
    BY <1>2 DEF EndRefresh, SourceStates
  <1>6. ASSUME NEW r \in Requests PROVE req'[r] \in RequestStates /\ GoesOn(r)
    <2>1. req[r] \in RequestStates /\ NoReq \in RequestStates
      BY RequestMoves
    <2>2. CASE req[r].at # "wait" \/ req[r].source # s
      BY <2>1, <2>2 DEF EndRefresh, GoesOn
    <2>3. CASE req[r].at = "wait" /\ req[r].source = s
      <3>1. req'[r] = IF won THEN [req[r] EXCEPT !.at = "send"] ELSE NoReq
        BY <2>3 DEF EndRefresh
      <3>2. CASE won
        BY <2>1, <2>3, <3>1, <3>2 DEF GoesOn, RequestStates, Using
      <3>3. CASE ~ won
        BY <2>1, <2>3, <3>1, <3>3 DEF GoesOn, NoReq
      <3>4. QED
        BY <3>2, <3>3
    <2>4. QED
      BY <2>2, <2>3
  <1>7. req' \in [Requests -> RequestStates]
    BY <1>6 DEF EndRefresh
  <1>8. QED
    BY <1>1, <1>4, <1>5, <1>6, <1>7, SourceMove DEF EndRefresh

(***************************************************************************)
(* The store, seen from its callers                                        *)
(***************************************************************************)

\* Nobody is in an operation while the lock is free, and its holder alone may be.
LEMMA OnlyHolderCalls ==
    ASSUME IInv, NEW c \in Callers, c # lock
    PROVE  call[c].step = "none"
  BY DEF IInv, OneJob

\* An operation that is entered is offered to the worker, or refused at once
\* by a poisoned store (do).
LEMMA AskSound ==
    ASSUME IInv, NEW c \in Callers, \A x \in Callers : call[x].step = "none",
           NEW op \in Ops, NEW t \in Token \cup {NoToken}, Ask(c, op, t), lock' = c,
           UNCHANGED <<stored, poisoned, worker>>
    PROVE  /\ call' \in [Callers -> CallStates]
           /\ OneJob'
           /\ \A x \in Callers \ {c} : call'[x].step = "none"
           /\ \/ call'[c].step = "offer" /\ call'[c].op = op /\ call'[c].token = t
              \/ /\ call'[c].step = "replied" /\ ~ Answered(call'[c].reply)
                 /\ call'[c].op = "get"
  <1>1. NoCall \in CallStates /\ Only("unavailable") \in Result
    BY DEF NoCall, CallStates, Only, Result, Steps, Ops
  <1>2. Asked(op, t) \in CallStates
    BY <1>1 DEF Asked, CallStates, Steps, NoCall
  <1>3. \/ ~ poisoned /\ Asked(op, t).step = "offer" /\ Asked(op, t).op = op /\ Asked(op, t).token = t
        \/ /\ Asked(op, t).step = "replied" /\ ~ Answered(Asked(op, t).reply)
           /\ Asked(op, t).op = "get"
    BY DEF Asked, NoCall, Only, Answered
  <1>4. \A x \in Callers : call'[x] = IF x = c THEN Asked(op, t) ELSE call[x]
    BY DEF Ask, IInv, TypeOK, StoreTypeOK
  <1>5. call' \in [Callers -> CallStates]
    BY <1>2, <1>4 DEF Ask, IInv, TypeOK, StoreTypeOK
  <1>6. worker.phase # "idle" => poisoned
    BY DEF IInv, OneJob
  <1>7. OneJob'
    BY <1>3, <1>4, <1>6 DEF IInv, OneJob, ReplyStands
  <1>8. QED
    BY <1>3, <1>4, <1>5, <1>7

\* The holder's operation ends: what it found or did is true of the store, and
\* the worker is idle, unless the answer is an error.
LEMMA ReturnSound ==
    ASSUME IInv, NEW c \in Callers, lock = c, NEW res \in Result, NEW next, Returns(c, res, next)
    PROVE  /\ Answered(res) =>
                /\ ~ poisoned /\ worker = Idle /\ UNCHANGED <<poisoned, worker>>
                /\ call[c].step = "replied" /\ res = call[c].reply
                /\ ReplyStands(c)
           /\ worker' \in Jobs /\ poisoned' \in BOOLEAN /\ stored' = stored
           /\ worker'.phase = worker.phase /\ worker'.op = worker.op
           /\ worker'.token = worker.token
           /\ worker.phase = "idle" => worker' = worker
           /\ worker'.phase # "idle" => worker'.orphan /\ poisoned'
           /\ \A x \in Callers : call'[x] = IF x = c THEN next ELSE call[x]
           /\ next \in CallStates => call' \in [Callers -> CallStates]
  <1>1. worker \in Jobs /\ poisoned \in BOOLEAN /\ call \in [Callers -> CallStates]
    BY DEF IInv, TypeOK, StoreTypeOK
  <1>2. \A x \in Callers \ {c} : call[x].step = "none"
    BY OnlyHolderCalls
  <1>3. call' = [call EXCEPT ![c] = next] /\ stored' = stored
    BY DEF Returns
  <1>4. worker.phase # "idle" =>
          \/ poisoned /\ worker.orphan
          \/ ~ poisoned /\ worker.by = c /\ call[c].step = "wait"
    <2>1. ASSUME worker.phase # "idle", poisoned PROVE worker.orphan
      BY <2>1 DEF IInv, OneJob
    <2>2. ASSUME worker.phase # "idle", ~ poisoned PROVE worker.by = c /\ call[c].step = "wait"
      <3>1. worker.by \in Callers /\ call[worker.by].step = "wait"
        BY <2>2 DEF IInv, OneJob
      <3>2. QED
        BY <1>2, <3>1
    <2>3. QED
      BY <2>1, <2>2
  <1>5. \A x \in Callers : call'[x] = IF x = c THEN next ELSE call[x]
    BY <1>1, <1>3
  <1>6. next \in CallStates => call' \in [Callers -> CallStates]
    BY <1>1, <1>3
  <1>7. CASE Receive(c, res)
    <2>1. call[c].step = "replied" /\ res = call[c].reply /\ UNCHANGED <<poisoned, worker>>
      BY <1>7 DEF Receive
    <2>2. ReplyStands(c)
      BY <2>1 DEF IInv, OneJob
    <2>3. Answered(res) => ~ poisoned
      BY <2>1, <2>2 DEF ReplyStands
    <2>4. ~ poisoned => worker = Idle
      BY <1>4, <2>1 DEF IInv, OneJob
    <2>5. worker.phase # "idle" => worker.orphan /\ poisoned
      BY <1>4, <2>1
    <2>6. QED
      BY <1>1, <1>3, <1>5, <1>6, <2>1, <2>2, <2>3, <2>4, <2>5
  <1>8. CASE GiveUpOffer(c, res)
    <2>1. /\ call[c].step = "offer" /\ UNCHANGED <<poisoned, worker>>
          /\ ~ Answered(res)
      BY <1>8 DEF GiveUpOffer, Only, Answered
    <2>2. worker.phase # "idle" => worker.orphan /\ poisoned
      BY <1>4, <2>1
    <2>3. QED
      BY <1>1, <1>3, <1>5, <1>6, <2>1, <2>2
  <1>9. CASE GiveUpWait(c, res)
    <2>1. /\ call[c].step = "wait" /\ poisoned' = TRUE
          /\ worker' = [worker EXCEPT !.orphan = TRUE] /\ ~ Answered(res)
      BY <1>9 DEF GiveUpWait, Only, Answered
    <2>2. worker.phase # "idle"
      BY <2>1 DEF IInv, OneJob
    <2>3. /\ worker' \in Jobs /\ worker'.phase = worker.phase /\ worker'.op = worker.op
          /\ worker'.token = worker.token /\ worker'.orphan
      BY <1>1, <2>1 DEF Jobs
    <2>4. QED
      BY <1>3, <1>5, <1>6, <2>1, <2>2, <2>3
  <1>10. QED
    BY <1>7, <1>8, <1>9 DEF Returns

\* Nothing is under way once the holder's operation has returned and it enters
\* no other: an orphaned job alone may be left in a poisoned store.
LEMMA ReturnEnds ==
    ASSUME IInv, NEW c \in Callers, lock = c, NEW res \in Result, Returns(c, res, NoCall)
    PROVE  /\ OneJob'
           /\ call' \in [Callers -> CallStates]
           /\ \A x \in Callers : call'[x].step = "none"
  <1>1. NoCall \in CallStates /\ NoCall.step = "none"
    BY DEF NoCall, CallStates, Only, Result, Steps, Ops
  <1>2. \A x \in Callers : call'[x].step = "none"
    BY <1>1, ReturnSound, OnlyHolderCalls
  <1>3. worker'.phase = "idle" => worker' = Idle
    BY ReturnSound DEF IInv, OneJob
  <1>4. worker'.phase # "idle" =>
          /\ worker'.orphan <=> poisoned'
          /\ worker'.op = "get" => worker'.phase = "read"
          /\ worker'.op = "delete" => worker'.phase = "change"
          /\ poisoned'
    BY ReturnSound DEF IInv, OneJob
  <1>5. OneJob'
    BY <1>2, <1>3, <1>4 DEF OneJob
  <1>6. QED
    BY <1>1, <1>2, <1>5, ReturnSound

\* What is said of sources and of the connection does not depend on who holds
\* the lock, nor on where requests and operations stand, nor on where the
\* controller stands if it is not about to evict.
LEMMA SameConnection ==
    ASSUME IInv, UNCHANGED <<stored, row, fence, source, rotations>>,
           ctl.at = "evict" <=> ctl'.at = "evict"
    PROVE  /\ SourcesSound' /\ ActiveRowHasItsToken' /\ NoResurrection' /\ StoredIssued'
           /\ \A op, t : JobSafe(op, t) => JobSafe(op, t)'
  <1>1. SourcesSound'
    BY DEF IInv, SourcesSound, SourceSound, Live, Blocked, Standing, Ending, LiveFor, Between
  <1>2. ActiveRowHasItsToken' /\ NoResurrection' /\ StoredIssued'
    BY DEF IInv, ActiveRowHasItsToken, NoResurrection, StoredIssued
  <1>3. ASSUME NEW op, NEW t, JobSafe(op, t) PROVE JobSafe(op, t)'
    BY <1>3 DEF JobSafe, Live, Blocked, Between
  <1>4. QED
    BY <1>1, <1>2, <1>3

(***************************************************************************)
(* Steps under the lock: clients and refreshes                             *)
(***************************************************************************)

\* Under the lock a request is refused, finds a client of the identity it was
\* resolved to, or asks for the token to make one (HTTPClient, cachedClient).
LEMMA OpenClientKeeps ==
    ASSUME IInv, NEW r \in Requests, OpenClient(r)
    PROVE  IInv'
  <1> USE DEF IInv
  <1>1. req[r].at = "lock" /\ req[r] \in RequestStates /\ lock = NoOne
    BY DEF OpenClient, TypeOK
  <1>2. CASE Fail(r) /\ UNCHANGED <<call, lock>>
    BY <1>1, <1>2, RequestMoves, RequestMove DEF OpenClient, store
  <1>3. CASE (\E s \in Usable(r) : Use(r, s)) /\ UNCHANGED <<call, lock>>
    <2>1. PICK s \in Usable(r) : Use(r, s)
      BY <1>3
    <2>2. s \in Sources /\ source[s].cached /\ Keyed(s, r)
      BY <2>1 DEF Usable
    <2>3. source[s] # Unborn
      BY <2>2 DEF Unborn
    <2>4. /\ [req[r] EXCEPT !.at = "token", !.source = s] \in RequestStates
          /\ req' = [req EXCEPT ![r] = [req[r] EXCEPT !.at = "token", !.source = s]]
      BY <1>1, <2>1, <2>2 DEF Use, TypeOK, RequestStates
    <2>5. req' \in [Requests -> RequestStates]
      BY <2>4 DEF TypeOK
    <2>6. /\ req'[r].at = "token" /\ req'[r].source = s
          /\ req'[r].account = req[r].account /\ req'[r].generation = req[r].generation
      BY <1>1, <2>4 DEF TypeOK, RequestStates
    <2>7. RequestSound(r)'
      BY <2>2, <2>3, <2>6 DEF RequestSound, Keyed, OpenClient
    <2>8. \A x \in Requests \ {r} : GoesOn(x)
      BY <2>4 DEF GoesOn, TypeOK
    <2>9. QED
      BY <1>1, <1>3, <2>5, <2>6, <2>7, <2>8, RequestMove DEF OpenClient, Using, store
  <1>4. CASE /\ LiveFor(req[r].account, req[r].generation)
             /\ Usable(r) = {}
             /\ \E s \in Sources : source[s] = Unborn
             /\ lock' = r
             /\ Move(r, "fill")
             /\ Ask(r, "get", NoToken)
    <2>1. r \in Callers /\ "get" \in Ops /\ NoToken \in Token \cup {NoToken} /\ NoOne \notin Callers
      BY ProcessesAssumption DEF Callers, Ops
    <2>2. \A c \in Callers : call[c].step = "none"
      BY <1>1, <2>1, OnlyHolderCalls
    <2>3. UNCHANGED <<stored, poisoned, worker, row, fence, source, ctl, changes, rotations, faults>>
      BY DEF OpenClient
    <2>4. /\ call' \in [Callers -> CallStates] /\ OneJob'
          /\ \A x \in Callers \ {r} : call'[x].step = "none"
          /\ call'[r].op = "get" /\ call'[r].step # "none"
      BY <1>4, <2>1, <2>2, <2>3, AskSound
    <2>5. /\ req' \in [Requests -> RequestStates] /\ req'[r].at = "fill"
          /\ req'[r].account = req[r].account /\ req'[r].generation = req[r].generation
          /\ \A x \in Requests \ {r} : req'[x] = req[x]
      BY <1>1, <1>4 DEF Move, TypeOK, RequestStates
    <2>6. TypeOK'
      BY <1>4, <2>1, <2>3, <2>4, <2>5 DEF TypeOK, StoreTypeOK
    <2>7. LockHeld'
      BY <1>1, <1>4, <2>3, <2>5, ProcessesAssumption DEF LockHeld
    <2>8. JobsSafe'
      BY <2>3, <2>4, SameConnection DEF JobsSafe, JobSafe
    <2>9. Operations'
      BY <1>1, <2>3, <2>4, <2>5, ProcessesAssumption DEF LockHeld, Operations, ControlOperation, Reading
    <2>10. ASSUME NEW x \in Requests PROVE RequestSound(x)'
      BY <1>4, <2>3, <2>5 DEF RequestSound, Usable, Keyed
    <2>11. ControlSound'
      BY <2>3 DEF ControlSound
    <2>12. QED
      BY <2>3, <2>4, <2>6, <2>7, <2>8, <2>9, <2>10, <2>11, SameConnection
  <1>5. QED
    BY <1>2, <1>3, <1>4 DEF OpenClient

\* Garbage goes without a trace (no reference is left to it).
LEMMA CollectKeeps ==
    ASSUME IInv, NEW s \in Sources, Collect(s)
    PROVE  IInv'
  <1> USE DEF IInv
  <1>1. /\ source[s] # Unborn /\ ~ source[s].cached /\ source[s].flight = "none"
        /\ \A r \in Requests : req[r].source # s
        /\ UNCHANGED <<stored, poisoned, worker, call, row, lock, fence, req, ctl,
                       changes, rotations, faults>>
    BY DEF Collect, Garbage, store
  <1>2. \A x \in Sources : source'[x] = IF x = s THEN Unborn ELSE source[x]
    BY DEF Collect, TypeOK
  <1>3. Unborn.flight = "none" /\ ~ Unborn.cached /\ Unborn \in SourceStates
    BY BoundsAssumption DEF Unborn, SourceStates
  <1>4. source' \in [Sources -> SourceStates]
    BY <1>3 DEF Collect, TypeOK
  <1>5. TypeOK'
    BY <1>1, <1>4 DEF TypeOK, StoreTypeOK
  <1>6. LockHeld'
    BY <1>1, <1>2, <1>3 DEF LockHeld
  <1>7. OneJob'
    BY <1>1 DEF OneJob, ReplyStands
  <1>8. \A x \in Sources : Live(x)' => x # s /\ Live(x) /\ source'[x] = source[x]
    BY <1>1, <1>2 DEF Live, Blocked
  <1>9. ASSUME NEW op, NEW t, JobSafe(op, t) PROVE JobSafe(op, t)'
    BY <1>1, <1>8, <1>9 DEF JobSafe, Between
  <1>10. JobsSafe'
    BY <1>1, <1>9 DEF JobsSafe
  <1>11. Operations'
    BY <1>1, <1>2, <1>3 DEF Operations, ControlOperation, Reading, Putting, Deleting
  <1>12. ASSUME NEW x \in Sources, x # s PROVE SourceSound(x)'
    BY <1>1, <1>2, <1>12 DEF SourcesSound, SourceSound, Blocked, Standing, Ending, LiveFor, Between
  <1>13. SourcesSound'
    BY <1>2, <1>8, <1>12 DEF SourcesSound, SourceSound
  <1>14. ASSUME NEW r \in Requests PROVE RequestSound(r)'
    BY <1>1, <1>2, <1>3 DEF RequestSound, Keyed, Usable
  <1>15. ControlSound' /\ ActiveRowHasItsToken' /\ NoResurrection' /\ StoredIssued'
    BY <1>1 DEF ControlSound, ActiveRowHasItsToken, NoResurrection, StoredIssued
  <1>16. QED
    BY <1>5, <1>6, <1>7, <1>10, <1>11, <1>13, <1>14, <1>15

\* A client is made from the token read, in the place of an invalid one of the
\* same identity: it is the only live source (HTTPClient, cachedClient).
LEMMA FillClientKeeps ==
    ASSUME IInv, NEW r \in Requests, FillClient(r)
    PROVE  IInv'
  <1> USE DEF IInv
  <1>1. /\ req[r].at = "fill" /\ req[r] \in RequestStates /\ lock = r /\ lock' = NoOne
        /\ UNCHANGED <<row, fence, ctl, changes, rotations, faults>>
    BY DEF FillClient, LockHeld, TypeOK, Unlock
  <1>2. r \in Callers /\ NoOne \notin Callers
    BY ProcessesAssumption DEF Callers
  <1>3. PICK res \in Result :
          /\ Returns(r, res, NoCall)
          /\ \/ /\ res.kind = "ok"
                /\ LiveFor(req[r].account, req[r].generation)
                /\ Cached(NewSource, r, res.token) /\ Use(r, NewSource)
             \/ Fail(r) /\ UNCHANGED source
    BY DEF FillClient
  <1>4. /\ OneJob' /\ call' \in [Callers -> CallStates]
        /\ \A x \in Callers : call'[x].step = "none"
    BY <1>1, <1>2, <1>3, ReturnEnds
  <1>5. /\ worker' \in Jobs /\ poisoned' \in BOOLEAN /\ stored' = stored
        /\ worker'.phase = worker.phase /\ worker'.op = worker.op /\ worker'.token = worker.token
    BY <1>1, <1>2, <1>3, ReturnSound
  <1>6. \A x \in Requests \ {r} : req'[x] = req[x] /\ req[x].at # "fill"
    BY <1>1, <1>3 DEF Fail, Use, TypeOK, LockHeld
  <1>14. PICK n \in Sources : n = NewSource /\ source[n] = Unborn /\ Usable(r) = {}
    BY <1>1 DEF RequestSound, NewSource
  <1>15. /\ NoReq \in RequestStates /\ NoReq.at = "idle"
         /\ [req[r] EXCEPT !.at = "token", !.source = n] \in RequestStates
         /\ [req[r] EXCEPT !.at = "token", !.source = n].at = "token"
    BY <1>1, <1>14, RequestMoves DEF RequestStates, NoReq
  <1>7. req' \in [Requests -> RequestStates] /\ req'[r].at # "fill"
    BY <1>3, <1>14, <1>15 DEF Fail, Use, TypeOK
  <1>16. \A s \in Sources : source'[s].flight \in {source[s].flight, "none"}
    <2>1. CASE UNCHANGED source
      BY <2>1
    <2>2. CASE Cached(n, r, res.token)
      <3>1. ASSUME NEW s \in Sources, s # n PROVE source'[s].flight = source[s].flight
        BY <2>2, <3>1 DEF Cached, TypeOK, SourceStates
      <3>2. source'[n].flight = "none"
        BY <2>2, <1>14 DEF Cached, Born, Unborn
      <3>3. QED
        BY <3>1, <3>2
    <2>3. QED
      BY <1>3, <1>14, <2>1, <2>2
  <1>17. /\ \A s \in Sources : source'[s].flight \notin {"read", "write"}
         /\ ctl.at \notin {"lookup", "commit", "put", "activate", "begin", "evict", "erase"}
    BY <1>1, <1>16, ProcessesAssumption DEF LockHeld
  <1>8. LockHeld'
    BY <1>1, <1>2, <1>6, <1>7, <1>17 DEF LockHeld, Callers
  <1>9. Operations'
    BY <1>1, <1>6, <1>7, <1>17 DEF Operations, ControlOperation
  <1>10. ControlSound'
    BY <1>1, <1>5, <1>17 DEF ControlSound
  <1>11. CASE Fail(r) /\ UNCHANGED source
    <2>1. TypeOK'
      BY <1>1, <1>4, <1>5, <1>7, <1>11 DEF TypeOK, StoreTypeOK
    <2>2. JobsSafe'
      BY <1>1, <1>4, <1>5, <1>11, SameConnection DEF JobsSafe
    <2>3. ASSUME NEW x \in Requests PROVE RequestSound(x)'
      BY <1>6, <1>11 DEF RequestSound, Keyed, Fail, NoReq, TypeOK
    <2>4. QED
      BY <1>1, <1>4, <1>5, <1>8, <1>9, <1>10, <1>11, <2>1, <2>2, <2>3, SameConnection
  <1>12. CASE /\ res.kind = "ok"
              /\ LiveFor(req[r].account, req[r].generation)
              /\ Cached(NewSource, r, res.token) /\ Use(r, NewSource)
    <2> DEFINE rec == Born(r, res.token)
    <2>1. /\ worker = Idle /\ worker' = Idle /\ stored = res.token /\ res.token \in Token
      <3>1. worker = Idle /\ worker' = Idle /\ call[r].step = "replied" /\ res = call[r].reply /\ ReplyStands(r)
        BY <1>1, <1>2, <1>3, <1>12, ReturnSound DEF Answered
      <3>2. call[r].op = "get"
        BY <1>1 DEF Operations, ControlOperation, Reading
      <3>3. stored = res.token /\ res.token # NoToken
        BY <1>12, <3>1, <3>2 DEF ReplyStands, Answered
      <3>4. QED
        BY <3>1, <3>3 DEF TypeOK, StoreTypeOK
    <2>2. req[r].account \in AccountIds /\ req[r].account # 0
      BY <1>12 DEF LiveFor, TypeOK, RowStates, NoRow, AccountIds
    <2>3. /\ rec \in SourceStates /\ rec # Unborn
          /\ rec.account = req[r].account /\ rec.generation = req[r].generation
          /\ rec.fence = fence[req[r].account] /\ rec.cached /\ ~ rec.invalid
          /\ rec.refresh = stored /\ rec.inner = stored /\ rec.flight = "none" /\ ~ rec.current
      <3>1. fence[req[r].account] \in Nat
        BY <2>2 DEF TypeOK
      <3>2. Unborn \in SourceStates
        BY BoundsAssumption DEF SourceStates, Unborn
      <3>3. rec \in SourceStates
        BY <1>1, <2>1, <2>2, <3>1, <3>2 DEF Born, SourceStates, RequestStates
      <3>4. /\ rec.account = req[r].account /\ rec.generation = req[r].generation
            /\ rec.fence = fence[req[r].account] /\ rec.cached
            /\ rec.refresh = res.token /\ rec.inner = res.token
        BY <3>2 DEF Born, SourceStates
      <3>5. ~ rec.invalid /\ rec.flight = "none" /\ ~ rec.current
        BY DEF Born, Unborn
      <3>6. rec # Unborn
        BY <2>2, <3>4 DEF Unborn
      <3>7. QED
        BY <2>1, <3>3, <3>4, <3>5, <3>6
    <2>4. source'[n] = rec
      BY <1>12, <1>14 DEF Cached
    <2>5. ASSUME NEW x \in Sources, x # n
          PROVE  /\ source'[x] \in SourceStates
                 /\ source'[x] = IF Keyed(x, r) THEN [source[x] EXCEPT !.cached = FALSE]
                                 ELSE source[x]
      BY <1>12, <1>14, <2>5 DEF Cached, TypeOK, SourceStates
    <2> HIDE DEF rec
    <2>6. source' \in [Sources -> SourceStates]
      BY <1>12, <1>14, <2>3, <2>4, <2>5 DEF Cached
    <2>7. TypeOK'
      BY <1>1, <1>4, <1>5, <1>7, <2>6 DEF TypeOK, StoreTypeOK
    <2>8. JobsSafe'
      BY <1>4, <2>1 DEF JobsSafe, Idle
    <2>9. ASSUME NEW x \in Sources, x # n, source[x] # Unborn
          PROVE  Blocked(x) /\ (source'[x].cached \/ source[x].invalid)
      <3>1. SourceSound(x)
        BY DEF SourcesSound
      <3>2. ASSUME ~ source[x].invalid PROVE source[x].cached /\ ~ Keyed(x, r)
        <4>1. source[x].cached
          BY <2>9, <3>1, <3>2 DEF SourceSound
        <4>2. QED
          BY <1>14, <3>2, <4>1 DEF Usable
      <3>3. source[x] \in SourceStates
        BY DEF TypeOK
      <3>4. source[x].cached /\ ~ Keyed(x, r) => source'[x].cached
        BY <2>5, <2>9, <3>3 DEF SourceStates
      <3>5. ~ Blocked(x) => LiveFor(source[x].account, source[x].generation)
        BY <1>17, <2>9, <3>1 DEF SourceSound, Standing, Ending
      <3>6. Blocked(x)
        BY <1>12, <3>2, <3>5 DEF Blocked, LiveFor, Keyed
      <3>7. QED
        BY <3>2, <3>4, <3>6
    <2>10. ASSUME NEW x \in Sources, x # n PROVE SourceSound(x)' /\ ~ Live(x)'
      <3>1. SourceSound(x) /\ source[x] \in SourceStates
        BY DEF SourcesSound, TypeOK
      <3>2. CASE source[x] = Unborn
        <4>1. source'[x] = Unborn
          BY <2>2, <2>5, <2>10, <3>2 DEF Keyed, Unborn
        <4>2. QED
          BY <4>1 DEF SourceSound, Live
      <3>3. CASE source[x] # Unborn
        <4>1. /\ source'[x].account = source[x].account /\ source'[x].fence = source[x].fence
              /\ source'[x].invalid = source[x].invalid /\ source'[x].flight = source[x].flight
              /\ source'[x].inner = source[x].inner /\ source'[x].refresh = source[x].refresh
              /\ source'[x].current = source[x].current
          BY <2>5, <2>10, <3>1 DEF SourceStates
        <4>2. Blocked(x) /\ Blocked(x)' /\ (source'[x].cached \/ source'[x].invalid)
          BY <1>1, <2>9, <2>10, <3>3, <4>1 DEF Blocked
        <4>3. QED
          BY <1>1, <3>1, <3>3, <4>1, <4>2 DEF SourceSound, Live
      <3>4. QED
        BY <3>2, <3>3
    <2>11. SourceSound(n)'
      <3>1. Between(n, stored)'
        BY <1>5, <2>1, <2>3, <2>4 DEF Between, Token
      <3>2. row'.state = "active" /\ row'.account = rec.account /\ row'.generation = rec.generation
        BY <1>1, <1>12, <2>3 DEF LiveFor
      <3>3. fence[rec.account] \in Nat
        BY <2>2, <2>3 DEF TypeOK
      <3>4. source'[n].fence <= fence'[source'[n].account]
        <4>1. fence' = fence /\ fence[rec.account] <= fence[rec.account]
          BY <1>1, <3>3
        <4>2. source'[n].fence = fence[rec.account] /\ source'[n].account = rec.account
          BY <2>3, <2>4
        <4>3. QED
          BY <4>1, <4>2
      <3>5. /\ source'[n].account \in AccountIds
            /\ source'[n].refresh \in Token /\ source'[n].inner = source'[n].refresh
            /\ source'[n].cached /\ source'[n].flight = "none"
        BY <2>1, <2>2, <2>3, <2>4
      <3>8. source'[n].inner.rotation <= rotations'
        <4>1. rotations' = rotations
          BY <1>1
        <4>2. QED
          BY <2>1, <2>3, <2>4, <4>1 DEF StoredIssued
      <3>6. Standing(source[n].account, source[n].generation)'
        BY <2>4, <3>2 DEF Standing, LiveFor
      <3>7. QED
        BY <3>1, <3>4, <3>5, <3>6, <3>8 DEF SourceSound
    <2>12. SourcesSound'
      BY <2>10, <2>11 DEF SourcesSound
    <2>13. ASSUME NEW x \in Sources
           PROVE  /\ source[x] # Unborn => source'[x] # Unborn
                  /\ source[x] # Unborn => source'[x].account = source[x].account
                  /\ source[x] # Unborn => source'[x].generation = source[x].generation
      <3>1. CASE x = n
        BY <1>14, <3>1
      <3>2. CASE x # n
        <4>1. source[x] \in SourceStates
          BY DEF TypeOK
        <4>2. /\ source'[x].account = source[x].account
              /\ source'[x].generation = source[x].generation
          BY <2>5, <3>2, <4>1 DEF SourceStates
        <4>3. source[x] # Unborn => source'[x].account # 0
          BY <4>2, BornHasAccount
        <4>4. source[x] # Unborn => source'[x] # Unborn
          BY <4>3 DEF Unborn
        <4>5. QED
          BY <4>2, <4>4
      <3>3. QED
        BY <3>1, <3>2
    <2>14. ASSUME NEW x \in Requests PROVE RequestSound(x)'
      <3>1. CASE x = r
        <4>1. /\ req'[r].source = n /\ req'[r].account = req[r].account
              /\ req'[r].generation = req[r].generation /\ req'[r].at = "token"
          BY <1>1, <1>12, <1>14 DEF Use, TypeOK, RequestStates
        <4>2. QED
          BY <1>14, <2>3, <2>4, <3>1, <4>1 DEF RequestSound, Keyed
      <3>2. CASE x # r
        BY <1>6, <2>13, <3>2 DEF RequestSound, Keyed
      <3>3. QED
        BY <3>1, <3>2
    <2>15. QED
      BY <1>1, <1>4, <1>5, <1>8, <1>9, <1>10, <2>7, <2>8, <2>12, <2>14
         DEF ActiveRowHasItsToken, NoResurrection, StoredIssued
  <1>13. QED
    BY <1>3, <1>11, <1>12

\* A refresh that has a new token to store takes the lock and reads the store,
\* if its row is still there, or is lost (persistRotated).
LEMMA LockRefreshKeeps ==
    ASSUME IInv, NEW s \in Sources, LockRefresh(s)
    PROVE  IInv'
  <1> USE DEF IInv
  <1>1. /\ source[s].flight = "lock" /\ source[s] # Unborn /\ lock = NoOne
        /\ UNCHANGED <<stored, poisoned, worker, row, fence, req, ctl, changes, rotations, faults>>
    BY DEF LockRefresh, Unborn
  <1>2. source[s] \in SourceStates
    BY <1>1, BornSound
  <1>3. req' \in [Requests -> RequestStates] /\ \A r \in Requests : GoesOn(r)
    BY <1>1 DEF TypeOK, GoesOn
  <1>4. CASE /\ source' = [source EXCEPT ![s].invalid = TRUE, ![s].flight = "lost"]
             /\ UNCHANGED <<lock, call>>
    <2> DEFINE new == [source[s] EXCEPT !.invalid = TRUE, !.flight = "lost"]
    <2>1. new \in SourceStates /\ SameClient(s, new)
      BY <1>2 DEF SameClient, SourceStates
    <2>2. /\ new.inner = source[s].inner /\ new.refresh = source[s].refresh
          /\ new.flight = "lost" /\ new.current = source[s].current /\ new.invalid
      BY <1>2 DEF SourceStates
    <2>3. source' = [source EXCEPT ![s] = new]
      BY <1>4
    <2> HIDE DEF new
    <2>4. QuietMove(s, new)
      BY <1>1, <1>2, <2>1, <2>2, BornSound DEF QuietMove, SoundMove
    <2>5. QED
      BY <1>1, <1>3, <1>4, <2>3, <2>4, SourceMove DEF store
  <1>5. CASE LiveUsable(s) /\ lock' = s /\ Ask(s, "get", NoToken) /\ Fly(s, "read")
    <2> DEFINE new == [source[s] EXCEPT !.flight = "read"]
    <2>1. new \in SourceStates /\ SameClient(s, new)
      BY <1>2 DEF SameClient, SourceStates
    <2>2. /\ new.inner = source[s].inner /\ new.refresh = source[s].refresh
          /\ new.flight = "read" /\ new.current = source[s].current
          /\ ~ Blocked(s) /\ ~ new.invalid
      BY <1>2, <1>5 DEF SourceStates, LiveUsable, Blocked
    <2>3. source' = [source EXCEPT ![s] = new]
      BY <1>5 DEF Fly
    <2> HIDE DEF new
    <2>4. SoundMove(s, new)
      BY <1>1, <1>2, <2>1, <2>2, BornSound DEF SoundMove
    <2>5. /\ source' \in [Sources -> SourceStates]
          /\ \A x \in Sources : source'[x] = IF x = s THEN new ELSE source[x]
          /\ SourcesSound' /\ StoredIssued' /\ ActiveRowHasItsToken' /\ NoResurrection'
          /\ \A r \in Requests : RequestSound(r)'
      BY <1>1, <1>3, <2>3, <2>4, SourceMoveSound
    <2>6. \A op, t : JobSafe(op, t) => JobSafe(op, t)'
      BY <1>1, <2>2, <2>3, <2>4, SourceMoveSound
    <2>7. /\ s \in Callers /\ "get" \in Ops /\ NoToken \in Token \cup {NoToken}
          /\ NoOne \notin Callers /\ s \notin Requests /\ s # Controller
      BY ProcessesAssumption DEF Callers, Ops
    <2>8. \A c \in Callers : call[c].step = "none"
      BY <1>1, <2>7, OnlyHolderCalls
    <2>9. /\ call' \in [Callers -> CallStates] /\ OneJob'
          /\ \A x \in Callers \ {s} : call'[x].step = "none"
          /\ call'[s].op = "get" /\ call'[s].step # "none"
      BY <1>1, <1>5, <2>7, <2>8, AskSound
    <2>10. TypeOK'
      BY <1>1, <1>5, <2>5, <2>7, <2>9 DEF TypeOK, StoreTypeOK
    <2>11. LockHeld'
      BY <1>1, <1>5, <2>2, <2>5, ProcessesAssumption DEF LockHeld
    <2>12. JobsSafe'
      BY <1>1, <2>6, <2>9 DEF JobsSafe, JobSafe
    <2>13. Operations'
      BY <1>1, <2>2, <2>5, <2>9, ProcessesAssumption DEF LockHeld, Operations, ControlOperation, Reading
    <2>14. ControlSound'
      BY <1>1 DEF ControlSound
    <2>15. QED
      BY <2>5, <2>9, <2>10, <2>11, <2>12, <2>13, <2>14
  <1>6. QED
    BY <1>4, <1>5 DEF LockRefresh

\* An operation that answered can be followed by another one under the same lock.
LEMMA ReturnAsks ==
    ASSUME IInv, NEW c \in Callers, lock = c, lock' = c, NEW res \in Result, Answered(res),
           NEW op \in Ops, NEW t \in Token \cup {NoToken}, Returns(c, res, Asked(op, t))
    PROVE  /\ call' \in [Callers -> CallStates]
           /\ OneJob'
           /\ \A x \in Callers \ {c} : call'[x].step = "none"
           /\ call'[c].step = "offer" /\ call'[c].op = op /\ call'[c].token = t
           /\ worker' = Idle
  <1>1. ~ poisoned /\ worker = Idle /\ UNCHANGED <<poisoned, worker>>
    BY ReturnSound
  <1>2. NoCall \in CallStates
    BY DEF NoCall, CallStates, Only, Result, Steps, Ops
  <1>3. Asked(op, t) = [NoCall EXCEPT !.step = "offer", !.op = op, !.token = t]
    BY <1>1 DEF Asked
  <1>4. /\ Asked(op, t) \in CallStates
        /\ Asked(op, t).step = "offer" /\ Asked(op, t).op = op /\ Asked(op, t).token = t
    BY <1>2, <1>3 DEF CallStates, Steps
  <1>5. /\ call' \in [Callers -> CallStates]
        /\ \A x \in Callers : call'[x] = IF x = c THEN Asked(op, t) ELSE call[x]
    BY <1>4, ReturnSound
  <1>6. \A x \in Callers \ {c} : call'[x].step = "none"
    BY <1>5, OnlyHolderCalls
  <1>7. OneJob'
    BY <1>1, <1>4, <1>5, <1>6 DEF OneJob, Idle
  <1>8. QED
    BY <1>1, <1>4, <1>5, <1>6, <1>7

\* The end of a refresh's last operation gives the lock back (persistRotated).
LEMMA ReleaseKeeps ==
    ASSUME IInv, NEW s \in Sources, source[s] # Unborn, lock = s, lock' = NoOne,
           NEW res \in Result, Returns(s, res, NoCall),
           NEW new, source' = [source EXCEPT ![s] = new], SoundMove(s, new),
           new.flight \notin {"read", "write"},
           new.refresh = source[s].refresh \/ worker = Idle,
           UNCHANGED <<row, fence, req, ctl, changes, rotations, faults>>
    PROVE  IInv'
  <1> USE DEF IInv
  <1>1. s \in Callers /\ NoOne \notin Callers /\ s \notin Requests /\ s # Controller
    BY ProcessesAssumption DEF Callers
  <1>2. /\ worker' \in Jobs /\ poisoned' \in BOOLEAN /\ stored' = stored
        /\ worker'.phase = worker.phase /\ worker'.op = worker.op /\ worker'.token = worker.token
    BY <1>1, ReturnSound
  <1>3. req' \in [Requests -> RequestStates] /\ \A r \in Requests : GoesOn(r)
    BY DEF TypeOK, GoesOn
  <1>4. /\ source' \in [Sources -> SourceStates]
        /\ \A x \in Sources : source'[x] = IF x = s THEN new ELSE source[x]
        /\ SourcesSound' /\ StoredIssued' /\ ActiveRowHasItsToken' /\ NoResurrection'
        /\ \A r \in Requests : RequestSound(r)'
    BY <1>2, <1>3, SourceMoveSound
  <1>5. new.refresh = source[s].refresh => \A op, t : JobSafe(op, t) => JobSafe(op, t)'
    BY <1>2, SourceMoveSound
  <1>6. /\ OneJob' /\ call' \in [Callers -> CallStates]
        /\ \A x \in Callers : call'[x].step = "none"
    BY <1>1, ReturnEnds
  <1>7. TypeOK'
    BY <1>2, <1>3, <1>4, <1>6 DEF TypeOK, StoreTypeOK
  <1>8. /\ \A r \in Requests : req[r].at # "fill"
        /\ \A x \in Sources : source'[x].flight \notin {"read", "write"}
        /\ ctl.at \notin {"lookup", "commit", "put", "activate", "begin", "evict", "erase"}
    BY <1>1, <1>4 DEF LockHeld
  <1>9. LockHeld'
    BY <1>1, <1>8 DEF LockHeld, Callers
  <1>10. JobsSafe'
    BY <1>2, <1>5, <1>6 DEF JobsSafe, Idle
  <1>11. Operations'
    BY <1>8 DEF Operations, ControlOperation
  <1>12. ControlSound'
    BY <1>8 DEF ControlSound
  <1>13. QED
    BY <1>4, <1>6, <1>7, <1>9, <1>10, <1>11, <1>12

\* With the token of its account in the store a refresh goes on to store its
\* own; without it, it ends (persistRotated).
LEMMA ReadStoredKeeps ==
    ASSUME IInv, NEW s \in Sources, ReadStored(s)
    PROVE  IInv'
  <1> USE DEF IInv
  <1>1. /\ source[s].flight = "read" /\ source[s] # Unborn /\ lock = s
        /\ UNCHANGED <<row, fence, req, ctl, changes, rotations, faults>>
    BY DEF ReadStored, Unborn, LockHeld
  <1>2. source[s] \in SourceStates /\ source[s].inner \in Token
    BY <1>1, BornSound
  <1>3. req' \in [Requests -> RequestStates] /\ \A r \in Requests : GoesOn(r)
    BY <1>1 DEF TypeOK, GoesOn
  <1>4. /\ s \in Callers /\ NoOne \notin Callers /\ s \notin Requests /\ s # Controller
        /\ "put" \in Ops
    BY ProcessesAssumption DEF Callers, Ops
  <1>5. /\ ~ Blocked(s) /\ ~ source[s].invalid /\ row.state = "active"
        /\ Between(s, stored)
    <2>1. ctl.at # "evict"
      BY <1>1, <1>4 DEF LockHeld
    <2>2. QED
      BY <1>1, <2>1 DEF SourcesSound, SourceSound, Blocked, Standing, Ending, LiveFor
  <1>6. PICK res \in Result :
         \/ /\ res.kind = "ok"
            /\ Returns(s, res, Asked("put", source[s].inner))
            /\ Fly(s, "write")
            /\ UNCHANGED lock
         \/ /\ res.kind # "ok"
            /\ Returns(s, res, NoCall)
            /\ source' = [source EXCEPT ![s].invalid = TRUE, ![s].flight = "lost"]
            /\ Unlock
    BY DEF ReadStored
  <1>7. CASE /\ res.kind = "ok"
             /\ Returns(s, res, Asked("put", source[s].inner))
             /\ Fly(s, "write")
             /\ UNCHANGED lock
    <2> DEFINE new == [source[s] EXCEPT !.flight = "write"]
    <2>1. new \in SourceStates /\ SameClient(s, new)
      BY <1>2 DEF SameClient, SourceStates
    <2>2. /\ new.inner = source[s].inner /\ new.refresh = source[s].refresh
          /\ new.flight = "write" /\ new.current = source[s].current /\ ~ new.invalid
      BY <1>2, <1>5 DEF SourceStates
    <2>3. source' = [source EXCEPT ![s] = new]
      BY <1>7 DEF Fly
    <2> HIDE DEF new
    <2>4. SoundMove(s, new)
      BY <1>1, <1>2, <1>5, <2>1, <2>2, BornSound DEF SoundMove
    <2>5. Answered(res) /\ lock' = s
      BY <1>1, <1>7 DEF Answered
    <2>6. /\ worker' \in Jobs /\ poisoned' \in BOOLEAN /\ stored' = stored
          /\ worker = Idle
      BY <1>1, <1>4, <1>7, <2>5, ReturnSound
    <2>7. /\ source' \in [Sources -> SourceStates]
          /\ \A x \in Sources : source'[x] = IF x = s THEN new ELSE source[x]
          /\ SourcesSound' /\ StoredIssued' /\ ActiveRowHasItsToken' /\ NoResurrection'
          /\ \A r \in Requests : RequestSound(r)'
      BY <1>1, <1>3, <2>3, <2>4, <2>6, SourceMoveSound
    <2>8. \A op, t : JobSafe(op, t) => JobSafe(op, t)'
      BY <1>1, <2>2, <2>3, <2>4, <2>6, SourceMoveSound
    <2>9. /\ call' \in [Callers -> CallStates] /\ OneJob'
          /\ \A x \in Callers \ {s} : call'[x].step = "none"
          /\ call'[s].step = "offer" /\ call'[s].op = "put"
          /\ call'[s].token = source[s].inner
          /\ worker' = Idle
      BY <1>1, <1>2, <1>4, <1>7, <2>5, ReturnAsks
    <2>10. JobSafe("put", source[s].inner)
      <3>1. stored.consent = row.consent
        BY <1>5 DEF ActiveRowHasItsToken
      <3>2. \A x \in Sources : Live(x) => x = s
        BY <1>1, <1>5 DEF SourcesSound, Live
      <3>3. Between(s, source[s].inner)
        BY <1>1, <1>5, BornSound DEF Between, TypeOK, StoreTypeOK, Token, NoToken
      <3>4. QED
        BY <1>1, <1>2, <1>5, <3>1, <3>2, <3>3, BornSound DEF JobSafe, Between
    <2>11. TypeOK'
      BY <1>1, <1>3, <2>5, <2>6, <2>7, <2>9 DEF TypeOK, StoreTypeOK
    <2>12. LockHeld'
      BY <1>1, <2>2, <2>5, <2>7 DEF LockHeld
    <2>13. JobsSafe'
      BY <2>8, <2>9, <2>10 DEF JobsSafe, Idle
    <2>14. Operations'
      <3>1. /\ \A r \in Requests : req[r].at # "fill"
            /\ \A x \in Sources \ {s} : source[x].flight \notin {"read", "write"}
            /\ ctl.at \notin {"lookup", "commit", "put", "activate", "begin", "evict", "erase"}
        BY <1>1, <1>4 DEF LockHeld
      <3>2. Putting(s, source[s].inner)'
        BY <2>2, <2>7, <2>9 DEF Putting
      <3>3. QED
        BY <1>1, <2>2, <2>7, <3>1, <3>2 DEF Operations, ControlOperation
    <2>15. ControlSound'
      BY <1>1, <1>4, <2>6 DEF ControlSound, LockHeld
    <2>16. QED
      BY <2>7, <2>9, <2>11, <2>12, <2>13, <2>14, <2>15
  <1>8. CASE /\ res.kind # "ok"
             /\ Returns(s, res, NoCall)
             /\ source' = [source EXCEPT ![s].invalid = TRUE, ![s].flight = "lost"]
             /\ Unlock
    <2> DEFINE new == [source[s] EXCEPT !.invalid = TRUE, !.flight = "lost"]
    <2>1. new \in SourceStates /\ SameClient(s, new)
      BY <1>2 DEF SameClient, SourceStates
    <2>2. /\ new.inner = source[s].inner /\ new.refresh = source[s].refresh
          /\ new.flight = "lost" /\ new.current = source[s].current /\ new.invalid
      BY <1>2 DEF SourceStates
    <2>3. source' = [source EXCEPT ![s] = new] /\ lock' = NoOne
      BY <1>8 DEF Unlock
    <2> HIDE DEF new
    <2>4. SoundMove(s, new)
      BY <1>1, <1>2, <2>1, <2>2, BornSound DEF SoundMove
    <2>5. QED
      BY <1>1, <1>8, <2>2, <2>3, <2>4, ReleaseKeeps
  <1>9. QED
    BY <1>6, <1>7, <1>8

\* A refresh whose token is stored has nothing left to store, and one whose
\* write failed keeps the token for the next (persistRotated).
LEMMA PersistedKeeps ==
    ASSUME IInv, NEW s \in Sources, Persisted(s)
    PROVE  IInv'
  <1>1. /\ source[s].flight = "write" /\ source[s] # Unborn /\ lock = s /\ lock' = NoOne
        /\ UNCHANGED <<row, fence, req, ctl, changes, rotations, faults>>
    BY DEF Persisted, Unborn, IInv, LockHeld, Unlock
  <1>2. source[s] \in SourceStates /\ source[s].inner \in Token
    BY <1>1, BornSound
  <1>3. s \in Callers /\ Putting(s, source[s].inner)
    BY <1>1 DEF Callers, IInv, Operations, ControlOperation
  <1>4. ~ Blocked(s) /\ ~ source[s].invalid
    BY <1>1 DEF IInv, SourcesSound, SourceSound, Blocked
  <1>5. PICK res \in Result :
          /\ Returns(s, res, NoCall)
          /\ IF res.kind = "ok"
               THEN source' = [source EXCEPT ![s].refresh = source[s].inner,
                                             ![s].flight = "final"]
               ELSE Fly(s, "lost")
    BY DEF Persisted
  <1>6. CASE res.kind = "ok"
    <2> DEFINE new == [source[s] EXCEPT !.refresh = source[s].inner, !.flight = "final"]
    <2>1. new \in SourceStates /\ SameClient(s, new)
      BY <1>2 DEF SameClient, SourceStates
    <2>2. /\ new.inner = source[s].inner /\ new.refresh = source[s].inner
          /\ new.flight = "final" /\ new.current = source[s].current
      BY <1>2 DEF SourceStates
    <2>3. source' = [source EXCEPT ![s] = new]
      BY <1>5, <1>6
    <2>4. /\ worker = Idle /\ call[s].step = "replied" /\ res = call[s].reply
          /\ ReplyStands(s) /\ Answered(res)
      BY <1>1, <1>3, <1>5, <1>6, ReturnSound DEF Answered
    <2>5. stored = source[s].inner
      BY <1>3, <2>4 DEF Putting, ReplyStands
    <2> HIDE DEF new
    <2>6. SoundMove(s, new)
      BY <1>1, <1>2, <2>1, <2>2, <2>5, BornSound DEF SoundMove
    <2>7. QED
      BY <1>1, <1>5, <2>2, <2>3, <2>4, <2>6, ReleaseKeeps
  <1>7. CASE res.kind # "ok"
    <2> DEFINE new == [source[s] EXCEPT !.flight = "lost"]
    <2>1. new \in SourceStates /\ SameClient(s, new)
      BY <1>2 DEF SameClient, SourceStates
    <2>2. /\ new.inner = source[s].inner /\ new.refresh = source[s].refresh
          /\ new.flight = "lost" /\ new.current = source[s].current
      BY <1>2 DEF SourceStates
    <2>3. source' = [source EXCEPT ![s] = new]
      BY <1>5, <1>7 DEF Fly
    <2> HIDE DEF new
    <2>4. SoundMove(s, new)
      BY <1>1, <1>2, <2>1, <2>2, BornSound DEF SoundMove
    <2>5. QED
      BY <1>1, <1>5, <2>2, <2>3, <2>4, ReleaseKeeps
  <1>8. QED
    BY <1>6, <1>7

(***************************************************************************)
(* Steps of the store's worker                                             *)
(***************************************************************************)

\* The worker is done with its job: the caller, if it still waits, holds the
\* lock and learns what was done, and nobody has another operation in the
\* store (SecretsTokenStore.run).
LEMMA ReplySound ==
    ASSUME IInv, worker.phase # "idle", NEW res \in Result, Reply(res), UNCHANGED lock,
           poisoned => poisoned',
           Answered(res) /\ ~ worker.orphan =>
              /\ ~ poisoned'
              /\ res.kind = "none" => worker.op = "get"
              /\ worker.op = "get" =>
                    stored' = res.token /\ (res.kind = "ok" => res.token # NoToken)
              /\ worker.op = "put" => stored' = worker.token
              /\ worker.op = "delete" => stored' = NoToken
    PROVE  /\ worker' = Idle /\ call' \in [Callers -> CallStates]
           /\ OneJob'
           /\ \A c \in Callers :
                 /\ call'[c].op = call[c].op /\ call'[c].token = call[c].token
                 /\ call'[c].step = "none" <=> call[c].step = "none"
                 /\ call[c].step = "replied" => call'[c] = call[c]
                 /\ call'[c].step # "offer"
  <1>1. worker \in Jobs /\ call \in [Callers -> CallStates] /\ worker' = Idle
    BY DEF IInv, TypeOK, StoreTypeOK, Reply
  <1>2. Idle.phase = "idle"
    BY DEF Idle
  <1>3. CASE worker.orphan
    <2>1. call' = call
      BY <1>3 DEF Reply
    <2>2. poisoned /\ poisoned'
      BY <1>3 DEF IInv, OneJob
    <2>3. \A c \in Callers : call[c].step \notin {"offer", "wait"}
      BY <2>2 DEF IInv, OneJob
    <2>4. \A c \in Callers : call[c].step = "replied" => ~ Answered(call[c].reply)
      BY <2>2 DEF IInv, OneJob, ReplyStands
    <2>5. \A c \in Callers : call[c].step # "none" => lock' = c
      BY DEF IInv, OneJob
    <2>6. OneJob'
      BY <1>1, <1>2, <2>1, <2>3, <2>4, <2>5 DEF OneJob, ReplyStands
    <2>7. QED
      BY <1>1, <2>1, <2>3, <2>6
  <1>4. CASE ~ worker.orphan
    <2>1. ~ poisoned
      BY <1>4 DEF IInv, OneJob, TypeOK, StoreTypeOK
    <2>2. PICK b \in Callers : /\ b = worker.by /\ call[b].step = "wait"
                               /\ call[b].op = worker.op /\ call[b].token = worker.token
      BY <2>1 DEF IInv, OneJob
    <2>3. lock = b /\ \A c \in Callers \ {b} : call[c].step = "none"
      BY <2>2, OnlyHolderCalls
    <2>4. call' = [call EXCEPT ![b].step = "replied", ![b].reply = res]
      BY <1>4, <2>2 DEF Reply
    <2>5. \A c \in Callers \ {b} : call'[c] = call[c]
      BY <1>1, <2>4
    <2>6. /\ call'[b].step = "replied" /\ call'[b].reply = res
          /\ call'[b].op = call[b].op /\ call'[b].token = call[b].token
      BY <1>1, <2>4 DEF CallStates
    <2>7. call' \in [Callers -> CallStates]
      BY <1>1, <2>4 DEF CallStates, Steps
    <2>8. ReplyStands(b)'
      BY <1>4, <2>2, <2>6 DEF ReplyStands
    <2>9. OneJob'
      BY <1>1, <1>2, <2>3, <2>5, <2>6, <2>8 DEF OneJob
    <2>10. QED
      BY <1>1, <2>2, <2>3, <2>5, <2>6, <2>7, <2>9
  <1>5. QED
    BY <1>3, <1>4

\* What the worker does to the store, its job allows; where nobody is in an
\* operation, it does nothing to a store that is not poisoned.
LEMMA WorkerSound ==
    ASSUME IInv, UNCHANGED <<row, lock, fence, source, req, ctl, changes, rotations>>,
           StoreTypeOK', OneJob', JobsSafe',
           \A c \in Callers :
              /\ call'[c].op = call[c].op /\ call'[c].token = call[c].token
              /\ call'[c].step = "none" <=> call[c].step = "none"
              /\ call[c].step = "replied" => call'[c] = call[c],
           \/ stored' = stored
           \/ worker.phase # "idle" /\ worker.op = "put" /\ stored' = worker.token
           \/ worker.phase # "idle" /\ worker.op = "delete" /\ stored' = NoToken,
           \/ UNCHANGED <<stored, poisoned>>
           \/ poisoned
           \/ \E c \in Callers : call[c].step # "none"
    PROVE  IInv'
  <1> USE DEF IInv
  <1>1. TypeOK'
    BY DEF TypeOK
  <1>2. LockHeld'
    BY DEF LockHeld
  <1>3. Operations'
    BY DEF Operations, ControlOperation, Reading, Putting, Deleting, Callers
  <1>4. \A r \in Requests : RequestSound(r)'
    BY DEF RequestSound, Usable, Keyed
  <1>5. \A c \in Callers : call[c].step # "none" => lock = c
    BY DEF OneJob
  <1>6. ControlSound'
    <2>1. ctl.at \in {"commit", "activate"} => lock = Controller /\ call[Controller].step = "none"
      BY DEF LockHeld, Operations, ControlOperation
    <2>2. ctl.at \in {"commit", "activate"} /\ ~ poisoned => UNCHANGED <<stored, poisoned>>
      BY <1>5, <2>1
    <2>3. QED
      BY <2>2 DEF ControlSound
  <1>7. SourcesSound' /\ ActiveRowHasItsToken' /\ NoResurrection' /\ StoredIssued'
    <2>1. CASE stored' = stored
      BY <2>1, SameConnection
    <2>2. CASE stored' # stored
      <3>1. worker.phase # "idle" /\ JobSafe(worker.op, worker.token)
        BY <2>2 DEF JobsSafe
      <3>2. \A s \in Sources : Live(s) => Standing(source[s].account, source[s].generation)
        BY DEF SourcesSound, SourceSound, Live
      <3>3. ASSUME NEW s \in Sources, Live(s) PROVE Between(s, stored')
        BY <2>2, <3>1, <3>2, <3>3 DEF JobSafe, Standing, Ending, LiveFor
      <3>4. \A s \in Sources : SourceSound(s)'
        BY <3>3 DEF SourcesSound, SourceSound, Live, Blocked, Standing, Ending, LiveFor, Between
      <3>5. SourcesSound'
        BY <3>4 DEF SourcesSound, Live, Blocked
      <3>6. stored'.rotation <= rotations
        BY <2>2, <3>1 DEF JobSafe, NoToken, TypeOK
      <3>7. ActiveRowHasItsToken' /\ NoResurrection'
        BY <2>2, <3>1 DEF JobSafe, ActiveRowHasItsToken, NoResurrection
      <3>8. QED
        BY <3>5, <3>6, <3>7 DEF StoredIssued
    <2>3. QED
      BY <2>1, <2>2
  <1>8. QED
    BY <1>1, <1>2, <1>3, <1>4, <1>6, <1>7

\* The worker takes a job only in a store that is not poisoned, and refuses it
\* for good otherwise (SecretsTokenStore.run, failClosed).
LEMMA TakeKeeps ==
    ASSUME IInv, NEW c \in Callers, Take(c),
           UNCHANGED <<row, lock, fence, source, req, ctl, changes, rotations>>
    PROVE  IInv'
  <1>1. /\ worker = Idle /\ call[c].step = "offer" /\ lock = c /\ stored' = stored
        /\ ~ poisoned /\ faults' = faults
    BY DEF Take, IInv, OneJob
  <1>2. StoreTypeOK
    BY DEF IInv, TypeOK
  <1>3. call[c] \in CallStates
    BY <1>2 DEF StoreTypeOK
  <1>4. \A x \in Callers \ {c} : call[x].step = "none"
    BY <1>1, OnlyHolderCalls
  <1>5. /\ Only("expired") \in Result /\ ~ Answered(Only("expired"))
    BY DEF Only, Result, Answered
  <1>6. CASE /\ call' = [call EXCEPT ![c].step = "replied",
                           ![c].reply = Only(IF poisoned THEN "unavailable" ELSE "expired")]
             /\ poisoned' = TRUE
             /\ UNCHANGED worker
    <2>1. call' = [call EXCEPT ![c].step = "replied", ![c].reply = Only("expired")]
      BY <1>1, <1>6
    <2>2. \A x \in Callers \ {c} : call'[x] = call[x]
      BY <1>2, <2>1 DEF StoreTypeOK
    <2>3. /\ call'[c].step = "replied" /\ call'[c].reply = Only("expired")
          /\ call'[c].op = call[c].op /\ call'[c].token = call[c].token
      BY <1>2, <1>3, <2>1 DEF StoreTypeOK, CallStates
    <2>4. StoreTypeOK'
      <3>1. [call[c] EXCEPT !.step = "replied", !.reply = Only("expired")] \in CallStates
        BY <1>3, <1>5 DEF CallStates, Steps
      <3>2. call' \in [Callers -> CallStates]
        BY <1>2, <2>1, <3>1 DEF StoreTypeOK
      <3>3. poisoned' \in BOOLEAN
        BY <1>6
      <3>4. QED
        BY <1>1, <1>2, <1>6, <3>2, <3>3 DEF StoreTypeOK
    <2>5. OneJob'
      <3>1. worker'.phase = "idle" /\ worker' = Idle
        BY <1>1, <1>6 DEF Idle
      <3>2. ReplyStands(c)'
        BY <1>5, <2>3 DEF ReplyStands
      <3>3. QED
        BY <1>1, <1>4, <2>2, <2>3, <3>1, <3>2 DEF OneJob
    <2>6. JobsSafe'
      BY <1>1, <1>4, <1>6, <2>2, <2>3 DEF JobsSafe, Idle
    <2>7. QED
      BY <1>1, <1>4, <2>2, <2>3, <2>4, <2>5, <2>6, WorkerSound
  <1>7. CASE /\ call' = [call EXCEPT ![c].step = "wait"]
             /\ worker' = [by |-> c, op |-> call[c].op, token |-> call[c].token,
                           phase |-> IF call[c].op = "delete" THEN "change" ELSE "read",
                           orphan |-> FALSE]
             /\ UNCHANGED poisoned
    <2>1. \A x \in Callers \ {c} : call'[x] = call[x]
      BY <1>2, <1>7 DEF StoreTypeOK
    <2>2. /\ call'[c].step = "wait"
          /\ call'[c].op = call[c].op /\ call'[c].token = call[c].token
      BY <1>2, <1>3, <1>7 DEF StoreTypeOK, CallStates
    <2>3. /\ worker'.by = c /\ worker'.op = call[c].op /\ worker'.token = call[c].token
          /\ worker'.phase = IF call[c].op = "delete" THEN "change" ELSE "read"
          /\ worker'.orphan = FALSE
      BY <1>7
    <2>4. StoreTypeOK'
      BY <1>1, <1>2, <1>3, <1>7 DEF StoreTypeOK, CallStates, Steps, Jobs
    <2>5. OneJob'
      BY <1>1, <1>4, <1>7, <2>1, <2>2, <2>3 DEF OneJob
    <2>6. JobSafe(call[c].op, call[c].token)
      BY <1>1 DEF IInv, JobsSafe
    <2>7. JobSafe(call[c].op, call[c].token)'
      BY <1>1, <2>2, <2>6, SameConnection DEF JobSafe
    <2>8. JobsSafe'
      BY <1>4, <2>1, <2>2, <2>3, <2>7 DEF JobsSafe, JobSafe
    <2>9. QED
      BY <1>1, <1>4, <1>7, <2>1, <2>2, <2>4, <2>5, <2>8, WorkerSound
  <1>8. QED
    BY <1>6, <1>7 DEF Take

\* A job that ends leaves what its operation allows, and its result is true.
LEMMA JobEndKeeps ==
    ASSUME IInv, worker.phase # "idle", NEW res \in Result, Reply(res),
           UNCHANGED <<row, lock, fence, source, req, ctl, changes, rotations>>,
           poisoned' \in BOOLEAN, poisoned => poisoned', faults' \in 0 .. MaxFaults,
           \/ stored' = stored
           \/ worker.op = "put" /\ stored' = worker.token
           \/ worker.op = "delete" /\ stored' = NoToken,
           Answered(res) /\ ~ worker.orphan =>
              /\ ~ poisoned'
              /\ res.kind = "none" => worker.op = "get"
              /\ worker.op = "get" =>
                    stored' = res.token /\ (res.kind = "ok" => res.token # NoToken)
              /\ worker.op = "put" => stored' = worker.token
              /\ worker.op = "delete" => stored' = NoToken
    PROVE  IInv'
  <1>1. StoreTypeOK /\ Idle.phase = "idle" /\ lock' = lock
    BY DEF IInv, TypeOK, Idle
  <1>2. /\ worker' = Idle /\ call' \in [Callers -> CallStates]
        /\ OneJob'
        /\ \A c \in Callers :
              /\ call'[c].op = call[c].op /\ call'[c].token = call[c].token
              /\ call'[c].step = "none" <=> call[c].step = "none"
              /\ call[c].step = "replied" => call'[c] = call[c]
              /\ call'[c].step # "offer"
    BY <1>1, ReplySound
  <1>3. Idle \in Jobs /\ stored' \in Token \cup {NoToken}
    BY <1>1 DEF Idle, Jobs, Ops, StoreTypeOK
  <1>4. StoreTypeOK'
    BY <1>2, <1>3 DEF StoreTypeOK
  <1>5. JobsSafe'
    BY <1>1, <1>2 DEF JobsSafe
  <1>6. poisoned \/ \E c \in Callers : call[c].step # "none"
    <2>1. ASSUME ~ poisoned PROVE worker.by \in Callers /\ call[worker.by].step = "wait"
      BY <2>1 DEF IInv, OneJob
    <2>2. QED
      BY <2>1
  <1>7. QED
    BY <1>2, <1>4, <1>5, <1>6, WorkerSound

\* The worker reads the key for its caller, or before it writes it (readLoop).
LEMMA ReadKeyKeeps ==
    ASSUME IInv, ReadKey,
           UNCHANGED <<row, lock, fence, source, req, ctl, changes, rotations>>
    PROVE  IInv'
  <1>1. StoreTypeOK /\ worker.phase # "idle" /\ worker.phase = "read" /\ stored' = stored
    BY DEF IInv, TypeOK, ReadKey
  <1>2. \A k \in {"error", "expired", "unavailable"} : Only(k) \in Result /\ ~ Answered(Only(k))
    BY DEF Only, Result, Answered
  <1>3. CASE FailJob
    <2>1. /\ Reply(Only("error")) /\ poisoned' = poisoned
          /\ poisoned' \in BOOLEAN /\ faults' \in 0 .. MaxFaults
      BY <1>1, <1>3, BoundsAssumption DEF FailJob, Fault, StoreTypeOK
    <2>2. QED
      BY <1>1, <1>2, <2>1, JobEndKeeps
  <1>4. CASE /\ worker.op = "get"
             /\ Reply(IF stored = NoToken THEN Only("none") ELSE Ok(stored))
             /\ NoFault /\ UNCHANGED poisoned
    <2> DEFINE res == IF stored = NoToken THEN Only("none") ELSE Ok(stored)
    <2>1. /\ res \in Result /\ res.token = stored
          /\ res.kind = "ok" => res.token # NoToken
      BY <1>1 DEF Only, Ok, Result, StoreTypeOK
    <2>2. Reply(res) /\ poisoned' = poisoned /\ faults' = faults /\ worker.op = "get"
      BY <1>4 DEF NoFault
    <2> HIDE DEF res
    <2>3. ~ worker.orphan => ~ poisoned
      BY <1>1 DEF IInv, OneJob, StoreTypeOK
    <2>4. poisoned' \in BOOLEAN /\ faults' \in 0 .. MaxFaults
      BY <1>1, <2>2 DEF StoreTypeOK
    <2>5. QED
      BY <1>1, <2>1, <2>2, <2>3, <2>4, JobEndKeeps
  <1>5. CASE Aborted /\ NoFault
    <2>1. PICK k \in {"unavailable", "expired"} : Reply(Only(k))
      BY <1>5 DEF Aborted
    <2>2. poisoned' = TRUE /\ faults' \in 0 .. MaxFaults
      BY <1>1, <1>5 DEF Aborted, NoFault, StoreTypeOK
    <2>3. QED
      BY <1>1, <1>2, <2>1, <2>2, JobEndKeeps
  <1>6. CASE worker.op = "put" /\ Proceed /\ NoFault
    <2>1. /\ ~ poisoned /\ worker' = [worker EXCEPT !.phase = "change"]
          /\ UNCHANGED <<stored, poisoned, call, faults>>
      BY <1>1, <1>6 DEF Proceed, NoFault
    <2>2. /\ worker' \in Jobs /\ worker'.phase = "change"
          /\ worker'.by = worker.by /\ worker'.op = worker.op /\ worker'.op = "put"
          /\ worker'.token = worker.token /\ worker'.orphan = worker.orphan
      BY <1>1, <1>6, <2>1 DEF StoreTypeOK, Jobs
    <2>3. StoreTypeOK'
      BY <1>1, <2>1, <2>2 DEF StoreTypeOK
    <2>4. OneJob'
      <3>1. ReplyStands(worker.by)' <=> ReplyStands(worker.by)
        BY <2>1 DEF ReplyStands
      <3>2. \A c \in Callers : ReplyStands(c)' <=> ReplyStands(c)
        BY <2>1 DEF ReplyStands
      <3>3. lock' = lock
        OBVIOUS
      <3>4. worker.orphan = poisoned
        BY <1>1 DEF IInv, OneJob, StoreTypeOK, Jobs
      <3>5. worker'.orphan <=> poisoned'
        BY <2>1, <2>2, <3>4
      <3>6. QED
        BY <1>1, <2>1, <2>2, <3>2, <3>3, <3>5 DEF IInv, OneJob
    <2>5. JobsSafe'
      <3>1. \A op, t : JobSafe(op, t) => JobSafe(op, t)'
        BY <2>1, SameConnection
      <3>2. JobSafe(worker.op, worker.token)
        BY <1>1 DEF IInv, JobsSafe
      <3>3. QED
        BY <2>1, <2>2, <3>1, <3>2 DEF IInv, JobsSafe
    <2>6. QED
      BY <2>1, <2>3, <2>4, <2>5, WorkerSound
  <1>7. QED
    BY <1>3, <1>4, <1>5, <1>6 DEF ReadKey

\* The worker changes the key, and may have changed it when it says it failed.
LEMMA ChangeKeyKeeps ==
    ASSUME IInv, ChangeKey,
           UNCHANGED <<row, lock, fence, source, req, ctl, changes, rotations>>
    PROVE  IInv'
  <1> DEFINE value == IF worker.op = "put" THEN worker.token ELSE NoToken
  <1>1. StoreTypeOK /\ worker.phase # "idle" /\ worker.phase = "change"
    BY DEF IInv, TypeOK, ChangeKey
  <1>2. \/ worker.op = "put" /\ value = worker.token
        \/ worker.op = "delete" /\ value = NoToken
    <2>1. worker.op \in {"put", "delete"}
      BY <1>1 DEF IInv, OneJob, StoreTypeOK, Jobs, Ops
    <2>2. QED
      BY <2>1
  <1>3. ~ worker.orphan => ~ poisoned
    BY <1>1 DEF IInv, OneJob, StoreTypeOK
  <1>4. CASE stored' = value /\ Reply(Only("ok")) /\ NoFault /\ UNCHANGED poisoned
    <2>1. Only("ok") \in Result /\ Only("ok").kind = "ok"
      BY DEF Only, Result
    <2>2. /\ Reply(Only("ok")) /\ stored' = value /\ poisoned' = poisoned
          /\ poisoned' \in BOOLEAN /\ faults' \in 0 .. MaxFaults
      BY <1>1, <1>4 DEF NoFault, StoreTypeOK
    <2> HIDE DEF value
    <2>3. QED
      BY <1>1, <1>2, <1>3, <2>1, <2>2, JobEndKeeps
  <1>5. CASE stored' \in {stored, value} /\ FailJob
    <2>1. Only("error") \in Result /\ ~ Answered(Only("error"))
      BY DEF Only, Result, Answered
    <2>2. /\ Reply(Only("error")) /\ stored' \in {stored, value} /\ poisoned' = poisoned
          /\ poisoned' \in BOOLEAN /\ faults' \in 0 .. MaxFaults
      BY <1>1, <1>5, BoundsAssumption DEF FailJob, Fault, StoreTypeOK
    <2> HIDE DEF value
    <2>3. QED
      BY <1>1, <1>2, <2>1, <2>2, JobEndKeeps
  <1>6. QED
    BY <1>4, <1>5 DEF ChangeKey

\* Whatever the worker does, the invariant is kept.
LEMMA StoreStepKeeps ==
    ASSUME IInv, StoreStep
    PROVE  IInv'
  BY TakeKeeps, ReadKeyKeeps, ChangeKeyKeeps DEF StoreStep, WorkerStep

(***************************************************************************)
(* Steps of the controller                                                 *)
(***************************************************************************)

\* Where the controller holds the lock.
Holding == {"lookup", "commit", "put", "activate", "begin", "evict", "erase"}

\* While the lock is free or the controller's, no client and no refresh is at
\* what is done under it.
LEMMA LockNotShared ==
    ASSUME IInv, lock \in {Controller, NoOne}
    PROVE  /\ Controller \in Callers /\ NoOne \notin Callers
           /\ \A r \in Requests : req[r].at # "fill"
           /\ \A s \in Sources : source[s].flight \notin {"read", "write"}
           /\ \A c \in Callers : call[c].step # "none" => c = Controller
           /\ lock = Controller <=> ctl.at \in Holding
  <1>1. lock \notin Requests \cup Sources /\ Controller \in Callers /\ NoOne \notin Callers
    BY ProcessesAssumption DEF Callers
  <1>2. \A c \in Callers : call[c].step # "none" => c = Controller
    BY <1>1, OnlyHolderCalls
  <1>3. QED
    BY <1>1, <1>2 DEF IInv, LockHeld, Holding

\* A step of the controller keeps the invariant, if what it says of the
\* connection, of the sources and of the store is sound.
LEMMA ControlMove ==
    ASSUME IInv, lock \in {Controller, NoOne},
           StoreTypeOK', row' \in RowStates \cup {NoRow}, fence' \in [AccountIds -> Nat],
           source' \in [Sources -> SourceStates], ctl' \in ControlStates,
           changes' \in 0 .. MaxChanges, UNCHANGED <<req, rotations>>,
           \/ lock' = Controller /\ ctl'.at \in Holding
           \/ lock' = NoOne /\ ctl'.at \notin Holding,
           \A s \in Sources : source'[s].flight = source[s].flight,
           OneJob', JobsSafe', ControlOperation', SourcesSound',
           \A r \in Requests : RequestSound(r)',
           ControlSound', StoredIssued', ActiveRowHasItsToken', NoResurrection'
    PROVE  IInv'
  <1>1. /\ Controller \in Callers /\ NoOne \notin Callers
        /\ \A r \in Requests : req'[r].at # "fill"
        /\ \A s \in Sources : source'[s].flight \notin {"read", "write"}
    BY LockNotShared
  <1>2. TypeOK'
    BY DEF IInv, TypeOK, Callers
  <1>3. lock' \notin Requests \cup Sources /\ NoOne # Controller
    BY ProcessesAssumption
  <1>4. LockHeld'
    BY <1>1, <1>3 DEF LockHeld, Holding
  <1>5. Operations'
    BY <1>1 DEF Operations
  <1>6. QED
    BY <1>2, <1>4, <1>5 DEF IInv

\* A step of the controller that leaves the connection and the store alone.
LEMMA ControlStays ==
    ASSUME IInv, lock \in {Controller, NoOne},
           UNCHANGED <<stored, row, fence, source, req, rotations>>,
           StoreTypeOK', ctl' \in ControlStates, changes' \in 0 .. MaxChanges,
           ctl.at # "evict", ctl'.at # "evict",
           \/ lock' = Controller /\ ctl'.at \in Holding
           \/ lock' = NoOne /\ ctl'.at \notin Holding,
           OneJob', ControlOperation', ControlSound',
           worker'.phase # "idle" =>
              worker.phase # "idle" /\ worker'.op = worker.op /\ worker'.token = worker.token,
           \A c \in Callers : call'[c].step = "offer" => call'[c].op = "get"
    PROVE  IInv'
  <1>1. /\ SourcesSound' /\ ActiveRowHasItsToken' /\ NoResurrection' /\ StoredIssued'
        /\ \A op, t : JobSafe(op, t) => JobSafe(op, t)'
    BY SameConnection
  <1>2. \A t : JobSafe("get", t)'
    BY DEF JobSafe
  <1>3. JobsSafe'
    BY <1>1, <1>2 DEF IInv, JobsSafe
  <1>4. ASSUME NEW r \in Requests PROVE RequestSound(r)'
    BY DEF IInv, RequestSound, Usable, Keyed
  <1>5. /\ row' \in RowStates \cup {NoRow} /\ fence' \in [AccountIds -> Nat]
        /\ source' \in [Sources -> SourceStates]
    BY DEF IInv, TypeOK
  <1>6. QED
    BY <1>1, <1>3, <1>4, <1>5, ControlMove

\* A handler that takes the lock has it, and can begin an operation in the store.
LEMMA BeginConnectKeeps ==
    ASSUME IInv, BeginConnect
    PROVE  IInv'
  <1>1. /\ row.state # "disconnecting" /\ ctl.at = "idle" /\ lock = NoOne /\ lock' = Controller
        /\ changes < MaxChanges /\ changes' = changes + 1
        /\ UNCHANGED <<stored, poisoned, worker, row, fence, source, req, rotations, faults>>
    BY DEF BeginConnect, Begin
  <1>2. /\ StoreTypeOK /\ ctl \in ControlStates /\ OneJob
    BY DEF IInv, TypeOK
  <1>3. changes' \in 1 .. MaxChanges /\ changes' \in 0 .. MaxChanges /\ changes' # 0
    BY <1>1, BoundsAssumption DEF IInv, TypeOK
  <1>4. Controller \in Callers /\ \A c \in Callers : call[c].step = "none"
    <2>1. NoOne \notin Callers /\ Controller \in Callers
      BY <1>1, LockNotShared
    <2>2. QED
      BY <1>1, <2>1, OnlyHolderCalls
  <1>5. CASE /\ ctl' = [NoCtl EXCEPT !.at = "commit", !.token = [consent |-> changes', rotation |-> 0]]
             /\ UNCHANGED call
    <2> DEFINE t == [consent |-> changes', rotation |-> 0]
    <2>1. t \in Token /\ t.rotation = 0
      BY <1>3, BoundsAssumption DEF Token
    <2>2. ctl'.at = "commit" /\ ctl'.token = t /\ ctl' \in ControlStates
      BY <1>5, <2>1 DEF ControlStates, NoCtl
    <2> HIDE DEF t
    <2>3. ControlSound'
      BY <1>1, <1>3, <2>1, <2>2 DEF ControlSound
    <2>4. ControlOperation'
      BY <1>4, <1>5, <2>2 DEF ControlOperation
    <2>5. StoreTypeOK'
      BY <1>1, <1>2, <1>5 DEF StoreTypeOK
    <2>6. OneJob'
      BY <1>1, <1>2, <1>4, <1>5 DEF OneJob
    <2>7. QED
      BY <1>1, <1>3, <1>4, <1>5, <2>2, <2>3, <2>4, <2>5, <2>6, ControlStays DEF Holding
  <1>6. CASE Control("lookup") /\ Ask(Controller, "get", NoToken)
    <2>1. ctl'.at = "lookup" /\ ctl' \in ControlStates
      BY <1>2, <1>6 DEF Control, ControlStates
    <2>2. /\ call' \in [Callers -> CallStates] /\ OneJob'
          /\ \A c \in Callers \ {Controller} : call'[c].step = "none"
          /\ call'[Controller].op = "get" /\ call'[Controller].step # "none"
      BY <1>1, <1>4, <1>6, AskSound DEF Ops
    <2>3. ControlSound'
      BY <1>1, <1>3, <2>1 DEF ControlSound
    <2>4. ControlOperation'
      BY <2>1, <2>2 DEF ControlOperation, Reading
    <2>5. StoreTypeOK'
      BY <1>1, <1>2, <2>2 DEF StoreTypeOK
    <2>6. QED
      BY <1>1, <1>3, <2>1, <2>2, <2>3, <2>4, <2>5, ControlStays DEF Holding
  <1>7. QED
    BY <1>5, <1>6 DEF BeginConnect

\* Nothing is said of a source that is fenced off but what it is made of.
LEMMA NobodyLive ==
    ASSUME IInv, row.state # "active", ctl.at # "evict", UNCHANGED <<fence, source, rotations>>
    PROVE  SourcesSound' /\ \A s \in Sources : ~ Live(s)'
  <1>1. \A s \in Sources : Live(s) => Standing(source[s].account, source[s].generation)
    BY DEF IInv, SourcesSound, SourceSound, Live
  <1>2. \A s \in Sources : ~ Live(s)
    BY <1>1 DEF Standing, Ending, LiveFor
  <1>3. \A s \in Sources : ~ Live(s)'
    BY <1>2 DEF Live, Blocked
  <1>4. \A s \in Sources : SourceSound(s)'
    BY <1>2 DEF IInv, SourcesSound, SourceSound, Live, Blocked
  <1>5. QED
    BY <1>3, <1>4 DEF SourcesSound

\* InvalidateAccount, for the account of the row that stands, ends every live source.
LEMMA AccountEnds ==
    ASSUME IInv, lock \in {Controller, NoOne}, NEW a \in AccountIds, InvalidateAccount(a),
           row.state = "active" \/ ctl.at = "evict" => row.account = a, UNCHANGED <<req, rotations>>
    PROVE  /\ fence' \in [AccountIds -> Nat] /\ source' \in [Sources -> SourceStates]
           /\ \A s \in Sources : source'[s].flight = source[s].flight
           /\ SourcesSound' /\ \A s \in Sources : ~ Live(s)'
           /\ \A r \in Requests : RequestSound(r)'
  <1>1. /\ fence \in [AccountIds -> Nat] /\ source \in [Sources -> SourceStates]
        /\ rotations' = rotations
    BY DEF IInv, TypeOK
  <1>2. /\ fence' \in [AccountIds -> Nat] /\ fence'[a] = fence[a] + 1
        /\ \A x \in AccountIds : x # a => fence'[x] = fence[x]
    <2>1. fence' = [fence EXCEPT ![a] = fence[a] + 1]
      BY DEF InvalidateAccount
    <2>2. fence[a] + 1 \in Nat
      BY <1>1
    <2>3. QED
      BY <1>1, <2>1, <2>2
  <1>3. ASSUME NEW s \in Sources
        PROVE  /\ source'[s] \in SourceStates
               /\ source[s].account = a /\ source[s].cached => source'[s].invalid
               /\ source[s].account # a => source'[s] = source[s]
               /\ source[s].invalid => source'[s].invalid
               /\ source'[s].cached = source[s].cached \/ source'[s].invalid
               /\ source'[s].account = source[s].account
               /\ source'[s].generation = source[s].generation
               /\ source'[s].fence = source[s].fence
               /\ source'[s].flight = source[s].flight /\ source'[s].current = source[s].current
               /\ source'[s].inner = source[s].inner /\ source'[s].refresh = source[s].refresh
    <2>1. source[s] \in SourceStates
      BY <1>1
    <2>2. CASE source[s].cached /\ source[s].account = a
      <3> DEFINE new == [source[s] EXCEPT !.invalid = TRUE, !.cached = FALSE]
      <3>1. source'[s] = new
        BY <2>2 DEF InvalidateAccount
      <3>2. /\ new \in SourceStates /\ new.invalid = TRUE /\ new.cached = FALSE
            /\ new.account = source[s].account /\ new.generation = source[s].generation
            /\ new.fence = source[s].fence
            /\ new.flight = source[s].flight /\ new.current = source[s].current
            /\ new.inner = source[s].inner /\ new.refresh = source[s].refresh
        BY <2>1 DEF SourceStates
      <3> HIDE DEF new
      <3>3. QED
        BY <2>2, <3>1, <3>2
    <2>3. CASE ~ (source[s].cached /\ source[s].account = a)
      <3>1. source'[s] = source[s]
        BY <2>3 DEF InvalidateAccount
      <3>2. QED
        BY <2>1, <2>3, <3>1
    <2>4. QED
      BY <2>2, <2>3
  <1>4. source' \in [Sources -> SourceStates]
    <2> DEFINE new(s) == IF source[s].cached /\ source[s].account = a
                           THEN [source[s] EXCEPT !.invalid = TRUE, !.cached = FALSE]
                           ELSE source[s]
    <2>1. source' = [s \in Sources |-> new(s)]
      BY DEF InvalidateAccount
    <2>2. ASSUME NEW s \in Sources PROVE new(s) \in SourceStates
      <3>1. source[s] \in SourceStates
        BY <1>1
      <3>2. [source[s] EXCEPT !.invalid = TRUE, !.cached = FALSE] \in SourceStates
        BY <3>1 DEF SourceStates
      <3>3. QED
        BY <3>1, <3>2
    <2> HIDE DEF new
    <2>3. QED
      BY <2>1, <2>2
  <1>5. \A s \in Sources : source[s] = Unborn <=> source'[s] = Unborn
    <2>1. Unborn.account = 0 /\ a # 0
      BY DEF Unborn, AccountIds
    <2>2. ASSUME NEW s \in Sources, source[s] # Unborn PROVE source'[s] # Unborn
      <3>1. source[s].account # 0
        BY <2>2, BornHasAccount
      <3>2. QED
        BY <1>3, <2>1, <3>1
    <2>3. QED
      BY <1>3, <2>1, <2>2
  <1>6. ASSUME NEW s \in Sources, source[s] # Unborn PROVE SourceSound(s)' /\ Blocked(s)'
    <2>1. /\ source[s].account \in AccountIds
          /\ source[s].fence <= fence[source[s].account]
          /\ source[s].refresh \in Token /\ source[s].inner \in Token
          /\ source[s].inner.rotation <= rotations
          /\ source[s].cached \/ source[s].invalid
          /\ source[s].flight # "none" => ~ source[s].current
          /\ ~ Blocked(s) => Standing(source[s].account, source[s].generation)
      BY <1>6 DEF IInv, SourcesSound, SourceSound
    <2>2. source[s].fence \in Nat /\ fence[source[s].account] \in Nat
      BY <1>1, <2>1 DEF SourceStates
    <2>3. source'[s].fence <= fence'[source'[s].account]
      BY <1>2, <1>3, <2>1, <2>2
    <2>4. source'[s].cached \/ source'[s].invalid
      BY <1>3, <2>1
    <2>5. Blocked(s)'
      <3>1. CASE source[s].account = a
        <4>1. source'[s].invalid
          BY <1>3, <2>1, <3>1
        <4>2. QED
          BY <4>1 DEF Blocked
      <3>2. CASE source[s].account # a
        <4>1. Blocked(s)
          BY <2>1, <3>2 DEF Standing, Ending, LiveFor
        <4>2. QED
          BY <1>2, <1>3, <2>1, <3>2, <4>1 DEF Blocked
      <3>3. QED
        BY <3>1, <3>2
    <2>6. source[s].flight \notin {"read", "write"}
      BY LockNotShared
    <2>7. QED
      BY <1>1, <1>3, <2>1, <2>3, <2>4, <2>5, <2>6 DEF SourceSound
  <1>7. \A s \in Sources : SourceSound(s)' /\ ~ Live(s)'
    BY <1>5, <1>6 DEF SourceSound, Live
  <1>8. ASSUME NEW r \in Requests PROVE RequestSound(r)'
    <2>1. req' = req /\ req[r].at # "fill" /\ RequestSound(r)
      BY LockNotShared DEF IInv
    <2>2. QED
      BY <1>3, <1>5, <2>1 DEF RequestSound, Keyed
  <1>9. QED
    BY <1>2, <1>3, <1>4, <1>7, <1>8 DEF SourcesSound

\* What the end of an operation of the controller leaves.
LEMMA ControlReturns ==
    ASSUME IInv, lock = Controller, NEW res \in Result, Returns(Controller, res, NoCall),
           UNCHANGED faults
    PROVE  /\ StoreTypeOK' /\ stored' = stored /\ OneJob'
           /\ \A c \in Callers : call'[c].step = "none"
           /\ worker'.phase = worker.phase /\ worker'.op = worker.op
           /\ worker'.token = worker.token
           /\ Answered(res) =>
                 /\ ~ poisoned /\ ~ poisoned' /\ worker = Idle /\ worker' = Idle
                 /\ call[Controller].step = "replied" /\ res = call[Controller].reply
                 /\ ReplyStands(Controller)
  <1>1. Controller \in Callers /\ StoreTypeOK
    BY DEF Callers, IInv, TypeOK
  <1>2. /\ OneJob' /\ call' \in [Callers -> CallStates]
        /\ \A c \in Callers : call'[c].step = "none"
    BY <1>1, ReturnEnds
  <1>3. /\ worker' \in Jobs /\ poisoned' \in BOOLEAN /\ stored' = stored
        /\ worker'.phase = worker.phase /\ worker'.op = worker.op
        /\ worker'.token = worker.token
        /\ Answered(res) =>
                 /\ ~ poisoned /\ worker = Idle /\ UNCHANGED <<poisoned, worker>>
                 /\ call[Controller].step = "replied" /\ res = call[Controller].reply
                 /\ ReplyStands(Controller)
    BY <1>1, ReturnSound
  <1>4. StoreTypeOK'
    BY <1>1, <1>2, <1>3 DEF StoreTypeOK
  <1>5. QED
    BY <1>2, <1>3, <1>4

\* The token on file is the one the connect goes on with, or the connect ends.
LEMMA LookupTokenKeeps ==
    ASSUME IInv, LookupToken
    PROVE  IInv'
  <1>1. /\ ctl.at = "lookup" /\ lock = Controller /\ Controller \in Callers
        /\ row.state # "disconnecting" /\ changes # 0 /\ Reading(Controller)
        /\ UNCHANGED <<row, fence, source, req, changes, rotations, faults>>
    BY DEF LookupToken, IInv, LockHeld, ControlSound, Operations, ControlOperation, Callers
  <1>2. PICK res \in Result :
          /\ Returns(Controller, res, NoCall)
          /\ IF res.kind = "ok"
               THEN ctl' = [NoCtl EXCEPT !.at = "commit", !.token = res.token] /\ UNCHANGED lock
               ELSE Done
    BY DEF LookupToken
  <1>3. /\ StoreTypeOK' /\ stored' = stored /\ OneJob'
        /\ \A c \in Callers : call'[c].step = "none"
        /\ worker'.phase = worker.phase /\ worker'.op = worker.op /\ worker'.token = worker.token
    BY <1>1, <1>2, ControlReturns
  <1>4. changes' \in 0 .. MaxChanges
    BY <1>1 DEF IInv, TypeOK
  <1>5. CASE res.kind = "ok"
    <2>1. ~ poisoned' /\ res = call[Controller].reply /\ ReplyStands(Controller) /\ Answered(res)
      BY <1>1, <1>2, <1>5, ControlReturns DEF Answered
    <2>2. stored = res.token /\ res.token # NoToken
      BY <1>1, <1>5, <2>1 DEF ReplyStands, Reading
    <2>3. res.token \in Token
      BY <2>2 DEF IInv, TypeOK, StoreTypeOK
    <2>4. /\ ctl' \in ControlStates /\ ctl'.at = "commit" /\ ctl'.token = res.token
          /\ lock' = Controller
      BY <1>1, <1>2, <1>5, <2>3 DEF ControlStates, NoCtl
    <2>5. ControlSound'
      BY <1>1, <1>3, <2>1, <2>2, <2>3, <2>4 DEF ControlSound
    <2>6. ControlOperation'
      BY <1>1, <1>3, <2>4 DEF ControlOperation
    <2>7. QED
      BY <1>1, <1>3, <1>4, <2>4, <2>5, <2>6, ControlStays DEF Holding
  <1>6. CASE res.kind # "ok"
    <2>1. ctl' \in ControlStates /\ ctl'.at = "idle" /\ lock' = NoOne
      BY <1>2, <1>6 DEF Done, Unlock, NoCtl, ControlStates
    <2>2. ControlSound' /\ ControlOperation'
      BY <2>1 DEF ControlSound, ControlOperation
    <2>3. QED
      BY <1>1, <1>3, <1>4, <2>1, <2>2, ControlStays DEF Holding
  <1>7. QED
    BY <1>5, <1>6

\* A disconnect takes the lock and looks the token up.
LEMMA BeginDisconnectKeeps ==
    ASSUME IInv, BeginDisconnect
    PROVE  IInv'
  <1>1. /\ row.account # 0 /\ ctl.at = "idle" /\ lock = NoOne /\ lock' = Controller
        /\ changes < MaxChanges /\ changes' = changes + 1
        /\ Control("begin") /\ Ask(Controller, "get", NoToken)
        /\ UNCHANGED <<stored, poisoned, worker, row, fence, source, req, rotations, faults>>
    BY DEF BeginDisconnect, Begin
  <1>2. StoreTypeOK /\ ctl \in ControlStates
    BY DEF IInv, TypeOK
  <1>3. changes' \in 0 .. MaxChanges /\ changes' # 0
    BY <1>1, BoundsAssumption DEF IInv, TypeOK
  <1>4. Controller \in Callers /\ \A c \in Callers : call[c].step = "none"
    <2>1. NoOne \notin Callers /\ Controller \in Callers
      BY <1>1, LockNotShared
    <2>2. QED
      BY <1>1, <2>1, OnlyHolderCalls
  <1>5. ctl'.at = "begin" /\ ctl' \in ControlStates
    BY <1>1, <1>2 DEF Control, ControlStates
  <1>6. /\ call' \in [Callers -> CallStates] /\ OneJob'
        /\ \A c \in Callers \ {Controller} : call'[c].step = "none"
        /\ call'[Controller].op = "get" /\ call'[Controller].step # "none"
    BY <1>1, <1>4, AskSound DEF Ops
  <1>7. ControlSound'
    BY <1>1, <1>3, <1>5 DEF ControlSound
  <1>8. ControlOperation'
    BY <1>5, <1>6 DEF ControlOperation, Reading
  <1>9. StoreTypeOK'
    BY <1>1, <1>2, <1>6 DEF StoreTypeOK
  <1>10. QED
    BY <1>1, <1>3, <1>5, <1>6, <1>7, <1>8, <1>9, ControlStays DEF Holding

\* Outside the lock the controller asks Google, and may stop there.
LEMMA RevokeKeeps ==
    ASSUME IInv, Revoke \/ GiveUpControl
    PROVE  IInv'
  <1>1. /\ ctl.at \in {"revoke", "relock"}
        /\ UNCHANGED <<stored, poisoned, worker, call, row, lock, fence, source, req,
                       changes, rotations, faults>>
    BY DEF Revoke, GiveUpControl, store
  <1>2. PICK at \in {"relock", "idle"} : Control(at)
    BY DEF Revoke, GiveUpControl
  <1>3. ctl' \in ControlStates /\ ctl'.at = at
    BY <1>2 DEF Control, IInv, TypeOK, ControlStates
  <1>4. row.state = "disconnecting" /\ changes # 0 /\ lock # Controller
    BY <1>1 DEF IInv, ControlSound, LockHeld
  <1>5. ControlSound' /\ ControlOperation'
    BY <1>1, <1>2, <1>3, <1>4 DEF ControlSound, ControlOperation
  <1>6. StoreTypeOK' /\ OneJob'
    BY <1>1 DEF IInv, TypeOK, StoreTypeOK, OneJob, ReplyStands
  <1>7. TypeOK' /\ JobsSafe'
    <2>1. \A op, t : JobSafe(op, t) => JobSafe(op, t)'
      BY <1>1, <1>2, <1>3, SameConnection
    <2>2. JobsSafe'
      BY <1>1, <2>1 DEF IInv, JobsSafe
    <2>3. QED
      BY <1>1, <1>3, <1>6, <2>2 DEF IInv, TypeOK
  <1>8. LockHeld' /\ Operations'
    <2>1. LockHeld'
      BY <1>1, <1>2, <1>3, <1>4 DEF IInv, LockHeld
    <2>2. Operations'
      BY <1>1, <1>5 DEF IInv, Operations, Reading, Putting
    <2>3. QED
      BY <2>1, <2>2
  <1>9. \A r \in Requests : RequestSound(r)'
    BY <1>1 DEF IInv, RequestSound, Usable, Keyed
  <1>10. QED
    BY <1>1, <1>2, <1>3, <1>5, <1>6, <1>7, <1>8, <1>9, SameConnection DEF IInv

\* The stage is noted in the row before the token is deleted.
LEMMA RecordLocalStageKeeps ==
    ASSUME IInv, RecordLocalStage
    PROVE  IInv'
  <1>1. /\ ctl.at = "relock" /\ lock = NoOne /\ row.state = "disconnecting" /\ changes # 0
        /\ UNCHANGED <<stored, poisoned, worker, fence, source, req, changes, rotations>>
    BY DEF RecordLocalStage, IInv, ControlSound
  <1>2. StoreTypeOK /\ ctl \in ControlStates /\ changes' \in 0 .. MaxChanges
    BY <1>1 DEF IInv, TypeOK
  <1>3. Controller \in Callers /\ \A c \in Callers : call[c].step = "none"
    <2>1. NoOne \notin Callers /\ Controller \in Callers
      BY <1>1, LockNotShared
    <2>2. QED
      BY <1>1, <2>1, OnlyHolderCalls
  <1>4. CASE /\ row' = [row EXCEPT !.local = TRUE]
             /\ lock' = Controller
             /\ Control("erase")
             /\ Ask(Controller, "delete", NoToken)
             /\ NoFault
    <2>1. ctl'.at = "erase" /\ ctl' \in ControlStates /\ faults' = faults
      BY <1>2, <1>4 DEF Control, ControlStates, NoFault
    <2>2. /\ call' \in [Callers -> CallStates] /\ OneJob'
          /\ \A c \in Callers \ {Controller} : call'[c].step = "none"
          /\ \/ call'[Controller].step = "offer" /\ call'[Controller].op = "delete"
             \/ call'[Controller].step = "replied" /\ ~ Answered(call'[Controller].reply)
      BY <1>1, <1>3, <1>4, AskSound DEF Ops
    <2>3. row' \in RowStates /\ row'.state = "disconnecting"
      <3>1. row \in RowStates
        BY <1>1 DEF IInv, TypeOK, NoRow
      <3>2. QED
        BY <1>1, <1>4, <3>1 DEF RowStates
    <2>4. SourcesSound' /\ \A s \in Sources : ~ Live(s)'
      BY <1>1, NobodyLive
    <2>5. JobsSafe'
      <3>1. ASSUME NEW op, NEW t, JobSafe(op, t) PROVE JobSafe(op, t)'
        BY <1>1, <2>1, <2>3, <2>4, <3>1 DEF JobSafe
      <3>2. \A t : JobSafe("delete", t)'
        BY <2>1, <2>3 DEF JobSafe
      <3>3. QED
        BY <1>1, <2>2, <3>1, <3>2 DEF IInv, JobsSafe
    <2>6. ASSUME NEW r \in Requests PROVE RequestSound(r)'
      BY <1>1 DEF IInv, RequestSound, Usable, Keyed
    <2>7. ControlSound' /\ ControlOperation'
      BY <1>1, <2>1, <2>2, <2>3 DEF ControlSound, ControlOperation, Deleting
    <2>8. StoredIssued' /\ ActiveRowHasItsToken' /\ NoResurrection'
      BY <1>1, <2>3 DEF IInv, StoredIssued, ActiveRowHasItsToken, NoResurrection
    <2>9. StoreTypeOK' /\ fence' \in [AccountIds -> Nat] /\ source' \in [Sources -> SourceStates]
      BY <1>1, <1>2, <2>1, <2>2 DEF StoreTypeOK, IInv, TypeOK
    <2>10. QED
      BY <1>1, <1>2, <1>4, <2>1, <2>2, <2>3, <2>4, <2>5, <2>6, <2>7, <2>8, <2>9, ControlMove
         DEF Holding
  <1>5. CASE Fault /\ Control("idle") /\ UNCHANGED <<row, lock, call>>
    <2>1. ctl'.at = "idle" /\ ctl' \in ControlStates /\ faults' \in 0 .. MaxFaults
      BY <1>2, <1>5, BoundsAssumption DEF Control, ControlStates, Fault, StoreTypeOK
    <2>2. ControlSound' /\ ControlOperation'
      BY <2>1 DEF ControlSound, ControlOperation
    <2>3. StoreTypeOK' /\ OneJob'
      BY <1>1, <1>2, <1>5, <2>1 DEF StoreTypeOK, IInv, OneJob, ReplyStands
    <2>4. QED
      BY <1>1, <1>2, <1>3, <1>5, <2>1, <2>2, <2>3, ControlStays DEF Holding
  <1>6. QED
    BY <1>4, <1>5 DEF RecordLocalStage

\* The row goes when the store has said that the token is gone (Disconnect).
LEMMA DeleteRecordKeeps ==
    ASSUME IInv, DeleteRecord
    PROVE  IInv'
  <1>1. /\ ctl.at = "erase" /\ lock = Controller /\ Controller \in Callers
        /\ row.state = "disconnecting" /\ Deleting(Controller)
        /\ UNCHANGED <<fence, source, req, changes, rotations>>
        /\ ctl' = NoCtl /\ lock' = NoOne
    BY DEF DeleteRecord, IInv, LockHeld, ControlSound, Operations, ControlOperation, Callers,
           Done, Unlock
  <1>2. PICK res \in Result :
          /\ Returns(Controller, res, NoCall)
          /\ \/ res.kind = "ok" /\ row' = NoRow /\ NoFault
             \/ res.kind = "ok" /\ Fault /\ UNCHANGED row
             \/ res.kind # "ok" /\ NoFault /\ UNCHANGED row
    BY DEF DeleteRecord
  <1>3. ctl'.at = "idle" /\ ctl' \in ControlStates /\ ControlSound' /\ ControlOperation'
    BY <1>1 DEF NoCtl, ControlStates, ControlSound, ControlOperation
  <1>4. /\ OneJob' /\ call' \in [Callers -> CallStates]
        /\ \A c \in Callers : call'[c].step = "none"
    BY <1>1, <1>2, ReturnEnds
  <1>5. /\ worker' \in Jobs /\ poisoned' \in BOOLEAN /\ stored' = stored
        /\ worker'.phase = worker.phase /\ worker'.op = worker.op
        /\ worker'.token = worker.token
    BY <1>1, <1>2, ReturnSound
  <1>6. faults' \in 0 .. MaxFaults /\ changes' \in 0 .. MaxChanges
    BY <1>1, <1>2, BoundsAssumption DEF Fault, NoFault, IInv, TypeOK, StoreTypeOK
  <1>7. StoreTypeOK'
    BY <1>4, <1>5, <1>6 DEF IInv, TypeOK, StoreTypeOK
  <1>8. CASE UNCHANGED row
    BY <1>1, <1>3, <1>4, <1>5, <1>6, <1>7, <1>8, ControlStays DEF Holding
  <1>9. CASE res.kind = "ok" /\ row' = NoRow
    <2>1. res = call[Controller].reply /\ ReplyStands(Controller) /\ worker = Idle /\ Answered(res)
      BY <1>1, <1>2, <1>9, ReturnSound DEF Answered
    <2>2. stored = NoToken
      BY <1>1, <2>1 DEF ReplyStands, Deleting
    <2>3. worker'.phase = "idle" /\ NoRow.state = "absent"
      BY <1>5, <2>1 DEF Idle, NoRow
    <2>4. SourcesSound'
      BY <1>1, NobodyLive
    <2>5. JobsSafe'
      BY <1>4, <2>3 DEF JobsSafe
    <2>6. ASSUME NEW r \in Requests PROVE RequestSound(r)'
      BY <1>1 DEF IInv, RequestSound, Usable, Keyed
    <2>7. StoredIssued' /\ ActiveRowHasItsToken' /\ NoResurrection'
      BY <1>1, <1>5, <1>9, <2>2, <2>3
         DEF IInv, StoredIssued, ActiveRowHasItsToken, NoResurrection
    <2>8. fence' \in [AccountIds -> Nat] /\ source' \in [Sources -> SourceStates]
      BY <1>1 DEF IInv, TypeOK
    <2>9. QED
      BY <1>1, <1>3, <1>4, <1>6, <1>7, <1>9, <2>4, <2>5, <2>6, <2>7, <2>8, ControlMove
         DEF Holding
  <1>10. QED
    BY <1>2, <1>8, <1>9

\* A step of the controller that ends what was made for the connection before:
\* a job left behind can do no harm, for it was safe and nobody is live now.
LEMMA ControlEnds ==
    ASSUME IInv, lock = Controller, NEW a \in AccountIds, InvalidateAccount(a),
           row.state = "active" \/ ctl.at = "evict" => row.account = a, ctl'.at # "evict",
           UNCHANGED <<stored, req, changes, rotations>>,
           StoreTypeOK', row' \in RowStates, ctl' \in ControlStates,
           row.state = "disconnecting" => row'.state = "disconnecting",
           row'.state = "active" => stored.consent = row'.consent /\ worker'.phase = "idle",
           \/ lock' = Controller /\ ctl'.at \in Holding
           \/ lock' = NoOne /\ ctl'.at \notin Holding,
           OneJob', ControlOperation', ControlSound',
           worker'.phase # "idle" =>
              worker.phase # "idle" /\ worker'.op = worker.op /\ worker'.token = worker.token,
           \A c \in Callers : call'[c].step = "offer" =>
              /\ call'[c].op = "put" /\ row'.state = "pending"
              /\ call'[c].token \in Token /\ call'[c].token.rotation <= rotations
              /\ call'[c].token.rotation = 0 \/ call'[c].token = stored
    PROVE  IInv'
  <1>1. /\ fence' \in [AccountIds -> Nat] /\ source' \in [Sources -> SourceStates]
        /\ \A s \in Sources : source'[s].flight = source[s].flight
        /\ SourcesSound' /\ \A s \in Sources : ~ Live(s)'
        /\ \A r \in Requests : RequestSound(r)'
    BY AccountEnds
  <1>2. row'.state \in {"pending", "active", "disconnecting"} /\ rotations' = rotations
    BY DEF RowStates
  <1>3. stored.rotation \in Nat /\ stored' = stored
    BY DEF IInv, TypeOK, StoreTypeOK, Token, NoToken
  <1>4. JobsSafe'
    <2>1. ASSUME worker'.phase # "idle" PROVE JobSafe(worker.op, worker.token)'
      <3>1. /\ worker.phase # "idle" /\ worker'.op = worker.op /\ worker'.token = worker.token
            /\ row'.state # "active"
        BY <2>1
      <3>2. JobSafe(worker.op, worker.token)
        BY <3>1 DEF IInv, JobsSafe
      <3>3. QED
        BY <1>1, <1>2, <1>3, <3>1, <3>2 DEF JobSafe
    <2>2. ASSUME NEW c \in Callers, call'[c].step = "offer"
          PROVE  JobSafe(call[c].op, call[c].token)'
      <3>1. /\ call'[c].op = "put" /\ row'.state = "pending"
            /\ call'[c].token \in Token /\ call'[c].token.rotation <= rotations
            /\ call'[c].token.rotation = 0 \/ call'[c].token = stored
        BY <2>2
      <3>2. QED
        BY <1>1, <1>2, <1>3, <3>1 DEF JobSafe
    <2>3. QED
      BY <2>1, <2>2 DEF JobsSafe
  <1>5. StoredIssued' /\ ActiveRowHasItsToken' /\ NoResurrection'
    BY <1>2, <1>3 DEF IInv, StoredIssued, ActiveRowHasItsToken, NoResurrection
  <1>6. changes' \in 0 .. MaxChanges
    BY DEF IInv, TypeOK
  <1>7. QED
    BY <1>1, <1>4, <1>5, <1>6, ControlMove

\* A connect evicts the clients of the connection before it writes the pending
\* row and stores the new token (commitPending).
LEMMA CommitPendingKeeps ==
    ASSUME IInv, CommitPending
    PROVE  IInv'
  <1> DEFINE a == IF row.account = 0 THEN changes ELSE row.account
  <1>1. /\ ctl.at = "commit" /\ lock = Controller /\ Controller \in Callers
        /\ InvalidateAccount(a)
        /\ UNCHANGED <<stored, poisoned, worker, req, changes, rotations>>
    BY DEF CommitPending, IInv, LockHeld, Callers
  <1>2. /\ row.state # "disconnecting" /\ changes # 0 /\ ctl.token \in Token
        /\ ctl.token.rotation = 0 \/ stored = ctl.token
    BY <1>1 DEF IInv, ControlSound
  <1>3. /\ StoreTypeOK /\ ctl \in ControlStates /\ changes \in 0 .. MaxChanges
        /\ row \in RowStates \cup {NoRow} /\ rotations \in 0 .. MaxRotations
    BY DEF IInv, TypeOK
  <1>4. a \in AccountIds /\ (row.state = "active" => row.account = a)
    <2>1. row.account = 0 => row = NoRow
      BY <1>3 DEF RowStates, AccountIds
    <2>2. row.account # 0 => row.account \in AccountIds
      BY <1>3 DEF RowStates, NoRow
    <2>3. changes \in AccountIds
      BY <1>2, <1>3, BoundsAssumption DEF AccountIds
    <2>4. NoRow.state # "active"
      BY DEF NoRow
    <2>5. QED
      BY <2>1, <2>2, <2>3, <2>4
  <1> HIDE DEF a
  <1>5. \A c \in Callers : call[c].step = "none"
    <2>1. call[Controller].step = "none"
      BY <1>1 DEF IInv, Operations, ControlOperation
    <2>2. QED
      BY <1>1, <2>1, OnlyHolderCalls
  <1>6. CASE /\ row' = [NoRow EXCEPT !.account = a, !.state = "pending",
                                     !.generation = row.generation + 1]
             /\ Control("put")
             /\ Ask(Controller, "put", ctl.token)
             /\ NoFault /\ UNCHANGED lock
    <2>1. row' \in RowStates /\ row'.state = "pending"
      <3>1. row.generation + 1 \in Nat
        BY <1>3 DEF RowStates, NoRow
      <3>2. /\ row' = [account |-> a, state |-> "pending", generation |-> row.generation + 1,
                       local |-> FALSE, consent |-> 0]
        BY <1>6 DEF NoRow
      <3>3. QED
        BY <1>4, <3>1, <3>2, BoundsAssumption DEF RowStates
    <2>2. /\ ctl' \in ControlStates /\ ctl'.at = "put" /\ ctl'.token = ctl.token
          /\ faults' = faults /\ lock' = Controller
      BY <1>1, <1>3, <1>6 DEF Control, ControlStates, NoFault
    <2>3. /\ call' \in [Callers -> CallStates] /\ OneJob'
          /\ \A c \in Callers \ {Controller} : call'[c].step = "none"
          /\ \/ /\ call'[Controller].step = "offer" /\ call'[Controller].op = "put"
                /\ call'[Controller].token = ctl.token
             \/ call'[Controller].step = "replied" /\ ~ Answered(call'[Controller].reply)
      BY <1>1, <1>2, <1>5, <1>6, <2>2, AskSound DEF Ops
    <2>4. StoreTypeOK'
      BY <1>1, <1>3, <2>2, <2>3 DEF StoreTypeOK
    <2>5. ControlOperation' /\ ControlSound'
      BY <1>1, <1>2, <2>1, <2>2, <2>3 DEF ControlOperation, ControlSound, Putting
    <2>6. ctl.token.rotation <= rotations
      <3>1. ctl.token.rotation = 0 \/ ctl.token.rotation <= rotations
        BY <1>2 DEF IInv, StoredIssued
      <3>2. 0 <= rotations
        BY <1>3
      <3>3. QED
        BY <3>1, <3>2
    <2>7. QED
      BY <1>1, <1>2, <1>4, <2>1, <2>2, <2>3, <2>4, <2>5, <2>6, ControlEnds DEF Holding
  <1>7. CASE Fault /\ Done /\ UNCHANGED <<row, call>>
    <2>1. /\ ctl' \in ControlStates /\ ctl'.at = "idle" /\ lock' = NoOne
          /\ faults' \in 0 .. MaxFaults /\ call' = call /\ row' = row
      BY <1>3, <1>7, BoundsAssumption
         DEF Done, Unlock, NoCtl, ControlStates, Fault, StoreTypeOK
    <2>2. ControlOperation' /\ ControlSound'
      BY <2>1 DEF ControlOperation, ControlSound
    <2>3. StoreTypeOK' /\ OneJob'
      BY <1>1, <1>3, <1>5, <2>1 DEF StoreTypeOK, IInv, OneJob
    <2>4. /\ fence' \in [AccountIds -> Nat] /\ source' \in [Sources -> SourceStates]
          /\ \A s \in Sources : source'[s].flight = source[s].flight
          /\ SourcesSound' /\ \A s \in Sources : ~ Live(s)'
          /\ \A r \in Requests : RequestSound(r)'
      BY <1>1, <1>4, AccountEnds
    <2>5. JobsSafe'
      BY <1>1, <1>5, <2>1, <2>4 DEF IInv, JobsSafe, JobSafe
    <2>6. StoredIssued' /\ ActiveRowHasItsToken' /\ NoResurrection'
      BY <1>1, <2>1 DEF IInv, StoredIssued, ActiveRowHasItsToken, NoResurrection
    <2>7. changes' \in 0 .. MaxChanges /\ row' \in RowStates \cup {NoRow}
      BY <1>1, <1>3, <2>1
    <2>8. QED
      BY <1>1, <2>1, <2>2, <2>3, <2>4, <2>5, <2>6, <2>7, ControlMove DEF Holding
  <1>8. QED
    BY <1>6, <1>7 DEF CommitPending, a

\* The row becomes active only when the store has said that it holds the token;
\* otherwise what was cached while it was pending ends with the connect (connect).
LEMMA PutTokenKeeps ==
    ASSUME IInv, PutToken
    PROVE  IInv'
  <1>1. /\ ctl.at = "put" /\ lock = Controller /\ Controller \in Callers
        /\ row.state = "pending" /\ ctl.token \in Token /\ Putting(Controller, ctl.token)
        /\ changes # 0
        /\ UNCHANGED <<row, req, changes, rotations, faults>>
    BY DEF PutToken, IInv, LockHeld, ControlSound, Operations, ControlOperation, Callers
  <1>2. PICK res \in Result :
          /\ Returns(Controller, res, NoCall)
          /\ IF res.kind = "ok"
               THEN Control("activate") /\ UNCHANGED <<lock, fence, source>>
               ELSE InvalidateAccount(row.account) /\ Done
    BY DEF PutToken
  <1>3. /\ StoreTypeOK' /\ stored' = stored /\ OneJob'
        /\ \A c \in Callers : call'[c].step = "none"
        /\ worker'.phase = worker.phase /\ worker'.op = worker.op /\ worker'.token = worker.token
    BY <1>1, <1>2, ControlReturns
  <1>4. /\ changes' \in 0 .. MaxChanges /\ ctl \in ControlStates
        /\ row \in RowStates /\ row.account \in AccountIds
    BY <1>1 DEF IInv, TypeOK, RowStates, NoRow
  <1>5. CASE res.kind = "ok"
    <2>1. /\ ~ poisoned' /\ res = call[Controller].reply /\ ReplyStands(Controller)
          /\ Answered(res)
      BY <1>1, <1>2, <1>5, ControlReturns DEF Answered
    <2>2. stored = ctl.token
      BY <1>1, <2>1 DEF ReplyStands, Putting
    <2>3. /\ ctl' \in ControlStates /\ ctl'.at = "activate" /\ ctl'.token = ctl.token
          /\ lock' = Controller /\ UNCHANGED <<fence, source>>
      BY <1>1, <1>2, <1>4, <1>5 DEF ControlStates, Control
    <2>4. ControlSound' /\ ControlOperation'
      BY <1>1, <1>3, <2>1, <2>2, <2>3 DEF ControlSound, ControlOperation
    <2>5. QED
      BY <1>1, <1>3, <1>4, <2>3, <2>4, ControlStays DEF Holding
  <1>6. CASE res.kind # "ok"
    <2>1. /\ ctl' \in ControlStates /\ ctl'.at = "idle" /\ lock' = NoOne
          /\ InvalidateAccount(row.account)
      BY <1>2, <1>6 DEF Done, Unlock, NoCtl, ControlStates
    <2>2. ControlSound' /\ ControlOperation'
      BY <2>1 DEF ControlSound, ControlOperation
    <2>3. QED
      BY <1>1, <1>3, <1>4, <2>1, <2>2, ControlEnds DEF Holding
  <1>7. QED
    BY <1>5, <1>6

\* The connection becomes active with its token in the store (connect).
LEMMA ActivateKeeps ==
    ASSUME IInv, Activate
    PROVE  IInv'
  <1>1. /\ ctl.at = "activate" /\ lock = Controller /\ Controller \in Callers
        /\ row.state = "pending" /\ stored = ctl.token /\ ctl.token \in Token /\ ~ poisoned
        /\ UNCHANGED <<stored, poisoned, worker, call, req, changes, rotations>>
        /\ ctl' = NoCtl /\ lock' = NoOne
    BY DEF Activate, IInv, LockHeld, ControlSound, Callers, Done, Unlock, store
  <1>2. /\ StoreTypeOK /\ ctl'.at = "idle" /\ ctl' \in ControlStates
        /\ changes' \in 0 .. MaxChanges
        /\ row \in RowStates /\ row.account \in AccountIds
    BY <1>1 DEF IInv, TypeOK, RowStates, NoRow, NoCtl, ControlStates
  <1>3. \A c \in Callers : call[c].step = "none"
    <2>1. call[Controller].step = "none"
      BY <1>1 DEF IInv, Operations, ControlOperation
    <2>2. QED
      BY <1>1, <2>1, OnlyHolderCalls
  <1>4. worker.phase = "idle"
    BY <1>1, <1>3 DEF IInv, OneJob
  <1>5. ControlSound' /\ ControlOperation'
    BY <1>2 DEF ControlSound, ControlOperation
  <1>6. OneJob'
    BY <1>1, <1>3 DEF IInv, OneJob
  <1>7. CASE /\ row' = [row EXCEPT !.state = "active", !.consent = ctl.token.consent]
             /\ InvalidateAccount(row.account)
             /\ NoFault
    <2>1. row' \in RowStates /\ row'.state = "active" /\ row'.consent = stored.consent
      <3>1. ctl.token.consent \in 0 .. MaxChanges
        BY <1>1, BoundsAssumption DEF Token
      <3>2. QED
        BY <1>1, <1>2, <1>7, <3>1 DEF RowStates
    <2>2. StoreTypeOK'
      BY <1>1, <1>2, <1>7 DEF StoreTypeOK, NoFault
    <2>3. QED
      BY <1>1, <1>2, <1>3, <1>4, <1>5, <1>6, <1>7, <2>1, <2>2, ControlEnds DEF Holding
  <1>8. CASE Fault /\ UNCHANGED <<row, fence, source>>
    <2>1. StoreTypeOK'
      BY <1>1, <1>2, <1>8, BoundsAssumption DEF StoreTypeOK, Fault
    <2>2. QED
      BY <1>1, <1>2, <1>3, <1>5, <1>6, <1>8, <2>1, ControlStays DEF Holding
  <1>9. QED
    BY <1>7, <1>8 DEF Activate

\* The eviction under the lock ends what was made for the connection (Disconnect).
LEMMA EvictEnds ==
    ASSUME IInv, ctl.at \in {"begin", "evict"}, NEW plan \in {"idle", "revoke", "relock"},
           Evict(plan), UNCHANGED <<stored, row, req, changes, rotations>>,
           row.state = "disconnecting", StoreTypeOK', OneJob',
           worker'.phase # "idle" =>
              worker.phase # "idle" /\ worker'.op = worker.op /\ worker'.token = worker.token,
           \A c \in Callers : call'[c].step = "none"
    PROVE  IInv'
  <1>1. /\ InvalidateAccount(row.account) /\ ctl' = [NoCtl EXCEPT !.at = plan] /\ lock' = NoOne
        /\ lock = Controller /\ changes # 0
    BY DEF Evict, Unlock, IInv, LockHeld, ControlSound
  <1>2. row \in RowStates /\ row' \in RowStates /\ row.account \in AccountIds
    BY DEF IInv, TypeOK, RowStates, NoRow
  <1>3. ctl' \in ControlStates /\ ctl'.at = plan
    BY <1>1, BoundsAssumption DEF ControlStates, NoCtl
  <1>4. ControlSound' /\ ControlOperation'
    BY <1>1, <1>3 DEF ControlSound, ControlOperation
  <1>5. QED
    BY <1>1, <1>2, <1>3, <1>4, ControlEnds DEF Holding

\* A disconnect commits its row under the lock, where what was made for the
\* connection still stands, unless the row was committed before (Disconnect).
LEMMA MarkDisconnectingKeeps ==
    ASSUME IInv, MarkDisconnecting
    PROVE  IInv'
  <1>1. /\ ctl.at = "begin" /\ lock = Controller /\ Controller \in Callers
        /\ row.account # 0 /\ changes # 0
        /\ UNCHANGED <<req, changes, rotations>>
    BY DEF MarkDisconnecting, IInv, LockHeld, ControlSound, Callers
  <1>2. PICK res \in Result :
         /\ Returns(Controller, res, NoCall)
         /\ \/ /\ row.state = "disconnecting"
               /\ Evict(PlanOf(res))
               /\ NoFault /\ UNCHANGED row
            \/ /\ row.state # "disconnecting"
               /\ row' = [NoRow EXCEPT !.account = row.account, !.state = "disconnecting",
                                       !.generation = row.generation + 1]
               /\ ctl' = [NoCtl EXCEPT !.at = "evict", !.plan = PlanOf(res)]
               /\ NoFault /\ UNCHANGED <<lock, fence, source>>
            \/ /\ row.state # "disconnecting"
               /\ Done
               /\ Fault /\ UNCHANGED <<row, fence, source>>
    BY DEF MarkDisconnecting
  <1>3. /\ changes' \in 0 .. MaxChanges
        /\ row \in RowStates /\ row.account \in AccountIds
    BY <1>1 DEF IInv, TypeOK, RowStates, NoRow
  <1>4. /\ OneJob' /\ call' \in [Callers -> CallStates]
        /\ \A c \in Callers : call'[c].step = "none"
    BY <1>1, <1>2, ReturnEnds
  <1>5. /\ worker' \in Jobs /\ poisoned' \in BOOLEAN /\ stored' = stored
        /\ worker'.phase = worker.phase /\ worker'.op = worker.op
        /\ worker'.token = worker.token
    BY <1>1, <1>2, ReturnSound
  <1>6. StoreTypeOK'
    <2>1. faults' \in 0 .. MaxFaults
      BY <1>2, BoundsAssumption DEF Fault, NoFault, IInv, TypeOK, StoreTypeOK
    <2>2. QED
      BY <1>4, <1>5, <2>1 DEF IInv, TypeOK, StoreTypeOK
  <1>7. PlanOf(res) \in {"relock", "revoke", "idle"}
    BY DEF PlanOf, Result, Answered
  <1>8. CASE row.state = "disconnecting" /\ Evict(PlanOf(res)) /\ UNCHANGED row
    BY <1>1, <1>4, <1>5, <1>6, <1>7, <1>8, EvictEnds
  <1>9. CASE /\ row.state # "disconnecting"
             /\ row' = [NoRow EXCEPT !.account = row.account, !.state = "disconnecting",
                                     !.generation = row.generation + 1]
             /\ ctl' = [NoCtl EXCEPT !.at = "evict", !.plan = PlanOf(res)]
             /\ UNCHANGED <<lock, fence, source>>
    <2>1. /\ row' \in RowStates /\ row'.state = "disconnecting"
          /\ row'.account = row.account /\ row'.generation = row.generation + 1
      <3>1. row.generation + 1 \in Nat
        BY <1>3 DEF RowStates
      <3>2. row' = [account |-> row.account, state |-> "disconnecting",
                    generation |-> row.generation + 1, local |-> FALSE, consent |-> 0]
        BY <1>9 DEF NoRow
      <3>3. QED
        BY <1>3, <3>1, <3>2, BoundsAssumption DEF RowStates
    <2>2. ctl'.at = "evict" /\ ctl' \in ControlStates
      BY <1>7, <1>9, BoundsAssumption DEF ControlStates, NoCtl
    <2>3. ControlSound' /\ ControlOperation'
      BY <1>1, <1>4, <2>1, <2>2 DEF ControlSound, ControlOperation
    <2>4. ASSUME NEW s \in Sources, source[s] # Unborn, ~ Blocked(s)
          PROVE  Standing(source[s].account, source[s].generation)'
      <3>1. LiveFor(source[s].account, source[s].generation)
        BY <1>1, <2>4 DEF IInv, SourcesSound, SourceSound, Standing, Ending
      <3>2. QED
        BY <1>9, <2>1, <2>2, <3>1 DEF Standing, Ending, LiveFor
    <2>5. SourcesSound'
      <3>1. \A s \in Sources : SourceSound(s)'
        BY <1>1, <1>5, <1>9, <2>4 DEF IInv, SourcesSound, SourceSound, Blocked, Between
      <3>2. QED
        BY <1>9, <3>1 DEF IInv, SourcesSound, Live, Blocked
    <2>6. JobsSafe'
      <3>1. ASSUME worker.phase # "idle" PROVE JobSafe(worker.op, worker.token)'
        <4>1. JobSafe(worker.op, worker.token)
          BY <3>1 DEF IInv, JobsSafe
        <4>2. QED
          BY <1>1, <1>5, <1>9, <2>1, <4>1 DEF JobSafe, Live, Blocked, Between
      <3>2. QED
        BY <1>4, <1>5, <3>1 DEF JobsSafe
    <2>7. ASSUME NEW r \in Requests PROVE RequestSound(r)'
      BY <1>1, <1>9 DEF IInv, RequestSound, Usable, Keyed
    <2>8. StoredIssued' /\ ActiveRowHasItsToken' /\ NoResurrection'
      BY <1>1, <1>5, <2>1 DEF IInv, StoredIssued, ActiveRowHasItsToken, NoResurrection
    <2>9. fence' \in [AccountIds -> Nat] /\ source' \in [Sources -> SourceStates]
      BY <1>9 DEF IInv, TypeOK
    <2>10. QED
      BY <1>1, <1>3, <1>4, <1>6, <1>9, <2>1, <2>2, <2>3, <2>5, <2>6, <2>7, <2>8, <2>9,
         ControlMove DEF Holding
  <1>10. CASE Done /\ UNCHANGED <<row, fence, source>>
    <2>1. ctl'.at = "idle" /\ ctl' \in ControlStates /\ lock' = NoOne
      BY <1>10, BoundsAssumption DEF Done, Unlock, NoCtl, ControlStates
    <2>2. ControlSound' /\ ControlOperation'
      BY <2>1 DEF ControlSound, ControlOperation
    <2>3. QED
      BY <1>1, <1>3, <1>4, <1>5, <1>6, <1>10, <2>1, <2>2, ControlStays DEF Holding
  <1>11. QED
    BY <1>2, <1>8, <1>9, <1>10

\* What the committed row ends is evicted before the lock is given up (Disconnect).
LEMMA EvictDisconnectingKeeps ==
    ASSUME IInv, EvictDisconnecting
    PROVE  IInv'
  <1>1. /\ ctl.at = "evict" /\ Evict(ctl.plan) /\ ctl.plan \in {"idle", "revoke", "relock"}
        /\ UNCHANGED <<stored, poisoned, worker, call, row, req, changes, rotations, faults>>
    BY DEF EvictDisconnecting, store, IInv, TypeOK, ControlStates
  <1>2. row.state = "disconnecting" /\ lock = Controller
    BY <1>1 DEF IInv, ControlSound, LockHeld
  <1>3. \A c \in Callers : call[c].step = "none"
    <2>1. call[Controller].step = "none"
      BY <1>1 DEF IInv, Operations, ControlOperation
    <2>2. QED
      BY <1>2, <2>1, OnlyHolderCalls
  <1>4. StoreTypeOK' /\ OneJob'
    BY <1>1, <1>3 DEF IInv, TypeOK, StoreTypeOK, OneJob
  <1>5. PICK plan \in {"idle", "revoke", "relock"} : plan = ctl.plan
    BY <1>1
  <1>6. QED
    BY <1>1, <1>2, <1>3, <1>4, <1>5, EvictEnds

(***************************************************************************)
(* The process stops                                                       *)
(***************************************************************************)

\* Nothing but the row and the stored token survives, and what a job that was
\* under way has done to the token by then, it was allowed to do.
LEMMA RestartKeeps ==
    ASSUME IInv, Restart
    PROVE  IInv'
  <1>1. /\ UNCHANGED <<stored, row, changes, rotations>> /\ faults' \in 0 .. MaxFaults
        /\ poisoned' = FALSE /\ worker' = Idle /\ call' = [c \in Callers |-> NoCall]
        /\ lock' = NoOne /\ fence' = [a \in AccountIds |-> 0]
        /\ source' = [s \in Sources |-> Unborn]
        /\ req' = [r \in Requests |-> NoReq] /\ ctl' = NoCtl
    BY BoundsAssumption DEF Restart, StoreRestart, Fault, IInv, TypeOK, StoreTypeOK
  <1>2. /\ NoCall \in CallStates /\ Idle \in Jobs /\ Unborn \in SourceStates
        /\ NoReq \in RequestStates /\ NoCtl \in ControlStates
    BY BoundsAssumption
       DEF NoCall, Idle, Unborn, NoReq, NoCtl, CallStates, Only, Result, Steps, Ops, Jobs,
           SourceStates, RequestStates, ControlStates
  <1>3. TypeOK'
    <2>1. StoreTypeOK'
      BY <1>1, <1>2 DEF IInv, TypeOK, StoreTypeOK
    <2>2. QED
      BY <1>1, <1>2, <2>1 DEF IInv, TypeOK
  <1>4. LockHeld'
    BY <1>1, ProcessesAssumption DEF LockHeld, Unborn, NoReq, NoCtl
  <1>5. OneJob' /\ JobsSafe'
    BY <1>1 DEF OneJob, JobsSafe, NoCall, Idle
  <1>6. Operations'
    BY <1>1 DEF Operations, ControlOperation, Unborn, NoReq, NoCtl
  <1>7. SourcesSound'
    BY <1>1 DEF SourcesSound, SourceSound, Live
  <1>8. \A r \in Requests : RequestSound(r)'
    BY <1>1 DEF RequestSound, NoReq
  <1>9. ControlSound' /\ StoredIssued' /\ ActiveRowHasItsToken' /\ NoResurrection'
    BY <1>1 DEF ControlSound, NoCtl, IInv, StoredIssued, ActiveRowHasItsToken, NoResurrection
  <1>10. QED
    BY <1>3, <1>4, <1>5, <1>6, <1>7, <1>8, <1>9 DEF IInv

\* Every step keeps the invariant.
LEMMA NextKeeps == IInv /\ [Next]_vars => IInv'
  <1> SUFFICES ASSUME IInv, [Next]_vars PROVE IInv'
    OBVIOUS
  <1>1. ASSUME NEW s \in Sources, Collect(s) PROVE IInv'
    BY <1>1, CollectKeeps
  <1>2. ASSUME NEW r \in Requests, Resolve(r) \/ RequestStep(r) \/ CancelRequest(r)
        PROVE  IInv'
    BY <1>2, RequestStepsKeep, OpenClientKeeps, FillClientKeeps, EnterTokenKeeps,
       BeginRefreshKeeps DEF RequestStep
  <1>3. ASSUME NEW s \in Sources, RefreshStep(s) \/ AccessExpires(s) PROVE IInv'
    BY <1>3, ExchangeKeeps, SourceStepsKeep, LockRefreshKeeps, ReadStoredKeeps,
       PersistedKeeps, EndRefreshKeeps DEF RefreshStep
  <1>4. ASSUME BeginConnect \/ BeginDisconnect \/ ControlStep PROVE IInv'
    BY <1>4, BeginConnectKeeps, BeginDisconnectKeeps, LookupTokenKeeps, CommitPendingKeeps,
       PutTokenKeeps, ActivateKeeps, MarkDisconnectingKeeps, EvictDisconnectingKeeps,
       RevokeKeeps, RecordLocalStageKeeps, DeleteRecordKeeps DEF ControlStep
  <1>5. ASSUME UNCHANGED vars PROVE IInv'
    <2>1. UNCHANGED <<store, row, lock, fence, source, req, ctl, changes, rotations, faults>>
      BY <1>5 DEF vars
    <2>2. \A r \in Requests : GoesOn(r)
      BY <2>1 DEF GoesOn
    <2>3. req' \in [Requests -> RequestStates]
      BY <2>1 DEF IInv, TypeOK
    <2>4. QED
      BY <2>1, <2>2, <2>3, RequestMove
  <1>6. QED
    BY <1>1, <1>2, <1>3, <1>4, <1>5, StoreStepKeeps, RestartKeeps DEF Next

(***************************************************************************)
(* Theorems                                                                *)
(***************************************************************************)

\* The invariant holds in every reachable state.
THEOREM ProviderInductive == Spec => []IInv
  <1>1. Init => IInv
    BY InitIInv
  <1>2. IInv /\ [Next]_vars => IInv'
    BY NextKeeps
  <1>3. QED
    BY <1>1, <1>2, PTL DEF Spec

\* Rows, clients, requests, operations and jobs are of the kinds they should be.
THEOREM ProviderTypeCorrect == Spec => []TypeOK
  <1>1. IInv => TypeOK
    BY DEF IInv
  <1>2. QED
    BY <1>1, ProviderInductive, PTL

\* However requests, refreshes, connects, disconnects and restarts interleave,
\* a client that still serves belongs to the active connection as it is, or to
\* the one that a disconnect still holding the lock has committed the end of and
\* is about to evict (InvalidateAccount, blocked, cachedClient).
THEOREM ServingIsCurrent == Spec => []UnblockedSourceCurrent
  <1>1. IInv => UnblockedSourceCurrent
    BY DEF IInv, SourcesSound, SourceSound, UnblockedSourceCurrent
  <1>2. QED
    BY <1>1, ProviderInductive, PTL

\* Nobody is given an access token that came with a refresh token which is not
\* in the store (persistRotated).
THEOREM ServedTokensDurable == Spec => []ServedIsDurable
  <1>1. ASSUME IInv, NEW s \in Sources, source[s].current, ~ Blocked(s)
        PROVE  stored = source[s].inner
    <2>1. source[s] # Unborn
      BY <1>1 DEF Unborn
    <2>2. source[s].inner = source[s].refresh /\ source[s].inner \in Token /\ Between(s, stored)
      BY <1>1, <2>1 DEF IInv, SourcesSound, SourceSound
    <2>3. stored \in Token
      BY <1>1, <2>2 DEF IInv, TypeOK, StoreTypeOK, Between, Token, NoToken
    <2>4. stored.consent = source[s].inner.consent /\ stored.rotation = source[s].inner.rotation
      BY <2>2, <2>3 DEF Between, Token
    <2>5. QED
      BY <2>2, <2>3, <2>4 DEF Token
  <1>2. IInv => ServedIsDurable
    BY <1>1 DEF ServedIsDurable
  <1>3. QED
    BY <1>2, ProviderInductive, PTL

\* An active connection's token is the one of its consent, whatever refreshes
\* and abandoned writes of an earlier one still do (persistRotated, failClosed).
THEOREM ActiveRowsHaveTheirToken == Spec => []ActiveRowHasItsToken
  <1>1. IInv => ActiveRowHasItsToken
    BY DEF IInv
  <1>2. QED
    BY <1>1, ProviderInductive, PTL

\* No refresh and no abandoned write brings a token back once the connection is
\* gone (liveUsable, failClosed).
THEOREM RemovedStaysRemoved == Spec => []NoResurrection
  <1>1. IInv => NoResurrection
    BY DEF IInv
  <1>2. QED
    BY <1>1, ProviderInductive, PTL

\* Only the worker changes what is stored, and a rotated token it stores comes
\* after the one it replaces (persistRotated).
LEMMA StoredExtends ==
    ASSUME IInv, [Next]_vars, stored' # stored, stored'.rotation > 0
    PROVE  stored.consent = stored'.consent /\ stored.rotation < stored'.rotation
  <1>1. ChangeKey
    BY DEF Next, vars, store, Collect, Resolve, RequestStep, OpenClient, FillClient, EnterToken,
       BeginRefresh, Send, CancelRequest, RefreshStep, Exchange, CheckRotated, LockRefresh,
       GiveUpLock, ReadStored, Persisted, CheckFinal, EndRefresh, AccessExpires, BeginConnect,
       BeginDisconnect, ControlStep, LookupToken, CommitPending, PutToken, Activate,
       MarkDisconnecting, EvictDisconnecting, Evict, Revoke, GiveUpControl, RecordLocalStage,
       DeleteRecord, StoreStep, WorkerStep, Take, ReadKey, Restart, StoreRestart, Returns
  <1>2. worker.phase # "idle" /\ worker.op = "put" /\ stored' = worker.token
    BY <1>1 DEF ChangeKey, NoToken
  <1>3. JobSafe("put", worker.token)
    BY <1>2 DEF IInv, JobsSafe
  <1>4. stored \in Token \cup {NoToken} /\ worker.token \in Token
    BY <1>3 DEF IInv, TypeOK, StoreTypeOK, JobSafe
  <1>5. stored.consent = stored'.consent /\ stored.rotation <= stored'.rotation
    BY <1>2, <1>3, <1>4 DEF JobSafe, Token, NoToken
  <1>6. stored # NoToken
    BY <1>2, <1>4, <1>5 DEF Token, NoToken
  <1>7. stored.rotation # stored'.rotation
    BY <1>2, <1>4, <1>5, <1>6 DEF Token
  <1>8. QED
    BY <1>2, <1>4, <1>5, <1>6, <1>7 DEF Token

\* A rotated token is never stored over a token of another consent, nor over a
\* later one of its own, by whatever job is carried out and however late.
THEOREM RotationsExtend == Spec => RotationExtends
  <1>1. IInv /\ [Next]_vars =>
          [stored' # stored /\ stored'.rotation > 0
             => /\ stored.consent = stored'.consent
                /\ stored.rotation < stored'.rotation]_vars
    BY StoredExtends
  <1>2. QED
    BY <1>1, ProviderInductive, PTL DEF Spec, RotationExtends

\* A request that is let through by its client is one of the connection that
\* stands at that moment (token, blocked).
LEMMA AuthorisedLive ==
    ASSUME IInv, [Next]_vars, NEW r \in Requests, req[r].at = "token", req'[r].at = "begin"
    PROVE  Standing(req[r].account, req[r].generation)
  <1>1. req[r].source \in Sources /\ source[req[r].source] # Unborn /\ Keyed(req[r].source, r)
    BY DEF IInv, RequestSound
  <1>2. EnterToken(r) /\ ~ Blocked(req[r].source)
    <2>1. req \in [Requests -> RequestStates] /\ req' # req
      BY DEF IInv, TypeOK
    <2>2. ~ Restart
      BY DEF Restart, NoReq
    <2>3. ASSUME NEW s \in Sources, EndRefresh(s) PROVE FALSE
      <3>1. req'[r] \in {req[r], [req[r] EXCEPT !.at = "send"], NoReq}
        BY <2>3 DEF EndRefresh
      <3>2. req[r] \in RequestStates
        BY <2>1
      <3>3. QED
        BY <3>1, <3>2 DEF NoReq, RequestStates
    <2>4. \E x \in Requests : Resolve(x) \/ RequestStep(x) \/ CancelRequest(x)
      BY <2>1, <2>2, <2>3 DEF Next, vars, RefreshStep, Collect, Exchange, CheckRotated,
         LockRefresh, GiveUpLock, ReadStored, Persisted, CheckFinal, AccessExpires,
         BeginConnect, BeginDisconnect, ControlStep, LookupToken, CommitPending, PutToken,
         Activate, MarkDisconnecting, EvictDisconnecting, Revoke, GiveUpControl,
         RecordLocalStage, DeleteRecord, StoreStep
    <2>5. PICK x \in Requests : Resolve(x) \/ RequestStep(x) \/ CancelRequest(x)
      BY <2>4
    <2>6. x = r
      <3>1. \E new : req' = [req EXCEPT ![x] = new]
        BY <2>5 DEF RequestStep, Resolve, OpenClient, FillClient, EnterToken, BeginRefresh,
           Send, CancelRequest, Move, Use, Fail
      <3>2. QED
        BY <2>1, <3>1
    <2>7. ~ Resolve(r) /\ ~ CancelRequest(r)
      BY <2>1 DEF Resolve, CancelRequest, Fail, NoReq
    <2>8. EnterToken(r)
      BY <2>5, <2>6, <2>7 DEF RequestStep, OpenClient, FillClient, BeginRefresh, Send
    <2>9. ~ Blocked(req[r].source)
      BY <2>1, <2>8 DEF EnterToken, Fail, NoReq
    <2>10. QED
      BY <2>8, <2>9
  <1>3. Standing(source[req[r].source].account, source[req[r].source].generation)
    BY <1>1, <1>2 DEF IInv, SourcesSound, SourceSound
  <1>4. QED
    BY <1>1, <1>3 DEF Keyed

\* A call is authorised only for the connection it was resolved to, while that
\* is the account's current one or its disconnect has yet to evict its clients.
THEOREM AuthorisedWhileCurrent == Spec => AuthorisedIsCurrent
  <1>1. IInv /\ [Next]_vars =>
          [\A r \in Requests :
              req[r].at = "token" /\ req'[r].at = "begin"
                => Standing(req[r].account, req[r].generation)]_vars
    BY AuthorisedLive
  <1>2. QED
    BY <1>1, ProviderInductive, PTL DEF Spec, AuthorisedIsCurrent

=============================================================================
