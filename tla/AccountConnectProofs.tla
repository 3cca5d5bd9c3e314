------------------------ MODULE AccountConnectProofs ------------------------
(***************************************************************************)
(* Theorems about AccountConnect for every number of subjects, principals, *)
(* handlers, accounts, sessions and faults.  The argument is inductive:    *)
(* IInv holds initially (InitIInv) and every action keeps it, one lemma    *)
(* per action or group of actions with the same shape.                     *)
(***************************************************************************)
EXTENDS AccountConnect, TLAPS

(***************************************************************************)
(* Maps                                                                    *)
(***************************************************************************)

\* Storing a value of the right type keeps a map, adds its key and leaves
\* the other keys alone (m[k] = v).
LEMMA SetKeyMap ==
    ASSUME NEW K, NEW V, NEW m, IsMap(m, K, V), NEW k \in K, NEW v \in V
    PROVE  /\ IsMap(SetKey(m, k, v), K, V)
           /\ DOMAIN SetKey(m, k, v) = DOMAIN m \cup {k}
           /\ SetKey(m, k, v)[k] = v
           /\ \A x \in DOMAIN m \ {k} : SetKey(m, k, v)[x] = m[x]
  BY DEF IsMap, SetKey

\* Deleting a key keeps a map and the values of its other keys (delete(m, k)).
LEMMA DropKeyMap ==
    ASSUME NEW K, NEW V, NEW m, IsMap(m, K, V), NEW k
    PROVE  /\ IsMap(DropKey(m, k), K, V)
           /\ DOMAIN DropKey(m, k) = DOMAIN m \ {k}
           /\ \A x \in DOMAIN m \ {k} : DropKey(m, k)[x] = m[x]
  BY DEF IsMap, DropKey

\* The empty map is a map of every type.
LEMMA EmptyIsMap ==
    ASSUME NEW K, NEW V
    PROVE  IsMap(EmptyMap, K, V) /\ DOMAIN EmptyMap = {}
  BY DEF IsMap, EmptyMap

(***************************************************************************)
(* commitRecords                                                           *)
(***************************************************************************)

\* A commit that updates the row of its subject, or creates the first row its
\* principal has for that subject, stores the row under the AccountID it was
\* given, as it was given but for its generation and its revoke epoch, and
\* touches no other row (registry.go commitRecords).
LEMMA CommitRow ==
    ASSUME TypeOK, OneConnectionPerIdentity,
           NEW id \in AccountIds, NEW rec \in Record,
           \/ id \in DOMAIN records /\ records[id].subject = rec.subject
           \/ /\ id \notin DOMAIN records
              /\ \A w \in Owners(rec.subject) : records[w].principal # rec.principal,
           Commit(id, rec)
    PROVE  /\ ~ Clash(rec)
           /\ Owners(rec.subject) \subseteq {id}
           /\ IsMap(records', AccountIds, Record)
           /\ DOMAIN records' = DOMAIN records \cup {id}
           /\ \A w \in DOMAIN records \ {id} : records'[w] = records[w]
           /\ records'[id] \in Record
           /\ records'[id].subject = rec.subject /\ records'[id].email = rec.email
           /\ records'[id].principal = rec.principal /\ records'[id].state = rec.state
           /\ records'[id].cleanup = rec.cleanup
           /\ id \notin DOMAIN records => records'[id].generation = AtLeast(rec.generation, 1)
           /\ id \in DOMAIN records =>
                 records'[id].generation =
                    IF rec.generation = 0 \/ rec.generation < records[id].generation
                      THEN records[id].generation + 1 ELSE rec.generation
  <1>1. ~ Clash(rec) /\ records' = SetKey(records, Winner(id, rec), Merged(rec))
    BY DEF Commit
  <1>2. \A w \in DOMAIN records : records[w] \in Record
    BY DEF TypeOK, IsMap
  <1>3. \/ Owners(rec.subject) = {} /\ id \notin DOMAIN records
        \/ Owners(rec.subject) = {id} /\ id \in DOMAIN records
    <2>1. CASE id \in DOMAIN records /\ records[id].subject = rec.subject
      BY <2>1 DEF Owners, OneConnectionPerIdentity
    <2>2. CASE /\ id \notin DOMAIN records
               /\ \A w \in Owners(rec.subject) : records[w].principal # rec.principal
      BY <1>1, <2>2 DEF Owners, Clash
    <2> QED BY <2>1, <2>2
  <1>4. Winner(id, rec) = id
    BY <1>3 DEF Winner
  <1> DEFINE row == Merged(rec)
  <1>5. /\ row \in Record
        /\ row.subject = rec.subject /\ row.email = rec.email /\ row.principal = rec.principal
        /\ row.state = rec.state /\ row.cleanup = rec.cleanup
        /\ id \notin DOMAIN records => row.generation = AtLeast(rec.generation, 1)
        /\ id \in DOMAIN records =>
              row.generation = IF rec.generation = 0 \/ rec.generation < records[id].generation
                               THEN records[id].generation + 1 ELSE rec.generation
    <2>1. CASE Owners(rec.subject) = {} /\ id \notin DOMAIN records
      BY <2>1 DEF Merged, Record, AtLeast
    <2>2. CASE Owners(rec.subject) = {id} /\ id \in DOMAIN records
      <3>1. (CHOOSE w \in Owners(rec.subject) : TRUE) = id
        BY <2>2
      <3>2. records[id] \in Record
        BY <1>2, <2>2
      <3> DEFINE g == IF rec.generation = 0 \/ rec.generation < records[id].generation
                         THEN records[id].generation + 1 ELSE rec.generation
                 h == AtLeast(rec.revokeEpoch, records[id].revokeEpoch)
      <3>3. g \in Nat /\ h \in Nat
        BY <3>2 DEF Record, AtLeast
      <3>4. row = [rec EXCEPT !.generation = g, !.revokeEpoch = h]
        BY <2>2, <3>1 DEF Merged
      <3>5. row.generation = g
        BY <3>4 DEF Record
      <3> HIDE DEF g, h, row
      <3>6. /\ row \in Record
            /\ row.subject = rec.subject /\ row.email = rec.email /\ row.principal = rec.principal
            /\ row.state = rec.state /\ row.cleanup = rec.cleanup
        BY <3>3, <3>4 DEF Record
      <3> QED BY <2>2, <3>5, <3>6 DEF g
    <2> QED BY <1>3, <2>1, <2>2
  <1> HIDE DEF row
  <1>6. /\ IsMap(records', AccountIds, Record)
        /\ DOMAIN records' = DOMAIN records \cup {id}
        /\ records'[id] = row
        /\ \A w \in DOMAIN records \ {id} : records'[w] = records[w]
    <2>1. IsMap(records, AccountIds, Record)
      BY DEF TypeOK
    <2>2. records' = SetKey(records, id, row) /\ row \in Record
      BY <1>1, <1>4, <1>5 DEF row
    <2>3. \A k \in AccountIds, v \in Record :
             /\ IsMap(SetKey(records, k, v), AccountIds, Record)
             /\ DOMAIN SetKey(records, k, v) = DOMAIN records \cup {k}
             /\ SetKey(records, k, v)[k] = v
             /\ \A w \in DOMAIN records \ {k} : SetKey(records, k, v)[w] = records[w]
      BY <2>1, SetKeyMap
    <2> QED BY <2>2, <2>3
  <1>7. Owners(rec.subject) \subseteq {id}
    BY <1>3
  <1> QED BY <1>1, <1>5, <1>6, <1>7

\* Such a commit keeps one row per subject and per address, under AccountIDs
\* that were minted.
LEMMA CommitKeeps ==
    ASSUME TypeOK, OneConnectionPerIdentity, IdsMinted,
           NEW id \in AccountIds, id \in 1 .. nextAccount, NEW rec \in Record,
           \/ id \in DOMAIN records /\ records[id].subject = rec.subject
           \/ /\ id \notin DOMAIN records
              /\ \A w \in Owners(rec.subject) : records[w].principal # rec.principal,
           Commit(id, rec)
    PROVE  /\ IsMap(records', AccountIds, Record)
           /\ OneConnectionPerIdentity'
           /\ DOMAIN records' = DOMAIN records \cup {id}
           /\ DOMAIN records' \subseteq 1 .. nextAccount
           /\ records'[id].subject = rec.subject
  <1>1. /\ ~ Clash(rec) /\ Owners(rec.subject) \subseteq {id}
        /\ IsMap(records', AccountIds, Record)
        /\ DOMAIN records' = DOMAIN records \cup {id}
        /\ \A w \in DOMAIN records \ {id} : records'[w] = records[w]
        /\ records'[id].subject = rec.subject /\ records'[id].email = rec.email
    BY CommitRow
  <1>2. \A w \in DOMAIN records \ {id} :
           records[w].subject # rec.subject /\ records[w].email # rec.email
    BY <1>1 DEF Clash, Owners
  <1>3. OneConnectionPerIdentity'
    BY <1>1, <1>2 DEF OneConnectionPerIdentity
  <1> QED BY <1>1, <1>3 DEF IdsMinted

(***************************************************************************)
(* Handlers: a step of one handler leaves what the others know intact      *)
(***************************************************************************)

\* the part of TypeOK that is not about handlers
DataOK ==
    /\ IsMap(records, AccountIds, Record)
    /\ epochs \in [Subjects -> Nat]
    /\ IsMap(tokens, Emails, Token)
    /\ IsMap(sessions, 1 .. MaxSessions, Session)
    /\ IsMap(clients, AccountIds, Client)
    /\ grant \in [Subjects -> Nat]
    /\ consented \in SUBSET Subjects
    /\ nextAccount \in 0 .. MaxAccounts
    /\ nextSession \in 0 .. MaxSessions
    /\ faults \in 0 .. MaxFaults

\* the registry part of IInv
RegistryOK == DataOK /\ OneConnectionPerIdentity /\ IdsMinted

\* The locals of an idle handler have the type of locals.
LEMMA NoJobType == NoJob \in Job
  BY DEF NoJob, Job, NoToken

\* A step of handler o keeps the invariant when the data and what o itself
\* knows are right after it, and either o had the lifecycle lock (or took it
\* when it was free) or the step leaves the registry and the lock alone.
LEMMA StepKeeps ==
    ASSUME IInv, NEW o \in Ops, NEW x \in PCs, NEW y \in Job,
           pc' = [pc EXCEPT ![o] = x], job' = [job EXCEPT ![o] = y],
           RegistryOK', HandlerKnows(o)',
           \/ UNCHANGED <<records, nextAccount, lock>>
           \/ lock \in {o, NoOp} /\ lock' \in {o, NoOp}
    PROVE  IInv'
  <1>1. pc \in [Ops -> PCs] /\ job \in [Ops -> Job] /\ lock \in Ops \cup {NoOp}
    BY DEF IInv, TypeOK
  <1>2. /\ pc' \in [Ops -> PCs]
        /\ job' \in [Ops -> Job]
        /\ lock' \in Ops \cup {NoOp}
    BY <1>1
  <1>3. TypeOK'
    BY <1>2 DEF RegistryOK, DataOK, TypeOK
  <1>4. ASSUME NEW p \in Ops \ {o}
        PROVE  HandlerKnows(p)'
    <2>1. pc'[p] = pc[p] /\ job'[p] = job[p]
      BY <1>1
    <2>2. HandlerKnows(p)
      BY DEF IInv
    <2>3. CASE UNCHANGED <<records, nextAccount, lock>>
      BY <2>1, <2>2, <2>3
      DEF HandlerKnows, RowsHeld, Lists, Learnt, CommitTarget, AwaitsCommit, Owners
    <2>4. CASE lock \in {o, NoOp} /\ lock' \in {o, NoOp}
      <3>1. p # NoOp
        BY OpsAssumption
      <3>2. lock # p /\ lock' # p /\ pc[p] \notin Holding
        BY <2>2, <2>4, <3>1 DEF HandlerKnows
      <3> QED
        BY <2>1, <2>2, <3>2
        DEF HandlerKnows, RowsHeld, Lists, Learnt, CommitTarget, AwaitsCommit, Holding, OnRow, PCs
    <2> QED BY <2>3, <2>4
  <1> QED BY <1>3, <1>4 DEF IInv, RegistryOK

\* A return keeps the invariant: it gives the lock back and forgets the locals.
LEMMA ReturnKeeps ==
    ASSUME IInv, NEW o \in Ops, Return(o), RegistryOK',
           UNCHANGED <<records, nextAccount>> \/ lock = o
    PROVE  IInv'
  <1>1. "idle" \in PCs
    BY DEF PCs
  <1>2. /\ pc \in [Ops -> PCs] /\ job \in [Ops -> Job]
        /\ pc' = [pc EXCEPT ![o] = "idle"]
        /\ job' = [job EXCEPT ![o] = NoJob]
    BY DEF Return, IInv, TypeOK
  <1>3. pc'[o] = "idle" /\ lock' # o
    BY <1>2, OpsAssumption DEF Return
  <1>4. HandlerKnows(o)'
    BY <1>3
    DEF HandlerKnows, RowsHeld, Lists, Learnt, CommitTarget, AwaitsCommit, Holding, OnRow
  <1>5. \/ UNCHANGED <<records, nextAccount, lock>>
        \/ lock \in {o, NoOp} /\ lock' \in {o, NoOp}
    BY DEF Return
  <1> QED BY <1>1, <1>2, <1>4, <1>5, NoJobType, StepKeeps

\* Inside the critical section a handler moves on to a step that needs no
\* more than the row it works on.
LEMMA GotoKeeps ==
    ASSUME IInv, NEW o \in Ops, NEW step \in OnRow, Goto(o, step),
           lock = o, UNCHANGED lock, RegistryOK',
           job[o].account \in DOMAIN records',
           step \notin {"settle", "settled", "put"}
    PROVE  IInv'
  <1>1. step \in PCs /\ step \in Holding
    BY DEF OnRow, Holding
  <1>2. /\ pc \in [Ops -> PCs] /\ job \in [Ops -> Job]
        /\ pc' = [pc EXCEPT ![o] = step] /\ job' = job
    BY DEF Goto, IInv, TypeOK
  <1>3. job' = [job EXCEPT ![o] = job[o]] /\ job[o] \in Job
    BY <1>2
  <1>4. pc'[o] = step /\ job'[o] = job[o]
    BY <1>2
  <1>5. HandlerKnows(o)'
    BY <1>1, <1>4
    DEF HandlerKnows, RowsHeld, Lists, Learnt, CommitTarget, AwaitsCommit, Holding, OnRow
  <1> QED BY <1>1, <1>2, <1>3, <1>5, StepKeeps

\* Counting a fault stays within its bound.
LEMMA FaultKeeps ==
    ASSUME faults \in 0 .. MaxFaults, Fault \/ NoFault
    PROVE  faults' \in 0 .. MaxFaults
  BY BoundsAssumption DEF Fault, NoFault

\* What the invariant says of the data before a step.
LEMMA RegistryNow ==
    ASSUME IInv
    PROVE  RegistryOK
  BY DEF IInv, TypeOK, RegistryOK, DataOK

\* A step that leaves the registry rows and the minted AccountIDs alone keeps
\* the registry part when everything else keeps its type.
LEMMA SameRows ==
    ASSUME IInv, UNCHANGED <<records, nextAccount>>,
           epochs' \in [Subjects -> Nat], IsMap(tokens', Emails, Token),
           IsMap(sessions', 1 .. MaxSessions, Session),
           IsMap(clients', AccountIds, Client),
           grant' \in [Subjects -> Nat], consented' \in SUBSET Subjects,
           nextSession' \in 0 .. MaxSessions, faults' \in 0 .. MaxFaults
    PROVE  RegistryOK'
  BY RegistryNow DEF RegistryOK, DataOK, OneConnectionPerIdentity, IdsMinted

(***************************************************************************)
(* Init, and the steps that are no handler's                               *)
(***************************************************************************)

\* The invariant holds when the process first starts.
LEMMA InitIInv == Init => IInv
  <1> SUFFICES ASSUME Init PROVE IInv
    OBVIOUS
  <1>1. DOMAIN records = {}
    BY EmptyIsMap DEF Init
  <1>2. TypeOK
    <2>1. /\ IsMap(records, AccountIds, Record)
          /\ IsMap(tokens, Emails, Token)
          /\ IsMap(sessions, 1 .. MaxSessions, Session)
          /\ IsMap(clients, AccountIds, Client)
      BY EmptyIsMap DEF Init
    <2>2. /\ 0 \in 0 .. MaxAccounts /\ 0 \in 0 .. MaxSessions /\ 0 \in 0 .. MaxFaults
          /\ "idle" \in PCs
      BY BoundsAssumption DEF PCs
    <2> QED BY <2>1, <2>2, NoJobType DEF Init, TypeOK
  <1>3. \A o \in Ops : HandlerKnows(o)
    BY OpsAssumption
    DEF Init, HandlerKnows, RowsHeld, Lists, Learnt, CommitTarget, AwaitsCommit, Holding, OnRow
  <1> QED BY <1>1, <1>2, <1>3 DEF IInv, OneConnectionPerIdentity, IdsMinted

\* A step that touches neither a handler, nor the lock, nor the registry rows.
LEMMA QuietKeeps ==
    ASSUME IInv, RegistryOK', UNCHANGED <<records, nextAccount, lock, pc, job>>
    PROVE  IInv'
  <1>1. TypeOK'
    BY DEF IInv, TypeOK, RegistryOK, DataOK
  <1>2. \A o \in Ops : HandlerKnows(o)'
    BY DEF IInv, HandlerKnows, RowsHeld, Lists, Learnt, CommitTarget, AwaitsCommit, Owners
  <1> QED BY <1>1, <1>2 DEF IInv, RegistryOK

\* Starting a session keeps the invariant.
LEMMA NewSessionKeeps ==
    ASSUME IInv, NEW sess \in Session, NewSession(sess)
    PROVE  IInv'
  <1>1. nextSession \in 0 .. MaxSessions /\ MaxSessions \in Nat
    BY BoundsAssumption DEF IInv, TypeOK
  <1>2. nextSession' \in 0 .. MaxSessions /\ nextSession + 1 \in 1 .. MaxSessions
    BY <1>1 DEF NewSession
  <1>3. IsMap(sessions', 1 .. MaxSessions, Session)
    BY <1>2, SetKeyMap DEF NewSession, IInv, TypeOK
  <1>4. RegistryOK'
    BY <1>2, <1>3, SameRows DEF NewSession, durable, google, IInv, TypeOK
  <1> QED BY <1>4, QuietKeeps DEF NewSession, durable

\* Connects and reconnects are started with a session of the right type.
LEMMA StartKeeps ==
    ASSUME IInv, NEW p \in Principals,
           StartConnect(p) \/ \E id \in AccountIds : StartReconnect(p, id)
    PROVE  IInv'
  <1>1. [principal |-> p, account |-> 0] \in Session
    BY DEF Session
  <1>2. \A id \in AccountIds : [principal |-> p, account |-> id] \in Session
    BY DEF Session
  <1> QED BY <1>1, <1>2, NewSessionKeeps DEF StartConnect, StartReconnect

\* Expiry of a session keeps the invariant.
LEMMA ExpireKeeps ==
    ASSUME IInv, NEW k, ExpireSession(k)
    PROVE  IInv'
  <1>1. IsMap(sessions', 1 .. MaxSessions, Session)
    BY DropKeyMap DEF ExpireSession, IInv, TypeOK
  <1>2. RegistryOK'
    BY <1>1, SameRows DEF ExpireSession, durable, google, minted, IInv, TypeOK
  <1> QED BY <1>2, QuietKeeps DEF ExpireSession, durable, minted

\* Caching a client for a live record keeps the invariant.
LEMMA UseClientKeeps ==
    ASSUME IInv, NEW id \in AccountIds, UseClient(id)
    PROVE  IInv'
  <1>1. /\ id \in DOMAIN records /\ records[id] \in Record
        /\ records[id].email \in DOMAIN tokens /\ tokens[records[id].email] \in Token
    BY DEF UseClient, IInv, TypeOK, IsMap
  <1> DEFINE c == [generation |-> records[id].generation,
                   token |-> tokens[records[id].email]]
  <1>2. c \in Client
    BY <1>1 DEF Record, Client
  <1>3. IsMap(clients', AccountIds, Client)
    <2>1. clients' = SetKey(clients, id, c) /\ IsMap(clients, AccountIds, Client)
      BY DEF UseClient, IInv, TypeOK
    <2> HIDE DEF c
    <2> QED BY <1>2, <2>1, SetKeyMap
  <1>4. RegistryOK'
    BY <1>3, SameRows DEF UseClient, durable, google, minted, IInv, TypeOK
  <1> QED BY <1>4, QuietKeeps DEF UseClient, durable, minted

\* A restart keeps the invariant: only the files survive.
LEMMA RestartKeeps ==
    ASSUME IInv, Restart
    PROVE  IInv'
  <1>1. /\ IsMap(sessions', 1 .. MaxSessions, Session)
        /\ IsMap(clients', AccountIds, Client)
    BY EmptyIsMap DEF Restart
  <1>2. faults' \in 0 .. MaxFaults
    BY FaultKeeps DEF Restart, IInv, TypeOK
  <1>3. RegistryOK'
    BY <1>1, <1>2, SameRows DEF Restart, durable, google, minted, IInv, TypeOK
  <1>4. TypeOK'
    <2>1. pc' \in [Ops -> PCs] /\ job' \in [Ops -> Job] /\ lock' = NoOp
      BY NoJobType DEF Restart, PCs
    <2> QED BY <1>3, <2>1 DEF RegistryOK, DataOK, TypeOK
  <1>5. \A o \in Ops : HandlerKnows(o)'
    BY OpsAssumption
    DEF Restart, HandlerKnows, RowsHeld, Lists, Learnt, CommitTarget, AwaitsCommit, Holding, OnRow
  <1> QED BY <1>3, <1>4, <1>5 DEF IInv, RegistryOK

(***************************************************************************)
(* The steps of a callback                                                 *)
(***************************************************************************)

\* What the invariant says of the handler that takes a step.
LEMMA HandlerNow ==
    ASSUME IInv, NEW o \in Ops
    PROVE  /\ pc \in [Ops -> PCs] /\ job \in [Ops -> Job] /\ job[o] \in Job
           /\ HandlerKnows(o)
           /\ pc[o] \in Holding <=> lock = o
           /\ pc[o] \in OnRow => /\ job[o].account \in DOMAIN records
                                 /\ job[o].account \in AccountIds
                                 /\ records[job[o].account] \in Record
           /\ Lists(o) => job[o].todo \subseteq DOMAIN records
  BY DEF IInv, TypeOK, IsMap, HandlerKnows, RowsHeld

\* Taking a session.
LEMMA TakeSessionKeeps ==
    ASSUME IInv, NEW o \in Ops, NEW k, TakeSession(o, k)
    PROVE  IInv'
  <1> DEFINE y == [NoJob EXCEPT !.principal = sessions[k].principal,
                                !.account = sessions[k].account, !.before = epochs]
  <1>1. sessions[k] \in Session /\ epochs \in [Subjects -> Nat]
    BY DEF TakeSession, IInv, TypeOK, IsMap
  <1>2. y \in Job /\ y.principal \in Principals
    BY <1>1, NoJobType DEF Session, NoJob, Job
  <1>3. IsMap(sessions', 1 .. MaxSessions, Session)
    BY DropKeyMap DEF TakeSession, IInv, TypeOK
  <1>4. RegistryOK'
    BY <1>3, SameRows DEF TakeSession, durable, google, minted, IInv, TypeOK
  <1>5. pc' = [pc EXCEPT ![o] = "exchange"] /\ job' = [job EXCEPT ![o] = y]
    BY DEF TakeSession
  <1>6. pc'[o] = "exchange" /\ job'[o] = y /\ lock' # o
    BY <1>5, HandlerNow DEF TakeSession, Holding
  <1> HIDE DEF y
  <1>7. HandlerKnows(o)'
    BY <1>2, <1>6
    DEF HandlerKnows, RowsHeld, Lists, Learnt, CommitTarget, AwaitsCommit, Holding, OnRow
  <1>8. "exchange" \in PCs
    BY DEF PCs
  <1> QED BY <1>2, <1>4, <1>5, <1>7, <1>8, StepKeeps DEF TakeSession, durable, minted

\* The exchange at Google.
LEMMA ExchangeKeeps ==
    ASSUME IInv, NEW o \in Ops, Exchange(o)
    PROVE  IInv'
  <1>0. PICK s \in Subjects : \E e \in EmailsOf[s], t \in IssuedTo(o, s) :
            /\ job' = [job EXCEPT ![o].subject = s, ![o].email = e, ![o].token = t]
            /\ consented' = consented \cup {s}
    BY DEF Exchange
  <1>1. PICK e \in EmailsOf[s], t \in IssuedTo(o, s) :
            /\ job' = [job EXCEPT ![o].subject = s, ![o].email = e, ![o].token = t]
            /\ consented' = consented \cup {s}
    BY <1>0
  <1>2. t \in Token \cup {NoToken}
    BY DEF IssuedTo, Token, IInv, TypeOK
  <1> DEFINE y == [job[o] EXCEPT !.subject = s, !.email = e, !.token = t]
  <1>3. e \in Emails
    BY <1>1 DEF Emails
  <1>4. y \in Job /\ y.subject = s /\ y.email = e /\ y.principal = job[o].principal
    BY <1>2, <1>3, HandlerNow DEF Job
  <1>5. job' = [job EXCEPT ![o] = y] /\ pc' = [pc EXCEPT ![o] = "callback"]
    BY <1>1, HandlerNow DEF Exchange
  <1>6. pc'[o] = "callback" /\ job'[o] = y /\ lock' # o
    BY <1>5, HandlerNow DEF Exchange, Holding
  <1>7. job[o].principal \in Principals
    BY HandlerNow DEF Exchange, HandlerKnows, Learnt
  <1>8. RegistryOK'
    BY <1>1, SameRows DEF Exchange, durable, minted, IInv, TypeOK
  <1> HIDE DEF y
  <1>9. HandlerKnows(o)'
    BY <1>3, <1>4, <1>6, <1>7
    DEF HandlerKnows, RowsHeld, Lists, Learnt, CommitTarget, AwaitsCommit, Holding, OnRow
  <1>10. "callback" \in PCs
    BY DEF PCs
  <1> QED BY <1>4, <1>5, <1>8, <1>9, <1>10, StepKeeps DEF Exchange, durable, minted

\* The checks under the lock: a callback that goes on holds the lock, knows a
\* subject, an address and a token, and its AccountID is that of the row of its
\* subject, or a new one where its principal has no row for that subject.
LEMMA LockCallbackKeeps ==
    ASSUME IInv, NEW o \in Ops, LockCallback(o)
    PROVE  IInv'
  <1> DEFINE id  == Matched(o)
             acc == IF id = 0 THEN nextAccount + 1 ELSE id
             y   == [job[o] EXCEPT !.account = acc, !.token = RefreshOf(o, id),
                                   !.after = "commit"]
             x   == IF id # 0 /\ InDebt(id) THEN "settle" ELSE "commit"
  <1>1. /\ job[o] \in Job /\ job[o].principal \in Principals
        /\ job[o].subject \in Subjects /\ job[o].email \in Emails
    BY HandlerNow DEF LockCallback, HandlerKnows, Learnt
  <1>2. CASE CallbackAccepted(o, id)
    <2>1. /\ acc \in AccountIds /\ lock = NoOp /\ lock' = o
          /\ nextAccount' = IF id = 0 THEN acc ELSE nextAccount
          /\ job' = [job EXCEPT ![o].account = acc, ![o].token = RefreshOf(o, id),
                                ![o].after = "commit"]
          /\ pc' = [pc EXCEPT ![o] = x]
      BY <1>2 DEF LockCallback
    <2>2. RefreshOf(o, id) \in Token
      <3>1. RefreshOf(o, id) # NoToken
        BY <1>2 DEF CallbackAccepted
      <3>2. job[o].token \in Token \cup {NoToken}
        BY <1>1 DEF Job
      <3>3. \A a \in DOMAIN tokens : tokens[a] \in Token
        BY DEF IInv, TypeOK, IsMap
      <3> QED BY <3>1, <3>2, <3>3 DEF RefreshOf
    <2>3. nextAccount \in 0 .. MaxAccounts /\ MaxAccounts \in Nat /\ acc \in 1 .. MaxAccounts
      BY <2>1, BoundsAssumption DEF IInv, TypeOK, AccountIds
    <2>4. \/ /\ id # 0 /\ acc = id /\ id \in DOMAIN records
             /\ records[id].subject = job[o].subject
             /\ nextAccount' = nextAccount
          \/ /\ id = 0 /\ acc = nextAccount + 1 /\ nextAccount' = nextAccount + 1
             /\ acc \notin DOMAIN records
             /\ \A w \in Owners(job[o].subject) : records[w].principal # job[o].principal
      <3>1. CASE id # 0
        BY <1>2, <2>1, <3>1 DEF CallbackAccepted, Owned
      <3>2. CASE id = 0
        <4>1. DOMAIN records \subseteq 1 .. nextAccount
          BY DEF IInv, IdsMinted
        <4>2. acc \notin DOMAIN records
          BY <2>3, <3>2, <4>1
        <4>3. 0 \notin DOMAIN records
          BY <4>1
        <4>4. {w \in Owners(job[o].subject) : records[w].principal = job[o].principal} = {}
          <5> DEFINE mine == {w \in Owners(job[o].subject) :
                                 records[w].principal = job[o].principal}
          <5>1. CASE job[o].account # 0
            BY <3>2, <5>1 DEF Matched
          <5>2. CASE job[o].account = 0 /\ mine # {}
            <6>1. Matched(o) = CHOOSE w \in mine : TRUE
              BY <5>2 DEF Matched
            <6>2. Matched(o) \in mine
              BY <5>2, <6>1
            <6> QED BY <3>2, <4>3, <6>2 DEF Owners
          <5> QED BY <5>1, <5>2
        <4> QED BY <2>1, <3>2, <4>2, <4>4
      <3> QED BY <3>1, <3>2
    <2>5. y \in Job /\ job' = [job EXCEPT ![o] = y]
      BY <1>1, <2>1, <2>2, HandlerNow DEF Job
    <2>6. /\ y.account = acc /\ y.principal = job[o].principal /\ y.after = "commit"
          /\ y.subject = job[o].subject /\ y.email = job[o].email
          /\ y.token = RefreshOf(o, id)
      BY <1>1 DEF Job
    <2>7. x \in PCs /\ x \in {"settle", "commit"} /\ (x = "settle" => id # 0)
      BY DEF PCs
    <2>8. pc'[o] = x /\ job'[o] = y /\ records' = records
      BY <2>1, <2>5, HandlerNow DEF LockCallback, durable
    <2>9. RegistryOK'
      <3>1. nextAccount' \in 0 .. MaxAccounts
        BY <2>3, <2>4
      <3>2. IdsMinted'
        <4>1. nextAccount \in Nat /\ nextAccount' \in Nat /\ nextAccount =< nextAccount'
          BY <2>3, <2>4
        <4> QED BY <2>8, <4>1 DEF IInv, IdsMinted
      <3> QED BY <2>8, <3>1, <3>2, RegistryNow
              DEF LockCallback, durable, google, RegistryOK, DataOK, OneConnectionPerIdentity
    <2> HIDE DEF acc, x, y
    <2>10. RowsHeld(o)'
      BY <2>4, <2>6, <2>7, <2>8 DEF RowsHeld, Lists, OnRow, Holding
    <2>11. Learnt(o)'
      BY <1>1, <2>2, <2>6, <2>7, <2>8 DEF Learnt, AwaitsCommit
    <2>12. CommitTarget(o)'
      <3>1. nextAccount \in Nat
        BY <2>3
      <3>2. acc \in DOMAIN records \/ acc \in (1 .. nextAccount') \ DOMAIN records
        BY <2>4, <3>1
      <3> QED BY <2>4, <2>6, <2>8, <3>2 DEF CommitTarget, Owners
    <2>13. HandlerKnows(o)'
      BY <2>1, <2>7, <2>8, <2>10, <2>11, <2>12 DEF HandlerKnows, Holding, PCs
    <2> QED BY <2>1, <2>5, <2>7, <2>9, <2>13, StepKeeps
  <1>3. CASE ~ CallbackAccepted(o, id)
    <2>1. Return(o) /\ UNCHANGED nextAccount
      BY <1>3 DEF LockCallback
    <2>2. RegistryOK'
      BY <2>1, SameRows DEF LockCallback, durable, google, IInv, TypeOK
    <2> QED BY <2>1, <2>2, ReturnKeeps DEF LockCallback, durable
  <1> QED BY <1>2, <1>3

\* Evicting the clients of an account leaves a map of clients.
LEMMA InvalidateKeeps ==
    ASSUME IInv, NEW id, Invalidate(id) \/ UNCHANGED clients
    PROVE  IsMap(clients', AccountIds, Client)
  <1>1. IsMap(clients, AccountIds, Client)
    BY DEF IInv, TypeOK
  <1>2. CASE Invalidate(id)
    BY <1>1, <1>2, DropKeyMap DEF Invalidate
  <1>3. CASE UNCHANGED clients
    BY <1>1, <1>3
  <1> QED BY <1>2, <1>3

\* A commit for the subject a callback or a disconnect works for keeps the
\* registry part, and the AccountID it was given is that of the row.
LEMMA CommitRegistry ==
    ASSUME IInv, NEW id \in AccountIds, id \in 1 .. nextAccount, NEW rec \in Record,
           \/ id \in DOMAIN records /\ records[id].subject = rec.subject
           \/ /\ id \notin DOMAIN records
              /\ \A w \in Owners(rec.subject) : records[w].principal # rec.principal,
           Commit(id, rec),
           UNCHANGED <<epochs, tokens, sessions, google, minted>>,
           Fault \/ NoFault, NEW c, Invalidate(c) \/ UNCHANGED clients
    PROVE  /\ RegistryOK'
           /\ DOMAIN records' = DOMAIN records \cup {id}
           /\ records'[id].subject = rec.subject
  <1>1. TypeOK /\ OneConnectionPerIdentity /\ IdsMinted
    BY DEF IInv
  <1>2. /\ IsMap(records', AccountIds, Record)
        /\ OneConnectionPerIdentity'
        /\ DOMAIN records' = DOMAIN records \cup {id}
        /\ DOMAIN records' \subseteq 1 .. nextAccount
        /\ records'[id].subject = rec.subject
    BY <1>1, CommitKeeps
  <1>3. IsMap(clients', AccountIds, Client)
    BY InvalidateKeeps
  <1>4. faults' \in 0 .. MaxFaults
    BY FaultKeeps, RegistryNow DEF RegistryOK, DataOK
  <1> QED BY <1>2, <1>3, <1>4, RegistryNow DEF RegistryOK, DataOK, IdsMinted, google, minted

\* The same for the row a handler inside its critical section works on.
LEMMA RowUpdate ==
    ASSUME IInv, NEW o \in Ops, pc[o] \in OnRow, NEW rec \in Record,
           rec.subject = records[job[o].account].subject, Commit(job[o].account, rec),
           UNCHANGED <<epochs, tokens, sessions, google, minted>>,
           Fault \/ NoFault, NEW c, Invalidate(c) \/ UNCHANGED clients
    PROVE  /\ RegistryOK'
           /\ DOMAIN records' = DOMAIN records
           /\ records'[job[o].account].subject = records[job[o].account].subject
  <1> DEFINE id == job[o].account
  <1>1. id \in DOMAIN records /\ id \in AccountIds
    BY HandlerNow
  <1>2. id \in 1 .. nextAccount
    BY <1>1 DEF IInv, IdsMinted
  <1> HIDE DEF id
  <1>3. records[id].subject = rec.subject /\ Commit(id, rec)
    BY DEF id
  <1>4. /\ RegistryOK'
        /\ DOMAIN records' = DOMAIN records \cup {id}
        /\ records'[id].subject = rec.subject
    BY <1>1, <1>2, <1>3, CommitRegistry
  <1> QED BY <1>1, <1>3, <1>4 DEF id

\* What a callback about to commit has: its subject, address and token, and the
\* row of its subject or the first row its principal has for it.
LEMMA PendingTarget ==
    ASSUME IInv, NEW o \in Ops, pc[o] = "commit"
    PROVE  /\ lock = o /\ job[o].token \in Token
           /\ job[o].principal \in Principals /\ job[o].subject \in Subjects
           /\ job[o].email \in Emails
           /\ job[o].account \in 1 .. nextAccount /\ job[o].account \in AccountIds
           /\ PendingRow(o) \in Record /\ PendingRow(o).subject = job[o].subject
           /\ \/ /\ job[o].account \in DOMAIN records
                 /\ records[job[o].account].subject = job[o].subject
              \/ /\ job[o].account \notin DOMAIN records
                 /\ PendingRow(o).principal = job[o].principal
                 /\ \A w \in Owners(job[o].subject) :
                       records[w].principal # job[o].principal
  <1> DEFINE id  == job[o].account
             rec == PendingRow(o)
  <1>1. lock = o /\ AwaitsCommit(o)
    BY HandlerNow DEF AwaitsCommit, Holding, PCs
  <1>2. /\ job[o].principal \in Principals /\ job[o].subject \in Subjects
        /\ job[o].email \in Emails /\ job[o].token \in Token
    BY <1>1, HandlerNow DEF HandlerKnows, Learnt
  <1>3. \/ id \in DOMAIN records /\ records[id].subject = job[o].subject
        \/ /\ id \in (1 .. nextAccount) \ DOMAIN records
           /\ \A w \in Owners(job[o].subject) : records[w].principal # job[o].principal
    BY <1>1, HandlerNow DEF HandlerKnows, CommitTarget
  <1>4. id \in 1 .. nextAccount /\ id \in AccountIds
    BY <1>3, RegistryNow, BoundsAssumption DEF RegistryOK, DataOK, IdsMinted, AccountIds
  <1>5. /\ rec \in Record /\ rec.subject = job[o].subject
        /\ id \notin DOMAIN records => rec.principal = job[o].principal
    <2>1. CASE id \in DOMAIN records
      <3>1. records[id] \in Record
        BY <2>1, RegistryNow DEF RegistryOK, DataOK, IsMap
      <3>2. TokenKey(records[id].email) \in Cleanup /\ NoCleanup \in Cleanup
        BY <3>1 DEF Record, TokenKey, NoCleanup, Cleanup
      <3> QED BY <1>2, <1>3, <2>1, <3>1, <3>2 DEF PendingRow, Record
    <2>2. CASE id \notin DOMAIN records
      <3>1. NoCleanup \in Cleanup
        BY DEF NoCleanup, Cleanup
      <3> QED BY <1>2, <2>2, <3>1 DEF PendingRow, Record
    <2> QED BY <2>1, <2>2
  <1> QED BY <1>1, <1>2, <1>3, <1>4, <1>5

\* The commit of a callback.
LEMMA CommitPendingKeeps ==
    ASSUME IInv, NEW o \in Ops, CommitPending(o)
    PROVE  IInv'
  <1> DEFINE id  == job[o].account
             rec == PendingRow(o)
  <1>1. pc[o] = "commit" /\ lock = o
    BY PendingTarget DEF CommitPending
  <1>2. job[o].token \in Token
    BY <1>1, PendingTarget
  <1>3. \/ id \in DOMAIN records /\ records[id].subject = rec.subject
        \/ /\ id \notin DOMAIN records
           /\ \A w \in Owners(rec.subject) : records[w].principal # rec.principal
    BY <1>1, PendingTarget
  <1>4. id \in 1 .. nextAccount /\ id \in AccountIds
    BY <1>1, PendingTarget
  <1>5. rec \in Record
    BY <1>1, PendingTarget
  <1>6. Invalidate(id) /\ UNCHANGED <<epochs, tokens, sessions, google, minted>>
    BY DEF CommitPending
  <1>7. CASE Commit(id, rec) /\ Goto(o, "put") /\ NoFault /\ UNCHANGED lock
    <2> HIDE DEF id, rec
    <2>1. RegistryOK' /\ DOMAIN records' = DOMAIN records \cup {id}
      BY <1>3, <1>4, <1>5, <1>6, <1>7, CommitRegistry
    <2>2. pc' = [pc EXCEPT ![o] = "put"] /\ job' = [job EXCEPT ![o] = job[o]]
      BY <1>7, HandlerNow DEF Goto
    <2>3. pc'[o] = "put" /\ job'[o] = job[o] /\ lock' = o
      BY <1>1, <1>7, <2>2, HandlerNow
    <2>4. HandlerKnows(o)'
      BY <1>2, <2>1, <2>3
      DEF id, HandlerKnows, RowsHeld, Lists, Learnt, CommitTarget, AwaitsCommit,
          Holding, OnRow, PCs
    <2>5. "put" \in PCs /\ job[o] \in Job
      BY HandlerNow DEF PCs
    <2> QED BY <1>1, <2>1, <2>2, <2>3, <2>4, <2>5, StepKeeps
  <1>8. CASE (Fault \/ NoFault) /\ Return(o) /\ UNCHANGED records
    <2>1. IsMap(clients', AccountIds, Client)
      BY <1>6, InvalidateKeeps
    <2>2. faults' \in 0 .. MaxFaults
      BY <1>8, FaultKeeps, RegistryNow DEF RegistryOK, DataOK
    <2>3. RegistryOK'
      BY <1>6, <1>8, <2>1, <2>2, SameRows, RegistryNow DEF RegistryOK, DataOK, google, minted
    <2> QED BY <1>1, <1>8, <2>3, ReturnKeeps
  <1> QED BY <1>7, <1>8 DEF CommitPending

\* A write to the token store, which may have failed, leaves a map of tokens.
LEMMA TokensKept ==
    ASSUME IInv, NEW e,
           \/ tokens' = tokens
           \/ tokens' = DropKey(tokens, e)
           \/ \E t \in Token : e \in Emails /\ tokens' = SetKey(tokens, e, t)
    PROVE  IsMap(tokens', Emails, Token)
  <1>1. IsMap(tokens, Emails, Token)
    BY DEF IInv, TypeOK
  <1>2. IsMap(DropKey(tokens, e), Emails, Token)
    BY <1>1, DropKeyMap
  <1>3. \A t \in Token : e \in Emails => IsMap(SetKey(tokens, e, t), Emails, Token)
    BY <1>1, SetKeyMap
  <1>4. CASE \E t \in Token : e \in Emails /\ tokens' = SetKey(tokens, e, t)
    BY <1>3, <1>4
  <1>5. CASE tokens' = tokens \/ tokens' = DropKey(tokens, e)
    BY <1>1, <1>2, <1>5
  <1> QED BY <1>4, <1>5

\* A step that leaves the rows alone, with a write to the token store, the
\* epochs, the clients or the grants that may have failed, keeps the registry part.
LEMMA SideStep ==
    ASSUME IInv, UNCHANGED <<records, sessions, minted>>,
           epochs' \in [Subjects -> Nat], IsMap(tokens', Emails, Token),
           grant' \in [Subjects -> Nat], consented' \in SUBSET Subjects,
           Fault \/ NoFault, NEW c, Invalidate(c) \/ UNCHANGED clients
    PROVE  RegistryOK'
  <1>1. IsMap(clients', AccountIds, Client)
    BY InvalidateKeeps
  <1>2. faults' \in 0 .. MaxFaults
    BY FaultKeeps, RegistryNow DEF RegistryOK, DataOK
  <1> QED BY <1>1, <1>2, SameRows, RegistryNow DEF RegistryOK, DataOK, minted

\* The same when the token store is not written.
LEMMA SideStepSameTokens ==
    ASSUME IInv, UNCHANGED <<records, tokens, sessions, minted>>,
           epochs' \in [Subjects -> Nat],
           grant' \in [Subjects -> Nat], consented' \in SUBSET Subjects,
           Fault \/ NoFault, NEW c, Invalidate(c) \/ UNCHANGED clients
    PROVE  RegistryOK'
  <1>1. IsMap(tokens', Emails, Token)
    BY DEF IInv, TypeOK
  <1> QED BY <1>1, SideStep

\* The token write of a callback.
LEMMA PutTokenKeeps ==
    ASSUME IInv, NEW o \in Ops, PutToken(o)
    PROVE  IInv'
  <1> DEFINE id == job[o].account
             e  == records[id].email
             t  == job[o].token
  <1>1. pc[o] = "put" /\ lock = o
    BY HandlerNow DEF PutToken, Holding, PCs
  <1>2. id \in DOMAIN records /\ e \in Emails /\ t \in Token
    BY <1>1, HandlerNow DEF HandlerKnows, Learnt, Record, OnRow, Holding, PCs
  <1>3. tokens' = tokens \/ tokens' = SetKey(tokens, e, t)
    BY DEF PutToken
  <1>4. /\ Fault \/ NoFault
        /\ Invalidate(id) \/ UNCHANGED clients
        /\ UNCHANGED <<records, epochs, sessions, google, minted>>
    BY DEF PutToken
  <1>5. RegistryOK'
    <2>1. /\ epochs' \in [Subjects -> Nat] /\ grant' \in [Subjects -> Nat]
          /\ consented' \in SUBSET Subjects
      BY <1>4, RegistryNow DEF RegistryOK, DataOK, google
    <2> HIDE DEF id, e, t
    <2>2. IsMap(tokens', Emails, Token)
      BY <1>2, <1>3, TokensKept
    <2> QED BY <1>4, <2>1, <2>2, SideStep
  <1>6. CASE Goto(o, "activate") /\ UNCHANGED lock
    BY <1>1, <1>2, <1>4, <1>5, <1>6, GotoKeeps DEF OnRow, Holding, PCs
  <1>7. CASE Return(o)
    BY <1>1, <1>5, <1>7, ReturnKeeps
  <1> QED BY <1>6, <1>7 DEF PutToken

\* The activation of a row.
LEMMA ActivateKeeps ==
    ASSUME IInv, NEW o \in Ops, Activate(o)
    PROVE  IInv'
  <1> DEFINE id  == job[o].account
             rec == [records[id] EXCEPT !.state = "active"]
             x   == IF InDebt(id) THEN "settle" ELSE "finish"
             y   == [job[o] EXCEPT !.after = "finish"]
  <1>1. pc[o] = "activate" /\ lock = o /\ pc[o] \in OnRow
    BY HandlerNow DEF Activate, Holding, PCs, OnRow
  <1>2. id \in DOMAIN records /\ records[id] \in Record /\ job[o] \in Job
    BY <1>1, HandlerNow
  <1>3. rec \in Record /\ rec.subject = records[id].subject
    BY <1>2 DEF Record
  <1>4. UNCHANGED <<epochs, tokens, sessions, clients, google, minted>>
    BY DEF Activate
  <1>5. CASE /\ Commit(id, rec) /\ NoFault /\ UNCHANGED lock
             /\ pc' = [pc EXCEPT ![o] = x] /\ job' = [job EXCEPT ![o].after = "finish"]
    <2>1. RegistryOK' /\ DOMAIN records' = DOMAIN records
      <3>1. rec.subject = records[job[o].account].subject /\ Commit(job[o].account, rec)
        BY <1>3, <1>5
      <3> HIDE DEF rec
      <3> QED BY <1>1, <1>3, <1>4, <1>5, <3>1, RowUpdate
    <2>2. y \in Job /\ y.after = "finish" /\ y.account = id
      BY <1>2 DEF Job
    <2>3. x \in {"settle", "finish"} /\ x \in PCs
      BY DEF PCs
    <2>4. /\ pc' = [pc EXCEPT ![o] = x] /\ job' = [job EXCEPT ![o] = y]
          /\ pc'[o] = x /\ job'[o] = y /\ lock' = o
      BY <1>1, <1>5, HandlerNow
    <2> HIDE DEF x, y
    <2>5. HandlerKnows(o)'
      BY <1>2, <2>1, <2>2, <2>3, <2>4
      DEF HandlerKnows, RowsHeld, Lists, Learnt, CommitTarget, AwaitsCommit,
          Holding, OnRow, PCs
    <2> QED BY <1>1, <2>1, <2>2, <2>3, <2>4, <2>5, StepKeeps
  <1>6. CASE Fault /\ Return(o) /\ UNCHANGED records
    <2>1. RegistryOK'
      BY <1>4, <1>6, SideStepSameTokens, RegistryNow DEF RegistryOK, DataOK, google
    <2> QED BY <1>1, <1>6, <2>1, ReturnKeeps
  <1> QED BY <1>5, <1>6 DEF Activate

\* The end of a callback.
LEMMA FinishCallbackKeeps ==
    ASSUME IInv, NEW o \in Ops, FinishCallback(o)
    PROVE  IInv'
  <1>1. RegistryOK'
    BY SideStepSameTokens, RegistryNow
    DEF FinishCallback, durable, google, NoFault, RegistryOK, DataOK
  <1> QED BY <1>1, ReturnKeeps DEF FinishCallback, durable, minted

(***************************************************************************)
(* Settling debts, and listing                                             *)
(***************************************************************************)

\* From a settled debt the handler goes on where it came from: to its commit,
\* to the end of the callback, to the bump of a disconnect, to the next debt.
LEMMA SettledKeeps ==
    ASSUME IInv, NEW o \in Ops, pc[o] \in {"settle", "settled"},
           Goto(o, job[o].after), UNCHANGED <<lock, nextAccount>>, RegistryOK',
           DOMAIN records' = DOMAIN records,
           records'[job[o].account].subject = records[job[o].account].subject
    PROVE  IInv'
  <1>1. lock = o /\ pc[o] \in OnRow
    BY HandlerNow DEF Holding, OnRow, PCs
  <1>2. /\ job[o].account \in DOMAIN records
        /\ job[o].after \in {"commit", "finish", "bump", "list"}
        /\ Lists(o) => job[o].todo \subseteq DOMAIN records
        /\ Learnt(o) /\ CommitTarget(o)
    BY <1>1, HandlerNow DEF HandlerKnows, Learnt, Job
  <1>3. /\ pc' = [pc EXCEPT ![o] = job[o].after] /\ job' = [job EXCEPT ![o] = job[o]]
        /\ pc'[o] = job[o].after /\ job'[o] = job[o]
    BY HandlerNow DEF Goto
  <1>4. RowsHeld(o)'
    BY <1>2, <1>3 DEF RowsHeld, Lists, OnRow, Holding
  <1>5. Learnt(o)'
    BY <1>2, <1>3 DEF Learnt, AwaitsCommit
  <1>6. CommitTarget(o)'
    BY <1>2, <1>3 DEF CommitTarget, AwaitsCommit
  <1>7. HandlerKnows(o)' /\ job[o].after \in PCs /\ job[o] \in Job
    BY <1>1, <1>2, <1>3, <1>4, <1>5, <1>6, HandlerNow DEF HandlerKnows, Holding, PCs
  <1> QED BY <1>1, <1>3, <1>7, StepKeeps

\* A failed settlement is passed over, or ends the handler.
LEMMA StillPendingKeeps ==
    ASSUME IInv, NEW o \in Ops, pc[o] \in {"settle", "settled"},
           StillPending(o), RegistryOK', UNCHANGED <<records, nextAccount>>
    PROVE  IInv'
  <1>1. CASE Goto(o, job[o].after) /\ UNCHANGED lock
    BY <1>1, SettledKeeps
  <1>2. CASE Return(o)
    BY <1>2, ReturnKeeps
  <1> QED BY <1>1, <1>2 DEF StillPending

\* The deletion of an owed token.
LEMMA SettleDeleteKeeps ==
    ASSUME IInv, NEW o \in Ops, SettleDelete(o)
    PROVE  IInv'
  <1> DEFINE e == records[job[o].account].cleanup.email
  <1>1. pc[o] = "settle" /\ lock = o /\ pc[o] \in OnRow
    BY HandlerNow DEF SettleDelete, Holding, PCs, OnRow
  <1>2. /\ tokens' = tokens \/ tokens' = DropKey(tokens, e)
        /\ Fault \/ NoFault
        /\ UNCHANGED <<records, epochs, sessions, clients, google, minted>>
    BY DEF SettleDelete
  <1>3. RegistryOK'
    <2> HIDE DEF e
    <2>1. IsMap(tokens', Emails, Token)
      BY <1>2, TokensKept
    <2> QED BY <1>2, <2>1, SideStep, RegistryNow DEF RegistryOK, DataOK, google
  <1>4. CASE Goto(o, "settled") /\ UNCHANGED lock
    <2>1. job[o].account \in DOMAIN records /\ HandlerKnows(o) /\ job[o] \in Job
      BY <1>1, HandlerNow
    <2>2. /\ pc' = [pc EXCEPT ![o] = "settled"] /\ job' = [job EXCEPT ![o] = job[o]]
          /\ pc'[o] = "settled" /\ job'[o] = job[o]
      BY <1>4, HandlerNow DEF Goto
    <2>3. HandlerKnows(o)'
      BY <1>1, <1>2, <1>4, <2>1, <2>2
      DEF HandlerKnows, RowsHeld, Lists, Learnt, CommitTarget, AwaitsCommit, Owners,
          Holding, OnRow, PCs, minted
    <2>4. "settled" \in PCs
      BY DEF PCs
    <2> QED BY <1>1, <1>2, <1>3, <1>4, <2>1, <2>2, <2>3, <2>4, StepKeeps DEF minted
  <1>5. CASE StillPending(o)
    BY <1>1, <1>2, <1>3, <1>5, StillPendingKeeps DEF minted
  <1> QED BY <1>4, <1>5 DEF SettleDelete

\* The commit that clears a debt.
LEMMA SettleCommitKeeps ==
    ASSUME IInv, NEW o \in Ops, SettleCommit(o)
    PROVE  IInv'
  <1> DEFINE id  == job[o].account
             rec == [records[id] EXCEPT !.cleanup = NoCleanup]
  <1>1. pc[o] = "settled" /\ lock = o /\ pc[o] \in OnRow
    BY HandlerNow DEF SettleCommit, Holding, PCs, OnRow
  <1>2. id \in DOMAIN records /\ records[id] \in Record
    BY <1>1, HandlerNow
  <1>3. rec \in Record /\ rec.subject = records[id].subject
    BY <1>2 DEF Record, NoCleanup, Cleanup
  <1>4. UNCHANGED <<epochs, tokens, sessions, clients, google, minted>>
    BY DEF SettleCommit
  <1>5. CASE Commit(id, rec) /\ Goto(o, job[o].after) /\ NoFault /\ UNCHANGED lock
    <2>1. rec.subject = records[job[o].account].subject /\ Commit(job[o].account, rec)
      BY <1>3, <1>5
    <2>2. /\ RegistryOK' /\ DOMAIN records' = DOMAIN records
          /\ records'[job[o].account].subject = records[job[o].account].subject
      <3> HIDE DEF rec
      <3> QED BY <1>1, <1>3, <1>4, <1>5, <2>1, RowUpdate
    <2> QED BY <1>1, <1>4, <1>5, <2>2, SettledKeeps DEF minted
  <1>6. CASE Fault /\ StillPending(o) /\ UNCHANGED records
    <2>1. RegistryOK'
      BY <1>4, <1>6, SideStepSameTokens, RegistryNow DEF RegistryOK, DataOK, google
    <2> QED BY <1>1, <1>4, <1>6, <2>1, StillPendingKeeps DEF minted
  <1> QED BY <1>5, <1>6 DEF SettleCommit

\* A listing that finds debts takes the lock and notes their rows.
LEMMA ListAccountsKeeps ==
    ASSUME IInv, NEW o \in Ops, NEW p \in Principals, ListAccounts(o, p)
    PROVE  IInv'
  <1> DEFINE debts == {id \in DOMAIN records : Owned(id, p) /\ InDebt(id)}
             y == [NoJob EXCEPT !.principal = p, !.after = "list", !.todo = debts]
  <1>1. RegistryOK'
    BY SideStepSameTokens, RegistryNow
    DEF ListAccounts, durable, google, minted, NoFault, RegistryOK, DataOK
  <1>2. CASE UNCHANGED <<lock, pc, job>>
    BY <1>1, <1>2, QuietKeeps DEF ListAccounts, durable, minted
  <1>3. CASE /\ lock' = o /\ pc' = [pc EXCEPT ![o] = "list"]
             /\ job' = [job EXCEPT ![o] = y]
    <2>1. DOMAIN records \subseteq AccountIds
      BY DEF IInv, TypeOK, IsMap
    <2>2. y \in Job /\ y.todo = debts /\ y.after = "list"
      BY <2>1, NoJobType DEF NoJob, Job
    <2>3. pc'[o] = "list" /\ job'[o] = y
      BY <1>3, HandlerNow
    <2> HIDE DEF y
    <2>4. HandlerKnows(o)'
      BY <1>3, <2>2, <2>3
      DEF ListAccounts, durable, HandlerKnows, RowsHeld, Lists, Learnt, CommitTarget,
          AwaitsCommit, Holding, OnRow, PCs
    <2>5. "list" \in PCs
      BY DEF PCs
    <2> QED BY <1>1, <1>3, <2>2, <2>4, <2>5, StepKeeps DEF ListAccounts
  <1> QED BY <1>2, <1>3 DEF ListAccounts

\* A listing moves on to the next debt, or returns.
LEMMA ListNextKeeps ==
    ASSUME IInv, NEW o \in Ops, ListNext(o)
    PROVE  IInv'
  <1>1. pc[o] = "list" /\ lock = o /\ UNCHANGED <<records, nextAccount>>
    BY HandlerNow DEF ListNext, durable, minted, Holding, PCs
  <1>2. RegistryOK'
    BY SideStepSameTokens, RegistryNow
    DEF ListNext, durable, google, minted, NoFault, RegistryOK, DataOK
  <1>3. CASE Return(o)
    BY <1>1, <1>2, <1>3, ReturnKeeps
  <1>4. ASSUME NEW id \in job[o].todo,
               job' = [job EXCEPT ![o].account = id, ![o].todo = @ \ {id}],
               pc' = [pc EXCEPT ![o] = "settle"], UNCHANGED lock
        PROVE  IInv'
    <2> DEFINE y == [job[o] EXCEPT !.account = id, !.todo = @ \ {id}]
    <2>1. job[o] \in Job /\ job[o].todo \subseteq DOMAIN records /\ id \in AccountIds
      BY <1>1, HandlerNow DEF Lists, Job
    <2>0. job[o].after = "list"
      BY <1>1, HandlerNow DEF HandlerKnows, Learnt
    <2>2. y \in Job /\ y.account = id /\ y.todo \subseteq job[o].todo /\ y.after = "list"
      BY <2>0, <2>1 DEF Job
    <2>3. job' = [job EXCEPT ![o] = y]
      BY <1>4, HandlerNow
    <2> HIDE DEF y
    <2>4. pc'[o] = "settle" /\ job'[o] = y /\ "settle" \in PCs
      BY <1>4, <2>3, HandlerNow DEF PCs
    <2>5. HandlerKnows(o)'
      BY <1>1, <1>4, <2>1, <2>2, <2>4
      DEF HandlerKnows, RowsHeld, Lists, Learnt, CommitTarget, AwaitsCommit,
          Holding, OnRow, PCs
    <2> QED BY <1>1, <1>2, <1>4, <2>2, <2>3, <2>4, <2>5, StepKeeps
  <1> QED BY <1>3, <1>4 DEF ListNext

(***************************************************************************)
(* The steps of a disconnect                                               *)
(***************************************************************************)

\* A handler that leaves its critical section, or stays out of it.
LEMMA OutsideKeeps ==
    ASSUME IInv, NEW o \in Ops, NEW x \in {"idle", "revoke", "relock"}, NEW y \in Job,
           pc' = [pc EXCEPT ![o] = x], job' = [job EXCEPT ![o] = y],
           lock \in {o, NoOp}, lock' = NoOp, RegistryOK'
    PROVE  IInv'
  <1>1. pc'[o] = x /\ x \in PCs /\ lock' # o
    BY HandlerNow, OpsAssumption DEF PCs
  <1>2. HandlerKnows(o)'
    BY <1>1
    DEF HandlerKnows, RowsHeld, Lists, Learnt, CommitTarget, AwaitsCommit, Holding, OnRow
  <1> QED BY <1>1, <1>2, StepKeeps

\* The first critical section of a disconnect: it ends at once for an account
\* that is disconnecting, else the handler keeps the lock and the row.
LEMMA DisconnectKeeps ==
    ASSUME IInv, NEW o \in Ops, NEW p \in Principals, NEW id \in AccountIds,
           Disconnect(o, p, id)
    PROVE  IInv'
  <1> DEFINE rec == records[id]
             kept(f) == IF rec.email \in DOMAIN tokens /\ ~ f
                          THEN tokens[rec.email] ELSE NoToken
             mine(f) == [NoJob EXCEPT !.principal = p, !.account = id,
                           !.plan = PlanOf(rec, f), !.after = "bump", !.token = kept(f)]
  <1>1. PICK f \in BOOLEAN :
          /\ IF f THEN Fault ELSE NoFault
          /\ IF rec.state = "disconnecting"
               THEN /\ Fenced(o, id, PlanOf(rec, f))
                    /\ job' = [job EXCEPT ![o] = IF PlanOf(rec, f) = "idle"
                                                  THEN NoJob ELSE mine(f)]
               ELSE /\ lock' = o
                    /\ pc' = [pc EXCEPT ![o] = IF InDebt(id) THEN "settle" ELSE "bump"]
                    /\ job' = [job EXCEPT ![o] = mine(f)]
                    /\ UNCHANGED clients
    BY DEF Disconnect
  <1>2. id \in DOMAIN records /\ lock = NoOp /\ UNCHANGED <<durable, sessions, google, minted>>
    BY DEF Disconnect, Owned
  <1>3. PlanOf(rec, f) \in {"idle", "revoke", "relock"}
    BY DEF PlanOf
  <1>4. kept(f) \in Token \cup {NoToken}
    BY RegistryNow DEF RegistryOK, DataOK, IsMap
  <1>5. mine(f) \in Job /\ mine(f).account = id /\ mine(f).after = "bump"
    <2> HIDE DEF kept
    <2> QED BY <1>3, <1>4, NoJobType DEF NoJob, Job
  <1>6. RegistryOK'
    <2>1. Invalidate(id) \/ UNCHANGED clients
      BY <1>1 DEF Fenced
    <2>2. Fault \/ NoFault
      BY <1>1
    <2> QED BY <1>2, <2>1, <2>2, SideStepSameTokens, RegistryNow
            DEF durable, google, minted, RegistryOK, DataOK
  <1> HIDE DEF mine
  <1>7. CASE rec.state = "disconnecting"
    <2> DEFINE y == IF PlanOf(rec, f) = "idle" THEN NoJob ELSE mine(f)
    <2>1. /\ pc' = [pc EXCEPT ![o] = PlanOf(rec, f)] /\ job' = [job EXCEPT ![o] = y]
          /\ lock' = NoOp
      BY <1>1, <1>7 DEF Fenced
    <2>2. y \in Job
      BY <1>5, NoJobType
    <2> HIDE DEF y
    <2> QED BY <1>2, <1>3, <1>6, <2>1, <2>2, OutsideKeeps
  <1>8. CASE rec.state # "disconnecting"
    <2> DEFINE x == IF InDebt(id) THEN "settle" ELSE "bump"
    <2>1. /\ pc' = [pc EXCEPT ![o] = x] /\ job' = [job EXCEPT ![o] = mine(f)]
          /\ lock' = o
      BY <1>1, <1>8
    <2>2. x \in {"settle", "bump"} /\ x \in PCs
      BY DEF PCs
    <2> HIDE DEF x
    <2>3. pc'[o] = x /\ job'[o] = mine(f) /\ records' = records
      BY <1>2, <2>1, HandlerNow DEF durable
    <2>4. HandlerKnows(o)'
      BY <1>2, <1>5, <2>1, <2>2, <2>3
      DEF HandlerKnows, RowsHeld, Lists, Learnt, CommitTarget, AwaitsCommit,
          Holding, OnRow, PCs
    <2> QED BY <1>2, <1>5, <1>6, <2>1, <2>2, <2>4, StepKeeps
  <1> QED BY <1>7, <1>8

\* A bump of the epoch of a subject keeps the epochs well typed.
LEMMA BumpType ==
    ASSUME IInv, NEW s \in Subjects, BumpEpoch(s)
    PROVE  epochs' \in [Subjects -> Nat]
  <1>1. epochs \in [Subjects -> Nat]
    BY DEF IInv, TypeOK
  <1> QED BY <1>1 DEF BumpEpoch

\* The two bumps of a disconnect.
LEMMA BumpKeeps ==
    ASSUME IInv, NEW o \in Ops, BumpOnStart(o) \/ BumpOnComplete(o)
    PROVE  IInv'
  <1>1. /\ lock = o
        /\ job[o].account \in DOMAIN records
        /\ UNCHANGED <<records, tokens, sessions, clients, google, minted>>
    BY HandlerNow DEF BumpOnStart, BumpOnComplete, Holding, PCs, OnRow
  <1>2. epochs' \in [Subjects -> Nat] /\ (Fault \/ NoFault)
    <2>1. records[job[o].account].subject \in Subjects
      BY <1>1, RegistryNow DEF RegistryOK, DataOK, IsMap, Record
    <2>2. BumpEpoch(records[job[o].account].subject) \/ UNCHANGED epochs
      BY DEF BumpOnStart, BumpOnComplete
    <2>3. epochs' \in [Subjects -> Nat]
      BY <2>1, <2>2, BumpType, RegistryNow DEF RegistryOK, DataOK
    <2> QED BY <2>3 DEF BumpOnStart, BumpOnComplete
  <1>3. RegistryOK'
    BY <1>1, <1>2, SideStepSameTokens, RegistryNow DEF RegistryOK, DataOK, google
  <1>4. CASE (Goto(o, "mark") \/ Goto(o, "delete_token")) /\ UNCHANGED lock
    BY <1>1, <1>3, <1>4, GotoKeeps DEF OnRow, Holding, PCs
  <1>5. CASE Return(o)
    BY <1>1, <1>3, <1>5, ReturnKeeps
  <1> QED BY <1>4, <1>5 DEF BumpOnStart, BumpOnComplete

\* The commit that fences the account; the lock is given up with it.
LEMMA MarkKeeps ==
    ASSUME IInv, NEW o \in Ops, MarkDisconnecting(o)
    PROVE  IInv'
  <1> DEFINE id  == job[o].account
             row == records[id]
             rec == [row EXCEPT !.state = "disconnecting", !.generation = 0,
                       !.revokeEpoch = epochs[row.subject],
                       !.cleanup = RevokeOf(row.email, "")]
             y   == IF job[o].plan = "idle" THEN NoJob ELSE job[o]
  <1>1. pc[o] = "mark" /\ lock = o /\ pc[o] \in OnRow
    BY HandlerNow DEF MarkDisconnecting, Holding, PCs, OnRow
  <1>2. row \in Record /\ job[o] \in Job
    BY <1>1, HandlerNow
  <1>3. rec \in Record /\ rec.subject = records[job[o].account].subject
    <2>1. epochs[row.subject] \in Nat
      BY <1>2, RegistryNow DEF RegistryOK, DataOK, Record
    <2>2. RevokeOf(row.email, "") \in Cleanup
      BY <1>2 DEF Record, RevokeOf, Cleanup
    <2> HIDE DEF id
    <2> QED BY <1>2, <2>1, <2>2 DEF Record, id
  <1>4. UNCHANGED <<epochs, tokens, sessions, google, minted>>
    BY DEF MarkDisconnecting
  <1>5. CASE /\ Commit(job[o].account, rec) /\ Fenced(o, id, job[o].plan) /\ NoFault
             /\ job' = [job EXCEPT ![o] = IF job[o].plan = "idle" THEN NoJob ELSE @]
    <2>1. RegistryOK'
      <3>1. Invalidate(id)
        BY <1>5 DEF Fenced
      <3> HIDE DEF rec, id
      <3> QED BY <1>1, <1>3, <1>4, <1>5, <3>1, RowUpdate
    <2>2. y \in Job /\ job[o].plan \in {"idle", "revoke", "relock"}
      <3>1. job[o].plan \in {"idle", "revoke", "relock"}
        BY <1>2 DEF Job
      <3> QED BY <1>2, <3>1, NoJobType
    <2>3. /\ pc' = [pc EXCEPT ![o] = job[o].plan] /\ job' = [job EXCEPT ![o] = y]
          /\ lock' = NoOp
      BY <1>5, HandlerNow DEF Fenced
    <2> HIDE DEF y
    <2> QED BY <1>1, <2>1, <2>2, <2>3, OutsideKeeps
  <1>6. CASE Fault /\ Return(o) /\ UNCHANGED <<records, clients>>
    <2>1. RegistryOK'
      BY <1>4, <1>6, SideStepSameTokens, RegistryNow DEF RegistryOK, DataOK, google
    <2> QED BY <1>1, <1>6, <2>1, ReturnKeeps
  <1> QED BY <1>5, <1>6 DEF MarkDisconnecting

\* Revoking a token ends at most the grant of its subject.
LEMMA KillType ==
    ASSUME IInv, NEW t, Kill(t) \/ UNCHANGED google
    PROVE  grant' \in [Subjects -> Nat] /\ consented' \in SUBSET Subjects
  <1>1. grant \in [Subjects -> Nat] /\ consented \in SUBSET Subjects
    BY RegistryNow DEF RegistryOK, DataOK
  <1>2. CASE Kill(t) /\ Live(t)
    BY <1>1, <1>2 DEF Kill, Live
  <1>3. CASE Kill(t) /\ ~ Live(t)
    <2>1. grant' = [grant EXCEPT ![t.subject] = grant[t.subject]] /\ consented' = consented
      BY <1>3 DEF Kill
    <2> QED BY <1>1, <2>1
  <1>4. CASE UNCHANGED google
    BY <1>1, <1>4 DEF google
  <1> QED BY <1>2, <1>3, <1>4

\* The revoke call, made outside the critical section.
LEMMA RevokeKeeps ==
    ASSUME IInv, NEW o \in Ops, Revoke(o)
    PROVE  IInv'
  <1>1. pc[o] = "revoke" /\ lock # o
    BY HandlerNow DEF Revoke, Holding
  <1>2. /\ UNCHANGED <<records, epochs, tokens, sessions, clients, minted>>
        /\ Fault \/ NoFault
        /\ Kill(job[o].token) \/ UNCHANGED google
    BY DEF Revoke, durable
  <1>3. RegistryOK'
    BY <1>2, KillType, SideStepSameTokens, RegistryNow DEF RegistryOK, DataOK
  <1>4. CASE Goto(o, "relock") /\ UNCHANGED lock
    <2>1. /\ pc' = [pc EXCEPT ![o] = "relock"] /\ job' = [job EXCEPT ![o] = job[o]]
          /\ job[o] \in Job /\ "relock" \in PCs
      BY <1>4, HandlerNow DEF Goto, PCs
    <2>2. pc'[o] = "relock" /\ lock' # o
      BY <1>1, <1>4, <2>1, HandlerNow
    <2>3. HandlerKnows(o)'
      BY <2>2
      DEF HandlerKnows, RowsHeld, Lists, Learnt, CommitTarget, AwaitsCommit, Holding, OnRow
    <2> QED BY <1>2, <1>3, <1>4, <2>1, <2>3, StepKeeps DEF minted
  <1>5. CASE Return(o)
    BY <1>2, <1>3, <1>5, ReturnKeeps DEF minted
  <1> QED BY <1>4, <1>5 DEF Revoke

\* Taking the lock again after the revoke.
LEMMA RelockKeeps ==
    ASSUME IInv, NEW o \in Ops, Relock(o)
    PROVE  IInv'
  <1>1. UNCHANGED <<records, epochs, tokens, sessions, clients, google, minted, faults>>
    BY DEF Relock, durable
  <1>2. RegistryOK'
    BY <1>1, SideStepSameTokens, RegistryNow DEF RegistryOK, DataOK, google, NoFault
  <1>3. CASE /\ job[o].account \in DOMAIN records
             /\ lock' = o /\ Goto(o, "stage")
    <2>1. /\ pc' = [pc EXCEPT ![o] = "stage"] /\ job' = [job EXCEPT ![o] = job[o]]
          /\ job[o] \in Job /\ "stage" \in PCs
      BY <1>3, HandlerNow DEF Goto, PCs
    <2>2. pc'[o] = "stage" /\ job'[o] = job[o] /\ lock' = o /\ lock = NoOp
      BY <1>3, <2>1, HandlerNow DEF Relock
    <2>3. HandlerKnows(o)'
      BY <1>1, <1>3, <2>2
      DEF HandlerKnows, RowsHeld, Lists, Learnt, CommitTarget, AwaitsCommit,
          Holding, OnRow, PCs
    <2> QED BY <1>2, <2>1, <2>2, <2>3, StepKeeps
  <1>4. CASE Return(o)
    BY <1>1, <1>2, <1>4, ReturnKeeps DEF minted
  <1> QED BY <1>3, <1>4 DEF Relock

\* The commit that notes that only local work is left.
LEMMA RecordLocalStageKeeps ==
    ASSUME IInv, NEW o \in Ops, RecordLocalStage(o)
    PROVE  IInv'
  <1> DEFINE row == records[job[o].account]
             rec == [row EXCEPT !.cleanup = RevokeOf(row.email, "local")]
  <1>1. pc[o] = "stage" /\ lock = o /\ pc[o] \in OnRow
    BY HandlerNow DEF RecordLocalStage, Holding, PCs, OnRow
  <1>2. row \in Record /\ job[o].account \in DOMAIN records
    BY <1>1, HandlerNow
  <1>3. rec \in Record /\ rec.subject = records[job[o].account].subject
    <2>1. RevokeOf(row.email, "local") \in Cleanup
      BY <1>2 DEF Record, RevokeOf, Cleanup
    <2> QED BY <1>2, <2>1 DEF Record
  <1>4. UNCHANGED <<epochs, tokens, sessions, clients, google, minted>>
    BY DEF RecordLocalStage
  <1>5. CASE Commit(job[o].account, rec) /\ Goto(o, "complete") /\ NoFault /\ UNCHANGED lock
    <2>1. RegistryOK' /\ DOMAIN records' = DOMAIN records
      <3> HIDE DEF rec
      <3> QED BY <1>1, <1>3, <1>4, <1>5, RowUpdate
    <2> QED BY <1>1, <1>2, <1>5, <2>1, GotoKeeps DEF OnRow, Holding, PCs
  <1>6. CASE Fault /\ Return(o) /\ UNCHANGED records
    <2>1. RegistryOK'
      BY <1>4, <1>6, SideStepSameTokens, RegistryNow DEF RegistryOK, DataOK, google
    <2> QED BY <1>1, <1>6, <2>1, ReturnKeeps
  <1> QED BY <1>5, <1>6 DEF RecordLocalStage

\* The deletion of the token.
LEMMA DeleteTokenKeeps ==
    ASSUME IInv, NEW o \in Ops, DeleteToken(o)
    PROVE  IInv'
  <1> DEFINE e == records[job[o].account].email
  <1>1. lock = o /\ job[o].account \in DOMAIN records
    BY HandlerNow DEF DeleteToken, Holding, PCs, OnRow
  <1>2. /\ tokens' = tokens \/ tokens' = DropKey(tokens, e)
        /\ Fault \/ NoFault
        /\ UNCHANGED <<records, epochs, sessions, clients, google, minted>>
    BY DEF DeleteToken
  <1>3. RegistryOK'
    <2> HIDE DEF e
    <2>1. IsMap(tokens', Emails, Token)
      BY <1>2, TokensKept
    <2> QED BY <1>2, <2>1, SideStep, RegistryNow DEF RegistryOK, DataOK, google
  <1>4. CASE Goto(o, "delete_record") /\ UNCHANGED lock
    BY <1>1, <1>2, <1>3, <1>4, GotoKeeps DEF OnRow, Holding, PCs
  <1>5. CASE Return(o)
    BY <1>1, <1>3, <1>5, ReturnKeeps
  <1> QED BY <1>4, <1>5 DEF DeleteToken

\* The deletion of the record: the handler that did it knows no row any more.
LEMMA DeleteRecordKeeps ==
    ASSUME IInv, NEW o \in Ops, DeleteRecord(o)
    PROVE  IInv'
  <1>1. lock = o
    BY HandlerNow DEF DeleteRecord, Holding, PCs
  <1>2. /\ Return(o) /\ (Fault \/ NoFault)
        /\ UNCHANGED <<epochs, tokens, sessions, clients, google, minted>>
    BY DEF DeleteRecord
  <1>3. CASE UNCHANGED records
    <2>1. RegistryOK'
      BY <1>2, <1>3, SideStepSameTokens, RegistryNow DEF RegistryOK, DataOK, google
    <2> QED BY <1>1, <1>2, <2>1, ReturnKeeps
  <1>4. CASE records' = DropKey(records, job[o].account)
    <2>1. IsMap(records, AccountIds, Record)
      BY RegistryNow DEF RegistryOK, DataOK
    <2>2. /\ IsMap(records', AccountIds, Record)
          /\ DOMAIN records' \subseteq DOMAIN records
          /\ \A id \in DOMAIN records' : records'[id] = records[id]
      BY <1>4, <2>1 DEF IsMap, DropKey
    <2>3. OneConnectionPerIdentity' /\ IdsMinted'
      BY <1>2, <2>2, RegistryNow DEF RegistryOK, OneConnectionPerIdentity, IdsMinted, minted
    <2>4. faults' \in 0 .. MaxFaults
      BY <1>2, FaultKeeps, RegistryNow DEF RegistryOK, DataOK
    <2>5. RegistryOK'
      BY <1>2, <2>2, <2>3, <2>4, RegistryNow DEF RegistryOK, DataOK, google, minted
    <2> QED BY <1>1, <1>2, <2>5, ReturnKeeps
  <1> QED BY <1>3, <1>4 DEF DeleteRecord

\* A handler that gives up outside its critical section.
LEMMA GiveUpKeeps ==
    ASSUME IInv, NEW o \in Ops, GiveUp(o)
    PROVE  IInv'
  <1>1. RegistryOK'
    BY SideStepSameTokens, RegistryNow DEF GiveUp, durable, google, RegistryOK, DataOK
  <1> QED BY <1>1, ReturnKeeps DEF GiveUp, durable, minted

(***************************************************************************)
(* The theorems                                                            *)
(***************************************************************************)

\* Every step of the program keeps the inductive invariant.
LEMMA NextKeeps == IInv /\ [Next]_vars => IInv'
  <1> SUFFICES ASSUME IInv, [Next]_vars PROVE IInv'
    OBVIOUS
  <1>1. ASSUME NEW o \in Ops, CallbackStep(o) PROVE IInv'
    BY <1>1, ExchangeKeeps, LockCallbackKeeps, CommitPendingKeeps, PutTokenKeeps,
       ActivateKeeps, FinishCallbackKeeps DEF CallbackStep
  <1>2. ASSUME NEW o \in Ops, SettleStep(o) PROVE IInv'
    BY <1>2, SettleDeleteKeeps, SettleCommitKeeps, ListNextKeeps DEF SettleStep
  <1>3. ASSUME NEW o \in Ops, DisconnectStep(o) PROVE IInv'
    BY <1>3, BumpKeeps, MarkKeeps, RevokeKeeps, RelockKeeps, RecordLocalStageKeeps,
       DeleteTokenKeeps, DeleteRecordKeeps DEF DisconnectStep
  <1>4. ASSUME NEW o \in Ops, NEW p \in Principals,
               ListAccounts(o, p) \/ \E id \in AccountIds : Disconnect(o, p, id)
        PROVE  IInv'
    BY <1>4, ListAccountsKeeps, DisconnectKeeps
  <1>5. CASE UNCHANGED vars
    <2>1. UNCHANGED <<durable, sessions, lock, clients, pc, job, google, minted, faults>>
      BY <1>5 DEF vars
    <2>2. RegistryOK'
      BY <2>1, SideStepSameTokens, RegistryNow
      DEF durable, google, NoFault, RegistryOK, DataOK
    <2> QED BY <2>1, <2>2, QuietKeeps DEF durable, minted
  <1>6. CASE Next
    BY <1>1, <1>2, <1>3, <1>4, <1>6, StartKeeps, ExpireKeeps, GiveUpKeeps,
       TakeSessionKeeps, UseClientKeeps, RestartKeeps DEF Next, Step
  <1> QED BY <1>5, <1>6

\* The inductive invariant holds in every reachable state.
THEOREM Inductive == Spec => []IInv
  BY InitIInv, NextKeeps, PTL DEF Spec

\* Every variable keeps its type, whatever interleaving, failure or restart.
THEOREM TypeCorrect == Spec => []TypeOK
  <1>1. IInv => TypeOK
    BY DEF IInv
  <1> QED BY <1>1, Inductive, PTL

\* The registry never holds two connections for one Google subject or for one
\* address, however many callbacks, disconnects and restarts overlap.
THEOREM OneConnection == Spec => []OneConnectionPerIdentity
  <1>1. IInv => OneConnectionPerIdentity
    BY DEF IInv
  <1> QED BY <1>1, Inductive, PTL

\* A handler is inside a critical section exactly while it holds the lifecycle
\* lock: no return path leaks the lock and no critical step runs without it.
THEOREM LockHeldInside == Spec => []LockDiscipline
  <1>1. IInv => LockDiscipline
    BY DEF IInv, HandlerKnows, LockDiscipline
  <1> QED BY <1>1, Inductive, PTL
=============================================================================
