------------------------ MODULE AccountLifecycleProofs ------------------------
(***************************************************************************)
(* AccountConnect implements ConnectionLifecycle: under the refinement     *)
(* mapping of AccountConnectRefinement the initial states of the           *)
(* controller are initial states of the lifecycle, and each of its steps   *)
(* is one step of the lifecycle or changes nothing the lifecycle sees.     *)
(*                                                                         *)
(* Nothing is assumed of the addresses Google reports: a subject's phase,  *)
(* owner and generation depend on its own row only, and PhaseInv says what *)
(* every handler under the lock still knows of the phase of that row.      *)
(***************************************************************************)
EXTENDS AccountTokensProofs, AccountConnectRefinement

(***************************************************************************)
(* The invariant of the phases                                             *)
(***************************************************************************)

\* what a handler under the lock has established about the phase of its row
HandlerPhase(o) ==
    LET id == job[o].account IN
    /\ AwaitsCommit(o) /\ id \in DOMAIN records => records[id].state # "disconnecting"
    /\ pc[o] \in {"put", "activate"} => records[id].state = "pending"
    /\ Fencing(o) => records[id].state # "disconnecting"

\* a committed row has a generation, and clients are cached for active rows only
RowPhases == \A id \in DOMAIN records : records[id].generation # 0
ClientPhases ==
    \A id \in DOMAIN clients : id \in DOMAIN records /\ records[id].state = "active"

PhaseInv == RowPhases /\ ClientPhases /\ \A o \in Ops : HandlerPhase(o)

\* a step of the lifecycle, or none
LifecycleStep == [Lifecycle!Next]_(Lifecycle!vars)

(***************************************************************************)
(* The refinement mapping                                                  *)
(***************************************************************************)

\* The lifecycle sees a subject that has a row as that row.
LEMMA RowSeen ==
    IInv => \A id \in DOMAIN records : \A s : s = records[id].subject =>
              /\ s \in Subjects
              /\ Owners(s) = {id}
              /\ PhaseOf(s) = records[id].state
              /\ OwnerOf(s) = records[id].principal
              /\ GenerationOf(s) = records[id].generation
  <1> SUFFICES ASSUME IInv, NEW id \in DOMAIN records, NEW s, s = records[id].subject
               PROVE  /\ s \in Subjects
                      /\ Owners(s) = {id}
                      /\ PhaseOf(s) = records[id].state
                      /\ OwnerOf(s) = records[id].principal
                      /\ GenerationOf(s) = records[id].generation
    OBVIOUS
  <1>1. s \in Subjects /\ Owners(s) = {id}
    BY TypesNow DEF Owners, IInv, OneConnectionPerIdentity
  <1>2. (CHOOSE w \in Owners(s) : TRUE) = id
    BY <1>1
  <1> QED BY <1>1, <1>2 DEF RowOf, PhaseOf, OwnerOf, GenerationOf

\* The lifecycle sees a subject that has no row as absent.
LEMMA AbsentSeen ==
    \A s : Owners(s) = {} =>
        PhaseOf(s) = "absent" /\ OwnerOf(s) = Nobody /\ GenerationOf(s) = 0
  BY DEF PhaseOf, OwnerOf, GenerationOf

\* After a step too.
LEMMA SeenAfter ==
    ASSUME IInv'
    PROVE  /\ \A id \in DOMAIN records' : \A s : s = records'[id].subject =>
                /\ s \in Subjects
                /\ Owners(s)' = {id}
                /\ PhaseOf(s)' = records'[id].state
                /\ OwnerOf(s)' = records'[id].principal
                /\ GenerationOf(s)' = records'[id].generation
           /\ \A s : Owners(s)' = {} =>
                PhaseOf(s)' = "absent" /\ OwnerOf(s)' = Nobody /\ GenerationOf(s)' = 0
  <1>1. (IInv => \A id \in DOMAIN records : \A s : s = records[id].subject =>
              /\ s \in Subjects
              /\ Owners(s) = {id}
              /\ PhaseOf(s) = records[id].state
              /\ OwnerOf(s) = records[id].principal
              /\ GenerationOf(s) = records[id].generation)'
    BY RowSeen, PTL
  <1>2. (\A s : Owners(s) = {} =>
            PhaseOf(s) = "absent" /\ OwnerOf(s) = Nobody /\ GenerationOf(s) = 0)'
    BY AbsentSeen, PTL
  <1> QED BY <1>1, <1>2

\* A subject the step has no part in looks the same after it: the step touches
\* at most the row id, and that row belongs to subject s before and after.
LEMMA OthersSeen ==
    ASSUME IInv, IInv', NEW id, NEW s,
           \A w \in DOMAIN records \ {id} : w \in DOMAIN records' /\ records'[w] = records[w],
           \A w \in DOMAIN records' \ {id} : w \in DOMAIN records,
           id \in DOMAIN records => records[id].subject = s,
           id \in DOMAIN records' => records'[id].subject = s,
           NEW x \in Subjects, x # s
    PROVE  /\ PhaseOf(x)' = PhaseOf(x)
           /\ OwnerOf(x)' = OwnerOf(x)
           /\ GenerationOf(x)' = GenerationOf(x)
  <1>1. CASE Owners(x) = {}
    <2>1. Owners(x)' = {}
      BY <1>1 DEF Owners
    <2> QED BY <1>1, <2>1, AbsentSeen, SeenAfter
  <1>2. ASSUME NEW w \in DOMAIN records, records[w].subject = x
        PROVE  /\ PhaseOf(x)' = PhaseOf(x)
               /\ OwnerOf(x)' = OwnerOf(x)
               /\ GenerationOf(x)' = GenerationOf(x)
    <2>1. w # id /\ w \in DOMAIN records' /\ records'[w] = records[w]
      BY <1>2
    <2>2. /\ PhaseOf(x) = records[w].state /\ OwnerOf(x) = records[w].principal
          /\ GenerationOf(x) = records[w].generation
      BY <1>2, RowSeen
    <2>3. /\ PhaseOf(x)' = records'[w].state /\ OwnerOf(x)' = records'[w].principal
          /\ GenerationOf(x)' = records'[w].generation
      BY <1>2, <2>1, SeenAfter
    <2> QED BY <2>1, <2>2, <2>3
  <1> QED BY <1>1, <1>2 DEF Owners

\* The subjects served are those of the rows with a client.
LEMMA ServedBy ==
    /\ \A x : x \in Serving <=> \E w \in DOMAIN records : w \in DOMAIN clients
                                                          /\ records[w].subject = x
    /\ \A x : x \in Serving' <=> \E w \in DOMAIN records' : w \in DOMAIN clients'
                                                            /\ records'[w].subject = x
  BY DEF Serving

\* A step that leaves every row as the lifecycle sees it and caches no client
\* is no step of the lifecycle, or one that ends the serving of some subjects.
LEMMA SameView ==
    ASSUME IInv,
           \A x \in Subjects : /\ PhaseOf(x)' = PhaseOf(x)
                               /\ OwnerOf(x)' = OwnerOf(x)
                               /\ GenerationOf(x)' = GenerationOf(x),
           Serving' \subseteq Serving
    PROVE  LifecycleStep
  <1>1. Serving \subseteq Subjects
    BY TypesNow DEF Serving
  <1>2. /\ [x \in Subjects |-> PhaseOf(x)]' = [x \in Subjects |-> PhaseOf(x)]
        /\ [x \in Subjects |-> OwnerOf(x)]' = [x \in Subjects |-> OwnerOf(x)]
        /\ [x \in Subjects |-> GenerationOf(x)]' = [x \in Subjects |-> GenerationOf(x)]
    OBVIOUS
  <1> DEFINE S == Serving \ Serving'
  <1>3. S \in SUBSET Subjects /\ Serving' = Serving \ S
    BY <1>1
  <1>4. Lifecycle!StopServing(S)
    BY <1>2, <1>3 DEF Lifecycle!StopServing
  <1>5. Lifecycle!Next
    BY <1>3, <1>4 DEF Lifecycle!Next
  <1> QED BY <1>5 DEF LifecycleStep
\* What the lifecycle sees of the step of one subject.
LEMMA OneSubjectMoves ==
    ASSUME NEW s \in Subjects,
           \A x \in Subjects \ {s} : /\ PhaseOf(x)' = PhaseOf(x)
                                     /\ OwnerOf(x)' = OwnerOf(x)
                                     /\ GenerationOf(x)' = GenerationOf(x)
    PROVE  /\ \A p : PhaseOf(s)' = p =>
                [x \in Subjects |-> PhaseOf(x)]' =
                   [[x \in Subjects |-> PhaseOf(x)] EXCEPT ![s] = p]
           /\ \A p : OwnerOf(s)' = p =>
                [x \in Subjects |-> OwnerOf(x)]' =
                   [[x \in Subjects |-> OwnerOf(x)] EXCEPT ![s] = p]
           /\ \A g : GenerationOf(s)' = g =>
                [x \in Subjects |-> GenerationOf(x)]' =
                   [[x \in Subjects |-> GenerationOf(x)] EXCEPT ![s] = g]
  OBVIOUS

\* Evicting the clients of the only row of a subject ends its serving, and no
\* other subject's.
LEMMA ServingEnds ==
    ASSUME NEW id, NEW s,
           \A w \in DOMAIN records \ {id} : w \in DOMAIN records' /\ records'[w] = records[w],
           \A w \in DOMAIN records' \ {id} : w \in DOMAIN records,
           Owners(s) \subseteq {id},
           id \in DOMAIN records => records[id].subject = s,
           Invalidate(id)
    PROVE  Serving' = Serving \ {s}
  <1>1. DOMAIN clients' = DOMAIN clients \ {id}
    BY DEF Invalidate, DropKey
  <1>2. ASSUME NEW x
        PROVE  x \in Serving' <=> x \in Serving /\ x # s
    BY <1>1, ServedBy DEF Owners
  <1> QED BY <1>2

(***************************************************************************)
(* Steps that leave the registry alone                                     *)
(***************************************************************************)

\* A step of handler o keeps what the other handlers know of their rows when
\* it leaves the rows alone, or o holds the lock.
LEMMA PhaseStep ==
    ASSUME IInv, PhaseInv, NEW o \in Ops,
           \A p \in Ops \ {o} : pc'[p] = pc[p] /\ job'[p] = job[p],
           UNCHANGED records \/ lock = o,
           HandlerPhase(o)', RowPhases', ClientPhases'
    PROVE  PhaseInv'
  <1>1. ASSUME NEW p \in Ops, p # o
        PROVE  HandlerPhase(p)'
    <2>1. pc'[p] = pc[p] /\ job'[p] = job[p] /\ HandlerPhase(p)
      BY <1>1 DEF PhaseInv
    <2>2. CASE UNCHANGED records
      BY <2>1, <2>2 DEF HandlerPhase, AwaitsCommit, Fencing, Settling
    <2>3. CASE lock = o
      <3>1. pc'[p] \notin Holding
        BY <1>1, <2>1, <2>3, OthersOutside
      <3> QED BY <3>1 DEF HandlerPhase, AwaitsCommit, Fencing, Settling, Holding, PCs
    <2> QED BY <2>2, <2>3
  <1> QED BY <1>1 DEF PhaseInv

\* The lifecycle sees no more of a step that leaves the rows alone and caches
\* no client than the end of some serving.
LEMMA SameRowsSeen ==
    ASSUME IInv, UNCHANGED records, DOMAIN clients' \subseteq DOMAIN clients
    PROVE  /\ LifecycleStep
           /\ PhaseInv => RowPhases' /\ ClientPhases'
  <1>1. \A x \in Subjects : /\ PhaseOf(x)' = PhaseOf(x)
                            /\ OwnerOf(x)' = OwnerOf(x)
                            /\ GenerationOf(x)' = GenerationOf(x)
    BY DEF PhaseOf, OwnerOf, GenerationOf, RowOf, Owners
  <1>2. Serving' \subseteq Serving
    BY DEF Serving
  <1>3. PhaseInv => RowPhases' /\ ClientPhases'
    BY DEF PhaseInv, RowPhases, ClientPhases
  <1> QED BY <1>1, <1>2, <1>3, SameView

\* Such a step of one handler.
LEMMA ReadStep ==
    ASSUME IInv, PhaseInv, NEW o \in Ops,
           \A p \in Ops \ {o} : pc'[p] = pc[p] /\ job'[p] = job[p],
           UNCHANGED records, UNCHANGED clients \/ (\E c : Invalidate(c)),
           HandlerPhase(o)'
    PROVE  PhaseInv' /\ LifecycleStep
  <1>1. DOMAIN clients' \subseteq DOMAIN clients
    BY DEF Invalidate, DropKey
  <1> QED BY <1>1, SameRowsSeen, PhaseStep

\* A handler outside the critical sections, or past its commits, knows nothing.
LEMMA NoPhase ==
    ASSUME NEW o \in Ops,
           pc'[o] \in {"idle", "exchange", "callback", "finish", "revoke", "relock", "stage",
                       "complete", "delete_token", "delete_record", "list"}
    PROVE  HandlerPhase(o)'
  BY DEF HandlerPhase, AwaitsCommit, Fencing, Settling

\* A return that writes no row.
LEMMA ReturnSeen ==
    ASSUME IInv, PhaseInv, NEW o \in Ops, Return(o), UNCHANGED records,
           UNCHANGED clients \/ (\E c : Invalidate(c))
    PROVE  PhaseInv' /\ LifecycleStep
  BY ReturnMoves, NoPhase, ReadStep

\* A callback that takes the lock has found its row connected, or has none.
LEMMA LockCallbackSeen ==
    ASSUME IInv, PhaseInv, NEW o \in Ops, LockCallback(o)
    PROVE  PhaseInv' /\ LifecycleStep
  <1> DEFINE id  == Matched(o)
             acc == IF id = 0 THEN nextAccount + 1 ELSE id
             x   == IF id # 0 /\ InDebt(id) THEN "settle" ELSE "commit"
  <1>1. UNCHANGED records /\ UNCHANGED clients
    BY DEF LockCallback, durable
  <1>2. CASE CallbackAccepted(o, id)
    <2>1. /\ pc' = [pc EXCEPT ![o] = x]
          /\ job' = [job EXCEPT ![o].account = acc, ![o].token = RefreshOf(o, id),
                                ![o].after = "commit"]
      BY <1>2 DEF LockCallback
    <2>2. /\ pc'[o] = x /\ job'[o].account = acc /\ job'[o].after = "commit"
          /\ \A p \in Ops \ {o} : pc'[p] = pc[p] /\ job'[p] = job[p]
      BY <2>1, HandlerNow DEF Job
    <2>3. \/ id # 0 /\ acc = id
          \/ id = 0 /\ acc \notin DOMAIN records
      BY DEF IInv, IdsMinted, TypeOK
    <2>4. id # 0 => records[id].state # "disconnecting"
      BY <1>2 DEF CallbackAccepted
    <2>5. x \in {"settle", "commit"}
      OBVIOUS
    <2> HIDE DEF id, acc, x
    <2>6. HandlerPhase(o)'
      BY <1>1, <2>2, <2>3, <2>4, <2>5 DEF HandlerPhase, Fencing, Settling
    <2> QED BY <1>1, <2>2, <2>6, ReadStep
  <1>3. CASE ~ CallbackAccepted(o, id)
    <2>1. Return(o)
      BY <1>3 DEF LockCallback
    <2> QED BY <1>1, <2>1, ReturnSeen
  <1> QED BY <1>2, <1>3

\* A disconnect takes the lock over a row that is not yet disconnecting.
LEMMA DisconnectSeen ==
    ASSUME IInv, PhaseInv, NEW o \in Ops, NEW p \in Principals, NEW id \in AccountIds,
           Disconnect(o, p, id)
    PROVE  PhaseInv' /\ LifecycleStep
  <1> DEFINE rec == records[id]
             mine(f) == [NoJob EXCEPT !.principal = p, !.account = id,
                           !.plan = PlanOf(rec, f), !.after = "bump",
                           !.token = IF rec.email \in DOMAIN tokens /\ ~ f
                                       THEN tokens[rec.email] ELSE NoToken]
  <1>1. PICK f \in BOOLEAN :
          IF rec.state = "disconnecting"
            THEN /\ Fenced(o, id, PlanOf(rec, f))
                 /\ job' = [job EXCEPT ![o] = IF PlanOf(rec, f) = "idle"
                                               THEN NoJob ELSE mine(f)]
            ELSE /\ pc' = [pc EXCEPT ![o] = IF InDebt(id) THEN "settle" ELSE "bump"]
                 /\ job' = [job EXCEPT ![o] = mine(f)]
                 /\ UNCHANGED clients
    BY DEF Disconnect
  <1>2. UNCHANGED records
    BY DEF Disconnect, durable
  <1>3. PlanOf(rec, f) \in {"idle", "revoke", "relock"}
    BY DEF PlanOf
  <1>4. mine(f).account = id /\ mine(f).after = "bump"
    BY DEF NoJob
  <1> HIDE DEF mine
  <1>5. CASE rec.state = "disconnecting"
    <2>1. /\ Invalidate(id) /\ pc'[o] = PlanOf(rec, f)
          /\ \A q \in Ops \ {o} : pc'[q] = pc[q] /\ job'[q] = job[q]
      BY <1>1, <1>5, HandlerNow DEF Fenced
    <2> QED BY <1>2, <1>3, <2>1, NoPhase, ReadStep
  <1>6. CASE rec.state # "disconnecting"
    <2>1. /\ pc'[o] \in {"settle", "bump"} /\ job'[o] = mine(f) /\ UNCHANGED clients
          /\ \A q \in Ops \ {o} : pc'[q] = pc[q] /\ job'[q] = job[q]
      BY <1>1, <1>6, HandlerNow
    <2>2. HandlerPhase(o)'
      BY <1>2, <1>4, <1>6, <2>1 DEF HandlerPhase, AwaitsCommit, Fencing, Settling
    <2> QED BY <1>2, <2>1, <2>2, ReadStep
  <1> QED BY <1>5, <1>6

\* A listing knows no more of a row than that it exists.
LEMMA ListSeen ==
    ASSUME IInv, PhaseInv, NEW o \in Ops,
           ListNext(o) \/ \E p \in Principals : ListAccounts(o, p)
    PROVE  PhaseInv' /\ LifecycleStep
  <1>1. UNCHANGED records /\ UNCHANGED clients
    BY DEF ListNext, ListAccounts, durable
  <1>2. CASE ListNext(o)
    <2>1. CASE Return(o)
      BY <1>1, <2>1, ReturnSeen
    <2>2. ASSUME NEW id, job' = [job EXCEPT ![o].account = id, ![o].todo = @ \ {id}],
                 pc' = [pc EXCEPT ![o] = "settle"]
          PROVE  PhaseInv' /\ LifecycleStep
      <3>1. /\ pc'[o] = "settle" /\ job'[o].after = job[o].after
            /\ \A q \in Ops \ {o} : pc'[q] = pc[q] /\ job'[q] = job[q]
        BY <2>2, HandlerNow DEF Job
      <3>2. job[o].after = "list"
        BY <1>2, HandlerNow DEF ListNext, HandlerKnows, Learnt
      <3>3. HandlerPhase(o)'
        BY <3>1, <3>2 DEF HandlerPhase, AwaitsCommit, Fencing
      <3> QED BY <1>1, <3>1, <3>3, ReadStep
    <2> QED BY <1>2, <2>1, <2>2 DEF ListNext
  <1>3. CASE \E p \in Principals : ListAccounts(o, p)
    <2>1. CASE UNCHANGED <<pc, job>>
      <3>1. HandlerPhase(o)'
        BY <1>1, <2>1 DEF PhaseInv, HandlerPhase, AwaitsCommit, Fencing, Settling
      <3> QED BY <1>1, <2>1, <3>1, ReadStep
    <2>2. CASE pc' = [pc EXCEPT ![o] = "list"] /\ \E y : job' = [job EXCEPT ![o] = y]
      <3>1. pc'[o] = "list" /\ \A q \in Ops \ {o} : pc'[q] = pc[q] /\ job'[q] = job[q]
        BY <2>2, HandlerNow
      <3> QED BY <1>1, <3>1, NoPhase, ReadStep
    <2> QED BY <1>3, <2>1, <2>2 DEF ListAccounts
  <1> QED BY <1>2, <1>3

\* The other steps of a handler that write no row.
LEMMA OtherReadersSeen ==
    ASSUME IInv, PhaseInv, NEW o \in Ops,
           \/ \E k \in 1 .. MaxSessions : TakeSession(o, k)
           \/ Exchange(o) \/ GiveUp(o) \/ Revoke(o) \/ Relock(o) \/ FinishCallback(o)
           \/ BumpOnStart(o) \/ BumpOnComplete(o) \/ PutToken(o) \/ SettleDelete(o)
           \/ DeleteToken(o)
    PROVE  PhaseInv' /\ LifecycleStep
  <1>1. /\ UNCHANGED records
        /\ UNCHANGED clients \/ (\E c : Invalidate(c))
        /\ HandlerPhase(o)
    BY DEF TakeSession, Exchange, GiveUp, Revoke, Relock, FinishCallback, BumpOnStart,
           BumpOnComplete, PutToken, SettleDelete, DeleteToken, durable, PhaseInv
  <1>2. CASE Return(o)
    BY <1>1, <1>2, ReturnSeen
  <1>3. CASE (\E k \in 1 .. MaxSessions : TakeSession(o, k)) \/ Exchange(o)
    <2>1. /\ pc'[o] \in {"exchange", "callback"}
          /\ \A p \in Ops \ {o} : pc'[p] = pc[p] /\ job'[p] = job[p]
      BY <1>3, HandlerNow DEF TakeSession, Exchange
    <2> QED BY <1>1, <2>1, NoPhase, ReadStep
  <1>4. CASE \E x \in {"relock", "stage", "delete_token", "delete_record", "finish", "list"} :
                Goto(o, x)
    BY <1>1, <1>4, GotoMoves, NoPhase, ReadStep
  <1>5. CASE \/ pc[o] = "bump" /\ Goto(o, "mark")
             \/ pc[o] = "put" /\ Goto(o, "activate")
             \/ pc[o] = "settle" /\ Goto(o, "settled")
    <2>1. HandlerPhase(o)'
      BY <1>1, <1>5, GotoMoves DEF HandlerPhase, AwaitsCommit, Fencing, Settling
    <2> QED BY <1>1, <1>5, <2>1, GotoMoves, ReadStep
  <1> QED BY <1>2, <1>3, <1>4, <1>5
      DEF GiveUp, Revoke, Relock, FinishCallback, BumpOnStart, BumpOnComplete, PutToken,
          SettleDelete, StillPending, DeleteToken

(***************************************************************************)
(* Commits                                                                 *)
(***************************************************************************)

\* A commit that keeps what the lifecycle sees of the row of its handler.
LEMMA SameViewCommit ==
    ASSUME IInv, IInv', PhaseInv, NEW o \in Ops, lock = o, NEW id,
           DOMAIN records' = DOMAIN records, UNCHANGED clients,
           \A w \in DOMAIN records \ {id} : records'[w] = records[w],
           id \in DOMAIN records, records'[id].subject = records[id].subject,
           records'[id].principal = records[id].principal,
           records'[id].state = records[id].state,
           records'[id].generation = records[id].generation,
           \A p \in Ops \ {o} : pc'[p] = pc[p] /\ job'[p] = job[p],
           HandlerPhase(o)'
    PROVE  PhaseInv' /\ LifecycleStep
  <1> DEFINE s == records[id].subject
  <1>1. ASSUME NEW x \in Subjects
        PROVE  /\ PhaseOf(x)' = PhaseOf(x)
               /\ OwnerOf(x)' = OwnerOf(x)
               /\ GenerationOf(x)' = GenerationOf(x)
    <2>1. CASE x = s
      BY <2>1, RowSeen, SeenAfter
    <2>2. CASE x # s
      BY <2>2, OthersSeen
    <2> QED BY <2>1, <2>2
  <1>2. Serving' = Serving
    <2>1. \A w \in DOMAIN records : records'[w].subject = records[w].subject
      OBVIOUS
    <2> QED BY <2>1 DEF Serving
  <1>3. RowPhases' /\ ClientPhases'
    BY DEF PhaseInv, RowPhases, ClientPhases
  <1> QED BY <1>1, <1>2, <1>3, SameView, PhaseStep

\* The commit of a callback is the Connect of its subject.
LEMMA CommitPendingSeen ==
    ASSUME IInv, IInv', PhaseInv, NEW o \in Ops, NEW id, id = job[o].account,
           NEW s, s = job[o].subject, CommitPending(o)
    PROVE  PhaseInv' /\ LifecycleStep
  <1>1. /\ pc[o] = "commit" /\ lock = o /\ Invalidate(id)
        /\ s \in Subjects /\ HandlerPhase(o)
        /\ PendingRow(o) \in Record /\ PendingRow(o).subject = s
    BY PendingTarget DEF CommitPending, PhaseInv
  <1>2. CASE Return(o) /\ UNCHANGED records
    BY <1>1, <1>2, ReturnSeen
  <1>3. CASE Commit(id, PendingRow(o)) /\ Goto(o, "put")
    <2>1. /\ Owners(s) \subseteq {id}
          /\ DOMAIN records' = DOMAIN records \cup {id}
          /\ \A w \in DOMAIN records \ {id} : records'[w] = records[w]
          /\ records'[id].subject = s
          /\ records'[id].state = "pending"
          /\ records'[id].principal = IF id \in DOMAIN records
                                        THEN records[id].principal ELSE job[o].principal
          /\ records'[id].generation = IF id \in DOMAIN records
                                         THEN records[id].generation + 1 ELSE 1
      BY <1>1, <1>3, PendingWritten
    <2>2. id \in DOMAIN records => /\ records[id].subject = s
                                   /\ records[id].state # "disconnecting"
      BY <1>1, PendingTarget DEF HandlerPhase, AwaitsCommit
    <2>3. records'[id].principal \in Principals
      <3>1. records'[id] \in Record
        BY <2>1 DEF IInv, TypeOK, IsMap
      <3> QED BY <3>1 DEF Record
    <2> DEFINE p == records'[id].principal
    <2>4. /\ PhaseOf(s)' = "pending" /\ OwnerOf(s)' = p
          /\ GenerationOf(s)' = records'[id].generation
      BY <2>1, SeenAfter
    <2>5. /\ PhaseOf(s) # "disconnecting"
          /\ PhaseOf(s) = "absent" \/ OwnerOf(s) = p
          /\ GenerationOf(s)' = GenerationOf(s) + 1
      <3>1. CASE id \in DOMAIN records
        BY <2>1, <2>2, <2>4, <3>1, RowSeen
      <3>2. CASE id \notin DOMAIN records
        <4>1. Owners(s) = {}
          BY <2>1, <3>2 DEF Owners
        <4>2. PhaseOf(s) = "absent" /\ GenerationOf(s) = 0
          BY <4>1, AbsentSeen
        <4> QED BY <2>1, <2>4, <3>2, <4>2
      <3> QED BY <3>1, <3>2
    <2>6. \A x \in Subjects \ {s} : /\ PhaseOf(x)' = PhaseOf(x)
                                    /\ OwnerOf(x)' = OwnerOf(x)
                                    /\ GenerationOf(x)' = GenerationOf(x)
      BY <2>1, <2>2, OthersSeen
    <2>7. Serving' = Serving \ {s}
      BY <1>1, <2>1, <2>2, ServingEnds
    <2>8. Lifecycle!Connect(s, p)
      <3> HIDE DEF p
      <3>1. /\ [x \in Subjects |-> PhaseOf(x)]' =
                  [[x \in Subjects |-> PhaseOf(x)] EXCEPT ![s] = "pending"]
            /\ \A q : OwnerOf(s)' = q =>
                 [x \in Subjects |-> OwnerOf(x)]' =
                    [[x \in Subjects |-> OwnerOf(x)] EXCEPT ![s] = q]
            /\ \A g : GenerationOf(s)' = g =>
                 [x \in Subjects |-> GenerationOf(x)]' =
                    [[x \in Subjects |-> GenerationOf(x)] EXCEPT ![s] = g]
        BY <1>1, <2>4, <2>6, OneSubjectMoves
      <3>2. /\ [x \in Subjects |-> OwnerOf(x)]' =
                  [[x \in Subjects |-> OwnerOf(x)] EXCEPT ![s] = p]
            /\ [x \in Subjects |-> GenerationOf(x)]' =
                  [[x \in Subjects |-> GenerationOf(x)] EXCEPT ![s] = GenerationOf(s) + 1]
        BY <2>4, <2>5, <3>1
      <3> QED BY <1>1, <2>5, <2>7, <3>1, <3>2 DEF Lifecycle!Connect, Lifecycle!Renew
    <2>9. LifecycleStep
      <3>1. \E q \in Principals : Lifecycle!Connect(s, q)
        BY <2>3, <2>8
      <3> QED BY <1>1, <3>1 DEF LifecycleStep, Lifecycle!Next
    <2>10. RowPhases' /\ ClientPhases'
      <3>1. records'[id].generation # 0
        BY <2>1, TypesNow
      <3>2. DOMAIN clients' = DOMAIN clients \ {id}
        BY <1>1 DEF Invalidate, DropKey
      <3> QED BY <2>1, <3>1, <3>2 DEF PhaseInv, RowPhases, ClientPhases
    <2>11. /\ pc'[o] = "put" /\ job'[o] = job[o]
           /\ \A q \in Ops \ {o} : pc'[q] = pc[q] /\ job'[q] = job[q]
      BY <1>3, GotoMoves
    <2>12. HandlerPhase(o)'
      BY <2>1, <2>11 DEF HandlerPhase, AwaitsCommit, Fencing, Settling
    <2> QED BY <1>1, <2>9, <2>10, <2>11, <2>12, PhaseStep
  <1> QED BY <1>2, <1>3 DEF CommitPending

\* The activation of a row is the Activate of its subject.
LEMMA ActivateSeen ==
    ASSUME IInv, IInv', PhaseInv, NEW o \in Ops, NEW id, id = job[o].account,
           NEW s, s = records[id].subject, Activate(o)
    PROVE  PhaseInv' /\ LifecycleStep
  <1> DEFINE rec == [records[id] EXCEPT !.state = "active"]
  <1>1. /\ pc[o] = "activate" /\ lock = o /\ pc[o] \in OnRow /\ UNCHANGED clients
        /\ id \in DOMAIN records /\ records[id] \in Record /\ s \in Subjects
        /\ records[id].state = "pending" /\ records[id].generation # 0
    BY HandlerNow, TypesNow
    DEF Activate, Holding, OnRow, PCs, PhaseInv, HandlerPhase, RowPhases
  <1>2. CASE Return(o) /\ UNCHANGED records
    BY <1>1, <1>2, ReturnSeen
  <1>3. CASE /\ Commit(id, rec)
             /\ pc' = [pc EXCEPT ![o] = IF InDebt(id) THEN "settle" ELSE "finish"]
             /\ job' = [job EXCEPT ![o].after = "finish"]
    <2>1. /\ rec \in Record /\ rec.subject = records[id].subject
          /\ rec.principal = records[id].principal
          /\ rec.state = "active" /\ rec.generation = records[id].generation
      BY <1>1 DEF Record
    <2>2. rec.subject = records[job[o].account].subject /\ Commit(job[o].account, rec)
      BY <1>3, <2>1
    <2> HIDE DEF rec
    <2>3. /\ DOMAIN records' = DOMAIN records
          /\ \A w \in DOMAIN records \ {id} : records'[w] = records[w]
          /\ records'[id].subject = s
          /\ records'[id].principal = records[id].principal
          /\ records'[id].state = "active"
          /\ records'[id].generation = records[id].generation
      BY <1>1, <2>1, <2>2, RowWritten, TypesNow
    <2>4. /\ PhaseOf(s) = "pending" /\ PhaseOf(s)' = "active"
          /\ OwnerOf(s)' = OwnerOf(s) /\ GenerationOf(s)' = GenerationOf(s)
      BY <1>1, <2>3, RowSeen, SeenAfter
    <2>5. \A x \in Subjects \ {s} : /\ PhaseOf(x)' = PhaseOf(x)
                                    /\ OwnerOf(x)' = OwnerOf(x)
                                    /\ GenerationOf(x)' = GenerationOf(x)
      BY <1>1, <2>3, OthersSeen
    <2>6. Serving' = Serving
      <3>1. \A w \in DOMAIN records : records'[w].subject = records[w].subject
        BY <2>3
      <3> QED BY <1>1, <2>3, <3>1 DEF Serving
    <2>7. Lifecycle!Activate(s)
      <3>1. [x \in Subjects |-> PhaseOf(x)]' =
               [[x \in Subjects |-> PhaseOf(x)] EXCEPT ![s] = "active"]
        BY <1>1, <2>4, <2>5, OneSubjectMoves
      <3>2. /\ [x \in Subjects |-> OwnerOf(x)]' = [x \in Subjects |-> OwnerOf(x)]
            /\ [x \in Subjects |-> GenerationOf(x)]' = [x \in Subjects |-> GenerationOf(x)]
        BY <2>4, <2>5
      <3> QED BY <1>1, <2>4, <2>6, <3>1, <3>2 DEF Lifecycle!Activate
    <2>8. LifecycleStep
      BY <1>1, <2>7 DEF LifecycleStep, Lifecycle!Next
    <2>9. RowPhases' /\ ClientPhases'
      BY <1>1, <2>3 DEF PhaseInv, RowPhases, ClientPhases
    <2>10. /\ pc'[o] \in {"settle", "finish"} /\ job'[o].after = "finish"
           /\ \A p \in Ops \ {o} : pc'[p] = pc[p] /\ job'[p] = job[p]
      BY <1>3, HandlerNow DEF Job
    <2>11. HandlerPhase(o)'
      BY <2>10 DEF HandlerPhase, AwaitsCommit, Fencing, Settling
    <2> QED BY <1>1, <2>8, <2>9, <2>10, <2>11, PhaseStep
  <1> QED BY <1>2, <1>3 DEF Activate

\* The commit that fences a row is the BeginDisconnect of its subject.
LEMMA MarkSeen ==
    ASSUME IInv, IInv', PhaseInv, NEW o \in Ops, NEW id, id = job[o].account,
           NEW s, s = records[id].subject, MarkDisconnecting(o)
    PROVE  PhaseInv' /\ LifecycleStep
  <1> DEFINE plan == job[o].plan
             rec == [records[id] EXCEPT !.state = "disconnecting", !.generation = 0,
                       !.revokeEpoch = epochs[records[id].subject],
                       !.cleanup = RevokeOf(records[id].email, "")]
  <1>1. /\ pc[o] = "mark" /\ lock = o /\ pc[o] \in OnRow
        /\ id \in DOMAIN records /\ records[id] \in Record /\ s \in Subjects
        /\ records[id].state # "disconnecting"
    BY HandlerNow, TypesNow
    DEF MarkDisconnecting, Holding, OnRow, PCs, PhaseInv, HandlerPhase, Fencing
  <1>2. CASE Return(o) /\ UNCHANGED <<records, clients>>
    BY <1>2, ReturnSeen
  <1>3. CASE /\ Commit(id, rec) /\ Fenced(o, id, plan)
             /\ job' = [job EXCEPT ![o] = IF plan = "idle" THEN NoJob ELSE @]
    <2>1. /\ rec \in Record /\ rec.subject = records[id].subject
          /\ rec.principal = records[id].principal
          /\ rec.state = "disconnecting" /\ rec.generation = 0
      <3>1. RevokeOf(records[id].email, "") \in Cleanup
        BY <1>1 DEF Record, RevokeOf, Cleanup
      <3>2. epochs[records[id].subject] \in Nat
        BY <1>1, TypesNow
      <3> QED BY <1>1, <3>1, <3>2 DEF Record
    <2>2. rec.subject = records[job[o].account].subject /\ Commit(job[o].account, rec)
      BY <1>3, <2>1
    <2> HIDE DEF rec
    <2>3. /\ DOMAIN records' = DOMAIN records
          /\ \A w \in DOMAIN records \ {id} : records'[w] = records[w]
          /\ records'[id].subject = s
          /\ records'[id].principal = records[id].principal
          /\ records'[id].state = "disconnecting"
          /\ records'[id].generation = records[id].generation + 1
      BY <1>1, <2>1, <2>2, RowWritten
    <2>4. /\ PhaseOf(s) \in {"pending", "active"} /\ PhaseOf(s)' = "disconnecting"
          /\ OwnerOf(s)' = OwnerOf(s) /\ GenerationOf(s)' = GenerationOf(s) + 1
          /\ Owners(s) = {id}
      <3>1. records[id].state \in {"active", "pending", "disconnecting"}
        BY <1>1 DEF Record
      <3> QED BY <1>1, <2>3, <3>1, RowSeen, SeenAfter
    <2>5. \A x \in Subjects \ {s} : /\ PhaseOf(x)' = PhaseOf(x)
                                    /\ OwnerOf(x)' = OwnerOf(x)
                                    /\ GenerationOf(x)' = GenerationOf(x)
      BY <1>1, <2>3, OthersSeen
    <2>6. Invalidate(id) /\ Serving' = Serving \ {s}
      <3>1. Invalidate(id)
        BY <1>3 DEF Fenced
      <3> QED BY <2>3, <2>4, <3>1, ServingEnds
    <2>7. Lifecycle!BeginDisconnect(s)
      <3>1. /\ [x \in Subjects |-> PhaseOf(x)]' =
                  [[x \in Subjects |-> PhaseOf(x)] EXCEPT ![s] = "disconnecting"]
            /\ [x \in Subjects |-> GenerationOf(x)]' =
                  [[x \in Subjects |-> GenerationOf(x)] EXCEPT ![s] = GenerationOf(s) + 1]
        BY <1>1, <2>4, <2>5, OneSubjectMoves
      <3>2. [x \in Subjects |-> OwnerOf(x)]' = [x \in Subjects |-> OwnerOf(x)]
        BY <2>4, <2>5
      <3> QED BY <1>1, <2>4, <2>6, <3>1, <3>2 DEF Lifecycle!BeginDisconnect, Lifecycle!Renew
    <2>8. LifecycleStep
      BY <1>1, <2>7 DEF LifecycleStep, Lifecycle!Next
    <2>9. RowPhases' /\ ClientPhases'
      <3>1. records'[id].generation # 0
        BY <1>1, <2>3, TypesNow
      <3>2. DOMAIN clients' = DOMAIN clients \ {id}
        BY <2>6 DEF Invalidate, DropKey
      <3> QED BY <2>3, <3>1, <3>2 DEF PhaseInv, RowPhases, ClientPhases
    <2>10. /\ pc'[o] = plan /\ plan \in {"idle", "revoke", "relock"}
           /\ \A p \in Ops \ {o} : pc'[p] = pc[p] /\ job'[p] = job[p]
      BY <1>3, HandlerNow DEF Fenced, Job
    <2> QED BY <1>1, <2>8, <2>9, <2>10, NoPhase, PhaseStep
  <1> QED BY <1>2, <1>3 DEF MarkDisconnecting

\* The commits that clear a debt, or note a revoke done, are not seen.
LEMMA BookkeepingSeen ==
    ASSUME IInv, IInv', PhaseInv, NEW o \in Ops, NEW id, id = job[o].account,
           SettleCommit(o) \/ RecordLocalStage(o)
    PROVE  PhaseInv' /\ LifecycleStep
  <1>1. /\ pc[o] \in {"settled", "stage"} /\ lock = o /\ pc[o] \in OnRow
        /\ UNCHANGED clients /\ HandlerPhase(o)
        /\ id \in DOMAIN records /\ records[id] \in Record
        /\ records[id].generation \in Nat /\ records[id].generation # 0
    BY HandlerNow, TypesNow
    DEF SettleCommit, RecordLocalStage, Holding, OnRow, PCs, PhaseInv, RowPhases
  <1>2. ASSUME NEW c \in Cleanup, Commit(id, [records[id] EXCEPT !.cleanup = c])
        PROVE  /\ DOMAIN records' = DOMAIN records
               /\ \A w \in DOMAIN records \ {id} : records'[w] = records[w]
               /\ records'[id].subject = records[id].subject
               /\ records'[id].principal = records[id].principal
               /\ records'[id].state = records[id].state
               /\ records'[id].generation = records[id].generation
    <2> DEFINE rec == [records[id] EXCEPT !.cleanup = c]
    <2>1. /\ rec \in Record /\ rec.subject = records[id].subject
          /\ rec.principal = records[id].principal
          /\ rec.state = records[id].state /\ rec.generation = records[id].generation
      BY <1>1 DEF Record
    <2>2. rec.subject = records[job[o].account].subject /\ Commit(job[o].account, rec)
      BY <1>2, <2>1
    <2> HIDE DEF rec
    <2> QED BY <1>1, <2>1, <2>2, RowWritten
  <1>3. CASE Return(o) /\ UNCHANGED records
    BY <1>1, <1>3, ReturnSeen
  <1>4. CASE Goto(o, job[o].after) /\ job[o].after \in {"finish", "list"} /\ UNCHANGED records
    BY <1>1, <1>4, GotoMoves, NoPhase, ReadStep
  <1>5. CASE /\ pc[o] = "settled" /\ Goto(o, job[o].after)
             /\ Commit(id, [records[id] EXCEPT !.cleanup = NoCleanup])
    <2>1. NoCleanup \in Cleanup
      BY DEF NoCleanup, Cleanup
    <2>2. job[o].after \in {"commit", "finish", "bump", "list"}
      BY <1>5, HandlerNow DEF HandlerKnows, Learnt, Job
    <2>3. /\ pc'[o] = job[o].after /\ job'[o] = job[o]
          /\ \A p \in Ops \ {o} : pc'[p] = pc[p] /\ job'[p] = job[p]
      BY <1>5, GotoMoves
    <2>4. /\ DOMAIN records' = DOMAIN records
          /\ \A w \in DOMAIN records \ {id} : records'[w] = records[w]
          /\ records'[id].subject = records[id].subject
          /\ records'[id].principal = records[id].principal
          /\ records'[id].state = records[id].state
          /\ records'[id].generation = records[id].generation
      BY <1>2, <1>5, <2>1
    <2>5. HandlerPhase(o)'
      BY <1>1, <1>5, <2>2, <2>3, <2>4 DEF HandlerPhase, AwaitsCommit, Fencing, Settling
    <2> QED BY <1>1, <2>3, <2>4, <2>5, SameViewCommit
  <1>6. CASE /\ pc[o] = "stage" /\ Goto(o, "complete")
             /\ Commit(id, [records[id] EXCEPT !.cleanup = RevokeOf(records[id].email, "local")])
    <2>1. RevokeOf(records[id].email, "local") \in Cleanup
      BY <1>1 DEF Record, RevokeOf, Cleanup
    <2>2. /\ pc'[o] = "complete"
          /\ \A p \in Ops \ {o} : pc'[p] = pc[p] /\ job'[p] = job[p]
      BY <1>6, GotoMoves
    <2>3. /\ DOMAIN records' = DOMAIN records
          /\ \A w \in DOMAIN records \ {id} : records'[w] = records[w]
          /\ records'[id].subject = records[id].subject
          /\ records'[id].principal = records[id].principal
          /\ records'[id].state = records[id].state
          /\ records'[id].generation = records[id].generation
      BY <1>2, <1>6, <2>1
    <2> QED BY <1>1, <2>2, <2>3, NoPhase, SameViewCommit
  <1> QED BY <1>3, <1>4, <1>5, <1>6 DEF SettleCommit, RecordLocalStage, StillPending

\* The removal of a row is the Forget of its subject.
LEMMA DeleteRecordSeen ==
    ASSUME IInv, IInv', DebtInv, PhaseInv, NEW o \in Ops, NEW id, id = job[o].account,
           NEW s, s = records[id].subject, DeleteRecord(o)
    PROVE  PhaseInv' /\ LifecycleStep
  <1>1. /\ pc[o] = "delete_record" /\ lock = o /\ Return(o) /\ UNCHANGED clients
        /\ id \in DOMAIN records /\ records[id].state = "disconnecting" /\ s \in Subjects
    BY HandlerNow, TypesNow
    DEF DeleteRecord, Holding, OnRow, PCs, DebtInv, HandlerDebts, Removing
  <1>2. CASE UNCHANGED records
    BY <1>1, <1>2, ReturnSeen
  <1>3. CASE records' = DropKey(records, id)
    <2>1. /\ DOMAIN records' = DOMAIN records \ {id}
          /\ \A w \in DOMAIN records \ {id} : records'[w] = records[w]
      BY <1>3 DEF DropKey
    <2>2. Owners(s) = {id} /\ PhaseOf(s) = "disconnecting"
      BY <1>1, RowSeen
    <2>3. Owners(s)' = {}
      BY <2>1, <2>2 DEF Owners
    <2>4. PhaseOf(s)' = "absent" /\ OwnerOf(s)' = Nobody /\ GenerationOf(s)' = 0
      BY <2>3, SeenAfter
    <2>5. \A x \in Subjects \ {s} : /\ PhaseOf(x)' = PhaseOf(x)
                                    /\ OwnerOf(x)' = OwnerOf(x)
                                    /\ GenerationOf(x)' = GenerationOf(x)
      BY <1>1, <2>1, OthersSeen
    <2>6. id \notin DOMAIN clients /\ Serving' = Serving
      <3>1. id \notin DOMAIN clients
        BY <1>1 DEF PhaseInv, ClientPhases
      <3> QED BY <1>1, <2>1, <3>1 DEF Serving
    <2>7. Lifecycle!Forget(s)
      <3>1. /\ [x \in Subjects |-> PhaseOf(x)]' =
                  [[x \in Subjects |-> PhaseOf(x)] EXCEPT ![s] = "absent"]
            /\ [x \in Subjects |-> OwnerOf(x)]' =
                  [[x \in Subjects |-> OwnerOf(x)] EXCEPT ![s] = Nobody]
            /\ [x \in Subjects |-> GenerationOf(x)]' =
                  [[x \in Subjects |-> GenerationOf(x)] EXCEPT ![s] = 0]
        BY <1>1, <2>4, <2>5, OneSubjectMoves
      <3> QED BY <1>1, <2>2, <2>6, <3>1 DEF Lifecycle!Forget
    <2>8. LifecycleStep
      BY <1>1, <2>7 DEF LifecycleStep, Lifecycle!Next
    <2>9. RowPhases' /\ ClientPhases'
      BY <1>1, <2>1, <2>6 DEF PhaseInv, RowPhases, ClientPhases
    <2> QED BY <1>1, <2>8, <2>9, ReturnMoves, NoPhase, PhaseStep
  <1> QED BY <1>2, <1>3 DEF DeleteRecord

(***************************************************************************)
(* Every step                                                              *)
(***************************************************************************)

\* A step that leaves every handler and the registry alone and caches no client.
LEMMA QuietSeen ==
    ASSUME IInv, PhaseInv, UNCHANGED <<records, pc, job>>,
           DOMAIN clients' \subseteq DOMAIN clients
    PROVE  PhaseInv' /\ LifecycleStep
  <1>1. \A o \in Ops : HandlerPhase(o)'
    BY DEF PhaseInv, HandlerPhase, AwaitsCommit, Fencing, Settling
  <1> QED BY <1>1, SameRowsSeen DEF PhaseInv

\* A client cached for a row is the Serve of its subject.
LEMMA UseClientSeen ==
    ASSUME IInv, PhaseInv, NEW id, NEW s, s = records[id].subject, UseClient(id)
    PROVE  PhaseInv' /\ LifecycleStep
  <1>1. /\ UNCHANGED <<records, pc, job>> /\ id \in DOMAIN records
        /\ records[id].state = "active" /\ DOMAIN clients' = DOMAIN clients \cup {id}
    BY DEF UseClient, durable, SetKey
  <1>2. s \in Subjects /\ PhaseOf(s) = "active"
    BY <1>1, RowSeen
  <1>3. Serving' = Serving \cup {s}
    BY <1>1 DEF Serving
  <1>4. \A x \in Subjects : /\ PhaseOf(x)' = PhaseOf(x)
                            /\ OwnerOf(x)' = OwnerOf(x)
                            /\ GenerationOf(x)' = GenerationOf(x)
    BY <1>1 DEF PhaseOf, OwnerOf, GenerationOf, RowOf, Owners
  <1>5. Lifecycle!Serve(s)
    <2>1. /\ [x \in Subjects |-> PhaseOf(x)]' = [x \in Subjects |-> PhaseOf(x)]
          /\ [x \in Subjects |-> OwnerOf(x)]' = [x \in Subjects |-> OwnerOf(x)]
          /\ [x \in Subjects |-> GenerationOf(x)]' = [x \in Subjects |-> GenerationOf(x)]
      BY <1>4
    <2> QED BY <1>2, <1>3, <2>1 DEF Lifecycle!Serve
  <1>6. LifecycleStep
    BY <1>2, <1>5 DEF LifecycleStep, Lifecycle!Next
  <1>7. PhaseInv'
    <2>1. \A o \in Ops : HandlerPhase(o)'
      BY <1>1 DEF PhaseInv, HandlerPhase, AwaitsCommit, Fencing, Settling
    <2>2. RowPhases' /\ ClientPhases'
      BY <1>1 DEF PhaseInv, RowPhases, ClientPhases
    <2> QED BY <2>1, <2>2 DEF PhaseInv
  <1> QED BY <1>6, <1>7

\* A restart ends every handler and every serving.
LEMMA RestartSeen ==
    ASSUME IInv, PhaseInv, Restart
    PROVE  PhaseInv' /\ LifecycleStep
  <1>1. UNCHANGED records /\ DOMAIN clients' = {} /\ \A o \in Ops : pc'[o] = "idle"
    BY EmptyIsMap DEF Restart, durable
  <1>2. \A o \in Ops : HandlerPhase(o)'
    BY <1>1, NoPhase
  <1> QED BY <1>1, <1>2, SameRowsSeen DEF PhaseInv

\* Every step of the controller keeps the invariant of the phases and is a
\* step of the lifecycle, or none.
LEMMA NextSeen ==
    IInv /\ IInv' /\ DebtInv /\ PhaseInv /\ [Next]_vars => PhaseInv' /\ LifecycleStep
  <1> SUFFICES ASSUME IInv, IInv', DebtInv, PhaseInv, [Next]_vars
               PROVE  PhaseInv' /\ LifecycleStep
    OBVIOUS
  <1>1. ASSUME NEW o \in Ops, CallbackStep(o) PROVE PhaseInv' /\ LifecycleStep
    BY <1>1, OtherReadersSeen, LockCallbackSeen, CommitPendingSeen, ActivateSeen
    DEF CallbackStep
  <1>2. ASSUME NEW o \in Ops, SettleStep(o) PROVE PhaseInv' /\ LifecycleStep
    BY <1>2, OtherReadersSeen, BookkeepingSeen, ListSeen DEF SettleStep
  <1>3. ASSUME NEW o \in Ops, DisconnectStep(o) PROVE PhaseInv' /\ LifecycleStep
    BY <1>3, OtherReadersSeen, MarkSeen, BookkeepingSeen, DeleteRecordSeen
    DEF DisconnectStep
  <1>4. ASSUME NEW o \in Ops, NEW p \in Principals,
               ListAccounts(o, p) \/ \E id \in AccountIds : Disconnect(o, p, id)
        PROVE  PhaseInv' /\ LifecycleStep
    BY <1>4, ListSeen, DisconnectSeen
  <1>5. ASSUME NEW o \in Ops, GiveUp(o) \/ \E k \in 1 .. MaxSessions : TakeSession(o, k)
        PROVE  PhaseInv' /\ LifecycleStep
    BY <1>5, OtherReadersSeen
  <1>6. CASE \/ \E p \in Principals :
                   StartConnect(p) \/ \E id \in AccountIds : StartReconnect(p, id)
             \/ \E k \in 1 .. MaxSessions : ExpireSession(k)
             \/ UNCHANGED vars
    <2>1. UNCHANGED <<records, pc, job>> /\ DOMAIN clients' \subseteq DOMAIN clients
      BY <1>6 DEF StartConnect, StartReconnect, NewSession, ExpireSession, vars, durable
    <2> QED BY <2>1, QuietSeen
  <1>7. CASE (\E id \in AccountIds : UseClient(id)) \/ Restart
    BY <1>7, UseClientSeen, RestartSeen
  <1>8. CASE Next
    BY <1>1, <1>2, <1>3, <1>4, <1>5, <1>6, <1>7, <1>8 DEF Next, Step
  <1> QED BY <1>6, <1>8

\* Where the program starts, no subject is connected.
LEMMA InitSeen == Init => PhaseInv /\ Lifecycle!Init
  <1> SUFFICES ASSUME Init PROVE PhaseInv /\ Lifecycle!Init
    OBVIOUS
  <1>1. DOMAIN records = {} /\ DOMAIN clients = {}
    BY EmptyIsMap DEF Init
  <1>2. \A o \in Ops : HandlerPhase(o)
    BY DEF Init, HandlerPhase, AwaitsCommit, Fencing, Settling
  <1>3. \A s : PhaseOf(s) = "absent" /\ OwnerOf(s) = Nobody /\ GenerationOf(s) = 0
    BY <1>1, AbsentSeen DEF Owners
  <1>4. Serving = {}
    BY <1>1 DEF Serving
  <1> QED BY <1>1, <1>2, <1>3, <1>4
          DEF PhaseInv, RowPhases, ClientPhases, Lifecycle!Init

(***************************************************************************)
(* The theorems                                                            *)
(***************************************************************************)

\* The invariant of the phases holds in every reachable state.
THEOREM PhasesInductive == Spec => []PhaseInv
  BY InitSeen, NextSeen, Inductive, DebtsInductive, PTL DEF Spec

\* The controller implements the lifecycle: whatever callbacks, disconnects,
\* listings, failed writes and restarts overlap, and whatever addresses Google
\* reports, each subject has one connection with one owner, its generation
\* grows with every consent and disconnect, no disconnect is undone before the
\* row is gone, and clients are served for active connections only and dropped
\* by the next change (Controller, FileRegistry, InvalidateAccount).
THEOREM ControllerImplementsLifecycle == Spec => ImplementsLifecycle
  <1>1. Init => Lifecycle!Init
    BY InitSeen
  <1>2. IInv /\ IInv' /\ DebtInv /\ PhaseInv /\ [Next]_vars
          => [Lifecycle!Next]_(Lifecycle!vars)
    BY NextSeen DEF LifecycleStep
  <1> QED BY <1>1, <1>2, Inductive, DebtsInductive, PhasesInductive, PTL
          DEF Spec, ImplementsLifecycle, Lifecycle!Spec

=============================================================================
