-------------------------- MODULE AccountTokensProofs --------------------------
(***************************************************************************)
(* Theorems about the refresh tokens of AccountConnect: every stored token *)
(* can be reached from the registry, and, where no address ever changes    *)
(* hands between two Google subjects, an active connection has a live      *)
(* token of its own, a cached client is current and a failed disconnect    *)
(* keeps the token of its retry.                                           *)
(*                                                                         *)
(* Two inductive invariants carry them.  DebtInv is about the addresses    *)
(* rows and their cleanup debts name and needs no assumption.  TokenInv is *)
(* about what the tokens are worth and is stated under OwnAddresses: with  *)
(* a reassigned address the debt of one account is the address of another  *)
(* and settling it deletes a token in use.                                 *)
(***************************************************************************)
EXTENDS AccountConnectProofs

(***************************************************************************)
(* The invariant of the debts                                              *)
(***************************************************************************)

Settling(o) == pc[o] \in {"settle", "settled"}
Removing(o) == pc[o] \in {"stage", "complete", "delete_token", "delete_record"}

\* a disconnect starts with the debts of its row settled
RowDebts == \A id \in DOMAIN records : records[id].state = "disconnecting" => ~ InDebt(id)

\* what a handler under the lock has established about the row it works on
HandlerDebts(o) ==
    LET id == job[o].account IN
    /\ Settling(o) => InDebt(id)
    /\ pc[o] = "settled" => records[id].cleanup.email \notin DOMAIN tokens
    /\ pc[o] = "commit" /\ id \in DOMAIN records => ~ InDebt(id)
    /\ pc[o] \in {"bump", "mark"} => ~ InDebt(id)
    /\ Removing(o) => records[id].state = "disconnecting"
    /\ pc[o] = "delete_record" => records[id].email \notin DOMAIN tokens
    /\ Lists(o) => \A d \in job[o].todo : InDebt(d)
    /\ Lists(o) /\ Settling(o) => id \notin job[o].todo

DebtInv ==
    /\ NoStrandedToken
    /\ RowDebts
    /\ \A o \in Ops : HandlerDebts(o)

(***************************************************************************)
(* The invariant of the tokens                                             *)
(***************************************************************************)

\* No address is ever reported for two subjects.
OwnAddresses == \A s, t \in Subjects : s # t => EmailsOf[s] \cap EmailsOf[t] = {}

\* the token stored for the row, if any, is dead at Google
Spent(id) == records[id].email \in DOMAIN tokens => ~ Live(tokens[records[id].email])

RowSound(id) ==
    LET row == records[id] IN
    /\ row.email \in EmailsOf[row.subject]
    /\ row.generation # 0
    /\ InDebt(id) => row.cleanup.email \in EmailsOf[row.subject] \ {row.email}
    /\ row.state = "active" => row.email \in DOMAIN tokens
    /\ row.state # "disconnecting" /\ row.email \in DOMAIN tokens => Live(tokens[row.email])
    /\ LocalStage(row) => Spent(id)

\* no token belongs to a grant that is still to come
GrantKnown(t) == t.grant =< grant[t.subject]

TokenSound(e) == e \in EmailsOf[tokens[e].subject] /\ GrantKnown(tokens[e])

ClientSound(id) ==
    /\ id \in DOMAIN records
    /\ records[id].state = "active"
    /\ records[id].generation = clients[id].generation
    /\ records[id].email \in DOMAIN tokens
    /\ tokens[records[id].email] = clients[id].token

\* the row of s is being removed, and the bump that precedes its removal is to come
Ending(s) ==
    \E id \in Owners(s) :
        /\ records[id].state = "disconnecting"
        /\ \A o \in Ops : pc[o] \in {"delete_token", "delete_record"} => job[o].account # id

\* What a callback knows of its token: should the epoch still be the one read
\* before the exchange, only a disconnect that bumps it again can kill the token.
CallbackSound(o) ==
    LET s == job[o].subject
        t == job[o].token
    IN  /\ pc[o] \in {"exchange", "callback"} =>
              \A x \in Subjects : job[o].before[x] =< epochs[x]
        /\ pc[o] = "callback" /\ t # NoToken =>
              t.subject = s /\ (job[o].before[s] = epochs[s] => Live(t) \/ Ending(s))

\* A callback past the checks made under the lock has a live token, or its
\* commit will clash with the row of another principal.
CommitSound(o) ==
    LET id == job[o].account
        t  == job[o].token
    IN  /\ pc[o] = "callback" \/ AwaitsCommit(o) => job[o].email \in EmailsOf[job[o].subject]
        /\ AwaitsCommit(o) =>
              /\ t.subject = job[o].subject
              /\ id \in DOMAIN records => records[id].state # "disconnecting"
              /\ Live(t) \/ (id \notin DOMAIN records /\ Owners(job[o].subject) # {})
        /\ pc[o] = "put" => /\ records[id].state = "pending"
                            /\ t.subject = records[id].subject
                            /\ Live(t)
        /\ pc[o] = "activate" => /\ records[id].state = "pending"
                                 /\ records[id].email \in DOMAIN tokens

\* inside the first critical section of a disconnect
Fencing(o) == pc[o] \in {"bump", "mark"} \/ (Settling(o) /\ job[o].after = "bump")

\* A disconnect holds the token stored for its row, knows that there is none,
\* or has come past the revoke of it.
DisconnectSound(o) ==
    LET id == job[o].account
        t  == job[o].token
    IN  /\ Fencing(o) =>
              /\ job[o].plan = "revoke" => /\ records[id].email \in DOMAIN tokens
                                           /\ t = tokens[records[id].email]
              /\ job[o].plan = "relock" => records[id].email \notin DOMAIN tokens
        /\ pc[o] \in {"revoke", "relock"} =>
              /\ id \in 1 .. nextAccount
              /\ id \in DOMAIN records => records[id].state = "disconnecting"
        /\ pc[o] = "revoke" =>
              /\ t \in Token
              /\ id \in DOMAIN records /\ records[id].email \in DOMAIN tokens
                    => tokens[records[id].email] = t
              /\ Live(t) => id \in DOMAIN records /\ records[id].email \in DOMAIN tokens
        /\ pc[o] = "relock" /\ id \in DOMAIN records => Spent(id)
        /\ Removing(o) => Spent(id)

HandlerTokens(o) ==
    /\ job[o].token # NoToken => GrantKnown(job[o].token)
    /\ CallbackSound(o)
    /\ CommitSound(o)
    /\ DisconnectSound(o)

\* An AccountID is not given out again while a disconnect still works for it.
FreshAccount ==
    \A o, p \in Ops :
        /\ pc[p] \in {"revoke", "relock"}
        /\ AwaitsCommit(o) /\ job[o].account \notin DOMAIN records
        => job[p].account # job[o].account

TokenInv ==
    /\ \A id \in DOMAIN records : RowSound(id)
    /\ \A e \in DOMAIN tokens : TokenSound(e)
    /\ \A id \in DOMAIN clients : ClientSound(id)
    /\ \A o \in Ops : HandlerTokens(o)
    /\ FreshAccount

(***************************************************************************)
(* What the invariants say before and after a step of one handler          *)
(***************************************************************************)

\* While a handler holds the lifecycle lock no other is in a critical section.
LEMMA OthersOutside ==
    ASSUME IInv, NEW o \in Ops, lock = o, NEW p \in Ops, p # o
    PROVE  pc[p] \notin Holding
  BY HandlerNow

\* A step of handler o keeps the debts of every other handler when it leaves
\* the rows and the tokens alone, or o holds the lock.
LEMMA DebtStep ==
    ASSUME IInv, DebtInv, NEW o \in Ops,
           \A p \in Ops \ {o} : pc'[p] = pc[p] /\ job'[p] = job[p],
           UNCHANGED <<records, tokens>> \/ lock = o,
           HandlerDebts(o)', NoStrandedToken', RowDebts'
    PROVE  DebtInv'
  <1>1. ASSUME NEW p \in Ops, p # o
        PROVE  HandlerDebts(p)'
    <2>1. pc'[p] = pc[p] /\ job'[p] = job[p] /\ HandlerDebts(p)
      BY <1>1 DEF DebtInv
    <2>2. CASE UNCHANGED <<records, tokens>>
      BY <2>1, <2>2 DEF HandlerDebts, Settling, Removing, Lists, InDebt
    <2>3. CASE lock = o
      <3>1. pc'[p] \notin Holding
        BY <1>1, <2>1, <2>3, OthersOutside
      <3> QED BY <3>1 DEF HandlerDebts, Settling, Removing, Lists, Holding, PCs
    <2> QED BY <2>2, <2>3
  <1> QED BY <1>1 DEF DebtInv

\* Moving on, and returning, are steps of one handler.
LEMMA GotoMoves ==
    ASSUME IInv, NEW o \in Ops, NEW x, Goto(o, x)
    PROVE  /\ pc'[o] = x /\ job'[o] = job[o]
           /\ \A p \in Ops \ {o} : pc'[p] = pc[p] /\ job'[p] = job[p]
  BY HandlerNow DEF Goto

\* A return forgets the locals of the handler that returns and of no other.
LEMMA ReturnMoves ==
    ASSUME IInv, NEW o \in Ops, Return(o)
    PROVE  /\ pc'[o] = "idle" /\ job'[o] = NoJob
           /\ \A p \in Ops \ {o} : pc'[p] = pc[p] /\ job'[p] = job[p]
  BY HandlerNow DEF Return

\* The debts survive a step that leaves the rows and the tokens alone.
LEMMA SameDebts ==
    ASSUME DebtInv, UNCHANGED <<records, tokens>>
    PROVE  NoStrandedToken' /\ RowDebts'
  BY DEF DebtInv, NoStrandedToken, RowDebts, InDebt

\* A handler that is outside its critical section has no debts to know of.
LEMMA OutsideDebts ==
    ASSUME NEW o \in Ops, pc'[o] \in {"idle", "exchange", "callback", "revoke", "relock"}
    PROVE  HandlerDebts(o)'
  BY DEF HandlerDebts, Settling, Removing, Lists

(***************************************************************************)
(* The debts: one lemma per kind of step                                   *)
(***************************************************************************)

\* Steps that read the registry and the token store and write neither, and
\* leave the handler outside its critical section.
LEMMA ReadersKeepDebts ==
    ASSUME IInv, DebtInv, NEW o \in Ops,
           \/ \E k \in 1 .. MaxSessions : TakeSession(o, k)
           \/ Exchange(o) \/ GiveUp(o) \/ Revoke(o) \/ FinishCallback(o)
    PROVE  DebtInv'
  <1>1. UNCHANGED <<records, tokens>>
    BY DEF TakeSession, Exchange, GiveUp, Revoke, FinishCallback, durable
  <1>2. /\ pc'[o] \in {"idle", "exchange", "callback", "revoke", "relock"}
        /\ \A p \in Ops \ {o} : pc'[p] = pc[p] /\ job'[p] = job[p]
    <2>1. CASE \E k \in 1 .. MaxSessions : TakeSession(o, k)
      BY <2>1, HandlerNow DEF TakeSession
    <2>2. CASE Exchange(o)
      BY <2>2, HandlerNow DEF Exchange
    <2>3. CASE Return(o)
      BY <2>3, ReturnMoves
    <2>4. CASE Goto(o, "relock")
      BY <2>4, GotoMoves
    <2> QED BY <2>1, <2>2, <2>3, <2>4 DEF GiveUp, Revoke, FinishCallback
  <1> QED BY <1>1, <1>2, SameDebts, OutsideDebts, DebtStep

\* A callback takes the lock at the debt of its row, or at its commit.
LEMMA LockCallbackKeepsDebts ==
    ASSUME IInv, DebtInv, NEW o \in Ops, LockCallback(o)
    PROVE  DebtInv'
  <1> DEFINE id  == Matched(o)
             acc == IF id = 0 THEN nextAccount + 1 ELSE id
             x   == IF id # 0 /\ InDebt(id) THEN "settle" ELSE "commit"
  <1>1. UNCHANGED <<records, tokens>>
    BY DEF LockCallback, durable
  <1>2. CASE CallbackAccepted(o, id)
    <2>1. /\ pc' = [pc EXCEPT ![o] = x]
          /\ job' = [job EXCEPT ![o].account = acc, ![o].token = RefreshOf(o, id),
                                ![o].after = "commit"]
      BY <1>2 DEF LockCallback
    <2>2. /\ pc'[o] = x /\ job'[o].account = acc /\ job'[o].after = "commit"
          /\ \A p \in Ops \ {o} : pc'[p] = pc[p] /\ job'[p] = job[p]
      BY <2>1, HandlerNow DEF Job
    <2>3. \/ id # 0 /\ acc = id
          \/ id = 0 /\ acc \notin DOMAIN records
      BY DEF IInv, IdsMinted, TypeOK
    <2>4. /\ x = "settle" => id # 0 /\ InDebt(id)
          /\ x = "commit" => id = 0 \/ ~ InDebt(id)
          /\ x \in {"settle", "commit"}
      OBVIOUS
    <2> HIDE DEF id, acc, x
    <2>5. HandlerDebts(o)'
      BY <1>1, <2>2, <2>3, <2>4 DEF HandlerDebts, Settling, Removing, Lists, InDebt
    <2> QED BY <1>1, <2>2, <2>5, SameDebts, DebtStep
  <1>3. CASE ~ CallbackAccepted(o, id)
    <2>1. Return(o)
      BY <1>3 DEF LockCallback
    <2> QED BY <1>1, <2>1, ReturnMoves, SameDebts, OutsideDebts, DebtStep
  <1> QED BY <1>2, <1>3

\* A disconnect takes the lock at the debt of its row, or at its bump.
LEMMA DisconnectKeepsDebts ==
    ASSUME IInv, DebtInv, NEW o \in Ops, NEW p \in Principals, NEW id \in AccountIds,
           Disconnect(o, p, id)
    PROVE  DebtInv'
  <1>1. UNCHANGED <<records, tokens>>
    BY DEF Disconnect, durable
  <1>2. \/ \E x \in {"idle", "revoke", "relock"} :
             \E y : pc' = [pc EXCEPT ![o] = x] /\ job' = [job EXCEPT ![o] = y]
        \/ \E y : /\ pc' = [pc EXCEPT ![o] = IF InDebt(id) THEN "settle" ELSE "bump"]
                  /\ job' = [job EXCEPT ![o] = y] /\ y.account = id /\ y.after = "bump"
    <2> DEFINE rec == records[id]
               mine(f) == [NoJob EXCEPT !.principal = p, !.account = id,
                             !.plan = PlanOf(rec, f), !.after = "bump",
                             !.token = IF rec.email \in DOMAIN tokens /\ ~ f
                                         THEN tokens[rec.email] ELSE NoToken]
    <2>1. PICK f \in BOOLEAN :
            IF rec.state = "disconnecting"
              THEN /\ Fenced(o, id, PlanOf(rec, f))
                   /\ job' = [job EXCEPT ![o] = IF PlanOf(rec, f) = "idle"
                                                 THEN NoJob ELSE mine(f)]
              ELSE /\ pc' = [pc EXCEPT ![o] = IF InDebt(id) THEN "settle" ELSE "bump"]
                   /\ job' = [job EXCEPT ![o] = mine(f)]
      BY DEF Disconnect
    <2>2. PlanOf(rec, f) \in {"idle", "revoke", "relock"}
      BY DEF PlanOf
    <2>3. mine(f).account = id /\ mine(f).after = "bump"
      BY DEF NoJob
    <2> HIDE DEF mine
    <2>4. CASE rec.state = "disconnecting"
      BY <2>1, <2>2, <2>4 DEF Fenced
    <2>5. CASE rec.state # "disconnecting"
      BY <2>1, <2>3, <2>5
    <2> QED BY <2>4, <2>5
  <1>3. CASE \E x \in {"idle", "revoke", "relock"} :
               \E y : pc' = [pc EXCEPT ![o] = x] /\ job' = [job EXCEPT ![o] = y]
    <2>1. /\ pc'[o] \in {"idle", "revoke", "relock"}
          /\ \A q \in Ops \ {o} : pc'[q] = pc[q] /\ job'[q] = job[q]
      BY <1>3, HandlerNow
    <2> QED BY <1>1, <2>1, SameDebts, OutsideDebts, DebtStep
  <1>4. ASSUME NEW y, pc' = [pc EXCEPT ![o] = IF InDebt(id) THEN "settle" ELSE "bump"],
               job' = [job EXCEPT ![o] = y], y.account = id, y.after = "bump"
        PROVE  DebtInv'
    <2>1. /\ pc'[o] = IF InDebt(id) THEN "settle" ELSE "bump"
          /\ job'[o] = y
          /\ \A q \in Ops \ {o} : pc'[q] = pc[q] /\ job'[q] = job[q]
      BY <1>4, HandlerNow
    <2>2. HandlerDebts(o)'
      BY <1>1, <1>4, <2>1 DEF HandlerDebts, Settling, Removing, Lists, InDebt
    <2> QED BY <1>1, <2>1, <2>2, SameDebts, DebtStep
  <1> QED BY <1>2, <1>3, <1>4

\* Taking the lock again after the revoke.
LEMMA RelockKeepsDebts ==
    ASSUME IInv, DebtInv, NEW o \in Ops, Relock(o)
    PROVE  DebtInv'
  <1>1. UNCHANGED <<records, tokens>>
    BY DEF Relock, durable
  <1>2. CASE Return(o)
    BY <1>1, <1>2, ReturnMoves, SameDebts, OutsideDebts, DebtStep
  <1>3. CASE Goto(o, "stage") /\ records[job[o].account].state = "disconnecting"
    <2>1. HandlerDebts(o)'
      BY <1>1, <1>3, GotoMoves DEF HandlerDebts, Settling, Removing, Lists, InDebt
    <2> QED BY <1>1, <1>3, <2>1, GotoMoves, SameDebts, DebtStep
  <1> QED BY <1>2, <1>3 DEF Relock

\* The bumps of a disconnect write the epochs only.
LEMMA BumpKeepsDebts ==
    ASSUME IInv, DebtInv, NEW o \in Ops, BumpOnStart(o) \/ BumpOnComplete(o)
    PROVE  DebtInv'
  <1>1. UNCHANGED <<records, tokens>> /\ HandlerDebts(o)
    BY DEF BumpOnStart, BumpOnComplete, DebtInv
  <1>2. CASE Return(o)
    BY <1>1, <1>2, ReturnMoves, SameDebts, OutsideDebts, DebtStep
  <1>3. CASE pc[o] = "bump" /\ Goto(o, "mark")
    <2>1. HandlerDebts(o)'
      BY <1>1, <1>3, GotoMoves DEF HandlerDebts, Settling, Removing, Lists, InDebt
    <2> QED BY <1>1, <1>3, <2>1, GotoMoves, SameDebts, DebtStep
  <1>4. CASE pc[o] = "complete" /\ Goto(o, "delete_token")
    <2>1. HandlerDebts(o)'
      BY <1>1, <1>4, GotoMoves DEF HandlerDebts, Settling, Removing, Lists, InDebt
    <2> QED BY <1>1, <1>4, <2>1, GotoMoves, SameDebts, DebtStep
  <1> QED BY <1>2, <1>3, <1>4 DEF BumpOnStart, BumpOnComplete

\* A listing takes the lock with the rows in debt as its list.
LEMMA ListAccountsKeepsDebts ==
    ASSUME IInv, DebtInv, NEW o \in Ops, NEW p \in Principals, ListAccounts(o, p)
    PROVE  DebtInv'
  <1> DEFINE debts == {id \in DOMAIN records : Owned(id, p) /\ InDebt(id)}
             y == [NoJob EXCEPT !.principal = p, !.after = "list", !.todo = debts]
  <1>1. UNCHANGED <<records, tokens>>
    BY DEF ListAccounts, durable
  <1>2. CASE UNCHANGED <<lock, pc, job>>
    <2>1. HandlerDebts(o)'
      BY <1>1, <1>2 DEF DebtInv, HandlerDebts, Settling, Removing, Lists, InDebt
    <2> QED BY <1>1, <1>2, <2>1, SameDebts, DebtStep
  <1>3. CASE pc' = [pc EXCEPT ![o] = "list"] /\ job' = [job EXCEPT ![o] = y]
    <2>1. y.todo = debts
      BY DEF NoJob
    <2> HIDE DEF y
    <2>2. /\ pc'[o] = "list" /\ job'[o] = y
          /\ \A q \in Ops \ {o} : pc'[q] = pc[q] /\ job'[q] = job[q]
      BY <1>3, HandlerNow
    <2>3. HandlerDebts(o)'
      BY <1>1, <2>1, <2>2 DEF HandlerDebts, Settling, Removing, Lists, InDebt
    <2> QED BY <1>1, <2>2, <2>3, SameDebts, DebtStep
  <1> QED BY <1>2, <1>3 DEF ListAccounts

\* A listing moves on to a row it has not seen, or returns.
LEMMA ListNextKeepsDebts ==
    ASSUME IInv, DebtInv, NEW o \in Ops, ListNext(o)
    PROVE  DebtInv'
  <1>1. UNCHANGED <<records, tokens>> /\ HandlerDebts(o) /\ pc[o] = "list"
    BY DEF ListNext, durable, DebtInv
  <1>2. CASE Return(o)
    BY <1>1, <1>2, ReturnMoves, SameDebts, OutsideDebts, DebtStep
  <1>3. ASSUME NEW id \in job[o].todo,
               job' = [job EXCEPT ![o].account = id, ![o].todo = @ \ {id}],
               pc' = [pc EXCEPT ![o] = "settle"]
        PROVE  DebtInv'
    <2>1. /\ job'[o].account = id /\ job'[o].todo = job[o].todo \ {id}
          /\ pc'[o] = "settle"
          /\ \A q \in Ops \ {o} : pc'[q] = pc[q] /\ job'[q] = job[q]
      BY <1>3, HandlerNow DEF Job
    <2>2. HandlerDebts(o)'
      BY <1>1, <2>1 DEF HandlerDebts, Settling, Removing, Lists, InDebt
    <2> QED BY <1>1, <2>1, <2>2, SameDebts, DebtStep
  <1> QED BY <1>2, <1>3 DEF ListNext

\* A commit to the row a handler under the lock works on changes that row only,
\* as it was asked but for the generation, which a commit of 0 raises by one.
LEMMA RowWritten ==
    ASSUME IInv, NEW o \in Ops, pc[o] \in OnRow, NEW rec \in Record,
           rec.subject = records[job[o].account].subject, Commit(job[o].account, rec)
    PROVE  /\ DOMAIN records' = DOMAIN records
           /\ job[o].account \in DOMAIN records
           /\ \A w \in DOMAIN records \ {job[o].account} : records'[w] = records[w]
           /\ records'[job[o].account].subject = records[job[o].account].subject
           /\ records'[job[o].account].principal = rec.principal
           /\ records'[job[o].account].email = rec.email
           /\ records'[job[o].account].state = rec.state
           /\ records'[job[o].account].cleanup = rec.cleanup
           /\ records'[job[o].account].generation =
                 IF rec.generation = 0 \/ rec.generation < records[job[o].account].generation
                   THEN records[job[o].account].generation + 1 ELSE rec.generation
  <1> DEFINE id == job[o].account
  <1>1. id \in DOMAIN records /\ id \in AccountIds
    BY HandlerNow
  <1> HIDE DEF id
  <1>2. TypeOK /\ OneConnectionPerIdentity
    BY DEF IInv
  <1>3. records[id].subject = rec.subject /\ Commit(id, rec)
    BY DEF id
  <1>4. /\ DOMAIN records' = DOMAIN records \cup {id}
        /\ \A w \in DOMAIN records \ {id} : records'[w] = records[w]
        /\ records'[id].subject = rec.subject /\ records'[id].email = rec.email
        /\ records'[id].principal = rec.principal /\ records'[id].state = rec.state
        /\ records'[id].cleanup = rec.cleanup
        /\ id \in DOMAIN records =>
              records'[id].generation =
                 IF rec.generation = 0 \/ rec.generation < records[id].generation
                   THEN records[id].generation + 1 ELSE rec.generation
    BY <1>1, <1>2, <1>3, CommitRow
  <1> QED BY <1>1, <1>3, <1>4 DEF id

\* The commit of a callback leaves the only row of its subject pending, one
\* generation on, with its previous address, if another, as the debt.
LEMMA PendingWritten ==
    ASSUME IInv, NEW o \in Ops, pc[o] = "commit", Commit(job[o].account, PendingRow(o))
    PROVE  LET id == job[o].account
               e  == job[o].email
           IN  /\ Owners(job[o].subject) \subseteq {id}
               /\ ~ Clash(PendingRow(o))
               /\ DOMAIN records' = DOMAIN records \cup {id}
               /\ \A w \in DOMAIN records \ {id} : records'[w] = records[w]
               /\ records'[id].subject = job[o].subject
               /\ records'[id].email = e
               /\ records'[id].state = "pending"
               /\ records'[id].principal = IF id \in DOMAIN records
                                             THEN records[id].principal
                                             ELSE job[o].principal
               /\ records'[id].cleanup =
                     IF id \in DOMAIN records /\ records[id].email # e
                       THEN TokenKey(records[id].email) ELSE NoCleanup
               /\ records'[id].generation = IF id \in DOMAIN records
                                              THEN records[id].generation + 1 ELSE 1
  <1> DEFINE id  == job[o].account
             rec == PendingRow(o)
  <1>1. /\ id \in AccountIds /\ rec \in Record /\ rec.subject = job[o].subject
        /\ \/ id \in DOMAIN records /\ records[id].subject = job[o].subject
           \/ /\ id \notin DOMAIN records
              /\ \A w \in Owners(rec.subject) : records[w].principal # rec.principal
    BY PendingTarget
  <1>2. /\ rec.email = job[o].email /\ rec.state = "pending" /\ rec.generation = 0
        /\ rec.principal = IF id \in DOMAIN records THEN records[id].principal
                                                    ELSE job[o].principal
        /\ rec.cleanup = IF id \in DOMAIN records /\ records[id].email # job[o].email
                           THEN TokenKey(records[id].email) ELSE NoCleanup
    <2>1. id \in DOMAIN records => records[id] \in Record
      BY RegistryNow DEF RegistryOK, DataOK, IsMap
    <2> QED BY <2>1 DEF PendingRow, Record
  <1>3. TypeOK /\ OneConnectionPerIdentity /\ Commit(id, rec)
    BY DEF IInv
  <1> HIDE DEF id, rec
  <1>4. id \in DOMAIN records => records[id].subject = rec.subject
    BY <1>1
  <1>5. /\ ~ Clash(rec)
        /\ Owners(rec.subject) \subseteq {id}
        /\ DOMAIN records' = DOMAIN records \cup {id}
        /\ \A w \in DOMAIN records \ {id} : records'[w] = records[w]
        /\ records'[id].subject = rec.subject /\ records'[id].email = rec.email
        /\ records'[id].principal = rec.principal /\ records'[id].state = rec.state
        /\ records'[id].cleanup = rec.cleanup
        /\ id \notin DOMAIN records => records'[id].generation = AtLeast(rec.generation, 1)
        /\ id \in DOMAIN records =>
              records'[id].generation =
                 IF rec.generation = 0 \/ rec.generation < records[id].generation
                   THEN records[id].generation + 1 ELSE rec.generation
    BY <1>1, <1>3, <1>4, CommitRow
  <1>6. AtLeast(0, 1) = 1
    BY DEF AtLeast
  <1> QED BY <1>1, <1>2, <1>5, <1>6 DEF id, rec

\* What the three cleanups a row can owe say.
LEMMA CleanupFields ==
    /\ NoCleanup.kind = "none"
    /\ \A e : TokenKey(e).kind = "token_key" /\ TokenKey(e).email = e
    /\ \A e, stage : RevokeOf(e, stage).kind = "revoke" /\ RevokeOf(e, stage).stage = stage
  BY DEF NoCleanup, TokenKey, RevokeOf

\* A commit that keeps the address and the debt of the row keeps every stored
\* token reachable.
LEMMA SameAddresses ==
    ASSUME DebtInv, DOMAIN records' = DOMAIN records, UNCHANGED tokens,
           \A w \in DOMAIN records : /\ records'[w].email = records[w].email
                                     /\ records'[w].cleanup = records[w].cleanup
    PROVE  NoStrandedToken'
  BY DEF DebtInv, NoStrandedToken, InDebt

\* Fewer tokens are all reachable while the rows stay.
LEMMA FewerTokens ==
    ASSUME DebtInv, UNCHANGED records, DOMAIN tokens' \subseteq DOMAIN tokens
    PROVE  NoStrandedToken' /\ RowDebts'
  BY DEF DebtInv, NoStrandedToken, RowDebts, InDebt

\* What the two ways a handler goes on after a failed settlement change.
LEMMA StillPendingMoves ==
    ASSUME IInv, NEW o \in Ops, StillPending(o)
    PROVE  /\ \/ pc'[o] = "idle"
              \/ /\ pc'[o] = job[o].after /\ job'[o] = job[o]
                 /\ job[o].after \in {"finish", "list"}
           /\ \A p \in Ops \ {o} : pc'[p] = pc[p] /\ job'[p] = job[p]
  BY GotoMoves, ReturnMoves DEF StillPending

\* The commit of a callback: the previous address becomes the debt of the row.
LEMMA CommitPendingKeepsDebts ==
    ASSUME IInv, DebtInv, NEW o \in Ops, CommitPending(o)
    PROVE  DebtInv'
  <1> DEFINE id == job[o].account
  <1>1. pc[o] = "commit" /\ UNCHANGED tokens /\ lock = o /\ HandlerDebts(o)
    BY PendingTarget DEF CommitPending, DebtInv
  <1>2. CASE Commit(id, PendingRow(o)) /\ Goto(o, "put")
    <2>1. /\ DOMAIN records' = DOMAIN records \cup {id}
          /\ \A w \in DOMAIN records \ {id} : records'[w] = records[w]
          /\ records'[id].state = "pending"
          /\ records'[id].email = job[o].email
          /\ records'[id].cleanup =
                IF id \in DOMAIN records /\ records[id].email # job[o].email
                  THEN TokenKey(records[id].email) ELSE NoCleanup
      BY <1>1, <1>2, PendingWritten
    <2>2. RowDebts'
      BY <2>1 DEF DebtInv, RowDebts, InDebt
    <2>3. NoStrandedToken'
      <3> SUFFICES ASSUME NEW e \in DOMAIN tokens
                   PROVE  \E w \in DOMAIN records' : \/ records'[w].email = e
                                                     \/ InDebt(w)' /\ records'[w].cleanup.email = e
        BY <1>1 DEF NoStrandedToken
      <3>1. PICK w \in DOMAIN records : records[w].email = e \/
                                          (InDebt(w) /\ records[w].cleanup.email = e)
        BY DEF DebtInv, NoStrandedToken
      <3>2. CASE w # id
        BY <2>1, <3>1, <3>2 DEF InDebt
      <3>3. CASE w = id
        <4>1. records[id].email = e
          BY <1>1, <3>1, <3>3 DEF HandlerDebts
        <4>2. CASE e = job[o].email
          BY <2>1, <4>2
        <4>3. CASE e # job[o].email
          <5>1. records'[id].cleanup = TokenKey(e)
            BY <2>1, <3>3, <4>1, <4>3
          <5>2. records'[id].cleanup.kind = "token_key" /\ records'[id].cleanup.email = e
            BY <5>1, CleanupFields
          <5> QED BY <2>1, <3>3, <5>2 DEF InDebt
        <4> QED BY <4>2, <4>3
      <3> QED BY <3>2, <3>3
    <2>4. HandlerDebts(o)'
      BY <1>2, GotoMoves DEF HandlerDebts, Settling, Removing, Lists
    <2> QED BY <1>1, <1>2, <2>2, <2>3, <2>4, GotoMoves, DebtStep
  <1>3. CASE Return(o) /\ UNCHANGED records
    BY <1>1, <1>3, ReturnMoves, SameDebts, OutsideDebts, DebtStep
  <1> QED BY <1>2, <1>3 DEF CommitPending

\* The token write of a callback goes to the address of its row.
LEMMA PutTokenKeepsDebts ==
    ASSUME IInv, DebtInv, NEW o \in Ops, PutToken(o)
    PROVE  DebtInv'
  <1> DEFINE id == job[o].account
             e  == records[id].email
  <1>1. pc[o] = "put" /\ lock = o /\ UNCHANGED records /\ id \in DOMAIN records
    BY HandlerNow DEF PutToken, Holding, OnRow, PCs
  <1>2. DOMAIN tokens' \subseteq DOMAIN tokens \cup {e}
    BY DEF PutToken, SetKey
  <1>3. NoStrandedToken' /\ RowDebts'
    BY <1>1, <1>2 DEF DebtInv, NoStrandedToken, RowDebts, InDebt
  <1>4. CASE Goto(o, "activate")
    <2>1. HandlerDebts(o)'
      BY <1>4, GotoMoves DEF HandlerDebts, Settling, Removing, Lists
    <2> QED BY <1>1, <1>3, <1>4, <2>1, GotoMoves, DebtStep
  <1>5. CASE Return(o)
    BY <1>1, <1>3, <1>5, ReturnMoves, OutsideDebts, DebtStep
  <1> QED BY <1>4, <1>5 DEF PutToken

\* The activation keeps the address and the debt of the row.
LEMMA ActivateKeepsDebts ==
    ASSUME IInv, DebtInv, NEW o \in Ops, Activate(o)
    PROVE  DebtInv'
  <1> DEFINE id  == job[o].account
             rec == [records[id] EXCEPT !.state = "active"]
  <1>1. pc[o] = "activate" /\ lock = o /\ UNCHANGED tokens /\ pc[o] \in OnRow
    BY HandlerNow DEF Activate, Holding, OnRow, PCs
  <1>2. CASE /\ Commit(id, rec)
             /\ pc' = [pc EXCEPT ![o] = IF InDebt(id) THEN "settle" ELSE "finish"]
             /\ job' = [job EXCEPT ![o].after = "finish"]
    <2>1. /\ rec \in Record /\ rec.subject = records[id].subject
          /\ rec.email = records[id].email /\ rec.cleanup = records[id].cleanup
          /\ rec.state = "active"
      BY <1>1, HandlerNow DEF Record
    <2>2. rec.subject = records[job[o].account].subject /\ Commit(job[o].account, rec)
      BY <1>2, <2>1
    <2> HIDE DEF rec
    <2>3. /\ DOMAIN records' = DOMAIN records
          /\ \A w \in DOMAIN records \ {id} : records'[w] = records[w]
          /\ records'[id].email = records[id].email
          /\ records'[id].cleanup = records[id].cleanup
          /\ records'[id].state = "active"
      BY <1>1, <2>1, <2>2, RowWritten
    <2>4. NoStrandedToken' /\ RowDebts'
      BY <1>1, <2>3, SameAddresses DEF DebtInv, RowDebts, InDebt
    <2>5. /\ pc'[o] = IF InDebt(id) THEN "settle" ELSE "finish"
          /\ job'[o].account = id /\ job'[o].after = "finish"
          /\ \A p \in Ops \ {o} : pc'[p] = pc[p] /\ job'[p] = job[p]
      BY <1>2, HandlerNow DEF Job
    <2>6. HandlerDebts(o)'
      BY <2>3, <2>5 DEF HandlerDebts, Settling, Removing, Lists, InDebt
    <2> QED BY <1>1, <2>4, <2>5, <2>6, DebtStep
  <1>3. CASE Return(o) /\ UNCHANGED records
    BY <1>1, <1>3, ReturnMoves, SameDebts, OutsideDebts, DebtStep
  <1> QED BY <1>2, <1>3 DEF Activate

\* The deletion of an owed token.
LEMMA SettleDeleteKeepsDebts ==
    ASSUME IInv, DebtInv, NEW o \in Ops, SettleDelete(o)
    PROVE  DebtInv'
  <1> DEFINE id == job[o].account
             e  == records[id].cleanup.email
  <1>1. /\ pc[o] = "settle" /\ lock = o /\ UNCHANGED records /\ HandlerDebts(o)
        /\ tokens' = tokens \/ tokens' = DropKey(tokens, e)
    BY HandlerNow DEF SettleDelete, Holding, PCs, DebtInv
  <1>2. DOMAIN tokens' \subseteq DOMAIN tokens
    BY <1>1 DEF DropKey
  <1>3. CASE Goto(o, "settled") /\ tokens' = DropKey(tokens, e)
    <2>1. e \notin DOMAIN tokens'
      BY <1>3 DEF DropKey
    <2>2. HandlerDebts(o)'
      BY <1>1, <1>3, <2>1, GotoMoves DEF HandlerDebts, Settling, Removing, Lists, InDebt
    <2> QED BY <1>1, <1>2, <1>3, <2>2, FewerTokens, GotoMoves, DebtStep
  <1>4. CASE StillPending(o)
    <2>1. HandlerDebts(o)'
      BY <1>1, <1>4, StillPendingMoves DEF HandlerDebts, Settling, Removing, Lists, InDebt
    <2> QED BY <1>1, <1>2, <1>4, <2>1, FewerTokens, StillPendingMoves, DebtStep
  <1> QED BY <1>3, <1>4 DEF SettleDelete

\* The commit that clears a debt follows the deletion of the token it names.
LEMMA SettleCommitKeepsDebts ==
    ASSUME IInv, DebtInv, NEW o \in Ops, SettleCommit(o)
    PROVE  DebtInv'
  <1> DEFINE id  == job[o].account
             rec == [records[id] EXCEPT !.cleanup = NoCleanup]
  <1>1. /\ pc[o] = "settled" /\ lock = o /\ UNCHANGED tokens /\ pc[o] \in OnRow
        /\ HandlerDebts(o)
    BY HandlerNow DEF SettleCommit, Holding, OnRow, PCs, DebtInv
  <1>2. CASE Commit(id, rec) /\ Goto(o, job[o].after)
    <2>1. /\ rec \in Record /\ rec.subject = records[id].subject
          /\ rec.email = records[id].email /\ rec.cleanup = NoCleanup
          /\ rec.state = records[id].state
      BY <1>1, HandlerNow DEF Record, NoCleanup, Cleanup
    <2>2. rec.subject = records[job[o].account].subject /\ Commit(job[o].account, rec)
      BY <1>2, <2>1
    <2> HIDE DEF rec
    <2>3. /\ DOMAIN records' = DOMAIN records
          /\ \A w \in DOMAIN records \ {id} : records'[w] = records[w]
          /\ records'[id].email = records[id].email
          /\ records'[id].cleanup = NoCleanup
          /\ records'[id].state = records[id].state
      BY <1>1, <2>1, <2>2, RowWritten
    <2>9. records'[id].cleanup.kind = "none"
      BY <2>3, CleanupFields
    <2>4. RowDebts'
      BY <2>3, <2>9 DEF DebtInv, RowDebts, InDebt
    <2>5. NoStrandedToken'
      <3>1. records[id].cleanup.email \notin DOMAIN tokens
        BY <1>1 DEF HandlerDebts
      <3> QED BY <1>1, <2>3, <3>1 DEF DebtInv, NoStrandedToken, InDebt
    <2>6. /\ pc'[o] = job[o].after /\ job'[o] = job[o]
          /\ job[o].after \in {"commit", "finish", "bump", "list"}
      BY <1>1, <1>2, GotoMoves, HandlerNow DEF HandlerKnows, Learnt, Job
    <2>7. HandlerDebts(o)'
      <3>1. ~ InDebt(id)'
        BY <2>6, <2>9 DEF InDebt
      <3>2. Lists(o)' => \A d \in job[o].todo : InDebt(d)'
        BY <1>1, <2>3, <2>6, HandlerNow DEF HandlerDebts, Lists, InDebt, Settling
      <3> QED BY <2>6, <3>1, <3>2 DEF HandlerDebts, Settling, Removing
    <2> QED BY <1>1, <1>2, <2>4, <2>5, <2>7, GotoMoves, DebtStep
  <1>3. CASE StillPending(o) /\ UNCHANGED records
    <2>1. HandlerDebts(o)'
      BY <1>1, <1>3, StillPendingMoves DEF HandlerDebts, Settling, Removing, Lists, InDebt
    <2> QED BY <1>1, <1>3, <2>1, SameDebts, StillPendingMoves, DebtStep
  <1> QED BY <1>2, <1>3 DEF SettleCommit

\* The commit that fences a row follows the settlement of its debt.
LEMMA MarkKeepsDebts ==
    ASSUME IInv, DebtInv, NEW o \in Ops, MarkDisconnecting(o)
    PROVE  DebtInv'
  <1> DEFINE id  == job[o].account
             row == records[id]
             rec == [row EXCEPT !.state = "disconnecting", !.generation = 0,
                       !.revokeEpoch = epochs[row.subject],
                       !.cleanup = RevokeOf(row.email, "")]
  <1>1. /\ pc[o] = "mark" /\ lock = o /\ UNCHANGED tokens /\ pc[o] \in OnRow
        /\ HandlerDebts(o)
    BY HandlerNow DEF MarkDisconnecting, Holding, OnRow, PCs, DebtInv
  <1>2. CASE /\ Commit(id, rec) /\ Fenced(o, id, job[o].plan)
             /\ job' = [job EXCEPT ![o] = IF job[o].plan = "idle" THEN NoJob ELSE @]
    <2>1. /\ rec \in Record /\ rec.subject = row.subject
          /\ rec.email = row.email /\ rec.cleanup.kind = "revoke"
      <3>1. row \in Record /\ RevokeOf(row.email, "") \in Cleanup
        BY <1>1, HandlerNow DEF Record, RevokeOf, Cleanup
      <3>2. epochs[row.subject] \in Nat
        BY <3>1, RegistryNow DEF RegistryOK, DataOK, Record
      <3>3. /\ rec \in Record /\ rec.subject = row.subject
            /\ rec.email = row.email /\ rec.cleanup = RevokeOf(row.email, "")
        <4> HIDE DEF id
        <4> QED BY <3>1, <3>2 DEF Record
      <3>4. RevokeOf(row.email, "").kind = "revoke"
        BY CleanupFields
      <3> HIDE DEF rec
      <3> QED BY <3>3, <3>4
    <2>2. rec.subject = records[job[o].account].subject /\ Commit(job[o].account, rec)
      BY <1>2, <2>1
    <2> HIDE DEF rec
    <2>3. /\ DOMAIN records' = DOMAIN records
          /\ \A w \in DOMAIN records \ {id} : records'[w] = records[w]
          /\ records'[id].email = row.email
          /\ records'[id].cleanup.kind = "revoke"
      BY <1>1, <2>1, <2>2, RowWritten
    <2>4. RowDebts'
      BY <2>3 DEF DebtInv, RowDebts, InDebt
    <2>5. NoStrandedToken'
      <3>1. ~ InDebt(id)
        BY <1>1 DEF HandlerDebts
      <3> QED BY <1>1, <2>3, <3>1 DEF DebtInv, NoStrandedToken, InDebt
    <2>6. /\ pc'[o] \in {"idle", "revoke", "relock"}
          /\ \A p \in Ops \ {o} : pc'[p] = pc[p] /\ job'[p] = job[p]
      BY <1>2, HandlerNow DEF Fenced, Job
    <2> QED BY <1>1, <2>4, <2>5, <2>6, OutsideDebts, DebtStep
  <1>3. CASE Return(o) /\ UNCHANGED records
    BY <1>1, <1>3, ReturnMoves, SameDebts, OutsideDebts, DebtStep
  <1> QED BY <1>2, <1>3 DEF MarkDisconnecting

\* The commit that notes that only local work is left.
LEMMA LocalStageKeepsDebts ==
    ASSUME IInv, DebtInv, NEW o \in Ops, RecordLocalStage(o)
    PROVE  DebtInv'
  <1> DEFINE id  == job[o].account
             row == records[id]
             rec == [row EXCEPT !.cleanup = RevokeOf(row.email, "local")]
  <1>1. /\ pc[o] = "stage" /\ lock = o /\ UNCHANGED tokens /\ pc[o] \in OnRow
        /\ HandlerDebts(o) /\ id \in DOMAIN records
    BY HandlerNow DEF RecordLocalStage, Holding, OnRow, PCs, DebtInv
  <1>2. CASE Commit(id, rec) /\ Goto(o, "complete")
    <2>1. /\ rec \in Record /\ rec.subject = row.subject
          /\ rec.email = row.email /\ rec.cleanup.kind = "revoke" /\ rec.state = row.state
      <3>1. row \in Record /\ RevokeOf(row.email, "local") \in Cleanup
        BY <1>1, HandlerNow DEF Record, RevokeOf, Cleanup
      <3>2. /\ rec \in Record /\ rec.subject = row.subject /\ rec.state = row.state
            /\ rec.email = row.email /\ rec.cleanup = RevokeOf(row.email, "local")
        BY <3>1 DEF Record
      <3> HIDE DEF rec
      <3> QED BY <3>2, CleanupFields
    <2>2. rec.subject = records[job[o].account].subject /\ Commit(job[o].account, rec)
      BY <1>2, <2>1
    <2> HIDE DEF rec
    <2>3. /\ DOMAIN records' = DOMAIN records
          /\ \A w \in DOMAIN records \ {id} : records'[w] = records[w]
          /\ records'[id].email = row.email
          /\ records'[id].cleanup.kind = "revoke"
          /\ records'[id].state = row.state
      BY <1>1, <2>1, <2>2, RowWritten
    <2>4. row.state = "disconnecting" /\ ~ InDebt(id)
      BY <1>1 DEF HandlerDebts, Removing, DebtInv, RowDebts
    <2>5. NoStrandedToken' /\ RowDebts'
      BY <1>1, <2>3, <2>4 DEF DebtInv, NoStrandedToken, RowDebts, InDebt
    <2>6. HandlerDebts(o)'
      BY <1>2, <2>3, <2>4, GotoMoves DEF HandlerDebts, Settling, Removing, Lists
    <2> QED BY <1>1, <1>2, <2>5, <2>6, GotoMoves, DebtStep
  <1>3. CASE Return(o) /\ UNCHANGED records
    BY <1>1, <1>3, ReturnMoves, SameDebts, OutsideDebts, DebtStep
  <1> QED BY <1>2, <1>3 DEF RecordLocalStage

\* The deletion of the token precedes the deletion of the row that names it.
LEMMA DeleteTokenKeepsDebts ==
    ASSUME IInv, DebtInv, NEW o \in Ops, DeleteToken(o)
    PROVE  DebtInv'
  <1> DEFINE id == job[o].account
             e  == records[id].email
  <1>1. /\ pc[o] = "delete_token" /\ lock = o /\ UNCHANGED records /\ HandlerDebts(o)
        /\ tokens' = tokens \/ tokens' = DropKey(tokens, e)
    BY HandlerNow DEF DeleteToken, Holding, PCs, DebtInv
  <1>2. DOMAIN tokens' \subseteq DOMAIN tokens
    BY <1>1 DEF DropKey
  <1>3. CASE Goto(o, "delete_record") /\ tokens' = DropKey(tokens, e)
    <2>1. e \notin DOMAIN tokens'
      BY <1>3 DEF DropKey
    <2>2. HandlerDebts(o)'
      BY <1>1, <1>3, <2>1, GotoMoves DEF HandlerDebts, Settling, Removing, Lists
    <2> QED BY <1>1, <1>2, <1>3, <2>2, FewerTokens, GotoMoves, DebtStep
  <1>4. CASE Return(o)
    BY <1>1, <1>2, <1>4, FewerTokens, ReturnMoves, OutsideDebts, DebtStep
  <1> QED BY <1>3, <1>4 DEF DeleteToken

\* The deletion of the record: its address names no token any more.
LEMMA DeleteRecordKeepsDebts ==
    ASSUME IInv, DebtInv, NEW o \in Ops, DeleteRecord(o)
    PROVE  DebtInv'
  <1> DEFINE id == job[o].account
  <1>1. /\ pc[o] = "delete_record" /\ lock = o /\ UNCHANGED tokens /\ Return(o)
        /\ HandlerDebts(o) /\ id \in DOMAIN records
    BY HandlerNow DEF DeleteRecord, Holding, OnRow, PCs, DebtInv
  <1>2. CASE UNCHANGED records
    BY <1>1, <1>2, ReturnMoves, SameDebts, OutsideDebts, DebtStep
  <1>3. CASE records' = DropKey(records, id)
    <2>1. /\ DOMAIN records' = DOMAIN records \ {id}
          /\ \A w \in DOMAIN records \ {id} : records'[w] = records[w]
      BY <1>3 DEF DropKey
    <2>2. records[id].email \notin DOMAIN tokens /\ ~ InDebt(id)
      BY <1>1 DEF HandlerDebts, Removing, DebtInv, RowDebts
    <2>3. NoStrandedToken' /\ RowDebts'
      BY <1>1, <2>1, <2>2 DEF DebtInv, NoStrandedToken, RowDebts, InDebt
    <2> QED BY <1>1, <2>3, ReturnMoves, OutsideDebts, DebtStep
  <1> QED BY <1>2, <1>3 DEF DeleteRecord

\* Steps that touch neither a handler nor the files.
LEMMA QuietKeepsDebts ==
    ASSUME DebtInv, UNCHANGED <<records, tokens, pc, job>>
    PROVE  DebtInv'
  <1>1. \A o \in Ops : HandlerDebts(o)'
    BY DEF DebtInv, HandlerDebts, Settling, Removing, Lists, InDebt
  <1> QED BY <1>1, SameDebts DEF DebtInv

\* A restart ends every handler and keeps the files.
LEMMA RestartKeepsDebts ==
    ASSUME DebtInv, Restart
    PROVE  DebtInv'
  <1>1. UNCHANGED <<records, tokens>> /\ \A o \in Ops : pc'[o] = "idle"
    BY DEF Restart, durable
  <1> QED BY <1>1, SameDebts, OutsideDebts DEF DebtInv

\* Nothing is stored and nothing owed when the process first starts.
LEMMA InitDebts == Init => DebtInv
  <1> SUFFICES ASSUME Init PROVE DebtInv
    OBVIOUS
  <1>1. DOMAIN records = {} /\ DOMAIN tokens = {}
    BY EmptyIsMap DEF Init
  <1>2. \A o \in Ops : HandlerDebts(o)
    BY DEF Init, HandlerDebts, Settling, Removing, Lists
  <1> QED BY <1>1, <1>2 DEF DebtInv, NoStrandedToken, RowDebts

\* Every step of the program keeps the invariant of the debts.
LEMMA NextKeepsDebts == IInv /\ DebtInv /\ [Next]_vars => DebtInv'
  <1> SUFFICES ASSUME IInv, DebtInv, [Next]_vars PROVE DebtInv'
    OBVIOUS
  <1>1. ASSUME NEW o \in Ops, CallbackStep(o) PROVE DebtInv'
    BY <1>1, ReadersKeepDebts, LockCallbackKeepsDebts, CommitPendingKeepsDebts,
       PutTokenKeepsDebts, ActivateKeepsDebts DEF CallbackStep
  <1>2. ASSUME NEW o \in Ops, SettleStep(o) PROVE DebtInv'
    BY <1>2, SettleDeleteKeepsDebts, SettleCommitKeepsDebts, ListNextKeepsDebts DEF SettleStep
  <1>3. ASSUME NEW o \in Ops, DisconnectStep(o) PROVE DebtInv'
    BY <1>3, BumpKeepsDebts, MarkKeepsDebts, ReadersKeepDebts, RelockKeepsDebts,
       LocalStageKeepsDebts, DeleteTokenKeepsDebts, DeleteRecordKeepsDebts DEF DisconnectStep
  <1>4. ASSUME NEW o \in Ops, NEW p \in Principals,
               ListAccounts(o, p) \/ \E id \in AccountIds : Disconnect(o, p, id)
        PROVE  DebtInv'
    BY <1>4, ListAccountsKeepsDebts, DisconnectKeepsDebts
  <1>5. ASSUME NEW p \in Principals,
               StartConnect(p) \/ \E id \in AccountIds : StartReconnect(p, id)
        PROVE  DebtInv'
    BY <1>5, QuietKeepsDebts DEF StartConnect, StartReconnect, NewSession, durable
  <1>6. CASE \/ \E k \in 1 .. MaxSessions : ExpireSession(k)
             \/ \E id \in AccountIds : UseClient(id)
             \/ UNCHANGED vars
    BY <1>6, QuietKeepsDebts DEF ExpireSession, UseClient, vars, durable
  <1>7. CASE Next
    BY <1>1, <1>2, <1>3, <1>4, <1>5, <1>6, <1>7, ReadersKeepDebts, RestartKeepsDebts
    DEF Next, Step
  <1> QED BY <1>6, <1>7

\* The invariant of the debts holds in every reachable state.
THEOREM DebtsInductive == Spec => []DebtInv
  BY InitDebts, NextKeepsDebts, Inductive, PTL DEF Spec

\* No refresh token is ever stranded: whatever fails or restarts between the
\* commit of a row, the token write and the settlement of a debt, each stored
\* token is named by a row or by the debt of a row.
THEOREM TokensReachable == Spec => []NoStrandedToken
  <1>1. DebtInv => NoStrandedToken
    BY DEF DebtInv
  <1> QED BY <1>1, DebtsInductive, PTL

(***************************************************************************)
(* The tokens: what the invariant says of addresses                        *)
(***************************************************************************)

\* An address of two subjects is the address of one.
LEMMA OneOwner ==
    ASSUME OwnAddresses, NEW s \in Subjects, NEW t \in Subjects,
           NEW e, e \in EmailsOf[s], e \in EmailsOf[t]
    PROVE  s = t
  BY DEF OwnAddresses

\* The types the proofs below rest on.
LEMMA TypesNow ==
    ASSUME IInv
    PROVE  /\ \A id \in DOMAIN records : /\ id \in AccountIds /\ id \in 1 .. nextAccount
                                         /\ records[id] \in Record
                                         /\ records[id].subject \in Subjects
                                         /\ records[id].generation \in Nat
           /\ \A e \in DOMAIN tokens : /\ tokens[e] \in Token
                                       /\ tokens[e] # NoToken
                                       /\ tokens[e].subject \in Subjects
                                       /\ tokens[e].grant \in Nat
           /\ \A s \in Subjects : epochs[s] \in Nat /\ grant[s] \in Nat
           /\ \A o \in Ops : /\ job[o] \in Job
                             /\ \A s \in Subjects : job[o].before[s] \in Nat
                             /\ job[o].token # NoToken => /\ job[o].token \in Token
                                                          /\ job[o].token.subject \in Subjects
                                                          /\ job[o].token.grant \in Nat
           /\ nextAccount \in Nat
           /\ NoToken \notin Token
  <1>1. NoToken \notin Token
    BY NamesAssumption DEF NoToken, Token
  <1>2. \A t \in Token : t.subject \in Subjects /\ t.grant \in Nat
    BY DEF Token
  <1>3. \A id \in DOMAIN records : /\ id \in AccountIds /\ id \in 1 .. nextAccount
                                   /\ records[id] \in Record
                                   /\ records[id].subject \in Subjects
                                   /\ records[id].generation \in Nat
    BY DEF IInv, IdsMinted, TypeOK, IsMap, Record
  <1>4. \A e \in DOMAIN tokens : tokens[e] \in Token
    BY DEF IInv, TypeOK, IsMap
  <1>5. \A o \in Ops : /\ job[o] \in Job
                       /\ \A s \in Subjects : job[o].before[s] \in Nat
                       /\ job[o].token \in Token \cup {NoToken}
    BY DEF IInv, TypeOK, Job
  <1>6. (\A s \in Subjects : epochs[s] \in Nat /\ grant[s] \in Nat) /\ nextAccount \in Nat
    BY DEF IInv, TypeOK
  <1> QED BY <1>1, <1>2, <1>3, <1>4, <1>5, <1>6

\* The token stored for a row was issued to the subject of the row.
LEMMA StoredIsOwn ==
    ASSUME OwnAddresses, IInv, TokenInv,
           NEW id \in DOMAIN records, records[id].email \in DOMAIN tokens
    PROVE  tokens[records[id].email].subject = records[id].subject
  BY OneOwner, TypesNow DEF TokenInv, RowSound, TokenSound

\* No row has the address another row, or the row itself, owes.
LEMMA DebtsAreNobodys ==
    ASSUME OwnAddresses, IInv, TokenInv,
           NEW id \in DOMAIN records, InDebt(id), NEW w \in DOMAIN records
    PROVE  records[w].email # records[id].cleanup.email
  <1>1. /\ records[w].email \in EmailsOf[records[w].subject]
        /\ records[id].cleanup.email \in EmailsOf[records[id].subject]
        /\ records[id].cleanup.email # records[id].email
    BY DEF TokenInv, RowSound
  <1> SUFFICES ASSUME records[w].email = records[id].cleanup.email PROVE FALSE
    OBVIOUS
  <1>2. records[w].subject = records[id].subject
    BY <1>1, OneOwner, TypesNow
  <1>3. w = id
    BY <1>2 DEF IInv, OneConnectionPerIdentity
  <1> QED BY <1>1, <1>3

\* A stored token at an address of subject s is that of the row of s.
LEMMA StoredHasRow ==
    ASSUME OwnAddresses, IInv, DebtInv, TokenInv, NEW s \in Subjects,
           NEW e \in DOMAIN tokens, e \in EmailsOf[s]
    PROVE  \E id \in Owners(s) : records[id].email = e \/ InDebt(id)
  <1>1. PICK id \in DOMAIN records : records[id].email = e \/
                                       (InDebt(id) /\ records[id].cleanup.email = e)
    BY DEF DebtInv, NoStrandedToken
  <1>2. e \in EmailsOf[records[id].subject]
    BY <1>1 DEF TokenInv, RowSound
  <1>3. records[id].subject = s
    BY <1>2, OneOwner, TypesNow
  <1> QED BY <1>1, <1>3 DEF Owners

(***************************************************************************)
(* Steps that write neither a file nor Google                              *)
(***************************************************************************)

\* A handler without a token outside every step that is about one is sound.
LEMMA IdleSound ==
    ASSUME NEW o \in Ops, pc'[o] = "idle", job'[o] = NoJob
    PROVE  HandlerTokens(o)'
  <1>1. NoJob.token = NoToken
    BY DEF NoJob
  <1> QED BY <1>1 DEF HandlerTokens, CallbackSound, CommitSound, DisconnectSound,
                      AwaitsCommit, Fencing, Settling, Removing

\* A subject's row stays on its way out when handler o enters no deletion.
LEMMA EndingStays ==
    ASSUME NEW o \in Ops, UNCHANGED records,
           \A p \in Ops \ {o} : pc'[p] = pc[p] /\ job'[p] = job[p],
           pc'[o] \in {"delete_token", "delete_record"}
              => pc[o] \in {"delete_token", "delete_record"} /\ job'[o] = job[o],
           NEW s, Ending(s)
    PROVE  Ending(s)'
  BY DEF Ending, Owners

\* A step of handler o that reads only keeps the invariant when o itself is
\* sound after it and o's AccountID is one it had, one of a row, or a new one.
LEMMA ReaderStep ==
    ASSUME IInv, TokenInv, NEW o \in Ops,
           \A p \in Ops \ {o} : pc'[p] = pc[p] /\ job'[p] = job[p],
           UNCHANGED <<records, tokens, epochs, grant>>,
           nextAccount' \in Nat, nextAccount =< nextAccount',
           UNCHANGED clients \/ (\E c : Invalidate(c)),
           pc'[o] \notin {"delete_token", "delete_record"},
           HandlerTokens(o)',
           pc'[o] \in {"revoke", "relock"} =>
              \/ pc[o] \in {"revoke", "relock"} /\ job'[o].account = job[o].account
              \/ job'[o].account \in DOMAIN records,
           AwaitsCommit(o)' /\ job'[o].account \notin DOMAIN records =>
              \/ AwaitsCommit(o) /\ job'[o].account = job[o].account
              \/ job'[o].account \notin 1 .. nextAccount
    PROVE  TokenInv'
  <1>1. \A id \in DOMAIN records' : RowSound(id)'
    BY DEF TokenInv, RowSound, InDebt, LocalStage, Spent, Live
  <1>2. \A e \in DOMAIN tokens' : TokenSound(e)'
    BY DEF TokenInv, TokenSound, GrantKnown
  <1>3. \A id \in DOMAIN clients' : ClientSound(id)'
    <2>1. \A id \in DOMAIN clients' : id \in DOMAIN clients /\ clients'[id] = clients[id]
      BY DEF Invalidate, DropKey
    <2> QED BY <2>1 DEF TokenInv, ClientSound
  <1>4. ASSUME NEW p \in Ops, p # o
        PROVE  HandlerTokens(p)'
    <2>1. pc'[p] = pc[p] /\ job'[p] = job[p] /\ HandlerTokens(p)
      BY <1>4 DEF TokenInv
    <2>2. CallbackSound(p)'
      <3>1. \A s : Ending(s) => Ending(s)'
        BY EndingStays
      <3>2. CallbackSound(p)
        BY <2>1 DEF HandlerTokens
      <3> QED BY <2>1, <3>1, <3>2 DEF CallbackSound, Live
    <2>3. CommitSound(p)'
      BY <2>1 DEF HandlerTokens, CommitSound, AwaitsCommit, Live, Owners
    <2>4. DisconnectSound(p)'
      <3>1. \A a : a \in 1 .. nextAccount => a \in 1 .. nextAccount'
        BY TypesNow
      <3>2. DisconnectSound(p)
        BY <2>1 DEF HandlerTokens
      <3> QED BY <2>1, <3>1, <3>2
              DEF DisconnectSound, Fencing, Settling, Removing, Live, Spent
    <2> QED BY <2>1, <2>2, <2>3, <2>4 DEF HandlerTokens, GrantKnown
  <1>5. FreshAccount'
    <2> SUFFICES ASSUME NEW q \in Ops, NEW p \in Ops, pc'[p] \in {"revoke", "relock"},
                        AwaitsCommit(q)', job'[q].account \notin DOMAIN records
                 PROVE  job'[p].account # job'[q].account
      BY DEF FreshAccount
    <2>1. p # q
      BY DEF AwaitsCommit
    <2>2. \/ job'[p].account \in DOMAIN records
          \/ pc[p] \in {"revoke", "relock"} /\ job'[p].account = job[p].account
      BY <2>1
    <2>3. \/ AwaitsCommit(q) /\ job'[q].account = job[q].account
          \/ job'[q].account \notin 1 .. nextAccount
      <3>1. CASE q = o
        BY <3>1
      <3>2. CASE q # o
        BY <3>2 DEF AwaitsCommit
      <3> QED BY <3>1, <3>2
    <2>4. pc[p] \in {"revoke", "relock"} => job[p].account \in 1 .. nextAccount
      BY DEF TokenInv, HandlerTokens, DisconnectSound
    <2>5. CASE job'[p].account \in DOMAIN records
      BY <2>5
    <2>6. CASE pc[p] \in {"revoke", "relock"} /\ job'[p].account = job[p].account
      BY <2>3, <2>4, <2>6 DEF TokenInv, FreshAccount
    <2> QED BY <2>2, <2>5, <2>6
  <1> QED BY <1>1, <1>2, <1>3, <1>4, <1>5 DEF TokenInv

\* A return that writes nothing.
LEMMA ReturnKeepsTokens ==
    ASSUME IInv, TokenInv, NEW o \in Ops, Return(o),
           UNCHANGED <<records, tokens, epochs, grant, nextAccount>>,
           UNCHANGED clients \/ (\E c : Invalidate(c))
    PROVE  TokenInv'
  <1>1. /\ pc'[o] = "idle" /\ job'[o] = NoJob
        /\ \A p \in Ops \ {o} : pc'[p] = pc[p] /\ job'[p] = job[p]
    BY ReturnMoves
  <1>2. nextAccount' \in Nat /\ nextAccount =< nextAccount'
    BY TypesNow
  <1> QED BY <1>1, <1>2, IdleSound, ReaderStep DEF AwaitsCommit

\* A session is taken with the epochs of that moment.
LEMMA TakeSessionKeepsTokens ==
    ASSUME IInv, TokenInv, NEW o \in Ops, NEW k, TakeSession(o, k)
    PROVE  TokenInv'
  <1>1. /\ UNCHANGED <<records, tokens, epochs, grant, nextAccount, clients>>
        /\ pc'[o] = "exchange"
        /\ \A p \in Ops \ {o} : pc'[p] = pc[p] /\ job'[p] = job[p]
    BY HandlerNow DEF TakeSession, durable, google, minted
  <1>2. job'[o].before = epochs /\ job'[o].token = NoToken
    <2> DEFINE y == [NoJob EXCEPT !.principal = sessions[k].principal,
                                  !.account = sessions[k].account, !.before = epochs]
    <2>1. job'[o] = y
      BY HandlerNow DEF TakeSession
    <2>2. y.before = epochs /\ y.token = NoToken
      BY DEF NoJob
    <2> QED BY <2>1, <2>2
  <1>3. HandlerTokens(o)'
    BY <1>1, <1>2, TypesNow
    DEF HandlerTokens, CallbackSound, CommitSound, DisconnectSound, AwaitsCommit,
        Fencing, Settling, Removing
  <1>4. nextAccount' \in Nat /\ nextAccount =< nextAccount'
    BY <1>1, TypesNow
  <1> QED BY <1>1, <1>3, <1>4, ReaderStep DEF AwaitsCommit

\* The exchange yields a live token of the subject, or none.
LEMMA ExchangeKeepsTokens ==
    ASSUME IInv, TokenInv, NEW o \in Ops, Exchange(o)
    PROVE  TokenInv'
  <1>1. PICK s \in Subjects : \E e \in EmailsOf[s], t \in IssuedTo(o, s) :
            job' = [job EXCEPT ![o].subject = s, ![o].email = e, ![o].token = t]
    BY DEF Exchange
  <1>2. PICK e \in EmailsOf[s], t \in IssuedTo(o, s) :
            job' = [job EXCEPT ![o].subject = s, ![o].email = e, ![o].token = t]
    BY <1>1
  <1>3. /\ UNCHANGED <<records, tokens, epochs, grant, nextAccount, clients>>
        /\ pc[o] = "exchange" /\ pc'[o] = "callback"
        /\ \A p \in Ops \ {o} : pc'[p] = pc[p] /\ job'[p] = job[p]
    BY <1>2, HandlerNow DEF Exchange, durable, minted
  <1>4. /\ job'[o].subject = s /\ job'[o].email = e /\ job'[o].token = t
        /\ job'[o].before = job[o].before
    BY <1>2, HandlerNow DEF Job
  <1>5. t # NoToken => t.subject = s /\ t.grant = grant[s] /\ Live(t) /\ GrantKnown(t)
    BY TypesNow DEF IssuedTo, Live, GrantKnown
  <1>6. \A x \in Subjects : job[o].before[x] =< epochs[x]
    BY <1>3 DEF TokenInv, HandlerTokens, CallbackSound
  <1>7. HandlerTokens(o)'
    BY <1>3, <1>4, <1>5, <1>6
    DEF HandlerTokens, CallbackSound, CommitSound, DisconnectSound, AwaitsCommit,
        Fencing, Settling, Removing, Live, GrantKnown
  <1>8. nextAccount' \in Nat /\ nextAccount =< nextAccount'
    BY <1>3, TypesNow
  <1> QED BY <1>3, <1>7, <1>8, ReaderStep DEF AwaitsCommit

\* A callback that passes the checks under the lock has a live token of its
\* subject, or finds the row of another principal: a token exchanged under an
\* epoch that still stands, or the one on file for a row that is not on its
\* way out.
LEMMA AcceptedToken ==
    ASSUME OwnAddresses, IInv, DebtInv, TokenInv, NEW o \in Ops, pc[o] = "callback",
           NEW id, id = Matched(o), CallbackAccepted(o, id)
    PROVE  LET t == RefreshOf(o, id)
               s == job[o].subject
           IN  /\ t # NoToken /\ t.subject = s /\ GrantKnown(t)
               /\ Live(t) \/ (id = 0 /\ Owners(s) # {})
  <1> DEFINE t == RefreshOf(o, id)
             s == job[o].subject
  <1>1. /\ t # NoToken
        /\ job[o].before[s] = epochs[s]
        /\ \/ id = 0
           \/ /\ id \in DOMAIN records /\ records[id].subject = s
              /\ records[id].state # "disconnecting"
    BY DEF CallbackAccepted, Owned
  <1>2. s \in Subjects /\ job[o].email \in EmailsOf[s] /\ HandlerTokens(o)
    BY HandlerNow DEF HandlerKnows, Learnt, TokenInv, HandlerTokens, CommitSound
  <1>3. CASE job[o].token # NoToken
    <2>1. t = job[o].token
      BY <1>3 DEF RefreshOf
    <2>2. t.subject = s /\ GrantKnown(t) /\ (Live(t) \/ Ending(s))
      BY <1>1, <1>2, <1>3, <2>1 DEF HandlerTokens, CallbackSound
    <2>3. CASE Ending(s) /\ ~ Live(t)
      <3>1. PICK w \in Owners(s) : records[w].state = "disconnecting"
        BY <2>3 DEF Ending
      <3>2. id # 0 => w = id
        BY <1>1, <3>1 DEF Owners, IInv, OneConnectionPerIdentity
      <3>3. id = 0
        BY <1>1, <3>1, <3>2
      <3> QED BY <1>1, <2>2, <3>1, <3>3
    <2> QED BY <1>1, <2>2, <2>3
  <1>4. CASE job[o].token = NoToken
    <2> DEFINE e == IF id = 0 THEN job[o].email ELSE records[id].email
    <2>1. e \in DOMAIN tokens /\ t = tokens[e]
      BY <1>1, <1>4 DEF RefreshOf
    <2>2. e \in EmailsOf[s]
      BY <1>1, <1>2 DEF TokenInv, RowSound
    <2>3. e \in EmailsOf[t.subject] /\ GrantKnown(t) /\ t.subject \in Subjects
      BY <2>1, TypesNow DEF TokenInv, TokenSound
    <2>4. t.subject = s
      BY <1>2, <2>2, <2>3, OneOwner
    <2>5. CASE id # 0
      BY <1>1, <2>1, <2>3, <2>4, <2>5 DEF TokenInv, RowSound
    <2>6. CASE id = 0
      BY <1>1, <1>2, <2>1, <2>2, <2>3, <2>4, <2>6, StoredHasRow
    <2> QED BY <2>5, <2>6
  <1> QED BY <1>3, <1>4

\* The checks made under the lock.
LEMMA LockCallbackKeepsTokens ==
    ASSUME OwnAddresses, IInv, DebtInv, TokenInv, NEW o \in Ops, LockCallback(o)
    PROVE  TokenInv'
  <1> DEFINE id  == Matched(o)
             acc == IF id = 0 THEN nextAccount + 1 ELSE id
             x   == IF id # 0 /\ InDebt(id) THEN "settle" ELSE "commit"
             t   == RefreshOf(o, id)
  <1>1. UNCHANGED <<records, tokens, epochs, grant, clients>> /\ pc[o] = "callback"
    BY DEF LockCallback, durable, google
  <1>2. CASE CallbackAccepted(o, id)
    <2>1. /\ pc' = [pc EXCEPT ![o] = x]
          /\ job' = [job EXCEPT ![o].account = acc, ![o].token = t, ![o].after = "commit"]
          /\ nextAccount' = IF id = 0 THEN acc ELSE nextAccount
      BY <1>2 DEF LockCallback
    <2>2. /\ pc'[o] = x /\ x \in {"settle", "commit"}
          /\ job'[o].account = acc /\ job'[o].token = t /\ job'[o].after = "commit"
          /\ job'[o].subject = job[o].subject /\ job'[o].email = job[o].email
          /\ \A p \in Ops \ {o} : pc'[p] = pc[p] /\ job'[p] = job[p]
      BY <2>1, HandlerNow DEF Job
    <2>3. /\ nextAccount' \in Nat /\ nextAccount =< nextAccount'
          /\ id = 0 => acc \notin 1 .. nextAccount
          /\ id # 0 => acc = id
      BY <2>1, TypesNow
    <2>4. /\ t.subject = job[o].subject /\ GrantKnown(t)
          /\ Live(t) \/ (id = 0 /\ Owners(job[o].subject) # {})
      BY <1>1, <1>2, AcceptedToken
    <2>5. id # 0 => id \in DOMAIN records /\ records[id].state # "disconnecting"
      BY <1>2 DEF CallbackAccepted, Owned
    <2>6. acc \in DOMAIN records => id # 0
      BY <2>3, TypesNow
    <2>7. job[o].email \in EmailsOf[job[o].subject]
      BY <1>1 DEF TokenInv, HandlerTokens, CommitSound
    <2> HIDE DEF id, acc, x, t
    <2>8. HandlerTokens(o)'
      <3>1. CommitSound(o)'
        BY <1>1, <2>2, <2>3, <2>4, <2>5, <2>6, <2>7
        DEF CommitSound, AwaitsCommit, Live, Owners
      <3>2. CallbackSound(o)' /\ DisconnectSound(o)' /\ GrantKnown(job[o].token)'
        BY <1>1, <2>2, <2>4 DEF CallbackSound, DisconnectSound, Fencing, Settling,
                                Removing, GrantKnown
      <3> QED BY <3>1, <3>2 DEF HandlerTokens
    <2> QED BY <1>1, <2>2, <2>3, <2>5, <2>8, ReaderStep DEF AwaitsCommit
  <1>3. CASE ~ CallbackAccepted(o, id)
    <2>1. Return(o) /\ UNCHANGED nextAccount
      BY <1>3 DEF LockCallback
    <2> QED BY <1>1, <2>1, ReturnKeepsTokens
  <1> QED BY <1>2, <1>3

\* A disconnect takes the token of its row with it, if it could read one.
LEMMA DisconnectKeepsTokens ==
    ASSUME IInv, TokenInv, NEW o \in Ops, NEW p \in Principals, NEW id \in AccountIds,
           Disconnect(o, p, id)
    PROVE  TokenInv'
  <1> DEFINE rec == records[id]
             kept(f) == IF rec.email \in DOMAIN tokens /\ ~ f
                          THEN tokens[rec.email] ELSE NoToken
             mine(f) == [NoJob EXCEPT !.principal = p, !.account = id,
                           !.plan = PlanOf(rec, f), !.after = "bump", !.token = kept(f)]
  <1>1. PICK f \in BOOLEAN :
          IF rec.state = "disconnecting"
            THEN /\ Fenced(o, id, PlanOf(rec, f))
                 /\ job' = [job EXCEPT ![o] = IF PlanOf(rec, f) = "idle"
                                               THEN NoJob ELSE mine(f)]
            ELSE /\ pc' = [pc EXCEPT ![o] = IF InDebt(id) THEN "settle" ELSE "bump"]
                 /\ job' = [job EXCEPT ![o] = mine(f)]
                 /\ UNCHANGED clients
    BY DEF Disconnect
  <1>2. /\ UNCHANGED <<records, tokens, epochs, grant, nextAccount>>
        /\ id \in DOMAIN records
        /\ UNCHANGED clients \/ Invalidate(id)
    BY <1>1 DEF Disconnect, durable, google, minted, Owned, Fenced
  <1>3. /\ PlanOf(rec, f) \in {"idle", "revoke", "relock"}
        /\ PlanOf(rec, f) = "revoke" => rec.email \in DOMAIN tokens /\ ~ f
        /\ PlanOf(rec, f) = "relock" => LocalStage(rec) \/ rec.email \notin DOMAIN tokens
    BY DEF PlanOf
  <1>4. /\ mine(f).account = id /\ mine(f).plan = PlanOf(rec, f) /\ mine(f).token = kept(f)
        /\ mine(f).after = "bump" /\ NoJob.token = NoToken
    <2> HIDE DEF kept
    <2> QED BY DEF NoJob
  <1>5. /\ kept(f) # NoToken => GrantKnown(kept(f))
        /\ rec.email \in DOMAIN tokens /\ ~ f => kept(f) = tokens[rec.email]
        /\ kept(f) # NoToken => kept(f) \in Token
    BY TypesNow DEF TokenInv, TokenSound
  <1>6. id \in 1 .. nextAccount /\ RowSound(id) /\ nextAccount' \in Nat
        /\ nextAccount =< nextAccount'
    BY <1>2, TypesNow DEF TokenInv
  <1>7. NoToken.subject \notin Subjects
    BY NamesAssumption DEF NoToken
  <1> HIDE DEF mine
  <1>8. CASE rec.state = "disconnecting"
    <2> DEFINE y == IF PlanOf(rec, f) = "idle" THEN NoJob ELSE mine(f)
    <2>1. /\ pc'[o] = PlanOf(rec, f) /\ job'[o] = y
          /\ \A q \in Ops \ {o} : pc'[q] = pc[q] /\ job'[q] = job[q]
      BY <1>1, <1>8, HandlerNow DEF Fenced
    <2>2. CASE PlanOf(rec, f) = "idle"
      <3>1. HandlerTokens(o)'
        BY <2>1, <2>2, IdleSound
      <3> QED BY <1>2, <1>6, <2>1, <2>2, <3>1, ReaderStep DEF AwaitsCommit
    <2>3. CASE PlanOf(rec, f) # "idle"
      <3>1. job'[o] = mine(f) /\ pc'[o] \in {"revoke", "relock"}
        BY <1>3, <2>1, <2>3
      <3>2. pc'[o] = "revoke" => kept(f) = tokens[rec.email] /\ rec.email \in DOMAIN tokens
        BY <1>3, <1>5, <2>1
      <3>3. kept(f) = tokens[rec.email] /\ rec.email \in DOMAIN tokens => kept(f) \in Token
        BY TypesNow
      <3>4. pc'[o] = "relock" => Spent(id)
        BY <1>3, <1>6, <2>1 DEF RowSound, Spent
      <3> HIDE DEF kept
      <3>5. DisconnectSound(o)'
        BY <1>2, <1>4, <1>6, <1>8, <3>1, <3>2, <3>3, <3>4
        DEF DisconnectSound, Fencing, Settling, Removing, Spent, Live
      <3>6. HandlerTokens(o)'
        BY <1>2, <1>4, <1>5, <3>1, <3>5
        DEF HandlerTokens, CallbackSound, CommitSound, AwaitsCommit, GrantKnown
      <3> QED BY <1>2, <1>4, <1>6, <2>1, <3>1, <3>6, ReaderStep DEF AwaitsCommit
    <2> QED BY <2>2, <2>3
  <1>9. CASE rec.state # "disconnecting"
    <2>1. /\ pc'[o] \in {"settle", "bump"} /\ job'[o] = mine(f)
          /\ \A q \in Ops \ {o} : pc'[q] = pc[q] /\ job'[q] = job[q]
      BY <1>1, <1>9, HandlerNow
    <2>2. ~ LocalStage(rec)
      BY <1>9 DEF LocalStage
    <2> HIDE DEF kept
    <2>3. DisconnectSound(o)'
      BY <1>2, <1>3, <1>4, <1>5, <2>1, <2>2
      DEF DisconnectSound, Fencing, Settling, Removing
    <2>4. HandlerTokens(o)'
      BY <1>2, <1>4, <1>5, <2>1, <2>3
      DEF HandlerTokens, CallbackSound, CommitSound, AwaitsCommit, GrantKnown
    <2> QED BY <1>2, <1>4, <1>6, <2>1, <2>4, ReaderStep DEF AwaitsCommit
  <1> QED BY <1>8, <1>9

\* Taking the lock again after the revoke: the token of the row is dead.
LEMMA RelockKeepsTokens ==
    ASSUME IInv, TokenInv, NEW o \in Ops, Relock(o)
    PROVE  TokenInv'
  <1>1. UNCHANGED <<records, tokens, epochs, grant, nextAccount, clients>> /\ pc[o] = "relock"
    BY DEF Relock, durable, google, minted
  <1>2. CASE Return(o)
    BY <1>1, <1>2, ReturnKeepsTokens
  <1>3. CASE Goto(o, "stage") /\ job[o].account \in DOMAIN records
    <2>1. /\ pc'[o] = "stage" /\ job'[o] = job[o]
          /\ \A p \in Ops \ {o} : pc'[p] = pc[p] /\ job'[p] = job[p]
      BY <1>3, GotoMoves
    <2>2. HandlerTokens(o)
      BY DEF TokenInv
    <2>3. HandlerTokens(o)'
      BY <1>1, <1>3, <2>1, <2>2
      DEF HandlerTokens, CallbackSound, CommitSound, DisconnectSound, AwaitsCommit,
          Fencing, Settling, Removing, GrantKnown, Spent, Live
    <2>4. nextAccount' \in Nat /\ nextAccount =< nextAccount'
      BY <1>1, TypesNow
    <2> QED BY <1>1, <2>1, <2>3, <2>4, ReaderStep DEF AwaitsCommit
  <1> QED BY <1>2, <1>3 DEF Relock

\* A step that leaves every handler, the files and Google alone.
LEMMA QuietKeepsTokens ==
    ASSUME TokenInv, UNCHANGED <<records, tokens, epochs, grant, nextAccount, pc, job>>,
           \A id \in DOMAIN clients' : ClientSound(id)'
    PROVE  TokenInv'
  <1>1. \A id \in DOMAIN records' : RowSound(id)'
    BY DEF TokenInv, RowSound, InDebt, LocalStage, Spent, Live
  <1>2. \A e \in DOMAIN tokens' : TokenSound(e)'
    BY DEF TokenInv, TokenSound, GrantKnown
  <1>3. ASSUME NEW p \in Ops
        PROVE  HandlerTokens(p)'
    <2>1. HandlerTokens(p)
      BY DEF TokenInv
    <2>2. CallbackSound(p)'
      <3>1. \A s : Ending(s) => Ending(s)'
        BY DEF Ending, Owners
      <3> QED BY <2>1, <3>1 DEF HandlerTokens, CallbackSound, Live
    <2>3. CommitSound(p)'
      BY <2>1 DEF HandlerTokens, CommitSound, AwaitsCommit, Live, Owners
    <2>4. DisconnectSound(p)'
      BY <2>1 DEF HandlerTokens, DisconnectSound, Fencing, Settling, Removing, Live, Spent
    <2> QED BY <2>1, <2>2, <2>3, <2>4 DEF HandlerTokens, GrantKnown
  <1>4. FreshAccount'
    BY DEF TokenInv, FreshAccount, AwaitsCommit
  <1> QED BY <1>1, <1>2, <1>3, <1>4 DEF TokenInv

\* Listings carry no token.
LEMMA ListKeepsTokens ==
    ASSUME IInv, TokenInv, NEW o \in Ops,
           ListNext(o) \/ \E p \in Principals : ListAccounts(o, p)
    PROVE  TokenInv'
  <1>1. UNCHANGED <<records, tokens, epochs, grant, nextAccount, clients>>
    BY DEF ListNext, ListAccounts, durable, google, minted
  <1>2. nextAccount' \in Nat /\ nextAccount =< nextAccount'
    BY <1>1, TypesNow
  <1>3. CASE Return(o)
    BY <1>1, <1>3, ReturnKeepsTokens
  <1>4. CASE UNCHANGED <<pc, job>>
    BY <1>1, <1>4, QuietKeepsTokens DEF TokenInv, ClientSound
  <1>5. ASSUME pc'[o] \in {"list", "settle"}, job'[o].after = "list",
               job'[o].token # NoToken => job'[o].token = job[o].token,
               \A p \in Ops \ {o} : pc'[p] = pc[p] /\ job'[p] = job[p]
        PROVE  TokenInv'
    <2>1. HandlerTokens(o)'
      BY <1>1, <1>5
      DEF TokenInv, HandlerTokens, CallbackSound, CommitSound, DisconnectSound,
          AwaitsCommit, Fencing, Settling, Removing, GrantKnown
    <2> QED BY <1>1, <1>2, <1>5, <2>1, ReaderStep DEF AwaitsCommit
  <1>6. CASE ListNext(o) /\ ~ Return(o)
    <2>1. pc[o] = "list" /\ job[o].after = "list"
      BY <1>6, HandlerNow DEF ListNext, HandlerKnows, Learnt
    <2>2. PICK id \in job[o].todo :
             /\ job' = [job EXCEPT ![o].account = id, ![o].todo = @ \ {id}]
             /\ pc' = [pc EXCEPT ![o] = "settle"]
      BY <1>6 DEF ListNext
    <2> QED BY <1>5, <2>1, <2>2, HandlerNow DEF Job
  <1>7. ASSUME NEW p \in Principals, ListAccounts(o, p)
        PROVE  TokenInv'
    <2> DEFINE debts == {id \in DOMAIN records : Owned(id, p) /\ InDebt(id)}
               y == [NoJob EXCEPT !.principal = p, !.after = "list", !.todo = debts]
    <2>1. CASE pc' = [pc EXCEPT ![o] = "list"] /\ job' = [job EXCEPT ![o] = y]
      <3>1. y.after = "list" /\ y.token = NoToken
        BY DEF NoJob
      <3> HIDE DEF y
      <3> QED BY <1>5, <2>1, <3>1, HandlerNow
    <2> QED BY <1>4, <1>7, <2>1 DEF ListAccounts
  <1> QED BY <1>3, <1>6, <1>7

(***************************************************************************)
(* Steps under the lock that write the files                               *)
(***************************************************************************)

\* A row on its way out keeps its subject, its address and the stored token of
\* that address until it is removed; a token that is dead may go before.
DyingKept ==
    \A id \in DOMAIN records : records[id].state = "disconnecting" =>
        LET e == records[id].email IN
        /\ id \in DOMAIN records' => /\ records'[id].state = "disconnecting"
                                     /\ records'[id].subject = records[id].subject
                                     /\ records'[id].email = e
        /\ id \notin DOMAIN records' => e \notin DOMAIN tokens
        /\ e \in DOMAIN tokens' => e \in DOMAIN tokens /\ tokens'[e] = tokens[e]
        /\ e \in DOMAIN tokens /\ Live(tokens[e]) => e \in DOMAIN tokens'

\* A step of the handler that holds the lock keeps the invariant when rows on
\* their way out are kept, only the row it works on comes or goes, and rows,
\* tokens, clients and the handler itself are sound after it.
LEMMA LockedStep ==
    ASSUME IInv, TokenInv, NEW o \in Ops, lock = o,
           \A p \in Ops \ {o} : pc'[p] = pc[p] /\ job'[p] = job[p],
           UNCHANGED <<epochs, grant, nextAccount>>,
           DyingKept,
           \A id \in DOMAIN records \ DOMAIN records' :
              pc[o] = "delete_record" /\ id = job[o].account,
           \A id \in DOMAIN records' \ DOMAIN records :
              pc[o] = "commit" /\ id = job[o].account,
           pc'[o] \in {"delete_token", "delete_record"}
              => pc[o] = "delete_token" /\ job'[o].account = job[o].account,
           AwaitsCommit(o)' => /\ AwaitsCommit(o) /\ job'[o].account = job[o].account
                               /\ DOMAIN records' = DOMAIN records,
           HandlerTokens(o)',
           \A id \in DOMAIN records' : RowSound(id)',
           \A e \in DOMAIN tokens' : TokenSound(e)',
           \A id \in DOMAIN clients' : ClientSound(id)'
    PROVE  TokenInv'
  <1>1. ASSUME NEW s, Ending(s)
        PROVE  Ending(s)'
    <2>1. PICK id \in Owners(s) :
             /\ records[id].state = "disconnecting"
             /\ \A p \in Ops : pc[p] \in {"delete_token", "delete_record"}
                                  => job[p].account # id
      BY <1>1 DEF Ending
    <2>2. id \in DOMAIN records'
      BY <2>1 DEF Owners
    <2>3. records'[id].state = "disconnecting" /\ records'[id].subject = s
      BY <2>1, <2>2 DEF DyingKept, Owners
    <2>4. \A p \in Ops : pc'[p] \in {"delete_token", "delete_record"}
                            => job'[p].account # id
      BY <2>1
    <2> QED BY <2>2, <2>3, <2>4 DEF Ending, Owners
  <1>2. ASSUME NEW p \in Ops, p # o
        PROVE  HandlerTokens(p)'
    <2>1. pc'[p] = pc[p] /\ job'[p] = job[p] /\ HandlerTokens(p) /\ pc[p] \notin Holding
      BY <1>2, OthersOutside DEF TokenInv
    <2>2. CallbackSound(p)'
      BY <1>1, <2>1 DEF HandlerTokens, CallbackSound, Live
    <2>3. CommitSound(p)'
      BY <2>1 DEF HandlerTokens, CommitSound, AwaitsCommit, Holding, PCs
    <2>4. DisconnectSound(p)'
      <3> DEFINE a == job[p].account
                 t == job[p].token
                 e == records[a].email
      <3>1. DisconnectSound(p)
        BY <2>1 DEF HandlerTokens
      <3>2. ~ Fencing(p)' /\ ~ Removing(p)'
        BY <2>1 DEF Fencing, Settling, Removing, Holding, PCs
      <3>3. CASE pc[p] \in {"revoke", "relock"}
        <4>1. /\ a \in 1 .. nextAccount
              /\ a \in DOMAIN records => records[a].state = "disconnecting"
          BY <3>1, <3>3 DEF DisconnectSound
        <4>2. a \in DOMAIN records' => a \in DOMAIN records
          <5>1. AwaitsCommit(o) \/ pc[o] # "commit"
            BY DEF AwaitsCommit
          <5> QED BY <3>3, <5>1 DEF TokenInv, FreshAccount
        <4>3. a \in DOMAIN records' => records'[a].state = "disconnecting"
                                        /\ records'[a].email = e
          BY <4>1, <4>2 DEF DyingKept
        <4>4. a \in DOMAIN records => /\ a \notin DOMAIN records' => e \notin DOMAIN tokens
                                      /\ e \in DOMAIN tokens' => /\ e \in DOMAIN tokens
                                                                 /\ tokens'[e] = tokens[e]
                                      /\ e \in DOMAIN tokens /\ Live(tokens[e])
                                            => e \in DOMAIN tokens'
          BY <4>1 DEF DyingKept
        <4>5. CASE pc[p] = "revoke"
          <5>1. /\ t \in Token
                /\ a \in DOMAIN records /\ e \in DOMAIN tokens => tokens[e] = t
                /\ Live(t) => a \in DOMAIN records /\ e \in DOMAIN tokens
            BY <3>1, <4>5 DEF DisconnectSound
          <5>2. Live(t)' <=> Live(t)
            BY <2>1 DEF Live
          <5>3. Live(t) => a \in DOMAIN records' /\ e \in DOMAIN tokens'
            BY <4>4, <5>1
          <5>4. a \in DOMAIN records' /\ e \in DOMAIN tokens' => tokens'[e] = t
            BY <4>2, <4>4, <5>1
          <5> HIDE DEF a, t, e
          <5>5. job'[p].account = a /\ job'[p].token = t
            BY <2>1 DEF a, t
          <5> QED BY <2>1, <3>2, <4>1, <4>3, <4>5, <5>1, <5>2, <5>3, <5>4, <5>5
                  DEF DisconnectSound, Live
        <4>6. CASE pc[p] = "relock"
          <5>1. a \in DOMAIN records /\ e \in DOMAIN tokens => ~ Live(tokens[e])
            BY <3>1, <4>6 DEF DisconnectSound, Spent
          <5>2. a \in DOMAIN records' /\ e \in DOMAIN tokens' => ~ Live(tokens[e])
                                                                 /\ tokens'[e] = tokens[e]
            BY <4>2, <4>4, <5>1
          <5> HIDE DEF a, t, e
          <5>3. job'[p].account = a
            BY <2>1 DEF a
          <5> QED BY <2>1, <3>2, <4>1, <4>3, <4>6, <5>2, <5>3 DEF DisconnectSound, Spent, Live
        <4> QED BY <3>3, <4>5, <4>6
      <3>4. CASE pc[p] \notin {"revoke", "relock"}
        BY <2>1, <3>2, <3>4 DEF DisconnectSound
      <3> QED BY <3>3, <3>4
    <2> QED BY <2>1, <2>2, <2>3, <2>4 DEF HandlerTokens, GrantKnown
  <1>3. FreshAccount'
    <2> SUFFICES ASSUME NEW q \in Ops, NEW p \in Ops, pc'[p] \in {"revoke", "relock"},
                        AwaitsCommit(q)', job'[q].account \notin DOMAIN records'
                 PROVE  job'[p].account # job'[q].account
      BY DEF FreshAccount
    <2>1. q = o
      <3>1. CASE q # o
        <4>1. pc[q] \in {"commit", "settle", "settled"} /\ pc[q] \notin Holding
          BY <3>1, OthersOutside DEF AwaitsCommit
        <4> QED BY <4>1 DEF Holding, PCs
      <3> QED BY <3>1
    <2>2. p # o
      BY <2>1 DEF AwaitsCommit
    <2>3. AwaitsCommit(o) /\ job'[o].account = job[o].account
          /\ job[o].account \notin DOMAIN records
      BY <2>1
    <2> QED BY <2>1, <2>2, <2>3 DEF TokenInv, FreshAccount
  <1> QED BY <1>2, <1>3 DEF TokenInv

\* Evicting clients leaves sound ones when the step touches no row and no
\* token a client was made from.
LEMMA ClientsStay ==
    ASSUME TokenInv, UNCHANGED clients \/ (\E c : Invalidate(c)),
           \A id \in DOMAIN clients' : id \in DOMAIN records /\ records[id].state = "active" =>
              /\ id \in DOMAIN records' /\ records'[id].state = "active"
              /\ records'[id].generation = records[id].generation
              /\ records'[id].email = records[id].email
              /\ records[id].email \in DOMAIN tokens =>
                    /\ records[id].email \in DOMAIN tokens'
                    /\ tokens'[records[id].email] = tokens[records[id].email]
    PROVE  \A id \in DOMAIN clients' : ClientSound(id)'
  <1>1. \A id \in DOMAIN clients' : id \in DOMAIN clients /\ clients'[id] = clients[id]
    BY DEF Invalidate, DropKey
  <1> QED BY <1>1 DEF TokenInv, ClientSound

\* The token write of a callback replaces the token of its own pending row by
\* a live one.
LEMMA PutTokenKeepsTokens ==
    ASSUME OwnAddresses, IInv, TokenInv, NEW o \in Ops, PutToken(o)
    PROVE  DyingKept /\ TokenInv'
  <1> DEFINE id == job[o].account
             e  == records[id].email
             t  == job[o].token
  <1>1. /\ pc[o] = "put" /\ lock = o
        /\ UNCHANGED <<records, epochs, grant, nextAccount>>
        /\ id \in DOMAIN records
        /\ UNCHANGED clients \/ (\E c : Invalidate(c))
    BY HandlerNow DEF PutToken, google, minted, Holding, OnRow, PCs
  <1>2. tokens' = tokens \/ tokens' = SetKey(tokens, e, t)
    BY DEF PutToken
  <1>3. /\ records[id].state = "pending" /\ t.subject = records[id].subject /\ Live(t)
        /\ HandlerTokens(o) /\ RowSound(id)
    BY <1>1 DEF TokenInv, HandlerTokens, CommitSound
  <1>4. GrantKnown(t)
    <2>1. t # NoToken
      BY <1>1, TypesNow, HandlerNow DEF HandlerKnows, Learnt
    <2> QED BY <1>3, <2>1 DEF HandlerTokens
  <1>5. \A w \in DOMAIN records : w # id => records[w].email # e
    BY <1>1 DEF IInv, OneConnectionPerIdentity
  <1>6. /\ \A x \in DOMAIN tokens' : \/ x \in DOMAIN tokens /\ tokens'[x] = tokens[x]
                                     \/ x = e /\ tokens'[x] = t
        /\ \A x : x # e => (x \in DOMAIN tokens' <=> x \in DOMAIN tokens)
        /\ DOMAIN tokens \subseteq DOMAIN tokens'
    BY <1>2 DEF SetKey
  <1>7. \A w \in DOMAIN records' : RowSound(w)'
    <2> SUFFICES ASSUME NEW w \in DOMAIN records PROVE RowSound(w)'
      BY <1>1
    <2>1. RowSound(w)
      BY DEF TokenInv
    <2>2. CASE w # id
      BY <1>1, <1>5, <1>6, <2>1, <2>2 DEF RowSound, InDebt, LocalStage, Spent, Live
    <2>3. CASE w = id
      <3>1. e \in DOMAIN tokens' => Live(tokens'[e])
        BY <1>3, <1>6 DEF RowSound
      <3> HIDE DEF id, e, t
      <3> QED BY <1>1, <1>3, <2>1, <2>3, <3>1 DEF RowSound, InDebt, LocalStage, Live, e
    <2> QED BY <2>2, <2>3
  <1>8. \A x \in DOMAIN tokens' : TokenSound(x)'
    <2>1. e \in EmailsOf[t.subject]
      BY <1>3 DEF RowSound
    <2> HIDE DEF e, t
    <2> QED BY <1>1, <1>4, <1>6, <2>1 DEF TokenInv, TokenSound, GrantKnown
  <1>9. \A c \in DOMAIN clients' : ClientSound(c)'
    <2> HIDE DEF e, t
    <2>1. \A c \in DOMAIN records : records[c].state = "active" => c # id
      BY <1>3
    <2> QED BY <1>1, <1>5, <1>6, <2>1, ClientsStay
  <1>10. DyingKept
    <2>1. \A c \in DOMAIN records : records[c].state = "disconnecting" => c # id
      BY <1>3
    <2> HIDE DEF e, t, id
    <2> QED BY <1>1, <1>5, <1>6, <2>1 DEF DyingKept
  <1>11. CASE tokens' = SetKey(tokens, e, t) /\ Goto(o, "activate")
    <2>1. e \in DOMAIN tokens'
      BY <1>11 DEF SetKey
    <2>2. /\ pc'[o] = "activate" /\ job'[o] = job[o]
          /\ \A p \in Ops \ {o} : pc'[p] = pc[p] /\ job'[p] = job[p]
      BY <1>11, GotoMoves
    <2>3. HandlerTokens(o)'
      BY <1>1, <1>3, <2>1, <2>2
      DEF HandlerTokens, CallbackSound, CommitSound, DisconnectSound, AwaitsCommit,
          Fencing, Settling, Removing, GrantKnown
    <2> QED BY <1>1, <1>7, <1>8, <1>9, <1>10, <2>2, <2>3, LockedStep DEF AwaitsCommit
  <1>12. CASE Return(o)
    BY <1>1, <1>7, <1>8, <1>9, <1>10, <1>12, ReturnMoves, IdleSound, LockedStep DEF AwaitsCommit
  <1> QED BY <1>10, <1>11, <1>12 DEF PutToken

\* The deletion of an owed token: no row has its address.
LEMMA SettleDeleteKeepsTokens ==
    ASSUME OwnAddresses, IInv, DebtInv, TokenInv, NEW o \in Ops, SettleDelete(o)
    PROVE  DyingKept /\ TokenInv'
  <1> DEFINE id == job[o].account
             e  == records[id].cleanup.email
  <1>1. /\ pc[o] = "settle" /\ lock = o
        /\ UNCHANGED <<records, epochs, grant, nextAccount, clients>>
        /\ id \in DOMAIN records /\ InDebt(id) /\ HandlerTokens(o)
        /\ tokens' = tokens \/ tokens' = DropKey(tokens, e)
    BY HandlerNow DEF SettleDelete, google, minted, Holding, OnRow, PCs,
                      DebtInv, HandlerDebts, Settling, TokenInv
  <1>2. \A w \in DOMAIN records : records[w].email # e
    BY <1>1, DebtsAreNobodys
  <1>3. /\ \A x \in DOMAIN tokens' : x \in DOMAIN tokens /\ tokens'[x] = tokens[x]
        /\ \A x : x # e => (x \in DOMAIN tokens' <=> x \in DOMAIN tokens)
    BY <1>1 DEF DropKey
  <1> HIDE DEF e
  <1>4. \A w \in DOMAIN records' : RowSound(w)'
    BY <1>1, <1>2, <1>3 DEF TokenInv, RowSound, InDebt, LocalStage, Spent, Live
  <1>5. \A x \in DOMAIN tokens' : TokenSound(x)'
    BY <1>1, <1>3 DEF TokenInv, TokenSound, GrantKnown
  <1>6. \A c \in DOMAIN clients' : ClientSound(c)'
    BY <1>1, <1>2, <1>3, ClientsStay
  <1>7. DyingKept
    BY <1>1, <1>2, <1>3 DEF DyingKept
  <1>8. CASE Goto(o, "settled")
    <2>1. /\ pc'[o] = "settled" /\ job'[o] = job[o]
          /\ \A p \in Ops \ {o} : pc'[p] = pc[p] /\ job'[p] = job[p]
      BY <1>8, GotoMoves
    <2>2. AwaitsCommit(o)' => AwaitsCommit(o)
      BY <1>1, <2>1 DEF AwaitsCommit
    <2>3. Fencing(o)' => Fencing(o)
      BY <1>1, <2>1 DEF Fencing, Settling
    <2>4. CommitSound(o)'
      BY <1>1, <2>1, <2>2
      DEF HandlerTokens, CommitSound, Live, Owners
    <2>5. DisconnectSound(o)'
      BY <1>1, <1>2, <1>3, <2>1, <2>3
      DEF HandlerTokens, DisconnectSound, Removing
    <2>6. HandlerTokens(o)'
      BY <1>1, <2>1, <2>4, <2>5 DEF HandlerTokens, CallbackSound, GrantKnown
    <2> QED BY <1>1, <1>4, <1>5, <1>6, <1>7, <2>1, <2>2, <2>6, LockedStep
  <1>9. CASE StillPending(o)
    <2>1. HandlerTokens(o)'
      <3>1. CASE Return(o)
        BY <3>1, ReturnMoves, IdleSound
      <3>2. CASE Goto(o, job[o].after) /\ job[o].after \in {"finish", "list"}
        BY <1>1, <3>2, GotoMoves
        DEF HandlerTokens, CallbackSound, CommitSound, DisconnectSound, AwaitsCommit,
            Fencing, Settling, Removing, GrantKnown
      <3> QED BY <1>9, <3>1, <3>2 DEF StillPending
    <2>2. /\ pc'[o] \in {"idle", "finish", "list"}
          /\ \A p \in Ops \ {o} : pc'[p] = pc[p] /\ job'[p] = job[p]
      BY <1>9, StillPendingMoves
    <2> QED BY <1>1, <1>4, <1>5, <1>6, <1>7, <2>1, <2>2, LockedStep DEF AwaitsCommit
  <1> QED BY <1>7, <1>8, <1>9 DEF SettleDelete

\* The deletion of the token of a row on its way out: it is dead by then.
LEMMA DeleteTokenKeepsTokens ==
    ASSUME IInv, DebtInv, TokenInv, NEW o \in Ops, DeleteToken(o)
    PROVE  DyingKept /\ TokenInv'
  <1> DEFINE id == job[o].account
             e  == records[id].email
  <1>1. /\ pc[o] = "delete_token" /\ lock = o
        /\ UNCHANGED <<records, epochs, grant, nextAccount, clients>>
        /\ id \in DOMAIN records /\ HandlerTokens(o)
        /\ records[id].state = "disconnecting"
        /\ tokens' = tokens \/ tokens' = DropKey(tokens, e)
    BY HandlerNow DEF DeleteToken, google, minted, Holding, OnRow, PCs,
                      DebtInv, HandlerDebts, Removing, TokenInv
  <1>2. \A w \in DOMAIN records : w # id => records[w].email # e
    BY <1>1 DEF IInv, OneConnectionPerIdentity
  <1>3. /\ \A x \in DOMAIN tokens' : x \in DOMAIN tokens /\ tokens'[x] = tokens[x]
        /\ \A x : x # e => (x \in DOMAIN tokens' <=> x \in DOMAIN tokens)
    BY <1>1 DEF DropKey
  <1>4. e \in DOMAIN tokens => ~ Live(tokens[e])
    BY <1>1 DEF HandlerTokens, DisconnectSound, Removing, Spent
  <1> HIDE DEF e
  <1>5. \A w \in DOMAIN records' : RowSound(w)'
    <2> SUFFICES ASSUME NEW w \in DOMAIN records PROVE RowSound(w)'
      BY <1>1
    <2>1. RowSound(w)
      BY DEF TokenInv
    <2>2. CASE w # id
      BY <1>1, <1>2, <1>3, <2>1, <2>2 DEF RowSound, InDebt, LocalStage, Spent, Live
    <2>3. CASE w = id
      BY <1>1, <1>3, <2>1, <2>3 DEF RowSound, InDebt, LocalStage, Spent, Live
    <2> QED BY <2>2, <2>3
  <1>6. \A x \in DOMAIN tokens' : TokenSound(x)'
    BY <1>1, <1>3 DEF TokenInv, TokenSound, GrantKnown
  <1>7. \A c \in DOMAIN clients' : ClientSound(c)'
    <2>1. \A c \in DOMAIN records : records[c].state = "active" => c # id
      BY <1>1
    <2> QED BY <1>1, <1>2, <1>3, <2>1, ClientsStay
  <1>8. DyingKept
    <2> SUFFICES ASSUME NEW w \in DOMAIN records, records[w].state = "disconnecting",
                        NEW a, a = records[w].email
                 PROVE  /\ a \in DOMAIN tokens' => a \in DOMAIN tokens /\ tokens'[a] = tokens[a]
                        /\ a \in DOMAIN tokens /\ Live(tokens[a]) => a \in DOMAIN tokens'
      BY <1>1 DEF DyingKept
    <2> QED BY <1>3, <1>4
  <1>9. CASE Goto(o, "delete_record")
    <2>1. /\ pc'[o] = "delete_record" /\ job'[o] = job[o]
          /\ \A p \in Ops \ {o} : pc'[p] = pc[p] /\ job'[p] = job[p]
      BY <1>9, GotoMoves
    <2>2. Spent(id)'
      BY <1>1, <1>3, <1>4, <2>1 DEF Spent, Live, e
    <2>3. HandlerTokens(o)'
      BY <1>1, <2>1, <2>2
      DEF HandlerTokens, CallbackSound, CommitSound, DisconnectSound, AwaitsCommit,
          Fencing, Settling, Removing, GrantKnown
    <2> QED BY <1>1, <1>5, <1>6, <1>7, <1>8, <2>1, <2>3, LockedStep DEF AwaitsCommit
  <1>10. CASE Return(o)
    BY <1>1, <1>5, <1>6, <1>7, <1>8, <1>10, ReturnMoves, IdleSound, LockedStep
    DEF AwaitsCommit
  <1> QED BY <1>8, <1>9, <1>10 DEF DeleteToken

\* A step that changes one row and no token keeps the rest sound.
LEMMA OneRowStep ==
    ASSUME TokenInv, UNCHANGED <<tokens, grant>>, NEW id,
           DOMAIN records' \subseteq DOMAIN records \cup {id},
           \A w \in DOMAIN records' \ {id} : records'[w] = records[w],
           id \in DOMAIN records' => RowSound(id)'
    PROVE  /\ \A w \in DOMAIN records' : RowSound(w)'
           /\ \A e \in DOMAIN tokens' : TokenSound(e)'
  <1>1. ASSUME NEW w \in DOMAIN records', w # id
        PROVE  RowSound(w)'
    BY <1>1 DEF TokenInv, RowSound, InDebt, LocalStage, Spent, Live
  <1>2. \A e \in DOMAIN tokens' : TokenSound(e)'
    BY DEF TokenInv, TokenSound, GrantKnown
  <1> QED BY <1>1, <1>2

\* Every row but one is as it was, and that one was not on its way out, or
\* still is at the same address.
LEMMA OneRowDying ==
    ASSUME UNCHANGED tokens, NEW id, DOMAIN records \subseteq DOMAIN records',
           \A w \in DOMAIN records \ {id} : records'[w] = records[w],
           id \in DOMAIN records /\ records[id].state = "disconnecting" =>
              /\ records'[id].state = "disconnecting"
              /\ records'[id].subject = records[id].subject
              /\ records'[id].email = records[id].email
    PROVE  DyingKept
  BY DEF DyingKept

\* The commit of a callback.
LEMMA CommitPendingKeepsTokens ==
    ASSUME OwnAddresses, IInv, DebtInv, TokenInv, NEW o \in Ops, CommitPending(o)
    PROVE  DyingKept /\ TokenInv'
  <1> DEFINE id == job[o].account
             e  == job[o].email
             s  == job[o].subject
             t  == job[o].token
  <1>1. /\ pc[o] = "commit" /\ lock = o
        /\ UNCHANGED <<tokens, epochs, grant, nextAccount>>
        /\ Invalidate(id)
        /\ HandlerTokens(o) /\ HandlerDebts(o)
        /\ s \in Subjects
    BY PendingTarget DEF CommitPending, google, minted, TokenInv, DebtInv
  <1>2. /\ e \in EmailsOf[s] /\ t.subject = s
        /\ id \in DOMAIN records => records[id].state # "disconnecting"
        /\ Live(t) \/ (id \notin DOMAIN records /\ Owners(s) # {})
    BY <1>1 DEF HandlerTokens, CommitSound, AwaitsCommit
  <1>3. CASE Commit(id, PendingRow(o)) /\ Goto(o, "put")
    <2>1. /\ Owners(s) \subseteq {id}
          /\ DOMAIN records' = DOMAIN records \cup {id}
          /\ \A w \in DOMAIN records \ {id} : records'[w] = records[w]
          /\ records'[id].subject = s
          /\ records'[id].email = e
          /\ records'[id].state = "pending"
          /\ records'[id].cleanup =
                IF id \in DOMAIN records /\ records[id].email # e
                  THEN TokenKey(records[id].email) ELSE NoCleanup
          /\ records'[id].generation = IF id \in DOMAIN records
                                         THEN records[id].generation + 1 ELSE 1
      BY <1>1, <1>3, PendingWritten
    <2>2. Live(t)
      BY <1>2, <2>1 DEF Owners
    <2>3. id \in DOMAIN records => records[id].subject = s
      BY <1>1, <2>1, PendingTarget DEF Owners
    <2>4. e \in DOMAIN tokens => Live(tokens[e])
      <3> SUFFICES ASSUME e \in DOMAIN tokens PROVE Live(tokens[e])
        OBVIOUS
      <3>1. PICK w \in Owners(s) : records[w].email = e \/ InDebt(w)
        BY <1>1, <1>2, StoredHasRow
      <3>2. w = id /\ id \in DOMAIN records
        BY <2>1, <3>1 DEF Owners
      <3>3. records[id].email = e
        BY <1>1, <3>1, <3>2 DEF HandlerDebts
      <3> QED BY <1>2, <3>2, <3>3 DEF TokenInv, RowSound
    <2>5. \/ records'[id].cleanup.kind = "none"
          \/ /\ id \in DOMAIN records /\ records[id].email # e
             /\ records'[id].cleanup.email = records[id].email
      BY <2>1, CleanupFields
    <2>6. id \in DOMAIN records => records[id].email \in EmailsOf[s]
      BY <2>3 DEF TokenInv, RowSound
    <2>7. records'[id].generation # 0
      BY <2>1, TypesNow
    <2> HIDE DEF id, e, s, t
    <2>8. RowSound(id)'
      <3>1. id' = id
        BY <1>3, GotoMoves DEF id
      <3> QED BY <1>1, <1>2, <2>1, <2>4, <2>5, <2>6, <2>7, <3>1
              DEF RowSound, InDebt, LocalStage, Live
    <2>9. /\ \A w \in DOMAIN records' : RowSound(w)'
          /\ \A x \in DOMAIN tokens' : TokenSound(x)'
      <3>1. \A c : id = c => (RowSound(id)' <=> RowSound(c)')
        <4>1. id' = id
          BY <1>3, GotoMoves DEF id
        <4> QED BY <4>1 DEF RowSound, InDebt, LocalStage, Spent, Live
      <3> QED BY <1>1, <2>1, <2>8, <3>1, OneRowStep
    <2>10. DyingKept
      BY <1>1, <1>2, <2>1, OneRowDying
    <2>11. \A c \in DOMAIN clients' : ClientSound(c)'
      <3>1. \A c \in DOMAIN clients' : c # id
        BY <1>1 DEF Invalidate, DropKey
      <3> QED BY <1>1, <2>1, <3>1, ClientsStay
    <2>12. /\ pc'[o] = "put" /\ job'[o] = job[o]
           /\ \A p \in Ops \ {o} : pc'[p] = pc[p] /\ job'[p] = job[p]
      BY <1>3, GotoMoves
    <2>13. HandlerTokens(o)'
      BY <1>1, <1>2, <2>1, <2>2, <2>12
      DEF HandlerTokens, CallbackSound, CommitSound, DisconnectSound, AwaitsCommit,
          Fencing, Settling, Removing, GrantKnown, Live, id, s, t
    <2> QED BY <1>1, <2>1, <2>9, <2>10, <2>11, <2>12, <2>13, LockedStep DEF AwaitsCommit, id
  <1>4. CASE Return(o) /\ UNCHANGED records
    BY <1>1, <1>4, ReturnKeepsTokens DEF DyingKept
  <1> QED BY <1>3, <1>4 DEF CommitPending

\* A commit that keeps the subject, the address and the state of the row of a
\* handler under the lock, and its token facts.
LEMMA RowKeptStep ==
    ASSUME IInv, TokenInv, NEW o \in Ops, lock = o, NEW id, id = job[o].account,
           UNCHANGED <<tokens, epochs, grant, nextAccount, clients>>,
           pc[o] \in OnRow, DOMAIN records' = DOMAIN records,
           \A w \in DOMAIN records \ {id} : records'[w] = records[w],
           records'[id].subject = records[id].subject,
           records'[id].email = records[id].email,
           records'[id].state = records[id].state,
           records'[id].generation = records[id].generation
    PROVE  /\ DyingKept
           /\ \A c \in DOMAIN clients' : ClientSound(c)'
           /\ RowSound(id)' => /\ \A w \in DOMAIN records' : RowSound(w)'
                               /\ \A x \in DOMAIN tokens' : TokenSound(x)'
  <1>1. DyingKept
    BY OneRowDying
  <1>2. \A c \in DOMAIN clients' : ClientSound(c)'
    BY ClientsStay
  <1>3. RowSound(id)' => /\ \A w \in DOMAIN records' : RowSound(w)'
                         /\ \A x \in DOMAIN tokens' : TokenSound(x)'
    BY OneRowStep
  <1> QED BY <1>1, <1>2, <1>3

\* The activation finds the token of its pending row stored and live.
LEMMA ActivateKeepsTokens ==
    ASSUME IInv, TokenInv, NEW o \in Ops, NEW id, id = job[o].account, Activate(o)
    PROVE  DyingKept /\ TokenInv'
  <1> DEFINE rec == [records[id] EXCEPT !.state = "active"]
  <1>1. /\ pc[o] = "activate" /\ lock = o /\ pc[o] \in OnRow
        /\ UNCHANGED <<tokens, epochs, grant, nextAccount, clients>>
        /\ HandlerTokens(o) /\ id \in DOMAIN records /\ RowSound(id)
        /\ records[id] \in Record
    BY HandlerNow DEF Activate, google, minted, Holding, OnRow, PCs, TokenInv
  <1>2. records[id].state = "pending" /\ records[id].email \in DOMAIN tokens
    BY <1>1 DEF HandlerTokens, CommitSound
  <1>3. CASE /\ Commit(id, rec)
             /\ pc' = [pc EXCEPT ![o] = IF InDebt(id) THEN "settle" ELSE "finish"]
             /\ job' = [job EXCEPT ![o].after = "finish"]
    <2>1. /\ rec \in Record /\ rec.subject = records[id].subject
          /\ rec.email = records[id].email /\ rec.cleanup = records[id].cleanup
          /\ rec.state = "active" /\ rec.generation = records[id].generation
      BY <1>1 DEF Record
    <2>2. rec.subject = records[job[o].account].subject /\ Commit(job[o].account, rec)
      BY <1>3, <2>1
    <2> HIDE DEF rec
    <2>3. /\ DOMAIN records' = DOMAIN records
          /\ \A w \in DOMAIN records \ {id} : records'[w] = records[w]
          /\ records'[id].subject = records[id].subject
          /\ records'[id].email = records[id].email
          /\ records'[id].cleanup = records[id].cleanup
          /\ records'[id].state = "active"
          /\ records'[id].generation # 0
      BY <1>1, <2>1, <2>2, RowWritten, TypesNow DEF RowSound
    <2>4. RowSound(id)'
      BY <1>1, <1>2, <2>3 DEF RowSound, InDebt, LocalStage, Live
    <2>5. /\ \A w \in DOMAIN records' : RowSound(w)'
          /\ \A x \in DOMAIN tokens' : TokenSound(x)'
      BY <1>1, <2>3, <2>4, OneRowStep
    <2>6. DyingKept
      BY <1>1, <1>2, <2>3, OneRowDying
    <2>7. \A c \in DOMAIN clients' : ClientSound(c)'
      <3>1. \A c \in DOMAIN records : records[c].state = "active" => c # id
        BY <1>2
      <3> QED BY <1>1, <2>3, <3>1, ClientsStay
    <2>8. /\ pc'[o] \in {"settle", "finish"} /\ job'[o].after = "finish"
          /\ job'[o].token = job[o].token
          /\ \A p \in Ops \ {o} : pc'[p] = pc[p] /\ job'[p] = job[p]
      BY <1>3, HandlerNow DEF Job
    <2>9. HandlerTokens(o)'
      BY <1>1, <2>8
      DEF HandlerTokens, CallbackSound, CommitSound, DisconnectSound, AwaitsCommit,
          Fencing, Settling, Removing, GrantKnown
    <2> QED BY <1>1, <2>3, <2>5, <2>6, <2>7, <2>8, <2>9, LockedStep DEF AwaitsCommit
  <1>4. CASE Return(o) /\ UNCHANGED records
    BY <1>1, <1>4, ReturnKeepsTokens DEF DyingKept
  <1> QED BY <1>3, <1>4 DEF Activate

\* The commit that clears a debt.
LEMMA SettleCommitKeepsTokens ==
    ASSUME IInv, DebtInv, TokenInv, NEW o \in Ops, NEW id, id = job[o].account,
           SettleCommit(o)
    PROVE  DyingKept /\ TokenInv'
  <1> DEFINE rec == [records[id] EXCEPT !.cleanup = NoCleanup]
  <1>1. /\ pc[o] = "settled" /\ lock = o /\ pc[o] \in OnRow
        /\ UNCHANGED <<tokens, epochs, grant, nextAccount, clients>>
        /\ HandlerTokens(o) /\ id \in DOMAIN records /\ RowSound(id)
        /\ records[id] \in Record /\ InDebt(id)
    BY HandlerNow DEF SettleCommit, google, minted, Holding, OnRow, PCs, TokenInv,
                      DebtInv, HandlerDebts, Settling
  <1>2. CASE Commit(id, rec) /\ Goto(o, job[o].after)
    <2>1. /\ rec \in Record /\ rec.subject = records[id].subject
          /\ rec.email = records[id].email /\ rec.cleanup = NoCleanup
          /\ rec.state = records[id].state /\ rec.generation = records[id].generation
      BY <1>1 DEF Record, NoCleanup, Cleanup
    <2>2. rec.subject = records[job[o].account].subject /\ Commit(job[o].account, rec)
      BY <1>2, <2>1
    <2> HIDE DEF rec
    <2>3. records[id].generation \in Nat /\ records[id].generation # 0
      BY <1>1, TypesNow DEF RowSound
    <2>4. /\ DOMAIN records' = DOMAIN records
          /\ \A w \in DOMAIN records \ {id} : records'[w] = records[w]
          /\ records'[id].subject = records[id].subject
          /\ records'[id].email = records[id].email
          /\ records'[id].cleanup = NoCleanup
          /\ records'[id].state = records[id].state
          /\ records'[id].generation = records[id].generation
      BY <1>1, <2>1, <2>2, <2>3, RowWritten
    <2>5. records'[id].cleanup.kind = "none" /\ records[id].state # "disconnecting"
      BY <1>1, <2>4, CleanupFields DEF DebtInv, RowDebts
    <2>6. RowSound(id)'
      BY <1>1, <2>4, <2>5 DEF RowSound, InDebt, LocalStage, Live
    <2>7. /\ \A w \in DOMAIN records' : RowSound(w)'
          /\ \A x \in DOMAIN tokens' : TokenSound(x)'
          /\ DyingKept
          /\ \A c \in DOMAIN clients' : ClientSound(c)'
      BY <1>1, <2>4, <2>6, RowKeptStep
    <2>8. /\ pc'[o] = job[o].after /\ job'[o] = job[o]
          /\ job[o].after \in {"commit", "finish", "bump", "list"}
          /\ \A p \in Ops \ {o} : pc'[p] = pc[p] /\ job'[p] = job[p]
      BY <1>1, <1>2, GotoMoves, HandlerNow DEF HandlerKnows, Learnt, Job
    <2>9. /\ AwaitsCommit(o)' => AwaitsCommit(o)
          /\ Fencing(o)' => Fencing(o)
      BY <1>1, <2>8 DEF AwaitsCommit, Fencing, Settling
    <2>10. CommitSound(o)'
      BY <1>1, <2>4, <2>8, <2>9
      DEF HandlerTokens, CommitSound, Live, Owners
    <2>11. DisconnectSound(o)'
      BY <1>1, <2>4, <2>8, <2>9
      DEF HandlerTokens, DisconnectSound, Removing
    <2>12. HandlerTokens(o)'
      BY <1>1, <2>8, <2>10, <2>11 DEF HandlerTokens, CallbackSound, GrantKnown
    <2> QED BY <1>1, <2>4, <2>7, <2>8, <2>9, <2>12, LockedStep
  <1>3. CASE StillPending(o) /\ UNCHANGED records
    <2>1. HandlerTokens(o)'
      <3>1. CASE Return(o)
        BY <3>1, ReturnMoves, IdleSound
      <3>2. CASE Goto(o, job[o].after) /\ job[o].after \in {"finish", "list"}
        BY <1>1, <3>2, GotoMoves
        DEF HandlerTokens, CallbackSound, CommitSound, DisconnectSound, AwaitsCommit,
            Fencing, Settling, Removing, GrantKnown
      <3> QED BY <1>3, <3>1, <3>2 DEF StillPending
    <2>2. /\ pc'[o] \in {"idle", "finish", "list"}
          /\ \A p \in Ops \ {o} : pc'[p] = pc[p] /\ job'[p] = job[p]
      BY <1>3, StillPendingMoves
    <2>3. nextAccount' \in Nat /\ nextAccount =< nextAccount'
      BY <1>1, TypesNow
    <2> QED BY <1>1, <1>3, <2>1, <2>2, <2>3, ReaderStep DEF AwaitsCommit, DyingKept
  <1> QED BY <1>2, <1>3 DEF SettleCommit

\* A row just fenced owes a revoke that is still to be done.
LEMMA FencedFields ==
    \A e : RevokeOf(e, "").kind = "revoke" /\ RevokeOf(e, "").stage # "local"
  BY Zenon DEF RevokeOf

\* The commit that fences a row: its clients go, its token stays for the revoke.
LEMMA MarkKeepsTokens ==
    ASSUME IInv, DebtInv, TokenInv, NEW o \in Ops, NEW id, id = job[o].account,
           MarkDisconnecting(o)
    PROVE  DyingKept /\ TokenInv'
  <1> DEFINE plan == job[o].plan
             rec == [records[id] EXCEPT !.state = "disconnecting", !.generation = 0,
                       !.revokeEpoch = epochs[records[id].subject],
                       !.cleanup = RevokeOf(records[id].email, "")]
  <1>1. /\ pc[o] = "mark" /\ lock = o /\ pc[o] \in OnRow
        /\ UNCHANGED <<tokens, epochs, grant, nextAccount>>
        /\ HandlerTokens(o) /\ id \in DOMAIN records /\ RowSound(id)
        /\ records[id] \in Record
    BY HandlerNow DEF MarkDisconnecting, google, minted, Holding, OnRow, PCs, TokenInv
  <1>2. CASE /\ Commit(id, rec) /\ Fenced(o, id, plan)
             /\ job' = [job EXCEPT ![o] = IF plan = "idle" THEN NoJob ELSE @]
    <2>1. /\ rec \in Record /\ rec.subject = records[id].subject
          /\ rec.email = records[id].email /\ rec.state = "disconnecting"
          /\ rec.generation = 0 /\ rec.cleanup = RevokeOf(records[id].email, "")
      <3>1. RevokeOf(records[id].email, "") \in Cleanup
        BY <1>1 DEF Record, RevokeOf, Cleanup
      <3>2. epochs[records[id].subject] \in Nat
        BY <1>1, TypesNow
      <3> QED BY <1>1, <3>1, <3>2 DEF Record
    <2>2. rec.subject = records[job[o].account].subject /\ Commit(job[o].account, rec)
      BY <1>2, <2>1
    <2> HIDE DEF rec
    <2>3. /\ DOMAIN records' = DOMAIN records
          /\ \A w \in DOMAIN records \ {id} : records'[w] = records[w]
          /\ records'[id].subject = records[id].subject
          /\ records'[id].email = records[id].email
          /\ records'[id].state = "disconnecting"
          /\ records'[id].cleanup = rec.cleanup
          /\ records'[id].generation = records[id].generation + 1
      BY <1>1, <2>1, <2>2, RowWritten
    <2>4. records'[id].cleanup.kind = "revoke" /\ records'[id].cleanup.stage # "local"
      <3>1. records'[id].cleanup = RevokeOf(records[id].email, "")
        BY <2>1, <2>3, Zenon
      <3> QED BY <3>1, FencedFields, Zenon
    <2>5. records'[id].generation # 0
      BY <1>1, <2>3, TypesNow
    <2>6. RowSound(id)'
      BY <1>1, <2>3, <2>4, <2>5 DEF RowSound, InDebt, LocalStage
    <2>7. /\ \A w \in DOMAIN records' : RowSound(w)'
          /\ \A x \in DOMAIN tokens' : TokenSound(x)'
      BY <1>1, <2>3, <2>6, OneRowStep
    <2>8. DyingKept
      BY <1>1, <2>3, OneRowDying
    <2>9. \A c \in DOMAIN clients' : ClientSound(c)'
      <3>1. Invalidate(id)
        BY <1>2 DEF Fenced
      <3>2. \A c \in DOMAIN clients' : c # id
        BY <3>1 DEF Invalidate, DropKey
      <3> QED BY <1>1, <2>3, <3>1, <3>2, ClientsStay
    <2>10. /\ pc'[o] = plan /\ plan \in {"idle", "revoke", "relock"}
           /\ job'[o] = IF plan = "idle" THEN NoJob ELSE job[o]
           /\ \A p \in Ops \ {o} : pc'[p] = pc[p] /\ job'[p] = job[p]
      BY <1>2, HandlerNow DEF Fenced, Job
    <2>11. CASE plan = "idle"
      <3>1. HandlerTokens(o)'
        BY <2>10, <2>11, IdleSound
      <3> QED BY <1>1, <2>3, <2>7, <2>8, <2>9, <2>10, <2>11, <3>1, LockedStep DEF AwaitsCommit
    <2>12. CASE plan # "idle"
      <3>1. /\ plan = "revoke" => /\ records[id].email \in DOMAIN tokens
                                  /\ job[o].token = tokens[records[id].email]
            /\ plan = "relock" => records[id].email \notin DOMAIN tokens
        BY <1>1 DEF HandlerTokens, DisconnectSound, Fencing
      <3>2. id \in 1 .. nextAccount
        BY <1>1, TypesNow
      <3>3. plan = "revoke" => job[o].token \in Token
        BY <3>1, TypesNow
      <3>4. DisconnectSound(o)'
        BY <1>1, <2>3, <2>10, <2>12, <3>1, <3>2, <3>3
        DEF DisconnectSound, Fencing, Settling, Removing, Spent, Live
      <3>5. HandlerTokens(o)'
        BY <1>1, <2>10, <2>12, <3>4
        DEF HandlerTokens, CallbackSound, CommitSound, AwaitsCommit, GrantKnown
      <3> QED BY <1>1, <2>3, <2>7, <2>8, <2>9, <2>10, <2>12, <3>5, LockedStep DEF AwaitsCommit
    <2> QED BY <2>11, <2>12
  <1>3. CASE Return(o) /\ UNCHANGED <<records, clients>>
    BY <1>1, <1>3, ReturnKeepsTokens DEF DyingKept
  <1> QED BY <1>2, <1>3 DEF MarkDisconnecting

\* The commit that notes that the revoke is done: the stored token is dead.
LEMMA LocalStageKeepsTokens ==
    ASSUME IInv, DebtInv, TokenInv, NEW o \in Ops, NEW id, id = job[o].account,
           RecordLocalStage(o)
    PROVE  DyingKept /\ TokenInv'
  <1> DEFINE rec == [records[id] EXCEPT !.cleanup = RevokeOf(records[id].email, "local")]
  <1>1. /\ pc[o] = "stage" /\ lock = o /\ pc[o] \in OnRow
        /\ UNCHANGED <<tokens, epochs, grant, nextAccount, clients>>
        /\ HandlerTokens(o) /\ id \in DOMAIN records /\ RowSound(id)
        /\ records[id] \in Record
    BY HandlerNow DEF RecordLocalStage, google, minted, Holding, OnRow, PCs, TokenInv
  <1>2. CASE Commit(id, rec) /\ Goto(o, "complete")
    <2>1. /\ rec \in Record /\ rec.subject = records[id].subject
          /\ rec.email = records[id].email /\ rec.state = records[id].state
          /\ rec.cleanup = RevokeOf(records[id].email, "local")
          /\ rec.generation = records[id].generation
      <3>1. RevokeOf(records[id].email, "local") \in Cleanup
        BY <1>1 DEF Record, RevokeOf, Cleanup
      <3> QED BY <1>1, <3>1 DEF Record
    <2>2. rec.subject = records[job[o].account].subject /\ Commit(job[o].account, rec)
      BY <1>2, <2>1
    <2> HIDE DEF rec
    <2>3. records[id].generation \in Nat /\ records[id].generation # 0
      BY <1>1, TypesNow DEF RowSound
    <2>4. /\ DOMAIN records' = DOMAIN records
          /\ \A w \in DOMAIN records \ {id} : records'[w] = records[w]
          /\ records'[id].subject = records[id].subject
          /\ records'[id].email = records[id].email
          /\ records'[id].cleanup = RevokeOf(records[id].email, "local")
          /\ records'[id].state = records[id].state
          /\ records'[id].generation = records[id].generation
      BY <1>1, <2>1, <2>2, <2>3, RowWritten
    <2>5. records'[id].cleanup.kind = "revoke" /\ Spent(id)
      BY <1>1, <2>4, CleanupFields DEF HandlerTokens, DisconnectSound, Removing
    <2>6. RowSound(id)'
      BY <1>1, <2>4, <2>5 DEF RowSound, InDebt, LocalStage, Spent, Live
    <2>7. /\ \A w \in DOMAIN records' : RowSound(w)'
          /\ \A x \in DOMAIN tokens' : TokenSound(x)'
          /\ DyingKept
          /\ \A c \in DOMAIN clients' : ClientSound(c)'
      BY <1>1, <2>4, <2>6, RowKeptStep
    <2>8. /\ pc'[o] = "complete" /\ job'[o] = job[o]
          /\ \A p \in Ops \ {o} : pc'[p] = pc[p] /\ job'[p] = job[p]
      BY <1>2, GotoMoves
    <2>9. HandlerTokens(o)'
      BY <1>1, <2>4, <2>5, <2>8
      DEF HandlerTokens, CallbackSound, CommitSound, DisconnectSound, AwaitsCommit,
          Fencing, Settling, Removing, GrantKnown, Spent, Live
    <2> QED BY <1>1, <2>4, <2>7, <2>8, <2>9, LockedStep DEF AwaitsCommit
  <1>3. CASE Return(o) /\ UNCHANGED records
    BY <1>1, <1>3, ReturnKeepsTokens DEF DyingKept
  <1> QED BY <1>2, <1>3 DEF RecordLocalStage

\* The removal of a row: no token is left at its address.
LEMMA DeleteRecordKeepsTokens ==
    ASSUME IInv, DebtInv, TokenInv, NEW o \in Ops, NEW id, id = job[o].account,
           DeleteRecord(o)
    PROVE  DyingKept /\ TokenInv'
  <1>1. /\ pc[o] = "delete_record" /\ lock = o /\ Return(o)
        /\ UNCHANGED <<tokens, epochs, grant, nextAccount, clients>>
        /\ id \in DOMAIN records /\ HandlerDebts(o)
    BY HandlerNow DEF DeleteRecord, google, minted, Holding, OnRow, PCs, DebtInv
  <1>2. records[id].state = "disconnecting" /\ records[id].email \notin DOMAIN tokens
    BY <1>1 DEF HandlerDebts, Removing
  <1>3. CASE UNCHANGED records
    BY <1>1, <1>3, ReturnKeepsTokens DEF DyingKept
  <1>4. CASE records' = DropKey(records, id)
    <2>1. /\ DOMAIN records' = DOMAIN records \ {id}
          /\ \A w \in DOMAIN records' : records'[w] = records[w]
      BY <1>4 DEF DropKey
    <2>2. /\ \A w \in DOMAIN records' : RowSound(w)'
          /\ \A x \in DOMAIN tokens' : TokenSound(x)'
      BY <1>1, <2>1, OneRowStep
    <2>3. DyingKept
      BY <1>1, <1>2, <2>1 DEF DyingKept
    <2>4. \A c \in DOMAIN clients' : ClientSound(c)'
      BY <1>1, <1>2, <2>1, ClientsStay
    <2>5. /\ pc'[o] = "idle" /\ job'[o] = NoJob
          /\ \A p \in Ops \ {o} : pc'[p] = pc[p] /\ job'[p] = job[p]
      BY <1>1, ReturnMoves
    <2> QED BY <1>1, <2>1, <2>2, <2>3, <2>4, <2>5, IdleSound, LockedStep DEF AwaitsCommit
  <1> QED BY <1>1, <1>3, <1>4 DEF DeleteRecord

\* A bump under the lock: no callback that read the epoch before it finds it
\* unchanged, so the removal that follows the second one ends no row any
\* callback counts on.
LEMMA BumpStep ==
    ASSUME IInv, TokenInv, NEW o \in Ops, NEW id, id = job[o].account, lock = o,
           id \in DOMAIN records, BumpEpoch(records[id].subject),
           UNCHANGED <<records, tokens, clients, grant, nextAccount>>,
           \/ pc[o] = "bump" /\ Goto(o, "mark")
           \/ pc[o] = "complete" /\ Goto(o, "delete_token")
    PROVE  TokenInv'
  <1> DEFINE s == records[id].subject
  <1>1. /\ s \in Subjects
        /\ epochs' = [epochs EXCEPT ![s] = @ + 1]
        /\ \A x \in Subjects : epochs[x] \in Nat /\ epochs'[x] \in Nat
        /\ epochs'[s] = epochs[s] + 1
        /\ \A x \in Subjects : x # s => epochs'[x] = epochs[x]
        /\ \A x \in Subjects : epochs[x] =< epochs'[x]
    BY RegistryNow, TypesNow DEF BumpEpoch, RegistryOK, DataOK
  <1>2. /\ job'[o] = job[o]
        /\ \/ pc'[o] = "mark" /\ pc[o] = "bump"
           \/ pc'[o] = "delete_token" /\ pc[o] = "complete"
        /\ \A p \in Ops \ {o} : pc'[p] = pc[p] /\ job'[p] = job[p]
    BY GotoMoves
  <1>3. \A w \in DOMAIN records' : RowSound(w)'
    BY DEF TokenInv, RowSound, InDebt, LocalStage, Spent, Live
  <1>4. \A e \in DOMAIN tokens' : TokenSound(e)'
    BY DEF TokenInv, TokenSound, GrantKnown
  <1>5. \A c \in DOMAIN clients' : ClientSound(c)'
    BY DEF TokenInv, ClientSound
  <1>6. ASSUME NEW p \in Ops
        PROVE  CommitSound(p)' /\ DisconnectSound(p)'
    <2>1. HandlerTokens(p)
      BY DEF TokenInv
    <2>2. CASE p # o
      <3>1. pc'[p] = pc[p] /\ job'[p] = job[p]
        BY <1>2, <2>2
      <3>2. CommitSound(p)'
        BY <2>1, <3>1 DEF HandlerTokens, CommitSound, AwaitsCommit, Live, Owners
      <3>3. DisconnectSound(p)'
        BY <2>1, <3>1
        DEF HandlerTokens, DisconnectSound, Fencing, Settling, Removing, Live, Spent
      <3> QED BY <3>2, <3>3
    <2>3. CASE p = o
      <3>1. CommitSound(o)'
        BY <1>2 DEF CommitSound, AwaitsCommit
      <3>2. DisconnectSound(o)'
        BY <1>2, <2>1, <2>3
        DEF HandlerTokens, DisconnectSound, Fencing, Settling, Removing, Live, Spent
      <3> QED BY <2>3, <3>1, <3>2
    <2> QED BY <2>2, <2>3
  <1>7. ASSUME NEW x, x # s, Ending(x)
        PROVE  Ending(x)'
    <2>1. PICK w \in Owners(x) :
             /\ records[w].state = "disconnecting"
             /\ \A p \in Ops : pc[p] \in {"delete_token", "delete_record"}
                                  => job[p].account # w
      BY <1>7 DEF Ending
    <2>2. w # id
      BY <1>7, <2>1 DEF Owners
    <2>3. \A p \in Ops : pc'[p] \in {"delete_token", "delete_record"}
                            => job'[p].account # w
      BY <1>2, <2>1, <2>2
    <2> QED BY <2>1, <2>3 DEF Ending, Owners
  <1>8. ASSUME NEW p \in Ops
        PROVE  CallbackSound(p)'
    <2>1. CASE p = o
      BY <1>2, <2>1 DEF CallbackSound
    <2>2. CASE p # o /\ pc[p] \in {"exchange", "callback"}
      <3>1. pc'[p] = pc[p] /\ job'[p] = job[p] /\ CallbackSound(p)
        BY <1>2, <2>2 DEF TokenInv, HandlerTokens
      <3>2. \A x \in Subjects : job[p].before[x] =< epochs[x] /\ job[p].before[x] \in Nat
        BY <2>2, <3>1, TypesNow DEF CallbackSound
      <3>3. \A x \in Subjects : job'[p].before[x] =< epochs'[x]
        <4> SUFFICES ASSUME NEW x \in Subjects PROVE job'[p].before[x] =< epochs'[x]
          OBVIOUS
        <4>1. /\ job[p].before[x] \in Nat /\ epochs[x] \in Nat /\ epochs'[x] \in Nat
              /\ job[p].before[x] =< epochs[x] /\ epochs[x] =< epochs'[x]
          BY <1>1, <3>2
        <4> QED BY <3>1, <4>1
      <3>4. ASSUME pc[p] = "callback", job[p].token # NoToken
            PROVE  LET x == job[p].subject IN
                   /\ job[p].token.subject = x
                   /\ job[p].before[x] = epochs'[x] => Live(job[p].token)' \/ Ending(x)'
        <4> DEFINE x == job[p].subject
        <4>1. /\ job[p].token.subject = x
              /\ job[p].before[x] = epochs[x] => Live(job[p].token) \/ Ending(x)
          BY <3>1, <3>4 DEF CallbackSound
        <4>2. x \in Subjects
          BY <3>4 DEF IInv, HandlerKnows, Learnt
        <4>3. Live(job[p].token) => Live(job[p].token)'
          BY <3>1 DEF Live
        <4> HIDE DEF x
        <4>4. CASE x = s
          <5>1. job[p].before[x] =< epochs[x] /\ job[p].before[x] \in Nat
                /\ epochs[x] \in Nat /\ epochs'[x] = epochs[x] + 1
            BY <1>1, <3>2, <4>2, <4>4
          <5>2. job[p].before[x] # epochs'[x]
            BY <5>1
          <5> QED BY <4>1, <5>2 DEF x
        <4>5. CASE x # s
          <5>1. epochs'[x] = epochs[x]
            BY <1>1, <4>2, <4>5
          <5>2. Ending(x) => Ending(job[p].subject)'
            <6>1. \A y : y # s /\ Ending(y) => Ending(y)'
              BY <1>7
            <6>2. job'[p].subject = job[p].subject
              BY <3>1
            <6> QED BY <4>5, <6>1, <6>2 DEF x
          <5> QED BY <4>1, <4>3, <5>1, <5>2 DEF x
        <4> QED BY <4>4, <4>5
      <3> QED BY <3>1, <3>3, <3>4 DEF CallbackSound
    <2>3. CASE p # o /\ pc[p] \notin {"exchange", "callback"}
      BY <1>2, <2>3 DEF CallbackSound
    <2> QED BY <2>1, <2>2, <2>3
  <1>9. \A p \in Ops : HandlerTokens(p)'
    BY <1>2, <1>6, <1>8 DEF TokenInv, HandlerTokens, GrantKnown
  <1>10. FreshAccount'
    <2>1. \A p \in Ops : job'[p] = job[p] /\ (AwaitsCommit(p)' => AwaitsCommit(p))
      BY <1>2 DEF AwaitsCommit
    <2>2. \A p \in Ops : pc'[p] \in {"revoke", "relock"} => pc[p] \in {"revoke", "relock"}
      BY <1>2
    <2> QED BY <2>1, <2>2 DEF TokenInv, FreshAccount
  <1> QED BY <1>3, <1>4, <1>5, <1>9, <1>10 DEF TokenInv

\* The two bumps of a disconnect.
LEMMA BumpKeepsTokens ==
    ASSUME IInv, TokenInv, NEW o \in Ops, BumpOnStart(o) \/ BumpOnComplete(o)
    PROVE  TokenInv'
  <1>1. /\ UNCHANGED <<records, tokens, clients, grant, nextAccount>>
        /\ pc[o] \in {"bump", "complete"}
    BY DEF BumpOnStart, BumpOnComplete, google, minted
  <1>2. lock = o /\ job[o].account \in DOMAIN records
    BY <1>1, HandlerNow DEF Holding, OnRow, PCs
  <1>3. CASE Return(o) /\ UNCHANGED epochs
    BY <1>1, <1>3, ReturnKeepsTokens
  <1>4. CASE /\ BumpEpoch(records[job[o].account].subject)
             /\ \/ pc[o] = "bump" /\ Goto(o, "mark")
                \/ pc[o] = "complete" /\ Goto(o, "delete_token")
    BY <1>1, <1>2, <1>4, BumpStep
  <1> QED BY <1>3, <1>4 DEF BumpOnStart, BumpOnComplete

(***************************************************************************)
(* The revoke at Google                                                    *)
(***************************************************************************)

\* the token is live, and of a grant known, after the step
LiveAfter(t)  == t.subject \in Subjects /\ t.grant = grant'[t.subject]
KnownAfter(t) == t.grant =< grant'[t.subject]

\* The end of a grant kills its token and no token of another subject, and
\* brings none back.
LEMMA GrantEnds ==
    ASSUME IInv, NEW s \in Subjects, grant' = [grant EXCEPT ![s] = @ + 1],
           NEW x, x \in Token, GrantKnown(x)
    PROVE  /\ KnownAfter(x)
           /\ LiveAfter(x) => Live(x)
           /\ x.subject # s => (LiveAfter(x) <=> Live(x))
           /\ x.subject = s => ~ LiveAfter(x)
  <1>1. x.subject \in Subjects /\ x.grant \in Nat /\ x.grant =< grant[x.subject]
    BY DEF Token, GrantKnown
  <1>2. /\ grant[x.subject] \in Nat
        /\ x.subject = s => grant'[x.subject] = grant[x.subject] + 1
        /\ x.subject # s => grant'[x.subject] = grant[x.subject]
    BY <1>1, RegistryNow DEF RegistryOK, DataOK
  <1> QED BY <1>1, <1>2 DEF GrantKnown, Live, KnownAfter, LiveAfter

\* Where the revoke kills a token, the row of its subject is on its way out
\* and no handler has come to the deletions.
LEMMA RevokedIsEnding ==
    ASSUME OwnAddresses, IInv, TokenInv, NEW o \in Ops, pc[o] = "revoke",
           NEW id, id = job[o].account, Live(job[o].token)
    PROVE  /\ job[o].token \in Token
           /\ id \in DOMAIN records
           /\ records[id].subject = job[o].token.subject
           /\ records[id].state = "disconnecting"
           /\ records[id].email \in DOMAIN tokens
           /\ tokens[records[id].email] = job[o].token
           /\ \A p \in Ops : Removing(p) => job[p].account # id
  <1>1. HandlerTokens(o)
    BY DEF TokenInv
  <1>2. /\ job[o].token \in Token
        /\ id \in DOMAIN records
        /\ records[id].state = "disconnecting"
        /\ records[id].email \in DOMAIN tokens
        /\ tokens[records[id].email] = job[o].token
    BY <1>1 DEF HandlerTokens, DisconnectSound
  <1>3. records[id].subject = job[o].token.subject
    BY <1>2, StoredIsOwn
  <1>4. ASSUME NEW p \in Ops, Removing(p)
        PROVE  job[p].account # id
    BY <1>2, <1>4 DEF TokenInv, HandlerTokens, DisconnectSound, Spent
  <1> QED BY <1>2, <1>3, <1>4

\* A revoke that ends the grant of its token.
LEMMA KillKeepsTokens ==
    ASSUME OwnAddresses, IInv, TokenInv, NEW o \in Ops, pc[o] = "revoke",
           NEW id, id = job[o].account, NEW s, s = job[o].token.subject,
           Live(job[o].token), grant' = [grant EXCEPT ![s] = @ + 1],
           Goto(o, "relock") \/ Return(o),
           UNCHANGED <<records, tokens, epochs, clients, nextAccount>>
    PROVE  TokenInv'
  <1>1. /\ job[o].token \in Token
        /\ id \in DOMAIN records
        /\ records[id].subject = s
        /\ records[id].state = "disconnecting"
        /\ records[id].email \in DOMAIN tokens
        /\ tokens[records[id].email] = job[o].token
        /\ \A p \in Ops : Removing(p) => job[p].account # id
        /\ s \in Subjects
    BY RevokedIsEnding, TypesNow
  <1>2. \A x \in Token : GrantKnown(x) => /\ KnownAfter(x)
                                          /\ LiveAfter(x) => Live(x)
                                          /\ x.subject # s => (LiveAfter(x) <=> Live(x))
                                          /\ x.subject = s => ~ LiveAfter(x)
    BY <1>1, GrantEnds
  <1>3. \A e \in DOMAIN tokens : tokens[e] \in Token /\ GrantKnown(tokens[e])
    BY TypesNow DEF TokenInv, TokenSound
  <1>4. \A w \in DOMAIN records : records[w].subject = s => w = id
    BY <1>1 DEF IInv, OneConnectionPerIdentity
  <1>5. \A p \in Ops : job[p].token # NoToken =>
           job[p].token \in Token /\ GrantKnown(job[p].token)
    BY TypesNow DEF TokenInv, HandlerTokens
  <1>6. /\ \A p \in Ops \ {o} : pc'[p] = pc[p] /\ job'[p] = job[p]
        /\ \/ pc'[o] = "relock" /\ job'[o] = job[o]
           \/ pc'[o] = "idle" /\ job'[o] = NoJob
    BY GotoMoves, ReturnMoves
  <1>7. \A w : Spent(w) => Spent(w)'
    BY <1>2, <1>3 DEF Spent, Live, LiveAfter
  <1>8. \A w \in DOMAIN records' : RowSound(w)'
    <2> SUFFICES ASSUME NEW w \in DOMAIN records PROVE RowSound(w)'
      OBVIOUS
    <2>1. RowSound(w)
      BY DEF TokenInv
    <2>2. CASE w = id
      BY <1>1, <1>7, <2>1, <2>2 DEF RowSound, InDebt, LocalStage
    <2>3. CASE w # id
      <3>1. records[w].email \in DOMAIN tokens
              => (LiveAfter(tokens[records[w].email]) <=> Live(tokens[records[w].email]))
        BY <1>2, <1>3, <1>4, <2>3, StoredIsOwn
      <3>2. records'[w] = records[w] /\ tokens' = tokens
        OBVIOUS
      <3>3. records[w].state # "disconnecting" /\ records[w].email \in DOMAIN tokens
              => LiveAfter(tokens[records[w].email])
        BY <2>1, <3>1 DEF RowSound
      <3> QED BY <1>7, <2>1, <3>2, <3>3 DEF RowSound, InDebt, LocalStage, Live, LiveAfter
    <2> QED BY <2>2, <2>3
  <1>9. \A e \in DOMAIN tokens' : TokenSound(e)'
    BY <1>2, <1>3 DEF TokenInv, TokenSound, GrantKnown, KnownAfter
  <1>10. \A c \in DOMAIN clients' : ClientSound(c)'
    BY DEF TokenInv, ClientSound
  <1>11. /\ Ending(s)'
         /\ \A x : Ending(x) => Ending(x)'
    <2>1. \A p \in Ops : pc'[p] \in {"delete_token", "delete_record"} =>
             /\ pc[p] \in {"delete_token", "delete_record"} /\ job'[p] = job[p]
             /\ job[p].account # id
      BY <1>1, <1>6 DEF Removing
    <2>2. id \in Owners(s)
      BY <1>1 DEF Owners
    <2>3. Ending(s)'
      BY <1>1, <2>1, <2>2 DEF Ending, Owners
    <2>4. \A x : Ending(x) => Ending(x)'
      BY <2>1 DEF Ending, Owners
    <2> QED BY <2>3, <2>4
  <1>12. ASSUME NEW p \in Ops, p # o
         PROVE  HandlerTokens(p)'
    <2> DEFINE t == job[p].token
               x == job[p].subject
               a == job[p].account
    <2>1. pc'[p] = pc[p] /\ job'[p] = job[p] /\ HandlerTokens(p) /\ HandlerKnows(p)
      BY <1>6, <1>12 DEF TokenInv, IInv
    <2>2. t # NoToken /\ t.subject # s => (LiveAfter(t) <=> Live(t))
      BY <1>2, <1>5
    <2>3. t # NoToken => KnownAfter(t) /\ (LiveAfter(t) => Live(t))
      BY <1>2, <1>5
    <2>4. CallbackSound(p)'
      <3>1. CallbackSound(p)
        BY <2>1 DEF HandlerTokens
      <3>2. ASSUME pc[p] = "callback", t # NoToken, job[p].before[x] = epochs[x]
            PROVE  \A y : y = x => LiveAfter(t) \/ Ending(y)'
        <4>1. t.subject = x /\ (Live(t) \/ Ending(x))
          BY <3>1, <3>2 DEF CallbackSound
        <4> HIDE DEF t, x
        <4>2. \A y : Ending(y) => Ending(y)'
          BY <1>11
        <4>3. Ending(s)'
          BY <1>11
        <4>4. \A y : y = s => Ending(y)'
          BY <4>3
        <4> QED BY <2>2, <3>2, <4>1, <4>2, <4>4
      <3> QED BY <2>1, <3>1, <3>2 DEF CallbackSound, Live, LiveAfter
    <2>5. CommitSound(p)'
      <3>1. CommitSound(p)
        BY <2>1 DEF HandlerTokens
      <3>2. ASSUME AwaitsCommit(p)
            PROVE  LiveAfter(t) \/ (a \notin DOMAIN records /\ Owners(x) # {})
        <4>1. /\ t.subject = x
              /\ a \in DOMAIN records => records[a].state # "disconnecting"
              /\ Live(t) \/ (a \notin DOMAIN records /\ Owners(x) # {})
          BY <3>1, <3>2 DEF CommitSound
        <4>2. a \in DOMAIN records => records[a].subject = x
          BY <2>1, <3>2 DEF HandlerKnows, CommitTarget
        <4>3. t # NoToken
          BY <2>1, <3>2, TypesNow DEF HandlerKnows, Learnt
        <4> HIDE DEF t, x, a
        <4>4. CASE x = s
          <5>1. a \notin DOMAIN records
            BY <1>1, <1>4, <4>1, <4>2, <4>4
          <5>2. id \in Owners(x)
            BY <1>1, <4>4 DEF Owners
          <5> QED BY <5>1, <5>2
        <4>5. CASE x # s
          BY <2>2, <4>1, <4>3, <4>5
        <4> QED BY <4>4, <4>5
      <3>3. ASSUME pc[p] = "put"
            PROVE  LiveAfter(t)
        <4>1. records[a].state = "pending" /\ t.subject = records[a].subject /\ Live(t)
          BY <3>1, <3>3 DEF CommitSound
        <4>2. a \in DOMAIN records /\ t # NoToken
          BY <2>1, <3>3, TypesNow DEF HandlerKnows, RowsHeld, Learnt, OnRow, Holding, PCs
        <4> HIDE DEF t, a
        <4>3. t.subject # s
          BY <1>1, <1>4, <4>1, <4>2
        <4> QED BY <2>2, <4>1, <4>2, <4>3
      <3>4. AwaitsCommit(p)' <=> AwaitsCommit(p)
        BY <2>1 DEF AwaitsCommit
      <3> QED BY <2>1, <3>1, <3>2, <3>3, <3>4 DEF CommitSound, Owners, Live, LiveAfter
    <2>6. DisconnectSound(p)'
      <3>1. DisconnectSound(p)
        BY <2>1 DEF HandlerTokens
      <3>2. pc[p] = "revoke" => t # NoToken
        BY <3>1, TypesNow DEF DisconnectSound
      <3> QED BY <1>7, <2>1, <2>3, <3>1, <3>2
              DEF DisconnectSound, Fencing, Settling, Removing, Live, LiveAfter, Spent
    <2> QED BY <2>1, <2>3, <2>4, <2>5, <2>6 DEF HandlerTokens, GrantKnown, KnownAfter
  <1>13. HandlerTokens(o)'
    <2>1. CASE pc'[o] = "idle" /\ job'[o] = NoJob
      BY <2>1, IdleSound
    <2>2. CASE pc'[o] = "relock" /\ job'[o] = job[o]
      <3>1. ~ LiveAfter(job[o].token)
        BY <1>1, <1>2, <1>3
      <3>2. Spent(id)'
        BY <1>1, <3>1 DEF Spent, Live, LiveAfter
      <3>3. id \in 1 .. nextAccount
        BY <1>1, TypesNow
      <3>4. DisconnectSound(o)'
        BY <1>1, <2>2, <3>2, <3>3 DEF DisconnectSound, Fencing, Settling, Removing, Spent, Live
      <3>5. job[o].token # NoToken => KnownAfter(job[o].token)
        BY <1>2, <1>5
      <3> QED BY <2>2, <3>4, <3>5
              DEF HandlerTokens, CallbackSound, CommitSound, AwaitsCommit, GrantKnown, KnownAfter
    <2> QED BY <1>6, <2>1, <2>2
  <1>14. FreshAccount'
    <2>1. \A p \in Ops : AwaitsCommit(p)' => AwaitsCommit(p) /\ job'[p] = job[p]
      BY <1>6 DEF AwaitsCommit
    <2>2. \A p \in Ops : pc'[p] \in {"revoke", "relock"} =>
             pc[p] \in {"revoke", "relock"} /\ job'[p] = job[p]
      BY <1>6
    <2> QED BY <2>1, <2>2 DEF TokenInv, FreshAccount
  <1> QED BY <1>8, <1>9, <1>10, <1>12, <1>13, <1>14 DEF TokenInv

\* The revoke, with every answer Google may give.
LEMMA RevokeKeepsTokens ==
    ASSUME OwnAddresses, IInv, TokenInv, NEW o \in Ops,
           NEW id, id = job[o].account, NEW t, t = job[o].token, Revoke(o)
    PROVE  TokenInv'
  <1>1. /\ pc[o] = "revoke" /\ HandlerTokens(o) /\ t \in Token /\ t.subject \in Subjects
        /\ UNCHANGED <<records, tokens, epochs, clients, nextAccount>>
        /\ \/ Goto(o, "relock") /\ Kill(t)
           \/ Return(o) /\ (Kill(t) \/ UNCHANGED grant)
    <2>1. pc[o] = "revoke" /\ HandlerTokens(o) /\ t \in Token
      BY DEF Revoke, TokenInv, HandlerTokens, DisconnectSound
    <2>2. UNCHANGED <<records, tokens, epochs, clients, nextAccount>>
      BY DEF Revoke, durable, minted
    <2>3. \/ Goto(o, "relock") /\ Kill(t)
          \/ Return(o) /\ (Kill(t) \/ UNCHANGED grant)
      BY DEF Revoke, google
    <2> QED BY <2>1, <2>2, <2>3 DEF Token
  <1>2. grant \in [Subjects -> Nat]
    BY RegistryNow DEF RegistryOK, DataOK
  <1>3. Kill(t) /\ ~ Live(t) => UNCHANGED grant
    BY <1>1, <1>2 DEF Kill
  <1>4. CASE Kill(t) /\ Live(t)
    <2> DEFINE s == t.subject
    <2>1. grant' = [grant EXCEPT ![s] = @ + 1]
      BY <1>4 DEF Kill
    <2>2. s = job[o].token.subject
      OBVIOUS
    <2> HIDE DEF s
    <2>3. Live(job[o].token)
      BY <1>4
    <2> QED BY <1>1, <2>1, <2>2, <2>3, KillKeepsTokens
  <1>5. CASE UNCHANGED grant /\ Return(o)
    BY <1>1, <1>5, ReturnKeepsTokens
  <1>6. CASE UNCHANGED grant /\ ~ Live(t) /\ Goto(o, "relock")
    <2>1. /\ pc'[o] = "relock" /\ job'[o] = job[o]
          /\ \A p \in Ops \ {o} : pc'[p] = pc[p] /\ job'[p] = job[p]
      BY <1>6, GotoMoves
    <2>2. /\ id \in 1 .. nextAccount
          /\ id \in DOMAIN records => records[id].state = "disconnecting"
          /\ id \in DOMAIN records /\ records[id].email \in DOMAIN tokens
                => tokens[records[id].email] = t
      BY <1>1 DEF HandlerTokens, DisconnectSound
    <2>3. id \in DOMAIN records => Spent(id)
      BY <1>6, <2>2 DEF Spent
    <2>4. DisconnectSound(o)'
      BY <1>1, <1>6, <2>1, <2>2, <2>3
      DEF DisconnectSound, Fencing, Settling, Removing, Spent, Live
    <2>5. HandlerTokens(o)'
      BY <1>1, <1>6, <2>1, <2>4
      DEF HandlerTokens, CallbackSound, CommitSound, AwaitsCommit, GrantKnown
    <2>6. nextAccount' \in Nat /\ nextAccount =< nextAccount'
      BY <1>1, TypesNow
    <2> QED BY <1>1, <1>6, <2>1, <2>5, <2>6, ReaderStep DEF AwaitsCommit
  <1> QED BY <1>1, <1>3, <1>4, <1>5, <1>6

(***************************************************************************)
(* Every step                                                              *)
(***************************************************************************)

\* A handler that gives up, or finishes, writes no file.
LEMMA EndsKeepTokens ==
    ASSUME IInv, TokenInv, NEW o \in Ops, GiveUp(o) \/ FinishCallback(o)
    PROVE  TokenInv'
  <1>1. /\ Return(o) /\ UNCHANGED <<records, tokens, epochs, grant, nextAccount>>
        /\ UNCHANGED clients \/ (\E c : Invalidate(c))
    BY DEF GiveUp, FinishCallback, durable, google, minted
  <1> QED BY <1>1, ReturnKeepsTokens

\* A client is cached for an active row, with its generation and its token.
LEMMA UseClientKeepsTokens ==
    ASSUME TokenInv, NEW id, UseClient(id)
    PROVE  TokenInv'
  <1> DEFINE c == [generation |-> records[id].generation,
                   token |-> tokens[records[id].email]]
  <1>1. /\ UNCHANGED <<records, tokens, epochs, grant, nextAccount, pc, job>>
        /\ id \in DOMAIN records /\ records[id].state = "active"
        /\ records[id].email \in DOMAIN tokens
        /\ clients' = SetKey(clients, id, c)
    BY DEF UseClient, durable, google, minted
  <1>2. c.generation = records[id].generation /\ c.token = tokens[records[id].email]
    OBVIOUS
  <1> HIDE DEF c
  <1>3. /\ \A w \in DOMAIN clients' : w # id => w \in DOMAIN clients /\ clients'[w] = clients[w]
        /\ clients'[id] = c
    BY <1>1 DEF SetKey
  <1>4. \A w \in DOMAIN clients' : ClientSound(w)'
    BY <1>1, <1>2, <1>3 DEF TokenInv, ClientSound
  <1> QED BY <1>1, <1>4, QuietKeepsTokens

\* A restart ends every handler, drops the clients and keeps files and grants.
LEMMA RestartKeepsTokens ==
    ASSUME IInv, TokenInv, Restart
    PROVE  TokenInv'
  <1>1. /\ UNCHANGED <<records, tokens, epochs, grant, nextAccount>>
        /\ \A o \in Ops : pc'[o] = "idle" /\ job'[o] = NoJob
        /\ DOMAIN clients' = {}
    BY EmptyIsMap DEF Restart, durable, google, minted
  <1>2. \A w \in DOMAIN records' : RowSound(w)'
    BY <1>1 DEF TokenInv, RowSound, InDebt, LocalStage, Spent, Live
  <1>3. \A e \in DOMAIN tokens' : TokenSound(e)'
    BY <1>1 DEF TokenInv, TokenSound, GrantKnown
  <1>4. \A o \in Ops : HandlerTokens(o)'
    BY <1>1, IdleSound
  <1>5. FreshAccount'
    BY <1>1 DEF FreshAccount
  <1> QED BY <1>1, <1>2, <1>3, <1>4, <1>5 DEF TokenInv

\* Nothing is stored and no handler runs when the process first starts.
LEMMA InitTokens == Init => TokenInv
  <1> SUFFICES ASSUME Init PROVE TokenInv
    OBVIOUS
  <1>1. DOMAIN records = {} /\ DOMAIN tokens = {} /\ DOMAIN clients = {}
    BY EmptyIsMap DEF Init
  <1>2. \A o \in Ops : pc[o] = "idle" /\ job[o].token = NoToken
    BY DEF Init, NoJob
  <1>3. \A o \in Ops : HandlerTokens(o)
    BY <1>2 DEF HandlerTokens, CallbackSound, CommitSound, DisconnectSound,
                AwaitsCommit, Fencing, Settling, Removing
  <1>4. FreshAccount
    BY <1>2 DEF FreshAccount
  <1> QED BY <1>1, <1>3, <1>4 DEF TokenInv

\* Every step of the program keeps the invariant of the tokens, and the token
\* of a row on its way out for as long as it is live.
LEMMA NextKeepsTokens ==
    OwnAddresses /\ IInv /\ DebtInv /\ TokenInv /\ [Next]_vars => DyingKept /\ TokenInv'
  <1> SUFFICES ASSUME OwnAddresses, IInv, DebtInv, TokenInv, [Next]_vars
               PROVE  DyingKept /\ TokenInv'
    OBVIOUS
  <1>0. UNCHANGED <<records, tokens>> => DyingKept
    BY DEF DyingKept
  <1>1. ASSUME NEW o \in Ops, CallbackStep(o) PROVE DyingKept /\ TokenInv'
    <2>1. CASE Exchange(o) \/ LockCallback(o) \/ FinishCallback(o)
      <3>1. UNCHANGED <<records, tokens>>
        BY <2>1 DEF Exchange, LockCallback, FinishCallback, durable
      <3> QED BY <1>0, <2>1, <3>1, ExchangeKeepsTokens, LockCallbackKeepsTokens, EndsKeepTokens
    <2>2. CASE CommitPending(o) \/ PutToken(o) \/ Activate(o)
      BY <2>2, CommitPendingKeepsTokens, PutTokenKeepsTokens, ActivateKeepsTokens
    <2> QED BY <1>1, <2>1, <2>2 DEF CallbackStep
  <1>2. ASSUME NEW o \in Ops, SettleStep(o) PROVE DyingKept /\ TokenInv'
    <2>1. CASE ListNext(o)
      BY <1>0, <2>1, ListKeepsTokens DEF ListNext, durable
    <2> QED BY <1>2, <2>1, SettleDeleteKeepsTokens, SettleCommitKeepsTokens DEF SettleStep
  <1>3. ASSUME NEW o \in Ops, DisconnectStep(o) PROVE DyingKept /\ TokenInv'
    <2>1. CASE BumpOnStart(o) \/ BumpOnComplete(o) \/ Revoke(o) \/ Relock(o)
      <3>1. UNCHANGED <<records, tokens>>
        BY <2>1 DEF BumpOnStart, BumpOnComplete, Revoke, Relock, durable
      <3> QED BY <1>0, <2>1, <3>1, BumpKeepsTokens, RevokeKeepsTokens, RelockKeepsTokens
    <2>2. CASE MarkDisconnecting(o) \/ RecordLocalStage(o) \/ DeleteToken(o) \/ DeleteRecord(o)
      BY <2>2, MarkKeepsTokens, LocalStageKeepsTokens, DeleteTokenKeepsTokens,
         DeleteRecordKeepsTokens
    <2> QED BY <1>3, <2>1, <2>2 DEF DisconnectStep
  <1>4. ASSUME NEW o \in Ops, NEW p \in Principals,
               ListAccounts(o, p) \/ \E id \in AccountIds : Disconnect(o, p, id)
        PROVE  DyingKept /\ TokenInv'
    BY <1>0, <1>4, ListKeepsTokens, DisconnectKeepsTokens DEF ListAccounts, Disconnect, durable
  <1>5. ASSUME NEW o \in Ops, GiveUp(o) \/ \E k \in 1 .. MaxSessions : TakeSession(o, k)
        PROVE  DyingKept /\ TokenInv'
    BY <1>0, <1>5, EndsKeepTokens, TakeSessionKeepsTokens DEF GiveUp, TakeSession, durable
  <1>6. CASE \/ \E p \in Principals :
                   StartConnect(p) \/ \E id \in AccountIds : StartReconnect(p, id)
             \/ \E k \in 1 .. MaxSessions : ExpireSession(k)
             \/ UNCHANGED vars
    <2>1. UNCHANGED <<records, tokens, epochs, grant, nextAccount, pc, job, clients>>
      BY <1>6 DEF StartConnect, StartReconnect, NewSession, ExpireSession, vars, durable,
                  google, minted
    <2>2. \A w \in DOMAIN clients' : ClientSound(w)'
      BY <2>1 DEF TokenInv, ClientSound
    <2> QED BY <1>0, <2>1, <2>2, QuietKeepsTokens
  <1>7. CASE (\E id \in AccountIds : UseClient(id)) \/ Restart
    BY <1>0, <1>7, UseClientKeepsTokens, RestartKeepsTokens DEF UseClient, Restart, durable
  <1>8. CASE Next
    BY <1>1, <1>2, <1>3, <1>4, <1>5, <1>6, <1>7, <1>8 DEF Next, Step
  <1> QED BY <1>6, <1>8

(***************************************************************************)
(* The theorems: where no address is reported for two subjects             *)
(***************************************************************************)

\* The invariant of the tokens holds in every reachable state.
THEOREM TokensInductive == OwnAddresses => (Spec => []TokenInv)
  <1> SUFFICES ASSUME OwnAddresses PROVE Spec => []TokenInv
    OBVIOUS
  <1>1. IInv /\ DebtInv /\ TokenInv /\ [Next]_vars => TokenInv'
    BY NextKeepsTokens
  <1> QED BY <1>1, InitTokens, Inductive, DebtsInductive, PTL DEF Spec

\* An active connection can serve calls: whichever callbacks and disconnects
\* overlapped, and whatever failed, the store holds a token of its own subject
\* for its address, and the grant of that token has not been revoked.
THEOREM ActiveUsable == OwnAddresses => (Spec => []ActiveConnectionUsable)
  <1> SUFFICES ASSUME OwnAddresses PROVE Spec => []ActiveConnectionUsable
    OBVIOUS
  <1>1. IInv /\ TokenInv => ActiveConnectionUsable
    <2> SUFFICES ASSUME IInv, TokenInv, NEW id \in DOMAIN records, records[id].state = "active"
                 PROVE  /\ records[id].email \in DOMAIN tokens
                        /\ tokens[records[id].email].subject = records[id].subject
                        /\ Live(tokens[records[id].email])
      BY DEF ActiveConnectionUsable
    <2>1. records[id].email \in DOMAIN tokens /\ Live(tokens[records[id].email])
      BY DEF TokenInv, RowSound
    <2> QED BY <2>1, StoredIsOwn
  <1> QED BY <1>1, Inductive, TokensInductive, PTL

\* A cached client is never behind the registry and the store: it belongs to
\* an active row of its generation and holds the token that is stored now.
THEOREM ClientsCurrent == OwnAddresses => (Spec => []CachedClientsCurrent)
  <1> SUFFICES ASSUME OwnAddresses PROVE Spec => []CachedClientsCurrent
    OBVIOUS
  <1>1. TokenInv => CachedClientsCurrent
    BY DEF TokenInv, ClientSound, CachedClientsCurrent
  <1> QED BY <1>1, TokensInductive, PTL

\* A disconnect that fails leaves its retry the token to revoke: no step of any
\* handler drops or replaces the live token of a disconnecting row.
THEOREM RetryKeepsToken == OwnAddresses => (Spec => RetryTokenKept)
  <1> SUFFICES ASSUME OwnAddresses PROVE Spec => RetryTokenKept
    OBVIOUS
  <1> DEFINE kept == \A id \in DOMAIN records :
                        /\ records[id].state = "disconnecting"
                        /\ records[id].email \in DOMAIN tokens
                        /\ Live(tokens[records[id].email])
                        => /\ records[id].email \in DOMAIN tokens'
                           /\ tokens'[records[id].email] = tokens[records[id].email]
  <1>1. IInv /\ DebtInv /\ TokenInv /\ [Next]_vars => kept
    <2>1. DyingKept => kept
      BY DEF DyingKept
    <2> QED BY <2>1, NextKeepsTokens
  <1>2. RetryTokenKept <=> [][kept]_vars
    BY DEF RetryTokenKept
  <1> QED BY <1>1, <1>2, Inductive, DebtsInductive, TokensInductive, PTL DEF Spec

=============================================================================
