----------------------------- MODULE TokenStore -----------------------------
(***************************************************************************)
(* SecretsTokenStore (internal/accountconnect/tokens.go): reads, writes    *)
(* and deletes of one refresh-token key are jobs of a single worker, which *)
(* may hang in the operating system's keyring for as long as it likes.  A  *)
(* caller whose deadline passes leaves its job with the worker and poisons *)
(* the store: nobody knows any more what it holds.                         *)
(***************************************************************************)
EXTENDS Naturals

CONSTANTS
    Callers,        \* goroutines that may use the store
    NoCaller,
    Token,          \* the refresh tokens
    NoToken,        \* the key is not in the keyring
    MaxFaults       \* bound: failed writes, failed reads and restarts

VARIABLES
    stored,         \* in the keyring: the token under the key
    poisoned,       \* in memory: the store refuses everything
    worker,         \* in memory: the job the worker is at
    call,           \* in memory: the operation each caller is in
    faults

Fault   == faults < MaxFaults /\ faults' = faults + 1
NoFault == UNCHANGED faults

\* What an operation returns: "ok" with the token read, "none" when the key is
\* not there, or an error, of which only "error" comes from the keyring.
Result   == [kind : {"ok", "none", "error", "expired", "unavailable"},
             token : Token \cup {NoToken}]
Ok(t)    == [kind |-> "ok", token |-> t]
Only(k)  == [kind |-> k, token |-> NoToken]
Answered(res) == res.kind \in {"ok", "none"}

Steps  == {"none", "offer", "wait", "replied"}
Ops    == {"get", "put", "delete"}
NoCall == [step |-> "none", op |-> "get", token |-> NoToken, reply |-> Only("none")]
Idle   == [by |-> NoCaller, op |-> "get", token |-> NoToken, phase |-> "idle",
           orphan |-> FALSE]

CallStates == [step : Steps, op : Ops, token : Token \cup {NoToken}, reply : Result]
Jobs       == [by : Callers \cup {NoCaller}, op : Ops, token : Token \cup {NoToken},
               phase : {"idle", "read", "change"}, orphan : BOOLEAN]

StoreTypeOK ==
    /\ stored \in Token \cup {NoToken}
    /\ poisoned \in BOOLEAN
    /\ worker \in Jobs
    /\ call \in [Callers -> CallStates]
    /\ faults \in 0 .. MaxFaults

StoreInit ==
    /\ stored = NoToken
    /\ poisoned = FALSE
    /\ worker = Idle
    /\ call = [c \in Callers |-> NoCall]
    /\ faults = 0

(***************************************************************************)
(* The caller's side                                                       *)
(***************************************************************************)

\* the operation a caller enters: refused at once by a poisoned store, offered
\* to the worker otherwise
Asked(op, t) ==
    IF poisoned THEN [NoCall EXCEPT !.step = "replied", !.reply = Only("unavailable")]
                ELSE [NoCall EXCEPT !.step = "offer", !.op = op, !.token = t]

Ask(c, op, t) == call' = [call EXCEPT ![c] = Asked(op, t)]

Receive(c, res) ==
    /\ call[c].step = "replied"
    /\ res = call[c].reply
    /\ UNCHANGED <<poisoned, worker>>

\* the context ends before the worker takes the job
GiveUpOffer(c, res) ==
    /\ call[c].step = "offer"
    /\ res = Only("expired")
    /\ UNCHANGED <<poisoned, worker>>

\* fault seeded in GiveUpWait: the caller waits for the worker
GiveUpWaitNever(c, res) == FALSE /\ UNCHANGED <<poisoned, worker>>

\* the context ends while the worker is at the job, which it may still carry out
GiveUpWait(c, res) ==
    /\ call[c].step = "wait"
    /\ res = Only("expired")
    /\ poisoned' = TRUE
    /\ worker' = [worker EXCEPT !.orphan = TRUE]

\* c's operation returns res, and c goes on to the operation next (or NoCall)
Returns(c, res, next) ==
    /\ Receive(c, res) \/ GiveUpOffer(c, res) \/ GiveUpWait(c, res)
    /\ call' = [call EXCEPT ![c] = next]
    /\ UNCHANGED stored

(***************************************************************************)
(* The worker's side                                                       *)
(***************************************************************************)

\* the result goes to the caller, if it still waits for it
Reply(res) ==
    /\ worker' = Idle
    /\ call' = IF worker.orphan THEN call
               ELSE [call EXCEPT ![worker.by].step = "replied", ![worker.by].reply = res]

\* the worker takes a job; the checks it makes before it touches the keyring
\* refuse the job in a poisoned store, and poison it when the context has ended
Take(c) ==
    /\ worker = Idle
    /\ call[c].step = "offer"
    /\ \/ /\ call' = [call EXCEPT ![c].step = "replied",
                                  ![c].reply = Only(IF poisoned THEN "unavailable" ELSE "expired")]
          /\ poisoned' = TRUE
          /\ UNCHANGED worker
       \/ /\ ~ poisoned
          /\ call' = [call EXCEPT ![c].step = "wait"]
          /\ worker' = [by |-> c, op |-> call[c].op, token |-> call[c].token,
                        phase |-> IF call[c].op = "delete" THEN "change" ELSE "read",
                        orphan |-> FALSE]
          /\ UNCHANGED poisoned
    /\ UNCHANGED <<stored, faults>>

FailJob == Fault /\ Reply(Only("error")) /\ UNCHANGED poisoned

\* a Put reads the key before it writes it, and checks again in between
Aborted ==
    /\ Reply(Only(IF poisoned THEN "unavailable" ELSE "expired"))
    /\ poisoned' = TRUE

Proceed ==
    /\ ~ poisoned /\ ~ worker.orphan
    /\ worker' = [worker EXCEPT !.phase = "change"]
    /\ UNCHANGED <<poisoned, call>>

ReadKey ==
    /\ worker.phase = "read"
    /\ \/ FailJob
       \/ /\ worker.op = "get"
          /\ Reply(IF stored = NoToken THEN Only("none") ELSE Ok(stored))
          /\ NoFault /\ UNCHANGED poisoned
       \/ worker.op = "put" /\ (Aborted \/ Proceed) /\ NoFault
    /\ UNCHANGED stored

\* a keyring that reports an error may have made the change all the same
ChangeKey ==
    LET value == IF worker.op = "put" THEN worker.token ELSE NoToken IN
    /\ worker.phase = "change"
    /\ \/ stored' = value /\ Reply(Only("ok")) /\ NoFault /\ UNCHANGED poisoned
       \/ stored' \in {stored, value} /\ FailJob

WorkerStep == (\E c \in Callers : Take(c)) \/ ReadKey \/ ChangeKey

\* the process stops, and its jobs with it: the keyring alone survives
StoreRestart ==
    /\ poisoned' = FALSE
    /\ worker' = Idle
    /\ call' = [c \in Callers |-> NoCall]
    /\ UNCHANGED stored

=============================================================================
