------------------------------ MODULE CallPath ------------------------------
(***************************************************************************)
(* A tool call on its way to Google and back: the runtime's slots and      *)
(* deadline, the call's request budget, the provider's request slots, the  *)
(* retry transport, and the error that the caller is finally given.        *)
(*                                                                         *)
(* A call makes at most three requests.  What tells the five kinds apart   *)
(* is which of them change something at Google, which may be retried, and  *)
(* how a failure is classified:                                            *)
(*   search   lists messages, then reads two of them concurrently          *)
(*   api      one write through the catalogue executor                     *)
(*   update   a Drive version lookup, then a conditional upload            *)
(*   send     reads the send-as settings, then sends the mail              *)
(*   author   creates a document, then fills it                            *)
(***************************************************************************)
EXTENDS Integers, FiniteSets

CONSTANTS Calls,         \* tool calls
          Kinds,         \* the kinds a call may be of
          Limits,        \* values configured for the requests a call may make
          RuntimeSlots,  \* calls the runtime runs at once
          ApiSlots,      \* requests the provider runs at once
          Max429, Max5xx \* retries of a safe read

AllKinds == {"search", "api", "update", "send", "author"}

ASSUME CallPathAssumption ==
  /\ IsFiniteSet(Calls)
  /\ Kinds \subseteq AllKinds
  /\ Limits \subseteq Nat
  /\ RuntimeSlots \in Nat \ {0} /\ ApiSlots \in Nat \ {0}
  /\ Max429 \in Nat /\ Max5xx \in Nat

VARIABLES limit,     \* the configured budget
          kind,      \* per call: what it does
          phase,     \* per call: idle, queued, admitted, running, done
          answer,    \* per call: what the caller was told
          expired,   \* per call: its deadline has passed
          used,      \* per call: nativeCallBudget.used
          req,       \* per call and request: the goroutine making it
          google,    \* per call and request: what became of a write
          rtSlots,   \* slots taken in Runtime.slots
          apiSlots   \* slots taken in NativeProvider.slots

vars == <<limit, kind, phase, answer, expired, used, req, google, rtSlots, apiSlots>>

Requests == 1..3

Definite == {"auth", "deadline", "budget", "rejected", "failed", "invalid", "denied"}
Answers  == Definite \cup {"ok", "partial", "unknown"}
Holding  == {"load", "cas", "flight", "sleep"}   \* pcs that own a request slot

Request == [pc : {"idle", "token", "slot", "ended"} \cup Holding,
            seen : Nat, n429 : 0..Max429, n5xx : 0..Max5xx, sends : Nat,
            result : Definite \cup {"none", "ok", "unknown"}]

NoRequest == [pc |-> "idle", seen |-> 0, n429 |-> 0, n5xx |-> 0, sends |-> 0, result |-> "none"]

-----------------------------------------------------------------------------
(* The operations: which requests write, and how each is dispatched *)

Writes(k) == {i \in Requests : \/ i = 1 /\ k \in {"api", "author"}
                               \/ i = 2 /\ k \in {"update", "send", "author"}}

\* The requests made once the first one has succeeded.
Followers(k) == {i \in Requests : (i = 2 /\ k # "api") \/ (i = 3 /\ k = "search")}

\* fault seeded in Reserve: creation asks for the budget of its first request only.
ReserveCreation(k) == IF k \in {"update", "send"} THEN 2 ELSE IF k = "author" THEN 1 ELSE 0

\* requireBudget: the requests that must be affordable before the first is made.
Reserve(k) == IF k \in {"update", "send", "author"} THEN 2 ELSE 0

\* fault seeded in Retried: the transport does not look at the retry class.
RetriedAlways(k, i) == TRUE

\* Catalogue operations whose retry class is SafeRead.  The lookup of an update
\* goes through the write's client, so it is dispatched once like the write.
Retried(k, i) == k = "search" \/ (k = "send" /\ i = 1)

\* Operations that go through the Google SDK rather than client.Do.
Sdk(k) == k \in {"search", "send", "author"}

\* fault seeded in CtxDone: the handler returns without cancelling the call's context.
NeverCancelled(c) == expired[c]

CtxDone(c) == expired[c] \/ phase[c] = "done"

-----------------------------------------------------------------------------
(* Errors.  A typed error is a mcpcontract.Error and carries its category;  *)
(* an untyped one is told by its cause.                                    *)

Typed(category) == [typed |-> TRUE, what |-> category]
Untyped(cause)  == [typed |-> FALSE, what |-> cause]

Causes == {"ctx", "timeout", "4xx", "5xx", "net"}
Errors == {Typed(d) : d \in Definite \cup {"unknown"}} \cup {Untyped(u) : u \in Causes}

PublicError(e) == IF e.typed THEN e.what
                  ELSE IF e.what \in {"ctx", "timeout"} THEN "deadline"
                  ELSE IF e.what = "4xx" THEN "rejected" ELSE "failed"

\* fault seeded in WriteError: the errors of a write are mapped like those of a read.
ReadError(e) == PublicError(e)

WriteError(e) == IF e.typed \/ e.what = "4xx" THEN PublicError(e) ELSE "unknown"

\* mapDoError and readResult: only what comes from url.Error or the context is in doubt.
ApiError(e) == IF ~e.typed /\ e.what \in {"ctx", "timeout", "net", "5xx"}
               THEN "unknown" ELSE PublicError(e)

Classified(k, i, e) == IF i \notin Writes(k) THEN PublicError(e)
                       ELSE IF k = "api" THEN ApiError(e) ELSE WriteError(e)

\* What the operation sees of a failure: http.Client replaces the error of a
\* request that outran its own timeout, and the SDK that of a context that is done.
Surfaces(k, done, e) ==
  {e} \cup (IF e.what \in {"4xx", "5xx"} THEN {} ELSE {Untyped("timeout")})
      \cup (IF Sdk(k) /\ done /\ e.what \notin {"4xx", "5xx"} THEN {Untyped("ctx")} ELSE {})

\* finish and resultForSized: a result too large for the response is replaced.
Fitted(k, a) ==
  {a} \cup {IF a = "unknown" \/ (a \in {"ok", "partial"} /\ k # "search")
            THEN "unknown" ELSE "invalid"}

-----------------------------------------------------------------------------
CallTypes ==
  /\ limit \in Limits
  /\ kind \in [Calls -> Kinds]
  /\ phase \in [Calls -> {"idle", "queued", "admitted", "running", "done"}]
  /\ answer \in [Calls -> Answers \cup {"none"}]
  /\ expired \in [Calls -> BOOLEAN]
  /\ used \in [Calls -> Nat]
  /\ req \in [Calls -> [Requests -> Request]]
  /\ google \in [Calls -> [Requests -> {"none", "sent", "applied", "refused"}]]

TypeOK ==
  /\ CallTypes
  /\ rtSlots \in 0..RuntimeSlots
  /\ apiSlots \in 0..ApiSlots

Init ==
  /\ limit \in Limits
  /\ kind \in [Calls -> Kinds]
  /\ phase = [c \in Calls |-> "idle"]
  /\ answer = [c \in Calls |-> "none"]
  /\ expired = [c \in Calls |-> FALSE]
  /\ used = [c \in Calls |-> 0]
  /\ req = [c \in Calls |-> [i \in Requests |-> NoRequest]]
  /\ google = [c \in Calls |-> [i \in Requests |-> "none"]]
  /\ rtSlots = 0
  /\ apiSlots = 0

-----------------------------------------------------------------------------
(* The handler *)

Submit(c) ==
  /\ phase[c] = "idle"
  /\ phase' = [phase EXCEPT ![c] = "queued"]
  /\ UNCHANGED <<limit, kind, answer, expired, used, req, google, rtSlots, apiSlots>>

\* fault seeded in Expire: the deadline bounds the wait for a slot and nothing after it.
ExpireQueued(c) ==
  /\ phase[c] = "queued" /\ ~expired[c]
  /\ expired' = [expired EXCEPT ![c] = TRUE]
  /\ UNCHANGED <<limit, kind, phase, answer, used, req, google, rtSlots, apiSlots>>

\* withTimeout: the deadline passes, or the client cancels.
Expire(c) ==
  /\ phase[c] \in {"queued", "admitted", "running"} /\ ~expired[c]
  /\ expired' = [expired EXCEPT ![c] = TRUE]
  /\ UNCHANGED <<limit, kind, phase, answer, used, req, google, rtSlots, apiSlots>>

Admit(c) ==
  /\ phase[c] = "queued" /\ rtSlots < RuntimeSlots
  /\ phase' = [phase EXCEPT ![c] = "admitted"]
  /\ rtSlots' = rtSlots + 1
  /\ UNCHANGED <<limit, kind, answer, expired, used, req, google, apiSlots>>

GiveUpQueue(c) ==
  /\ phase[c] = "queued" /\ expired[c]
  /\ phase' = [phase EXCEPT ![c] = "done"]
  /\ answer' = [answer EXCEPT ![c] = "deadline"]
  /\ UNCHANGED <<limit, kind, expired, used, req, google, rtSlots, apiSlots>>

\* The handler returns: finish, the deferred release, the deferred cancel.
Answer(c, a) ==
  /\ \E fit \in Fitted(kind[c], a) : answer' = [answer EXCEPT ![c] = fit]
  /\ phase' = [phase EXCEPT ![c] = "done"]
  /\ rtSlots' = rtSlots - 1
  /\ UNCHANGED <<limit, kind, expired, used, req, google, apiSlots>>

StartRequests(c, S) ==
  /\ req' = [req EXCEPT ![c] = [i \in Requests |-> IF i \in S THEN [@[i] EXCEPT !.pc = "token"] ELSE @[i]]]
  /\ phase' = [phase EXCEPT ![c] = "running"]
  /\ UNCHANGED <<limit, kind, answer, expired, used, google, rtSlots, apiSlots>>

\* "denied" stands for every refusal before a request: writes disabled, input,
\* Authorize, scope, client acquisition.
Begin(c) ==
  /\ phase[c] = "admitted"
  /\ \/ Answer(c, "denied")
     \/ limit - used[c] < Reserve(kind[c]) /\ Answer(c, "budget")
     \/ limit - used[c] >= Reserve(kind[c]) /\ StartRequests(c, {1})

Succeeded(c, i) == req[c][i].result = "ok"
Failed(c, i)    == req[c][i].pc = "ended" /\ ~Succeeded(c, i)

FirstFailed(c) ==
  /\ phase[c] = "running" /\ Failed(c, 1)
  /\ Answer(c, req[c][1].result)

\* The first request succeeded: what it returned decides what happens next.
FirstSucceeded(c) ==
  /\ phase[c] = "running" /\ Succeeded(c, 1)
  /\ \A i \in Followers(kind[c]) : req[c][i].pc = "idle"
  /\ \/ kind[c] \in {"search", "api"} /\ Answer(c, "ok")    \* nothing listed; done
     \/ kind[c] \in {"update", "send"} /\ Answer(c, "invalid") \* version, digest, no client
     \/ kind[c] = "author" /\ Answer(c, "unknown")          \* no document ID
     \/ kind[c] = "author" /\ Answer(c, "partial")          \* a slide without an ID
     \/ Followers(kind[c]) # {} /\ StartRequests(c, Followers(kind[c]))

\* fault seeded in FollowerFailed: the error of the second write is dropped.
FillErrorDropped(c) ==
  /\ phase[c] = "running"
  /\ \E i \in Followers(kind[c]) :
        Failed(c, i) /\ Answer(c, IF kind[c] = "author" THEN "ok" ELSE req[c][i].result)

\* A search returns the first error its workers report while others still run; a
\* document that exists is reported although filling it failed.
FollowerFailed(c) ==
  /\ phase[c] = "running"
  /\ \E i \in Followers(kind[c]) :
        Failed(c, i) /\ Answer(c, IF kind[c] = "author" THEN "partial" ELSE req[c][i].result)

AllSucceeded(c) ==
  /\ phase[c] = "running" /\ Followers(kind[c]) # {}
  /\ \A i \in Followers(kind[c]) : Succeeded(c, i)
  /\ \/ Answer(c, "ok")
     \/ kind[c] \in {"update", "send"} /\ Answer(c, "unknown") \* an answer without the ID

-----------------------------------------------------------------------------
(* A request: nativeAuthTransport, nativeSlotTransport, NativeRetryTransport *)

\* fault seeded in End: the request slot is given back on success only.
EndKeepingSlot(c, i, result) ==
  /\ req' = [req EXCEPT ![c][i].pc = "ended", ![c][i].result = result]
  /\ apiSlots' = IF req[c][i].pc \in Holding /\ result = "ok" THEN apiSlots - 1 ELSE apiSlots
  /\ UNCHANGED <<limit, kind, phase, answer, expired, used, google, rtSlots>>

End(c, i, result) ==
  /\ req' = [req EXCEPT ![c][i].pc = "ended", ![c][i].result = result]
  /\ apiSlots' = IF req[c][i].pc \in Holding THEN apiSlots - 1 ELSE apiSlots
  /\ UNCHANGED <<limit, kind, phase, answer, expired, used, google, rtSlots>>

Fail(c, i, e) ==
  \E seen \in Surfaces(kind[c], CtxDone(c), e) : End(c, i, Classified(kind[c], i, seen))

GetToken(c, i) ==
  /\ req[c][i].pc = "token"
  /\ \/ /\ req' = [req EXCEPT ![c][i].pc = "slot"]
        /\ UNCHANGED <<limit, kind, phase, answer, expired, used, google, rtSlots, apiSlots>>
     \/ Fail(c, i, Typed("auth"))
     \/ CtxDone(c) /\ Fail(c, i, Typed("deadline"))

TakeSlot(c, i) ==
  /\ req[c][i].pc = "slot"
  /\ \/ /\ apiSlots < ApiSlots
        /\ apiSlots' = apiSlots + 1
        /\ req' = [req EXCEPT ![c][i].pc = "load"]
        /\ UNCHANGED <<limit, kind, phase, answer, expired, used, google, rtSlots>>
     \/ CtxDone(c) /\ Fail(c, i, Typed("deadline"))

\* consumeUpstreamBudget: the load and the compare-and-swap are separate steps.
LoadBudget(c, i) ==
  /\ req[c][i].pc = "load"
  /\ \/ used[c] >= limit /\ Fail(c, i, Typed("budget"))
     \/ /\ used[c] < limit
        /\ req' = [req EXCEPT ![c][i].pc = "cas", ![c][i].seen = used[c]]
        /\ UNCHANGED <<limit, kind, phase, answer, expired, used, google, rtSlots, apiSlots>>

\* fault seeded in SwapBudget: the new count is stored without comparing.
StoreBudget(c, i) ==
  /\ req[c][i].pc = "cas"
  /\ used' = [used EXCEPT ![c] = req[c][i].seen + 1]
  /\ req' = [req EXCEPT ![c][i].pc = "flight", ![c][i].sends = @ + 1]
  /\ google' = [google EXCEPT ![c][i] = IF i \in Writes(kind[c]) THEN "sent" ELSE @]
  /\ UNCHANGED <<limit, kind, phase, answer, expired, rtSlots, apiSlots>>

SwapBudget(c, i) ==
  /\ req[c][i].pc = "cas"
  /\ \/ /\ used[c] = req[c][i].seen
        /\ used' = [used EXCEPT ![c] = req[c][i].seen + 1]
        /\ req' = [req EXCEPT ![c][i].pc = "flight", ![c][i].sends = @ + 1]
        /\ google' = [google EXCEPT ![c][i] = IF i \in Writes(kind[c]) THEN "sent" ELSE @]
     \/ /\ used[c] # req[c][i].seen
        /\ req' = [req EXCEPT ![c][i].pc = "load"]
        /\ UNCHANGED <<used, google>>
  /\ UNCHANGED <<limit, kind, phase, answer, expired, rtSlots, apiSlots>>

\* Google carries out or refuses a write it was sent, at any later time.
GoogleActs(c, i) ==
  /\ google[c][i] = "sent"
  /\ \E outcome \in {"applied", "refused"} : google' = [google EXCEPT ![c][i] = outcome]
  /\ UNCHANGED <<limit, kind, phase, answer, expired, used, req, rtSlots, apiSlots>>

\* An answer read to its end.
Delivered(c, i) ==
  /\ req[c][i].pc = "flight"
  /\ i \in Writes(kind[c]) => google[c][i] = "applied"
  /\ End(c, i, "ok")

\* A status below 500 that says the request was refused.
Rejected(c, i) ==
  /\ req[c][i].pc = "flight"
  /\ i \in Writes(kind[c]) => google[c][i] = "refused"
  /\ Fail(c, i, Untyped("4xx"))

\* A lost connection, a redirect, an answer cut short or unreadable.  The write
\* transport has no untyped failure but the redirect, which http.Client refuses.
LoseAnswer(c, i) ==
  /\ req[c][i].pc = "flight"
  /\ \/ Fail(c, i, Untyped("net"))
     \/ ~Retried(kind[c], i) /\ Fail(c, i, Typed("unknown"))

\* The context ends the exchange.
AbandonFlight(c, i) ==
  /\ req[c][i].pc = "flight" /\ CtxDone(c)
  /\ IF Retried(kind[c], i) THEN Fail(c, i, Untyped("ctx")) ELSE Fail(c, i, Typed("unknown"))

Back(c, i) ==
  /\ req[c][i].pc = "flight"
  /\ UNCHANGED <<limit, kind, phase, answer, expired, used, google, rtSlots, apiSlots>>

\* fault seeded in RetryLater: retries are counted and never compared with their maximum.
RetriesUncapped(c, i) ==
  /\ Retried(kind[c], i)
  /\ Back(c, i)
  /\ req' = [req EXCEPT ![c][i].pc = "sleep", ![c][i].n429 = @ + 1]

\* 429, a rate limit 403 or 5xx: a safe read sleeps, keeping its slot.
RetryLater(c, i) ==
  /\ Retried(kind[c], i)
  /\ Back(c, i)
  /\ \/ /\ req[c][i].n429 < Max429
        /\ req' = [req EXCEPT ![c][i].pc = "sleep", ![c][i].n429 = @ + 1]
     \/ /\ req[c][i].n5xx < Max5xx
        /\ req' = [req EXCEPT ![c][i].pc = "sleep", ![c][i].n5xx = @ + 1]

\* The same statuses, and 408, where nothing is retried: a write, retries that are
\* spent, a delay that would outrun the deadline.
RetryNoMore(c, i) ==
  /\ req[c][i].pc = "flight"
  /\ IF Retried(kind[c], i) THEN Fail(c, i, Untyped("5xx")) ELSE Fail(c, i, Typed("unknown"))

WakeUp(c, i) ==
  /\ req[c][i].pc = "sleep"
  /\ \/ /\ req' = [req EXCEPT ![c][i].pc = "load"]
        /\ UNCHANGED <<limit, kind, phase, answer, expired, used, google, rtSlots, apiSlots>>
     \/ CtxDone(c) /\ Fail(c, i, Typed("deadline"))

-----------------------------------------------------------------------------
Handle(c) ==
  \/ GiveUpQueue(c) \/ Begin(c) \/ FirstFailed(c) \/ FirstSucceeded(c)
  \/ FollowerFailed(c) \/ AllSucceeded(c)

\* Steps a request takes whatever Google does.
Proceed(c, i) ==
  \/ GetToken(c, i) \/ TakeSlot(c, i) \/ LoadBudget(c, i) \/ SwapBudget(c, i)
  \/ AbandonFlight(c, i) \/ WakeUp(c, i)

Reply(c, i) ==
  \/ Delivered(c, i) \/ Rejected(c, i) \/ LoseAnswer(c, i)
  \/ RetryLater(c, i) \/ RetryNoMore(c, i)

Next ==
  \E c \in Calls :
    \/ Submit(c) \/ Expire(c) \/ Admit(c) \/ Handle(c)
    \/ \E i \in Requests : Proceed(c, i) \/ Reply(c, i) \/ GoogleActs(c, i)

\* Deadlines pass and goroutines run; Google and the network owe nothing.
Fairness ==
  \A c \in Calls :
    /\ WF_vars(Expire(c)) /\ WF_vars(Handle(c))
    /\ \A i \in Requests : WF_vars(Proceed(c, i))

Spec == Init /\ [][Next]_vars /\ Fairness

-----------------------------------------------------------------------------
(* Properties *)

\* A caller told of a definite failure can repeat the call: none of its writes was
\* or will be carried out (NativeWritePublicError, mapDoError, oversizedResultError).
\* The failure listed in a partial creation owes the same of the second write.
FailureIsHonest ==
  \A c \in Calls :
    /\ answer[c] \in Definite =>
         \A i \in Writes(kind[c]) : google[c][i] \in {"none", "refused"}
    /\ (answer[c] = "partial" /\ req[c][2].result \in Definite) =>
         google[c][2] \in {"none", "refused"}

\* A caller told of success has all its writes, and of a partial creation the
\* document (createDocument, createPresentation, send, updateFile).
SuccessIsHonest ==
  \A c \in Calls :
    /\ answer[c] = "ok" => \A i \in Writes(kind[c]) : google[c][i] = "applied"
    /\ answer[c] = "partial" => google[c][1] = "applied"

\* A write is dispatched at most once whatever came back (roundTripOnce).
NoReplay ==
  \A c \in Calls : \A i \in Writes(kind[c]) : req[c][i].sends <= 1

\* The goroutines of a call together send no more requests, retries included, than
\* its budget allows (consumeUpstreamBudget).
BudgetKept ==
  \A c \in Calls : req[c][1].sends + req[c][2].sends + req[c][3].sends <= limit

\* A document is never left empty for want of budget: what requireBudget saw before
\* the creation is still there when the document is filled.
PopulationFunded ==
  \A c \in Calls : kind[c] = "author" => req[c][2].result # "budget"

Held    == {r \in Calls \X Requests : req[r[1]][r[2]].pc \in Holding}
Running == {c \in Calls : phase[c] \in {"admitted", "running"}}

\* Every slot taken has one owner: no way out of RoundTrip or of the handler keeps
\* one or gives one back twice.
SlotsAccounted == apiSlots = Cardinality(Held) /\ rtSlots = Cardinality(Running)

\* A call made is answered, though Google may never reply and every slot may be
\* taken (withTimeout, acquire, nativeSlotTransport).
EveryCallAnswered == \A c \in Calls : phase[c] = "queued" ~> phase[c] = "done"

\* The workers that fetchMessageViews leaves behind after the first error, asleep,
\* waiting or in flight, all end.
WorkersStop ==
  \A c \in Calls :
    phase[c] = "done" ~> \A i \in Requests : req[c][i].pc \in {"idle", "ended"}
=============================================================================
