--------------------------- MODULE CallPathProofs ---------------------------
(***************************************************************************)
(* Theorems about CallPath for every number of calls, kinds, slots,        *)
(* retries and budget.  FailureIsHonest and SuccessIsHonest follow from    *)
(* where each request of a call is in its dispatch (DispatchInv) and from  *)
(* the order of the requests (OrderInv); the budget properties from the    *)
(* count of what was sent (CountInv).  IInv is their conjunction.          *)
(***************************************************************************)
EXTENDS CallPath, FiniteSetTheorems, TLAPS

BeforeDispatch == {"idle", "token", "slot", "load", "cas"}

\* Where a write stands tells what Google may have done of it: nothing before its
\* one dispatch, and what its result says once it has ended.
DispatchInv ==
  \A c \in Calls : \A i \in Requests :
    /\ req[c][i].pc = "ended" <=> req[c][i].result # "none"
    /\ i \in Writes(kind[c]) =>
         /\ req[c][i].pc \in BeforeDispatch => req[c][i].sends = 0 /\ google[c][i] = "none"
         /\ req[c][i].pc # "sleep"
         /\ req[c][i].sends <= 1
         /\ req[c][i].result \in Definite => google[c][i] \in {"none", "refused"}
         /\ req[c][i].result = "ok" => google[c][i] = "applied"

\* Requests start in the order of the script, in a call that runs, and a call that
\* is done leaves no write under way.  Only a creation has a partial result.
OrderInv ==
  \A c \in Calls :
    /\ phase[c] \in {"idle", "queued", "admitted"} =>
         \A i \in Requests : req[c][i].pc = "idle"
    /\ \A i \in {2, 3} : req[c][i].pc # "idle" =>
         i \in Followers(kind[c]) /\ req[c][1].result = "ok"
    /\ phase[c] = "done" => \A i \in Writes(kind[c]) : req[c][i].pc \in {"idle", "ended"}
    /\ answer[c] # "none" <=> phase[c] = "done"
    /\ answer[c] = "partial" => kind[c] = "author"

\* The counter is the number of requests sent, and whoever is about to add to it
\* saw room; a creation in progress was promised two.
CountInv ==
  \A c \in Calls :
    /\ used[c] = req[c][1].sends + req[c][2].sends + req[c][3].sends
    /\ used[c] <= limit
    /\ \A i \in Requests :
         /\ req[c][i].pc = "idle" => req[c][i].sends = 0
         /\ req[c][i].pc = "cas" => req[c][i].seen < limit
    /\ kind[c] = "author" /\ req[c][1].pc # "idle" => limit >= 2

IInv == CallTypes /\ DispatchInv /\ OrderInv /\ CountInv
          /\ FailureIsHonest /\ SuccessIsHonest /\ PopulationFunded

-----------------------------------------------------------------------------
(* The script of a call and the classification of its failures *)

\* Writes are requests of the script, in its order, and never retried.
LEMMA ScriptFacts ==
    ASSUME NEW k \in AllKinds
    PROVE  /\ Followers(k) \subseteq {2, 3}
           /\ Writes(k) \subseteq {1} \cup Followers(k)
           /\ k # "search" => Followers(k) \subseteq {2}
           /\ k = "search" => Writes(k) = {}
           /\ \A i \in Writes(k) : ~Retried(k, i)
  BY DEF AllKinds, Followers, Writes, Retried, Requests

\* A failure ends the request.  A write is told as definite only for an error typed
\* as such or a refusal, and only an error of the budget is told as one.
LEMMA FailEnds ==
    ASSUME NEW c \in Calls, NEW i \in Requests, NEW e \in Errors, Fail(c, i, e)
    PROVE  \E r \in Definite \cup {"unknown"} :
             /\ End(c, i, r)
             /\ r = "budget" => e = Typed("budget")
             /\ i \in Writes(kind[c]) /\ r \in Definite =>
                  e = Untyped("4xx") \/ (e.typed /\ e.what \in Definite)
  <1>1. PICK s \in Surfaces(kind[c], CtxDone(c), e) : End(c, i, Classified(kind[c], i, s))
    BY DEF Fail
  <1>2. s \in {e, Untyped("timeout"), Untyped("ctx")}
    BY DEF Surfaces
  <1> DEFINE r == Classified(kind[c], i, s)
  <1>3. s \in Errors
    BY <1>2 DEF Errors, Causes
  <1>4. CASE s.typed
    <2>1. r = s.what /\ s = e /\ s = Typed(s.what) /\ s.what \in Definite \cup {"unknown"}
      BY <1>2, <1>3, <1>4 DEF Classified, PublicError, WriteError, ApiError, Errors, Typed, Untyped
    <2> QED
      BY <1>1, <1>4, <2>1
  <1>5. CASE ~s.typed
    <2>1. s.what \in Causes /\ s = Untyped(s.what)
      BY <1>3, <1>5 DEF Errors, Typed, Untyped
    <2>2. r \in {"deadline", "rejected", "failed", "unknown"}
      BY <1>5, <2>1 DEF Classified, PublicError, WriteError, ApiError
    <2>3. i \in Writes(kind[c]) /\ r # "unknown" => s.what = "4xx"
      BY <1>5, <2>1 DEF Classified, PublicError, WriteError, ApiError, Causes
    <2>4. s.what = "4xx" => e = Untyped("4xx")
      BY <1>2, <2>1 DEF Untyped
    <2> QED
      BY <1>1, <2>2, <2>3, <2>4 DEF Definite
  <1> QED
    BY <1>4, <1>5

-----------------------------------------------------------------------------
(* Steps of one request *)

\* Only the record of request i of call c changes, to r.
Becomes(c, i, r) ==
  /\ req' \in [Calls -> [Requests -> Request]]
  /\ req'[c][i] = r
  /\ \A d \in Calls : \A j \in Requests : (d # c \/ j # i) => req'[d][j] = req[d][j]

\* Storing a record in req changes that record alone.
LEMMA StoreRequest ==
    ASSUME NEW c \in Calls, NEW i \in Requests, NEW r \in Request,
           req \in [Calls -> [Requests -> Request]],
           req' = [req EXCEPT ![c] = [req[c] EXCEPT ![i] = r]]
    PROVE  Becomes(c, i, r)
  BY DEF Becomes

\* A step of a request that neither ends it nor sends anything keeps the invariant:
\* the token, the slot, the load of the budget, a retry's sleep.
LEMMA MoveKeeps ==
    ASSUME IInv, NEW c \in Calls, NEW i \in Requests, NEW r \in Request,
           Becomes(c, i, r),
           req[c][i].pc \notin {"idle", "ended"}, r.pc \notin {"idle", "ended"},
           r.sends = req[c][i].sends, r.result = req[c][i].result,
           r.pc = "cas" => r.seen < limit,
           i \in Writes(kind[c]) => req[c][i].pc \in BeforeDispatch /\ r.pc \in BeforeDispatch,
           UNCHANGED <<limit, kind, phase, answer, expired, used, google>>
    PROVE  IInv'
  <1>1. \A d \in Calls : Writes(kind[d]) \subseteq Requests
    BY DEF Writes
  <1>2. \A d \in Calls : \A j \in Requests :
          req'[d][j].sends = req[d][j].sends /\ req'[d][j].result = req[d][j].result
    BY DEF Becomes
  <1>3. CallTypes'
    BY DEF IInv, CallTypes, Becomes
  <1>4. DispatchInv'
    BY <1>2 DEF IInv, DispatchInv, Becomes, BeforeDispatch
  <1>5. OrderInv'
    <2> SUFFICES ASSUME NEW d \in Calls
                 PROVE  OrderInv!(d)'
      BY DEF OrderInv
    <2>1. phase[c] \notin {"idle", "queued", "admitted"}
      BY DEF IInv, OrderInv
    <2>2. \A j \in {2, 3} : req'[d][j].pc # "idle" => req[d][j].pc # "idle"
      BY DEF Becomes, Requests
    <2>3. \A j \in Writes(kind[d]) :
             phase[d] = "done" => req'[d][j] = req[d][j]
      BY <1>1 DEF IInv, OrderInv, Becomes
    <2>4. phase[d] \in {"idle", "queued", "admitted"} =>
             \A j \in Requests : req'[d][j] = req[d][j]
      BY <2>1 DEF Becomes
    <2>5. req'[d][1].result = req[d][1].result
      BY <1>2 DEF Requests
    <2> QED
      BY <2>2, <2>3, <2>4, <2>5 DEF IInv, OrderInv
  <1>6. CountInv'
    BY <1>2 DEF IInv, CountInv, Becomes, Requests
  <1>7. FailureIsHonest' /\ SuccessIsHonest' /\ PopulationFunded'
    BY <1>2 DEF IInv, FailureIsHonest, SuccessIsHonest, PopulationFunded, Requests
  <1> QED
    BY <1>3, <1>4, <1>5, <1>6, <1>7 DEF IInv

\* The end of a request keeps the invariant if its result is true of its write.
LEMMA EndKeeps ==
    ASSUME IInv, NEW c \in Calls, NEW i \in Requests,
           NEW r \in Definite \cup {"unknown", "ok"},
           End(c, i, r), req[c][i].pc \notin {"idle", "ended"},
           i \in Writes(kind[c]) /\ r \in Definite => google[c][i] \in {"none", "refused"},
           i \in Writes(kind[c]) /\ r = "ok" => google[c][i] = "applied",
           kind[c] = "author" /\ i = 2 => r # "budget"
    PROVE  IInv'
  <1> DEFINE rec == [req[c][i] EXCEPT !.pc = "ended", !.result = r]
  <1>1. req \in [Calls -> [Requests -> Request]] /\ req[c][i] \in Request
    BY DEF IInv, CallTypes
  <1>2. rec \in Request /\ rec.pc = "ended" /\ rec.result = r
        /\ rec.sends = req[c][i].sends
    BY <1>1 DEF Request
  <1>3. req' = [req EXCEPT ![c] = [req[c] EXCEPT ![i] = rec]]
    BY <1>1 DEF End
  <1> HIDE DEF rec
  <1>4. Becomes(c, i, rec)
    BY <1>1, <1>2, <1>3, StoreRequest
  <1>5. UNCHANGED <<limit, kind, phase, answer, expired, used, google>>
    BY DEF End
  <1>6. /\ req[c][i].result = "none" /\ r # "none"
        /\ \A d \in Calls : Writes(kind[d]) \subseteq Requests
    BY DEF IInv, DispatchInv, Definite, Writes
  <1>13. \A d \in Calls : \A j \in Requests : req'[d][j].sends = req[d][j].sends
    BY <1>2, <1>4 DEF Becomes
  <1>7. CallTypes'
    BY <1>4, <1>5 DEF IInv, CallTypes, Becomes
  <1>8. DispatchInv'
    BY <1>2, <1>4, <1>5, <1>6 DEF IInv, DispatchInv, Becomes, BeforeDispatch
  <1>9. OrderInv'
    <2> SUFFICES ASSUME NEW d \in Calls
                 PROVE  OrderInv!(d)'
      BY DEF OrderInv
    <2>1. phase[c] \notin {"idle", "queued", "admitted"}
      BY DEF IInv, OrderInv
    <2>2. \A j \in {2, 3} : req'[d][j].pc # "idle" => req[d][j].pc # "idle"
      BY <1>4 DEF Becomes, Requests
    <2>3. \A j \in Writes(kind[d]) : req'[d][j].pc = "ended" \/ req'[d][j] = req[d][j]
      BY <1>2, <1>4, <1>6 DEF Becomes
    <2>4. phase[d] \in {"idle", "queued", "admitted"} =>
             \A j \in Requests : req'[d][j] = req[d][j]
      BY <1>4, <2>1 DEF Becomes
    <2>5. req[d][1].result = "ok" => req'[d][1].result = "ok"
      BY <1>4, <1>6 DEF Becomes, Requests
    <2> QED
      BY <1>5, <2>2, <2>3, <2>4, <2>5 DEF IInv, OrderInv
  <1>10. CountInv'
    <2> SUFFICES ASSUME NEW d \in Calls
                 PROVE  CountInv!(d)'
      BY DEF CountInv
    <2>1. \A j \in Requests : /\ req'[d][j].pc = "idle" <=> req[d][j].pc = "idle"
                              /\ req'[d][j].pc = "cas" => req'[d][j] = req[d][j]
      BY <1>2, <1>4 DEF Becomes
    <2>2. req'[d][1].sends + req'[d][2].sends + req'[d][3].sends
            = req[d][1].sends + req[d][2].sends + req[d][3].sends
      BY <1>13 DEF Requests
    <2>3. 1 \in Requests
      BY DEF Requests
    <2> QED
      BY <1>5, <1>13, <2>1, <2>2, <2>3 DEF IInv, CountInv
  <1>11. FailureIsHonest' /\ SuccessIsHonest'
    <2>1. \A d \in Calls : answer[d] = "partial" => req'[d][2] = req[d][2]
      <3>1. \A d \in Calls : answer[d] = "partial" =>
              /\ phase[d] = "done" /\ 2 \in Writes(kind[d]) /\ 2 \in Requests
              /\ req[d][2].pc \in {"idle", "ended"}
        BY DEF IInv, OrderInv, Writes, Requests
      <3> QED
        BY <1>4, <3>1 DEF Becomes
    <2> QED
      BY <1>5, <2>1 DEF IInv, FailureIsHonest, SuccessIsHonest
  <1>12. PopulationFunded'
    BY <1>2, <1>4, <1>5 DEF IInv, PopulationFunded, Becomes, Requests
  <1> QED
    BY <1>7, <1>8, <1>9, <1>10, <1>11, <1>12 DEF IInv

\* Taking one from the budget and sending keeps the invariant: the count grows with
\* what is sent, and a write leaves for the first time.
LEMMA SwapKeeps ==
    ASSUME IInv, NEW c \in Calls, NEW i \in Requests, SwapBudget(c, i)
    PROVE  IInv'
  <1> DEFINE again == [req[c][i] EXCEPT !.pc = "load"]
             flying == [req[c][i] EXCEPT !.pc = "flight", !.sends = @ + 1]
  <1>1. /\ req \in [Calls -> [Requests -> Request]] /\ req[c][i] \in Request
        /\ req[c][i].pc = "cas" /\ used[c] \in Nat /\ limit \in Nat
    BY CallPathAssumption DEF IInv, CallTypes, SwapBudget
  <1>2. again \in Request /\ again.pc = "load" /\ again.sends = req[c][i].sends
        /\ again.result = req[c][i].result
    BY <1>1 DEF Request, Holding
  <1>3. flying \in Request /\ flying.pc = "flight" /\ flying.sends = req[c][i].sends + 1
        /\ flying.result = req[c][i].result
    <2>1. req[c][i].sends + 1 \in Nat
      BY <1>1 DEF Request
    <2>2. \A n \in Nat : LET r == [req[c][i] EXCEPT !.pc = "flight", !.sends = n]
                       IN  /\ r \in Request /\ r.pc = "flight" /\ r.sends = n
                           /\ r.result = req[c][i].result
      BY <1>1, Zenon DEF Request, Holding
    <2> QED
      BY <2>1, <2>2
  <1>4. CASE used[c] # req[c][i].seen
    <2>1. req' = [req EXCEPT ![c] = [req[c] EXCEPT ![i] = again]]
      BY <1>1, <1>4 DEF SwapBudget
    <2> HIDE DEF again
    <2>2. Becomes(c, i, again)
      BY <1>1, <1>2, <2>1, StoreRequest
    <2> QED
      BY <1>1, <1>2, <1>4, <2>2, MoveKeeps DEF SwapBudget, BeforeDispatch
  <1>5. CASE used[c] = req[c][i].seen
    <2>1. /\ req' = [req EXCEPT ![c] = [req[c] EXCEPT ![i] = flying]]
          /\ used' = [used EXCEPT ![c] = used[c] + 1]
          /\ google' = [google EXCEPT ![c][i] = IF i \in Writes(kind[c]) THEN "sent" ELSE @]
          /\ UNCHANGED <<limit, kind, phase, answer, expired>>
      BY <1>1, <1>5 DEF SwapBudget
    <2> HIDE DEF flying
    <2>2. Becomes(c, i, flying)
      BY <1>1, <1>3, <2>1, StoreRequest
    <2>3. /\ google' \in [Calls -> [Requests -> {"none", "sent", "applied", "refused"}]]
          /\ i \in Writes(kind[c]) => google'[c][i] = "sent"
          /\ i \notin Writes(kind[c]) => google' = google
          /\ \A d \in Calls : \A j \in Requests :
               (d # c \/ j # i) => google'[d][j] = google[d][j]
      BY <2>1 DEF IInv, CallTypes
    <2>4. /\ req[c][i].result = "none" /\ req[c][i].seen < limit
          /\ i \in Writes(kind[c]) => req[c][i].sends = 0 /\ phase[c] # "done"
          /\ phase[c] \notin {"idle", "queued", "admitted"}
      BY <1>1 DEF IInv, DispatchInv, CountInv, OrderInv, BeforeDispatch
    <2>5. \A d \in Calls : Writes(kind[d]) \subseteq Requests
      BY DEF Writes
    <2>6. \A d \in Calls : \A j \in Requests : req'[d][j].result = req[d][j].result
      BY <1>3, <2>2 DEF Becomes
    <2>7. CallTypes'
      BY <1>1, <2>1, <2>2, <2>3 DEF IInv, CallTypes, Becomes
    <2>8. DispatchInv'
      BY <1>3, <2>1, <2>2, <2>3, <2>4, <2>5 DEF IInv, DispatchInv, Becomes, BeforeDispatch, Definite
    <2>9. OrderInv'
      <3> SUFFICES ASSUME NEW d \in Calls
                   PROVE  OrderInv!(d)'
        BY DEF OrderInv
      <3>1. \A j \in {2, 3} : req'[d][j].pc # "idle" => req[d][j].pc # "idle"
        BY <1>1, <2>2 DEF Becomes, Requests
      <3>2. \A j \in Writes(kind[d]) : phase[d] = "done" => req'[d][j] = req[d][j]
        BY <2>2, <2>4, <2>5 DEF Becomes
      <3>3. phase[d] \in {"idle", "queued", "admitted"} =>
               \A j \in Requests : req'[d][j] = req[d][j]
        BY <2>2, <2>4 DEF Becomes
      <3>4. req'[d][1].result = req[d][1].result
        BY <2>6 DEF Requests
      <3> QED
        BY <2>1, <3>1, <3>2, <3>3, <3>4 DEF IInv, OrderInv
    <2>10. CountInv'
      <3> SUFFICES ASSUME NEW d \in Calls
                   PROVE  CountInv!(d)'
        BY DEF CountInv
      <3>1. CASE d = c
        <4>1. req'[c][1].sends + req'[c][2].sends + req'[c][3].sends
                = req[c][1].sends + req[c][2].sends + req[c][3].sends + 1
          <5>1. \A j \in Requests : req[c][j].sends \in Nat
            BY <1>1 DEF Request
          <5> QED
            BY <1>3, <2>2, <5>1 DEF Becomes, Requests
        <4>2. used'[c] = used[c] + 1 /\ used[c] < limit
          BY <1>1, <1>5, <2>1, <2>4 DEF IInv, CallTypes
        <4>3. \A j \in Requests :
                /\ req'[c][j].pc = "idle" => req'[c][j] = req[c][j]
                /\ req'[c][j].pc = "cas" => req'[c][j] = req[c][j]
          BY <1>3, <2>2 DEF Becomes
        <4>4. req'[c][1].pc # "idle" => req[c][1].pc # "idle"
          BY <1>1, <2>2 DEF Becomes, Requests
        <4> QED
          BY <1>1, <2>1, <3>1, <4>1, <4>2, <4>3, <4>4 DEF IInv, CountInv
      <3>2. CASE d # c
        <4>1. \A j \in Requests : req'[d][j] = req[d][j]
          BY <2>2, <3>2 DEF Becomes
        <4>2. used'[d] = used[d]
          BY <2>1, <3>2 DEF IInv, CallTypes
        <4> QED
          BY <2>1, <4>1, <4>2 DEF IInv, CountInv, Requests
      <3> QED
        BY <3>1, <3>2
    <2>11. FailureIsHonest' /\ SuccessIsHonest'
      <3>1. \A d \in Calls : answer[d] # "none" =>
              \A j \in Writes(kind[d]) : google'[d][j] = google[d][j]
        BY <2>3, <2>4, <2>5 DEF IInv, OrderInv
      <3>2. \A d \in Calls : answer[d] = "partial" => {1, 2} \subseteq Writes(kind[d])
        BY DEF IInv, OrderInv, Writes, Requests
      <3> QED
        BY <2>1, <2>6, <3>1, <3>2 DEF IInv, FailureIsHonest, SuccessIsHonest, Definite, Requests
    <2>12. PopulationFunded'
      BY <2>1, <2>6 DEF IInv, PopulationFunded, Requests
    <2> QED
      BY <2>7, <2>8, <2>9, <2>10, <2>11, <2>12 DEF IInv
  <1> QED
    BY <1>4, <1>5

-----------------------------------------------------------------------------
(* Steps of the handler *)

\* Answering keeps the invariant if the answer is true of the writes: fitting the
\* response only turns it into one that claims less.
LEMMA AnswerKeeps ==
    ASSUME IInv, NEW c \in Calls, NEW a \in Answers, Answer(c, a),
           \A i \in Writes(kind[c]) : req[c][i].pc \in {"idle", "ended"},
           a \in Definite => \A i \in Writes(kind[c]) : google[c][i] \in {"none", "refused"},
           a = "ok" => \A i \in Writes(kind[c]) : google[c][i] = "applied",
           a = "partial" => /\ kind[c] = "author" /\ google[c][1] = "applied"
                            /\ req[c][2].result \in Definite => google[c][2] \in {"none", "refused"}
    PROVE  IInv'
  <1>1. PICK fit \in Fitted(kind[c], a) : answer' = [answer EXCEPT ![c] = fit]
    BY DEF Answer
  <1>2. /\ fit \in Answers
        /\ fit = a \/ fit = "unknown"
             \/ (fit = "invalid" /\ (a \in Definite \/ kind[c] = "search"))
    BY DEF Fitted, Answers, Definite
  <1>3. kind[c] = "search" => Writes(kind[c]) = {}
    BY DEF Writes
  <1>4. /\ phase' = [phase EXCEPT ![c] = "done"]
        /\ UNCHANGED <<limit, kind, expired, used, req, google>>
    BY DEF Answer
  <1>5. CallTypes'
    BY <1>1, <1>2, <1>4 DEF IInv, CallTypes
  <1>6. DispatchInv' /\ CountInv' /\ PopulationFunded'
    BY <1>4 DEF IInv, DispatchInv, CountInv, PopulationFunded
  <1>7. OrderInv'
    <2>1. fit # "none" /\ (fit = "partial" => kind[c] = "author")
      BY <1>2 DEF Answers, Definite
    <2> QED
      BY <1>1, <1>4, <2>1 DEF IInv, CallTypes, OrderInv
  <1>8. FailureIsHonest'
    BY <1>1, <1>2, <1>3, <1>4 DEF IInv, CallTypes, FailureIsHonest, Definite
  <1>9. SuccessIsHonest'
    BY <1>1, <1>2, <1>4 DEF IInv, CallTypes, SuccessIsHonest
  <1> QED
    BY <1>5, <1>6, <1>7, <1>8, <1>9 DEF IInv

\* Starting requests keeps the invariant: the first once its budget is there, the
\* others once the first has succeeded.
LEMMA StartKeeps ==
    ASSUME IInv, NEW c \in Calls, NEW S \in SUBSET Requests, StartRequests(c, S),
           \A i \in S : req[c][i].pc = "idle",
           phase[c] \in {"admitted", "running"},
           \/ S = {1} /\ (kind[c] = "author" => limit >= 2)
           \/ S \subseteq Followers(kind[c]) /\ 1 \notin S /\ req[c][1].result = "ok"
    PROVE  IInv'
  <1>1. /\ phase' = [phase EXCEPT ![c] = "running"]
        /\ UNCHANGED <<limit, kind, answer, expired, used, google>>
    BY DEF StartRequests
  <1>2. /\ req' \in [Calls -> [Requests -> Request]]
        /\ \A d \in Calls : \A j \in Requests :
             (d # c \/ j \notin S) => req'[d][j] = req[d][j]
        /\ \A j \in S : /\ req'[c][j].pc = "token"
                        /\ req'[c][j].sends = req[c][j].sends
                        /\ req'[c][j].result = req[c][j].result
    <2> DEFINE new == [i \in Requests |-> IF i \in S THEN [req[c][i] EXCEPT !.pc = "token"] ELSE req[c][i]]
    <2>1. req' = [req EXCEPT ![c] = new] /\ req \in [Calls -> [Requests -> Request]]
      BY DEF StartRequests, IInv, CallTypes
    <2>2. ASSUME NEW j \in Requests PROVE [req[c][j] EXCEPT !.pc = "token"] \in Request
      <3>1. req[c][j] \in Request
        BY <2>1
      <3> QED
        BY <3>1 DEF Request, Holding
    <2>3. new \in [Requests -> Request]
      BY <2>1, <2>2
    <2>4. \A j \in S : /\ new[j].pc = "token" /\ new[j].sends = req[c][j].sends
                       /\ new[j].result = req[c][j].result
      BY <2>1 DEF Request
    <2>5. \A j \in Requests \ S : new[j] = req[c][j]
      OBVIOUS
    <2> HIDE DEF new
    <2> QED
      BY <2>1, <2>3, <2>4, <2>5
  <1>3. \A d \in Calls : \A j \in Requests :
          req'[d][j].sends = req[d][j].sends /\ req'[d][j].result = req[d][j].result
    BY <1>2
  <1>4. \A d \in Calls : Writes(kind[d]) \subseteq Requests
    BY DEF Writes
  <1>5. \A j \in S : req[c][j].result = "none"
    BY DEF IInv, DispatchInv
  <1>6. CallTypes'
    BY <1>1, <1>2 DEF IInv, CallTypes
  <1>7. DispatchInv'
    BY <1>1, <1>2, <1>3, <1>4, <1>5 DEF IInv, DispatchInv, BeforeDispatch
  <1>8. OrderInv'
    <2> SUFFICES ASSUME NEW d \in Calls
                 PROVE  OrderInv!(d)'
      BY DEF OrderInv
    <2>1. CASE d = c
      <3>1. phase'[c] = "running" /\ answer[c] = "none"
        BY <1>1 DEF IInv, CallTypes, OrderInv
      <3>2. \A j \in {2, 3} : req'[c][j].pc # "idle" =>
              j \in Followers(kind[c]) /\ req[c][1].result = "ok"
        BY <1>2 DEF IInv, OrderInv, Requests
      <3>3. req'[c][1].result = req[c][1].result
        BY <1>3 DEF Requests
      <3> QED
        BY <1>1, <2>1, <3>1, <3>2, <3>3
    <2>2. CASE d # c
      <3>1. phase'[d] = phase[d] /\ \A j \in Requests : req'[d][j] = req[d][j]
        BY <1>1, <1>2, <2>2 DEF IInv, CallTypes
      <3> QED
        BY <1>1, <1>4, <3>1 DEF IInv, OrderInv, Requests
    <2> QED
      BY <2>1, <2>2
  <1>9. CountInv'
    <2> SUFFICES ASSUME NEW d \in Calls
                 PROVE  CountInv!(d)'
      BY DEF CountInv
    <2>1. req'[d][1].sends + req'[d][2].sends + req'[d][3].sends
            = req[d][1].sends + req[d][2].sends + req[d][3].sends
      BY <1>3 DEF Requests
    <2>2. \A j \in Requests : /\ req'[d][j].pc = "idle" => req'[d][j] = req[d][j]
                              /\ req'[d][j].pc = "cas" => req'[d][j] = req[d][j]
      BY <1>2
    <2>3. kind[d] = "author" /\ req'[d][1].pc # "idle" => limit >= 2
      <3>1. CASE req[d][1].pc # "idle"
        BY <3>1 DEF IInv, CountInv
      <3>2. CASE req[d][1].pc = "idle"
        <4>1. req'[d][1].pc # "idle" => d = c /\ 1 \in S
          BY <1>2, <3>2 DEF Requests
        <4> QED
          BY <4>1
      <3> QED
        BY <3>1, <3>2
    <2> QED
      BY <1>1, <2>1, <2>2, <2>3 DEF IInv, CountInv
  <1>10. FailureIsHonest' /\ SuccessIsHonest' /\ PopulationFunded'
    BY <1>1, <1>3 DEF IInv, FailureIsHonest, SuccessIsHonest, PopulationFunded, Requests
  <1> QED
    BY <1>6, <1>7, <1>8, <1>9, <1>10 DEF IInv

-----------------------------------------------------------------------------
(* The actions *)

\* A request that fails keeps the invariant if nothing was sent, if Google refused,
\* or if the error does not claim to know.
LEMMA FailKeeps ==
    ASSUME IInv, NEW c \in Calls, NEW i \in Requests, NEW e \in Errors, Fail(c, i, e),
           req[c][i].pc \notin {"idle", "ended"},
           i \in Writes(kind[c]) =>
             \/ req[c][i].pc \in BeforeDispatch
             \/ e = Untyped("4xx") /\ google[c][i] = "refused"
             \/ e \in {Untyped("net"), Typed("unknown")},
           kind[c] = "author" /\ i = 2 => e # Typed("budget")
    PROVE  IInv'
  <1>1. PICK r \in Definite \cup {"unknown"} :
          /\ End(c, i, r)
          /\ r = "budget" => e = Typed("budget")
          /\ i \in Writes(kind[c]) /\ r \in Definite =>
               e = Untyped("4xx") \/ (e.typed /\ e.what \in Definite)
    BY FailEnds
  <1>2. ASSUME i \in Writes(kind[c]), r \in Definite
        PROVE  google[c][i] \in {"none", "refused"}
    <2>1. e \notin {Untyped("net"), Typed("unknown")}
      BY <1>1, <1>2 DEF Untyped, Typed, Definite
    <2> QED
      BY <1>2, <2>1 DEF IInv, DispatchInv
  <1>3. r # "ok"
    BY DEF Definite
  <1> QED
    BY <1>1, <1>2, <1>3, EndKeeps

\* Every step of a request keeps the invariant.
LEMMA RequestKeeps ==
    ASSUME IInv, NEW c \in Calls, NEW i \in Requests, Proceed(c, i) \/ Reply(c, i)
    PROVE  IInv'
  <1>1. /\ req \in [Calls -> [Requests -> Request]] /\ req[c][i] \in Request
        /\ used \in [Calls -> Nat] /\ limit \in Nat /\ kind[c] \in AllKinds
    BY CallPathAssumption DEF IInv, CallTypes
  <1>2. ASSUME NEW r \in Request,
               req' = [req EXCEPT ![c] = [req[c] EXCEPT ![i] = r]],
               req[c][i].pc \notin {"idle", "ended"}, r.pc \notin {"idle", "ended"},
               r.sends = req[c][i].sends, r.result = req[c][i].result,
               r.pc = "cas" => r.seen < limit,
               i \in Writes(kind[c]) => req[c][i].pc \in BeforeDispatch /\ r.pc \in BeforeDispatch,
               UNCHANGED <<limit, kind, phase, answer, expired, used, google>>
        PROVE  IInv'
    <2>1. Becomes(c, i, r)
      BY <1>1, <1>2, StoreRequest
    <2> QED
      BY <1>2, <2>1, MoveKeeps
  <1>3. ASSUME NEW p \in {"slot", "load"}, req[c][i].pc \in {"token", "slot", "sleep"},
               req[c][i].pc = "sleep" => i \notin Writes(kind[c]),
               req' = [req EXCEPT ![c][i].pc = p],
               UNCHANGED <<limit, kind, phase, answer, expired, used, google>>
        PROVE  IInv'
    <2> DEFINE r == [req[c][i] EXCEPT !.pc = p]
    <2>1. /\ r \in Request /\ r.pc = p /\ r.sends = req[c][i].sends
          /\ r.result = req[c][i].result
      BY <1>1 DEF Request, Holding
    <2>2. req' = [req EXCEPT ![c] = [req[c] EXCEPT ![i] = r]]
      BY <1>1, <1>3
    <2> HIDE DEF r
    <2> QED
      BY <1>2, <1>3, <2>1, <2>2 DEF BeforeDispatch
  <1>4. CASE GetToken(c, i)
    <2>1. CASE req' = [req EXCEPT ![c][i].pc = "slot"] /\ UNCHANGED <<limit, kind, phase, answer, expired, used, google>>
      BY <1>3, <1>4, <2>1 DEF GetToken
    <2>2. ASSUME NEW e \in {Typed("auth"), Typed("deadline")}, Fail(c, i, e)
          PROVE  IInv'
      BY <1>4, <2>2, FailKeeps DEF GetToken, Errors, Typed, Definite, BeforeDispatch
    <2> QED
      BY <1>4, <2>1, <2>2 DEF GetToken
  <1>5. CASE TakeSlot(c, i)
    <2>1. CASE req' = [req EXCEPT ![c][i].pc = "load"] /\ UNCHANGED <<limit, kind, phase, answer, expired, used, google>>
      BY <1>3, <1>5, <2>1 DEF TakeSlot
    <2>2. CASE Fail(c, i, Typed("deadline"))
      BY <1>5, <2>2, FailKeeps DEF TakeSlot, Errors, Typed, Definite, BeforeDispatch
    <2> QED
      BY <1>5, <2>1, <2>2 DEF TakeSlot
  <1>6. CASE LoadBudget(c, i)
    <2>1. CASE used[c] >= limit /\ Fail(c, i, Typed("budget"))
      <3>1. ~ (kind[c] = "author" /\ i = 2)
        <4> SUFFICES ASSUME kind[c] = "author", i = 2 PROVE FALSE
          OBVIOUS
        <4>1. {1, 2} \subseteq Writes(kind[c]) /\ 3 \notin Followers(kind[c])
          BY DEF Writes, Followers, Requests
        <4>2. req[c][1].sends <= 1 /\ req[c][2].sends = 0
          BY <1>6, <4>1 DEF IInv, DispatchInv, LoadBudget, BeforeDispatch, Requests
        <4>3. req[c][3].sends = 0
          BY <4>1 DEF IInv, OrderInv, CountInv, Requests
        <4>4. limit >= 2
          <5>1. req[c][1].result = "ok"
            BY <1>6 DEF IInv, OrderInv, LoadBudget
          <5>2. req[c][1].pc # "idle"
            BY <5>1 DEF IInv, DispatchInv, Requests
          <5> QED
            BY <5>2 DEF IInv, CountInv
        <4>5. \A j \in Requests : req[c][j].sends \in Nat
          BY <1>1 DEF Request
        <4> QED
          BY <1>1, <2>1, <4>2, <4>3, <4>4, <4>5 DEF IInv, CountInv, Requests
      <3> QED
        BY <1>6, <2>1, <3>1, FailKeeps DEF LoadBudget, Errors, Typed, Definite, BeforeDispatch
    <2>2. CASE used[c] < limit /\ req' = [req EXCEPT ![c][i].pc = "cas", ![c][i].seen = used[c]]
               /\ UNCHANGED <<limit, kind, phase, answer, expired, used, google>>
      <3> DEFINE r == [req[c][i] EXCEPT !.pc = "cas", !.seen = used[c]]
      <3>1. /\ r \in Request /\ r.pc = "cas" /\ r.sends = req[c][i].sends
            /\ r.result = req[c][i].result /\ r.seen = used[c]
        BY <1>1 DEF Request, Holding
      <3>2. req' = [req EXCEPT ![c] = [req[c] EXCEPT ![i] = r]]
        BY <1>1, <2>2
      <3> HIDE DEF r
      <3> QED
        BY <1>2, <1>6, <2>2, <3>1, <3>2 DEF LoadBudget, BeforeDispatch
    <2> QED
      BY <1>6, <2>1, <2>2 DEF LoadBudget
  <1>7. CASE SwapBudget(c, i)
    BY <1>7, SwapKeeps
  <1>8. CASE AbandonFlight(c, i)
    <2>1. i \in Writes(kind[c]) => ~Retried(kind[c], i)
      BY <1>1, ScriptFacts
    <2> QED
      BY <1>8, <2>1, FailKeeps DEF AbandonFlight, Errors, Causes, Typed, Untyped
  <1>9. CASE WakeUp(c, i)
    <2>1. i \notin Writes(kind[c])
      BY <1>9 DEF IInv, DispatchInv, WakeUp
    <2>2. CASE req' = [req EXCEPT ![c][i].pc = "load"] /\ UNCHANGED <<limit, kind, phase, answer, expired, used, google>>
      BY <1>3, <1>9, <2>1, <2>2 DEF WakeUp
    <2>3. CASE Fail(c, i, Typed("deadline"))
      BY <1>9, <2>1, <2>3, FailKeeps DEF WakeUp, Errors, Typed, Definite
    <2> QED
      BY <1>9, <2>2, <2>3 DEF WakeUp
  <1>10. CASE Delivered(c, i)
    BY <1>10, EndKeeps DEF Delivered, Definite
  <1>11. CASE Rejected(c, i)
    BY <1>11, FailKeeps DEF Rejected, Errors, Causes, Typed, Untyped
  <1>12. CASE LoseAnswer(c, i)
    BY <1>12, FailKeeps DEF LoseAnswer, Errors, Causes, Typed, Untyped
  <1>13. CASE RetryLater(c, i)
    <2>1. i \notin Writes(kind[c]) /\ req[c][i].pc = "flight"
          /\ UNCHANGED <<limit, kind, phase, answer, expired, used, google>>
      BY <1>1, <1>13, ScriptFacts DEF RetryLater, Back
    <2>2. ASSUME NEW n \in 0..Max429, NEW m \in 0..Max5xx,
                 req' = [req EXCEPT ![c] = [req[c] EXCEPT
                           ![i] = [req[c][i] EXCEPT !.pc = "sleep", !.n429 = n, !.n5xx = m]]]
          PROVE  IInv'
      <3> DEFINE r == [req[c][i] EXCEPT !.pc = "sleep", !.n429 = n, !.n5xx = m]
      <3>1. /\ r \in Request /\ r.pc = "sleep" /\ r.sends = req[c][i].sends
            /\ r.result = req[c][i].result
        BY <1>1 DEF Request, Holding
      <3>2. req' = [req EXCEPT ![c] = [req[c] EXCEPT ![i] = r]]
        BY <2>2
      <3> HIDE DEF r
      <3> QED
        BY <1>2, <2>1, <3>1, <3>2
    <2>3. req[c][i].n429 \in 0..Max429 /\ req[c][i].n5xx \in 0..Max5xx
      BY <1>1 DEF Request
    <2>4. CASE /\ req[c][i].n429 < Max429
               /\ req' = [req EXCEPT ![c][i].pc = "sleep", ![c][i].n429 = @ + 1]
      <3>1. req[c][i].n429 + 1 \in 0..Max429
        BY <2>3, <2>4, CallPathAssumption
      <3>2. req' = [req EXCEPT ![c] = [req[c] EXCEPT
                     ![i] = [req[c][i] EXCEPT !.pc = "sleep", !.n429 = req[c][i].n429 + 1, !.n5xx = req[c][i].n5xx]]]
        BY <1>1, <2>4 DEF Request
      <3> QED
        BY <2>2, <2>3, <3>1, <3>2
    <2>5. CASE /\ req[c][i].n5xx < Max5xx
               /\ req' = [req EXCEPT ![c][i].pc = "sleep", ![c][i].n5xx = @ + 1]
      <3>1. req[c][i].n5xx + 1 \in 0..Max5xx
        BY <2>3, <2>5, CallPathAssumption
      <3>2. req' = [req EXCEPT ![c] = [req[c] EXCEPT
                     ![i] = [req[c][i] EXCEPT !.pc = "sleep", !.n429 = req[c][i].n429, !.n5xx = req[c][i].n5xx + 1]]]
        BY <1>1, <2>5 DEF Request
      <3> QED
        BY <2>2, <2>3, <3>1, <3>2
    <2> QED
      BY <1>13, <2>4, <2>5 DEF RetryLater
  <1>14. CASE RetryNoMore(c, i)
    <2>1. i \in Writes(kind[c]) => ~Retried(kind[c], i)
      BY <1>1, ScriptFacts
    <2> QED
      BY <1>14, <2>1, FailKeeps DEF RetryNoMore, Errors, Causes, Typed, Untyped
  <1> QED
    BY <1>4, <1>5, <1>6, <1>7, <1>8, <1>9, <1>10, <1>11, <1>12, <1>13, <1>14
       DEF Proceed, Reply

\* Every step of the handler keeps the invariant.
LEMMA HandlerKeeps ==
    ASSUME IInv, NEW c \in Calls,
           Submit(c) \/ Expire(c) \/ Admit(c) \/ Handle(c)
    PROVE  IInv'
  <1>1. /\ kind[c] \in AllKinds /\ used[c] \in Nat /\ limit \in Nat
        /\ phase \in [Calls -> {"idle", "queued", "admitted", "running", "done"}]
        /\ Writes(kind[c]) \subseteq {1} \cup Followers(kind[c])
        /\ Followers(kind[c]) \subseteq {2, 3}
        /\ kind[c] # "search" => Followers(kind[c]) \subseteq {2}
        /\ kind[c] = "search" => Writes(kind[c]) = {}
    BY CallPathAssumption, ScriptFacts DEF IInv, CallTypes
  <1>2. ASSUME \A d \in Calls : (phase'[d] \in {"idle", "queued", "admitted"}
                                   <=> phase[d] \in {"idle", "queued", "admitted"}),
               \A d \in Calls : (phase'[d] = "done" <=> phase[d] = "done"),
               phase' \in [Calls -> {"idle", "queued", "admitted", "running", "done"}],
               expired' \in [Calls -> BOOLEAN],
               UNCHANGED <<limit, kind, answer, used, req, google>>
        PROVE  IInv'
    BY <1>2 DEF IInv, CallTypes, DispatchInv, OrderInv, CountInv, FailureIsHonest,
                SuccessIsHonest, PopulationFunded
  <1>3. CASE Submit(c)
    BY <1>1, <1>2, <1>3 DEF Submit, IInv, CallTypes
  <1>4. CASE Expire(c)
    BY <1>1, <1>2, <1>4 DEF Expire, IInv, CallTypes
  <1>5. CASE Admit(c)
    BY <1>1, <1>2, <1>5 DEF Admit, IInv, CallTypes
  <1>6. ASSUME \A i \in Requests : req[c][i].pc = "idle"
        PROVE  \A i \in Writes(kind[c]) : req[c][i].pc = "idle" /\ google[c][i] = "none"
    BY <1>6 DEF IInv, DispatchInv, BeforeDispatch, Writes
  <1>7. CASE GiveUpQueue(c)
    <2>1. \A i \in Writes(kind[c]) : req[c][i].pc = "idle" /\ google[c][i] = "none"
      BY <1>6, <1>7 DEF GiveUpQueue, IInv, OrderInv
    <2>2. /\ phase' = [phase EXCEPT ![c] = "done"]
          /\ answer' = [answer EXCEPT ![c] = "deadline"]
          /\ UNCHANGED <<limit, kind, expired, used, req, google>>
      BY <1>7 DEF GiveUpQueue
    <2>3. CallTypes'
      BY <2>2 DEF IInv, CallTypes, Answers, Definite
    <2>4. DispatchInv' /\ CountInv' /\ PopulationFunded'
      BY <2>2 DEF IInv, DispatchInv, CountInv, PopulationFunded
    <2>5. OrderInv'
      BY <2>1, <2>2 DEF IInv, CallTypes, OrderInv
    <2>6. FailureIsHonest' /\ SuccessIsHonest'
      BY <2>1, <2>2 DEF IInv, CallTypes, FailureIsHonest, SuccessIsHonest
    <2> QED
      BY <2>3, <2>4, <2>5, <2>6 DEF IInv
  <1>8. CASE Begin(c)
    <2>1. /\ phase[c] = "admitted"
          /\ \A i \in Writes(kind[c]) : req[c][i].pc = "idle" /\ google[c][i] = "none"
          /\ req[c][1].pc = "idle"
      BY <1>6, <1>8 DEF Begin, IInv, OrderInv, Requests
    <2>2. ASSUME NEW a \in {"denied", "budget"}, Answer(c, a)
          PROVE  IInv'
      BY <2>1, <2>2, AnswerKeeps DEF Answers, Definite
    <2>3. CASE limit - used[c] >= Reserve(kind[c]) /\ StartRequests(c, {1})
      <3>1. kind[c] = "author" => limit >= 2
        BY <1>1, <2>3 DEF Reserve
      <3> QED
        BY <2>1, <2>3, <3>1, StartKeeps DEF Requests
    <2> QED
      BY <1>8, <2>2, <2>3 DEF Begin
  <1>9. CASE FirstFailed(c)
    <2>1. /\ phase[c] = "running" /\ req[c][1].pc = "ended" /\ req[c][1].result # "ok"
          /\ Answer(c, req[c][1].result)
      BY <1>9 DEF FirstFailed, Failed, Succeeded
    <2>2. req[c][1].result \in Definite \cup {"unknown"}
      BY <2>1 DEF IInv, CallTypes, DispatchInv, Request, Requests
    <2>3. \A i \in {2, 3} : req[c][i].pc = "idle"
      BY <2>1 DEF IInv, OrderInv
    <2>4. \A i \in Writes(kind[c]) :
            /\ req[c][i].pc \in {"idle", "ended"}
            /\ req[c][1].result \in Definite => google[c][i] \in {"none", "refused"}
      BY <1>1, <2>1, <2>3 DEF IInv, DispatchInv, BeforeDispatch, Requests
    <2> QED
      BY <2>1, <2>2, <2>4, AnswerKeeps DEF Answers, Definite
  <1>10. CASE FirstSucceeded(c)
    <2>1. /\ phase[c] = "running" /\ req[c][1].result = "ok"
          /\ \A i \in Followers(kind[c]) : req[c][i].pc = "idle"
      BY <1>10 DEF FirstSucceeded, Succeeded
    <2>2. /\ req[c][1].pc = "ended"
          /\ 1 \in Writes(kind[c]) => google[c][1] = "applied"
          /\ \A i \in Writes(kind[c]) \cap Followers(kind[c]) :
               google[c][i] = "none" /\ req[c][i].result = "none"
      BY <2>1 DEF IInv, DispatchInv, BeforeDispatch, Requests, Writes
    <2>3. \A i \in Writes(kind[c]) : req[c][i].pc \in {"idle", "ended"}
      BY <1>1, <2>1, <2>2
    <2>4. CASE kind[c] \in {"search", "api"} /\ Answer(c, "ok")
      <3>1. Writes(kind[c]) \subseteq {1}
        BY <2>4 DEF Writes
      <3> QED
        BY <2>2, <2>3, <2>4, <3>1, AnswerKeeps DEF Answers, Definite
    <2>5. CASE kind[c] \in {"update", "send"} /\ Answer(c, "invalid")
      <3>1. Writes(kind[c]) \subseteq Followers(kind[c])
        BY <2>5 DEF Writes, Followers
      <3> QED
        BY <2>2, <2>3, <2>5, <3>1, AnswerKeeps DEF Answers, Definite
    <2>6. CASE Answer(c, "unknown")
      BY <2>3, <2>6, AnswerKeeps DEF Answers, Definite
    <2>7. CASE kind[c] = "author" /\ Answer(c, "partial")
      <3>1. {1, 2} \subseteq Writes(kind[c]) /\ 2 \in Followers(kind[c])
        BY <2>7 DEF Writes, Followers, Requests
      <3> QED
        BY <2>2, <2>3, <2>7, <3>1, AnswerKeeps DEF Answers, Definite
    <2>8. CASE StartRequests(c, Followers(kind[c]))
      <3>1. Followers(kind[c]) \in SUBSET Requests /\ 1 \notin Followers(kind[c])
        BY <1>1 DEF Followers
      <3> QED
        BY <2>1, <2>8, <3>1, StartKeeps
    <2> QED
      BY <1>10, <2>4, <2>5, <2>6, <2>7, <2>8 DEF FirstSucceeded
  <1>11. CASE FollowerFailed(c)
    <2>1. PICK i \in Followers(kind[c]) :
            /\ req[c][i].pc = "ended" /\ req[c][i].result # "ok"
            /\ Answer(c, IF kind[c] = "author" THEN "partial" ELSE req[c][i].result)
      BY <1>11 DEF FollowerFailed, Failed, Succeeded
    <2>2. /\ phase[c] = "running" /\ i \in Requests
          /\ req[c][i].result \in Definite \cup {"unknown"}
      BY <1>1, <1>11, <2>1 DEF FollowerFailed, IInv, CallTypes, DispatchInv, Request, Requests
    <2>3. req[c][1].result = "ok" /\ req[c][1].pc = "ended"
      BY <1>1, <2>1 DEF IInv, OrderInv, DispatchInv, Requests
    <2>4. \A j \in Writes(kind[c]) : j = 1 \/ j = i
      BY <1>1, <2>1
    <2>5. CASE kind[c] = "author"
      <3>1. {1, 2} \subseteq Writes(kind[c]) /\ i = 2
        BY <1>1, <2>1, <2>5 DEF Writes, Requests
      <3>2. google[c][1] = "applied"
            /\ (req[c][2].result \in Definite => google[c][2] \in {"none", "refused"})
        BY <2>3, <3>1 DEF IInv, DispatchInv, Requests
      <3> QED
        BY <2>1, <2>2, <2>3, <2>4, <2>5, <3>2, AnswerKeeps DEF Answers, Definite
    <2>6. CASE kind[c] # "author"
      <3>1. 1 \notin Writes(kind[c])
        BY <1>1, <2>1, <2>6 DEF Writes, Followers, AllKinds
      <3>2. \A j \in Writes(kind[c]) :
              /\ req[c][j].pc = "ended"
              /\ req[c][i].result \in Definite => google[c][j] \in {"none", "refused"}
        BY <2>1, <2>2, <2>4, <3>1 DEF IInv, DispatchInv
      <3> QED
        BY <2>1, <2>2, <2>6, <3>2, AnswerKeeps DEF Answers, Definite
    <2> QED
      BY <2>5, <2>6
  <1>12. CASE AllSucceeded(c)
    <2>1. /\ phase[c] = "running" /\ Followers(kind[c]) # {}
          /\ \A i \in Followers(kind[c]) : req[c][i].result = "ok"
          /\ Answer(c, "ok") \/ Answer(c, "unknown")
      BY <1>12 DEF AllSucceeded, Succeeded
    <2>2. \A i \in Followers(kind[c]) : i \in Requests /\ req[c][i].pc = "ended"
      BY <1>1, <2>1 DEF IInv, DispatchInv, Requests
    <2>3. req[c][1].result = "ok" /\ req[c][1].pc = "ended"
      BY <1>1, <2>1, <2>2 DEF IInv, OrderInv, DispatchInv, Requests
    <2>4. \A i \in Writes(kind[c]) :
            req[c][i].pc = "ended" /\ req[c][i].result = "ok" /\ i \in Requests
      BY <1>1, <2>1, <2>2, <2>3 DEF Requests
    <2>5. \A i \in Writes(kind[c]) : google[c][i] = "applied"
      BY <2>4 DEF IInv, DispatchInv
    <2> QED
      BY <2>1, <2>4, <2>5, AnswerKeeps DEF Answers, Definite
  <1> QED
    BY <1>3, <1>4, <1>5, <1>7, <1>8, <1>9, <1>10, <1>11, <1>12 DEF Handle

\* What Google does of a write it was sent keeps the invariant: nothing has been
\* told of it but that its outcome is unknown.
LEMMA GoogleKeeps ==
    ASSUME IInv, NEW c \in Calls, NEW i \in Requests, GoogleActs(c, i)
    PROVE  IInv'
  <1>1. PICK o \in {"applied", "refused"} : google' = [google EXCEPT ![c][i] = o]
    BY DEF GoogleActs
  <1>2. google[c][i] = "sent" /\ UNCHANGED <<limit, kind, phase, answer, expired, used, req>>
    BY DEF GoogleActs
  <1>3. /\ google' \in [Calls -> [Requests -> {"none", "sent", "applied", "refused"}]]
        /\ \A d \in Calls : \A j \in Requests : google[d][j] # "sent" => google'[d][j] = google[d][j]
    BY <1>1, <1>2 DEF IInv, CallTypes
  <1>4. \A d \in Calls : Writes(kind[d]) \subseteq Requests
    BY DEF Writes
  <1>5. CallTypes' /\ OrderInv' /\ CountInv' /\ PopulationFunded'
    BY <1>2, <1>3 DEF IInv, CallTypes, OrderInv, CountInv, PopulationFunded
  <1>6. DispatchInv'
    BY <1>2, <1>3 DEF IInv, DispatchInv
  <1>7. 1 \in Requests /\ 2 \in Requests
    BY DEF Requests
  <1>8. FailureIsHonest'
    <2> SUFFICES ASSUME NEW d \in Calls
                 PROVE  FailureIsHonest!(d)'
      BY DEF FailureIsHonest
    <2>1. answer[d] \in Definite => \A j \in Writes(kind[d]) : google'[d][j] = google[d][j]
      BY <1>3, <1>4 DEF IInv, FailureIsHonest
    <2>2. (answer[d] = "partial" /\ req[d][2].result \in Definite) => google'[d][2] = google[d][2]
      BY <1>3, <1>7 DEF IInv, FailureIsHonest
    <2> QED
      BY <1>2, <2>1, <2>2 DEF IInv, FailureIsHonest
  <1>9. SuccessIsHonest'
    BY <1>2, <1>3, <1>4, <1>7 DEF IInv, SuccessIsHonest
  <1> QED
    BY <1>5, <1>6, <1>8, <1>9 DEF IInv

-----------------------------------------------------------------------------
(* The theorems *)

\* The invariant holds of every behaviour.
THEOREM CallPathInductive == Spec => []IInv
  <1>1. Init => IInv
    <2> SUFFICES ASSUME Init PROVE IInv
      OBVIOUS
    <2>1. NoRequest \in Request
      BY CallPathAssumption DEF NoRequest, Request
    <2>2. CallTypes
      BY <2>1 DEF Init, CallTypes
    <2>3. \A c \in Calls : \A i \in Requests :
            /\ req[c][i] = NoRequest /\ req[c][i].pc = "idle" /\ req[c][i].sends = 0
            /\ req[c][i].result = "none" /\ google[c][i] = "none"
      BY DEF Init, NoRequest
    <2>4. limit \in Nat
      BY CallPathAssumption DEF Init
    <2> QED
      BY <2>2, <2>3, <2>4 DEF Init, IInv, DispatchInv, OrderInv, CountInv, FailureIsHonest,
         SuccessIsHonest, PopulationFunded, Requests, Writes, Definite
  <1>2. IInv /\ [Next]_vars => IInv'
    <2> SUFFICES ASSUME IInv, [Next]_vars PROVE IInv'
      OBVIOUS
    <2>1. CASE UNCHANGED vars
      BY <2>1 DEF vars, IInv, CallTypes, DispatchInv, OrderInv, CountInv, FailureIsHonest,
         SuccessIsHonest, PopulationFunded
    <2>2. CASE Next
      <3>1. PICK c \in Calls :
              \/ Submit(c) \/ Expire(c) \/ Admit(c) \/ Handle(c)
              \/ \E i \in Requests : Proceed(c, i) \/ Reply(c, i) \/ GoogleActs(c, i)
        BY <2>2 DEF Next
      <3> QED
        BY <3>1, HandlerKeeps, RequestKeeps, GoogleKeeps
    <2> QED
      BY <2>1, <2>2
  <1> QED
    BY <1>1, <1>2, PTL DEF Spec

\* A definite failure is one (NativeWritePublicError and its callers).
THEOREM FailuresHonest == Spec => []FailureIsHonest
  <1>1. IInv => FailureIsHonest
    BY DEF IInv
  <1> QED
    BY <1>1, CallPathInductive, PTL

\* A success is one, and a partial creation left its document.
THEOREM SuccessesHonest == Spec => []SuccessIsHonest
  <1>1. IInv => SuccessIsHonest
    BY DEF IInv
  <1> QED
    BY <1>1, CallPathInductive, PTL

\* No write is dispatched twice (roundTripOnce).
THEOREM WritesOnce == Spec => []NoReplay
  <1>1. IInv => NoReplay
    BY DEF IInv, DispatchInv, NoReplay, Writes
  <1> QED
    BY <1>1, CallPathInductive, PTL

\* However many goroutines share a budget, the requests sent for a call never exceed
\* it (consumeUpstreamBudget).
THEOREM BudgetHolds == Spec => []BudgetKept
  <1>1. IInv => BudgetKept
    BY DEF IInv, CountInv, BudgetKept
  <1> QED
    BY <1>1, CallPathInductive, PTL

\* A creation that was begun can be finished: requireBudget has made sure of the
\* requests that fill what was created, and nobody else takes them.
THEOREM CreationsFunded == Spec => []PopulationFunded
  <1>1. IInv => PopulationFunded
    BY DEF IInv
  <1> QED
    BY <1>1, CallPathInductive, PTL

-----------------------------------------------------------------------------
(* Slots *)

SlotInv == SlotsAccounted /\ rtSlots <= RuntimeSlots /\ apiSlots <= ApiSlots

\* Request i of call c is now at p and no other request has moved.
AtPc(c, i, p) ==
  \A d \in Calls : \A j \in Requests :
    req'[d][j].pc = IF d = c /\ j = i THEN p ELSE req[d][j].pc

\* The sets that are counted are finite.
LEMMA SlotsFinite ==
    /\ IsFiniteSet(Held) /\ Cardinality(Held) \in Nat
    /\ IsFiniteSet(Running) /\ Cardinality(Running) \in Nat
  <1>1. IsFiniteSet(Requests)
    <2>1. IsFiniteSet({} \cup {1})
      BY FS_EmptySet, FS_AddElement
    <2>2. IsFiniteSet((({} \cup {1}) \cup {2}) \cup {3})
      BY <2>1, FS_AddElement
    <2>3. Requests = (({} \cup {1}) \cup {2}) \cup {3}
      BY DEF Requests
    <2> QED
      BY <2>2, <2>3
  <1>2. IsFiniteSet(Calls \X Requests)
    <2>1. IsFiniteSet(Calls)
      BY CallPathAssumption
    <2> QED
      BY <1>1, <2>1, FS_Product, Zenon
  <1>3. Held \in SUBSET (Calls \X Requests) /\ Running \in SUBSET Calls
    BY DEF Held, Running
  <1>4. IsFiniteSet(Held)
    BY <1>2, <1>3, FS_Subset
  <1>5. IsFiniteSet(Running)
    BY <1>3, CallPathAssumption, FS_Subset
  <1> QED
    BY <1>4, <1>5, FS_CardinalityType

\* A request that moves takes, keeps or returns one slot of the provider.
LEMMA ApiSlotsKept ==
    ASSUME SlotInv, NEW c \in Calls, NEW i \in Requests, NEW p, AtPc(c, i, p),
           UNCHANGED <<phase, rtSlots>>,
           \/ (req[c][i].pc \in Holding <=> p \in Holding) /\ apiSlots' = apiSlots
           \/ req[c][i].pc \in Holding /\ p \notin Holding /\ apiSlots' = apiSlots - 1
           \/ /\ req[c][i].pc \notin Holding /\ p \in Holding
              /\ apiSlots < ApiSlots /\ apiSlots' = apiSlots + 1
    PROVE  SlotInv'
  <1>1. <<c, i>> \in Held <=> req[c][i].pc \in Holding
    BY DEF Held
  <1>2. IsFiniteSet(Held) /\ Cardinality(Held) \in Nat /\ apiSlots = Cardinality(Held)
    BY SlotsFinite DEF SlotInv, SlotsAccounted
  <1>3. Running' = Running /\ ApiSlots \in Nat
    BY CallPathAssumption DEF Running
  <1>4. Held' = IF p \in Holding THEN Held \cup {<<c, i>>} ELSE Held \ {<<c, i>>}
    BY DEF Held, AtPc
  <1>5. /\ Cardinality(Held \cup {<<c, i>>}) =
             IF <<c, i>> \in Held THEN Cardinality(Held) ELSE Cardinality(Held) + 1
        /\ Cardinality(Held \ {<<c, i>>}) =
             IF <<c, i>> \in Held THEN Cardinality(Held) - 1 ELSE Cardinality(Held)
    BY <1>2, FS_AddElement, FS_RemoveElement
  <1>6. apiSlots' = Cardinality(Held') /\ apiSlots' <= ApiSlots
    <2> DEFINE inBefore == req[c][i].pc \in Holding
               inAfter == p \in Holding
               n == Cardinality(Held)
               m == Cardinality(Held')
    <2>1. m = IF inAfter THEN IF inBefore THEN n ELSE n + 1
                         ELSE IF inBefore THEN n - 1 ELSE n
      BY <1>1, <1>4, <1>5
    <2>2. /\ n \in Nat /\ apiSlots = n /\ n <= ApiSlots /\ ApiSlots \in Nat
          /\ \/ (inBefore <=> inAfter) /\ apiSlots' = n
             \/ inBefore /\ ~inAfter /\ apiSlots' = n - 1
             \/ ~inBefore /\ inAfter /\ n < ApiSlots /\ apiSlots' = n + 1
      BY <1>2, <1>3 DEF SlotInv
    <2> HIDE DEF inBefore, inAfter, n, m
    <2>3. apiSlots' = m /\ apiSlots' <= ApiSlots
      BY <2>1, <2>2
    <2> QED
      BY <2>3 DEF m
  <1> QED
    BY <1>3, <1>6 DEF SlotInv, SlotsAccounted

\* A call whose phase changes takes, keeps or returns one slot of the runtime.
LEMMA RtSlotsKept ==
    ASSUME SlotInv, CallTypes, NEW c \in Calls, NEW q,
           phase' = [phase EXCEPT ![c] = q], apiSlots' = apiSlots,
           \A d \in Calls : \A j \in Requests :
             req'[d][j].pc \in Holding <=> req[d][j].pc \in Holding,
           \/ (c \in Running <=> q \in {"admitted", "running"}) /\ rtSlots' = rtSlots
           \/ c \in Running /\ q \notin {"admitted", "running"} /\ rtSlots' = rtSlots - 1
           \/ /\ c \notin Running /\ q \in {"admitted", "running"}
              /\ rtSlots < RuntimeSlots /\ rtSlots' = rtSlots + 1
    PROVE  SlotInv'
  <1>1. IsFiniteSet(Running) /\ Cardinality(Running) \in Nat /\ rtSlots = Cardinality(Running)
    BY SlotsFinite DEF SlotInv, SlotsAccounted
  <1>2. Held' = Held /\ RuntimeSlots \in Nat
    BY CallPathAssumption DEF Held
  <1>3. Running' = IF q \in {"admitted", "running"} THEN Running \cup {c} ELSE Running \ {c}
    BY DEF Running, CallTypes
  <1>4. /\ Cardinality(Running \cup {c}) =
             IF c \in Running THEN Cardinality(Running) ELSE Cardinality(Running) + 1
        /\ Cardinality(Running \ {c}) =
             IF c \in Running THEN Cardinality(Running) - 1 ELSE Cardinality(Running)
    BY <1>1, FS_AddElement, FS_RemoveElement
  <1>5. rtSlots' = Cardinality(Running') /\ rtSlots' <= RuntimeSlots
    <2> DEFINE inBefore == c \in Running
               inAfter == q \in {"admitted", "running"}
               n == Cardinality(Running)
               m == Cardinality(Running')
    <2>1. m = IF inAfter THEN IF inBefore THEN n ELSE n + 1
                         ELSE IF inBefore THEN n - 1 ELSE n
      BY <1>3, <1>4
    <2>2. /\ n \in Nat /\ rtSlots = n /\ n <= RuntimeSlots /\ RuntimeSlots \in Nat
          /\ \/ (inBefore <=> inAfter) /\ rtSlots' = n
             \/ inBefore /\ ~inAfter /\ rtSlots' = n - 1
             \/ ~inBefore /\ inAfter /\ n < RuntimeSlots /\ rtSlots' = n + 1
      BY <1>1, <1>2 DEF SlotInv
    <2> HIDE DEF inBefore, inAfter, n, m
    <2>3. rtSlots' = m /\ rtSlots' <= RuntimeSlots
      BY <2>1, <2>2
    <2> QED
      BY <2>3 DEF m
  <1> QED
    BY <1>2, <1>5 DEF SlotInv, SlotsAccounted

\* The end of a request returns the slot it held and no other.
LEMMA EndSlots ==
    ASSUME SlotInv, CallTypes, NEW c \in Calls, NEW i \in Requests, NEW r, End(c, i, r)
    PROVE  SlotInv'
  <1>1. AtPc(c, i, "ended") /\ UNCHANGED <<phase, rtSlots>>
    BY DEF End, AtPc, CallTypes, Request
  <1>2. "ended" \notin Holding
    BY DEF Holding
  <1>3. CASE req[c][i].pc \in Holding
    BY <1>1, <1>2, <1>3, ApiSlotsKept DEF End
  <1>4. CASE req[c][i].pc \notin Holding
    BY <1>1, <1>2, <1>4, ApiSlotsKept DEF End
  <1> QED
    BY <1>3, <1>4

\* So does its failure, whatever the error.
LEMMA FailSlots ==
    ASSUME SlotInv, CallTypes, NEW c \in Calls, NEW i \in Requests, NEW e, Fail(c, i, e)
    PROVE  SlotInv'
  BY EndSlots DEF Fail

\* Every step of a request keeps the slots accounted for.
LEMMA RequestSlots ==
    ASSUME SlotInv, CallTypes, NEW c \in Calls, NEW i \in Requests,
           Proceed(c, i) \/ Reply(c, i)
    PROVE  SlotInv'
  <1> DEFINE stays == UNCHANGED <<phase, rtSlots, apiSlots>>
             moves(p) == AtPc(c, i, p) /\ stays
  <1>1. req \in [Calls -> [Requests -> Request]]
    BY DEF CallTypes
  <1>2. CASE GetToken(c, i)
    <2>1. CASE req' = [req EXCEPT ![c][i].pc = "slot"] /\ stays
      <3>1. AtPc(c, i, "slot")
        BY <1>1, <2>1 DEF AtPc, Request
      <3> QED
        BY <1>2, <2>1, <3>1, ApiSlotsKept DEF GetToken, Holding
    <2> QED
      BY <1>2, <2>1, FailSlots DEF GetToken
  <1>3. CASE TakeSlot(c, i)
    <2>1. CASE /\ apiSlots < ApiSlots /\ apiSlots' = apiSlots + 1
               /\ req' = [req EXCEPT ![c][i].pc = "load"] /\ UNCHANGED <<phase, rtSlots>>
      <3>1. AtPc(c, i, "load")
        BY <1>1, <2>1 DEF AtPc, Request
      <3> QED
        BY <1>3, <2>1, <3>1, ApiSlotsKept DEF TakeSlot, Holding
    <2> QED
      BY <1>3, <2>1, FailSlots DEF TakeSlot
  <1>4. ASSUME NEW p \in Holding, req[c][i].pc \in Holding, AtPc(c, i, p), stays
        PROVE  SlotInv'
    BY <1>4, ApiSlotsKept
  <1>5. CASE LoadBudget(c, i)
    <2>1. CASE req' = [req EXCEPT ![c][i].pc = "cas", ![c][i].seen = used[c]] /\ stays
      <3>1. AtPc(c, i, "cas")
        BY <1>1, <2>1 DEF AtPc, Request
      <3> QED
        BY <1>4, <1>5, <2>1, <3>1 DEF LoadBudget, Holding
    <2> QED
      BY <1>5, <2>1, FailSlots DEF LoadBudget
  <1>6. CASE SwapBudget(c, i)
    <2>1. AtPc(c, i, "load") \/ AtPc(c, i, "flight")
      BY <1>1, <1>6 DEF SwapBudget, AtPc, Request
    <2> QED
      BY <1>4, <1>6, <2>1 DEF SwapBudget, Holding
  <1>7. CASE AbandonFlight(c, i) \/ Rejected(c, i) \/ LoseAnswer(c, i) \/ RetryNoMore(c, i)
    BY <1>7, FailSlots DEF AbandonFlight, Rejected, LoseAnswer, RetryNoMore
  <1>8. CASE WakeUp(c, i)
    <2>1. CASE req' = [req EXCEPT ![c][i].pc = "load"] /\ stays
      <3>1. AtPc(c, i, "load")
        BY <1>1, <2>1 DEF AtPc, Request
      <3> QED
        BY <1>4, <1>8, <2>1, <3>1 DEF WakeUp, Holding
    <2> QED
      BY <1>8, <2>1, FailSlots DEF WakeUp
  <1>9. CASE Delivered(c, i)
    BY <1>9, EndSlots DEF Delivered
  <1>10. CASE RetryLater(c, i)
    <2>1. AtPc(c, i, "sleep") /\ stays
      BY <1>1, <1>10 DEF RetryLater, Back, AtPc, Request
    <2> QED
      BY <1>4, <1>10, <2>1 DEF RetryLater, Back, Holding
  <1> QED
    BY <1>2, <1>3, <1>5, <1>6, <1>7, <1>8, <1>9, <1>10 DEF Proceed, Reply

\* Every step of the handler keeps the slots accounted for.
LEMMA HandlerSlots ==
    ASSUME SlotInv, IInv, NEW c \in Calls,
           Submit(c) \/ Expire(c) \/ Admit(c) \/ Handle(c)
    PROVE  SlotInv'
  <1>1. CallTypes /\ phase \in [Calls -> {"idle", "queued", "admitted", "running", "done"}]
    BY DEF IInv, CallTypes
  <1>2. c \in Running <=> phase[c] \in {"admitted", "running"}
    BY DEF Running
  <1>3. ASSUME UNCHANGED <<req, apiSlots>>, NEW q, phase' = [phase EXCEPT ![c] = q],
               \/ (c \in Running <=> q \in {"admitted", "running"}) /\ rtSlots' = rtSlots
               \/ c \in Running /\ q \notin {"admitted", "running"} /\ rtSlots' = rtSlots - 1
               \/ /\ c \notin Running /\ q \in {"admitted", "running"}
                  /\ rtSlots < RuntimeSlots /\ rtSlots' = rtSlots + 1
        PROVE  SlotInv'
    BY <1>1, <1>3, RtSlotsKept
  <1>4. CASE Submit(c)
    BY <1>2, <1>3, <1>4 DEF Submit
  <1>5. CASE Expire(c)
    BY <1>5 DEF Expire, SlotInv, SlotsAccounted, Held, Running
  <1>6. CASE Admit(c)
    BY <1>2, <1>3, <1>6 DEF Admit
  <1>7. CASE GiveUpQueue(c)
    BY <1>2, <1>3, <1>7 DEF GiveUpQueue
  <1>8. ASSUME NEW a, Answer(c, a), phase[c] \in {"admitted", "running"}
        PROVE  SlotInv'
    BY <1>2, <1>3, <1>8 DEF Answer
  <1>9. ASSUME NEW S \in SUBSET Requests, StartRequests(c, S),
               \A i \in S : req[c][i].pc = "idle", phase[c] \in {"admitted", "running"}
        PROVE  SlotInv'
    <2>1. \A d \in Calls : \A j \in Requests :
            req'[d][j].pc \in Holding <=> req[d][j].pc \in Holding
      <3> DEFINE new == [i \in Requests |-> IF i \in S THEN [req[c][i] EXCEPT !.pc = "token"] ELSE req[c][i]]
      <3>1. req' = [req EXCEPT ![c] = new] /\ req \in [Calls -> [Requests -> Request]]
        BY <1>1, <1>9 DEF StartRequests, CallTypes
      <3>2. \A j \in Requests : new[j].pc = IF j \in S THEN "token" ELSE req[c][j].pc
        BY <3>1 DEF Request
      <3> HIDE DEF new
      <3> QED
        BY <1>9, <3>1, <3>2 DEF Holding
    <2> QED
      BY <1>1, <1>2, <1>9, <2>1, RtSlotsKept DEF StartRequests
  <1>10. CASE Begin(c)
    <2>1. \A i \in {1} : req[c][i].pc = "idle"
      BY <1>10 DEF Begin, IInv, OrderInv, Requests
    <2> QED
      BY <1>8, <1>9, <1>10, <2>1 DEF Begin, Requests
  <1>11. CASE FirstFailed(c)
    BY <1>8, <1>11 DEF FirstFailed
  <1>12. CASE FirstSucceeded(c)
    <2>1. Followers(kind[c]) \in SUBSET Requests
      BY DEF Followers
    <2> QED
      BY <1>8, <1>9, <1>12, <2>1 DEF FirstSucceeded
  <1>13. CASE FollowerFailed(c)
    BY <1>8, <1>13 DEF FollowerFailed
  <1>14. CASE AllSucceeded(c)
    BY <1>8, <1>14 DEF AllSucceeded
  <1> QED
    BY <1>4, <1>5, <1>6, <1>7, <1>10, <1>11, <1>12, <1>13, <1>14 DEF Handle

\* The slot invariant holds of every behaviour.
THEOREM SlotsInductive == Spec => []SlotInv
  <1>1. Init => SlotInv
    <2> SUFFICES ASSUME Init PROVE SlotInv
      OBVIOUS
    <2>1. Held = {} /\ Running = {}
      BY DEF Init, Held, Running, NoRequest, Holding
    <2> QED
      BY <2>1, CallPathAssumption, FS_EmptySet DEF Init, SlotInv, SlotsAccounted
  <1>2. SlotInv /\ IInv /\ [Next]_vars => SlotInv'
    <2> SUFFICES ASSUME SlotInv, IInv, [Next]_vars PROVE SlotInv'
      OBVIOUS
    <2>1. CASE UNCHANGED vars
      BY <2>1 DEF vars, SlotInv, SlotsAccounted, Held, Running
    <2>2. CASE Next
      <3>1. PICK c \in Calls :
              \/ Submit(c) \/ Expire(c) \/ Admit(c) \/ Handle(c)
              \/ \E i \in Requests : Proceed(c, i) \/ Reply(c, i) \/ GoogleActs(c, i)
        BY <2>2 DEF Next
      <3>2. CASE \E i \in Requests : GoogleActs(c, i)
        BY <3>2 DEF GoogleActs, SlotInv, SlotsAccounted, Held, Running
      <3>3. CallTypes
        BY DEF IInv
      <3> QED
        BY <3>1, <3>2, <3>3, HandlerSlots, RequestSlots
    <2> QED
      BY <2>1, <2>2
  <1> QED
    BY <1>1, <1>2, CallPathInductive, PTL DEF Spec

\* Every slot has one owner, for every number of calls and slots (the deferred
\* receive of nativeSlotTransport, Runtime.release).
THEOREM SlotsHold == Spec => []SlotsAccounted
  <1>1. SlotInv => SlotsAccounted
    BY DEF SlotInv
  <1> QED
    BY <1>1, SlotsInductive, PTL

\* The types, the bounds of both slot counters included.
THEOREM CallPathTypeCorrect == Spec => []TypeOK
  <1>1. IInv /\ SlotInv => TypeOK
    <2> SUFFICES ASSUME IInv, SlotInv PROVE TypeOK
      OBVIOUS
    <2>1. RuntimeSlots \in Nat /\ ApiSlots \in Nat
      BY CallPathAssumption
    <2> QED
      BY <2>1, SlotsFinite DEF IInv, SlotInv, SlotsAccounted, TypeOK
  <1> QED
    BY <1>1, CallPathInductive, SlotsInductive, PTL
=============================================================================
