------------------------------- MODULE Gateway -------------------------------
(***************************************************************************)
(* Streamable HTTP: the process reads its flags and the file of callers,   *)
(* builds one runtime per caller, and serves requests: host, origin, token *)
(* and path are checked, then a request takes a global slot and a slot of  *)
(* its principal without waiting, and its tool calls wait for slots that   *)
(* the principal's callers share.  A signal cancels every request and      *)
(* waits a while for them.                                                 *)
(***************************************************************************)
EXTENDS AccessControl, GoMaps, FiniteSetsExt, Functions

CONSTANTS
    Flags,           \* command lines: [addr, file, stdioGrants, connect, loopback, principal]
    CallerFiles,     \* raw caller files: sequences of [id, digest, principal, grants, allow]
    Requests,        \* what may arrive: request IDs
    Tokens,          \* bearer tokens of at least 32 bytes; a token's digest is itself
    MaxCallers, MaxGlobal, MaxConcurrency, MaxBatch

ASSUME GatewayAssumption ==
    /\ IsFiniteSet(Requests)
    /\ MaxCallers \in Nat /\ MaxGlobal \in Nat /\ MaxConcurrency \in Nat /\ MaxBatch \in Nat
    /\ \A raws \in CallerFiles :
          /\ Len(raws) \in Nat /\ DOMAIN raws = 1..Len(raws)
          /\ \A i \in DOMAIN raws :
                DOMAIN raws[i] = {"id", "digest", "principal", "grants", "allow"}

VARIABLES
    gateway,   \* [phase, callers, page]: page is the principal of the account page
    requests,
    slots      \* the slots taken: [global, request, tool]

gatewayVars == <<gateway, requests, slots>>

DefaultPrincipal == "local"
NoRequest == [pc |-> "none", token |-> Unset, caller |-> 0, expired |-> FALSE, waiting |-> 0, running |-> 0]

------------------------------------------------------------------------------
(* The caller file.                                                         *)

\* a grant without a principal belongs to the caller's, one of another is refused
CompileCaller(raw) ==
    LET own(g) == IF g.principal = Unset THEN [g EXCEPT !.principal = raw.principal] ELSE g
        snap == [policies |-> <<>>, grants |-> {own(g) : g \in raw.grants},
                 allow |-> raw.allow \ {Unset}]
    IN  [ok |-> /\ raw.id # Unset /\ raw.principal # Unset /\ raw.digest # Unset
                /\ \A g \in snap.grants : g.principal = raw.principal
                /\ ValidSnapshot(snap),
         caller |-> [raw EXCEPT !.grants = snap.grants, !.allow = snap.allow]]

Compiled(raws) == [i \in DOMAIN raws |-> CompileCaller(raws[i]).caller]

\* fault seeded in ValidCallers: two callers may have the same token
ValidCallersByID(raws) ==
    /\ Len(raws) \in 1..MaxCallers
    /\ \A i \in DOMAIN raws : CompileCaller(raws[i]).ok
    /\ \A i, j \in DOMAIN raws : raws[i].id = raws[j].id => i = j

\* compileHTTPConfig accepts the file; NewHTTPGateway compiles it again, to the same
ValidCallers(raws) ==
    /\ Len(raws) \in 1..MaxCallers
    /\ \A i \in DOMAIN raws : CompileCaller(raws[i]).ok
    /\ \A i, j \in DOMAIN raws :
           (raws[i].id = raws[j].id \/ raws[i].digest = raws[j].digest) => i = j

UniquePrincipalIDs(callers) == {callers[i].principal : i \in DOMAIN callers}

------------------------------------------------------------------------------
(* Starting.                                                                *)

ValidFlags(f) == f.addr /\ f.file /\ ~f.stdioGrants

\* validateConnectAddr and connectPrincipalForHTTP
PageAllowed(f, callers) ==
    /\ f.loopback
    /\ Cardinality(UniquePrincipalIDs(callers)) = 1
    /\ f.principal \in {Unset, DefaultPrincipal} \cup UniquePrincipalIDs(callers)

GatewayInit ==
    /\ gateway = [phase |-> "starting", callers |-> <<>>, page |-> Unset]
    /\ requests = [r \in Requests |-> NoRequest]
    /\ slots = [global |-> 0, request |-> EmptyMap, tool |-> EmptyMap]

\* fault seeded in SlotKey: every caller has slots of its own
SlotKeyOfCaller(caller) == caller.id

\* the callers of a principal share slots, made with the first of them
SlotKey(caller) == caller.principal

ServeGateway ==
    /\ gateway.phase = "starting"
    /\ \E f \in Flags, raws \in CallerFiles :
        LET callers == Compiled(raws)
            up == /\ ValidFlags(f) /\ ValidCallers(raws)
                  /\ f.connect => PageAllowed(f, callers)
            none == [k \in {SlotKey(callers[i]) : i \in DOMAIN callers} |-> 0]
        IN  IF ~up THEN /\ gateway' = [gateway EXCEPT !.phase = "stopped"]
                        /\ UNCHANGED slots
            ELSE /\ gateway' = [phase |-> "serving", callers |-> callers,
                                page |-> IF f.connect THEN callers[1].principal ELSE Unset]
                 /\ slots' = [global |-> 0, request |-> none, tool |-> none]
    /\ UNCHANGED requests

------------------------------------------------------------------------------
(* Requests: ServeHTTP.                                                     *)

\* authenticate: the last caller whose digest matches
Matching(token) == {i \in DOMAIN gateway.callers : gateway.callers[i].digest = token}

Key(r) == SlotKey(gateway.callers[requests[r].caller])

Becomes(r, record) == requests' = [requests EXCEPT ![r] = record]

\* what the checks before the slots let in: the answer, or a caller
Arrive(r) ==
    /\ gateway.phase = "serving" /\ requests[r].pc = "none"
    /\ \E host, origin, path \in BOOLEAN, token \in Tokens \cup {Unset} :
        LET known == Matching(token)
        IN  Becomes(r, IF host /\ origin /\ path /\ known # {}
                       THEN [NoRequest EXCEPT !.pc = "admitted", !.token = token,
                                              !.caller = Max(known)]
                       ELSE [NoRequest EXCEPT !.pc = "answered"])
    /\ UNCHANGED <<gateway, slots>>

TakeGlobal(r) ==
    /\ requests[r].pc = "admitted"
    /\ IF slots.global < MaxGlobal
       THEN /\ slots' = [slots EXCEPT !.global = @ + 1]
            /\ Becomes(r, [requests[r] EXCEPT !.pc = "global"])
       ELSE Becomes(r, [requests[r] EXCEPT !.pc = "answered"]) /\ UNCHANGED slots
    /\ UNCHANGED gateway

\* refused, the handler returns and gives the global slot back
TakeCaller(r) ==
    /\ requests[r].pc = "global"
    /\ IF slots.request[Key(r)] < MaxConcurrency
       THEN /\ slots' = [slots EXCEPT !.request[Key(r)] = @ + 1]
            /\ \E n \in 0..MaxBatch :
                   Becomes(r, [requests[r] EXCEPT !.pc = "in", !.waiting = n])
       ELSE Becomes(r, [requests[r] EXCEPT !.pc = "leaving"]) /\ UNCHANGED slots
    /\ UNCHANGED gateway

\* runtime.acquire of a tool call in the request
StartTool(r) ==
    /\ requests[r].waiting > 0 /\ ~requests[r].expired
    /\ slots.tool[Key(r)] < MaxConcurrency
    /\ slots' = [slots EXCEPT !.tool[Key(r)] = @ + 1]
    /\ Becomes(r, [requests[r] EXCEPT !.waiting = @ - 1, !.running = @ + 1])
    /\ UNCHANGED gateway

GiveUpTool(r) ==
    /\ requests[r].waiting > 0 /\ requests[r].expired
    /\ Becomes(r, [requests[r] EXCEPT !.waiting = @ - 1])
    /\ UNCHANGED <<gateway, slots>>

EndTool(r) ==
    /\ requests[r].running > 0
    /\ slots' = [slots EXCEPT !.tool[Key(r)] = @ - 1]
    /\ Becomes(r, [requests[r] EXCEPT !.running = @ - 1])
    /\ UNCHANGED gateway

\* the request's deadline, a client that goes away, or the process's shutdown
ExpireRequest(r) ==
    /\ requests[r].pc = "in" /\ ~requests[r].expired
    /\ Becomes(r, [requests[r] EXCEPT !.expired = TRUE])
    /\ UNCHANGED <<gateway, slots>>

\* the handler returns, all calls answered or the context done: calls that still
\* run keep their tool slots until they notice
FinishRequest(r) ==
    /\ requests[r].pc = "in"
    /\ requests[r].expired \/ (requests[r].waiting = 0 /\ requests[r].running = 0)
    /\ slots' = [slots EXCEPT !.request[Key(r)] = @ - 1]
    /\ Becomes(r, [requests[r] EXCEPT !.pc = "leaving"])
    /\ UNCHANGED gateway

LeaveGlobal(r) ==
    /\ requests[r].pc = "leaving"
    /\ slots' = [slots EXCEPT !.global = @ - 1]
    /\ Becomes(r, [requests[r] EXCEPT !.pc = "answered"])
    /\ UNCHANGED gateway

NextRequest(r) ==
    /\ requests[r].pc = "answered" /\ requests[r].waiting = 0 /\ requests[r].running = 0
    /\ Becomes(r, NoRequest)
    /\ UNCHANGED <<gateway, slots>>

------------------------------------------------------------------------------
(* Stopping: ListenAndServeHTTP.                                            *)

Signal ==
    /\ gateway.phase = "serving"
    /\ gateway' = [gateway EXCEPT !.phase = "draining"]
    /\ requests' = [r \in Requests |-> [requests[r] EXCEPT !.expired = requests[r].pc # "none"]]
    /\ UNCHANGED slots

\* Shutdown returns: every handler has, or five seconds have passed
StopServing ==
    /\ gateway.phase = "draining"
    /\ gateway' = [gateway EXCEPT !.phase = "stopped"]
    /\ UNCHANGED <<requests, slots>>

HandleRequest(r) ==
    \/ TakeGlobal(r) \/ TakeCaller(r) \/ StartTool(r) \/ GiveUpTool(r) \/ EndTool(r)
    \/ ExpireRequest(r) \/ FinishRequest(r) \/ LeaveGlobal(r)

GatewayNext ==
    \/ ServeGateway \/ Signal \/ StopServing
    \/ \E r \in Requests : Arrive(r) \/ HandleRequest(r) \/ NextRequest(r)

------------------------------------------------------------------------------
(* Properties.                                                              *)

\* A request past the checks is served as the one caller its token belongs to,
\* with grants of that caller's principal alone, and the account page, which
\* trusts whoever opens it, belongs to the only principal there is.
GatewayIsolation ==
    /\ \A r \in Requests : LET q == requests[r] IN
        q.caller # 0 => /\ Matching(q.token) = {q.caller}
                        /\ \A g \in gateway.callers[q.caller].grants :
                               g.principal = gateway.callers[q.caller].principal
    /\ gateway.page # Unset => UniquePrincipalIDs(gateway.callers) = {gateway.page}

\* The requests and the tool calls of one principal, whichever of its callers made
\* them, never exceed its limit, nor all requests together the global one, and every
\* slot taken belongs to a request or a call: none is lost however a request ends.
GatewaySlots ==
    LET Of(p) == {r \in Requests : /\ requests[r].caller # 0
                                   /\ gateway.callers[requests[r].caller].principal = p}
        calls == [r \in Requests |-> requests[r].running]
    IN  /\ slots.global = Cardinality({r \in Requests : requests[r].pc \in {"global", "in", "leaving"}})
        /\ slots.global <= MaxGlobal
        /\ SumFunction(slots.request) = Cardinality({r \in Requests : requests[r].pc = "in"})
        /\ SumFunction(slots.tool) = SumFunction(calls)
        /\ \A p \in UniquePrincipalIDs(gateway.callers) :
              /\ Cardinality({r \in Of(p) : requests[r].pc = "in"}) <= MaxConcurrency
              /\ SumFunctionOnSet(calls, Of(p)) <= MaxConcurrency

\* A caller's isolation and the slots it shares, whatever requests, refusals,
\* cancellations and shutdowns interleave (http.go:137 handler, http_config.go:84).
GatewayKept == GatewayIsolation /\ GatewaySlots
=============================================================================
