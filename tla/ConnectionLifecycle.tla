------------------------ MODULE ConnectionLifecycle ------------------------
(***************************************************************************)
(* What the account connection controller promises the rest of the         *)
(* program about one OAuth client bucket: a Google subject has at most one *)
(* connection, it has one owner for as long as it exists, its generation   *)
(* grows with every consent and every disconnect, a disconnect cannot be   *)
(* undone, and calls are served with it only while it is active and only   *)
(* until its next change.                                                  *)
(***************************************************************************)
EXTENDS Naturals

CONSTANTS
    Subjects, Principals,
    NoOwner      \* the owner of a connection that does not exist

VARIABLES
    phase,       \* phase[s]: where the connection of subject s stands
    owner,       \* owner[s]: the principal it belongs to, NoOwner when absent
    generation,  \* generation[s]: its version, 0 when absent
    serving      \* the subjects for which an authenticated client is cached

vars == <<phase, owner, generation, serving>>

Phases == {"absent", "pending", "active", "disconnecting"}

Init ==
    /\ phase = [s \in Subjects |-> "absent"]
    /\ owner = [s \in Subjects |-> NoOwner]
    /\ generation = [s \in Subjects |-> 0]
    /\ serving = {}

\* s moves to phase p under a new generation, which ends what was served
Renew(s, p) ==
    /\ phase' = [phase EXCEPT ![s] = p]
    /\ generation' = [generation EXCEPT ![s] = @ + 1]
    /\ serving' = serving \ {s}

Connect(s, p) ==
    /\ phase[s] # "disconnecting"
    /\ phase[s] = "absent" \/ owner[s] = p
    /\ owner' = [owner EXCEPT ![s] = p]
    /\ Renew(s, "pending")

Activate(s) ==
    /\ phase[s] = "pending"
    /\ phase' = [phase EXCEPT ![s] = "active"]
    /\ UNCHANGED <<owner, generation, serving>>

BeginDisconnect(s) ==
    /\ phase[s] \in {"pending", "active"}
    /\ Renew(s, "disconnecting")
    /\ UNCHANGED owner

Forget(s) ==
    /\ phase[s] = "disconnecting"
    /\ phase' = [phase EXCEPT ![s] = "absent"]
    /\ owner' = [owner EXCEPT ![s] = NoOwner]
    /\ generation' = [generation EXCEPT ![s] = 0]
    /\ UNCHANGED serving

Serve(s) ==
    /\ phase[s] = "active"
    /\ serving' = serving \cup {s}
    /\ UNCHANGED <<phase, owner, generation>>

StopServing(S) ==
    /\ serving' = serving \ S
    /\ UNCHANGED <<phase, owner, generation>>

Next ==
    \/ \E s \in Subjects :
         \/ \E p \in Principals : Connect(s, p)
         \/ Activate(s) \/ BeginDisconnect(s) \/ Forget(s) \/ Serve(s)
    \/ \E S \in SUBSET Subjects : StopServing(S)

Spec == Init /\ [][Next]_vars
=============================================================================
