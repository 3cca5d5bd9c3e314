---------------------- MODULE AccountConnectRefinement ----------------------
(***************************************************************************)
(* AccountConnect implements ConnectionLifecycle: the connection of a      *)
(* subject is its registry row, and it is served by the clients cached     *)
(* under the AccountID of that row.                                        *)
(***************************************************************************)
EXTENDS AccountConnect

RowOf(s) == records[CHOOSE id \in Owners(s) : TRUE]

Nobody == ""

PhaseOf(s)      == IF Owners(s) = {} THEN "absent" ELSE RowOf(s).state
OwnerOf(s)      == IF Owners(s) = {} THEN Nobody ELSE RowOf(s).principal
GenerationOf(s) == IF Owners(s) = {} THEN 0 ELSE RowOf(s).generation
Serving         == {records[id].subject : id \in DOMAIN records \cap DOMAIN clients}

Lifecycle == INSTANCE ConnectionLifecycle WITH
    NoOwner    <- Nobody,
    phase      <- [s \in Subjects |-> PhaseOf(s)],
    owner      <- [s \in Subjects |-> OwnerOf(s)],
    generation <- [s \in Subjects |-> GenerationOf(s)],
    serving    <- Serving

\* However callbacks, disconnects, listings, failed writes and restarts
\* interleave, each subject's connection moves through its phases as one
\* connection would that is handled by nobody else (Controller, FileRegistry
\* and NativeProvider.InvalidateAccount together).
ImplementsLifecycle == Lifecycle!Spec
=============================================================================
