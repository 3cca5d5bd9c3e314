--------------------------- MODULE MediaArtifacts ---------------------------
(***************************************************************************)
(* The temporary media store of internal/mediaartifact: bounded process    *)
(* memory, a byte count kept apart from the entries, an expiry time and a  *)
(* timer for every entry, and entries bound to the identity that read the  *)
(* bytes.  Every operation runs under the store's mutex, so it is one      *)
(* operator from store to store.                                           *)
(***************************************************************************)
EXTENDS Naturals, FiniteSets, FiniteSetsExt, Functions, GoMaps

CONSTANTS
    MaxEntries,   \* maxEntries
    MaxBytes,     \* maxBytes
    MaxItem,      \* MaxItemBytes
    Lifetime      \* the ttl, in ticks of the clock

ASSUME MediaLimits == MaxEntries \in Nat /\ MaxBytes \in Nat /\ MaxItem \in Nat /\ Lifetime \in Nat

\* a reference is 16 random bytes: none is ever given out twice
EmptyStore == [entries |-> EmptyMap, bytes |-> 0, closed |-> FALSE, issued |-> {}]

Costs(st) == [u \in DOMAIN st.entries |-> st.entries[u].cost]

\* the expiry timer and expire may both remove an entry: the second finds none
DropArtifact(st, uri) ==
    IF uri \notin DOMAIN st.entries THEN st
    ELSE [st EXCEPT !.entries = DropKey(@, uri), !.bytes = @ - st.entries[uri].cost]

Expire(st, now) ==
    LET over == {u \in DOMAIN st.entries : now >= st.entries[u].expires}
    IN  [st EXCEPT !.entries = [u \in DOMAIN @ \ over |-> @[u]],
                   !.bytes = @ - SumFunctionOnSet(Costs(st), over)]

\* the identity is resolved and the operation only reads
Storable(id, readOnly) == readOnly /\ id.subject # "" /\ id.generation > 0

\* the store after Put, with ok whether a reference was returned
Put(st, now, uri, id, op, readOnly, size) ==
    LET live == Expire(st, now)
    IN  IF ~Storable(id, readOnly) \/ size > MaxItem \/ st.closed
        THEN [ok |-> FALSE, store |-> st]
        ELSE IF Cardinality(DOMAIN live.entries) >= MaxEntries \/ size > MaxBytes - live.bytes
        THEN [ok |-> FALSE, store |-> live]
        ELSE [ok |-> TRUE,
              store |-> [live EXCEPT
                  !.entries = SetKey(@, uri, [id |-> id, op |-> op, cost |-> size,
                                              expires |-> now + Lifetime]),
                  !.bytes = @ + size, !.issued = @ \cup {uri}]]

\* fault seeded in SameIdentity: only the account is compared
SameAccount(a, b) == a.account = b.account

\* the whole identity: account, owner, address, client, generation and scopes
SameIdentity(a, b) == a = b

\* Lookup and Read both expire first; Read compares the identity just authorised
Holds(st, now, uri) == uri \in DOMAIN Expire(st, now).entries
Readable(st, now, uri, id) ==
    Holds(st, now, uri) /\ SameIdentity(st.entries[uri].id, id)

Close(st) == [EmptyStore EXCEPT !.closed = TRUE, !.issued = st.issued]

\* the count agrees with the entries, and neither exceeds its bound
Accounted(st) ==
    /\ st.bytes = SumFunction(Costs(st))
    /\ st.bytes <= MaxBytes
    /\ Cardinality(DOMAIN st.entries) <= MaxEntries
    /\ st.closed => DOMAIN st.entries = {}
=============================================================================
