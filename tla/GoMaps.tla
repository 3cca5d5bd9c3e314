------------------------------- MODULE GoMaps -------------------------------
(***************************************************************************)
(* Go maps as functions whose domain is the set of keys present: m[k] = v  *)
(* and delete(m, k).  The registry, the token store, the session table and *)
(* the client caches of the program are all maps of this shape.            *)
(***************************************************************************)

\* m[k] = v
SetKey(m, k, v) == [x \in DOMAIN m \cup {k} |-> IF x = k THEN v ELSE m[x]]

\* delete(m, k); deleting an absent key leaves the map as it is
DropKey(m, k) == [x \in DOMAIN m \ {k} |-> m[x]]

\* the map with no key
EmptyMap == [x \in {} |-> x]

\* m is a map from keys in K to values in V
IsMap(m, K, V) ==
    /\ m = [x \in DOMAIN m |-> m[x]]
    /\ DOMAIN m \subseteq K
    /\ \A k \in DOMAIN m : m[k] \in V
=============================================================================
