-------------------------- MODULE MCClientProvider --------------------------
(* Instances of ClientProvider for TLC. *)
EXTENDS ClientProvider, TLC

CONSTANTS r1, r2, s1, s2

SomeRequests == Permutations(Requests)

=============================================================================
