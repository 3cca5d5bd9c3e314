-------------------------- MODULE MCAccountConnect --------------------------
(***************************************************************************)
(* Small instances of AccountConnect for TLC.                              *)
(***************************************************************************)
EXTENDS AccountConnectRefinement, TLC

CONSTANTS s1, s2

\* every subject keeps to addresses of its own, s1 has been renamed once
OwnEmails == [s \in Subjects |-> IF s = s1 THEN {"a@x", "b@x"} ELSE {"c@x"}]

\* the address s1 gave up is assigned to s2 afterwards
ReassignedEmails == [s \in Subjects |-> IF s = s1 THEN {"a@x", "b@x"} ELSE {"b@x"}]

OpSymmetry == Permutations(Ops)
=============================================================================
