----------------------------- MODULE MCCallPath -----------------------------
(* Instances of CallPath for TLC. *)
EXTENDS CallPath, TLC

CONSTANTS c1, c2, c3

=============================================================================
