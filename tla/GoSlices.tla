------------------------------ MODULE GoSlices ------------------------------
(***************************************************************************)
(* The loop by which Go filters a slice: what passes a test is appended to *)
(* a new one.  The test is given by the places that pass it.  (SelectSeq   *)
(* has no definition that a proof could use.)                              *)
(***************************************************************************)
EXTENDS Naturals, Sequences

\* for i, x := range list { if i is in keep { out = append(out, x) } }
Filtered(list, keep) ==
    LET upTo[n \in 0 .. Len(list)] ==
            IF n = 0 THEN <<>> ELSE IF n \in keep THEN Append(upTo[n - 1], list[n]) ELSE upTo[n - 1]
    IN  upTo[Len(list)]
=============================================================================
