------------------------------ MODULE Iteration ------------------------------
(****************************************************************************)
(* A loop that turns a value count times: for (n = 1; n <= count; ++n)      *)
(* value = step[n][value].  It is a recursive function, so that proofs can  *)
(* be by induction on the turns.                                            *)
(****************************************************************************)
EXTENDS Integers

Iterate(step, base, count) ==
    LET value[n \in 0..count] ==
            IF n = 0 THEN base ELSE step[n][value[n - 1]]
    IN  value[count]
=============================================================================
