--------------------------- MODULE MCLendingQueue ---------------------------
(***************************************************************************)
(* Instances of LendingQueue for TLC.                                      *)
(***************************************************************************)
EXTENDS LendingQueue

CONSTANTS n1, n2, n3, b1, b2, x, y

\* x is the model that is lent, y another model of the same lane.  One
\* request for x can be on the backend, one at the helper and one held.
MCModelOf == [j \in Jobs |-> IF j = b2 THEN y ELSE x]

NativeSymmetry == Permutations({n1, n2})
=============================================================================
