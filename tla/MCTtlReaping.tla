---------------------------- MODULE MCTtlReaping ----------------------------
(* Small instances of TtlReaping.  k1 and k2 collide on h1; k3 has h2 alone. *)
EXTENDS TtlReaping, TLC

CONSTANTS k1, k2, k3, h1, h2

MCHashOf == [k \in Keys |-> IF k = k3 THEN h2 ELSE h1]

\* Clients are interchangeable in the runs without liveness and without wipers.
ClientSymmetry == Permutations(Clients)

=============================================================================
