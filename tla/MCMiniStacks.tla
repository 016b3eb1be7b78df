----------------------------- MODULE MCMiniStacks ------------------------------
(* Small instances of MiniStacks. *)
EXTENDS MiniStacks, TLC

MCConfigured == <<"mru", "2q">>

\* The order of get_policy_overhead.
MCOverhead == [p \in Policies |-> CASE p = "mru" -> 0 [] p = "2q" -> 2 [] OTHER -> 1]

SampledSymmetry == Permutations(Sampled)

================================================================================
