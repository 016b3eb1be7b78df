---------------------------- MODULE MCPolicySwitch -----------------------------
(* Small instances of PolicySwitch. *)
EXTENDS PolicySwitch

\* lfu stacks cost more than fifo stacks; what all objects cost is in their size.
MCOverhead == [p \in Configured |-> IF p = "lfu" THEN 1 ELSE 0]

================================================================================
