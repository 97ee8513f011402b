--------------------------- MODULE MCModuleCache ----------------------------
(* Small instances of ModuleCache, shown to implement ModuleCacheSpec.  P4 *)
(* plays the name of 512 characters or more, cut to P3 when it is stored.  *)
EXTENDS ModuleCache, TLC

CONSTANTS P1, P2, P3, P4

MCPaths == {P1, P2, P3, P4}

LongStored == [p \in MCPaths |-> IF p = P4 THEN P3 ELSE p]

MCSymmetry == Permutations({P1, P2}) \cup Permutations(Clients)
                \cup Permutations(Blocks)

=============================================================================
