-------------------------- MODULE MCOutstandingWalk --------------------------
(* Three addresses in one bucket or two; stacks 0 and 1, 0 being the key   *)
(* the walk starts from; a machine younger than MinAge and an older one;   *)
(* and enough changes to start the walk over twice.                        *)
EXTENDS OutstandingWalk

MCAddresses == {1, 2, 3}

MCStacks == {0, 1}

MCSizes == {1}

MCHashes == {[k \in 0 .. 3 |-> 0], [k \in 0 .. 3 |-> k % 2]}

=============================================================================
