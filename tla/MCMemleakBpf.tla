----------------------------- MODULE MCMemleakBpf -----------------------------
(* Two threads, three addresses and an element less; one size is filtered, *)
(* and two blocks of the other overflow a stack's total.                   *)
EXTENDS MemleakBpf, TLC

MCSymmetry == Permutations(Threads) \cup Permutations(Addresses)
                \cup Permutations(Stacks) \cup Permutations(Slots)

MCBound == anomaly \subseteq {"torn read"}

=============================================================================
