---------------------------- MODULE MCStackReader ----------------------------
(* One session over one thread, with any number of attaches, reads and     *)
(* detaches; two contents of the stack are enough to tell two snapshots.   *)
EXTENDS StackReader

CONSTANTS old, new

MCContents == {old, new}

=============================================================================
