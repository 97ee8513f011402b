------------------------------ MODULE MCCapture ------------------------------
(* One slot, two modules of which one has FDEs, one other user of the      *)
(* cache: hits, loads, failures and refusals all happen.  Three frames are *)
(* the root, one in the middle and the last.                               *)
EXTENDS Capture

CONSTANTS old, new, whole, stripped, capture, other

MCContents == {old, new}

MCPaths == {whole, stripped}

MCIndexed == {whole}

MCOthers == {other}

=============================================================================
