--------------------------- MODULE MCAtConnection ---------------------------
(***************************************************************************)
(* AtConnection with small values for TLC: see the .cfg files beside it.   *)
(***************************************************************************)
EXTENDS AtConnection

CONSTANTS main, eventLoop

\* The threads of examples/repl.py: the prompt and the event loop.
ReplThreads == {main, eventLoop}
=============================================================================
