-------------------------------- MODULE MCPPipe --------------------------------
(* Small instances of PPipe *)
EXTENDS PPipeClean

MCProc2 == 1 .. 2
MCProc3 == 1 .. 3

\* A page that was never used, and one that held a persistent pipe before.
MCCleanPages ==
  {NoTable,
   [i \in Slot |-> [valid |-> FALSE, pid |-> 1, front |-> 1, empty |-> TRUE, open |-> {}]]}

\* The buffer page lies before the table, or after it: an entry of three words.
MCBufferBefore == {}
MCBufferAfter  == {[valid |-> 0, empty |-> 1, read |-> 2]}
===============================================================================
