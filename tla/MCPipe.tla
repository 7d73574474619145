-------------------------------- MODULE MCPipe --------------------------------
(* Small instances of Pipe *)
EXTENDS PipeClean

MCProc3 == 1 .. 3
MCProc2 == 1 .. 2

\* A page that was never used, and one that held a pipe before: its slots
\* were freed one after the other and keep the pids they had.
MCCleanPages ==
  {NoTable,
   [i \in Slot |-> [valid |-> FALSE, pid |-> 1, open |-> {}]]}

\* Nobody reads what the last call returned, nor the bytes of a page that are
\* not between front and rear.
MCView ==
  <<state, files, refCount, kernel, slot, live,
    [q \in Pipe |-> <<ring[q].front, ring[q].rear, Bytes(ring[q])>>]>>
===============================================================================
