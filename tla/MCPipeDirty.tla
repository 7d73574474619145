------------------------------ MODULE MCPipeDirty ------------------------------
(* Three processes and pages that come back from the allocator as they were
   given up: one that was never used, and one that was the buffer of a pipe
   and is full of bytes that read as slots in use *)
EXTENDS Pipe

MCProc3 == 1 .. 3

MCDirtyPages == {NoTable, [i \in Slot |-> [valid |-> TRUE, pid |-> 9, open |-> {}]]}
===============================================================================
