------------------------------- MODULE PipeClean -------------------------------
(***************************************************************************)
(* Two facts pipe.c relies on without checking them: there are at least as *)
(* many slots as processes (MAX_PIPE_PROC is 16, MAX_PROCESSES is 7), and  *)
(* the pages of a new pipe hold nothing that reads as a slot in use        *)
(* (alloc_pipe_info initialises slot 0 only).                              *)
(***************************************************************************)
EXTENDS Pipe

ASSUME EnoughSlots == Cardinality(Proc) <= MaxPipeProc

ASSUME CleanPages ==
  \A page \in PageContents, i \in Slot : ~ page[i].valid /\ page[i].open = {}
===============================================================================
